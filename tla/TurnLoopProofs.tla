--------------------------- MODULE TurnLoopProofs ---------------------------
(***************************************************************************)
(* Proofs about TurnLoop, for any skills, batches, limits and bounds:      *)
(* types, the limit of tool calls, and what the model is sent.             *)
(*                                                                         *)
(* The argument about what is sent: the prompt, the scratchpad and the     *)
(* summary are each put where they belong without touching what stands     *)
(* between a message with calls and its results; a prune cuts the list     *)
(* where a turn of the user's begins, and that is never between these.     *)
(***************************************************************************)
EXTENDS TurnLoop, FiniteSetTheorems, SequenceTheorems, NaturalsInduction,
        WellFoundedInduction, TLAPS

-----------------------------------------------------------------------------
(* Numbers *)

\* In a finite set of numbers there is an n-th one, from the end.
LEMMA NthFromEnd ==
  ASSUME NEW K \in SUBSET Nat, IsFiniteSet(K), NEW n \in 1 .. Cardinality(K)
  PROVE  \E i \in K : Cardinality({j \in K : j >= i}) = n
<1>1. Cardinality(K) \in Nat
  BY FS_CardinalityType
<1>2. \A i \in K : /\ IsFiniteSet({j \in K : j >= i})
                   /\ Cardinality({j \in K : j >= i}) \in 1 .. Cardinality(K)
  <2>1. TAKE i \in K
  <2>2. {j \in K : j >= i} \in SUBSET K /\ i \in {j \in K : j >= i}
    OBVIOUS
  <2>3. /\ IsFiniteSet({j \in K : j >= i})
        /\ Cardinality({j \in K : j >= i}) <= Cardinality(K)
    BY <2>2, FS_Subset
  <2>4. Cardinality({j \in K : j >= i}) \in Nat /\ Cardinality({j \in K : j >= i}) # 0
    BY <2>2, <2>3, FS_CardinalityType, FS_EmptySet
  <2>5. QED
    BY <1>1, <2>3, <2>4
<1>3. PICK f : f = [i \in K |-> Cardinality({j \in K : j >= i})]
  OBVIOUS
<1>4. f \in [K -> 1 .. Cardinality(K)]
  BY <1>2, <1>3
<1>5. \A h, i \in K : h < i => f[h] # f[i]
  <2>1. SUFFICES ASSUME NEW h \in K, NEW i \in K, h < i PROVE f[h] # f[i]
    OBVIOUS
  <2>2. /\ {j \in K : j >= i} \in SUBSET {j \in K : j >= h}
        /\ h \in {j \in K : j >= h} /\ h \notin {j \in K : j >= i}
    <3>1. h \in Nat /\ i \in Nat /\ \A j \in K : j \in Nat
      OBVIOUS
    <3>2. \A j \in K : j >= i => j >= h
      BY <2>1, <3>1
    <3>3. ~(h >= i) /\ h >= h
      BY <2>1, <3>1
    <3>4. QED
      BY <3>2, <3>3
  <2>3. Cardinality({j \in K : j >= i}) # Cardinality({j \in K : j >= h})
    BY <1>2, <2>2, FS_Subset
  <2>4. QED
    BY <1>3, <2>3
<1>6. \A h, i \in K : f[h] = f[i] => h = i
  BY <1>5
<1>7. f \in Injection(K, 1 .. Cardinality(K))
  BY <1>4, <1>6 DEF Injection, IsInjective
<1>8. IsFiniteSet(1 .. Cardinality(K)) /\ Cardinality(1 .. Cardinality(K)) = Cardinality(K)
  BY <1>1, FS_Interval
<1>9. f \in Surjection(K, 1 .. Cardinality(K))
  BY <1>7, <1>8, FS_Injection
<1>10. QED
  BY <1>3, <1>9 DEF Surjection

\* The least of some numbers is one of them.
LEMMA FirstIs ==
  ASSUME NEW T \in SUBSET Nat, T # {}
  PROVE  Min(T) \in T /\ \A y \in T : Min(T) =< y
<1> DEFINE R == OpToRel(<, Nat)
<1>1. IsWellFoundedOn(R, Nat)
  BY NatLessThanWellFounded
<1>2. \A x, y \in Nat : y < x => <<y, x>> \in R
  BY DEF OpToRel
<1> HIDE DEF R
<1>3. PICK x \in T : \A y \in T : ~(<<y, x>> \in R)
  BY <1>1, WFMin, Zenon
<1>4. ASSUME NEW y \in T PROVE x =< y
  <2>1. x \in Nat /\ y \in Nat /\ ~(y < x)
    BY <1>2, <1>3, <1>4, Zenon
  <2>2. QED
    BY <2>1
<1>5. QED
  BY <1>3, <1>4, Zenon DEF Min

-----------------------------------------------------------------------------
(* Lists *)

\* w is u, of length a, and behind it v, of length r.
Joined(S, u, v, a, r, w) ==
  /\ w \in Seq(S) /\ Len(w) = a + r
  /\ \A i \in 1 .. a : w[i] = u[i]
  /\ \A j \in 1 .. r : w[a + j] = v[j]

LEMMA JoinedIs ==
  ASSUME NEW S, NEW u \in Seq(S), NEW v \in Seq(S), NEW a \in Nat,
         NEW r \in Nat, Len(u) = a, Len(v) = r, NEW w, w = u \o v
  PROVE  Joined(S, u, v, a, r, w)
<1>1. /\ w \in Seq(S) /\ Len(w) = Len(u) + Len(v)
      /\ \A i \in 1 .. Len(u) + Len(v) : w[i] = IF i <= Len(u) THEN u[i] ELSE v[i - Len(u)]
  BY ConcatProperties
<1>2. \A i \in 1 .. a : w[i] = u[i]
  BY <1>1
<1>3. \A j \in 1 .. r : w[a + j] = v[j]
  <2>1. TAKE j \in 1 .. r
  <2>2. a + j \in 1 .. Len(u) + Len(v) /\ ~(a + j <= Len(u)) /\ a + j - Len(u) = j
    OBVIOUS
  <2>3. QED
    BY <1>1, <2>2
<1>4. QED
  BY <1>1, <1>2, <1>3 DEF Joined

LEMMA OnlyIs ==
  ASSUME NEW S, NEW p \in S
  PROVE  \E x \in Seq(S) : x = <<p>> /\ Len(x) = 1 /\ x[1] = p
<1>1. <<p>> \in Seq(S) /\ Len(<<p>>) = 1 /\ <<p>>[1] = p
  OBVIOUS
<1>2. QED
  BY <1>1, Zenon

LEMMA RemovedIs ==
  ASSUME NEW S, NEW q \in Seq(S), NEW n \in Nat, n = Len(q), NEW k \in 1 .. n
  PROVE  /\ RemoveAt(q, k) \in Seq(S) /\ Len(RemoveAt(q, k)) = n - 1
         /\ \A i \in 1 .. n - 1 : RemoveAt(q, k)[i] = IF i < k THEN q[i] ELSE q[i + 1]
<1>1. PICK u, v : u = SubSeq(q, 1, k - 1) /\ v = SubSeq(q, k + 1, n)
  OBVIOUS
<1>2. PICK a \in Nat, r \in Nat : a = k - 1 /\ r = n - k
  <2>1. k - 1 \in Nat /\ n - k \in Nat
    OBVIOUS
  <2>2. QED
    BY <2>1
<1>3. u \in Seq(S) /\ Len(u) = a /\ \A i \in 1 .. a : u[i] = q[i]
  BY <1>1, <1>2
<1>4. v \in Seq(S) /\ Len(v) = r /\ \A j \in 1 .. r : v[j] = q[k + j]
  <2>1. PICK b \in 1 .. n + 1 : b = k + 1
    OBVIOUS
  <2>2. v = SubSeq(q, b, n) /\ r = n - b + 1
    BY <1>1, <1>2, <2>1
  <2>3. v \in Seq(S) /\ Len(v) = r /\ \A j \in 1 .. r : v[j] = q[b + j - 1]
    BY <2>2
  <2>4. \A j \in 1 .. r : b + j - 1 = k + j
    BY <2>1
  <2>5. QED
    BY <2>3, <2>4
<1>5. PICK w : w = u \o v
  OBVIOUS
<1>6. Joined(S, u, v, a, r, w)
  BY <1>3, <1>4, <1>5, JoinedIs
<1>7. w = RemoveAt(q, k)
  BY <1>1, <1>5 DEF RemoveAt
<1>8. \A i \in 1 .. n - 1 : w[i] = IF i < k THEN q[i] ELSE q[i + 1]
  <2>1. TAKE i \in 1 .. n - 1
  <2>2. CASE i < k
    <3>1. i \in 1 .. a
      BY <1>2, <2>2
    <3>2. QED
      BY <1>3, <1>6, <2>2, <3>1 DEF Joined
  <2>3. CASE ~(i < k)
    <3>1. PICK j \in 1 .. r : i = a + j /\ i + 1 = k + j
      <4>1. i - a \in 1 .. r /\ i = a + (i - a) /\ i + 1 = k + (i - a)
        BY <1>2, <2>3
      <4>2. QED
        BY <4>1
    <3>2. w[a + j] = v[j] /\ v[j] = q[k + j]
      BY <1>4, <1>6 DEF Joined
    <3>3. QED
      BY <2>3, <3>1, <3>2
  <2>4. QED
    BY <2>2, <2>3
<1>9. w \in Seq(S) /\ Len(w) = n - 1
  BY <1>2, <1>6 DEF Joined
<1>10. QED
  BY <1>7, <1>8, <1>9

-----------------------------------------------------------------------------
(* Messages *)

LEMMA MessageIs ==
  /\ \A kind, of : Message(kind, of).kind = kind /\ Message(kind, of).of = of
  /\ \A skills \in SUBSET Skills : Message("prompt", skills) \in Messages
  /\ \A kind \in {"scratchpad", "user", "summary"} :
       \A of \in SUBSET (0 .. MaxTurns + MaxCalls) : Message(kind, of) \in Messages
  /\ \A kind \in {"text", "calls", "result"} :
       \A of \in SUBSET Ids : Message(kind, of) \in Messages
BY DEF Message, Messages

LEMMA CoveredType ==
  ASSUME NEW m \in Seq(Messages)
  PROVE  /\ Users(m) \in SUBSET (0 .. MaxTurns + MaxCalls)
         /\ Summarised(m) \in SUBSET (0 .. MaxTurns + MaxCalls)
<1>1. \A i \in DOMAIN m : m[i] \in Messages
  OBVIOUS
<1>2. \A i \in DOMAIN m : m[i].kind \in {"user", "summary"} =>
        m[i].of \in SUBSET (0 .. MaxTurns + MaxCalls)
  BY <1>1 DEF Messages
<1>3. QED
  BY <1>2 DEF Users, Summarised

LEMMA CondensedType ==
  ASSUME NEW m \in Seq(Messages), NEW kept
  PROVE  Condensed(m, kept) \in Messages
<1>1. Users(m) \cup (Summarised(m) \cap kept) \in SUBSET (0 .. MaxTurns + MaxCalls)
  BY CoveredType
<1>2. QED
  BY <1>1, MessageIs DEF Condensed

LEMMA OverlaidIs ==
  ASSUME NEW m \in Seq(Messages), NEW skills \in SUBSET Skills
  PROVE  /\ Overlaid(m, skills) \in Seq(Messages)
         /\ Len(Overlaid(m, skills)) = Len(m)
         /\ Leads(m) => Overlaid(m, skills)[1] = Message("prompt", skills)
         /\ ~Leads(m) => Overlaid(m, skills) = m
         /\ \A i \in 2 .. Len(m) : Overlaid(m, skills)[i] = m[i]
<1>1. CASE Leads(m)
  <2>1. PICK p \in Messages : p = Message("prompt", skills)
    BY MessageIs
  <2>2. PICK o : o = [m EXCEPT ![1] = p]
    OBVIOUS
  <2>3. Overlaid(m, skills) = o
    BY <1>1, <2>1, <2>2 DEF Overlaid
  <2>4. 1 \in DOMAIN m
    BY <1>1 DEF Leads
  <2>5. o \in Seq(Messages) /\ Len(o) = Len(m) /\ o[1] = p /\ \A i \in 2 .. Len(m) : o[i] = m[i]
    BY <2>2, <2>4
  <2>6. QED
    BY <1>1, <2>1, <2>3, <2>5
<1>2. CASE ~Leads(m)
  BY <1>2 DEF Overlaid
<1>3. QED
  BY <1>1, <1>2

\* Where inject_scratchpad puts the scratchpad: in its place, or in a new one.
LEMMA ScratchedIs ==
  ASSUME NEW m \in Seq(Messages), NEW notes \in 0 .. MaxCalls
  PROVE  LET s == Scratched(m, notes)
             p == Message("scratchpad", {notes})
             k == IF Leads(m) THEN 2 ELSE 1
         IN /\ s \in Seq(Messages)
            /\ \/ notes = 0 /\ s = m
               \/ \E i \in DOMAIN m :
                    /\ m[i].kind = "scratchpad" /\ Len(s) = Len(m) /\ s[i] = p
                    /\ \A j \in DOMAIN m : j # i => s[j] = m[j]
               \/ /\ \A i \in DOMAIN m : m[i].kind # "scratchpad"
                  /\ Len(s) = Len(m) + 1 /\ s[k] = p /\ k <= Len(s)
                  /\ \A j \in 1 .. k - 1 : s[j] = m[j]
                  /\ \A j \in k .. Len(m) : s[j + 1] = m[j]
<1>1. PICK p \in Messages : p = Message("scratchpad", {notes})
  <2>1. {notes} \in SUBSET (0 .. MaxTurns + MaxCalls)
    BY LoopAssumption
  <2>2. QED
    BY <2>1, MessageIs
<1>2. CASE notes = 0
  BY <1>2 DEF Scratched
<1>3. CASE notes # 0 /\ ScratchpadAt(m) # {}
  <2>1. ScratchpadAt(m) \in SUBSET Nat
    BY DEF ScratchpadAt
  <2>2. PICK i \in DOMAIN m : i = Min(ScratchpadAt(m)) /\ m[i].kind = "scratchpad"
    BY <1>3, <2>1, FirstIs DEF ScratchpadAt
  <2>3. PICK s : s = [m EXCEPT ![i] = p]
    OBVIOUS
  <2>4. Scratched(m, notes) = s
    BY <1>1, <1>3, <2>2, <2>3 DEF Scratched
  <2>5. /\ s \in Seq(Messages) /\ Len(s) = Len(m) /\ s[i] = p
        /\ \A j \in DOMAIN m : j # i => s[j] = m[j]
    BY <2>3
  <2>6. QED
    BY <1>1, <2>2, <2>4, <2>5
<1>4. CASE notes # 0 /\ ScratchpadAt(m) = {}
  <2>1. PICK k \in {1, 2} : k = IF Leads(m) THEN 2 ELSE 1
    OBVIOUS
  <2>2. k <= Len(m) + 1
    BY <2>1 DEF Leads
  <2>3. PICK n \in Nat : n = Len(m)
    OBVIOUS
  <2>4. PICK u : u = SubSeq(m, 1, k - 1)
    OBVIOUS
  <2>5. PICK v : v = SubSeq(m, k, n)
    OBVIOUS
  <2>6. u \in Seq(Messages) /\ Len(u) = k - 1 /\ \A j \in 1 .. k - 1 : u[j] = m[j]
    BY <2>2, <2>3, <2>4
  <2>7. v \in Seq(Messages) /\ Len(v) = n - k + 1 /\ \A j \in 1 .. n - k + 1 : v[j] = m[k + j - 1]
    BY <2>2, <2>3, <2>5
  <2>8. PICK s : s = u \o <<p>> \o v
    OBVIOUS
  <2>9. Scratched(m, notes) = s
    BY <1>1, <1>4, <2>1, <2>3, <2>4, <2>5, <2>8 DEF Scratched, InsertAt
  <2>10. /\ s \in Seq(Messages) /\ Len(s) = n + 1 /\ s[k] = p
         /\ \A j \in 1 .. k - 1 : s[j] = u[j]
         /\ \A j \in 1 .. n - k + 1 : s[k + j] = v[j]
    BY SMTT(20), <2>6, <2>7, <2>8
  <2>11. \A j \in k .. n : s[j + 1] = m[j]
    <3>1. TAKE j \in k .. n
    <3>2. PICK h \in 1 .. n - k + 1 : h = j - k + 1
      OBVIOUS
    <3>3. s[k + h] = v[h] /\ v[h] = m[k + h - 1]
      BY <2>7, <2>10
    <3>4. k + h = j + 1 /\ k + h - 1 = j
      BY <3>2
    <3>5. QED
      BY <3>3, <3>4
  <2>12. \A i \in DOMAIN m : m[i].kind # "scratchpad"
    BY <1>4 DEF ScratchpadAt
  <2>13. QED
    BY <1>1, <2>1, <2>2, <2>3, <2>6, <2>9, <2>10, <2>11, <2>12
<1>5. QED
  BY <1>2, <1>3, <1>4

LEMMA PartOfPart ==
  ASSUME NEW S, NEW m \in Seq(S), NEW n \in 0 .. Len(m),
         NEW a \in 1 .. Len(m) + 1, NEW b \in 0 .. Len(m), b <= Len(m) - n
  PROVE  SubSeq(SubSeq(m, n + 1, Len(m)), a, b) = SubSeq(m, n + a, n + b)
<1>1. PICK z \in Nat : z = Len(m) /\ n <= z
  OBVIOUS
<1>2. PICK r : r = SubSeq(m, n + 1, z)
  OBVIOUS
<1>3. r \in Seq(S) /\ Len(r) = z - n /\ \A i \in 1 .. z - n : r[i] = m[n + i]
  BY <1>1, <1>2
<1>4. PICK u : u = SubSeq(r, a, b)
  OBVIOUS
<1>5. PICK v : v = SubSeq(m, n + a, n + b)
  OBVIOUS
<1>6. CASE a > b
  <2>1. u = <<>>
    BY <1>3, <1>4, <1>6
  <2>2. v = <<>>
    BY <1>5, <1>6
  <2>3. QED
    BY <1>1, <1>2, <1>4, <1>5, <2>1, <2>2
<1>7. CASE a <= b
  <2>1. PICK k \in Nat : k = b - a + 1
    BY <1>7
  <2>2. b <= z - n
    BY <1>1
  <2>3. u \in Seq(S) /\ Len(u) = k /\ \A i \in 1 .. k : u[i] = r[a + i - 1]
    BY <1>1, <1>3, <1>4, <1>7, <2>1, <2>2
  <2>4. v \in Seq(S) /\ Len(v) = k /\ \A i \in 1 .. k : v[i] = m[n + a + i - 1]
    BY <1>1, <1>5, <1>7, <2>1, <2>2
  <2>5. \A i \in 1 .. k : r[a + i - 1] = m[n + a + i - 1]
    <3>1. TAKE i \in 1 .. k
    <3>2. PICK h \in 1 .. z - n : h = a + i - 1
      BY <1>1, <1>7, <2>1, <2>2
    <3>3. r[h] = m[n + h]
      BY <1>3
    <3>4. n + h = n + a + i - 1
      BY <3>2
    <3>5. QED
      BY <3>2, <3>3, <3>4
  <2>6. u = v
    BY <2>3, <2>4, <2>5, SeqEqual
  <2>7. QED
    BY <1>1, <1>2, <1>4, <1>5, <2>6
<1>8. QED
  BY <1>6, <1>7

\* What pruning leaves: all, or a summary of the messages between the prompt
\* and a user message, and that message and the ones behind it.
Cut(m, kept, n, cut) ==
  /\ n = IF Leads(m) THEN 1 ELSE 0
  /\ n + 1 < cut /\ cut <= Len(m)
  /\ m[cut].kind = "user"
  /\ Pruned(m, kept) = SubSeq(m, 1, n) \o <<Condensed(SubSeq(m, n + 1, cut - 1), kept)>>
                   \o SubSeq(m, cut, Len(m))

LEMMA PrunedIs ==
  ASSUME NEW m \in Seq(Messages), NEW kept, Pruned(m, kept) # m
  PROVE  \E n \in {0, 1}, cut \in Nat : Cut(m, kept, n, cut)
<1>1. PICK n \in {0, 1} : n = IF Leads(m) THEN 1 ELSE 0
  OBVIOUS
<1>2. PICK z \in Nat : z = Len(m)
  OBVIOUS
<1>3. n <= z
  BY <1>1, <1>2 DEF Leads
<1>4. PICK lead : lead = SubSeq(m, 1, n)
  OBVIOUS
<1>5. lead = IF Leads(m) THEN <<m[1]>> ELSE <<>>
  BY <1>1, <1>3, <1>4 DEF Leads
<1>6. Len(lead) = n
  BY <1>3, <1>4
<1>7. PICK rest : rest = SubSeq(m, n + 1, z)
  OBVIOUS
<1>8. /\ rest \in Seq(Messages) /\ Len(rest) = z - n
      /\ \A i \in 1 .. z - n : rest[i] = m[n + i]
  BY <1>2, <1>3, <1>7
<1>9. PICK starts : starts = TurnStarts(rest)
  OBVIOUS
<1>10. starts \in SUBSET Nat /\ IsFiniteSet(starts)
  <2>1. starts \in SUBSET (1 .. z - n)
    BY <1>8, <1>9 DEF TurnStarts
  <2>2. IsFiniteSet(1 .. z - n)
    BY FS_Interval
  <2>3. \A i \in 1 .. z - n : i \in Nat
    OBVIOUS
  <2>4. IsFiniteSet(starts)
    BY <2>1, <2>2, FS_Subset
  <2>5. QED
    BY <2>1, <2>3, <2>4
<1>24. rest = SubSeq(m, Len(lead) + 1, Len(m))
  BY <1>2, <1>6, <1>7
<1>11. ~(Cardinality(starts) <= KeepLastTurns)
  BY <1>5, <1>9, <1>24, Zenon DEF Pruned
<1>12. KeepLastTurns \in 1 .. Cardinality(starts)
  BY <1>10, <1>11, LoopAssumption, FS_CardinalityType
<1>13. PICK c : c = CHOOSE i \in starts : Cardinality({j \in starts : j >= i}) = KeepLastTurns
  OBVIOUS
<1>14. c \in starts /\ Cardinality({j \in starts : j >= c}) = KeepLastTurns
  BY <1>10, <1>12, <1>13, NthFromEnd
<1>15. Pruned(m, kept)
         = lead \o <<Condensed(SubSeq(rest, 1, c - 1), kept)>> \o SubSeq(rest, c, z - n)
  <2>1. Pruned(m, kept) = lead \o <<Condensed(SubSeq(rest, 1, c - 1), kept)>>
                      \o SubSeq(rest, c, Len(rest))
    BY <1>5, <1>9, <1>11, <1>13, <1>24, Zenon DEF Pruned
  <2>2. QED
    BY <1>8, <2>1
<1>16. c # 1
  <2>1. SUFFICES ASSUME c = 1 PROVE FALSE
    OBVIOUS
  <2>2. \A j \in starts : j >= 1
    BY <1>8, <1>9 DEF TurnStarts
  <2>3. {j \in starts : j >= c} = starts
    BY <2>1, <2>2
  <2>4. Cardinality(starts) = KeepLastTurns
    BY <1>14, <2>3
  <2>5. Cardinality(starts) \in Nat
    BY <1>10, FS_CardinalityType
  <2>6. QED
    BY <1>11, <2>4, <2>5
<1>17. c \in 2 .. z - n /\ rest[c].kind = "user"
  BY <1>8, <1>9, <1>14, <1>16 DEF TurnStarts
<1>18. PICK cut \in Nat : cut = n + c
  BY <1>17
<1>19. m[cut].kind = "user" /\ n + 1 < cut /\ cut <= z
  BY <1>8, <1>17, <1>18
<1>20. SubSeq(rest, 1, c - 1) = SubSeq(m, n + 1, cut - 1)
  <2>1. PICK b \in 0 .. z : b = c - 1 /\ b <= z - n
    BY <1>3, <1>17
  <2>2. SubSeq(rest, 1, b) = SubSeq(m, n + 1, n + b)
    BY <1>2, <1>3, <1>7, <2>1, PartOfPart
  <2>3. n + b = cut - 1
    BY <1>17, <1>18, <2>1
  <2>4. QED
    BY <2>1, <2>2, <2>3
<1>21. SubSeq(rest, c, z - n) = SubSeq(m, cut, z)
  <2>1. PICK b \in 0 .. z : b = z - n
    BY <1>3
  <2>2. SubSeq(rest, c, b) = SubSeq(m, n + c, n + b)
    BY <1>2, <1>3, <1>7, <1>17, <2>1, PartOfPart
  <2>3. n + b = z
    BY <1>3, <2>1
  <2>4. QED
    BY <1>18, <2>1, <2>2, <2>3
<1>22. Cut(m, kept, n, cut)
  BY <1>1, <1>2, <1>4, <1>15, <1>19, <1>20, <1>21 DEF Cut
<1>23. QED
  BY <1>22

LEMMA PrunedType ==
  ASSUME NEW m \in Seq(Messages), NEW kept
  PROVE  Pruned(m, kept) \in Seq(Messages)
<1>1. CASE Pruned(m, kept) = m
  BY <1>1
<1>2. CASE Pruned(m, kept) # m
  <2>1. PICK n \in {0, 1}, cut \in Nat : Cut(m, kept, n, cut)
    BY <1>2, PrunedIs
  <2>2. n + 1 < cut /\ cut <= Len(m)
    BY <2>1 DEF Cut
  <2>3. SubSeq(m, 1, n) \in Seq(Messages)
    BY <2>2
  <2>4. SubSeq(m, cut, Len(m)) \in Seq(Messages)
    BY <2>2
  <2>5. SubSeq(m, n + 1, cut - 1) \in Seq(Messages)
    BY <2>2
  <2>6. PICK s \in Messages : s = Condensed(SubSeq(m, n + 1, cut - 1), kept)
    BY <2>5, CondensedType
  <2>7. Pruned(m, kept) = SubSeq(m, 1, n) \o <<s>> \o SubSeq(m, cut, Len(m))
    BY <2>1, <2>6 DEF Cut
  <2>8. QED
    BY <2>3, <2>4, <2>7
<1>3. QED
  BY <1>1, <1>2

-----------------------------------------------------------------------------
(* Contexts *)

Statuses == {"none", "started", "completed", "error"}

LEMMA ContextType ==
  ASSUME NEW c \in Contexts
  PROVE  /\ c.messages \in Seq(Messages) /\ c.calls \in [Ids -> Statuses]
         /\ c.skills \in SUBSET Skills /\ c.front \in [Skills -> SUBSET Skills]
         /\ c.notes \in Nat /\ c.cut \in BOOLEAN
BY DEF Contexts, Statuses

\* d has c's list of active skills.
SameSkills(c, d) == d.skills = c.skills /\ d.front = c.front

LEMMA BudgetAlike ==
  ASSUME NEW c, NEW d, SameSkills(c, d)
  PROVE  InBudget(d) = InBudget(c)
BY DEF InBudget, SameSkills

LEMMA BudgetType ==
  ASSUME NEW c \in Contexts
  PROVE  InBudget(c) \subseteq c.skills /\ InBudget(c) \in SUBSET Skills
BY ContextType DEF InBudget

\* d is c but for its messages.
Retold(c, d, m) ==
  /\ d \in Contexts
  /\ d.messages = m /\ d.calls = c.calls /\ SameSkills(c, d) /\ d.notes = c.notes
  /\ d.cut = c.cut

LEMMA RetoldIs ==
  ASSUME NEW c \in Contexts, NEW m \in Seq(Messages)
  PROVE  Retold(c, [c EXCEPT !.messages = m], m)
BY DEF Contexts, Retold, SameSkills

\* d is what a save of c stores: c, unless the beginning of its messages is cut off.
Saved(c, d) ==
  /\ d \in Contexts
  /\ d.calls = c.calls /\ SameSkills(c, d) /\ d.notes = c.notes
  /\ ~d.cut => ~c.cut /\ d.messages = c.messages

LEMMA SaidIs ==
  ASSUME NEW c \in Contexts, NEW x \in Messages
  PROVE  Retold(c, Said(c, x), Append(c.messages, x))
<1>1. PICK m \in Seq(Messages) : m = Append(c.messages, x)
  BY ContextType, AppendProperties
<1>2. Said(c, x) = [c EXCEPT !.messages = m]
  BY <1>1 DEF Said
<1>3. QED
  BY <1>1, <1>2, RetoldIs

LEMMA CompactedIs ==
  ASSUME NEW c \in Contexts
  PROVE  Saved(c, Compacted(c))
<1>1. CASE MaxPersisted > 0 /\ Len(c.messages) > MaxPersisted
  <2>1. PICK m : m = SubSeq(c.messages, Len(c.messages) - MaxPersisted + 1, Len(c.messages))
    OBVIOUS
  <2>2. m \in Seq(Messages)
    BY <1>1, <2>1, ContextType, LoopAssumption
  <2>3. PICK d : d = [c EXCEPT !.messages = m, !.cut = TRUE]
    OBVIOUS
  <2>4. Compacted(c) = d
    BY <1>1, <2>1, <2>3 DEF Compacted
  <2>5. /\ d \in Contexts /\ d.calls = c.calls /\ d.skills = c.skills /\ d.front = c.front
        /\ d.notes = c.notes /\ d.cut = TRUE
    BY <2>2, <2>3 DEF Contexts
  <2>6. QED
    BY <2>4, <2>5 DEF Saved, SameSkills
<1>2. CASE ~(MaxPersisted > 0 /\ Len(c.messages) > MaxPersisted)
  BY <1>2, Zenon DEF Compacted, Saved, SameSkills
<1>3. QED
  BY <1>1, <1>2

LEMMA RestoredIs ==
  ASSUME NEW c \in Contexts, NEW t \in 0 .. MaxTurns
  PROVE  \E o \in Seq(Messages) :
           /\ o = IF c.messages = <<>> THEN <<Message("prompt", {})>>
                  ELSE Overlaid(c.messages, {})
           /\ Message("user", {t}) \in Messages
           /\ Retold(c, Restored(c, t), Append(o, Message("user", {t})))
<1>1. PICK o : o = IF c.messages = <<>> THEN <<Message("prompt", {})>>
                   ELSE Overlaid(c.messages, {})
  OBVIOUS
<1>2. o \in Seq(Messages)
  <2>1. {} \in SUBSET Skills
    OBVIOUS
  <2>2. Message("prompt", {}) \in Messages
    BY <2>1, MessageIs
  <2>3. Overlaid(c.messages, {}) \in Seq(Messages)
    BY <2>1, ContextType, OverlaidIs
  <2>4. QED
    BY <1>1, <2>2, <2>3
<1>3. PICK x \in Messages : x = Message("user", {t})
  <2>1. {t} \in SUBSET (0 .. MaxTurns + MaxCalls)
    BY LoopAssumption
  <2>2. QED
    BY <2>1, MessageIs
<1>4. PICK m \in Seq(Messages) : m = Append(o, x)
  BY <1>2, AppendProperties
<1>5. Restored(c, t) = [c EXCEPT !.messages = m]
  BY <1>1, <1>3, <1>4 DEF Restored
<1>6. QED
  BY ZenonT(30), <1>1, <1>2, <1>3, <1>4, <1>5, RetoldIs

LEMMA TrackedIs ==
  ASSUME NEW c \in Contexts, NEW id \in Ids, NEW status \in Statuses
  PROVE  LET d == Tracked(c, id, status) IN
         /\ d \in Contexts
         /\ d.calls = [c.calls EXCEPT ![id] = status]
         /\ d.messages = c.messages /\ SameSkills(c, d) /\ d.notes = c.notes
         /\ d.cut = c.cut
<1>1. PICK f : f = [c.calls EXCEPT ![id] = status]
  OBVIOUS
<1>2. f \in [Ids -> Statuses]
  BY <1>1, ContextType
<1>3. Tracked(c, id, status) = [c EXCEPT !.calls = f]
  BY <1>1 DEF Tracked
<1>4. PICK d : d = [c EXCEPT !.calls = f]
  OBVIOUS
<1>5. /\ d \in Contexts /\ d.calls = f /\ d.messages = c.messages
      /\ d.skills = c.skills /\ d.front = c.front /\ d.notes = c.notes /\ d.cut = c.cut
  BY <1>2, <1>4 DEF Contexts, Statuses
<1>6. QED
  BY <1>1, <1>3, <1>4, <1>5 DEF SameSkills

\* d is c but for its list of skills.
Listed(c, d) ==
  /\ d \in Contexts
  /\ d.messages = c.messages /\ d.calls = c.calls /\ d.notes = c.notes /\ d.cut = c.cut

LEMMA ReducedIs ==
  ASSUME NEW c \in Contexts, NEW K
  PROVE  LET d == Reduced(c, K) IN
         /\ Listed(c, d)
         /\ d.skills = c.skills \cap K
         /\ \A s \in Skills \cap K : d.front[s] = c.front[s] \cap K
<1>1. PICK S : S = c.skills \cap K
  OBVIOUS
<1>2. PICK f : f = [s \in Skills |-> IF s \in K THEN c.front[s] \cap K ELSE {}]
  OBVIOUS
<1>3. S \in SUBSET Skills /\ f \in [Skills -> SUBSET Skills]
  BY <1>1, <1>2, ContextType
<1>4. PICK d : d = [c EXCEPT !.skills = S, !.front = f]
  OBVIOUS
<1>5. Listed(c, d) /\ d.skills = S /\ d.front = f
  BY <1>3, <1>4 DEF Contexts, Listed
<1>6. Reduced(c, K) = d
  BY <1>1, <1>2, <1>4 DEF Reduced
<1>7. QED
  BY <1>1, <1>2, <1>5, <1>6

LEMMA AddedIs ==
  ASSUME NEW c \in Contexts, NEW s \in Skills
  PROVE  LET d == Added(c, s) IN
         /\ Listed(c, d)
         /\ d.skills = c.skills \cup {s}
         /\ \A t \in c.skills : d.front[t] = c.front[t]
<1>1. CASE s \in c.skills
  BY <1>1 DEF Added, Listed
<1>2. CASE s \notin c.skills
  <2>1. PICK S : S = c.skills \cup {s}
    OBVIOUS
  <2>2. PICK f : f = [c.front EXCEPT ![s] = c.skills]
    OBVIOUS
  <2>3. S \in SUBSET Skills /\ f \in [Skills -> SUBSET Skills]
    BY <2>1, <2>2, ContextType
  <2>4. PICK d : d = [c EXCEPT !.skills = S, !.front = f]
    OBVIOUS
  <2>5. Listed(c, d) /\ d.skills = S /\ d.front = f
    BY <2>3, <2>4 DEF Contexts, Listed
  <2>6. Added(c, s) = d
    BY <1>2, <2>1, <2>2, <2>4 DEF Added
  <2>7. \A t \in c.skills : f[t] = c.front[t]
    BY <1>2, <2>2, ContextType
  <2>8. QED
    BY <2>1, <2>5, <2>6, <2>7
<1>3. QED
  BY <1>1, <1>2

LEMMA ExpiredIs ==
  ASSUME NEW c \in Contexts, NEW skip
  PROVE  LET d == Expired(c, skip) IN
         /\ d \in Contexts
         /\ d.messages = c.messages /\ d.calls = c.calls /\ d.notes = c.notes
         /\ d.cut = c.cut
         /\ d.skills = (c.skills \ OneTurn) \cup (c.skills \cap skip)
<1>1. PICK K : K = (Skills \ OneTurn) \cup skip
  OBVIOUS
<1>2. Expired(c, skip) = Reduced(c, K)
  BY <1>1 DEF Expired
<1>3. c.skills \cap K = (c.skills \ OneTurn) \cup (c.skills \cap skip)
  BY <1>1, ContextType
<1>4. Listed(c, Reduced(c, K)) /\ Reduced(c, K).skills = c.skills \cap K
  BY ReducedIs
<1>5. QED
  BY <1>2, <1>3, <1>4 DEF Listed

LEMMA DoneIs ==
  ASSUME NEW c \in Contexts, NEW a, a.skill \in Skills
  PROVE  LET d == Done(a, c) IN
         /\ d \in Contexts
         /\ d.notes = IF a.does = "note" THEN c.notes + 1 ELSE c.notes
         /\ d.skills = IF a.does = "activate" THEN c.skills \cup {a.skill}
                       ELSE IF a.does = "deactivate" THEN c.skills \ {a.skill}
                       ELSE c.skills
         /\ d.messages = c.messages /\ d.calls = c.calls /\ d.cut = c.cut
<1>1. CASE a.does = "note"
  <2>1. PICK d : d = [c EXCEPT !.notes = c.notes + 1]
    OBVIOUS
  <2>2. /\ d \in Contexts /\ d.notes = c.notes + 1 /\ d.skills = c.skills
        /\ d.messages = c.messages /\ d.calls = c.calls /\ d.cut = c.cut
    BY <2>1 DEF Contexts
  <2>3. Done(a, c) = d
    BY <1>1, <2>1 DEF Done
  <2>4. QED
    BY <1>1, <2>2, <2>3
<1>2. CASE a.does = "activate"
  <2>1. Done(a, c) = Added(c, a.skill)
    BY <1>2 DEF Done
  <2>2. QED
    BY <1>2, <2>1, AddedIs DEF Listed
<1>3. CASE a.does = "deactivate"
  <2>1. PICK K : K = Skills \ {a.skill}
    OBVIOUS
  <2>2. Done(a, c) = Reduced(c, K)
    BY <1>3, <2>1 DEF Done
  <2>3. Listed(c, Reduced(c, K)) /\ Reduced(c, K).skills = c.skills \cap K
    BY ReducedIs
  <2>4. c.skills \cap K = c.skills \ {a.skill}
    BY <2>1, ContextType
  <2>5. QED
    BY <1>3, <2>2, <2>3, <2>4 DEF Listed
<1>4. CASE a.does \notin {"note", "activate", "deactivate"}
  BY <1>4 DEF Done
<1>5. QED
  BY <1>1, <1>2, <1>3, <1>4

LEMMA SeededIs ==
  /\ Seeded \in Contexts
  /\ Seeded.messages = <<>> /\ Seeded.skills = {} /\ Seeded.notes = 0 /\ ~Seeded.cut
  /\ \A id \in Ids : Seeded.calls[id] = "none"
<1>1. [i \in Ids |-> "none"] \in [Ids -> Statuses]
  BY DEF Statuses
<1>2. <<>> \in Seq(Messages)
  OBVIOUS
<1>3. QED
  BY <1>1, <1>2 DEF Seeded, Contexts, Statuses

-----------------------------------------------------------------------------
(* Types *)

Actions == [id: Ids, does: {a.does : a \in Tools}, skill: Skills]

Given == {"none", "completed", "error"}

\* The calls of the batch that have not returned.
Waiting == {i \in DOMAIN batch : results[i] = "none"}

\* Every note was made by a call that the model was counted for.
NotesIssued ==
  /\ stored.notes <= issued /\ ctx.notes <= issued
  /\ pc \in {"opening", "running"} => ctx.notes + Cardinality(Waiting) <= issued

\* The loop over the calls is at one of them; they are closed when all returned.
Places ==
  /\ pc \in {"opening", "running", "closing"} => next \in DOMAIN batch
  /\ pc = "running" => next = 1
  /\ pc = "closing" => \A i \in DOMAIN batch : results[i] # "none"

TypesInv == TypeOK /\ NotesIssued /\ Places

LEMMA NotesFit ==
  ASSUME TypesInv
  PROVE  /\ ctx \in Contexts /\ stored \in Contexts
         /\ ctx.notes \in 0 .. MaxCalls /\ stored.notes \in 0 .. MaxCalls
BY LoopAssumption DEF TypesInv, TypeOK, NotesIssued, Contexts

\* The ids of the calls to run and of the displaced ones.
IdsOf(calls, rest) == {calls[j].id : j \in DOMAIN calls} \cup {rest[j] : j \in DOMAIN rest}

\* They differ; and only a call that runs alone displaces others.
Apart(calls, rest) ==
  /\ \A i, j \in DOMAIN calls : calls[i].id = calls[j].id => i = j
  /\ \A i, j \in DOMAIN rest : rest[i] = rest[j] => i = j
  /\ \A i \in DOMAIN calls, j \in DOMAIN rest : calls[i].id # rest[j]
  /\ Len(calls) > 1 => rest = <<>>

\* What an answer with calls does to the batch.
LEMMA BatchIs ==
  ASSUME TypeOK, NEW b \in Batches, AnswerCalls(b)
  PROVE  /\ Len(b) \in Nat \ {0} /\ issued' = issued + Len(b) /\ issued' \in 0 .. MaxCalls
         /\ batch' \in Seq(Actions) /\ Len(batch') \in 1 .. Len(b)
         /\ skipped' \in Seq(Ids)
         /\ results' = [i \in 1 .. Len(batch') |-> "none"]
         /\ Exclusive(b) = {} => Len(batch') = Len(b) /\ spent' = spent + Len(b)
         /\ Exclusive(b) # {} =>
              Len(batch') = 1 /\ batch'[1].does = "exclusive" /\ spent' = spent
         /\ Apart(batch', skipped')
         /\ \E ids \in SUBSET Ids :
              /\ ids = IdsOf(batch', skipped')
              /\ \E asked \in Contexts :
                   /\ asked = Said(ctx, Message("calls", ids))
                   /\ \/ Publish(ctx, asked, "opening")
                      \/ ctx' = asked /\ pc' = "opening" /\ UNCHANGED <<stored, errors>>
<1>1. b \in Seq(Tools) /\ b # <<>>
  BY LoopAssumption
<1>2. PICK n \in Nat \ {0} : n = Len(b) /\ DOMAIN b = 1 .. n
  BY <1>1
<1>3. issued \in Nat /\ issued + n <= MaxCalls /\ issued' = issued + n
  BY <1>2 DEF TypeOK, AnswerCalls
<1>4. PICK calls : calls = [i \in DOMAIN b |-> [id |-> issued + i, does |-> b[i].does,
                                                skill |-> b[i].skill]]
  OBVIOUS
<1>5. \A i \in 1 .. n : calls[i] \in Actions /\ calls[i].does = b[i].does
                         /\ calls[i].id = issued + i
  <2>1. TAKE i \in 1 .. n
  <2>2. b[i] \in Tools
    BY <1>1, <1>2
  <2>3. issued + i \in Ids
    BY <1>3, LoopAssumption DEF Ids
  <2>4. b[i].does \in {a.does : a \in Tools} /\ b[i].skill \in Skills
    BY <2>2 DEF Tools
  <2>5. calls[i] = [id |-> issued + i, does |-> b[i].does, skill |-> b[i].skill]
    BY <1>2, <1>4
  <2>6. QED
    BY <2>3, <2>4, <2>5 DEF Actions
<1>6. calls \in [1 .. n -> Actions]
  BY <1>2, <1>4, <1>5
<1>7. calls \in Seq(Actions) /\ Len(calls) = n /\ DOMAIN calls = 1 .. n
  BY <1>2, <1>4, <1>6, SeqDef
<1>8. PICK ids \in SUBSET Ids : ids = {calls[i].id : i \in DOMAIN calls}
  BY <1>5, <1>7 DEF Actions
<1>9. PICK asked \in Contexts : asked = Said(ctx, Message("calls", ids))
  <2>1. Message("calls", ids) \in Messages
    BY MessageIs
  <2>2. ctx \in Contexts
    BY DEF TypeOK
  <2>3. QED
    BY <2>1, <2>2, SaidIs DEF Retold
<1>10. /\ results' = [i \in DOMAIN batch' |-> "none"]
       /\ spent' = spent + Counted(b)
       /\ \/ Publish(ctx, asked, "opening")
          \/ ctx' = asked /\ pc' = "opening" /\ UNCHANGED <<stored, errors>>
  BY <1>4, <1>8, <1>9, Zenon DEF AnswerCalls
<1>11. spent \in Nat
  BY DEF TypeOK
<1>12. CASE Exclusive(b) = {}
  <2>1. batch' = calls /\ skipped' = <<>>
    BY <1>4, <1>12, Zenon DEF AnswerCalls
  <2>2. spent' = spent + n
    BY <1>2, <1>10, <1>12 DEF Counted
  <2>3. results' = [i \in 1 .. Len(batch') |-> "none"]
    BY <1>7, <1>10, <2>1
  <2>4. skipped' \in Seq(Ids) /\ DOMAIN skipped' = {}
    BY <2>1
  <2>5. Apart(batch', skipped')
    <3>1. \A i, j \in 1 .. n : calls[i].id = calls[j].id => i = j
      BY <1>3, <1>5
    <3>2. QED
      BY <1>7, <2>1, <2>4, <3>1 DEF Apart
  <2>6. ids = IdsOf(batch', skipped')
    BY <1>8, <2>1, <2>4 DEF IdsOf
  <2>7. QED
    BY <2>5, <2>6, <1>2, <1>3, <1>7, <1>9, <1>10, <1>12, <2>1, <2>2, <2>3, <2>4, LoopAssumption
<1>13. CASE Exclusive(b) # {}
  <2>1. Exclusive(b) \in SUBSET Nat /\ Exclusive(b) \in SUBSET (1 .. n)
    BY <1>2 DEF Exclusive
  <2>2. PICK k \in 1 .. n : k = Min(Exclusive(b)) /\ b[k].does = "exclusive"
    BY <1>13, <2>1, FirstIs DEF Exclusive
  <2>3. PICK all : all = [i \in DOMAIN b |-> calls[i].id]
    OBVIOUS
  <2>4. batch' = <<calls[k]>> /\ skipped' = RemoveAt(all, k)
    BY <1>4, <1>13, <2>2, <2>3, Zenon DEF AnswerCalls
  <2>5. all \in [1 .. n -> Ids]
    BY <1>2, <1>5, <2>3 DEF Actions
  <2>6. all \in Seq(Ids) /\ Len(all) = n
    BY <2>3, <2>5, <1>2, SeqDef
  <2>7. PICK rest : rest = skipped'
    OBVIOUS
  <2>8. /\ rest \in Seq(Ids) /\ Len(rest) = n - 1
        /\ \A i \in 1 .. n - 1 : rest[i] = IF i < k THEN all[i] ELSE all[i + 1]
    <3>1. rest = RemoveAt(all, k)
      BY <2>4, <2>7
    <3>2. n \in Nat /\ n = Len(all)
      BY <1>2, <2>6
    <3>3. /\ RemoveAt(all, k) \in Seq(Ids) /\ Len(RemoveAt(all, k)) = n - 1
          /\ \A i \in 1 .. n - 1 : RemoveAt(all, k)[i] = IF i < k THEN all[i] ELSE all[i + 1]
      BY <2>6, <3>2, RemovedIs
    <3>4. QED
      BY <3>1, <3>3
  <2>9. calls[k] \in Actions /\ calls[k].does = "exclusive"
    BY <1>5, <2>2
  <2>10. batch' \in Seq(Actions) /\ Len(batch') = 1 /\ batch'[1] = calls[k]
    BY <2>4, <2>9
  <2>11. spent' = spent
    BY <1>10, <1>11, <1>13 DEF Counted
  <2>12. results' = [i \in 1 .. Len(batch') |-> "none"]
    BY <1>10, <2>10
  <2>13. \A i \in 1 .. n : all[i] = issued + i /\ calls[i].id = issued + i
    BY <1>2, <1>5, <2>3
  <2>14. DOMAIN rest = 1 .. n - 1 /\ DOMAIN batch' = 1 .. 1 /\ batch'[1].id = issued + k
    BY <2>2, <2>8, <2>10, <2>13
  <2>15. \A i \in 1 .. n - 1 : rest[i] = IF i < k THEN issued + i ELSE issued + i + 1
    <3>1. TAKE i \in 1 .. n - 1
    <3>2. i \in 1 .. n /\ i + 1 \in 1 .. n /\ issued + (i + 1) = issued + i + 1
      BY <1>3
    <3>3. all[i] = issued + i /\ all[i + 1] = issued + i + 1
      BY <2>13, <3>2
    <3>4. QED
      BY <2>8, <3>3
  <2>16. Apart(batch', skipped')
    <3>1. \A i, j \in 1 .. n - 1 : rest[i] = rest[j] => i = j
      BY <1>3, <2>15
    <3>2. \A j \in 1 .. n - 1 : issued + k # rest[j]
      BY <1>3, <2>2, <2>15
    <3>3. \A i \in 1 .. 1 : i = 1
      OBVIOUS
    <3>4. QED
      BY <2>7, <2>10, <2>14, <3>1, <3>2, <3>3 DEF Apart
  <2>17. ids = IdsOf(batch', skipped')
    <3>1. ids = {issued + i : i \in 1 .. n}
      BY <1>7, <1>8, <2>13
    <3>2. \A i \in 1 .. 1 : i = 1
      OBVIOUS
    <3>3. {batch'[j].id : j \in DOMAIN batch'} = {issued + k}
      BY <2>14, <3>2
    <3>4. \A i \in 1 .. n : issued + i = issued + k \/ \E j \in 1 .. n - 1 : rest[j] = issued + i
      <4>1. TAKE i \in 1 .. n
      <4>2. CASE i < k
        <5>1. i \in 1 .. n - 1 /\ rest[i] = issued + i
          BY <2>2, <2>15, <4>2
        <5>2. QED
          BY <5>1
      <4>3. CASE i > k
        <5>1. PICK j \in 1 .. n - 1 : i = j + 1 /\ ~(j < k)
          <6>1. i - 1 \in 1 .. n - 1 /\ i = (i - 1) + 1 /\ ~(i - 1 < k)
            BY <2>2, <4>3
          <6>2. QED
            BY <6>1
        <5>2. rest[j] = issued + j + 1 /\ issued + j + 1 = issued + i
          BY <1>3, <2>15, <5>1
        <5>3. QED
          BY <5>2
      <4>4. QED
        BY <2>2, <4>2, <4>3
    <3>5. \A j \in 1 .. n - 1 : \E i \in 1 .. n : rest[j] = issued + i
      <4>1. TAKE j \in 1 .. n - 1
      <4>2. j \in 1 .. n /\ j + 1 \in 1 .. n /\ issued + j + 1 = issued + (j + 1)
        BY <1>3
      <4>3. QED
        BY <2>15, <4>2
    <3>6. QED
      BY ZenonT(30), <2>2, <2>7, <2>14, <3>1, <3>3, <3>4, <3>5 DEF IdsOf
  <2>18. skipped' \in Seq(Ids)
    BY <2>7, <2>8
  <2>19. QED
    BY <2>16, <2>17, <2>18, <1>2, <1>3, <1>9, <1>10, <1>13, <2>8, <2>9, <2>10, <2>11, <2>12,
       LoopAssumption
<1>14. QED
  BY <1>12, <1>13

\* The two outcomes of publish_durable_event.
LEMMA PublishIs ==
  ASSUME TypeOK, NEW c \in Contexts, NEW d \in Contexts, NEW s \in Stages, Publish(c, d, s)
  PROVE  /\ stored' \in Contexts /\ ctx' \in Contexts /\ pc' \in Stages
         /\ errors' \in 0 .. MaxErrors
         /\ \/ /\ pc' = s /\ ctx' = d /\ errors' = errors
               /\ Saved(c, stored')
            \/ /\ pc' = "failing" /\ ctx' = c /\ errors' = errors + 1 /\ stored' = stored
<1>1. Saved(c, Compacted(c)) /\ Compacted(c) \in Contexts
  BY CompactedIs DEF Saved
<1>2. CASE stored' = Compacted(c) /\ ctx' = d /\ pc' = s /\ errors' = errors
  BY <1>1, <1>2 DEF TypeOK
<1>3. CASE /\ errors < MaxErrors /\ errors' = errors + 1
           /\ ctx' = c /\ pc' = "failing" /\ stored' = stored
  BY <1>3, LoopAssumption DEF TypeOK, Stages
<1>4. QED
  BY <1>2, <1>3 DEF Publish

\* A save outside the tools keeps the notes within bounds.
LEMMA PublishNotes ==
  ASSUME TypesInv, NEW c \in Contexts, NEW d \in Contexts, NEW s \in Stages,
         Publish(c, d, s), s \notin {"opening", "running"},
         c.notes = ctx.notes, d.notes = ctx.notes, issued' = issued
  PROVE  NotesIssued'
<1>1. stored.notes <= issued /\ ctx.notes <= issued
  BY DEF TypesInv, NotesIssued
<1>2. \/ pc' = s /\ ctx' = d /\ Saved(c, stored')
      \/ pc' = "failing" /\ ctx' = c /\ stored' = stored
  BY PublishIs DEF TypesInv
<1>3. stored'.notes \in {stored.notes, ctx.notes} /\ ctx'.notes = ctx.notes
  BY <1>2 DEF Saved
<1>4. pc' \notin {"opening", "running"}
  BY <1>2
<1>5. QED
  BY <1>1, <1>3, <1>4 DEF NotesIssued

LEMMA StartTypes ==
  ASSUME TypesInv, StartTurn
  PROVE  TypesInv'
<1>1. stored \in Contexts /\ turn + 1 \in 0 .. MaxTurns
  BY LoopAssumption DEF TypesInv, TypeOK, StartTurn
<1>2. ctx' \in Contexts /\ ctx'.notes = stored.notes
  BY <1>1, RestoredIs DEF StartTurn, Retold
<1>3. TypeOK'
  BY <1>1, <1>2 DEF TypesInv, TypeOK, StartTurn, Stages, work
<1>4. NotesIssued' /\ Places'
  BY <1>2 DEF TypesInv, NotesIssued, Places, StartTurn, work
<1>5. QED
  BY <1>3, <1>4 DEF TypesInv

LEMMA IterateTypes ==
  ASSUME TypesInv, Iterate
  PROVE  TypesInv'
<1>1. ctx \in Contexts /\ ctx.notes \in 0 .. MaxCalls
  BY NotesFit
<1>2. PICK m : m = Scratched(Overlaid(ctx.messages, InBudget(ctx)), ctx.notes)
  OBVIOUS
<1>3. m \in Seq(Messages)
  BY <1>1, <1>2, ContextType, BudgetType, OverlaidIs, ScratchedIs
<1>4. ctx' = [ctx EXCEPT !.messages = m]
  BY <1>2 DEF Iterate
<1>5. Retold(ctx, ctx', m)
  BY <1>1, <1>3, <1>4, RetoldIs
<1>6. ctx' \in Contexts /\ ctx'.notes = ctx.notes /\ ctx.skills \in SUBSET Skills
  BY <1>1, <1>5, ContextType DEF Retold
<1>7. TypeOK'
  BY <1>6 DEF TypesInv, TypeOK, Iterate, Stages, work, history
<1>8. NotesIssued' /\ Places'
  BY <1>6 DEF TypesInv, NotesIssued, Places, Iterate, work, history
<1>9. QED
  BY <1>7, <1>8 DEF TypesInv

LEMMA LimitTypes ==
  ASSUME TypesInv, Limit
  PROVE  TypesInv'
<1>1. ctx \in Contexts /\ ctx.skills \in SUBSET Skills
  BY NotesFit, ContextType
<1>2. Publish(ctx, ctx, "finalize") /\ "finalize" \in Stages /\ issued' = issued
  BY DEF Limit, Stages
<1>3. /\ stored' \in Contexts /\ ctx' \in Contexts /\ pc' \in Stages
      /\ errors' \in 0 .. MaxErrors /\ pc' \in {"finalize", "failing"}
  BY <1>1, <1>2, PublishIs DEF TypesInv
<1>4. NotesIssued'
  BY <1>1, <1>2, PublishNotes
<1>5. TypeOK'
  BY <1>1, <1>3 DEF TypesInv, TypeOK, Limit, work, history
<1>6. Places'
  BY <1>3 DEF Places
<1>7. QED
  BY <1>4, <1>5, <1>6 DEF TypesInv

LEMMA PruneTypes ==
  ASSUME TypesInv, Prune
  PROVE  TypesInv'
<1>1. ctx \in Contexts
  BY NotesFit
<1>2. PICK kept, m : /\ m \in {ctx.messages, Pruned(ctx.messages, kept)}
                     /\ ctx' = [ctx EXCEPT !.messages = m]
  BY DEF Prune
<1>3. m \in Seq(Messages)
  BY <1>1, <1>2, ContextType, PrunedType
<1>4. Retold(ctx, ctx', m)
  BY <1>1, <1>2, <1>3, RetoldIs
<1>5. ctx' \in Contexts /\ ctx'.notes = ctx.notes
  BY <1>4 DEF Retold
<1>6. shows' \in [Skills -> Nat]
  BY DEF TypesInv, TypeOK, Prune
<1>7. TypeOK'
  BY <1>5, <1>6 DEF TypesInv, TypeOK, Prune, Stages, work
<1>8. NotesIssued' /\ Places'
  BY <1>5 DEF TypesInv, NotesIssued, Places, Prune, work
<1>9. QED
  BY <1>7, <1>8 DEF TypesInv

LEMMA RaiseTypes ==
  ASSUME TypesInv, Raise
  PROVE  TypesInv'
<1>1. TypeOK'
  BY LoopAssumption DEF TypesInv, TypeOK, Raise, Stages, work, history
<1>2. NotesIssued' /\ Places'
  BY DEF TypesInv, NotesIssued, Places, Raise, work, history
<1>3. QED
  BY <1>1, <1>2 DEF TypesInv

LEMMA AnswerCallsTypes ==
  ASSUME TypesInv, NEW b \in Batches, AnswerCalls(b)
  PROVE  TypesInv'
<1>1. /\ Len(b) \in Nat \ {0} /\ issued' = issued + Len(b) /\ issued' \in 0 .. MaxCalls
      /\ batch' \in Seq(Actions) /\ Len(batch') \in 1 .. Len(b)
      /\ skipped' \in Seq(Ids)
      /\ results' = [i \in 1 .. Len(batch') |-> "none"]
      /\ spent' \in {spent, spent + Len(b)}
  BY BatchIs DEF TypesInv
<1>2. PICK ids \in SUBSET Ids, asked \in Contexts :
        /\ asked = Said(ctx, Message("calls", ids))
        /\ \/ Publish(ctx, asked, "opening")
           \/ ctx' = asked /\ pc' = "opening" /\ UNCHANGED <<stored, errors>>
  BY BatchIs DEF TypesInv
<1>3. ctx \in Contexts /\ asked.notes = ctx.notes
  BY <1>2, NotesFit, MessageIs, SaidIs DEF Retold
<1>4. "opening" \in Stages
  BY DEF Stages
<1>5. /\ stored' \in Contexts /\ ctx' \in Contexts /\ pc' \in {"opening", "failing"}
      /\ errors' \in 0 .. MaxErrors
      /\ ctx'.notes = ctx.notes /\ stored'.notes \in {stored.notes, ctx.notes}
  <2>1. CASE Publish(ctx, asked, "opening")
    BY <1>2, <1>3, <1>4, <2>1, PublishIs DEF TypesInv, Retold, Saved
  <2>2. CASE ctx' = asked /\ pc' = "opening" /\ UNCHANGED <<stored, errors>>
    BY <1>3, <2>2 DEF TypesInv, TypeOK
  <2>3. QED
    BY <1>2, <2>1, <2>2
<1>6. results' \in Seq(Given) /\ Len(results') = Len(batch') /\ DOMAIN batch' = 1 .. Len(batch')
  <2>1. PICK k \in Nat : k = Len(batch')
    BY <1>1
  <2>2. results' \in [1 .. k -> Given] /\ DOMAIN results' = 1 .. k
    BY <1>1, <2>1 DEF Given
  <2>3. results' \in Seq(Given) /\ Len(results') = k
    BY <2>2, SeqDef
  <2>4. QED
    BY <1>1, <2>1, <2>3
<1>7. TypeOK'
  <2>1. UNCHANGED <<turn, atStart, stops, shows, ran>> /\ next' = 1 /\ fresh' = {}
    BY DEF AnswerCalls
  <2>2. spent' \in Nat
    BY <1>1 DEF TypesInv, TypeOK
  <2>3. pc' \in Stages
    BY <1>5 DEF Stages
  <2>4. QED
    BY <1>1, <1>5, <1>6, <2>1, <2>2, <2>3 DEF TypesInv, TypeOK, Actions, Given
<1>8. Cardinality(Waiting') \in Nat /\ Cardinality(Waiting') <= Len(b)
  <2>1. PICK k \in Nat : k = Len(batch') /\ k <= Len(b)
    BY <1>1
  <2>2. Waiting' \in SUBSET (1 .. k)
    BY <1>6, <2>1 DEF Waiting
  <2>3. IsFiniteSet(1 .. k) /\ Cardinality(1 .. k) = k
    BY FS_Interval
  <2>4. Cardinality(Waiting') <= k /\ Cardinality(Waiting') \in Nat
    BY <2>2, <2>3, FS_Subset, FS_CardinalityType
  <2>5. QED
    BY <1>1, <2>1, <2>4
<1>10. NotesIssued'
  <2>1. /\ stored.notes \in Nat /\ ctx.notes \in Nat /\ issued \in Nat
        /\ stored.notes <= issued /\ ctx.notes <= issued
    BY LoopAssumption DEF TypesInv, TypeOK, NotesIssued, Contexts
  <2>2. /\ stored'.notes <= issued' /\ ctx'.notes <= issued'
        /\ ctx'.notes + Cardinality(Waiting') <= issued'
    BY <1>1, <1>5, <1>8, <2>1
  <2>3. QED
    BY <2>2 DEF NotesIssued
<1>11. Places'
  <2>1. next' = 1 /\ 1 \in DOMAIN batch'
    BY <1>1, <1>6 DEF AnswerCalls
  <2>2. QED
    BY <1>5, <2>1 DEF Places
<1>12. QED
  BY <1>7, <1>10, <1>11 DEF TypesInv

LEMMA WaitingFinite ==
  ASSUME TypeOK
  PROVE  /\ IsFiniteSet(Waiting) /\ Cardinality(Waiting) \in Nat
         /\ \A i \in Waiting : Cardinality(Waiting) >= 1
<1>1. PICK k \in Nat : k = Len(batch) /\ DOMAIN batch = 1 .. k
  BY DEF TypeOK
<1>2. IsFiniteSet(1 .. k)
  BY FS_Interval
<1>3. Waiting \in SUBSET (1 .. k)
  BY <1>1 DEF Waiting
<1>4. IsFiniteSet(Waiting) /\ Cardinality(Waiting) \in Nat
  BY <1>2, <1>3, FS_Subset, FS_CardinalityType
<1>5. \A i \in Waiting : Cardinality(Waiting) # 0
  BY <1>4, FS_EmptySet
<1>6. QED
  BY <1>4, <1>5

LEMMA NextIs ==
  ASSUME TypesInv, pc \in {"opening", "closing"}
  PROVE  /\ next \in 1 .. Len(batch) /\ Len(batch) \in Nat \ {0}
         /\ batch[next] \in Actions /\ batch[next].id \in Ids /\ batch[next].skill \in Skills
         /\ results[next] \in Given
         /\ (IF AtLast THEN 1 ELSE next + 1) \in 1 .. Len(batch)
<1>1. batch \in Seq(Actions) /\ results \in Seq(Given) /\ Len(results) = Len(batch)
  BY DEF TypesInv, TypeOK, Actions, Given
<1>2. next \in 1 .. Len(batch)
  BY <1>1 DEF TypesInv, Places
<1>3. batch[next] \in Actions /\ results[next] \in Given
  BY <1>1, <1>2
<1>4. QED
  BY <1>1, <1>2, <1>3 DEF Actions, AtLast

\* What opening a call saves, and what the loop goes on with.
LEMMA OpenIs ==
  ASSUME TypesInv, OpenCall
  PROVE  \E c \in Contexts, d \in Contexts, s \in {"running", "opening"},
            passed \in Seq(Messages) :
           /\ Publish(c, d, s) /\ s = IF AtLast THEN "running" ELSE "opening"
           /\ c = Tracked(ctx, batch[next].id, "started")
           /\ passed = [i \in DOMAIN skipped |-> Message("result", {skipped[i]})]
           /\ Retold(c, d, c.messages \o passed)
<1>1. ctx \in Contexts /\ batch[next].id \in Ids /\ "started" \in Statuses
  BY NotesFit, NextIs DEF OpenCall, Statuses
<1>2. PICK c \in Contexts : c = Tracked(ctx, batch[next].id, "started")
  BY <1>1, TrackedIs
<1>3. PICK passed : passed = [i \in DOMAIN skipped |-> Message("result", {skipped[i]})]
  OBVIOUS
<1>4. passed \in Seq(Messages)
  <2>1. skipped \in Seq(Ids)
    BY DEF TypesInv, TypeOK
  <2>2. PICK k \in Nat : k = Len(skipped) /\ DOMAIN skipped = 1 .. k
    BY <2>1
  <2>3. \A i \in 1 .. k : {skipped[i]} \in SUBSET Ids
    BY <2>1, <2>2
  <2>4. \A i \in 1 .. k : Message("result", {skipped[i]}) \in Messages
    BY <2>3, MessageIs
  <2>5. passed \in [1 .. k -> Messages]
    BY <1>3, <2>2, <2>4
  <2>6. QED
    BY <2>5, SeqDef
<1>5. PICK m \in Seq(Messages) : m = c.messages \o passed
  BY <1>2, <1>4, ContextType, ConcatProperties
<1>6. PICK d : d = [c EXCEPT !.messages = m]
  OBVIOUS
<1>7. Retold(c, d, m)
  BY <1>2, <1>5, <1>6, RetoldIs
<1>8. d = [c EXCEPT !.messages = @ \o passed]
  BY <1>5, <1>6
<1>9. PICK s \in {"running", "opening"} : s = IF AtLast THEN "running" ELSE "opening"
  OBVIOUS
<1>10. Publish(c, d, s)
  BY <1>2, <1>3, <1>8, <1>9, Zenon DEF OpenCall
<1>11. d \in Contexts
  BY <1>7 DEF Retold
<1>12. QED
  BY <1>2, <1>3, <1>4, <1>5, <1>7, <1>9, <1>10, <1>11

LEMMA OpenTypes ==
  ASSUME TypesInv, OpenCall
  PROVE  TypesInv'
<1>1. PICK c \in Contexts, d \in Contexts, s \in {"running", "opening"},
           passed \in Seq(Messages) :
         /\ Publish(c, d, s) /\ s = IF AtLast THEN "running" ELSE "opening"
         /\ c = Tracked(ctx, batch[next].id, "started")
         /\ Retold(c, d, c.messages \o passed)
  BY OpenIs
<1>2. c.notes = ctx.notes /\ d.notes = ctx.notes
  <2>1. ctx \in Contexts /\ batch[next].id \in Ids /\ "started" \in Statuses
    BY NotesFit, NextIs DEF OpenCall, Statuses
  <2>2. Tracked(ctx, batch[next].id, "started").notes = ctx.notes
    BY <2>1, TrackedIs
  <2>3. d.notes = c.notes
    BY <1>1 DEF Retold
  <2>4. QED
    BY <1>1, <2>2, <2>3
<1>3. s \in Stages
  BY DEF Stages
<1>4. /\ stored' \in Contexts /\ ctx' \in Contexts /\ pc' \in Stages
      /\ errors' \in 0 .. MaxErrors
      /\ pc' \in {s, "failing"}
      /\ stored'.notes \in {stored.notes, ctx.notes} /\ ctx'.notes = ctx.notes
  <2>1. /\ stored' \in Contexts /\ ctx' \in Contexts /\ pc' \in Stages
        /\ errors' \in 0 .. MaxErrors
        /\ \/ pc' = s /\ ctx' = d /\ Saved(c, stored')
           \/ pc' = "failing" /\ ctx' = c /\ stored' = stored
    BY <1>1, <1>3, PublishIs DEF TypesInv
  <2>2. QED
    BY <1>2, <2>1 DEF Saved
<1>5. UNCHANGED <<turn, spent, atStart, batch, skipped, results, issued, stops,
                  shows, fresh, ran>>
      /\ next' = IF AtLast THEN 1 ELSE next + 1
  BY DEF OpenCall, history
<1>6. pc = "opening"
  BY DEF OpenCall
<1>7. next' \in 1 .. Len(batch)
  BY <1>5, <1>6, NextIs
<1>8. next' \in Nat /\ next' \in DOMAIN batch
  BY <1>7 DEF TypesInv, TypeOK
<1>9. TypeOK'
  BY <1>4, <1>5, <1>8 DEF TypesInv, TypeOK
<1>10. Waiting' = Waiting
  BY <1>5 DEF Waiting
<1>11. NotesIssued'
  BY <1>4, <1>5, <1>6, <1>10 DEF TypesInv, NotesIssued
<1>12. Places'
  <2>1. pc' = "running" => next' = 1
    BY <1>1, <1>4, <1>5
  <2>2. pc' # "closing"
    BY <1>1, <1>4
  <2>3. QED
    BY <1>5, <1>8, <2>1, <2>2 DEF Places
<1>13. QED
  BY <1>9, <1>11, <1>12 DEF TypesInv

\* What a call that returns does.
LEMMA RunIs ==
  ASSUME TypesInv, NEW i \in DOMAIN batch, Run(i)
  PROVE  /\ pc = "running" /\ i \in Waiting
         /\ batch[i].skill \in Skills /\ batch[i].id \in Ids
         /\ results' \in Seq(Given) /\ Len(results') = Len(results)
         /\ Waiting' = Waiting \ {i}
         /\ pc' = IF Waiting' = {} THEN "closing" ELSE "running"
         /\ \/ /\ ctx' = ctx
               /\ UNCHANGED <<fresh, shows>>
            \/ /\ ctx' = Done(batch[i], ctx) /\ batch[i].does = "note"
               /\ UNCHANGED <<fresh, shows>>
            \/ /\ Permitted(batch[i], ctx)
               /\ ctx' = Done(batch[i], ctx)
               /\ fresh' = IF batch[i].does = "activate"
                           THEN fresh \cup ({batch[i].skill} \ atStart)
                           ELSE IF batch[i].does = "deactivate"
                           THEN fresh \ {batch[i].skill} ELSE fresh
               /\ shows' = IF batch[i].does = "activate" /\ batch[i].skill \notin ctx.skills
                           THEN [shows EXCEPT ![batch[i].skill] = 0] ELSE shows
<1>1. batch \in Seq(Actions) /\ results \in Seq(Given) /\ Len(results) = Len(batch)
  BY DEF TypesInv, TypeOK, Actions, Given
<1>2. DOMAIN results = DOMAIN batch
  BY <1>1
<1>3. batch[i] \in Actions
  BY <1>1
<1>4. PICK r \in {"completed", "error"} : results' = [results EXCEPT ![i] = r]
  BY DEF Run
<1>5. results' \in Seq(Given) /\ Len(results') = Len(results)
  BY <1>1, <1>2, <1>4 DEF Given
<1>6. \A j \in DOMAIN batch : results'[j] = IF j = i THEN r ELSE results[j]
  BY <1>2, <1>4
<1>7. batch' = batch
  BY DEF Run
<1>8. Waiting' = Waiting \ {i}
  BY <1>6, <1>7 DEF Waiting
<1>9. (\A j \in DOMAIN batch : results'[j] # "none") <=> Waiting' = {}
  BY <1>7 DEF Waiting
<1>10. pc' = IF Waiting' = {} THEN "closing" ELSE "running"
  BY <1>9 DEF Run
<1>11. pc = "running" /\ i \in Waiting
  BY DEF Run, Waiting
<1>12. batch[i].skill \in Skills /\ batch[i].id \in Ids
  BY <1>3 DEF Actions
<1>13. \/ /\ ctx' = ctx
          /\ UNCHANGED <<fresh, shows>>
       \/ /\ ctx' = Done(batch[i], ctx) /\ batch[i].does = "note"
          /\ UNCHANGED <<fresh, shows>>
       \/ /\ Permitted(batch[i], ctx)
          /\ ctx' = Done(batch[i], ctx)
          /\ fresh' = IF batch[i].does = "activate"
                      THEN fresh \cup ({batch[i].skill} \ atStart)
                      ELSE IF batch[i].does = "deactivate"
                      THEN fresh \ {batch[i].skill} ELSE fresh
          /\ shows' = IF batch[i].does = "activate" /\ batch[i].skill \notin ctx.skills
                      THEN [shows EXCEPT ![batch[i].skill] = 0] ELSE shows
  BY DEF Run
<1>14. QED
  BY <1>5, <1>8, <1>10, <1>11, <1>12, <1>13

LEMMA RunTypes ==
  ASSUME TypesInv, NEW i \in DOMAIN batch, Run(i)
  PROVE  TypesInv'
<1>1. /\ pc = "running" /\ i \in Waiting
      /\ batch[i].skill \in Skills
      /\ results' \in Seq(Given) /\ Len(results') = Len(results)
      /\ Waiting' = Waiting \ {i}
      /\ pc' = IF Waiting' = {} THEN "closing" ELSE "running"
  BY RunIs
<1>2. ctx \in Contexts
  BY NotesFit
<1>3. ctx' \in Contexts /\ ctx'.notes \in {ctx.notes, ctx.notes + 1}
  <2>1. PICK d \in Contexts : d = Done(batch[i], ctx) /\ d.notes \in {ctx.notes, ctx.notes + 1}
    BY <1>1, <1>2, DoneIs
  <2>2. ctx' \in {ctx, d}
    BY <2>1, RunIs
  <2>3. QED
    BY <1>2, <2>1, <2>2
<1>4. fresh' \in SUBSET Skills /\ shows' \in [Skills -> Nat]
  <2>1. fresh \in SUBSET Skills /\ shows \in [Skills -> Nat]
    BY DEF TypesInv, TypeOK
  <2>2. fresh' \in {fresh, fresh \cup ({batch[i].skill} \ atStart), fresh \ {batch[i].skill}}
    BY RunIs
  <2>3. shows' \in {shows, [shows EXCEPT ![batch[i].skill] = 0]}
    BY RunIs
  <2>4. [shows EXCEPT ![batch[i].skill] = 0] \in [Skills -> Nat]
    BY <1>1, <2>1
  <2>5. QED
    BY <1>1, <2>1, <2>2, <2>3, <2>4
<1>5. ran' \in Nat
  BY DEF TypesInv, TypeOK, Run
<1>6. pc' \in Stages
  BY <1>1 DEF Stages
<1>7. UNCHANGED <<stored, turn, spent, atStart, batch, skipped, next, issued, stops, errors>>
  BY DEF Run
<1>8. TypeOK'
  BY <1>1, <1>3, <1>4, <1>5, <1>6, <1>7 DEF TypesInv, TypeOK, Given
<1>9. NotesIssued'
  <2>1. /\ IsFiniteSet(Waiting) /\ Cardinality(Waiting) \in Nat /\ Cardinality(Waiting) >= 1
    BY <1>1, WaitingFinite DEF TypesInv
  <2>2. Cardinality(Waiting') = Cardinality(Waiting) - 1
    BY <1>1, <2>1, FS_RemoveElement
  <2>3. ctx.notes \in Nat /\ issued \in Nat /\ ctx.notes + Cardinality(Waiting) <= issued
        /\ stored.notes <= issued
    BY <1>1, <1>2, LoopAssumption, ContextType DEF TypesInv, TypeOK, NotesIssued
  <2>4. ctx'.notes + Cardinality(Waiting') <= issued
    BY <1>3, <2>1, <2>2, <2>3
  <2>5. ctx'.notes <= issued
    BY <1>3, <2>1, <2>3
  <2>6. QED
    BY <1>7, <2>3, <2>4, <2>5 DEF NotesIssued
<1>10. Places'
  <2>1. pc' = "closing" => \A j \in DOMAIN batch : results'[j] # "none"
    BY <1>1, <1>7 DEF Waiting
  <2>2. pc' = "closing" => next' \in DOMAIN batch'
    <3>1. next' = next /\ batch' = batch
      BY <1>7
    <3>2. QED
      BY <1>1, <3>1 DEF TypesInv, Places
  <2>3. QED
    BY <1>1, <1>7, <2>1, <2>2 DEF TypesInv, Places
<1>11. QED
  BY <1>8, <1>9, <1>10 DEF TypesInv

\* What closing a call saves, and what the loop goes on with.
LEMMA CloseIs ==
  ASSUME TypesInv, CloseCall
  PROVE  \E t \in Contexts, c \in Contexts, d \in Contexts, s \in {"iterate", "closing"} :
           /\ Publish(c, d, s) /\ s = IF AtLast THEN "iterate" ELSE "closing"
           /\ Message("result", {batch[next].id}) \in Messages
           /\ Retold(ctx, t, Append(ctx.messages, Message("result", {batch[next].id})))
           /\ c = Tracked(t, batch[next].id, results[next])
           /\ d = IF AtLast THEN Expired(c, Fresh(c)) ELSE c
<1>1. /\ ctx \in Contexts /\ batch[next].id \in Ids
      /\ {batch[next].id} \in SUBSET Ids /\ results[next] \in Statuses
  BY NotesFit, NextIs DEF CloseCall, Statuses, Given
<1>2. PICK x \in Messages : x = Message("result", {batch[next].id})
  BY <1>1, MessageIs
<1>3. PICK t : t = Said(ctx, x)
  OBVIOUS
<1>4. Retold(ctx, t, Append(ctx.messages, x))
  BY <1>1, <1>3, SaidIs
<1>5. t \in Contexts
  BY <1>4 DEF Retold
<1>6. PICK c \in Contexts : c = Tracked(t, batch[next].id, results[next])
  BY <1>1, <1>5, TrackedIs
<1>7. PICK d : d = IF AtLast THEN Expired(c, Fresh(c)) ELSE c
  OBVIOUS
<1>8. d \in Contexts
  BY <1>7, ExpiredIs
<1>9. PICK s \in {"iterate", "closing"} : s = IF AtLast THEN "iterate" ELSE "closing"
  OBVIOUS
<1>10. IF AtLast THEN Publish(c, Expired(c, Fresh(c)), "iterate") ELSE Publish(c, c, "closing")
  BY <1>2, <1>3, <1>6, Zenon DEF CloseCall
<1>11. Publish(c, d, s)
  <2>1. CASE AtLast
    BY <1>7, <1>9, <1>10, <2>1
  <2>2. CASE ~AtLast
    BY <1>7, <1>9, <1>10, <2>2
  <2>3. QED
    BY <2>1, <2>2
<1>12. QED
  BY <1>2, <1>4, <1>5, <1>6, <1>7, <1>8, <1>9, <1>11

LEMMA CloseTypes ==
  ASSUME TypesInv, CloseCall
  PROVE  TypesInv'
<1>1. PICK t \in Contexts, c \in Contexts, d \in Contexts, s \in {"iterate", "closing"} :
         /\ Publish(c, d, s) /\ s = IF AtLast THEN "iterate" ELSE "closing"
         /\ Retold(ctx, t, Append(ctx.messages, Message("result", {batch[next].id})))
         /\ c = Tracked(t, batch[next].id, results[next])
         /\ d = IF AtLast THEN Expired(c, Fresh(c)) ELSE c
  BY CloseIs
<1>2. c.notes = ctx.notes /\ d.notes = ctx.notes
  <2>1. batch[next].id \in Ids /\ results[next] \in Statuses
    BY NextIs DEF CloseCall, Statuses, Given
  <2>2. c.notes = t.notes
    BY <1>1, <2>1, TrackedIs
  <2>3. t.notes = ctx.notes
    BY <1>1 DEF Retold
  <2>4. Expired(c, Fresh(c)).notes = c.notes
    BY ExpiredIs
  <2>5. QED
    BY <1>1, <2>2, <2>3, <2>4
<1>3. s \in Stages
  BY DEF Stages
<1>4. /\ stored' \in Contexts /\ ctx' \in Contexts /\ pc' \in Stages
      /\ errors' \in 0 .. MaxErrors /\ pc' \in {s, "failing"}
  BY <1>1, <1>3, PublishIs DEF TypesInv
<1>5. UNCHANGED <<turn, spent, atStart, batch, skipped, results, issued, stops,
                  shows, fresh, ran>>
      /\ next' = IF AtLast THEN 1 ELSE next + 1
  BY DEF CloseCall, history
<1>6. NotesIssued'
  BY <1>1, <1>2, <1>3, <1>5, PublishNotes
<1>7. pc = "closing"
  BY DEF CloseCall
<1>8. next' \in 1 .. Len(batch)
  BY <1>5, <1>7, NextIs
<1>9. next' \in Nat /\ next' \in DOMAIN batch
  BY <1>8 DEF TypesInv, TypeOK
<1>10. TypeOK'
  BY <1>4, <1>5, <1>9 DEF TypesInv, TypeOK
<1>11. Places'
  BY <1>1, <1>4, <1>5, <1>7, <1>9 DEF TypesInv, Places
<1>12. QED
  BY <1>6, <1>10, <1>11 DEF TypesInv

LEMMA AnswerTextIs ==
  ASSUME TypesInv, AnswerText
  PROVE  \E c \in Contexts :
           /\ Message("text", {}) \in Messages
           /\ Retold(ctx, c, Append(ctx.messages, Message("text", {})))
           /\ \/ Publish(c, c, "spoken")
              \/ ctx' = c /\ pc' = "spoken" /\ UNCHANGED <<stored, errors>>
<1>1. ctx \in Contexts
  BY NotesFit
<1>2. {} \in SUBSET Ids
  OBVIOUS
<1>3. PICK x \in Messages : x = Message("text", {})
  BY <1>2, MessageIs
<1>4. PICK c : c = Said(ctx, x)
  OBVIOUS
<1>5. Retold(ctx, c, Append(ctx.messages, x))
  BY <1>1, <1>4, SaidIs
<1>6. \/ Publish(c, c, "spoken")
      \/ ctx' = c /\ pc' = "spoken" /\ UNCHANGED <<stored, errors>>
  BY <1>3, <1>4, Zenon DEF AnswerText
<1>7. c \in Contexts
  BY <1>5 DEF Retold
<1>8. QED
  BY <1>3, <1>5, <1>6, <1>7

LEMMA AnswerTextTypes ==
  ASSUME TypesInv, AnswerText
  PROVE  TypesInv'
<1>1. PICK c \in Contexts :
        /\ Retold(ctx, c, Append(ctx.messages, Message("text", {})))
        /\ \/ Publish(c, c, "spoken")
           \/ ctx' = c /\ pc' = "spoken" /\ UNCHANGED <<stored, errors>>
  BY AnswerTextIs
<1>2. c.notes = ctx.notes /\ "spoken" \in Stages
  BY <1>1 DEF Retold, Stages
<1>3. UNCHANGED <<turn, spent, atStart, batch, skipped, results, next, issued, stops,
                  shows, ran>> /\ fresh' = {}
  BY DEF AnswerText, work
<1>4. /\ stored' \in Contexts /\ ctx' \in Contexts /\ errors' \in 0 .. MaxErrors
      /\ pc' \in {"spoken", "failing"}
  <2>1. CASE Publish(c, c, "spoken")
    BY <1>2, <2>1, PublishIs DEF TypesInv
  <2>2. CASE ctx' = c /\ pc' = "spoken" /\ UNCHANGED <<stored, errors>>
    BY <2>2 DEF TypesInv, TypeOK
  <2>3. QED
    BY <1>1, <2>1, <2>2
<1>5. NotesIssued'
  <2>1. CASE Publish(c, c, "spoken")
    BY <1>2, <1>3, <2>1, PublishNotes
  <2>2. CASE ctx' = c /\ pc' = "spoken" /\ UNCHANGED <<stored, errors>>
    BY <1>2, <1>3, <2>2 DEF TypesInv, NotesIssued
  <2>3. QED
    BY <1>1, <2>1, <2>2
<1>6. pc' \in Stages
  BY <1>4 DEF Stages
<1>7. TypeOK'
  BY <1>3, <1>4, <1>6 DEF TypesInv, TypeOK
<1>8. Places'
  BY <1>4 DEF Places
<1>9. QED
  BY <1>5, <1>7, <1>8 DEF TypesInv

LEMMA FinalizeIs ==
  ASSUME TypesInv, Finalize
  PROVE  \E c \in Contexts :
           /\ c = IF pc = "spoken" THEN Expired(ctx, {}) ELSE ctx
           /\ Publish(c, c, "idle")
<1>1. ctx \in Contexts
  BY NotesFit
<1>2. Expired(ctx, {}) \in Contexts
  BY <1>1, ExpiredIs
<1>3. PICK c \in Contexts : c = IF pc = "spoken" THEN Expired(ctx, {}) ELSE ctx
  BY <1>1, <1>2
<1>4. Publish(c, c, "idle")
  BY <1>3, Zenon DEF Finalize
<1>5. QED
  BY <1>3, <1>4

LEMMA FinalizeTypes ==
  ASSUME TypesInv, Finalize
  PROVE  TypesInv'
<1>1. PICK c \in Contexts : /\ c = IF pc = "spoken" THEN Expired(ctx, {}) ELSE ctx
                            /\ Publish(c, c, "idle")
  BY FinalizeIs
<1>2. c.notes = ctx.notes
  <2>1. Expired(ctx, {}).notes = ctx.notes
    BY NotesFit, ExpiredIs
  <2>2. QED
    BY <1>1, <2>1
<1>3. UNCHANGED <<turn, spent, atStart, batch, skipped, results, next, issued, stops,
                  shows, fresh, ran>>
  BY DEF Finalize, work, history
<1>4. "idle" \in Stages
  BY DEF Stages
<1>5. /\ stored' \in Contexts /\ ctx' \in Contexts /\ errors' \in 0 .. MaxErrors
      /\ pc' \in {"idle", "failing"} /\ pc' \in Stages
  BY <1>1, <1>4, PublishIs DEF TypesInv
<1>6. NotesIssued'
  BY <1>1, <1>2, <1>3, <1>4, PublishNotes
<1>7. TypeOK'
  BY <1>3, <1>5 DEF TypesInv, TypeOK
<1>8. Places'
  BY <1>5 DEF Places
<1>9. QED
  BY <1>6, <1>7, <1>8 DEF TypesInv

LEMMA FailTypes ==
  ASSUME TypesInv, Fail
  PROVE  TypesInv'
<1>1. ctx \in Contexts
  BY NotesFit
<1>2. stored' \in Contexts /\ stored'.notes = ctx.notes
  BY <1>1, CompactedIs DEF Fail, Saved
<1>3. UNCHANGED <<ctx, turn, spent, atStart, batch, skipped, results, next, issued, stops,
                  errors, shows, fresh, ran>> /\ pc' = "idle"
  BY DEF Fail, work, history
<1>4. TypeOK'
  BY <1>2, <1>3 DEF TypesInv, TypeOK, Stages
<1>5. NotesIssued' /\ Places'
  BY <1>2, <1>3 DEF TypesInv, NotesIssued, Places
<1>6. QED
  BY <1>4, <1>5 DEF TypesInv

LEMMA StopTypes ==
  ASSUME TypesInv, Stop
  PROVE  TypesInv'
<1>1. TypeOK'
  BY LoopAssumption DEF TypesInv, TypeOK, Stop, Stages, work, history
<1>2. NotesIssued' /\ Places'
  BY DEF TypesInv, NotesIssued, Places, Stop, work, history
<1>3. QED
  BY <1>1, <1>2 DEF TypesInv

LEMMA InitTypes == Init => TypesInv
<1>1. SUFFICES ASSUME Init PROVE TypesInv
  OBVIOUS
<1>2. <<>> \in Seq(Actions) /\ <<>> \in Seq(Ids) /\ <<>> \in Seq(Given)
  OBVIOUS
<1>3. stored \in Contexts /\ ctx \in Contexts /\ stored.notes = 0 /\ ctx.notes = 0
  BY <1>1, SeededIs DEF Init
<1>4. TypeOK
  BY <1>1, <1>2, <1>3, LoopAssumption DEF Init, TypeOK, Stages, Actions, Given
<1>5. NotesIssued /\ Places
  BY <1>1, <1>3 DEF Init, NotesIssued, Places
<1>6. QED
  BY <1>4, <1>5 DEF TypesInv

LEMMA NextTypes ==
  ASSUME TypesInv, [Next]_vars
  PROVE  TypesInv'
<1>1. CASE UNCHANGED vars
  BY <1>1 DEF TypesInv, TypeOK, NotesIssued, Places, Waiting, vars
<1>2. ASSUME NEW b \in Batches, AnswerCalls(b) PROVE TypesInv'
  BY <1>2, AnswerCallsTypes
<1>3. ASSUME NEW i \in DOMAIN batch, Run(i) PROVE TypesInv'
  BY <1>3, RunTypes
<1>4. QED
  BY <1>1, <1>2, <1>3, StartTypes, IterateTypes, LimitTypes, PruneTypes, RaiseTypes, OpenTypes,
     CloseTypes, AnswerTextTypes, FinalizeTypes, FailTypes, StopTypes, Zenon DEF Next

\* The state of the loop always has its types (loop.py:345-663): the scratchpad's
\* version never passes the calls made, and the loop over the calls stays in the batch.
THEOREM LoopTypes == Spec => []TypeOK
<1>1. TypesInv /\ [Next]_vars => TypesInv'
  BY NextTypes
<1>2. TypesInv => TypeOK
  BY DEF TypesInv
<1>3. QED
  BY InitTypes, <1>1, <1>2, PTL DEF Spec

-----------------------------------------------------------------------------
(* Calls that are left open *)

Started(c) == {id \in Ids : c.calls[id] = "started"}

\* The ids of the calls of a batch from the a-th to the b-th.
CallIds(calls, a, b) == {calls[j].id : j \in a .. b}

\* Until a turn is interrupted, the calls marked as started are the ones the loop
\* has opened and not closed.
StartedInv ==
  ~Interrupted =>
    /\ pc # "failing"
    /\ pc = "idle" => Started(stored) = {}
    /\ pc \in {"iterate", "pruning", "asking", "spoken", "finalize"} => Started(ctx) = {}
    /\ pc = "opening" => Started(ctx) \subseteq CallIds(batch, 1, next - 1)
    /\ pc = "running" => Started(ctx) \subseteq CallIds(batch, 1, Len(batch))
    /\ pc = "closing" => Started(ctx) \subseteq CallIds(batch, next, Len(batch))

LEMMA InterruptedIs ==
  ASSUME TypeOK
  PROVE  ~Interrupted <=> (stops = 0 /\ errors = 0)
BY LoopAssumption DEF Interrupted, TypeOK

\* A save that leaves the turn uninterrupted was a success.
LEMMA PublishClean ==
  ASSUME TypesInv, NEW c \in Contexts, NEW d \in Contexts, NEW s \in Stages,
         Publish(c, d, s), UNCHANGED stops, ~Interrupted'
  PROVE  /\ ~Interrupted /\ pc' = s /\ ctx' = d
         /\ stored'.calls = c.calls /\ SameSkills(c, stored')
<1>1. errors \in Nat /\ stops \in Nat
  BY LoopAssumption DEF TypesInv, TypeOK
<1>2. \/ /\ pc' = s /\ ctx' = d /\ errors' = errors /\ Saved(c, stored')
      \/ /\ errors' = errors + 1
  BY PublishIs DEF TypesInv
<1>3. CASE pc' = s /\ ctx' = d /\ errors' = errors /\ Saved(c, stored')
  BY <1>1, <1>3 DEF Interrupted, Saved
<1>4. CASE errors' = errors + 1
  BY <1>1, <1>4 DEF Interrupted
<1>5. QED
  BY <1>2, <1>3, <1>4

LEMMA StartedCases ==
  /\ \A c, d : c.calls = d.calls => Started(c) = Started(d)
  /\ \A c \in Contexts, id \in Ids, status \in Statuses :
       LET d == Tracked(c, id, status) IN
       /\ Started(d) \subseteq Started(c) \cup {id}
       /\ status # "started" => Started(d) \subseteq Started(c) \ {id}
<1>1. \A c, d : c.calls = d.calls => Started(c) = Started(d)
  BY DEF Started
<1>2. ASSUME NEW c \in Contexts, NEW id \in Ids, NEW status \in Statuses
      PROVE  /\ Started(Tracked(c, id, status)) \subseteq Started(c) \cup {id}
             /\ status # "started" =>
                  Started(Tracked(c, id, status)) \subseteq Started(c) \ {id}
  <2>1. PICK d : d = Tracked(c, id, status)
    OBVIOUS
  <2>2. d.calls = [c.calls EXCEPT ![id] = status] /\ c.calls \in [Ids -> Statuses]
    BY <2>1, TrackedIs, ContextType
  <2>3. \A j \in Ids : d.calls[j] = IF j = id THEN status ELSE c.calls[j]
    BY <2>2
  <2>4. Started(d) \subseteq Started(c) \cup {id}
    BY <2>3 DEF Started
  <2>5. status # "started" => Started(d) \subseteq Started(c) \ {id}
    BY <2>3 DEF Started
  <2>6. QED
    BY <2>1, <2>4, <2>5
<1>3. QED
  BY <1>1, <1>2

LEMMA OpenStarted ==
  ASSUME TypesInv, StartedInv, OpenCall
  PROVE  StartedInv'
<1>1. SUFFICES ASSUME ~Interrupted' PROVE StartedInv'
  BY DEF StartedInv
<1>2. PICK c \in Contexts, d \in Contexts, s \in {"running", "opening"},
           passed \in Seq(Messages) :
         /\ Publish(c, d, s) /\ s = IF AtLast THEN "running" ELSE "opening"
         /\ c = Tracked(ctx, batch[next].id, "started")
         /\ Retold(c, d, c.messages \o passed)
  BY OpenIs
<1>3. s \in Stages /\ UNCHANGED <<stops, batch>> /\ pc = "opening"
  BY DEF Stages, OpenCall
<1>4. ~Interrupted /\ pc' = s /\ ctx' = d
  BY <1>1, <1>2, <1>3, PublishClean
<1>5. /\ next \in 1 .. Len(batch) /\ Len(batch) \in Nat /\ batch[next].id \in Ids
      /\ ctx \in Contexts
      /\ "started" \in Statuses
  BY <1>3, NextIs, NotesFit DEF Statuses
<1>6. Started(d) \subseteq Started(ctx) \cup {batch[next].id}
  <2>1. Started(c) \subseteq Started(ctx) \cup {batch[next].id}
    BY <1>2, <1>5, StartedCases
  <2>2. d.calls = c.calls
    BY <1>2 DEF Retold
  <2>3. QED
    BY <2>1, <2>2, StartedCases
<1>7. Started(ctx) \subseteq CallIds(batch, 1, next - 1)
  BY <1>3, <1>4 DEF StartedInv
<1>8. Started(d) \subseteq CallIds(batch, 1, next)
  <2>1. 1 .. next - 1 \subseteq 1 .. next /\ next \in 1 .. next
    BY <1>5
  <2>2. QED
    BY <1>6, <1>7, <2>1 DEF CallIds
<1>9. next' = IF AtLast THEN 1 ELSE next + 1
  BY DEF OpenCall
<1>10. CASE AtLast
  BY <1>2, <1>3, <1>4, <1>8, <1>10 DEF StartedInv, AtLast
<1>11. CASE ~AtLast
  <2>1. next' - 1 = next /\ pc' = "opening"
    BY <1>2, <1>4, <1>5, <1>9, <1>11
  <2>2. QED
    BY <1>3, <1>4, <1>8, <2>1 DEF StartedInv
<1>12. QED
  BY <1>10, <1>11

LEMMA CloseStarted ==
  ASSUME TypesInv, StartedInv, CloseCall
  PROVE  StartedInv'
<1>1. SUFFICES ASSUME ~Interrupted' PROVE StartedInv'
  BY DEF StartedInv
<1>2. PICK t \in Contexts, c \in Contexts, d \in Contexts, s \in {"iterate", "closing"} :
         /\ Publish(c, d, s) /\ s = IF AtLast THEN "iterate" ELSE "closing"
         /\ Retold(ctx, t, Append(ctx.messages, Message("result", {batch[next].id})))
         /\ c = Tracked(t, batch[next].id, results[next])
         /\ d = IF AtLast THEN Expired(c, Fresh(c)) ELSE c
  BY CloseIs
<1>3. s \in Stages /\ UNCHANGED <<stops, batch>> /\ pc = "closing"
  BY DEF Stages, CloseCall
<1>4. ~Interrupted /\ pc' = s /\ ctx' = d
  BY <1>1, <1>2, <1>3, PublishClean
<1>5. /\ next \in 1 .. Len(batch) /\ Len(batch) \in Nat /\ batch[next].id \in Ids
      /\ results[next] \in Statuses /\ results[next] # "started"
  BY <1>3, NextIs DEF Statuses, Given
<1>6. Started(d) \subseteq Started(ctx) \ {batch[next].id}
  <2>1. Started(c) \subseteq Started(t) \ {batch[next].id}
    BY <1>2, <1>5, StartedCases
  <2>2. t.calls = ctx.calls
    BY <1>2 DEF Retold
  <2>3. Expired(c, Fresh(c)).calls = c.calls
    BY ExpiredIs
  <2>4. d.calls = c.calls
    BY <1>2, <2>3
  <2>5. QED
    BY <2>1, <2>2, <2>4, StartedCases
<1>7. Started(ctx) \subseteq CallIds(batch, next, Len(batch))
  BY <1>3, <1>4 DEF StartedInv
<1>8. Started(d) \subseteq CallIds(batch, next + 1, Len(batch))
  <2>1. \A j \in next .. Len(batch) : j = next \/ j \in next + 1 .. Len(batch)
    BY <1>5
  <2>2. QED
    BY <1>6, <1>7, <2>1 DEF CallIds
<1>9. next' = IF AtLast THEN 1 ELSE next + 1
  BY DEF CloseCall
<1>10. CASE AtLast
  <2>1. next + 1 .. Len(batch) = {}
    BY <1>5, <1>10 DEF AtLast
  <2>2. Started(d) = {}
    BY <1>8, <2>1 DEF CallIds
  <2>3. QED
    BY <1>2, <1>4, <1>10, <2>2 DEF StartedInv
<1>11. CASE ~AtLast
  BY <1>2, <1>3, <1>4, <1>8, <1>9, <1>11 DEF StartedInv
<1>12. QED
  BY <1>10, <1>11

LEMMA RunStarted ==
  ASSUME TypesInv, StartedInv, NEW i \in DOMAIN batch, Run(i)
  PROVE  StartedInv'
<1>1. UNCHANGED <<stops, errors, batch, next>>
  BY DEF Run
<1>2. pc = "running" /\ pc' \in {"running", "closing"} /\ batch[i].skill \in Skills
  BY RunIs
<1>3. Started(ctx') = Started(ctx)
  <2>1. ctx' = ctx \/ ctx' = Done(batch[i], ctx)
    BY RunIs
  <2>2. Done(batch[i], ctx).calls = ctx.calls
    BY <1>2, NotesFit, DoneIs
  <2>3. QED
    BY <2>1, <2>2, StartedCases
<1>4. next = 1
  BY <1>2 DEF TypesInv, Places
<1>5. Interrupted' <=> Interrupted
  BY <1>1 DEF Interrupted
<1>6. QED
  BY <1>1, <1>2, <1>3, <1>4, <1>5 DEF StartedInv

LEMMA AnswerCallsStarted ==
  ASSUME TypesInv, StartedInv, NEW b \in Batches, AnswerCalls(b)
  PROVE  StartedInv'
<1>1. SUFFICES ASSUME ~Interrupted' PROVE StartedInv'
  BY DEF StartedInv
<1>2. PICK ids \in SUBSET Ids, asked \in Contexts :
        /\ asked = Said(ctx, Message("calls", ids))
        /\ \/ Publish(ctx, asked, "opening")
           \/ ctx' = asked /\ pc' = "opening" /\ UNCHANGED <<stored, errors>>
  BY BatchIs DEF TypesInv
<1>3. ctx \in Contexts /\ asked.calls = ctx.calls
  BY <1>2, NotesFit, MessageIs, SaidIs DEF Retold
<1>4. "opening" \in Stages /\ UNCHANGED stops /\ pc = "asking" /\ next' = 1
  BY DEF Stages, AnswerCalls
<1>5. ~Interrupted /\ pc' = "opening" /\ ctx' = asked
  <2>1. CASE Publish(ctx, asked, "opening")
    BY <1>1, <1>2, <1>3, <1>4, <2>1, PublishClean
  <2>2. CASE ctx' = asked /\ pc' = "opening" /\ UNCHANGED <<stored, errors>>
    BY <1>1, <1>4, <2>2 DEF Interrupted
  <2>3. QED
    BY <1>2, <2>1, <2>2
<1>6. Started(ctx) = {}
  BY <1>4, <1>5 DEF StartedInv
<1>7. Started(ctx') = {}
  BY <1>3, <1>5, <1>6, StartedCases
<1>8. QED
  BY <1>5, <1>7 DEF StartedInv

LEMMA AnswerTextStarted ==
  ASSUME TypesInv, StartedInv, AnswerText
  PROVE  StartedInv'
<1>1. SUFFICES ASSUME ~Interrupted' PROVE StartedInv'
  BY DEF StartedInv
<1>2. PICK c \in Contexts :
        /\ Retold(ctx, c, Append(ctx.messages, Message("text", {})))
        /\ \/ Publish(c, c, "spoken")
           \/ ctx' = c /\ pc' = "spoken" /\ UNCHANGED <<stored, errors>>
  BY AnswerTextIs
<1>3. c.calls = ctx.calls /\ "spoken" \in Stages /\ UNCHANGED stops /\ pc = "asking"
  BY <1>2 DEF Retold, Stages, AnswerText
<1>4. ~Interrupted /\ pc' = "spoken" /\ ctx' = c
  <2>1. CASE Publish(c, c, "spoken")
    BY <1>1, <1>3, <2>1, PublishClean
  <2>2. CASE ctx' = c /\ pc' = "spoken" /\ UNCHANGED <<stored, errors>>
    BY <1>1, <1>3, <2>2 DEF Interrupted
  <2>3. QED
    BY <1>2, <2>1, <2>2
<1>5. Started(ctx') = {}
  BY <1>3, <1>4, StartedCases DEF StartedInv
<1>6. QED
  BY <1>4, <1>5 DEF StartedInv

LEMMA LimitStarted ==
  ASSUME TypesInv, StartedInv, Limit
  PROVE  StartedInv'
<1>1. SUFFICES ASSUME ~Interrupted' PROVE StartedInv'
  BY DEF StartedInv
<1>2. /\ ctx \in Contexts /\ "finalize" \in Stages /\ Publish(ctx, ctx, "finalize")
      /\ UNCHANGED stops /\ pc = "iterate"
  BY NotesFit DEF Limit, Stages
<1>3. ~Interrupted /\ pc' = "finalize" /\ ctx' = ctx
  BY <1>1, <1>2, PublishClean
<1>4. QED
  BY <1>2, <1>3 DEF StartedInv

LEMMA FinalizeStarted ==
  ASSUME TypesInv, StartedInv, Finalize
  PROVE  StartedInv'
<1>1. SUFFICES ASSUME ~Interrupted' PROVE StartedInv'
  BY DEF StartedInv
<1>2. PICK c \in Contexts : /\ c = IF pc = "spoken" THEN Expired(ctx, {}) ELSE ctx
                            /\ Publish(c, c, "idle")
  BY FinalizeIs
<1>3. /\ "idle" \in Stages /\ UNCHANGED stops /\ pc \in {"spoken", "finalize"}
  BY DEF Finalize, Stages
<1>4. ~Interrupted /\ pc' = "idle" /\ stored'.calls = c.calls
  BY <1>1, <1>2, <1>3, PublishClean
<1>5. c.calls = ctx.calls
  <2>1. Expired(ctx, {}).calls = ctx.calls
    BY NotesFit, ExpiredIs
  <2>2. QED
    BY <1>2, <2>1
<1>6. Started(stored') = {}
  BY <1>3, <1>4, <1>5, StartedCases DEF StartedInv
<1>7. QED
  BY <1>4, <1>6 DEF StartedInv

LEMMA OtherStarted ==
  ASSUME TypesInv, StartedInv,
         StartTurn \/ Iterate \/ Prune \/ Raise \/ Fail \/ Stop \/ UNCHANGED vars
  PROVE  StartedInv'
<1>1. stored \in Contexts /\ ctx \in Contexts /\ stops \in Nat /\ errors \in Nat
  BY NotesFit, LoopAssumption DEF TypesInv, TypeOK
<1>2. CASE StartTurn
  <2>1. ctx' = Restored(stored, turn + 1) /\ turn + 1 \in 0 .. MaxTurns
    BY <1>2, LoopAssumption DEF TypesInv, TypeOK, StartTurn
  <2>2. ctx'.calls = stored.calls
    BY <1>1, <2>1, RestoredIs DEF Retold
  <2>3. Started(ctx') = Started(stored)
    BY <2>2, StartedCases
  <2>4. QED
    BY <1>2, <2>3 DEF StartedInv, StartTurn, Interrupted, work
<1>3. CASE Iterate
  <2>1. ctx' = [ctx EXCEPT !.messages = Scratched(Overlaid(@, InBudget(ctx)), ctx.notes)]
    BY <1>3 DEF Iterate
  <2>2. ctx'.calls = ctx.calls
    BY <1>1, <2>1 DEF Contexts
  <2>3. Started(ctx') = Started(ctx)
    BY <2>2, StartedCases
  <2>4. QED
    BY <1>3, <2>3 DEF StartedInv, Iterate, Interrupted, work
<1>4. CASE Prune
  <2>1. PICK m : ctx' = [ctx EXCEPT !.messages = m]
    BY <1>4 DEF Prune
  <2>2. ctx'.calls = ctx.calls
    BY <1>1, <2>1 DEF Contexts
  <2>3. Started(ctx') = Started(ctx)
    BY <2>2, StartedCases
  <2>4. QED
    BY <1>4, <2>3 DEF StartedInv, Prune, Interrupted, work
<1>5. CASE Raise
  BY <1>1, <1>5 DEF StartedInv, Raise, Interrupted
<1>6. CASE Fail
  BY <1>6 DEF StartedInv, Fail, Interrupted
<1>7. CASE Stop
  BY <1>1, <1>7 DEF StartedInv, Stop, Interrupted
<1>8. CASE UNCHANGED vars
  BY <1>8 DEF StartedInv, Interrupted, vars
<1>9. QED
  BY <1>2, <1>3, <1>4, <1>5, <1>6, <1>7, <1>8

LEMMA NextStarted ==
  ASSUME TypesInv, StartedInv, [Next]_vars
  PROVE  StartedInv'
<1>1. ASSUME NEW b \in Batches, AnswerCalls(b) PROVE StartedInv'
  BY <1>1, AnswerCallsStarted
<1>2. ASSUME NEW i \in DOMAIN batch, Run(i) PROVE StartedInv'
  BY <1>2, RunStarted
<1>3. QED
  BY <1>1, <1>2, OpenStarted, CloseStarted, LimitStarted, AnswerTextStarted, FinalizeStarted,
     OtherStarted, Zenon DEF Next

LEMMA InitStarted == Init => StartedInv
<1>1. Init => Started(stored) = {} /\ pc = "idle"
  BY SeededIs DEF Init, Started
<1>2. QED
  BY <1>1 DEF StartedInv

\* A turn that ends by itself leaves none of its calls as started, whatever the
\* tools did and however the exclusive ones displaced others (loop.py:524-579).
THEOREM CallsAreClosed == Spec => []CallsClosed
<1>1. TypesInv /\ StartedInv /\ [Next]_vars => TypesInv' /\ StartedInv'
  BY NextTypes, NextStarted
<1>2. StartedInv => CallsClosed
  BY DEF StartedInv, CallsClosed, Started
<1>3. QED
  BY InitTypes, InitStarted, <1>1, <1>2, PTL DEF Spec

-----------------------------------------------------------------------------
(* The tools a turn runs *)

Longest == Max({Len(b) : b \in Batches})

\* Some number of calls is more than any answer has.
AnswersBounded == Batches # {} /\ \E k \in Nat : \A b \in Batches : Len(b) <= k

LEMMA LongestIs ==
  ASSUME AnswersBounded
  PROVE  Longest \in Nat \ {0} /\ \A b \in Batches : Len(b) <= Longest
<1>1. \A b \in Batches : Len(b) \in Nat \ {0}
  BY LoopAssumption
<1>2. PICK k \in Nat : \A b \in Batches : Len(b) <= k
  BY DEF AnswersBounded
<1>3. PICK T : T = {k - Len(b) : b \in Batches}
  OBVIOUS
<1>4. T \in SUBSET Nat /\ T # {}
  BY <1>1, <1>2, <1>3 DEF AnswersBounded
<1>5. Min(T) \in T /\ \A y \in T : Min(T) =< y
  BY <1>4, FirstIs
<1>6. PICK a \in Batches : Min(T) = k - Len(a)
  BY <1>3, <1>5
<1>7. \A b \in Batches : Len(b) <= Len(a)
  <2>1. TAKE b \in Batches
  <2>2. k - Len(b) \in T
    BY <1>3
  <2>3. k - Len(a) =< k - Len(b)
    BY <1>5, <1>6, <2>2
  <2>4. QED
    BY <1>1, <2>3
<1>8. PICK S : S = {Len(b) : b \in Batches}
  OBVIOUS
<1>9. S \in SUBSET Nat /\ Len(a) \in S /\ \A y \in S : Len(a) >= y
  BY <1>1, <1>7, <1>8
<1>10. Max(S) \in S /\ \A y \in S : Max(S) >= y
  BY <1>9, Zenon DEF Max
<1>11. QED
  BY <1>1, <1>8, <1>10 DEF Longest

\* The calls that the limit counts and that are still to run.
ToRun == {i \in Waiting : batch[i].does # "exclusive"}

\* What ran was counted before, with what is to run.
CountInv ==
  /\ pc \in {"pruning", "asking"} => spent < MaxToolCalls
  /\ spent < MaxToolCalls + Longest
  /\ ran <= spent
  /\ pc \in {"opening", "running"} => ran + Cardinality(ToRun) <= spent

LEMMA ToRunFinite ==
  ASSUME TypeOK
  PROVE  IsFiniteSet(ToRun) /\ Cardinality(ToRun) \in Nat
<1>1. IsFiniteSet(Waiting) /\ ToRun \in SUBSET Waiting
  BY WaitingFinite DEF ToRun
<1>2. QED
  BY <1>1, FS_Subset, FS_CardinalityType

LEMMA AnswerCallsCounted ==
  ASSUME TypesInv, TypesInv', AnswersBounded, CountInv, NEW b \in Batches, AnswerCalls(b)
  PROVE  CountInv'
<1>1. /\ Len(b) \in Nat \ {0} /\ Len(batch') \in 1 .. Len(b)
      /\ batch' \in Seq(Actions) /\ results' = [i \in 1 .. Len(batch') |-> "none"]
      /\ Exclusive(b) = {} => Len(batch') = Len(b) /\ spent' = spent + Len(b)
      /\ Exclusive(b) # {} =>
           Len(batch') = 1 /\ batch'[1].does = "exclusive" /\ spent' = spent
  BY BatchIs DEF TypesInv
<1>2. Longest \in Nat /\ Len(b) <= Longest
  BY LongestIs
<1>3. pc = "asking" /\ ran' = ran
  BY DEF AnswerCalls
<1>4. pc' \in {"opening", "failing"}
  <2>1. PICK c, d : \/ Publish(c, d, "opening")
                    \/ ctx' = d /\ pc' = "opening" /\ UNCHANGED <<stored, errors>>
    BY BatchIs DEF TypesInv
  <2>2. QED
    BY <2>1 DEF Publish
<1>5. spent \in Nat /\ ran \in Nat /\ MaxToolCalls \in Nat
      /\ spent < MaxToolCalls /\ ran <= spent
  BY <1>3, LoopAssumption DEF TypesInv, TypeOK, CountInv
<1>6. PICK k \in Nat : k = Len(batch') /\ DOMAIN batch' = 1 .. k
  BY <1>1
<1>7. ToRun' \in SUBSET (1 .. k)
  BY <1>6 DEF ToRun, Waiting
<1>8. Cardinality(ToRun') \in Nat /\ Cardinality(ToRun') <= k
  <2>1. IsFiniteSet(1 .. k) /\ Cardinality(1 .. k) = k
    BY FS_Interval
  <2>2. QED
    BY <1>7, <2>1, FS_Subset, FS_CardinalityType
<1>9. CASE Exclusive(b) = {}
  BY <1>1, <1>2, <1>3, <1>4, <1>5, <1>6, <1>8, <1>9 DEF CountInv
<1>10. CASE Exclusive(b) # {}
  <2>1. ToRun' = {}
    <3>1. \A i \in 1 .. k : i = 1
      BY <1>1, <1>6, <1>10
    <3>2. 1 \notin ToRun'
      BY <1>1, <1>10 DEF ToRun
    <3>3. QED
      BY <1>7, <3>1, <3>2
  <2>2. Cardinality(ToRun') = 0
    BY <2>1, FS_EmptySet
  <2>3. QED
    BY <1>1, <1>2, <1>3, <1>4, <1>5, <1>10, <2>2 DEF CountInv
<1>11. QED
  BY <1>9, <1>10

LEMMA RunCounted ==
  ASSUME TypesInv, CountInv, NEW i \in DOMAIN batch, Run(i)
  PROVE  CountInv'
<1>1. pc = "running" /\ i \in Waiting /\ Waiting' = Waiting \ {i}
      /\ pc' \in {"running", "closing"}
  BY RunIs
<1>2. UNCHANGED <<batch, spent>> /\ ran' = IF batch[i].does = "exclusive" THEN ran ELSE ran + 1
  BY DEF Run
<1>3. IsFiniteSet(ToRun) /\ Cardinality(ToRun) \in Nat
  BY ToRunFinite DEF TypesInv
<1>4. ToRun' = ToRun \ {i}
  BY <1>1, <1>2 DEF ToRun
<1>5. spent \in Nat /\ ran \in Nat /\ ran + Cardinality(ToRun) <= spent
  BY <1>1 DEF TypesInv, TypeOK, CountInv
<1>6. CASE batch[i].does = "exclusive"
  <2>1. ToRun' = ToRun
    BY <1>4, <1>6 DEF ToRun
  <2>2. QED
    BY <1>1, <1>2, <1>5, <1>6, <2>1 DEF CountInv
<1>7. CASE batch[i].does # "exclusive"
  <2>1. i \in ToRun
    BY <1>1, <1>7 DEF ToRun
  <2>2. Cardinality(ToRun') = Cardinality(ToRun) - 1
    BY <1>3, <1>4, <2>1, FS_RemoveElement
  <2>3. Cardinality(ToRun) # 0
    BY <1>3, <2>1, FS_EmptySet
  <2>4. ran' = ran + 1
    BY <1>2, <1>7
  <2>5. ran' <= spent /\ ran' + Cardinality(ToRun') <= spent
    BY <1>3, <1>5, <2>2, <2>3, <2>4
  <2>6. QED
    BY <1>1, <1>2, <2>5 DEF CountInv
<1>8. QED
  BY <1>6, <1>7

LEMMA NextCounted ==
  ASSUME TypesInv, TypesInv', AnswersBounded, CountInv, [Next]_vars
  PROVE  CountInv'
<1>1. /\ spent \in Nat /\ ran \in Nat /\ MaxToolCalls \in Nat \ {0} /\ Longest \in Nat \ {0}
  BY LoopAssumption, LongestIs DEF TypesInv, TypeOK
<1>2. ASSUME NEW b \in Batches, AnswerCalls(b) PROVE CountInv'
  BY <1>2, AnswerCallsCounted
<1>3. ASSUME NEW i \in DOMAIN batch, Run(i) PROVE CountInv'
  BY <1>3, RunCounted
<1>4. CASE StartTurn
  BY <1>1, <1>4 DEF CountInv, StartTurn
<1>5. CASE Iterate
  BY <1>1, <1>5 DEF CountInv, Iterate, history
<1>6. CASE Prune
  BY <1>6 DEF CountInv, Prune
<1>7. CASE OpenCall
  <2>1. pc = "opening" /\ UNCHANGED <<spent, ran, batch, results>>
    BY <1>7 DEF OpenCall, history
  <2>2. pc' \in {"opening", "running", "failing"}
    BY <1>7 DEF OpenCall, Publish
  <2>3. ToRun' = ToRun
    BY <2>1 DEF ToRun, Waiting
  <2>4. QED
    BY <2>1, <2>2, <2>3 DEF CountInv
<1>8. CASE Limit \/ CloseCall \/ AnswerText \/ Finalize
  <2>1. UNCHANGED <<spent, ran>>
    BY <1>8 DEF Limit, CloseCall, AnswerText, Finalize, history
  <2>2. pc' \in {"finalize", "failing", "iterate", "closing", "spoken", "idle"}
    BY <1>8 DEF Limit, CloseCall, AnswerText, Finalize, Publish
  <2>3. QED
    BY <2>1, <2>2 DEF CountInv
<1>9. CASE Raise \/ Fail \/ Stop
  BY <1>9 DEF CountInv, Raise, Fail, Stop, history
<1>10. CASE UNCHANGED vars
  BY <1>10 DEF CountInv, ToRun, Waiting, vars
<1>11. QED
  BY <1>2, <1>3, <1>4, <1>5, <1>6, <1>7, <1>8, <1>9, <1>10, Zenon DEF Next

\* However many calls the answers have, a turn runs at most one answer's worth of
\* parallel tools beyond the limit (loop.py:404-409, 520).
THEOREM LoopIsGuarded ==
  ASSUME AnswersBounded
  PROVE  Spec => []LoopGuard
<1>1. Init => CountInv
  BY LoopAssumption, LongestIs DEF Init, CountInv
<1>2. TypesInv /\ CountInv /\ [Next]_vars => TypesInv' /\ CountInv'
  BY NextTypes, NextCounted
<1>3. TypesInv /\ CountInv => LoopGuard
  BY LoopAssumption, LongestIs DEF TypesInv, TypeOK, CountInv, LoopGuard, Longest
<1>4. QED
  BY InitTypes, <1>1, <1>2, <1>3, PTL DEF Spec

-----------------------------------------------------------------------------
(* The skills the model sees *)

\* How often a one_turn skill was shown since its activation: not yet where the loop
\* goes round or the context is stored, once at most between a model call and the
\* expiry, which spares the skills that this iteration activated.
ShownInv ==
  ~Interrupted =>
    /\ pc # "failing"
    /\ \A s \in OneTurn :
         /\ shows[s] <= 1
         /\ pc = "idle" /\ s \in stored.skills => shows[s] = 0
         /\ pc \in {"iterate", "pruning", "finalize"} /\ s \in ctx.skills => shows[s] = 0
         /\ pc \in {"opening", "running", "closing"} /\ s \in ctx.skills \ atStart => shows[s] = 0

\* The iteration's skills are those of the prompt; what was activated in it is there
\* and is not one of them.
FreshInv ==
  /\ pc \in {"pruning", "asking"} => atStart = ctx.skills
  /\ pc \notin {"idle", "failing"} => fresh \subseteq ctx.skills
  /\ pc \in {"opening", "running", "closing"} => fresh \cap atStart = {}

SkillsInv == FreshInv /\ ShownInv

LEMMA StartSkills ==
  ASSUME TypesInv, SkillsInv, StartTurn
  PROVE  SkillsInv'
<1>1. ctx' = Restored(stored, turn + 1) /\ turn + 1 \in 0 .. MaxTurns /\ stored \in Contexts
  BY LoopAssumption DEF TypesInv, TypeOK, StartTurn
<1>2. ctx'.skills = stored.skills
  BY <1>1, RestoredIs DEF Retold, SameSkills
<1>3. pc = "idle" /\ pc' = "iterate" /\ fresh' = {} /\ UNCHANGED <<stored, shows, stops, errors>>
  BY DEF StartTurn
<1>4. FreshInv'
  BY <1>3 DEF FreshInv
<1>5. ShownInv'
  BY <1>2, <1>3 DEF SkillsInv, ShownInv, Interrupted
<1>6. QED
  BY <1>4, <1>5 DEF SkillsInv

LEMMA IterateSkills ==
  ASSUME TypesInv, SkillsInv, Iterate
  PROVE  SkillsInv'
<1>1. ctx' = [ctx EXCEPT !.messages = Scratched(Overlaid(@, InBudget(ctx)), ctx.notes)]
  BY DEF Iterate
<1>2. ctx'.skills = ctx.skills
  BY <1>1, NotesFit DEF Contexts
<1>3. /\ pc = "iterate" /\ pc' = "pruning" /\ atStart' = ctx.skills
      /\ UNCHANGED <<stored, fresh, shows, stops, errors>>
  BY DEF Iterate, history
<1>4. FreshInv' /\ ShownInv'
  BY <1>2, <1>3 DEF SkillsInv, FreshInv, ShownInv, Interrupted
<1>5. QED
  BY <1>4 DEF SkillsInv

LEMMA PruneSkills ==
  ASSUME TypesInv, SkillsInv, Prune
  PROVE  SkillsInv'
<1>1. PICK m : ctx' = [ctx EXCEPT !.messages = m]
  BY DEF Prune
<1>2. ctx'.skills = ctx.skills
  BY <1>1, NotesFit DEF Contexts
<1>3. /\ pc = "pruning" /\ pc' = "asking"
      /\ shows' = [s \in Skills |-> IF s \in InBudget(ctx) THEN shows[s] + 1
                                   ELSE IF s \in ctx.skills THEN shows[s] ELSE 0]
      /\ UNCHANGED <<stored, atStart, fresh, stops, errors>>
  BY DEF Prune
<1>4. FreshInv'
  BY <1>2, <1>3 DEF SkillsInv, FreshInv
<1>5. ~Interrupted => \A s \in OneTurn : shows'[s] <= 1
  <2>1. SUFFICES ASSUME ~Interrupted, NEW s \in OneTurn PROVE shows'[s] <= 1
    OBVIOUS
  <2>2. s \in Skills
    BY LoopAssumption
  <2>3. s \in ctx.skills => shows[s] = 0
    BY <1>3, <2>1 DEF SkillsInv, ShownInv
  <2>4. s \in InBudget(ctx) => s \in ctx.skills
    BY DEF InBudget
  <2>5. QED
    BY <1>3, <2>2, <2>3, <2>4
<1>6. ShownInv'
  BY <1>3, <1>5 DEF ShownInv, Interrupted
<1>7. QED
  BY <1>4, <1>6 DEF SkillsInv

LEMMA AnswerCallsSkills ==
  ASSUME TypesInv, SkillsInv, NEW b \in Batches, AnswerCalls(b)
  PROVE  SkillsInv'
<1>1. PICK ids \in SUBSET Ids, asked \in Contexts :
        /\ asked = Said(ctx, Message("calls", ids))
        /\ \/ Publish(ctx, asked, "opening")
           \/ ctx' = asked /\ pc' = "opening" /\ UNCHANGED <<stored, errors>>
  BY BatchIs DEF TypesInv
<1>2. ctx \in Contexts /\ asked.skills = ctx.skills
  BY <1>1, NotesFit, MessageIs, SaidIs DEF Retold, SameSkills
<1>3. /\ "opening" \in Stages /\ UNCHANGED <<stops, atStart, shows>> /\ pc = "asking"
      /\ fresh' = {}
  BY DEF Stages, AnswerCalls
<1>4. FreshInv'
  <2>1. pc' \in {"opening", "failing"}
    BY <1>1 DEF Publish
  <2>2. QED
    BY <1>3, <2>1 DEF FreshInv
<1>5. ASSUME ~Interrupted' PROVE ~Interrupted /\ pc' = "opening" /\ ctx' = asked
  <2>1. CASE Publish(ctx, asked, "opening")
    BY <1>2, <1>3, <1>5, <2>1, PublishClean
  <2>2. CASE ctx' = asked /\ pc' = "opening" /\ UNCHANGED <<stored, errors>>
    BY <1>3, <1>5, <2>2 DEF Interrupted
  <2>3. QED
    BY <1>1, <2>1, <2>2
<1>6. atStart = ctx.skills
  BY <1>3 DEF SkillsInv, FreshInv
<1>7. ShownInv'
  BY <1>2, <1>3, <1>5, <1>6 DEF SkillsInv, ShownInv
<1>8. QED
  BY <1>4, <1>7 DEF SkillsInv

LEMMA OpenSkills ==
  ASSUME TypesInv, SkillsInv, OpenCall
  PROVE  SkillsInv'
<1>1. PICK c \in Contexts, d \in Contexts, s \in {"running", "opening"},
           passed \in Seq(Messages) :
         /\ Publish(c, d, s) /\ s = IF AtLast THEN "running" ELSE "opening"
         /\ c = Tracked(ctx, batch[next].id, "started")
         /\ Retold(c, d, c.messages \o passed)
  BY OpenIs
<1>2. c.skills = ctx.skills /\ d.skills = ctx.skills
  <2>1. ctx \in Contexts /\ batch[next].id \in Ids /\ "started" \in Statuses
    BY NotesFit, NextIs DEF OpenCall, Statuses
  <2>2. Tracked(ctx, batch[next].id, "started").skills = ctx.skills
    BY <2>1, TrackedIs DEF SameSkills
  <2>3. d.skills = c.skills
    BY <1>1 DEF Retold, SameSkills
  <2>4. QED
    BY <1>1, <2>2, <2>3
<1>3. /\ s \in Stages /\ UNCHANGED <<stops, atStart, shows, fresh>> /\ pc = "opening"
  BY DEF Stages, OpenCall, history
<1>4. FreshInv'
  <2>1. pc' \in {"opening", "running", "failing"} /\ ctx'.skills = ctx.skills
    BY <1>1, <1>2 DEF Publish
  <2>2. QED
    BY <1>3, <2>1 DEF SkillsInv, FreshInv
<1>5. ASSUME ~Interrupted' PROVE ~Interrupted /\ pc' = s /\ ctx' = d
  BY <1>1, <1>3, <1>5, PublishClean
<1>6. ShownInv'
  BY <1>2, <1>3, <1>5 DEF SkillsInv, ShownInv
<1>7. QED
  BY <1>4, <1>6 DEF SkillsInv

LEMMA RunSkills ==
  ASSUME TypesInv, SkillsInv, NEW i \in DOMAIN batch, Run(i)
  PROVE  SkillsInv'
<1>1. pc = "running" /\ pc' \in {"running", "closing"} /\ batch[i].skill \in Skills
  BY RunIs
<1>2. UNCHANGED <<stored, stops, errors, atStart>>
  BY DEF Run
<1>3. PICK a : a = batch[i]
  OBVIOUS
<1>4. PICK d \in Contexts :
        /\ d = Done(a, ctx)
        /\ d.skills = IF a.does = "activate" THEN ctx.skills \cup {a.skill}
                      ELSE IF a.does = "deactivate" THEN ctx.skills \ {a.skill}
                      ELSE ctx.skills
  BY <1>1, <1>3, NotesFit, DoneIs
<1>5. shows \in [Skills -> Nat] /\ OneTurn \subseteq Skills
  BY LoopAssumption DEF TypesInv, TypeOK
<1>6. /\ fresh \subseteq ctx.skills /\ fresh \cap atStart = {}
      /\ ~Interrupted => \A s \in OneTurn :
           shows[s] <= 1 /\ (s \in ctx.skills \ atStart => shows[s] = 0)
  BY <1>1 DEF SkillsInv, FreshInv, ShownInv
<1>7. /\ fresh' \subseteq ctx'.skills /\ fresh' \cap atStart = {}
      /\ ~Interrupted => \A s \in OneTurn :
           shows'[s] <= 1 /\ (s \in ctx'.skills \ atStart => shows'[s] = 0)
  <2>1. CASE ctx' = ctx /\ UNCHANGED <<fresh, shows>>
    BY <1>6, <2>1
  <2>2. CASE ctx' = d /\ a.does = "note" /\ UNCHANGED <<fresh, shows>>
    BY <1>4, <1>6, <2>2
  <2>3. CASE /\ ctx' = d
             /\ fresh' = IF a.does = "activate" THEN fresh \cup ({a.skill} \ atStart)
                         ELSE IF a.does = "deactivate" THEN fresh \ {a.skill} ELSE fresh
             /\ shows' = IF a.does = "activate" /\ a.skill \notin ctx.skills
                         THEN [shows EXCEPT ![a.skill] = 0] ELSE shows
    <3>1. CASE a.does = "activate" /\ a.skill \notin ctx.skills
      <4>1. \A s \in Skills : shows'[s] = IF s = a.skill THEN 0 ELSE shows[s]
        BY <1>5, <2>3, <3>1
      <4>2. QED
        BY <1>4, <1>5, <1>6, <2>3, <3>1, <4>1
    <3>2. CASE a.does = "activate" /\ a.skill \in ctx.skills
      BY <1>4, <1>6, <2>3, <3>2
    <3>3. CASE a.does # "activate"
      BY <1>4, <1>6, <2>3, <3>3
    <3>4. QED
      BY <3>1, <3>2, <3>3
  <2>4. QED
    BY <1>3, <1>4, <2>1, <2>2, <2>3, RunIs
<1>8. FreshInv'
  BY <1>1, <1>2, <1>7 DEF FreshInv
<1>9. ShownInv'
  BY <1>1, <1>2, <1>7 DEF ShownInv, Interrupted
<1>10. QED
  BY <1>8, <1>9 DEF SkillsInv

LEMMA CloseSkills ==
  ASSUME TypesInv, SkillsInv, CloseCall
  PROVE  SkillsInv'
<1>1. PICK t \in Contexts, c \in Contexts, d \in Contexts, s \in {"iterate", "closing"} :
         /\ Publish(c, d, s) /\ s = IF AtLast THEN "iterate" ELSE "closing"
         /\ Retold(ctx, t, Append(ctx.messages, Message("result", {batch[next].id})))
         /\ c = Tracked(t, batch[next].id, results[next])
         /\ d = IF AtLast THEN Expired(c, Fresh(c)) ELSE c
  BY CloseIs
<1>2. s \in Stages /\ UNCHANGED <<stops, atStart, shows, fresh>> /\ pc = "closing"
  BY DEF Stages, CloseCall, history
<1>3. c.skills = ctx.skills
  <2>1. batch[next].id \in Ids /\ results[next] \in Statuses
    BY <1>2, NextIs DEF Statuses, Given
  <2>2. t.skills = ctx.skills
    BY <1>1 DEF Retold, SameSkills
  <2>3. Tracked(t, batch[next].id, results[next]).skills = t.skills
    BY <2>1, TrackedIs DEF SameSkills
  <2>4. QED
    BY <1>1, <2>2, <2>3
<1>4. PICK k : k = ctx.skills \ atStart
  OBVIOUS
<1>5. AtLast => d.skills = (ctx.skills \ OneTurn) \cup (ctx.skills \cap k)
  <2>1. Fresh(c) = k
    BY <1>3, <1>4 DEF Fresh
  <2>2. Expired(c, k).skills = (c.skills \ OneTurn) \cup (c.skills \cap k)
    BY ExpiredIs
  <2>3. QED
    BY <1>1, <1>3, <2>1, <2>2
<1>6. /\ fresh \subseteq ctx.skills /\ fresh \cap atStart = {}
      /\ ~Interrupted => \A x \in OneTurn :
           shows[x] <= 1 /\ (x \in ctx.skills \ atStart => shows[x] = 0)
  BY <1>2 DEF SkillsInv, FreshInv, ShownInv
<1>7. fresh \subseteq d.skills
  BY <1>1, <1>3, <1>4, <1>5, <1>6
<1>8. FreshInv'
  <2>1. \/ pc' = s /\ ctx' = d
        \/ pc' = "failing"
    BY <1>1 DEF Publish
  <2>2. QED
    BY <1>1, <1>2, <1>6, <1>7, <2>1 DEF FreshInv
<1>9. ASSUME ~Interrupted' PROVE ~Interrupted /\ pc' = s /\ ctx' = d
  BY <1>1, <1>2, <1>9, PublishClean
<1>10. ShownInv'
  <2>1. SUFFICES ASSUME ~Interrupted' PROVE ShownInv'
    BY DEF ShownInv
  <2>2. \A x \in OneTurn : shows[x] <= 1 /\ (x \in ctx.skills \ atStart => shows[x] = 0)
    BY <1>6, <1>9, <2>1
  <2>3. CASE AtLast
    <3>1. \A x \in OneTurn : x \in d.skills => shows[x] = 0
      BY <1>4, <1>5, <2>2, <2>3
    <3>2. pc' = "iterate"
      BY <1>1, <1>9, <2>1, <2>3
    <3>3. QED
      BY <1>2, <1>9, <2>1, <2>2, <3>1, <3>2 DEF ShownInv
  <2>4. CASE ~AtLast
    <3>1. pc' = "closing" /\ d.skills = ctx.skills
      BY <1>1, <1>3, <1>9, <2>1, <2>4
    <3>2. QED
      BY <1>2, <1>9, <2>1, <2>2, <3>1 DEF ShownInv
  <2>5. QED
    BY <2>3, <2>4
<1>11. QED
  BY <1>8, <1>10 DEF SkillsInv

LEMMA LimitSkills ==
  ASSUME TypesInv, SkillsInv, Limit
  PROVE  SkillsInv'
<1>1. /\ ctx \in Contexts /\ "finalize" \in Stages /\ Publish(ctx, ctx, "finalize")
      /\ UNCHANGED <<stops, shows, fresh>> /\ pc = "iterate"
  BY NotesFit DEF Limit, Stages, history
<1>2. FreshInv'
  <2>1. pc' \in {"finalize", "failing"} /\ ctx' = ctx
    BY <1>1 DEF Publish
  <2>2. QED
    BY <1>1, <2>1 DEF SkillsInv, FreshInv
<1>3. ASSUME ~Interrupted' PROVE ~Interrupted /\ pc' = "finalize" /\ ctx' = ctx
  BY <1>1, <1>3, PublishClean
<1>4. ShownInv'
  BY <1>1, <1>3 DEF SkillsInv, ShownInv
<1>5. QED
  BY <1>2, <1>4 DEF SkillsInv

LEMMA AnswerTextSkills ==
  ASSUME TypesInv, SkillsInv, AnswerText
  PROVE  SkillsInv'
<1>1. PICK c \in Contexts :
        \/ Publish(c, c, "spoken")
        \/ ctx' = c /\ pc' = "spoken" /\ UNCHANGED <<stored, errors>>
  BY AnswerTextIs
<1>2. "spoken" \in Stages /\ UNCHANGED <<stops, shows>> /\ pc = "asking" /\ fresh' = {}
  BY DEF Stages, AnswerText
<1>3. FreshInv'
  <2>1. pc' \in {"spoken", "failing"}
    BY <1>1 DEF Publish
  <2>2. QED
    BY <1>2, <2>1 DEF FreshInv
<1>4. ASSUME ~Interrupted' PROVE ~Interrupted /\ pc' = "spoken"
  <2>1. CASE Publish(c, c, "spoken")
    BY <1>2, <1>4, <2>1, PublishClean
  <2>2. CASE ctx' = c /\ pc' = "spoken" /\ UNCHANGED <<stored, errors>>
    BY <1>2, <1>4, <2>2 DEF Interrupted
  <2>3. QED
    BY <1>1, <2>1, <2>2
<1>5. ShownInv'
  BY <1>2, <1>4 DEF SkillsInv, ShownInv
<1>6. QED
  BY <1>3, <1>5 DEF SkillsInv

LEMMA FinalizeSkills ==
  ASSUME TypesInv, SkillsInv, Finalize
  PROVE  SkillsInv'
<1>1. PICK c \in Contexts : /\ c = IF pc = "spoken" THEN Expired(ctx, {}) ELSE ctx
                            /\ Publish(c, c, "idle")
  BY FinalizeIs
<1>2. /\ "idle" \in Stages /\ UNCHANGED <<stops, shows>> /\ pc \in {"spoken", "finalize"}
  BY DEF Finalize, Stages, history
<1>3. FreshInv'
  <2>1. pc' \in {"idle", "failing"}
    BY <1>1 DEF Publish
  <2>2. QED
    BY <2>1 DEF FreshInv
<1>4. ASSUME ~Interrupted' PROVE ~Interrupted /\ pc' = "idle" /\ stored'.skills = c.skills
  BY <1>1, <1>2, <1>4, PublishClean DEF SameSkills
<1>5. pc = "spoken" => c.skills \cap OneTurn = {}
  <2>1. Expired(ctx, {}).skills = (ctx.skills \ OneTurn) \cup (ctx.skills \cap {})
    BY NotesFit, ExpiredIs
  <2>2. QED
    BY <1>1, <2>1
<1>6. pc = "finalize" => c.skills = ctx.skills
  BY <1>1
<1>7. ShownInv'
  BY <1>2, <1>4, <1>5, <1>6 DEF SkillsInv, ShownInv
<1>8. QED
  BY <1>3, <1>7 DEF SkillsInv

LEMMA OtherSkills ==
  ASSUME TypesInv, SkillsInv, Raise \/ Fail \/ Stop \/ UNCHANGED vars
  PROVE  SkillsInv'
<1>1. stops \in Nat /\ errors \in Nat
  BY LoopAssumption DEF TypesInv, TypeOK
<1>2. CASE Raise
  BY <1>1, <1>2 DEF SkillsInv, FreshInv, ShownInv, Raise, Interrupted
<1>3. CASE Fail
  BY <1>3 DEF SkillsInv, FreshInv, ShownInv, Fail, Interrupted
<1>4. CASE Stop
  BY <1>1, <1>4 DEF SkillsInv, FreshInv, ShownInv, Stop, Interrupted
<1>5. CASE UNCHANGED vars
  BY <1>5 DEF SkillsInv, FreshInv, ShownInv, Interrupted, vars
<1>6. QED
  BY <1>2, <1>3, <1>4, <1>5

LEMMA NextSkills ==
  ASSUME TypesInv, SkillsInv, [Next]_vars
  PROVE  SkillsInv'
<1>1. ASSUME NEW b \in Batches, AnswerCalls(b) PROVE SkillsInv'
  BY <1>1, AnswerCallsSkills
<1>2. ASSUME NEW i \in DOMAIN batch, Run(i) PROVE SkillsInv'
  BY <1>2, RunSkills
<1>3. QED
  BY <1>1, <1>2, StartSkills, IterateSkills, PruneSkills, OpenSkills, CloseSkills, LimitSkills,
     AnswerTextSkills, FinalizeSkills, OtherSkills, Zenon DEF Next

\* The skills that were shown are within the budget as long as they are active.
Stay(c, sh) == \A s \in c.skills : sh[s] > 0 => s \in InBudget(c)

StayInv ==
  ~Interrupted =>
    /\ pc = "idle" => Stay(stored, shows)
    /\ pc \notin {"idle", "failing"} => Stay(ctx, shows)

LEMMA StayAlike ==
  ASSUME NEW c, NEW d, SameSkills(c, d), NEW sh, Stay(c, sh)
  PROVE  Stay(d, sh)
<1>1. InBudget(d) = InBudget(c)
  BY BudgetAlike
<1>2. QED
  BY <1>1 DEF Stay, SameSkills

\* Some skills have no more characters than all of them.
LEMMA TextSmaller ==
  ASSUME NEW S \in SUBSET Skills, NEW T \in SUBSET S, Cardinality(Text(S)) <= SkillBudget
  PROVE  Cardinality(Text(T)) <= SkillBudget
<1>1. \A s \in S : IsFiniteSet({s} \X (1 .. Size[s]))
  <2>1. TAKE s \in S
  <2>2. Size[s] \in Nat
    BY LoopAssumption
  <2>3. PICK n \in Nat : n = Size[s]
    BY <2>2
  <2>4. IsFiniteSet({s})
    BY FS_Singleton
  <2>5. IsFiniteSet(1 .. n)
    <3>1. 1 \in Int /\ n \in Int
      OBVIOUS
    <3>2. QED
      BY <3>1, FS_Interval
  <2>6. QED
    BY <2>3, <2>4, <2>5, FS_Product
<1>2. PICK F : F = {{s} \X (1 .. Size[s]) : s \in S}
  OBVIOUS
<1>3. IsFiniteSet(F)
  <2>1. IsFiniteSet(S)
    BY LoopAssumption, FS_Subset
  <2>2. PICK f : f = [s \in S |-> {s} \X (1 .. Size[s])]
    OBVIOUS
  <2>3. f \in Surjection(S, F)
    BY <1>2, <2>2 DEF Surjection
  <2>4. QED
    BY <2>1, <2>3, FS_Surjection
<1>4. \A x \in F : IsFiniteSet(x)
  BY <1>1, <1>2
<1>5. IsFiniteSet(UNION F)
  BY <1>3, <1>4, FS_UNION
<1>6. Text(S) = UNION F
  BY <1>2 DEF Text
<1>7. Text(T) \subseteq Text(S)
  BY DEF Text
<1>8. /\ Cardinality(Text(T)) <= Cardinality(Text(S))
      /\ Cardinality(Text(T)) \in Nat /\ Cardinality(Text(S)) \in Nat
  BY <1>5, <1>6, <1>7, FS_Subset, FS_CardinalityType
<1>9. QED
  BY <1>8, LoopAssumption

\* Skills that leave the list make room for the others.
LEMMA StayReduced ==
  ASSUME NEW c \in Contexts, NEW K, NEW sh, Stay(c, sh)
  PROVE  Stay(Reduced(c, K), sh)
<1>1. PICK d : d = Reduced(c, K)
  OBVIOUS
<1>2. /\ d.skills = c.skills \cap K
      /\ \A s \in Skills \cap K : d.front[s] = c.front[s] \cap K
  BY <1>1, ReducedIs
<1>3. c.skills \in SUBSET Skills /\ c.front \in [Skills -> SUBSET Skills]
  BY ContextType
<1>4. ASSUME NEW s \in d.skills, sh[s] > 0 PROVE s \in InBudget(d)
  <2>1. s \in c.skills /\ s \in K /\ s \in Skills
    BY <1>2, <1>3, <1>4
  <2>2. PICK S \in SUBSET Skills : S = c.front[s] \cup {s}
    BY <1>3, <2>1
  <2>3. Cardinality(Text(S)) <= SkillBudget
    BY <1>4, <2>1, <2>2 DEF Stay, InBudget
  <2>4. PICK T \in SUBSET S : T = d.front[s] \cup {s}
    BY <1>2, <2>1, <2>2
  <2>5. Cardinality(Text(T)) <= SkillBudget
    BY <2>3, TextSmaller
  <2>6. QED
    BY <1>4, <2>4, <2>5 DEF InBudget
<1>5. QED
  BY <1>1, <1>4 DEF Stay

\* A skill that joins the list takes no room from those in front of it.
LEMMA StayAdded ==
  ASSUME NEW c \in Contexts, NEW a \in Skills, a \notin c.skills,
         NEW sh \in [Skills -> Nat], Stay(c, sh)
  PROVE  Stay(Added(c, a), [sh EXCEPT ![a] = 0])
<1>1. PICK d : d = Added(c, a)
  OBVIOUS
<1>2. PICK new : new = [sh EXCEPT ![a] = 0]
  OBVIOUS
<1>3. d.skills = c.skills \cup {a} /\ \A s \in c.skills : d.front[s] = c.front[s]
  BY <1>1, AddedIs
<1>4. c.skills \in SUBSET Skills
  BY ContextType
<1>5. ASSUME NEW s \in d.skills, new[s] > 0 PROVE s \in InBudget(d)
  <2>1. s \in c.skills /\ sh[s] > 0
    BY <1>2, <1>3, <1>4, <1>5
  <2>2. Cardinality(Text(c.front[s] \cup {s})) <= SkillBudget
    BY <2>1 DEF Stay, InBudget
  <2>3. d.front[s] = c.front[s]
    BY <1>3, <2>1
  <2>4. QED
    BY <1>5, <2>2, <2>3 DEF InBudget
<1>6. QED
  BY <1>1, <1>2, <1>5 DEF Stay

LEMMA StartStay ==
  ASSUME TypesInv, StayInv, StartTurn
  PROVE  StayInv'
<1>1. ctx' = Restored(stored, turn + 1) /\ turn + 1 \in 0 .. MaxTurns /\ stored \in Contexts
  BY LoopAssumption DEF TypesInv, TypeOK, StartTurn
<1>2. SameSkills(stored, ctx')
  BY <1>1, RestoredIs DEF Retold
<1>3. pc = "idle" /\ pc' = "iterate" /\ UNCHANGED <<stored, shows, stops, errors>>
  BY DEF StartTurn
<1>4. Stay(stored, shows) => Stay(ctx', shows)
  BY <1>2, StayAlike
<1>5. QED
  BY <1>3, <1>4 DEF StayInv, Interrupted

LEMMA IterateStay ==
  ASSUME TypesInv, StayInv, Iterate
  PROVE  StayInv'
<1>1. PICK m : ctx' = [ctx EXCEPT !.messages = m]
  BY DEF Iterate
<1>2. SameSkills(ctx, ctx')
  BY <1>1, NotesFit DEF Contexts, SameSkills
<1>3. pc = "iterate" /\ pc' = "pruning" /\ UNCHANGED <<stored, shows, stops, errors>>
  BY DEF Iterate, history
<1>4. Stay(ctx, shows) => Stay(ctx', shows)
  BY <1>2, StayAlike
<1>5. QED
  BY <1>3, <1>4 DEF StayInv, Interrupted

LEMMA PruneStay ==
  ASSUME TypesInv, StayInv, Prune
  PROVE  StayInv'
<1>1. PICK m : ctx' = [ctx EXCEPT !.messages = m]
  BY DEF Prune
<1>2. SameSkills(ctx, ctx')
  BY <1>1, NotesFit DEF Contexts, SameSkills
<1>3. /\ pc = "pruning" /\ pc' = "asking" /\ UNCHANGED <<stored, stops, errors>>
      /\ shows' = [s \in Skills |-> IF s \in InBudget(ctx) THEN shows[s] + 1
                                   ELSE IF s \in ctx.skills THEN shows[s] ELSE 0]
  BY DEF Prune
<1>4. ctx.skills \in SUBSET Skills
  BY NotesFit, ContextType
<1>5. Stay(ctx, shows) => Stay(ctx, shows')
  BY <1>3, <1>4 DEF Stay
<1>6. Stay(ctx, shows') => Stay(ctx', shows')
  BY <1>2, StayAlike
<1>7. QED
  BY <1>3, <1>5, <1>6 DEF StayInv, Interrupted

\* A save inside a turn, and one that ends it.
LEMMA PublishStay ==
  ASSUME TypesInv, NEW c \in Contexts, NEW d \in Contexts, NEW s \in Stages,
         Publish(c, d, s), UNCHANGED <<stops, shows>>,
         ~Interrupted => Stay(c, shows) /\ Stay(d, shows)
  PROVE  StayInv'
<1>1. SUFFICES ASSUME ~Interrupted' PROVE Stay(stored', shows) /\ Stay(ctx', shows)
  BY DEF StayInv
<1>2. ~Interrupted /\ ctx' = d /\ SameSkills(c, stored')
  BY <1>1, PublishClean
<1>3. QED
  BY <1>2, StayAlike

LEMMA AnswerStay ==
  ASSUME TypesInv, StayInv, (\E b \in Batches : AnswerCalls(b)) \/ AnswerText
  PROVE  StayInv'
<1>1. PICK c \in Contexts, d \in Contexts, s \in Stages \ {"idle"} :
        /\ SameSkills(ctx, c) /\ SameSkills(ctx, d)
        /\ \/ Publish(c, d, s)
           \/ ctx' = d /\ pc' = s /\ UNCHANGED <<stored, errors>>
  <2>1. CASE AnswerText
    <3>1. PICK c \in Contexts :
            /\ SameSkills(ctx, c)
            /\ \/ Publish(c, c, "spoken")
               \/ ctx' = c /\ pc' = "spoken" /\ UNCHANGED <<stored, errors>>
      BY <2>1, AnswerTextIs DEF Retold
    <3>2. "spoken" \in Stages \ {"idle"}
      BY DEF Stages
    <3>3. QED
      BY <3>1, <3>2
  <2>2. ASSUME NEW b \in Batches, AnswerCalls(b)
        PROVE  \E c \in Contexts, d \in Contexts, s \in Stages \ {"idle"} :
                 /\ SameSkills(ctx, c) /\ SameSkills(ctx, d)
                 /\ \/ Publish(c, d, s)
                    \/ ctx' = d /\ pc' = s /\ UNCHANGED <<stored, errors>>
    <3>1. PICK ids \in SUBSET Ids, asked \in Contexts :
            /\ asked = Said(ctx, Message("calls", ids))
            /\ \/ Publish(ctx, asked, "opening")
               \/ ctx' = asked /\ pc' = "opening" /\ UNCHANGED <<stored, errors>>
      BY <2>2, BatchIs DEF TypesInv
    <3>2. ctx \in Contexts /\ SameSkills(ctx, ctx)
      BY NotesFit DEF SameSkills
    <3>3. SameSkills(ctx, asked)
      BY <3>1, <3>2, MessageIs, SaidIs DEF Retold
    <3>4. "opening" \in Stages \ {"idle"}
      BY DEF Stages
    <3>5. QED
      BY <3>1, <3>2, <3>3, <3>4
  <2>3. QED
    BY <2>1, <2>2
<1>2. pc = "asking" /\ UNCHANGED <<stops, shows>>
  BY DEF AnswerCalls, AnswerText
<1>3. ~Interrupted => Stay(c, shows) /\ Stay(d, shows)
  <2>1. ~Interrupted => Stay(ctx, shows)
    BY <1>2 DEF StayInv
  <2>2. QED
    BY <1>1, <2>1, StayAlike
<1>4. CASE Publish(c, d, s)
  BY <1>2, <1>3, <1>4, PublishStay
<1>5. CASE ctx' = d /\ pc' = s /\ UNCHANGED <<stored, errors>>
  BY <1>2, <1>3, <1>5 DEF StayInv, Interrupted
<1>6. QED
  BY <1>1, <1>4, <1>5

LEMMA OpenStay ==
  ASSUME TypesInv, StayInv, OpenCall
  PROVE  StayInv'
<1>1. PICK c \in Contexts, d \in Contexts, s \in {"running", "opening"},
           passed \in Seq(Messages) :
         /\ Publish(c, d, s)
         /\ c = Tracked(ctx, batch[next].id, "started")
         /\ Retold(c, d, c.messages \o passed)
  BY OpenIs
<1>2. SameSkills(ctx, c) /\ SameSkills(c, d)
  <2>1. ctx \in Contexts /\ batch[next].id \in Ids /\ "started" \in Statuses
    BY NotesFit, NextIs DEF OpenCall, Statuses
  <2>2. SameSkills(ctx, Tracked(ctx, batch[next].id, "started"))
    BY <2>1, TrackedIs
  <2>3. QED
    BY <1>1, <2>2 DEF Retold
<1>3. s \in Stages /\ pc = "opening" /\ UNCHANGED <<stops, shows>>
  BY DEF Stages, OpenCall, history
<1>4. ~Interrupted => Stay(c, shows) /\ Stay(d, shows)
  BY <1>2, <1>3, StayAlike DEF StayInv
<1>5. QED
  BY <1>1, <1>3, <1>4, PublishStay

LEMMA RunStay ==
  ASSUME TypesInv, StayInv, NEW i \in DOMAIN batch, Run(i)
  PROVE  StayInv'
<1>1. pc = "running" /\ pc' \in {"running", "closing"} /\ batch[i].skill \in Skills
  BY RunIs
<1>2. UNCHANGED <<stored, stops, errors>>
  BY DEF Run
<1>3. PICK a : a = batch[i]
  OBVIOUS
<1>4. ctx \in Contexts /\ shows \in [Skills -> Nat] /\ a.skill \in Skills
  BY <1>1, <1>3, NotesFit DEF TypesInv, TypeOK
<1>5. SUFFICES ASSUME Stay(ctx, shows) PROVE Stay(ctx', shows')
  BY <1>1, <1>2 DEF StayInv, Interrupted
<1>6. CASE ctx' = ctx /\ UNCHANGED shows
  BY <1>5, <1>6
<1>7. CASE /\ ctx' = Done(a, ctx)
           /\ shows' = IF a.does = "activate" /\ a.skill \notin ctx.skills
                       THEN [shows EXCEPT ![a.skill] = 0] ELSE shows
  <2>1. CASE a.does = "activate" /\ a.skill \notin ctx.skills
    <3>1. ctx' = Added(ctx, a.skill) /\ shows' = [shows EXCEPT ![a.skill] = 0]
      BY <1>7, <2>1 DEF Done
    <3>2. QED
      BY <1>4, <1>5, <2>1, <3>1, StayAdded
  <2>2. CASE a.does = "activate" /\ a.skill \in ctx.skills
    BY <1>5, <1>7, <2>2 DEF Done, Added
  <2>3. CASE a.does = "deactivate"
    <3>1. ctx' = Reduced(ctx, Skills \ {a.skill}) /\ shows' = shows
      BY <1>7, <2>3 DEF Done
    <3>2. QED
      BY <1>4, <1>5, <3>1, StayReduced
  <2>4. CASE a.does = "note"
    <3>1. PICK d : d = [ctx EXCEPT !.notes = @ + 1]
      OBVIOUS
    <3>2. ctx' = d /\ shows' = shows
      BY <1>7, <2>4, <3>1 DEF Done
    <3>3. SameSkills(ctx, d)
      BY <1>4, <3>1 DEF Contexts, SameSkills
    <3>4. QED
      BY <1>5, <3>2, <3>3, StayAlike
  <2>5. CASE a.does \notin {"activate", "deactivate", "note"}
    BY <1>5, <1>7, <2>5 DEF Done
  <2>6. QED
    BY <2>1, <2>2, <2>3, <2>4, <2>5
<1>8. CASE ctx' = Done(a, ctx) /\ a.does = "note" /\ UNCHANGED shows
  BY <1>7, <1>8
<1>9. QED
  BY <1>3, <1>6, <1>7, <1>8, RunIs

LEMMA CloseStay ==
  ASSUME TypesInv, StayInv, CloseCall
  PROVE  StayInv'
<1>1. PICK t \in Contexts, c \in Contexts, d \in Contexts, s \in {"iterate", "closing"} :
         /\ Publish(c, d, s)
         /\ Retold(ctx, t, Append(ctx.messages, Message("result", {batch[next].id})))
         /\ c = Tracked(t, batch[next].id, results[next])
         /\ d = IF AtLast THEN Expired(c, Fresh(c)) ELSE c
  BY CloseIs
<1>2. s \in Stages /\ pc = "closing" /\ UNCHANGED <<stops, shows>>
  BY DEF Stages, CloseCall, history
<1>3. SameSkills(ctx, t) /\ SameSkills(t, c)
  <2>1. PICK id \in Ids, status \in Statuses : id = batch[next].id /\ status = results[next]
    BY <1>2, NextIs DEF Statuses, Given
  <2>2. c = Tracked(t, id, status)
    BY <1>1, <2>1
  <2>3. SameSkills(t, c)
    BY <2>2, TrackedIs
  <2>4. QED
    BY <1>1, <2>3 DEF Retold
<1>4. ~Interrupted => Stay(c, shows)
  BY <1>2, <1>3, StayAlike DEF StayInv
<1>5. Stay(c, shows) => Stay(Expired(c, Fresh(c)), shows)
  BY StayReduced DEF Expired
<1>6. ~Interrupted => Stay(d, shows)
  BY <1>1, <1>4, <1>5
<1>7. QED
  BY <1>1, <1>2, <1>4, <1>6, PublishStay

LEMMA EndStay ==
  ASSUME TypesInv, SkillsInv, StayInv, Limit \/ Finalize \/ Raise \/ Fail \/ Stop \/ UNCHANGED vars
  PROVE  StayInv'
<1>1. ctx \in Contexts /\ stops \in Nat /\ errors \in Nat
  BY NotesFit, LoopAssumption DEF TypesInv, TypeOK
<1>2. CASE Limit
  <2>1. /\ Publish(ctx, ctx, "finalize") /\ "finalize" \in Stages /\ pc = "iterate"
        /\ UNCHANGED <<stops, shows>>
    BY <1>2 DEF Limit, Stages, history
  <2>2. QED
    BY <1>1, <2>1, PublishStay DEF StayInv
<1>3. CASE Finalize
  <2>1. PICK c \in Contexts : /\ c = IF pc = "spoken" THEN Expired(ctx, {}) ELSE ctx
                              /\ Publish(c, c, "idle")
    BY <1>3, FinalizeIs
  <2>2. pc \in {"spoken", "finalize"} /\ "idle" \in Stages /\ UNCHANGED <<stops, shows>>
    BY <1>3 DEF Finalize, Stages, history
  <2>3. ~Interrupted => Stay(ctx, shows)
    BY <2>2 DEF StayInv
  <2>4. Stay(ctx, shows) => Stay(Expired(ctx, {}), shows)
    BY <1>1, StayReduced DEF Expired
  <2>5. ~Interrupted => Stay(c, shows)
    BY <2>1, <2>3, <2>4
  <2>6. QED
    BY <2>1, <2>2, <2>5, PublishStay
<1>4. CASE Raise
  BY <1>1, <1>4 DEF StayInv, Raise, Interrupted
<1>5. CASE Fail
  <2>1. pc = "failing" /\ UNCHANGED <<stops, errors>>
    BY <1>5 DEF Fail
  <2>2. Interrupted
    BY <2>1 DEF SkillsInv, ShownInv
  <2>3. QED
    BY <2>1, <2>2 DEF StayInv, Interrupted
<1>6. CASE Stop
  BY <1>1, <1>6 DEF StayInv, Stop, Interrupted
<1>7. CASE UNCHANGED vars
  BY <1>7 DEF StayInv, Interrupted, vars
<1>8. QED
  BY <1>2, <1>3, <1>4, <1>5, <1>6, <1>7

LEMMA NextStay ==
  ASSUME TypesInv, SkillsInv, StayInv, [Next]_vars
  PROVE  StayInv'
<1>1. ASSUME NEW i \in DOMAIN batch, Run(i) PROVE StayInv'
  BY <1>1, RunStay
<1>2. QED
  BY <1>1, StartStay, IterateStay, PruneStay, AnswerStay, OpenStay, CloseStay, EndStay, Zenon
     DEF Next

\* A skill just activated is active at the next model call; a one_turn skill is shown to
\* one model call per activation at most, unless a turn is interrupted; and a skill that
\* was shown is shown as long as it is active, whatever skills come and go beside it
\* (loop.py:394-403, 581; prompt.py:85-128), for any skills, texts and budget.
THEOREM SkillsAreShown == Spec => []SkillsShown
<1>1. Init => SkillsInv /\ StayInv
  <2>1. Init => SkillsInv
    BY LoopAssumption DEF Init, SkillsInv, FreshInv, ShownInv
  <2>2. Init => StayInv
    BY SeededIs DEF Init, StayInv, Stay
  <2>3. QED
    BY <2>1, <2>2
<1>2. TypesInv /\ SkillsInv /\ StayInv /\ [Next]_vars => TypesInv' /\ SkillsInv' /\ StayInv'
  BY NextTypes, NextSkills, NextStay
<1>3. SkillsInv /\ StayInv => SkillsShown
  BY DEF SkillsInv, FreshInv, ShownInv, StayInv, Stay, SkillsShown
<1>4. QED
  BY InitTypes, <1>1, <1>2, <1>3, PTL DEF Spec

-----------------------------------------------------------------------------
(* Lists of messages: what keeps their order *)

\* The prompt is first, there is at most one scratchpad, and the system messages
\* come before all others.
Shaped(m) ==
  /\ m # <<>> => m[1].kind = "prompt"
  /\ \A i \in DOMAIN m : m[i].kind = "prompt" => i = 1
  /\ \A i, j \in DOMAIN m : m[i].kind = "scratchpad" /\ m[j].kind = "scratchpad" => i = j
  /\ \A i, j \in DOMAIN m : i < j /\ m[j].kind \in System => m[i].kind \in System

\* Behind k, the messages of m are those of n behind h; before it, n has only system
\* messages, and so had m unless what is left starts with a turn.
Follows(m, n, k, h) ==
  /\ k \in 0 .. Len(m) /\ h \in 0 .. Len(n) /\ Len(n) - h = Len(m) - k
  /\ \A j \in 1 .. Len(m) - k : n[h + j] = m[k + j]
  /\ \A i \in 1 .. h : n[i].kind \in System
  /\ \/ \A i \in 1 .. k : m[i].kind \in System
     \/ k < Len(m) /\ m[k + 1].kind = "user"

\* Every message that tells of a turn is in n too.
Covers(m, n) ==
  \A i \in DOMAIN m : m[i].kind \in {"user", "summary"} => \E j \in DOMAIN n : n[j] = m[i]

LEMMA CoversIs ==
  ASSUME NEW m, NEW n, Covers(m, n)
  PROVE  Users(m) \subseteq Users(n) /\ Covered(m) \subseteq Covered(n)
<1>1. Users(m) \subseteq Users(n)
  BY DEF Covers, Users
<1>2. Summarised(m) \subseteq Summarised(n)
  BY DEF Covers, Summarised
<1>3. QED
  BY <1>1, <1>2 DEF Covered

LEMMA SystemIs ==
  /\ \A kind : kind \in System => kind \notin {"user", "text", "calls", "result"}
  /\ "prompt" \in System /\ "scratchpad" \in System /\ "summary" \in System
BY DEF System

LEMMA UnchangedList ==
  ASSUME NEW m \in Seq(Messages)
  PROVE  Follows(m, m, 0, 0) /\ Covers(m, m)
BY DEF Follows, Covers

LEMMA OverlaidList ==
  ASSUME NEW m \in Seq(Messages), Shaped(m), m # <<>>, NEW skills \in SUBSET Skills
  PROVE  LET o == Overlaid(m, skills) IN
         /\ o \in Seq(Messages) /\ Shaped(o) /\ o # <<>>
         /\ o[1] = Message("prompt", skills)
         /\ ScratchpadAt(o) = ScratchpadAt(m)
         /\ Follows(m, o, 1, 1) /\ Covers(m, o)
<1>1. PICK o : o = Overlaid(m, skills)
  OBVIOUS
<1>2. m[1].kind = "prompt" /\ Leads(m)
  BY SystemIs DEF Shaped, Leads
<1>3. PICK z \in Nat \ {0} : z = Len(m) /\ DOMAIN m = 1 .. z
  OBVIOUS
<1>4. /\ o \in Seq(Messages) /\ Len(o) = z /\ DOMAIN o = 1 .. z
      /\ o[1] = Message("prompt", skills)
      /\ \A i \in 2 .. z : o[i] = m[i]
  BY <1>1, <1>2, <1>3, OverlaidIs
<1>5. o[1].kind = "prompt"
  BY <1>4, MessageIs
<1>6. \A i \in 1 .. z : o[i].kind = m[i].kind
  <2>1. TAKE i \in 1 .. z
  <2>2. i = 1 \/ i \in 2 .. z
    OBVIOUS
  <2>3. QED
    BY <1>2, <1>4, <1>5, <2>2
<1>7. o # <<>>
  BY <1>3, <1>4
<1>8. Shaped(o)
  BY <1>3, <1>4, <1>5, <1>6, <1>7 DEF Shaped
<1>9. ScratchpadAt(o) = ScratchpadAt(m)
  BY <1>3, <1>4, <1>6 DEF ScratchpadAt
<1>10. Follows(m, o, 1, 1)
  <2>1. \A j \in 1 .. z - 1 : o[1 + j] = m[1 + j]
    BY <1>4
  <2>2. \A i \in 1 .. 1 : o[i].kind \in System /\ m[i].kind \in System
    BY <1>2, <1>5, SystemIs
  <2>3. QED
    BY <1>3, <1>4, <2>1, <2>2 DEF Follows
<1>11. Covers(m, o)
  <2>1. \A i \in 1 .. z : m[i].kind \in {"user", "summary"} => o[i] = m[i]
    BY <1>2, <1>4
  <2>2. QED
    BY <1>3, <1>4, <2>1 DEF Covers
<1>12. QED
  BY <1>1, <1>4, <1>7, <1>8, <1>9, <1>10, <1>11

LEMMA ScratchedList ==
  ASSUME NEW m \in Seq(Messages), Shaped(m), m # <<>>, NEW notes \in 0 .. MaxCalls
  PROVE  LET s == Scratched(m, notes) IN
         /\ s \in Seq(Messages) /\ Shaped(s) /\ s # <<>> /\ s[1] = m[1]
         /\ notes = 0 => s = m
         /\ notes # 0 => /\ ScratchpadAt(s) # {}
                         /\ \A i \in ScratchpadAt(s) : s[i].of = {notes}
         /\ \E k, h \in Nat : Follows(m, s, k, h)
         /\ Covers(m, s)
<1>1. PICK s : s = Scratched(m, notes)
  OBVIOUS
<1>2. PICK p : p = Message("scratchpad", {notes})
  OBVIOUS
<1>3. p.kind = "scratchpad" /\ p.of = {notes}
  BY <1>2, MessageIs
<1>4. m[1].kind = "prompt" /\ Leads(m)
  BY SystemIs DEF Shaped, Leads
<1>5. PICK z \in Nat \ {0} : z = Len(m) /\ DOMAIN m = 1 .. z
  OBVIOUS
<1>6. /\ s \in Seq(Messages)
      /\ \/ notes = 0 /\ s = m
         \/ \E i \in DOMAIN m :
              /\ m[i].kind = "scratchpad" /\ Len(s) = Len(m) /\ s[i] = p
              /\ \A j \in DOMAIN m : j # i => s[j] = m[j]
         \/ /\ \A i \in DOMAIN m : m[i].kind # "scratchpad"
            /\ Len(s) = Len(m) + 1 /\ s[2] = p
            /\ \A j \in 1 .. 1 : s[j] = m[j]
            /\ \A j \in 2 .. Len(m) : s[j + 1] = m[j]
  <2>1. PICK k : k = IF Leads(m) THEN 2 ELSE 1
    OBVIOUS
  <2>2. /\ s \in Seq(Messages)
        /\ \/ notes = 0 /\ s = m
           \/ \E i \in DOMAIN m :
                /\ m[i].kind = "scratchpad" /\ Len(s) = Len(m) /\ s[i] = p
                /\ \A j \in DOMAIN m : j # i => s[j] = m[j]
           \/ /\ \A i \in DOMAIN m : m[i].kind # "scratchpad"
              /\ Len(s) = Len(m) + 1 /\ s[k] = p /\ k <= Len(s)
              /\ \A j \in 1 .. k - 1 : s[j] = m[j]
              /\ \A j \in k .. Len(m) : s[j + 1] = m[j]
    BY Zenon, <1>1, <1>2, <2>1, ScratchedIs
  <2>3. k = 2 /\ 1 .. k - 1 = 1 .. 1
    BY <1>4, <2>1
  <2>4. QED
    BY Zenon, <2>2, <2>3
<1>7. CASE notes = 0 /\ s = m
  BY <1>1, <1>7, UnchangedList
<1>8. CASE \E i \in DOMAIN m :
             /\ m[i].kind = "scratchpad" /\ Len(s) = Len(m) /\ s[i] = p
             /\ \A j \in DOMAIN m : j # i => s[j] = m[j]
  <2>1. PICK i \in 1 .. z : /\ m[i].kind = "scratchpad" /\ Len(s) = z /\ s[i] = p
                            /\ \A j \in 1 .. z : j # i => s[j] = m[j]
    BY <1>5, <1>8
  <2>2. i # 1 /\ DOMAIN s = 1 .. z /\ s # <<>>
    BY <1>4, <1>5, <1>6, <2>1
  <2>3. \A j \in 1 .. z : s[j].kind = m[j].kind
    BY <1>3, <2>1
  <2>4. s[1] = m[1]
    BY <1>5, <2>1, <2>2
  <2>5. Shaped(s)
    BY SMTT(20), <1>4, <1>5, <2>2, <2>3 DEF Shaped
  <2>6. ScratchpadAt(s) = {i}
    BY <1>5, <2>1, <2>2, <2>3 DEF ScratchpadAt, Shaped
  <2>7. \A j \in ScratchpadAt(s) : s[j].of = {notes}
    BY <1>3, <2>1, <2>6
  <2>8. Follows(m, s, i, i)
    <3>1. \A j \in 1 .. z - i : s[i + j] = m[i + j]
      BY <2>1
    <3>2. \A j \in 1 .. i : m[j].kind \in System /\ s[j].kind \in System
      <4>1. TAKE j \in 1 .. i
      <4>2. j = i \/ j < i
        OBVIOUS
      <4>3. j \in 1 .. z
        OBVIOUS
      <4>4. QED
        BY <1>5, <2>1, <2>3, <4>2, <4>3, SystemIs DEF Shaped
    <3>3. QED
      BY <1>5, <2>1, <3>1, <3>2 DEF Follows
  <2>9. Covers(m, s)
    BY <1>5, <2>1, <2>2 DEF Covers
  <2>10. notes # 0 \/ s = m
    BY <1>1 DEF Scratched
  <2>11. i \in Nat
    OBVIOUS
  <2>12. QED
    BY <1>1, <1>6, <2>2, <2>4, <2>5, <2>6, <2>7, <2>8, <2>9, <2>10, <2>11
<1>9. CASE /\ \A i \in DOMAIN m : m[i].kind # "scratchpad"
           /\ Len(s) = Len(m) + 1 /\ s[2] = p
           /\ \A j \in 1 .. 1 : s[j] = m[j]
           /\ \A j \in 2 .. Len(m) : s[j + 1] = m[j]
  <2>1. /\ \A i \in 1 .. z : m[i].kind # "scratchpad"
        /\ s[1] = m[1] /\ s[2] = p /\ DOMAIN s = 1 .. z + 1 /\ s # <<>>
        /\ \A j \in 2 .. z : s[j + 1] = m[j]
    BY <1>5, <1>6, <1>9
  <2>2. \A j \in 1 .. z + 1 : j = 1 \/ j = 2 \/ \E i \in 2 .. z : j = i + 1 /\ s[j] = m[i]
    <3>1. TAKE j \in 1 .. z + 1
    <3>2. CASE j = 1 \/ j = 2
      BY <3>2
    <3>3. CASE j # 1 /\ j # 2
      <4>1. PICK i \in 2 .. z : j = i + 1
        BY <3>3
      <4>2. QED
        BY <2>1, <4>1
    <3>4. QED
      BY <3>2, <3>3
  <2>3. \A j \in 1 .. z + 1 : s[j].kind = "prompt" => j = 1
    <3>1. \A i \in 2 .. z : m[i].kind # "prompt"
      BY <1>5 DEF Shaped
    <3>2. s[2].kind # "prompt"
      BY <1>3, <2>1
    <3>3. QED
      BY <2>2, <3>1, <3>2
  <2>4. \A j \in 1 .. z + 1 : s[j].kind = "scratchpad" => j = 2
    BY <1>4, <2>1, <2>2
  <2>5. \A i, j \in 1 .. z + 1 : i < j /\ s[j].kind \in System => s[i].kind \in System
    <3>1. SUFFICES ASSUME NEW i \in 1 .. z + 1, NEW j \in 1 .. z + 1, i < j, s[j].kind \in System
                   PROVE  s[i].kind \in System
      OBVIOUS
    <3>2. CASE i = 1 \/ i = 2
      BY <1>3, <1>4, <2>1, <3>2, SystemIs
    <3>3. CASE i # 1 /\ i # 2
      <4>1. PICK a \in 2 .. z : i = a + 1 /\ s[i] = m[a]
        BY <2>2, <3>3
      <4>2. PICK c \in 2 .. z : j = c + 1 /\ s[j] = m[c]
        BY <2>2, <3>1, <3>3
      <4>3. a < c /\ a \in 1 .. z /\ c \in 1 .. z
        BY <3>1, <4>1, <4>2
      <4>4. QED
        BY <1>5, <3>1, <4>1, <4>2, <4>3 DEF Shaped
    <3>4. QED
      BY <3>2, <3>3
  <2>6. Shaped(s)
    BY <1>4, <2>1, <2>3, <2>4, <2>5 DEF Shaped
  <2>7. /\ ScratchpadAt(s) # {} /\ \A j \in ScratchpadAt(s) : s[j].of = {notes}
    <3>1. 2 \in ScratchpadAt(s)
      BY <1>3, <1>5, <2>1 DEF ScratchpadAt
    <3>2. \A j \in ScratchpadAt(s) : j = 2
      BY <2>1, <2>4 DEF ScratchpadAt
    <3>3. QED
      BY <1>3, <2>1, <3>1, <3>2
  <2>8. Follows(m, s, 1, 2)
    <3>1. \A j \in 1 .. z - 1 : s[2 + j] = m[1 + j]
      <4>1. TAKE j \in 1 .. z - 1
      <4>2. PICK i \in 2 .. z : i = 1 + j
        OBVIOUS
      <4>3. s[i + 1] = m[i] /\ i + 1 = 2 + j
        BY <2>1, <4>2
      <4>4. QED
        BY <4>2, <4>3
    <3>2. \A j \in 1 .. 2 : s[j].kind \in System
      <4>1. \A j \in 1 .. 2 : j = 1 \/ j = 2
        OBVIOUS
      <4>2. QED
        BY <1>3, <1>4, <2>1, <4>1, SystemIs
    <3>3. \A j \in 1 .. 1 : m[j].kind \in System
      BY <1>4, SystemIs
    <3>4. Len(s) = z + 1
      BY <1>5, <1>9
    <3>5. QED
      BY <1>5, <3>1, <3>2, <3>3, <3>4 DEF Follows
  <2>9. Covers(m, s)
    <3>1. SUFFICES ASSUME NEW i \in 1 .. z, m[i].kind \in {"user", "summary"}
                   PROVE  \E j \in DOMAIN s : s[j] = m[i]
      BY <1>5, Zenon DEF Covers
    <3>2. i \in 2 .. z
      BY <1>4, <3>1
    <3>3. i + 1 \in DOMAIN s /\ s[i + 1] = m[i]
      BY <2>1, <3>2
    <3>4. QED
      BY <3>3
  <2>10. notes # 0 \/ s = m
    BY <1>1 DEF Scratched
  <2>11. QED
    BY <1>1, <1>6, <2>1, <2>6, <2>7, <2>8, <2>9, <2>10
<1>10. QED
  BY <1>6, <1>7, <1>8, <1>9

LEMMA BetweenIs ==
  ASSUME NEW u \in Seq(Messages), NEW p \in Messages, NEW v \in Seq(Messages),
         NEW a \in Nat, NEW r \in Nat, Len(u) = a, Len(v) = r
  PROVE  \E w, x : /\ Joined(Messages, u, x, a, 1, w) /\ x[1] = p
                   /\ Joined(Messages, w, v, a + 1, r, u \o <<p>> \o v)
<1>1. PICK x \in Seq(Messages) : x = <<p>> /\ Len(x) = 1 /\ x[1] = p
  BY OnlyIs
<1>2. PICK w : w = u \o x
  OBVIOUS
<1>3. Joined(Messages, u, x, a, 1, w)
  BY <1>1, <1>2, JoinedIs
<1>4. PICK b \in Nat : b = a + 1
  OBVIOUS
<1>5. w \in Seq(Messages) /\ Len(w) = b
  BY <1>3, <1>4 DEF Joined
<1>6. PICK q : q = w \o v
  OBVIOUS
<1>7. Joined(Messages, w, v, b, r, q)
  BY <1>5, <1>6, JoinedIs
<1>8. q = u \o <<p>> \o v
  BY <1>1, <1>2, <1>6
<1>9. QED
  BY <1>1, <1>3, <1>4, <1>7, <1>8

\* What a cut behind the prompt leaves, message by message.
CutOff(m, kept, cut, r, q) ==
  /\ q \in Seq(Messages) /\ Len(q) = r + 2 /\ q[1] = m[1]
  /\ q[2] = Condensed(SubSeq(m, 2, cut - 1), kept)
  /\ \A j \in 1 .. r : q[2 + j] = m[cut - 1 + j]

LEMMA CutIs ==
  ASSUME NEW m \in Seq(Messages), NEW kept, NEW cut \in Nat, Cut(m, kept, 1, cut),
         NEW r \in Nat, r = Len(m) - cut + 1
  PROVE  CutOff(m, kept, cut, r, Pruned(m, kept))
<1>1. PICK z \in Nat : z = Len(m) /\ 2 < cut /\ cut <= z /\ r = z - cut + 1
  BY DEF Cut
<1>2. PICK u : u = SubSeq(m, 1, 1)
  OBVIOUS
<1>3. u \in Seq(Messages) /\ Len(u) = 1 /\ u[1] = m[1]
  BY <1>1, <1>2
<1>4. PICK v : v = SubSeq(m, cut, z)
  OBVIOUS
<1>5. v \in Seq(Messages) /\ Len(v) = r /\ \A j \in 1 .. r : v[j] = m[cut + j - 1]
  BY <1>1, <1>4
<1>6. SubSeq(m, 2, cut - 1) \in Seq(Messages)
  BY <1>1
<1>7. PICK p \in Messages : p = Condensed(SubSeq(m, 2, cut - 1), kept)
  BY <1>6, CondensedType
<1>8. PICK q : q = u \o <<p>> \o v
  OBVIOUS
<1>9. /\ q \in Seq(Messages) /\ Len(q) = r + 2 /\ q[1] = u[1] /\ q[2] = p
       /\ \A j \in 1 .. r : q[2 + j] = v[j]
  <2>1. PICK a \in Nat : a = 1
    OBVIOUS
  <2>2. PICK w, x : /\ Joined(Messages, u, x, a, 1, w)
                    /\ x[1] = p
                    /\ Joined(Messages, w, v, a + 1, r, q)
    BY <1>3, <1>5, <1>8, <2>1, BetweenIs
  <2>3. 1 \in 1 .. a /\ 1 \in 1 .. a + 1 /\ a + 1 \in 1 .. a + 1 /\ 1 \in 1 .. 1 /\ a + 1 = 2
    BY <2>1
  <2>4. q[1] = w[1] /\ w[1] = u[1]
    BY <2>2, <2>3 DEF Joined
  <2>5. q[a + 1] = w[a + 1] /\ w[a + 1] = p
    BY <2>2, <2>3 DEF Joined
  <2>6. /\ q \in Seq(Messages) /\ Len(q) = a + 1 + r
        /\ \A j \in 1 .. r : q[a + 1 + j] = v[j]
    BY <2>2 DEF Joined
  <2>7. QED
    BY <2>3, <2>4, <2>5, <2>6
<1>10. \A j \in 1 .. r : q[2 + j] = m[cut - 1 + j]
  <2>1. TAKE j \in 1 .. r
  <2>2. cut + j - 1 = cut - 1 + j
    BY <1>1
  <2>3. QED
    BY <1>5, <1>9, <2>2
<1>11. Pruned(m, kept) = q
  BY <1>1, <1>2, <1>4, <1>7, <1>8 DEF Cut
<1>12. CutOff(m, kept, cut, r, q)
  BY <1>3, <1>7, <1>9, <1>10 DEF CutOff
<1>13. QED
  BY <1>11, <1>12

LEMMA PrunedList ==
  ASSUME NEW m \in Seq(Messages), Shaped(m), m # <<>>, NEW kept
  PROVE  LET q == Pruned(m, kept) IN
         /\ q \in Seq(Messages) /\ Shaped(q) /\ q # <<>> /\ q[1] = m[1]
         /\ \/ q = m
            \/ ScratchpadAt(q) = {}
         /\ \E k, h \in Nat : Follows(m, q, k, h)
         /\ Users(m) \subseteq Covered(q)
<1>1. CASE Pruned(m, kept) = m
  BY <1>1, UnchangedList DEF Covered
<1>2. CASE Pruned(m, kept) # m
  <2>1. PICK e \in {0, 1}, cut \in Nat : Cut(m, kept, e, cut)
    BY <1>2, PrunedIs
  <2>2. m[1].kind = "prompt" /\ Leads(m)
    BY SystemIs DEF Shaped, Leads
  <2>3. e = 1
    BY <2>1, <2>2 DEF Cut
  <2>4. PICK z \in Nat \ {0} : z = Len(m) /\ DOMAIN m = 1 .. z
    OBVIOUS
  <2>5. 2 < cut /\ cut <= z /\ m[cut].kind = "user"
    BY <2>1, <2>3, <2>4 DEF Cut
  <2>6. PICK r \in Nat : r = z - cut + 1
    BY <2>4, <2>5
  <2>7. PICK q : q = Pruned(m, kept)
    OBVIOUS
  <2>8. /\ q \in Seq(Messages) /\ Len(q) = r + 2 /\ q[1] = m[1]
        /\ q[2] = Condensed(SubSeq(m, 2, cut - 1), kept)
        /\ \A j \in 1 .. r : q[2 + j] = m[cut - 1 + j]
    <3>1. Cut(m, kept, 1, cut) /\ r = Len(m) - cut + 1
      BY <2>1, <2>3, <2>4, <2>6
    <3>2. CutOff(m, kept, cut, r, q)
      BY <2>7, <3>1, CutIs, Zenon
    <3>3. QED
      BY <3>2 DEF CutOff
  <2>9. DOMAIN q = 1 .. r + 2 /\ q # <<>>
    BY <2>8
  <2>10. q[2].kind = "summary" /\ Users(SubSeq(m, 2, cut - 1)) \subseteq q[2].of
    BY <2>8, MessageIs DEF Condensed
  <2>11. \A i \in 1 .. z : i >= cut => m[i].kind \notin System
    <3>1. SUFFICES ASSUME NEW i \in 1 .. z, i >= cut, m[i].kind \in System PROVE FALSE
      OBVIOUS
    <3>2. i # cut
      BY <2>5, <3>1, SystemIs
    <3>3. cut < i /\ cut \in 1 .. z
      BY <2>5, <3>1, <3>2
    <3>4. m[cut].kind \in System
      BY <2>4, <3>1, <3>3 DEF Shaped
    <3>5. QED
      BY <2>5, <3>4, SystemIs
  <2>12. \A i \in 1 .. r + 2 : i = 1 \/ i = 2 \/ q[i].kind \notin System
    <3>1. SUFFICES ASSUME NEW i \in 1 .. r + 2, i # 1, i # 2 PROVE q[i].kind \notin System
      OBVIOUS
    <3>2. PICK j \in 1 .. r : i = 2 + j
      BY <3>1
    <3>3. cut - 1 + j \in 1 .. z /\ cut - 1 + j >= cut
      BY <2>5, <2>6, <3>2
    <3>4. q[i] = m[cut - 1 + j]
      BY <2>8, <3>2
    <3>5. QED
      BY <2>11, <3>3, <3>4
  <2>13. q[1].kind = "prompt"
    BY <2>2, <2>8
  <2>14. Shaped(q)
    <3>1. \A i \in 1 .. r + 2 : q[i].kind = "prompt" => i = 1
      BY <2>10, <2>12, SystemIs
    <3>2. \A i \in 1 .. r + 2 : q[i].kind # "scratchpad"
      BY <2>10, <2>12, <2>13, SystemIs
    <3>3. \A i, j \in 1 .. r + 2 : i < j /\ q[j].kind \in System => q[i].kind \in System
      <4>1. SUFFICES ASSUME NEW i \in 1 .. r + 2, NEW j \in 1 .. r + 2, i < j,
                            q[j].kind \in System
                     PROVE  q[i].kind \in System
        OBVIOUS
      <4>2. j = 1 \/ j = 2
        BY <2>12, <4>1
      <4>3. i = 1
        BY <4>1, <4>2
      <4>4. QED
        BY <2>13, <4>3, SystemIs
    <3>4. QED
      BY <2>9, <2>13, <3>1, <3>2, <3>3 DEF Shaped
  <2>15. ScratchpadAt(q) = {}
    BY <2>9, <2>10, <2>12, <2>13, SystemIs DEF ScratchpadAt
  <2>16. Follows(m, q, cut - 1, 2)
    <3>1. Len(m) - (cut - 1) = r /\ Len(q) - 2 = r /\ cut - 1 \in 0 .. z /\ cut - 1 < z
          /\ cut - 1 + 1 = cut
      BY <2>4, <2>5, <2>6, <2>8
    <3>2. \A i \in 1 .. 2 : q[i].kind \in System
      <4>1. \A i \in 1 .. 2 : i = 1 \/ i = 2
        OBVIOUS
      <4>2. QED
        BY <2>10, <2>13, <4>1, SystemIs
    <3>3. 2 \in 0 .. Len(q)
      BY <2>8
    <3>4. QED
      BY <2>4, <2>5, <2>8, <3>1, <3>2, <3>3 DEF Follows
  <2>17. Users(m) \subseteq Covered(q)
    <3>1. SUFFICES ASSUME NEW i \in 1 .. z, m[i].kind = "user"
                   PROVE  m[i].of \subseteq Covered(q)
      BY <2>4 DEF Users
    <3>2. CASE i < cut
      <4>1. PICK y : y = SubSeq(m, 2, cut - 1)
        OBVIOUS
      <4>2. Len(y) = cut - 2 /\ DOMAIN y = 1 .. cut - 2 /\ \A a \in 1 .. cut - 2 : y[a] = m[a + 1]
        BY <2>4, <2>5, <4>1
      <4>3. PICK a \in 1 .. cut - 2 : i = a + 1
        <5>1. i # 1
          BY <2>2, <3>1
        <5>2. i - 1 \in 1 .. cut - 2 /\ i = i - 1 + 1
          BY <2>5, <3>2, <5>1
        <5>3. QED
          BY <5>2
      <4>4. a \in DOMAIN y /\ y[a] = m[i]
        BY <4>2, <4>3
      <4>5. m[i].of \subseteq Users(y)
        BY <3>1, <4>4 DEF Users
      <4>6. m[i].of \subseteq q[2].of
        BY <2>10, <4>1, <4>5
      <4>7. 2 \in DOMAIN q
        BY <2>9
      <4>8. q[2].of \subseteq Summarised(q)
        BY <2>10, <4>7 DEF Summarised
      <4>9. QED
        BY <4>6, <4>8 DEF Covered
    <3>3. CASE i >= cut
      <4>1. PICK j \in 1 .. r : i = cut - 1 + j
        <5>1. i - cut + 1 \in 1 .. r /\ i = cut - 1 + (i - cut + 1)
          BY <2>5, <2>6, <3>3
        <5>2. QED
          BY <5>1
      <4>2. q[2 + j] = m[i] /\ 2 + j \in DOMAIN q
        BY <2>8, <2>9, <4>1
      <4>3. m[i].of \subseteq Users(q)
        BY <3>1, <4>2 DEF Users
      <4>4. QED
        BY <4>3 DEF Covered
    <3>4. QED
      BY <2>5, <3>2, <3>3
  <2>18. cut - 1 \in Nat /\ 2 \in Nat
    BY <2>5
  <2>19. QED
    BY <2>7, <2>8, <2>9, <2>14, <2>15, <2>16, <2>17, <2>18
<1>3. QED
  BY <1>1, <1>2

\* Messages that are no system messages, appended.
LEMMA ExtendedList ==
  ASSUME NEW m \in Seq(Messages), Shaped(m), m # <<>>, NEW p \in Seq(Messages),
         \A i \in DOMAIN p : p[i].kind \notin System
  PROVE  LET e == m \o p IN
         /\ e \in Seq(Messages) /\ Shaped(e) /\ e # <<>> /\ e[1] = m[1]
         /\ ScratchpadAt(e) = ScratchpadAt(m)
         /\ \A i \in DOMAIN m : e[i] = m[i]
         /\ Covers(m, e)
<1>1. PICK e : e = m \o p
  OBVIOUS
<1>2. PICK y \in Nat, z \in Nat : z = Len(m) /\ DOMAIN m = 1 .. z /\ y = Len(p) /\ DOMAIN p = 1 .. y
  OBVIOUS
<1>3. /\ e \in Seq(Messages) /\ Len(e) = z + y /\ DOMAIN e = 1 .. z + y
      /\ \A i \in 1 .. z : e[i] = m[i]
      /\ \A i \in 1 .. y : e[z + i] = p[i]
  BY <1>1, <1>2, ConcatProperties
<1>4. 1 \in 1 .. z
  BY <1>2
<1>5. \A i \in 1 .. z + y : i > z => e[i].kind \notin System
  <2>1. SUFFICES ASSUME NEW i \in 1 .. z + y, i > z PROVE e[i].kind \notin System
    OBVIOUS
  <2>2. PICK j \in 1 .. y : i = z + j
    BY <2>1
  <2>3. QED
    BY <1>2, <1>3, <2>2
<1>6. \A i \in 1 .. z + y : i \in 1 .. z \/ i > z
  OBVIOUS
<1>7. Shaped(e)
  <2>1. \A i \in 1 .. z + y : e[i].kind \in System => i \in 1 .. z /\ e[i] = m[i]
    BY <1>3, <1>5, <1>6
  <2>2. \A i, j \in 1 .. z + y : i < j /\ e[j].kind \in System => e[i].kind \in System
    <3>1. SUFFICES ASSUME NEW i \in 1 .. z + y, NEW j \in 1 .. z + y, i < j, e[j].kind \in System
                   PROVE  e[i].kind \in System
      OBVIOUS
    <3>2. j \in 1 .. z /\ e[j] = m[j]
      BY <2>1, <3>1
    <3>3. i \in 1 .. z /\ e[i] = m[i]
      BY <1>3, <3>1, <3>2
    <3>4. QED
      BY <1>2, <3>1, <3>2, <3>3 DEF Shaped
  <2>3. QED
    BY <1>2, <1>3, <1>4, <2>1, <2>2, SystemIs DEF Shaped
<1>8. ScratchpadAt(e) = ScratchpadAt(m)
  <2>1. 1 .. z \subseteq 1 .. z + y
    OBVIOUS
  <2>2. \A i \in 1 .. z + y : e[i].kind = "scratchpad" => i \in 1 .. z
    BY <1>5, <1>6, SystemIs
  <2>3. QED
    BY <1>2, <1>3, <2>1, <2>2 DEF ScratchpadAt
<1>9. Covers(m, e)
  BY SMTT(20), <1>2, <1>3 DEF Covers
<1>10. e # <<>> /\ e[1] = m[1]
  BY <1>2, <1>3, <1>4
<1>11. QED
  BY <1>1, <1>2, <1>3, <1>7, <1>8, <1>9, <1>10

-----------------------------------------------------------------------------
(* The context that the model is sent *)

Fits(c) == Shaped(c.messages) /\ (c.notes = 0 => ScratchpadAt(c.messages) = {})

\* Contexts that no save has cut keep their order; while the loop prepares a call of the
\* model, the prompt shows the skills within the budget and the scratchpad the notes of
\* this instant; and a running turn has every user's message of the stored context, in
\* full up to the pruning.
ContextInv ==
  /\ ctx.cut => stored.cut
  /\ ~stored.cut => Fits(stored)
  /\ ~ctx.cut =>
       /\ Fits(ctx)
       /\ pc # "idle" => ctx.messages # <<>>
       /\ pc \in {"pruning", "asking"} =>
            /\ ctx.messages[1] = Message("prompt", InBudget(ctx))
            /\ \A i \in ScratchpadAt(ctx.messages) : ctx.messages[i].of = {ctx.notes}
       /\ pc = "pruning" /\ ctx.notes > 0 => ScratchpadAt(ctx.messages) # {}
  /\ ~stored.cut /\ pc # "idle" => Users(stored.messages) \subseteq Covered(ctx.messages)
  /\ ~stored.cut /\ pc \in {"iterate", "pruning"} =>
       Users(stored.messages) \subseteq Users(ctx.messages)

\* What NothingForgotten asks of a step.
Kept == ~stored.cut /\ ~stored'.cut => Users(stored.messages) \subseteq Covered(stored'.messages)

LEMMA KeptAsItIs ==
  ASSUME stored' = stored
  PROVE  Kept
BY DEF Kept, Covered

\* d has the messages of c and more behind them.
Grown(c, d) ==
  /\ Fits(d) /\ d.messages # <<>> /\ d.notes = c.notes /\ d.cut = c.cut
  /\ Users(c.messages) \subseteq Users(d.messages)
  /\ Covered(c.messages) \subseteq Covered(d.messages)

LEMMA GrownBy ==
  ASSUME NEW c \in Contexts, Fits(c), c.messages # <<>>, NEW d \in Contexts,
         d.notes = c.notes, d.cut = c.cut,
         NEW p \in Seq(Messages), d.messages = c.messages \o p,
         \A i \in DOMAIN p : p[i].kind \notin System
  PROVE  Grown(c, d)
<1>1. PICK m \in Seq(Messages) : m = c.messages
  BY ContextType
<1>2. PICK e : e = m \o p
  OBVIOUS
<1>3. Shaped(m) /\ m # <<>> /\ e = d.messages
  BY <1>1, <1>2 DEF Fits
<1>4. Shaped(e) /\ e # <<>> /\ ScratchpadAt(e) = ScratchpadAt(m) /\ Covers(m, e)
  BY ZenonT(30), <1>2, <1>3, ExtendedList
<1>5. Users(m) \subseteq Users(e) /\ Covered(m) \subseteq Covered(e)
  BY <1>4, CoversIs
<1>6. QED
  BY <1>1, <1>3, <1>4, <1>5 DEF Grown, Fits

LEMMA GrownByOne ==
  ASSUME NEW c \in Contexts, Fits(c), c.messages # <<>>, NEW d, NEW x \in Messages,
         Retold(c, d, Append(c.messages, x)), x.kind \notin System
  PROVE  Grown(c, d)
<1>1. PICK p \in Seq(Messages) : p = <<x>> /\ Len(p) = 1 /\ p[1] = x
  BY OnlyIs
<1>2. /\ d \in Contexts /\ d.notes = c.notes /\ d.cut = c.cut
      /\ d.messages = Append(c.messages, x)
  BY DEF Retold
<1>3. Append(c.messages, x) = c.messages \o p
  BY <1>1, ContextType, AppendIsConcat
<1>4. \A i \in DOMAIN p : p[i].kind \notin System
  <2>1. DOMAIN p = 1 .. 1
    BY <1>1
  <2>2. \A i \in 1 .. 1 : i = 1
    OBVIOUS
  <2>3. QED
    BY <1>1, <2>1, <2>2
<1>5. QED
  BY <1>2, <1>3, <1>4, GrownBy

\* The same messages are a growth too.
LEMMA GrownAlike ==
  ASSUME NEW c \in Contexts, Fits(c), c.messages # <<>>, NEW d,
         d.messages = c.messages, d.notes = c.notes, d.cut = c.cut
  PROVE  Grown(c, d)
BY DEF Grown, Fits

\* What a save of a context that has grown keeps.
LEMMA PublishContext ==
  ASSUME TypesInv, ContextInv, pc # "idle", ~ctx.cut,
         NEW c \in Contexts, NEW d \in Contexts, NEW s \in Stages \ {"pruning", "asking"},
         Publish(c, d, s), Grown(ctx, c), Grown(c, d)
  PROVE  ContextInv' /\ Kept
<1>1. ~stored.cut => Users(stored.messages) \subseteq Covered(c.messages)
  BY DEF ContextInv, Grown
<1>2. \/ /\ pc' = s /\ ctx' = d /\ Saved(c, stored')
      \/ /\ pc' = "failing" /\ ctx' = c /\ stored' = stored
  BY PublishIs DEF TypesInv
<1>3. CASE pc' = s /\ ctx' = d /\ Saved(c, stored')
  <2>1. ~stored'.cut => stored'.messages = c.messages /\ stored'.notes = c.notes
    BY <1>3 DEF Saved
  <2>2. Fits(c) /\ Fits(d) /\ d.messages # <<>> /\ ~d.cut
    BY DEF Grown
  <2>3. ~stored'.cut => Fits(stored')
    BY <2>1, <2>2 DEF Fits
  <2>4. ~stored'.cut => Users(stored'.messages) \subseteq Users(ctx'.messages)
    BY <1>3, <2>1 DEF Grown
  <2>5. Users(ctx'.messages) \subseteq Covered(ctx'.messages)
    BY DEF Covered
  <2>6. ContextInv'
    BY <1>3, <2>2, <2>3, <2>4, <2>5 DEF ContextInv
  <2>7. Kept
    BY <1>1, <2>1 DEF Kept
  <2>8. QED
    BY <2>6, <2>7
<1>4. CASE pc' = "failing" /\ ctx' = c /\ stored' = stored
  <2>1. Fits(c) /\ c.messages # <<>> /\ ~c.cut
    BY DEF Grown
  <2>2. ContextInv'
    BY <1>1, <1>4, <2>1 DEF ContextInv
  <2>3. QED
    BY <1>4, <2>2, KeptAsItIs
<1>5. QED
  BY <1>2, <1>3, <1>4

LEMMA StartContext ==
  ASSUME TypesInv, ContextInv, ~stored.cut, StartTurn
  PROVE  ContextInv' /\ Kept
<1>1. stored \in Contexts /\ turn + 1 \in 0 .. MaxTurns
  BY LoopAssumption DEF TypesInv, TypeOK, StartTurn
<1>2. PICK x : x = Message("user", {turn + 1})
  OBVIOUS
<1>3. PICK o \in Seq(Messages) :
        /\ o = IF stored.messages = <<>> THEN <<Message("prompt", {})>>
               ELSE Overlaid(stored.messages, {})
        /\ x \in Messages
        /\ Retold(stored, ctx', Append(o, x))
  BY <1>1, <1>2, RestoredIs DEF StartTurn
<1>4. /\ Shaped(o) /\ o # <<>> /\ Users(stored.messages) \subseteq Users(o)
      /\ stored.notes = 0 => ScratchpadAt(o) = {}
  <2>1. CASE stored.messages = <<>>
    <3>1. {} \in SUBSET Skills
      OBVIOUS
    <3>2. PICK y \in Messages : y = Message("prompt", {}) /\ y.kind = "prompt"
      BY <3>1, MessageIs
    <3>3. Len(o) = 1 /\ o[1] = y
      BY <1>3, <2>1, <3>2
    <3>4. DOMAIN o = 1 .. 1 /\ o # <<>>
      BY <1>3, <3>3
    <3>5. Shaped(o) /\ ScratchpadAt(o) = {}
      <4>1. \A i \in 1 .. 1 : i = 1
        OBVIOUS
      <4>2. QED
        BY <3>2, <3>3, <3>4, <4>1 DEF Shaped, ScratchpadAt
    <3>6. Users(stored.messages) = {}
      BY <2>1 DEF Users
    <3>7. QED
      BY <3>4, <3>5, <3>6
  <2>2. CASE stored.messages # <<>>
    <3>1. PICK m \in Seq(Messages) : m = stored.messages
      BY <1>1, ContextType
    <3>2. o = Overlaid(m, {}) /\ {} \in SUBSET Skills /\ Shaped(m) /\ m # <<>>
      BY <1>3, <2>2, <3>1 DEF ContextInv, Fits
    <3>3. Shaped(o) /\ o # <<>> /\ ScratchpadAt(o) = ScratchpadAt(m) /\ Covers(m, o)
      BY <3>2, OverlaidList
    <3>4. Users(m) \subseteq Users(o)
      BY <3>3, CoversIs
    <3>5. QED
      BY <3>1, <3>3, <3>4 DEF ContextInv, Fits
  <2>3. QED
    BY <2>1, <2>2
<1>5. PICK c \in Contexts : Retold(stored, c, o)
  BY <1>1, RetoldIs DEF Retold
<1>6. Fits(c) /\ c.messages = o /\ c.notes = stored.notes /\ ~c.cut
  BY <1>4, <1>5 DEF Retold, Fits
<1>7. Grown(c, ctx')
  <2>1. Retold(c, ctx', Append(c.messages, x))
    BY <1>3, <1>5, <1>6 DEF Retold, SameSkills
  <2>2. x.kind \notin System
    BY <1>2, MessageIs, SystemIs
  <2>3. QED
    BY <1>3, <1>4, <1>6, <2>1, <2>2, GrownByOne
<1>8. pc' = "iterate" /\ stored' = stored
  BY DEF StartTurn
<1>9. Users(stored.messages) \subseteq Users(ctx'.messages)
  BY <1>4, <1>6, <1>7 DEF Grown
<1>10. Users(ctx'.messages) \subseteq Covered(ctx'.messages)
  BY DEF Covered
<1>11. Fits(ctx') /\ ctx'.messages # <<>> /\ ~ctx'.cut
  BY <1>6, <1>7 DEF Grown
<1>12. QED
  BY <1>8, <1>9, <1>10, <1>11, KeptAsItIs DEF ContextInv

LEMMA IterateContext ==
  ASSUME TypesInv, ContextInv, ~ctx.cut, Iterate
  PROVE  ContextInv' /\ Kept
<1>1. ctx \in Contexts /\ ctx.notes \in 0 .. MaxCalls /\ InBudget(ctx) \in SUBSET Skills
  BY NotesFit, BudgetType
<1>2. PICK m \in Seq(Messages) : m = ctx.messages
  BY <1>1, ContextType
<1>3. PICK o : o = Overlaid(m, InBudget(ctx))
  OBVIOUS
<1>4. PICK q : q = Scratched(o, ctx.notes)
  OBVIOUS
<1>5. pc = "iterate" /\ pc' = "pruning" /\ stored' = stored
  BY DEF Iterate
<1>6. Shaped(m) /\ m # <<>> /\ (ctx.notes = 0 => ScratchpadAt(m) = {})
  BY <1>2, <1>5 DEF ContextInv, Fits
<1>7. /\ o \in Seq(Messages) /\ Shaped(o) /\ o # <<>>
      /\ o[1] = Message("prompt", InBudget(ctx))
      /\ ScratchpadAt(o) = ScratchpadAt(m) /\ Covers(m, o)
  BY <1>1, <1>3, <1>6, OverlaidList
<1>8. /\ q \in Seq(Messages) /\ Shaped(q) /\ q # <<>> /\ q[1] = o[1]
      /\ ctx.notes = 0 => q = o
      /\ ctx.notes # 0 => /\ ScratchpadAt(q) # {}
                          /\ \A i \in ScratchpadAt(q) : q[i].of = {ctx.notes}
      /\ Covers(o, q)
  BY <1>1, <1>4, <1>7, ScratchedList
<1>9. ctx' = [ctx EXCEPT !.messages = q]
  BY <1>2, <1>3, <1>4 DEF Iterate
<1>10. Retold(ctx, ctx', q)
  BY <1>1, <1>8, <1>9, RetoldIs
<1>11. ctx'.messages = q /\ ctx'.notes = ctx.notes /\ ctx'.cut = ctx.cut
       /\ InBudget(ctx') = InBudget(ctx)
  BY <1>10, BudgetAlike DEF Retold
<1>12. Users(m) \subseteq Users(o) /\ Users(o) \subseteq Users(q)
  BY <1>7, <1>8, CoversIs
<1>13. ~stored.cut => Users(stored.messages) \subseteq Users(q)
  BY <1>2, <1>5, <1>12 DEF ContextInv
<1>14. Users(q) \subseteq Covered(q)
  BY DEF Covered
<1>15. ctx'.notes = 0 => ScratchpadAt(q) = {}
  BY <1>6, <1>7, <1>8, <1>11
<1>16. Fits(ctx')
  BY <1>8, <1>11, <1>15 DEF Fits
<1>17. ctx'.notes > 0 => ScratchpadAt(q) # {}
  BY <1>1, <1>8, <1>11
<1>18. \A i \in ScratchpadAt(q) : q[i].of = {ctx'.notes}
  BY <1>6, <1>7, <1>8, <1>11
<1>19. QED
  BY <1>5, <1>7, <1>8, <1>11, <1>13, <1>14, <1>16, <1>17, <1>18, KeptAsItIs DEF ContextInv

LEMMA PruneContext ==
  ASSUME TypesInv, ContextInv, ~ctx.cut, Prune
  PROVE  ContextInv' /\ Kept
<1>1. ctx \in Contexts
  BY NotesFit
<1>2. PICK m \in Seq(Messages) : m = ctx.messages
  BY <1>1, ContextType
<1>3. PICK kept, q : q \in {m, Pruned(m, kept)} /\ ctx' = [ctx EXCEPT !.messages = q]
  BY <1>2 DEF Prune
<1>4. pc = "pruning" /\ pc' = "asking" /\ stored' = stored
  BY DEF Prune
<1>5. Shaped(m) /\ m # <<>>
  BY <1>2, <1>4 DEF ContextInv, Fits
<1>6. /\ q \in Seq(Messages) /\ Shaped(q) /\ q # <<>> /\ q[1] = m[1]
      /\ q = m \/ ScratchpadAt(q) = {}
      /\ Users(m) \subseteq Covered(q)
  <2>1. CASE q = m
    BY <1>5, <2>1 DEF Covered
  <2>2. CASE q = Pruned(m, kept)
    BY <1>5, <2>2, PrunedList
  <2>3. QED
    BY <1>3, <2>1, <2>2
<1>7. Retold(ctx, ctx', q)
  BY <1>1, <1>3, <1>6, RetoldIs
<1>8. ctx'.messages = q /\ ctx'.notes = ctx.notes /\ ctx'.cut = ctx.cut
      /\ InBudget(ctx') = InBudget(ctx)
  BY <1>7, BudgetAlike DEF Retold
<1>9. ~stored.cut => Users(stored.messages) \subseteq Covered(q)
  BY <1>2, <1>4, <1>6 DEF ContextInv
<1>10. q[1] = Message("prompt", InBudget(ctx))
  BY <1>2, <1>4, <1>6 DEF ContextInv
<1>11. \A i \in ScratchpadAt(q) : q[i].of = {ctx.notes}
  BY <1>2, <1>4, <1>6 DEF ContextInv
<1>12. Fits(ctx')
  BY <1>2, <1>6, <1>8 DEF ContextInv, Fits
<1>13. QED
  BY <1>4, <1>6, <1>8, <1>9, <1>10, <1>11, <1>12, KeptAsItIs DEF ContextInv

LEMMA RunContext ==
  ASSUME TypesInv, ContextInv, ~ctx.cut, NEW i \in DOMAIN batch, Run(i)
  PROVE  ContextInv' /\ Kept
<1>1. ctx \in Contexts /\ ctx.notes \in Nat
  BY NotesFit, ContextType
<1>2. /\ pc = "running" /\ batch[i].skill \in Skills
      /\ pc' \in {"closing", "running"}
      /\ ctx' \in {ctx, Done(batch[i], ctx)}
  BY RunIs
<1>3. stored' = stored
  BY DEF Run
<1>4. /\ ctx'.messages = ctx.messages /\ ctx'.cut = ctx.cut
      /\ ctx'.notes \in {ctx.notes, ctx.notes + 1}
  <2>1. PICK a : a = batch[i]
    OBVIOUS
  <2>2. /\ Done(a, ctx).messages = ctx.messages /\ Done(a, ctx).cut = ctx.cut
        /\ Done(a, ctx).notes \in {ctx.notes, ctx.notes + 1}
    BY <1>1, <1>2, <2>1, DoneIs
  <2>3. QED
    BY <1>2, <2>1, <2>2
<1>5. ctx'.notes = 0 => ctx.notes = 0
  BY <1>1, <1>4
<1>6. Fits(ctx')
  BY <1>4, <1>5 DEF ContextInv, Fits
<1>7. QED
  BY <1>2, <1>3, <1>4, <1>6, KeptAsItIs DEF ContextInv

LEMMA AnswerCallsContext ==
  ASSUME TypesInv, ContextInv, ~ctx.cut, NEW b \in Batches, AnswerCalls(b)
  PROVE  ContextInv' /\ Kept
<1>1. PICK ids \in SUBSET Ids, asked \in Contexts :
        /\ asked = Said(ctx, Message("calls", ids))
        /\ \/ Publish(ctx, asked, "opening")
           \/ ctx' = asked /\ pc' = "opening" /\ UNCHANGED <<stored, errors>>
  BY BatchIs DEF TypesInv
<1>2. pc = "asking" /\ ctx \in Contexts /\ Fits(ctx) /\ ctx.messages # <<>>
  BY NotesFit DEF AnswerCalls, ContextInv
<1>3. PICK x \in Messages : x = Message("calls", ids) /\ x.kind = "calls"
  BY MessageIs
<1>4. Retold(ctx, asked, Append(ctx.messages, x)) /\ x.kind \notin System
  BY <1>1, <1>2, <1>3, SaidIs, SystemIs
<1>5. Grown(ctx, asked) /\ Grown(ctx, ctx)
  BY <1>2, <1>4, GrownByOne, GrownAlike
<1>6. CASE Publish(ctx, asked, "opening")
  BY <1>2, <1>5, <1>6, PublishContext DEF Stages
<1>7. CASE ctx' = asked /\ pc' = "opening" /\ UNCHANGED <<stored, errors>>
  BY <1>2, <1>5, <1>7, KeptAsItIs DEF ContextInv, Grown
<1>8. QED
  BY <1>1, <1>6, <1>7

LEMMA OpenContext ==
  ASSUME TypesInv, ContextInv, ~ctx.cut, OpenCall
  PROVE  ContextInv' /\ Kept
<1>1. PICK c \in Contexts, d \in Contexts, s \in {"running", "opening"},
           passed \in Seq(Messages) :
         /\ Publish(c, d, s)
         /\ c = Tracked(ctx, batch[next].id, "started")
         /\ passed = [i \in DOMAIN skipped |-> Message("result", {skipped[i]})]
         /\ Retold(c, d, c.messages \o passed)
  BY OpenIs
<1>2. pc = "opening" /\ ctx \in Contexts /\ Fits(ctx) /\ ctx.messages # <<>>
  BY NotesFit DEF OpenCall, ContextInv
<1>3. c.messages = ctx.messages /\ c.notes = ctx.notes /\ c.cut = ctx.cut
  <2>1. batch[next].id \in Ids /\ "started" \in Statuses
    BY <1>2, NextIs DEF Statuses
  <2>2. PICK t : t = Tracked(ctx, batch[next].id, "started")
    OBVIOUS
  <2>3. t.messages = ctx.messages /\ t.notes = ctx.notes /\ t.cut = ctx.cut
    BY <1>2, <2>1, <2>2, TrackedIs
  <2>4. QED
    BY <1>1, <2>2, <2>3
<1>4. Grown(ctx, c) /\ Fits(c) /\ c.messages # <<>>
  BY <1>2, <1>3, GrownAlike DEF Grown
<1>5. \A i \in DOMAIN passed : passed[i].kind \notin System
  BY <1>1, MessageIs, SystemIs
<1>6. Grown(c, d)
  BY <1>1, <1>4, <1>5, GrownBy DEF Retold
<1>7. s \in Stages \ {"pruning", "asking"}
  BY DEF Stages
<1>8. QED
  BY <1>1, <1>2, <1>4, <1>6, <1>7, PublishContext

LEMMA CloseContext ==
  ASSUME TypesInv, ContextInv, ~ctx.cut, CloseCall
  PROVE  ContextInv' /\ Kept
<1>1. PICK x : x = Message("result", {batch[next].id})
  OBVIOUS
<1>2. PICK t \in Contexts, c \in Contexts, d \in Contexts, s \in {"iterate", "closing"} :
         /\ Publish(c, d, s)
         /\ x \in Messages
         /\ Retold(ctx, t, Append(ctx.messages, x))
         /\ c = Tracked(t, batch[next].id, results[next])
         /\ d = IF AtLast THEN Expired(c, Fresh(c)) ELSE c
  BY <1>1, CloseIs
<1>3. pc = "closing" /\ ctx \in Contexts /\ Fits(ctx) /\ ctx.messages # <<>>
  BY NotesFit DEF CloseCall, ContextInv
<1>4. c.messages = t.messages /\ c.notes = t.notes /\ c.cut = t.cut
  <2>1. batch[next].id \in Ids /\ results[next] \in Statuses
    BY <1>3, NextIs DEF Statuses, Given
  <2>2. PICK id \in Ids, status \in Statuses : id = batch[next].id /\ status = results[next]
    BY <2>1
  <2>3. c = Tracked(t, id, status)
    BY <1>2, <2>2
  <2>4. QED
    BY ZenonT(30), <2>3, TrackedIs
<1>5. Grown(ctx, t)
  BY <1>1, <1>2, <1>3, GrownByOne, MessageIs, SystemIs
<1>6. Grown(ctx, c)
  BY <1>4, <1>5 DEF Grown, Fits
<1>7. d.messages = c.messages /\ d.notes = c.notes /\ d.cut = c.cut
  <2>1. PICK e : e = Expired(c, Fresh(c))
    OBVIOUS
  <2>2. e.messages = c.messages /\ e.notes = c.notes /\ e.cut = c.cut
    BY <2>1, ExpiredIs
  <2>3. QED
    BY <1>2, <2>1, <2>2
<1>8. Grown(c, d)
  BY <1>6, <1>7, GrownAlike DEF Grown
<1>9. s \in Stages \ {"pruning", "asking"}
  BY DEF Stages
<1>10. QED
  BY <1>2, <1>3, <1>6, <1>8, <1>9, PublishContext

LEMMA AnswerTextContext ==
  ASSUME TypesInv, ContextInv, ~ctx.cut, AnswerText
  PROVE  ContextInv' /\ Kept
<1>1. PICK x : x = Message("text", {})
  OBVIOUS
<1>2. PICK c \in Contexts :
        /\ x \in Messages
        /\ Retold(ctx, c, Append(ctx.messages, x))
        /\ \/ Publish(c, c, "spoken")
           \/ ctx' = c /\ pc' = "spoken" /\ UNCHANGED <<stored, errors>>
  BY <1>1, AnswerTextIs
<1>3. pc = "asking" /\ ctx \in Contexts /\ Fits(ctx) /\ ctx.messages # <<>>
  BY NotesFit DEF AnswerText, ContextInv
<1>4. Grown(ctx, c)
  BY <1>1, <1>2, <1>3, GrownByOne, MessageIs, SystemIs
<1>5. Grown(c, c)
  BY <1>4, GrownAlike DEF Grown
<1>6. CASE Publish(c, c, "spoken")
  BY <1>3, <1>4, <1>5, <1>6, PublishContext DEF Stages
<1>7. CASE ctx' = c /\ pc' = "spoken" /\ UNCHANGED <<stored, errors>>
  BY <1>3, <1>4, <1>7, KeptAsItIs DEF ContextInv, Grown
<1>8. QED
  BY <1>2, <1>6, <1>7

LEMMA EndContext ==
  ASSUME TypesInv, ContextInv, ~ctx.cut, Limit \/ Finalize \/ Fail \/ Stop \/ Raise
  PROVE  ContextInv' /\ Kept
<1>1. ctx \in Contexts /\ Fits(ctx)
  BY NotesFit DEF ContextInv
<1>2. CASE Limit
  <2>1. Publish(ctx, ctx, "finalize") /\ pc = "iterate"
    BY <1>2 DEF Limit
  <2>2. Grown(ctx, ctx)
    BY <1>1, <2>1, GrownAlike DEF ContextInv
  <2>3. QED
    BY <1>1, <2>1, <2>2, PublishContext DEF Stages
<1>3. CASE Finalize
  <2>1. PICK c \in Contexts : /\ c = IF pc = "spoken" THEN Expired(ctx, {}) ELSE ctx
                              /\ Publish(c, c, "idle")
    BY <1>3, FinalizeIs
  <2>2. c.messages = ctx.messages /\ c.notes = ctx.notes /\ c.cut = ctx.cut
    <3>1. PICK e : e = Expired(ctx, {})
      OBVIOUS
    <3>2. e.messages = ctx.messages /\ e.notes = ctx.notes /\ e.cut = ctx.cut
      BY <1>1, <3>1, ExpiredIs
    <3>3. QED
      BY <2>1, <3>1, <3>2
  <2>3. pc # "idle"
    BY <1>3 DEF Finalize
  <2>4. Grown(ctx, c)
    BY <1>1, <2>2, <2>3, GrownAlike DEF ContextInv
  <2>5. Grown(c, c)
    BY <2>4, GrownAlike DEF Grown
  <2>6. QED
    BY <1>1, <2>1, <2>3, <2>4, <2>5, PublishContext DEF Stages
<1>4. CASE Fail
  <2>1. pc = "failing" /\ pc' = "idle" /\ ctx' = ctx /\ stored' = Compacted(ctx)
    BY <1>4 DEF Fail
  <2>2. Saved(ctx, stored')
    BY <1>1, <2>1, CompactedIs
  <2>3. ~stored'.cut => stored'.messages = ctx.messages /\ stored'.notes = ctx.notes
    BY <2>2 DEF Saved
  <2>4. ContextInv'
    BY <1>1, <2>1, <2>3 DEF ContextInv, Fits
  <2>5. Kept
    BY <2>1, <2>3 DEF Kept, ContextInv
  <2>6. QED
    BY <2>4, <2>5
<1>5. CASE Stop
  <2>1. pc' = "idle" /\ UNCHANGED <<stored, ctx>>
    BY <1>5 DEF Stop
  <2>2. QED
    BY <2>1, KeptAsItIs DEF ContextInv
<1>6. CASE Raise
  <2>1. pc \in {"pruning", "asking"} /\ pc' = "failing" /\ UNCHANGED <<stored, ctx>>
    BY <1>6 DEF Raise
  <2>2. QED
    BY <2>1, KeptAsItIs DEF ContextInv
<1>7. QED
  BY <1>2, <1>3, <1>4, <1>5, <1>6

\* A context that was cut stays so, and so does what is saved of it.
LEMMA PublishCut ==
  ASSUME TypesInv, stored.cut, NEW c \in Contexts, NEW d \in Contexts, NEW s \in Stages,
         Publish(c, d, s), c.cut, d.cut
  PROVE  stored'.cut /\ ctx'.cut
BY PublishIs DEF TypesInv, Saved

LEMMA CutStays ==
  ASSUME TypesInv, stored.cut, ctx.cut \/ StartTurn, [Next]_vars
  PROVE  stored'.cut /\ ctx'.cut
<1>1. stored \in Contexts /\ ctx \in Contexts
  BY DEF TypesInv, TypeOK
<1>2. CASE StartTurn
  <2>1. turn + 1 \in 0 .. MaxTurns
    BY <1>2, LoopAssumption DEF TypesInv, TypeOK, StartTurn
  <2>2. \E o : Retold(stored, ctx', o)
    BY <1>1, <1>2, <2>1, RestoredIs DEF StartTurn
  <2>3. QED
    BY <1>2, <2>2 DEF Retold, StartTurn
<1>3. CASE ctx.cut /\ (Iterate \/ Prune)
  <2>1. PICK m : ctx' = [ctx EXCEPT !.messages = m]
    BY <1>3 DEF Iterate, Prune
  <2>2. ctx'.cut = ctx.cut
    BY <1>1, <2>1 DEF Contexts
  <2>3. QED
    BY <1>3, <2>2 DEF Iterate, Prune
<1>4. ASSUME ctx.cut, NEW b \in Batches, AnswerCalls(b) PROVE stored'.cut /\ ctx'.cut
  <2>1. PICK ids \in SUBSET Ids, asked \in Contexts :
          /\ asked = Said(ctx, Message("calls", ids))
          /\ \/ Publish(ctx, asked, "opening")
             \/ ctx' = asked /\ pc' = "opening" /\ UNCHANGED <<stored, errors>>
    BY <1>4, BatchIs DEF TypesInv
  <2>2. PICK x \in Messages : x = Message("calls", ids)
    BY MessageIs
  <2>3. asked.cut
    BY <1>1, <1>4, <2>1, <2>2, SaidIs DEF Retold
  <2>4. CASE Publish(ctx, asked, "opening")
    BY <1>1, <1>4, <2>3, <2>4, PublishCut DEF Stages
  <2>5. QED
    BY <2>1, <2>3, <2>4
<1>5. CASE ctx.cut /\ OpenCall
  <2>1. PICK c \in Contexts, d \in Contexts, s \in {"running", "opening"},
             passed \in Seq(Messages) :
           /\ Publish(c, d, s) /\ c = Tracked(ctx, batch[next].id, "started")
           /\ Retold(c, d, c.messages \o passed)
    BY <1>5, OpenIs
  <2>2. batch[next].id \in Ids /\ "started" \in Statuses
    BY <1>5, NextIs DEF OpenCall, Statuses
  <2>3. PICK id \in Ids, status \in Statuses : id = batch[next].id /\ status = "started"
    BY <2>2
  <2>4. c = Tracked(ctx, id, status)
    BY <2>1, <2>3
  <2>5. PICK t : t = Tracked(ctx, id, status)
    OBVIOUS
  <2>6. t.cut = ctx.cut
    BY <1>1, <2>5, TrackedIs
  <2>7. c.cut /\ d.cut
    BY <1>5, <2>1, <2>4, <2>5, <2>6 DEF Retold
  <2>8. QED
    BY <2>1, <2>7, PublishCut DEF Stages
<1>6. ASSUME ctx.cut, NEW i \in DOMAIN batch, Run(i) PROVE stored'.cut /\ ctx'.cut
  <2>1. ctx' \in {ctx, Done(batch[i], ctx)} /\ batch[i].skill \in Skills /\ stored' = stored
    BY <1>6, RunIs DEF Run
  <2>2. PICK a : a = batch[i]
    OBVIOUS
  <2>3. Done(a, ctx).cut = ctx.cut
    BY <1>1, <2>1, <2>2, DoneIs
  <2>4. QED
    BY <1>6, <2>1, <2>2, <2>3
<1>7. CASE ctx.cut /\ CloseCall
  <2>1. PICK x : x = Message("result", {batch[next].id})
    OBVIOUS
  <2>2. PICK t \in Contexts, c \in Contexts, d \in Contexts, s \in {"iterate", "closing"} :
           /\ Publish(c, d, s) /\ Retold(ctx, t, Append(ctx.messages, x))
           /\ c = Tracked(t, batch[next].id, results[next])
           /\ d = IF AtLast THEN Expired(c, Fresh(c)) ELSE c
    BY <1>7, <2>1, CloseIs
  <2>3. batch[next].id \in Ids /\ results[next] \in Statuses
    BY <1>7, NextIs DEF CloseCall, Statuses, Given
  <2>4. PICK id \in Ids, status \in Statuses : id = batch[next].id /\ status = results[next]
    BY <2>3
  <2>5. c = Tracked(t, id, status)
    BY <2>2, <2>4
  <2>6. c.cut
    <3>1. PICK u : u = Tracked(t, id, status)
      OBVIOUS
    <3>2. u.cut = t.cut
      BY <3>1, TrackedIs
    <3>3. QED
      BY <1>7, <2>2, <2>5, <3>1, <3>2 DEF Retold
  <2>7. PICK e : e = Expired(c, Fresh(c))
    OBVIOUS
  <2>8. e.cut = c.cut
    BY <2>7, ExpiredIs
  <2>9. d.cut
    BY <2>2, <2>6, <2>7, <2>8
  <2>10. QED
    BY <2>2, <2>6, <2>9, PublishCut DEF Stages
<1>8. CASE ctx.cut /\ AnswerText
  <2>1. PICK x : x = Message("text", {})
    OBVIOUS
  <2>2. PICK c \in Contexts :
          /\ Retold(ctx, c, Append(ctx.messages, x))
          /\ \/ Publish(c, c, "spoken")
             \/ ctx' = c /\ pc' = "spoken" /\ UNCHANGED <<stored, errors>>
    BY <1>8, <2>1, AnswerTextIs
  <2>3. c.cut
    BY <1>8, <2>2 DEF Retold
  <2>4. CASE Publish(c, c, "spoken")
    BY <2>3, <2>4, PublishCut DEF Stages
  <2>5. QED
    BY <2>2, <2>3, <2>4
<1>9. CASE ctx.cut /\ Limit
  <2>1. Publish(ctx, ctx, "finalize")
    BY <1>9 DEF Limit
  <2>2. QED
    BY <1>1, <1>9, <2>1, PublishCut DEF Stages
<1>10. CASE ctx.cut /\ Finalize
  <2>1. PICK c \in Contexts : /\ c = IF pc = "spoken" THEN Expired(ctx, {}) ELSE ctx
                              /\ Publish(c, c, "idle")
    BY <1>10, FinalizeIs
  <2>2. PICK e : e = Expired(ctx, {})
    OBVIOUS
  <2>3. e.cut = ctx.cut
    BY <1>1, <2>2, ExpiredIs
  <2>4. c.cut
    BY <1>10, <2>1, <2>2, <2>3
  <2>5. QED
    BY <2>1, <2>4, PublishCut DEF Stages
<1>11. CASE ctx.cut /\ Fail
  <2>1. Saved(ctx, stored') /\ ctx' = ctx
    BY <1>1, <1>11, CompactedIs DEF Fail
  <2>2. QED
    BY <1>11, <2>1 DEF Saved
<1>12. CASE ctx.cut /\ (Raise \/ Stop \/ UNCHANGED vars)
  <2>1. UNCHANGED <<stored, ctx>>
    BY <1>12 DEF Raise, Stop, vars
  <2>2. QED
    BY <1>12, <2>1
<1>13. QED
  BY <1>2, <1>3, <1>4, <1>5, <1>6, <1>7, <1>8, <1>9, <1>10, <1>11, <1>12, Zenon DEF Next

LEMMA InitContext == Init => ContextInv
<1>1. SUFFICES ASSUME Init PROVE ContextInv
  OBVIOUS
<1>2. stored = ctx /\ ctx.messages = <<>> /\ pc = "idle"
  BY <1>1, SeededIs DEF Init
<1>3. ScratchpadAt(<<>>) = {} /\ Shaped(<<>>)
  BY DEF ScratchpadAt, Shaped
<1>4. QED
  BY <1>2, <1>3 DEF ContextInv, Fits

LEMMA NextContext ==
  ASSUME TypesInv, ContextInv, [Next]_vars
  PROVE  ContextInv' /\ Kept
<1>1. CASE UNCHANGED vars
  <2>1. UNCHANGED <<stored, ctx, pc>>
    BY <1>1 DEF vars
  <2>2. QED
    BY <2>1, KeptAsItIs DEF ContextInv
<1>2. CASE stored.cut /\ (ctx.cut \/ StartTurn)
  <2>1. stored'.cut /\ ctx'.cut
    BY <1>2, CutStays
  <2>2. QED
    BY <2>1 DEF ContextInv, Kept
<1>3. CASE ~ctx.cut /\ ~StartTurn /\ Next
  <2>1. ASSUME NEW i \in DOMAIN batch, Run(i) PROVE ContextInv' /\ Kept
    BY <1>3, <2>1, RunContext
  <2>2. QED
    BY <1>3, <2>1, IterateContext, PruneContext, AnswerCallsContext, OpenContext,
       CloseContext, AnswerTextContext, EndContext, Zenon DEF Next
<1>4. CASE ~stored.cut /\ StartTurn
  BY <1>4, StartContext
<1>5. ctx.cut => stored.cut
  BY DEF ContextInv
<1>6. QED
  BY <1>1, <1>2, <1>3, <1>4, <1>5

\* The prompt leads and shows the present skills as far as the budget goes, the
\* scratchpad is there once and shows the present notes, in every context the model is
\* called with whose beginning no save has cut off (loop.py:411-450).
THEOREM ContextIsShown == Spec => []ContextShown
<1>1. TypesInv /\ [Next]_vars => TypesInv'
  BY NextTypes
<1>2. TypesInv /\ ContextInv /\ [Next]_vars => ContextInv'
  BY NextContext
<1>3. TypesInv /\ ContextInv => ContextShown
  <2>1. SUFFICES ASSUME TypesInv, ContextInv, ~ctx.cut PROVE PromptLeads /\ NotesShown
    BY DEF ContextShown
  <2>2. Shaped(ctx.messages)
    BY <2>1 DEF ContextInv, Fits
  <2>3. PromptLeads
    BY <2>1, <2>2 DEF ContextInv, Shaped, PromptLeads
  <2>4. \A i, j \in ScratchpadAt(ctx.messages) : i = j
    BY <2>2 DEF Shaped, ScratchpadAt
  <2>5. Cardinality(ScratchpadAt(ctx.messages)) <= 1
    <3>1. CASE ScratchpadAt(ctx.messages) = {}
      BY <3>1, FS_EmptySet
    <3>2. CASE ScratchpadAt(ctx.messages) # {}
      <4>1. PICK i : ScratchpadAt(ctx.messages) = {i}
        BY <2>4, <3>2
      <4>2. QED
        BY <4>1, FS_Singleton
    <3>3. QED
      BY <3>1, <3>2
  <2>6. NotesShown
    BY <2>1, <2>5 DEF ContextInv, NotesShown
  <2>7. QED
    BY <2>3, <2>6
<1>4. QED
  BY InitTypes, InitContext, <1>1, <1>2, <1>3, PTL DEF Spec

\* A user's message leaves the stored context for a summary that tells of it, unless a
\* save cuts it off (pruning.py:33-38, 68-95, loop.py:413).
THEOREM NothingIsForgotten == Spec => NothingForgotten
<1>1. TypesInv /\ [Next]_vars => TypesInv'
  BY NextTypes
<1>2. TypesInv /\ ContextInv /\ [Next]_vars => ContextInv'
  BY NextContext
<1>3. TypesInv /\ ContextInv /\ [Next]_vars
        => [~stored.cut /\ ~stored'.cut =>
              Users(stored.messages) \subseteq Covered(stored'.messages)]_vars
  BY NextContext DEF Kept
<1>4. QED
  BY InitTypes, InitContext, <1>1, <1>2, <1>3, PTL DEF Spec, NothingForgotten

-----------------------------------------------------------------------------
(* Calls and their results *)

\* No result is there without its calls before it, in the same turn.
Preceded(m) ==
  \A j \in DOMAIN m : m[j].kind = "result" =>
    \E i \in 1 .. j - 1 : /\ m[i].kind = "calls" /\ m[j].of \subseteq m[i].of
                          /\ \A l \in i + 1 .. j - 1 : m[l].kind # "user"

\* The calls ids were asked for, and the turn goes on.
Asked(m, ids) ==
  \E i \in DOMAIN m : /\ m[i].kind = "calls" /\ m[i].of = ids
                      /\ \A l \in i + 1 .. Len(m) : m[l].kind # "user"

\* From a to b, m has the results of the calls ids, one each.
Results(m, a, b, ids) ==
  /\ \A j \in a .. b : m[j].kind = "result"
  /\ \A j \in a .. b : \E id \in ids : m[j].of = {id}
  /\ \A id \in ids : \E j \in a .. b : m[j].of = {id}

Answered(m, i) ==
  /\ i + Cardinality(m[i].of) <= Len(m)
  /\ Results(m, i + 1, i + Cardinality(m[i].of), m[i].of)

AllAnswered(m) == \A i \in DOMAIN m : m[i].kind = "calls" => Answered(m, i)

\* The calls ids were asked for last, and those of told have been answered.
Half(m, ids, told) ==
  \E i \in DOMAIN m :
    /\ m[i].kind = "calls" /\ m[i].of = ids
    /\ \A l \in DOMAIN m : m[l].kind = "calls" /\ l # i => Answered(m, l)
    /\ Len(m) = i + Cardinality(told)
    /\ Results(m, i + 1, Len(m), told)

LEMMA IdsFinite ==
  ASSUME NEW ids \in SUBSET Ids
  PROVE  IsFiniteSet(ids) /\ Cardinality(ids) \in Nat
<1>1. IsFiniteSet(Ids)
  BY FS_Interval, LoopAssumption DEF Ids
<1>2. QED
  BY <1>1, FS_Subset, FS_CardinalityType

LEMMA CallsOf ==
  ASSUME NEW m \in Seq(Messages), NEW i \in DOMAIN m, m[i].kind = "calls"
  PROVE  m[i].of \in SUBSET Ids /\ Cardinality(m[i].of) \in Nat
<1>1. m[i] \in Messages
  OBVIOUS
<1>2. m[i].of \in SUBSET Ids
  BY <1>1 DEF Messages
<1>3. QED
  BY <1>2, IdsFinite

LEMMA FollowsPreceded ==
  ASSUME NEW m \in Seq(Messages), NEW n \in Seq(Messages), NEW k \in Nat, NEW h \in Nat,
         Follows(m, n, k, h), Preceded(m)
  PROVE  Preceded(n)
<1>1. PICK z \in Nat, y \in Nat : z = Len(m) /\ DOMAIN m = 1 .. z /\ y = Len(n) /\ DOMAIN n = 1 .. y
  OBVIOUS
<1>2. /\ k <= z /\ h <= y /\ y - h = z - k
      /\ \A j \in 1 .. z - k : n[h + j] = m[k + j]
      /\ \A i \in 1 .. h : n[i].kind \in System
      /\ \/ \A i \in 1 .. k : m[i].kind \in System
         \/ k < z /\ m[k + 1].kind = "user"
  BY <1>1 DEF Follows
<1>3. SUFFICES ASSUME NEW j \in 1 .. y, n[j].kind = "result"
               PROVE  \E i \in 1 .. j - 1 :
                        /\ n[i].kind = "calls" /\ n[j].of \subseteq n[i].of
                        /\ \A l \in i + 1 .. j - 1 : n[l].kind # "user"
  BY <1>1, Zenon DEF Preceded
<1>4. PICK a \in 1 .. z - k : j = h + a /\ n[j] = m[k + a]
  <2>1. ~(j <= h)
    BY <1>2, <1>3, SystemIs
  <2>2. j - h \in 1 .. z - k /\ j = h + (j - h)
    BY <1>2, <2>1
  <2>3. QED
    BY <1>2, <2>2
<1>5. k + a \in 1 .. z /\ m[k + a].kind = "result"
  BY <1>2, <1>3, <1>4
<1>6. PICK i \in 1 .. k + a - 1 : /\ m[i].kind = "calls" /\ m[k + a].of \subseteq m[i].of
                                  /\ \A l \in i + 1 .. k + a - 1 : m[l].kind # "user"
  BY <1>1, <1>5 DEF Preceded
<1>7. i > k
  <2>1. SUFFICES ASSUME i <= k PROVE FALSE
    OBVIOUS
  <2>2. m[i].kind \notin System
    BY <1>6, SystemIs
  <2>3. m[k + 1].kind = "user"
    BY <1>2, <2>1, <2>2
  <2>4. a # 1
    BY <1>5, <2>3
  <2>5. k + 1 \in i + 1 .. k + a - 1
    BY <2>1, <2>4
  <2>6. QED
    BY <1>6, <2>3, <2>5
<1>8. PICK c \in 1 .. a - 1 : i = k + c
  <2>1. i - k \in 1 .. a - 1 /\ i = k + (i - k)
    BY <1>6, <1>7
  <2>2. QED
    BY <2>1
<1>9. h + c \in 1 .. j - 1 /\ n[h + c] = m[i]
  BY <1>2, <1>4, <1>8
<1>10. ASSUME NEW l \in h + c + 1 .. j - 1 PROVE n[l].kind # "user"
  <2>1. PICK d \in c + 1 .. a - 1 : l = h + d
    <3>1. l - h \in c + 1 .. a - 1 /\ l = h + (l - h)
      BY <1>4, <1>8
    <3>2. QED
      BY <3>1
  <2>2. n[l] = m[k + d] /\ k + d \in i + 1 .. k + a - 1
    BY <1>2, <1>4, <1>8, <2>1
  <2>3. QED
    BY <1>6, <2>2
<1>11. QED
  BY <1>4, <1>6, <1>9, <1>10

LEMMA ResultsMoved ==
  ASSUME NEW m, NEW n, NEW a \in Nat, NEW b \in Nat, NEW r \in Nat, NEW ids,
         Results(m, a + 1, a + r, ids), \A j \in 1 .. r : n[b + j] = m[a + j]
  PROVE  Results(n, b + 1, b + r, ids)
<1>1. \A j \in b + 1 .. b + r : \E l \in 1 .. r : j = b + l
  <2>1. TAKE j \in b + 1 .. b + r
  <2>2. j - b \in 1 .. r /\ j = b + (j - b)
    OBVIOUS
  <2>3. QED
    BY <2>2
<1>2. \A j \in a + 1 .. a + r : \E l \in 1 .. r : j = a + l
  <2>1. TAKE j \in a + 1 .. a + r
  <2>2. j - a \in 1 .. r /\ j = a + (j - a)
    OBVIOUS
  <2>3. QED
    BY <2>2
<1>3. \A l \in 1 .. r : a + l \in a + 1 .. a + r /\ b + l \in b + 1 .. b + r
  OBVIOUS
<1>4. \A j \in b + 1 .. b + r : \E l \in a + 1 .. a + r : n[j] = m[l]
  BY <1>1, <1>3
<1>5. \A l \in a + 1 .. a + r : \E j \in b + 1 .. b + r : n[j] = m[l]
  BY <1>2, <1>3
<1>6. /\ \A j \in a + 1 .. a + r : m[j].kind = "result" /\ \E id \in ids : m[j].of = {id}
      /\ \A id \in ids : \E j \in a + 1 .. a + r : m[j].of = {id}
  BY DEF Results
<1>7. \A j \in b + 1 .. b + r : n[j].kind = "result" /\ \E id \in ids : n[j].of = {id}
  <2>1. TAKE j \in b + 1 .. b + r
  <2>2. PICK l \in a + 1 .. a + r : n[j] = m[l]
    BY <1>4
  <2>3. QED
    BY <1>6, <2>2
<1>8. \A id \in ids : \E j \in b + 1 .. b + r : n[j].of = {id}
  <2>1. TAKE id \in ids
  <2>2. PICK l \in a + 1 .. a + r : m[l].of = {id}
    BY <1>6
  <2>3. PICK j \in b + 1 .. b + r : n[j] = m[l]
    BY <1>5
  <2>4. QED
    BY <2>2, <2>3
<1>9. QED
  BY <1>7, <1>8, Zenon DEF Results

LEMMA FollowsAnswered ==
  ASSUME NEW m \in Seq(Messages), NEW n \in Seq(Messages), NEW k \in Nat, NEW h \in Nat,
         Follows(m, n, k, h), AllAnswered(m)
  PROVE  AllAnswered(n)
<1>1. PICK z \in Nat, y \in Nat : z = Len(m) /\ DOMAIN m = 1 .. z /\ y = Len(n) /\ DOMAIN n = 1 .. y
  OBVIOUS
<1>2. /\ k <= z /\ h <= y /\ y - h = z - k
      /\ \A j \in 1 .. z - k : n[h + j] = m[k + j]
      /\ \A i \in 1 .. h : n[i].kind \in System
  BY <1>1 DEF Follows
<1>3. SUFFICES ASSUME NEW j \in 1 .. y, n[j].kind = "calls" PROVE Answered(n, j)
  BY <1>1 DEF AllAnswered
<1>4. PICK a \in 1 .. z - k : j = h + a /\ n[j] = m[k + a]
  <2>1. ~(j <= h)
    BY <1>2, <1>3, SystemIs
  <2>2. j - h \in 1 .. z - k /\ j = h + (j - h)
    BY <1>2, <2>1
  <2>3. QED
    BY <1>2, <2>2
<1>5. PICK i \in 1 .. z : i = k + a /\ m[i] = n[j] /\ m[i].kind = "calls"
  BY <1>2, <1>3, <1>4
<1>6. PICK r \in Nat : r = Cardinality(m[i].of)
  BY <1>1, <1>5, CallsOf
<1>7. i + r <= z /\ Results(m, i + 1, i + r, m[i].of)
  BY <1>1, <1>5, <1>6 DEF AllAnswered, Answered
<1>8. \A l \in 1 .. r : n[j + l] = m[i + l]
  <2>1. TAKE l \in 1 .. r
  <2>2. a + l \in 1 .. z - k /\ j + l = h + (a + l) /\ i + l = k + (a + l)
    BY <1>4, <1>5, <1>7
  <2>3. QED
    BY <1>2, <2>2
<1>9. i \in Nat /\ j \in Nat
  OBVIOUS
<1>10. Results(n, j + 1, j + r, n[j].of)
  <2>1. Results(n, j + 1, j + r, m[i].of)
    BY <1>7, <1>8, <1>9, ResultsMoved
  <2>2. QED
    BY <1>5, <2>1
<1>11. j + r <= y
  <2>1. y - h = z - k /\ j = h + a /\ i = k + a /\ i + r <= z
    BY <1>2, <1>4, <1>5, <1>7
  <2>2. QED
    BY <2>1
<1>12. QED
  BY <1>1, <1>5, <1>6, <1>10, <1>11 DEF Answered


\* What is behind a message changes nothing of what is before.
LEMMA AnsweredOn ==
  ASSUME NEW m \in Seq(Messages), NEW p, NEW z \in Nat, NEW y \in Nat, NEW e,
         z = Len(m), Joined(Messages, m, p, z, y, e), NEW i \in 1 .. z,
         m[i].kind = "calls", Answered(m, i)
  PROVE  Answered(e, i)
<1>1. PICK r \in Nat : r = Cardinality(m[i].of)
  BY CallsOf
<1>2. i + r <= z /\ Results(m, i + 1, i + r, m[i].of)
  BY <1>1 DEF Answered
<1>3. Len(e) = z + y /\ \A j \in 1 .. z : e[j] = m[j]
  BY DEF Joined
<1>4. \A l \in 1 .. r : e[i + l] = m[i + l]
  BY <1>2, <1>3
<1>5. Results(e, i + 1, i + r, m[i].of)
  <2>1. i \in Nat
    OBVIOUS
  <2>2. QED
    BY <1>2, <1>4, <2>1, ResultsMoved
<1>6. QED
  BY <1>1, <1>2, <1>3, <1>5 DEF Answered

\* A list and one message behind it.
LEMMA OneMoreIs ==
  ASSUME NEW m \in Seq(Messages), NEW x \in Messages, NEW z \in Nat, z = Len(m)
  PROVE  /\ \E p : Joined(Messages, m, p, z, 1, Append(m, x)) /\ p[1] = x
         /\ Append(m, x)[z + 1] = x
<1>1. PICK p \in Seq(Messages) : p = <<x>> /\ Len(p) = 1 /\ p[1] = x
  BY OnlyIs
<1>2. PICK e : e = Append(m, x)
  OBVIOUS
<1>3. e = m \o p
  BY <1>1, <1>2, AppendIsConcat
<1>4. Joined(Messages, m, p, z, 1, e)
  BY <1>1, <1>3, JoinedIs
<1>5. e[z + 1] = x
  BY <1>1, <1>4 DEF Joined
<1>6. QED
  BY <1>1, <1>2, <1>4, <1>5

LEMMA PlainMore ==
  ASSUME NEW m \in Seq(Messages), NEW x \in Messages, x.kind \notin {"calls", "result"}
  PROVE  /\ Preceded(m) => Preceded(Append(m, x))
         /\ AllAnswered(m) => AllAnswered(Append(m, x))
<1>1. PICK z \in Nat : z = Len(m) /\ DOMAIN m = 1 .. z
  OBVIOUS
<1>2. PICK e : e = Append(m, x)
  OBVIOUS
<1>3. PICK p : Joined(Messages, m, p, z, 1, e)
  BY <1>1, <1>2, OneMoreIs
<1>4. e[z + 1] = x
  BY <1>1, <1>2, OneMoreIs
<1>5. DOMAIN e = 1 .. z + 1 /\ \A j \in 1 .. z : e[j] = m[j]
  BY <1>3 DEF Joined
<1>6. \A j \in 1 .. z + 1 : e[j].kind \in {"calls", "result"} => j \in 1 .. z
  <2>1. TAKE j \in 1 .. z + 1
  <2>2. j = z + 1 \/ j \in 1 .. z
    OBVIOUS
  <2>3. QED
    BY <1>4, <2>2
<1>7. ASSUME Preceded(m) PROVE Preceded(e)
  <2>1. SUFFICES ASSUME NEW j \in 1 .. z + 1, e[j].kind = "result"
                 PROVE  \E i \in 1 .. j - 1 :
                          /\ e[i].kind = "calls" /\ e[j].of \subseteq e[i].of
                          /\ \A l \in i + 1 .. j - 1 : e[l].kind # "user"
    BY <1>5 DEF Preceded
  <2>2. j \in 1 .. z /\ e[j] = m[j]
    BY <1>5, <1>6, <2>1
  <2>3. PICK i \in 1 .. j - 1 : /\ m[i].kind = "calls" /\ m[j].of \subseteq m[i].of
                                /\ \A l \in i + 1 .. j - 1 : m[l].kind # "user"
    BY <1>1, <1>7, <2>1, <2>2 DEF Preceded
  <2>4. \A l \in 1 .. j - 1 : e[l] = m[l]
    BY <1>5, <2>2
  <2>5. \A l \in i + 1 .. j - 1 : l \in 1 .. j - 1
    BY <2>3
  <2>6. QED
    BY <2>2, <2>3, <2>4, <2>5
<1>8. ASSUME AllAnswered(m) PROVE AllAnswered(e)
  <2>1. SUFFICES ASSUME NEW i \in 1 .. z + 1, e[i].kind = "calls" PROVE Answered(e, i)
    BY <1>5 DEF AllAnswered
  <2>2. i \in 1 .. z /\ e[i] = m[i]
    BY <1>5, <1>6, <2>1
  <2>3. Answered(m, i) /\ m[i].kind = "calls"
    BY <1>1, <1>8, <2>1, <2>2 DEF AllAnswered
  <2>4. QED
    BY <1>1, <1>3, <2>2, <2>3, AnsweredOn
<1>9. QED
  BY <1>2, <1>7, <1>8

LEMMA CallsMore ==
  ASSUME NEW m \in Seq(Messages), NEW ids \in SUBSET Ids, NEW x \in Messages,
         x = Message("calls", ids)
  PROVE  /\ Preceded(m) => Preceded(Append(m, x)) /\ Asked(Append(m, x), ids)
         /\ AllAnswered(m) => Half(Append(m, x), ids, {})
<1>1. PICK z \in Nat : z = Len(m) /\ DOMAIN m = 1 .. z
  OBVIOUS
<1>2. PICK e : e = Append(m, x)
  OBVIOUS
<1>3. PICK p : Joined(Messages, m, p, z, 1, e)
  BY <1>1, <1>2, OneMoreIs
<1>4. e[z + 1] = x /\ x.kind = "calls" /\ x.of = ids
  BY <1>1, <1>2, OneMoreIs, MessageIs
<1>5. DOMAIN e = 1 .. z + 1 /\ Len(e) = z + 1 /\ \A j \in 1 .. z : e[j] = m[j]
  BY <1>3 DEF Joined
<1>6. \A j \in 1 .. z + 1 : j = z + 1 \/ j \in 1 .. z
  OBVIOUS
<1>7. ASSUME Preceded(m) PROVE Preceded(e)
  <2>1. SUFFICES ASSUME NEW j \in 1 .. z + 1, e[j].kind = "result"
                 PROVE  \E i \in 1 .. j - 1 :
                          /\ e[i].kind = "calls" /\ e[j].of \subseteq e[i].of
                          /\ \A l \in i + 1 .. j - 1 : e[l].kind # "user"
    BY <1>5 DEF Preceded
  <2>2. j \in 1 .. z /\ e[j] = m[j]
    BY <1>4, <1>5, <1>6, <2>1
  <2>3. PICK i \in 1 .. j - 1 : /\ m[i].kind = "calls" /\ m[j].of \subseteq m[i].of
                                /\ \A l \in i + 1 .. j - 1 : m[l].kind # "user"
    BY <1>1, <1>7, <2>1, <2>2 DEF Preceded
  <2>4. \A l \in 1 .. j - 1 : e[l] = m[l]
    BY <1>5, <2>2
  <2>5. \A l \in i + 1 .. j - 1 : l \in 1 .. j - 1
    BY <2>3
  <2>6. QED
    BY <2>2, <2>3, <2>4, <2>5
<1>8. z + 1 \in DOMAIN e /\ z + 1 + 1 .. z + 1 = {}
  BY <1>5
<1>9. Asked(e, ids)
  BY <1>4, <1>5, <1>8 DEF Asked
<1>10. ASSUME AllAnswered(m) PROVE Half(e, ids, {})
  <2>1. ASSUME NEW i \in 1 .. z + 1, e[i].kind = "calls", i # z + 1 PROVE Answered(e, i)
    <3>1. i \in 1 .. z /\ e[i] = m[i]
      BY <1>5, <1>6, <2>1
    <3>2. Answered(m, i) /\ m[i].kind = "calls"
      BY <1>1, <1>10, <2>1, <3>1 DEF AllAnswered
    <3>3. QED
      BY <1>1, <1>3, <3>1, <3>2, AnsweredOn
  <2>2. Len(e) = z + 1 + Cardinality({})
    BY <1>5, FS_EmptySet
  <2>3. Results(e, z + 1 + 1, Len(e), {})
    BY <1>5, <1>8 DEF Results
  <2>4. QED
    BY <1>4, <1>5, <1>8, <2>1, <2>2, <2>3 DEF Half
<1>11. QED
  BY <1>2, <1>7, <1>9, <1>10

\* p are the results of the calls q, which are those of more.
Tell(p, q, y, more) ==
  /\ \A i, j \in 1 .. y : q[i] = q[j] => i = j
  /\ more = {q[j] : j \in 1 .. y}
  /\ \A j \in 1 .. y : p[j].kind = "result" /\ p[j].of = {q[j]}

LEMMA ResultsMore ==
  ASSUME NEW m \in Seq(Messages), NEW ids \in SUBSET Ids, NEW told \in SUBSET ids,
         NEW more \in SUBSET ids, told \cap more = {},
         NEW y \in Nat, NEW q, NEW p, Tell(p, q, y, more),
         NEW z \in Nat, z = Len(m), NEW e, Joined(Messages, m, p, z, y, e)
  PROVE  /\ Preceded(m) /\ Asked(m, ids) => Preceded(e) /\ Asked(e, ids)
         /\ Half(m, ids, told) => Half(e, ids, told \cup more)
<1>0. /\ \A i, j \in 1 .. y : q[i] = q[j] => i = j
      /\ more = {q[j] : j \in 1 .. y}
      /\ \A j \in 1 .. y : p[j].kind = "result" /\ p[j].of = {q[j]}
  BY DEF Tell
<1>1. DOMAIN m = 1 .. z
  OBVIOUS
<1>2. /\ DOMAIN e = 1 .. z + y /\ Len(e) = z + y
      /\ \A j \in 1 .. z : e[j] = m[j]
      /\ \A j \in 1 .. y : e[z + j] = p[j]
  BY DEF Joined
<1>3. \A j \in 1 .. z + y : j \in 1 .. z \/ \E l \in 1 .. y : j = z + l
  <2>1. TAKE j \in 1 .. z + y
  <2>2. j \in 1 .. z \/ (j - z \in 1 .. y /\ j = z + (j - z))
    OBVIOUS
  <2>3. QED
    BY <2>2
<1>4. \A j \in 1 .. z + y :
        \/ j \in 1 .. z /\ e[j] = m[j]
        \/ j > z /\ e[j].kind = "result" /\ \E l \in 1 .. y : j = z + l /\ e[j].of = {q[l]}
  <2>1. TAKE j \in 1 .. z + y
  <2>2. CASE j \in 1 .. z
    BY <1>2, <2>2
  <2>3. CASE \E l \in 1 .. y : j = z + l
    <3>1. PICK l \in 1 .. y : j = z + l
      BY <2>3
    <3>2. e[j] = p[l] /\ j > z
      BY <1>2, <3>1
    <3>3. e[j].kind = "result" /\ e[j].of = {q[l]}
      BY <1>0, <3>2
    <3>4. QED
      BY <3>1, <3>2, <3>3
  <2>4. QED
    BY <1>3, <2>2, <2>3
<1>5. ASSUME Preceded(m), Asked(m, ids) PROVE Preceded(e) /\ Asked(e, ids)
  <2>1. PICK c \in 1 .. z : /\ m[c].kind = "calls" /\ m[c].of = ids
                            /\ \A l \in c + 1 .. z : m[l].kind # "user"
    BY <1>1, <1>5 DEF Asked
  <2>2. \A l \in c + 1 .. z + y : e[l].kind # "user"
    <3>1. TAKE l \in c + 1 .. z + y
    <3>2. l \in 1 .. z + y
      OBVIOUS
    <3>3. CASE l \in 1 .. z
      <4>1. e[l] = m[l] /\ l \in c + 1 .. z
        BY <1>2, <3>3
      <4>2. QED
        BY <2>1, <4>1
    <3>4. CASE e[l].kind = "result"
      BY <3>4
    <3>5. QED
      BY <1>4, <3>2, <3>3, <3>4, Zenon
  <2>3. e[c].kind = "calls" /\ e[c].of = ids
    BY <1>2, <2>1
  <2>4. c \in DOMAIN e
    BY <1>2
  <2>5. Asked(e, ids)
    BY <1>2, <2>2, <2>3, <2>4 DEF Asked
  <2>6. ASSUME NEW j \in 1 .. z + y, e[j].kind = "result"
        PROVE  \E i \in 1 .. j - 1 :
                          /\ e[i].kind = "calls" /\ e[j].of \subseteq e[i].of
                          /\ \A l \in i + 1 .. j - 1 : e[l].kind # "user"
    <3>1. CASE j \in 1 .. z /\ e[j] = m[j]
      <4>1. PICK i \in 1 .. j - 1 : /\ m[i].kind = "calls" /\ m[j].of \subseteq m[i].of
                                    /\ \A l \in i + 1 .. j - 1 : m[l].kind # "user"
        BY <1>1, <1>5, <2>6, <3>1 DEF Preceded
      <4>2. \A l \in 1 .. j - 1 : e[l] = m[l]
        BY <1>2, <3>1
      <4>3. \A l \in i + 1 .. j - 1 : l \in 1 .. j - 1
        BY <4>1
      <4>4. QED
        BY <3>1, <4>1, <4>2, <4>3
    <3>2. CASE j > z /\ \E l \in 1 .. y : e[j].of = {q[l]}
      <4>1. c \in 1 .. j - 1 /\ e[j].of \subseteq ids
        BY <1>0, <3>2
      <4>2. \A l \in c + 1 .. j - 1 : l \in c + 1 .. z + y
        OBVIOUS
      <4>3. QED
        BY <2>2, <2>3, <4>1, <4>2
    <3>3. QED
      BY <1>4, <3>1, <3>2
  <2>7. QED
    BY <1>2, <2>5, <2>6 DEF Preceded
<1>6. ASSUME Half(m, ids, told) PROVE Half(e, ids, told \cup more)
  <2>1. PICK c \in 1 .. z :
          /\ m[c].kind = "calls" /\ m[c].of = ids
          /\ \A l \in 1 .. z : m[l].kind = "calls" /\ l # c => Answered(m, l)
          /\ z = c + Cardinality(told)
          /\ Results(m, c + 1, z, told)
    BY <1>1, <1>6 DEF Half
  <2>2. more = {q[j] : j \in 1 .. y}
    BY <1>0
  <2>3. Cardinality(told \cup more) = Cardinality(told) + y /\ Cardinality(told) \in Nat
    <3>1. IsFiniteSet(told) /\ Cardinality(told) \in Nat /\ more \in SUBSET Ids
      BY IdsFinite
    <3>2. IsFiniteSet(more) /\ Cardinality(more) \in Nat
      BY <3>1, IdsFinite
    <3>3. PICK f : f = [j \in 1 .. y |-> q[j]]
      OBVIOUS
    <3>4. f \in Surjection(1 .. y, more) /\ f \in Injection(1 .. y, more)
      BY <1>0, <3>3 DEF Surjection, Injection, IsInjective
    <3>5. IsFiniteSet(1 .. y) /\ Cardinality(1 .. y) = y
      BY FS_Interval
    <3>6. Cardinality(more) = y
      BY <3>4, <3>5, FS_Surjection
    <3>7. told \cap more = {}
      OBVIOUS
    <3>8. Cardinality(told \cup more) = Cardinality(told) + Cardinality(more)
                                        - Cardinality(told \cap more)
      BY <3>1, <3>2, FS_Union
    <3>9. Cardinality(told \cap more) = 0
      BY <3>7, FS_EmptySet
    <3>10. QED
      BY <3>1, <3>6, <3>8, <3>9
  <2>4. e[c].kind = "calls" /\ e[c].of = ids /\ c \in DOMAIN e
    BY <1>2, <2>1
  <2>5. ASSUME NEW l \in 1 .. z + y, e[l].kind = "calls", l # c PROVE Answered(e, l)
    <3>1. l \in 1 .. z /\ e[l] = m[l]
      BY <1>4, <2>5
    <3>2. Answered(m, l) /\ m[l].kind = "calls"
      BY <2>1, <2>5, <3>1
    <3>3. QED
      BY <3>1, <3>2, AnsweredOn
  <2>6. /\ \A j \in c + 1 .. z : m[j].kind = "result" /\ \E id \in told : m[j].of = {id}
        /\ \A id \in told : \E j \in c + 1 .. z : m[j].of = {id}
    BY <2>1 DEF Results
  <2>7. \A j \in c + 1 .. z + y :
          e[j].kind = "result" /\ \E id \in told \cup more : e[j].of = {id}
    <3>1. TAKE j \in c + 1 .. z + y
    <3>2. CASE j \in 1 .. z /\ e[j] = m[j]
      <4>1. j \in c + 1 .. z
        BY <3>2
      <4>2. QED
        BY <2>6, <3>2, <4>1
    <3>3. CASE e[j].kind = "result" /\ \E l \in 1 .. y : e[j].of = {q[l]}
      BY <2>2, <3>3
    <3>4. j \in 1 .. z + y
      OBVIOUS
    <3>5. QED
      BY <1>4, <3>2, <3>3, <3>4
  <2>8. \A id \in told \cup more : \E j \in c + 1 .. z + y : e[j].of = {id}
    <3>1. TAKE id \in told \cup more
    <3>2. CASE id \in told
      <4>1. PICK j \in c + 1 .. z : m[j].of = {id}
        BY <2>6, <3>2
      <4>2. j \in 1 .. z /\ j \in c + 1 .. z + y
        BY <4>1
      <4>3. QED
        BY <1>2, <4>1, <4>2
    <3>3. CASE id \in more
      <4>1. PICK l \in 1 .. y : id = q[l]
        BY <2>2, <3>3
      <4>2. e[z + l].of = {id} /\ z + l \in c + 1 .. z + y
        BY <1>0, <1>2, <4>1
      <4>3. QED
        BY <4>2
    <3>4. QED
      BY <3>2, <3>3
  <2>9. Results(e, c + 1, Len(e), told \cup more)
    BY <1>2, <2>7, <2>8, Zenon DEF Results
  <2>10. Len(e) = c + Cardinality(told \cup more)
    BY <1>2, <2>1, <2>3
  <2>11. Half(e, ids, told \cup more)
    BY <1>2, <2>4, <2>5, <2>9, <2>10, Zenon DEF Half
  <2>12. QED
    BY <2>11
<1>7. QED
  BY <1>5, <1>6

LEMMA HalfWhole ==
  ASSUME NEW m \in Seq(Messages), NEW ids, Half(m, ids, ids)
  PROVE  AllAnswered(m)
<1>1. PICK i \in DOMAIN m :
        /\ m[i].of = ids
        /\ \A l \in DOMAIN m : m[l].kind = "calls" /\ l # i => Answered(m, l)
        /\ Len(m) = i + Cardinality(ids)
        /\ Results(m, i + 1, Len(m), ids)
  BY DEF Half
<1>2. Len(m) \in Nat
  OBVIOUS
<1>3. Answered(m, i)
  BY <1>1, <1>2 DEF Answered
<1>4. QED
  BY <1>1, <1>3 DEF AllAnswered

\* The calls that were put off for one that runs alone.
Displaced == {skipped[j] : j \in DOMAIN skipped}

\* In contexts that no save has cut: until a turn is interrupted, all calls are answered
\* but those of the batch, and of these the displaced ones and then the closed ones; a
\* result never comes before its calls, whatever was interrupted.
StoredAnswered ==
  /\ Preceded(stored.messages)
  /\ ~Interrupted /\ pc = "idle" => AllAnswered(stored.messages)

CtxAnswered ==
  /\ Preceded(ctx.messages)
  /\ pc \in {"opening", "running", "closing"} =>
       Apart(batch, skipped) /\ Asked(ctx.messages, IdsOf(batch, skipped))
  /\ ~Interrupted =>
       /\ pc \in {"iterate", "pruning", "asking", "spoken", "finalize"} =>
            AllAnswered(ctx.messages)
       /\ pc = "opening" => Half(ctx.messages, IdsOf(batch, skipped), {})
       /\ pc = "running" => Half(ctx.messages, IdsOf(batch, skipped), Displaced)
       /\ pc = "closing" => Half(ctx.messages, IdsOf(batch, skipped),
                                 Displaced \cup CallIds(batch, 1, next - 1))

AnswersInv == (~stored.cut => StoredAnswered) /\ (~ctx.cut => CtxAnswered)

\* What is stored is answered if it was so before, or if it is c saved between turns.
LEMMA PublishStored ==
  ASSUME TypesInv, AnswersInv, UNCHANGED stops,
         NEW c \in Contexts, NEW d \in Contexts, NEW s \in Stages, Publish(c, d, s),
         Preceded(c.messages), s = "idle" /\ ~Interrupted => AllAnswered(c.messages)
  PROVE  /\ ~stored'.cut => StoredAnswered'
         /\ \/ pc' = s /\ ctx' = d /\ (~Interrupted' => ~Interrupted)
            \/ pc' = "failing" /\ ctx' = c /\ Interrupted'
<1>1. \/ pc' = s /\ ctx' = d /\ errors' = errors /\ Saved(c, stored')
      \/ pc' = "failing" /\ ctx' = c /\ stored' = stored /\ errors' = errors + 1
  BY PublishIs DEF TypesInv
<1>2. CASE pc' = s /\ ctx' = d /\ errors' = errors /\ Saved(c, stored')
  <2>1. ~stored'.cut => stored'.messages = c.messages
    BY <1>2 DEF Saved
  <2>2. Interrupted' <=> Interrupted
    BY <1>2 DEF Interrupted
  <2>3. QED
    BY <1>2, <2>1, <2>2 DEF StoredAnswered
<1>3. CASE pc' = "failing" /\ ctx' = c /\ stored' = stored /\ errors' = errors + 1
  <2>1. Interrupted'
    BY <1>3, LoopAssumption DEF TypesInv, TypeOK, Interrupted
  <2>2. ~stored'.cut => StoredAnswered'
    BY <1>3, <2>1 DEF AnswersInv, StoredAnswered
  <2>3. QED
    BY <1>3, <2>1, <2>2
<1>4. QED
  BY <1>1, <1>2, <1>3

\* A save between tool calls.
LEMMA PublishAnswers ==
  ASSUME TypesInv, AnswersInv, UNCHANGED stops,
         NEW c \in Contexts, NEW s \in {"iterate", "spoken", "finalize", "idle"},
         Publish(c, c, s), Preceded(c.messages), ~Interrupted => AllAnswered(c.messages)
  PROVE  AnswersInv'
<1>1. s \in Stages
  BY DEF Stages
<1>2. /\ ~stored'.cut => StoredAnswered'
      /\ \/ pc' = s /\ ctx' = c /\ (~Interrupted' => ~Interrupted)
         \/ pc' = "failing" /\ ctx' = c /\ Interrupted'
  BY <1>1, PublishStored
<1>3. CtxAnswered'
  BY <1>2 DEF CtxAnswered
<1>4. QED
  BY <1>2, <1>3 DEF AnswersInv

LEMMA StartAnswers ==
  ASSUME TypesInv, ContextInv, AnswersInv, ~stored.cut, StartTurn
  PROVE  AnswersInv'
<1>1. stored \in Contexts /\ turn + 1 \in 0 .. MaxTurns
  BY LoopAssumption DEF TypesInv, TypeOK, StartTurn
<1>2. PICK x : x = Message("user", {turn + 1})
  OBVIOUS
<1>3. PICK o \in Seq(Messages) :
        /\ o = IF stored.messages = <<>> THEN <<Message("prompt", {})>>
               ELSE Overlaid(stored.messages, {})
        /\ x \in Messages
        /\ Retold(stored, ctx', Append(o, x))
  BY <1>1, <1>2, RestoredIs DEF StartTurn
<1>4. /\ Preceded(stored.messages) => Preceded(o)
      /\ AllAnswered(stored.messages) => AllAnswered(o)
  <2>1. CASE stored.messages = <<>>
    <3>1. PICK y : y = Message("prompt", {}) /\ y.kind = "prompt"
      BY MessageIs
    <3>2. o[1] = y /\ DOMAIN o = 1 .. 1
      BY <1>3, <2>1, <3>1
    <3>3. \A i \in 1 .. 1 : i = 1
      OBVIOUS
    <3>4. \A i \in DOMAIN o : o[i].kind = "prompt"
      BY <3>1, <3>2, <3>3
    <3>5. Preceded(o) /\ AllAnswered(o)
      BY <3>4 DEF Preceded, AllAnswered
    <3>6. QED
      BY <3>5
  <2>2. CASE stored.messages # <<>>
    <3>1. PICK m \in Seq(Messages) : m = stored.messages
      BY <1>1, ContextType
    <3>2. o = Overlaid(m, {}) /\ {} \in SUBSET Skills /\ Shaped(m) /\ m # <<>>
      BY <1>3, <2>2, <3>1 DEF ContextInv, Fits
    <3>3. Follows(m, o, 1, 1)
      BY <3>2, OverlaidList
    <3>4. 1 \in Nat
      OBVIOUS
    <3>5. QED
      BY <3>1, <3>3, <3>4, FollowsPreceded, FollowsAnswered
  <2>3. QED
    BY <2>1, <2>2
<1>5. x.kind \notin {"calls", "result"}
  BY <1>2, MessageIs
<1>6. PICK e : e = Append(o, x)
  OBVIOUS
<1>7. /\ Preceded(stored.messages) => Preceded(e)
      /\ AllAnswered(stored.messages) => AllAnswered(e)
  BY <1>3, <1>4, <1>5, <1>6, PlainMore
<1>8. /\ pc = "idle" /\ pc' = "iterate" /\ stored' = stored /\ ctx'.messages = e
      /\ UNCHANGED <<stops, errors>>
  BY <1>3, <1>6 DEF StartTurn, Retold
<1>9. StoredAnswered' /\ CtxAnswered'
  BY <1>7, <1>8 DEF AnswersInv, StoredAnswered, CtxAnswered, Interrupted
<1>10. QED
  BY <1>9 DEF AnswersInv

LEMMA IterateAnswers ==
  ASSUME TypesInv, ContextInv, AnswersInv, ~ctx.cut, Iterate
  PROVE  AnswersInv'
<1>1. ctx \in Contexts /\ ctx.notes \in 0 .. MaxCalls /\ InBudget(ctx) \in SUBSET Skills
  BY NotesFit, BudgetType
<1>2. PICK m \in Seq(Messages) : m = ctx.messages
  BY <1>1, ContextType
<1>3. PICK o : o = Overlaid(m, InBudget(ctx))
  OBVIOUS
<1>4. PICK q : q = Scratched(o, ctx.notes)
  OBVIOUS
<1>5. pc = "iterate" /\ pc' = "pruning" /\ stored' = stored /\ UNCHANGED <<stops, errors>>
  BY DEF Iterate
<1>6. Shaped(m) /\ m # <<>>
  BY <1>2, <1>5 DEF ContextInv, Fits
<1>7. o \in Seq(Messages) /\ Shaped(o) /\ o # <<>> /\ Follows(m, o, 1, 1)
  BY <1>1, <1>3, <1>6, OverlaidList
<1>8. q \in Seq(Messages)
  BY <1>1, <1>4, <1>7, ScratchedList
<1>9. PICK k \in Nat, h \in Nat : Follows(o, q, k, h)
  BY <1>1, <1>4, <1>7, ScratchedList
<1>10. 1 \in Nat
  OBVIOUS
<1>11. /\ Preceded(m) => Preceded(q)
       /\ AllAnswered(m) => AllAnswered(q)
  <2>1. /\ Preceded(m) => Preceded(o)
        /\ AllAnswered(m) => AllAnswered(o)
    BY <1>7, <1>10, FollowsPreceded, FollowsAnswered
  <2>2. /\ Preceded(o) => Preceded(q)
        /\ AllAnswered(o) => AllAnswered(q)
    BY <1>7, <1>8, <1>9, FollowsPreceded, FollowsAnswered
  <2>3. QED
    BY <2>1, <2>2
<1>12. ctx' = [ctx EXCEPT !.messages = q]
  BY <1>2, <1>3, <1>4 DEF Iterate
<1>13. ctx'.messages = q
  BY <1>1, <1>8, <1>12, RetoldIs DEF Retold
<1>14. CtxAnswered'
  BY <1>2, <1>5, <1>11, <1>13 DEF AnswersInv, CtxAnswered, Interrupted
<1>15. QED
  BY <1>5, <1>14 DEF AnswersInv, StoredAnswered, Interrupted

LEMMA PruneAnswers ==
  ASSUME TypesInv, ContextInv, AnswersInv, ~ctx.cut, Prune
  PROVE  AnswersInv'
<1>1. ctx \in Contexts
  BY NotesFit
<1>2. PICK m \in Seq(Messages) : m = ctx.messages
  BY <1>1, ContextType
<1>3. PICK kept, q : q \in {m, Pruned(m, kept)} /\ ctx' = [ctx EXCEPT !.messages = q]
  BY <1>2 DEF Prune
<1>4. pc = "pruning" /\ pc' = "asking" /\ stored' = stored /\ UNCHANGED <<stops, errors>>
  BY DEF Prune
<1>5. Shaped(m) /\ m # <<>>
  BY <1>2, <1>4 DEF ContextInv, Fits
<1>6. PICK p \in Seq(Messages) :
        p = Pruned(m, kept) /\ \E k, h \in Nat : Follows(m, p, k, h)
  BY <1>5, PrunedList
<1>7. /\ q \in Seq(Messages)
      /\ Preceded(m) => Preceded(q)
      /\ AllAnswered(m) => AllAnswered(q)
  <2>1. CASE q = m
    BY <2>1
  <2>2. CASE q = p
    BY <1>6, <2>2, FollowsPreceded, FollowsAnswered
  <2>3. QED
    BY <1>3, <1>6, <2>1, <2>2
<1>8. ctx'.messages = q
  BY <1>1, <1>3, <1>7, RetoldIs DEF Retold
<1>9. CtxAnswered'
  BY <1>2, <1>4, <1>7, <1>8 DEF AnswersInv, CtxAnswered, Interrupted
<1>10. QED
  BY <1>4, <1>9 DEF AnswersInv, StoredAnswered, Interrupted

LEMMA AnswerCallsAnswers ==
  ASSUME TypesInv, AnswersInv, ~ctx.cut, NEW b \in Batches, AnswerCalls(b)
  PROVE  AnswersInv'
<1>1. Apart(batch', skipped')
  BY BatchIs DEF TypesInv
<1>2. PICK ids \in SUBSET Ids, asked \in Contexts :
        /\ ids = IdsOf(batch', skipped')
        /\ asked = Said(ctx, Message("calls", ids))
        /\ \/ Publish(ctx, asked, "opening")
           \/ ctx' = asked /\ pc' = "opening" /\ UNCHANGED <<stored, errors>>
  BY BatchIs DEF TypesInv
<1>3. pc = "asking" /\ ctx \in Contexts /\ UNCHANGED stops
  BY NotesFit DEF AnswerCalls
<1>4. PICK x \in Messages : x = Message("calls", ids)
  BY MessageIs
<1>5. PICK m \in Seq(Messages) : m = ctx.messages
  BY <1>3, ContextType
<1>6. PICK e : e = Append(m, x)
  OBVIOUS
<1>7. asked.messages = e
  BY <1>2, <1>3, <1>4, <1>5, <1>6, SaidIs DEF Retold
<1>8. /\ Preceded(m) => Preceded(e) /\ Asked(e, ids)
      /\ AllAnswered(m) => Half(e, ids, {})
  BY <1>4, <1>6, CallsMore
<1>9. Preceded(m) /\ (~Interrupted => AllAnswered(m))
  BY <1>3, <1>5 DEF AnswersInv, CtxAnswered
<1>10. ASSUME ctx' = asked, pc' = "opening", ~Interrupted' => ~Interrupted
       PROVE  CtxAnswered'
  BY <1>1, <1>2, <1>7, <1>8, <1>9, <1>10 DEF CtxAnswered
<1>11. CASE Publish(ctx, asked, "opening")
  <2>1. /\ ~stored'.cut => StoredAnswered'
        /\ \/ pc' = "opening" /\ ctx' = asked /\ (~Interrupted' => ~Interrupted)
           \/ pc' = "failing" /\ ctx' = ctx /\ Interrupted'
    BY <1>3, <1>5, <1>9, <1>11, PublishStored DEF Stages
  <2>2. ASSUME pc' = "failing", ctx' = ctx, Interrupted' PROVE CtxAnswered'
    BY <1>5, <1>9, <2>2 DEF CtxAnswered
  <2>3. CtxAnswered'
    BY <1>10, <2>1, <2>2
  <2>4. QED
    BY <2>1, <2>3 DEF AnswersInv
<1>12. CASE ctx' = asked /\ pc' = "opening" /\ UNCHANGED <<stored, errors>>
  <2>1. CtxAnswered'
    BY <1>3, <1>10, <1>12 DEF Interrupted
  <2>2. QED
    BY <1>3, <1>12, <2>1 DEF AnswersInv, StoredAnswered, Interrupted
<1>13. QED
  BY <1>2, <1>11, <1>12

LEMMA IdsTyped ==
  ASSUME TypeOK
  PROVE  IdsOf(batch, skipped) \in SUBSET Ids
<1>1. PICK k \in Nat, y \in Nat :
        /\ DOMAIN batch = 1 .. k /\ \A j \in 1 .. k : batch[j] \in Actions
        /\ DOMAIN skipped = 1 .. y /\ \A j \in 1 .. y : skipped[j] \in Ids
  <2>1. batch \in Seq(Actions) /\ skipped \in Seq(Ids)
    BY DEF TypeOK, Actions
  <2>2. PICK k \in Nat : k = Len(batch) /\ DOMAIN batch = 1 .. k
    BY <2>1
  <2>3. \A j \in 1 .. k : batch[j] \in Actions
    BY <2>1, <2>2
  <2>4. PICK y \in Nat : y = Len(skipped) /\ DOMAIN skipped = 1 .. y
    BY <2>1
  <2>5. \A j \in 1 .. y : skipped[j] \in Ids
    BY <2>1, <2>4
  <2>6. QED
    BY <2>2, <2>3, <2>4, <2>5
<1>2. \A j \in 1 .. k : batch[j].id \in Ids
  BY <1>1 DEF Actions
<1>3. QED
  BY <1>1, <1>2 DEF IdsOf

LEMMA OpenAnswers ==
  ASSUME TypesInv, AnswersInv, ~ctx.cut, OpenCall
  PROVE  AnswersInv'
<1>1. PICK c \in Contexts, d \in Contexts, s \in {"running", "opening"},
           passed \in Seq(Messages) :
         /\ Publish(c, d, s) /\ s = IF AtLast THEN "running" ELSE "opening"
         /\ c = Tracked(ctx, batch[next].id, "started")
         /\ passed = [i \in DOMAIN skipped |-> Message("result", {skipped[i]})]
         /\ Retold(c, d, c.messages \o passed)
  BY OpenIs
<1>2. pc = "opening" /\ ctx \in Contexts /\ UNCHANGED <<batch, skipped, stops>>
  BY NotesFit DEF OpenCall
<1>3. PICK m \in Seq(Messages) : m = ctx.messages
  BY <1>2, ContextType
<1>4. c.messages = m
  <2>1. batch[next].id \in Ids /\ "started" \in Statuses
    BY <1>2, NextIs DEF Statuses
  <2>2. PICK t : t = Tracked(ctx, batch[next].id, "started")
    OBVIOUS
  <2>3. t.messages = ctx.messages
    BY <1>2, <2>1, <2>2, TrackedIs
  <2>4. QED
    BY <1>1, <1>3, <2>2, <2>3
<1>5. PICK e : e = m \o passed
  OBVIOUS
<1>6. d.messages = e
  BY <1>1, <1>4, <1>5 DEF Retold
<1>7. PICK z \in Nat, y \in Nat : z = Len(m) /\ y = Len(skipped) /\ DOMAIN skipped = 1 .. y
  BY DEF TypesInv, TypeOK
<1>8. \A j \in 1 .. y : passed[j].kind = "result" /\ passed[j].of = {skipped[j]}
  BY <1>1, <1>7, MessageIs
<1>9. Len(passed) = y
  BY <1>1, <1>7
<1>10. Joined(Messages, m, passed, z, y, e)
  BY <1>5, <1>7, <1>9, JoinedIs
<1>11. PICK ids \in SUBSET Ids : ids = IdsOf(batch, skipped)
  BY IdsTyped DEF TypesInv
<1>12. Apart(batch, skipped) /\ Asked(m, ids) /\ Preceded(m)
  BY <1>2, <1>3, <1>11 DEF AnswersInv, CtxAnswered
<1>13. /\ \A j \in 1 .. y : skipped[j] \in ids
       /\ \A i, j \in 1 .. y : skipped[i] = skipped[j] => i = j
  BY <1>7, <1>11, <1>12 DEF IdsOf, Apart
<1>14. /\ Preceded(e) /\ Asked(e, ids)
       /\ Half(m, ids, {}) => Half(e, ids, Displaced)
  <2>1. PICK told \in SUBSET ids, more \in SUBSET ids :
          told = {} /\ more = {skipped[j] : j \in 1 .. y} /\ told \cap more = {}
    <3>1. {skipped[j] : j \in 1 .. y} \in SUBSET ids /\ {} \in SUBSET ids
      BY <1>13
    <3>2. QED
      BY <3>1
  <2>2. Tell(passed, skipped, y, more)
    BY <1>8, <1>13, <2>1 DEF Tell
  <2>3. /\ Preceded(m) /\ Asked(m, ids) => Preceded(e) /\ Asked(e, ids)
        /\ Half(m, ids, told) => Half(e, ids, told \cup more)
    <3>1. PICK q : q = skipped
      OBVIOUS
    <3>2. Tell(passed, q, y, more) /\ told \cap more = {} /\ z = Len(m)
      BY <1>7, <2>1, <2>2, <3>1
    <3>3. QED
      BY <1>10, <3>2, ResultsMore
  <2>4. told \cup more = Displaced
    BY <1>7, <2>1 DEF Displaced
  <2>5. QED
    BY <1>12, <2>1, <2>3, <2>4
<1>15. s = "opening" => Displaced = {}
  <2>1. SUFFICES ASSUME ~AtLast PROVE Displaced = {}
    BY <1>1
  <2>2. next \in 1 .. Len(batch) /\ next # Len(batch) /\ Len(batch) \in Nat
    BY <1>2, <2>1, NextIs DEF AtLast
  <2>3. Len(batch) > 1
    BY <2>2
  <2>4. skipped = <<>>
    BY <1>12, <2>3 DEF Apart
  <2>5. QED
    BY <2>4 DEF Displaced
<1>16. s \in Stages
  BY DEF Stages
<1>17. /\ ~stored'.cut => StoredAnswered'
       /\ \/ pc' = s /\ ctx' = d /\ (~Interrupted' => ~Interrupted)
          \/ pc' = "failing" /\ ctx' = c /\ Interrupted'
  BY <1>1, <1>2, <1>4, <1>12, <1>16, PublishStored
<1>18. IdsOf(batch', skipped') = ids /\ Displaced' = Displaced
  BY <1>2, <1>11 DEF Displaced
<1>19. ASSUME pc' = s, ctx' = d, ~Interrupted' => ~Interrupted PROVE CtxAnswered'
  <2>1. ctx'.messages = e /\ pc' \in {"running", "opening"}
    BY <1>6, <1>19
  <2>2. Apart(batch', skipped') /\ Asked(ctx'.messages, ids) /\ Preceded(ctx'.messages)
    BY <1>2, <1>12, <1>14, <2>1
  <2>3. ~Interrupted => Half(e, ids, Displaced)
    BY <1>2, <1>3, <1>11, <1>14 DEF AnswersInv, CtxAnswered
  <2>4. QED
    BY <1>15, <1>18, <1>19, <2>1, <2>2, <2>3 DEF CtxAnswered
<1>20. ASSUME pc' = "failing", ctx' = c, Interrupted' PROVE CtxAnswered'
  BY <1>4, <1>12, <1>20 DEF CtxAnswered
<1>21. CtxAnswered'
  BY <1>17, <1>19, <1>20
<1>22. QED
  BY <1>17, <1>21 DEF AnswersInv

LEMMA RunAnswers ==
  ASSUME TypesInv, AnswersInv, ~ctx.cut, NEW i \in DOMAIN batch, Run(i)
  PROVE  AnswersInv'
<1>1. ctx \in Contexts
  BY NotesFit
<1>2. /\ pc = "running" /\ batch[i].skill \in Skills
      /\ pc' \in {"closing", "running"}
      /\ ctx' \in {ctx, Done(batch[i], ctx)}
  BY RunIs
<1>3. UNCHANGED <<stored, batch, skipped, next, stops, errors>>
  BY DEF Run
<1>4. ctx'.messages = ctx.messages
  <2>1. PICK a : a = batch[i]
    OBVIOUS
  <2>2. Done(a, ctx).messages = ctx.messages
    BY <1>1, <1>2, <2>1, DoneIs
  <2>3. QED
    BY <1>2, <2>1, <2>2
<1>5. next = 1
  BY <1>2 DEF TypesInv, Places
<1>6. next' = 1 /\ 1 .. next' - 1 = {}
  BY <1>3, <1>5
<1>7. Displaced' \cup CallIds(batch', 1, next' - 1) = Displaced
  BY <1>3, <1>6 DEF Displaced, CallIds
<1>8. Displaced' = Displaced
  BY <1>3 DEF Displaced
<1>9. CtxAnswered'
  BY <1>2, <1>3, <1>4, <1>7, <1>8 DEF AnswersInv, CtxAnswered, Interrupted
<1>10. QED
  BY <1>2, <1>3, <1>9 DEF AnswersInv, StoredAnswered, Interrupted

LEMMA CloseAnswers ==
  ASSUME TypesInv, AnswersInv, ~ctx.cut, CloseCall
  PROVE  AnswersInv'
<1>1. PICK x : x = Message("result", {batch[next].id})
  OBVIOUS
<1>2. PICK t \in Contexts, c \in Contexts, d \in Contexts, s \in {"iterate", "closing"} :
         /\ Publish(c, d, s) /\ s = IF AtLast THEN "iterate" ELSE "closing"
         /\ x \in Messages
         /\ Retold(ctx, t, Append(ctx.messages, x))
         /\ c = Tracked(t, batch[next].id, results[next])
         /\ d = IF AtLast THEN Expired(c, Fresh(c)) ELSE c
  BY <1>1, CloseIs
<1>3. /\ pc = "closing" /\ ctx \in Contexts /\ UNCHANGED <<batch, skipped, stops>>
      /\ next' = IF AtLast THEN 1 ELSE next + 1
  BY NotesFit DEF CloseCall
<1>4. PICK m \in Seq(Messages) : m = ctx.messages
  BY <1>3, ContextType
<1>5. PICK e : e = Append(m, x)
  OBVIOUS
<1>6. c.messages = e
  <2>1. batch[next].id \in Ids /\ results[next] \in Statuses
    BY <1>3, NextIs DEF Statuses, Given
  <2>2. PICK id \in Ids, status \in Statuses : id = batch[next].id /\ status = results[next]
    BY <2>1
  <2>3. c = Tracked(t, id, status)
    BY <1>2, <2>2
  <2>4. c.messages = t.messages
    BY ZenonT(30), <2>3, TrackedIs
  <2>5. QED
    BY <1>2, <1>4, <1>5, <2>4 DEF Retold
<1>7. d.messages = e
  <2>1. PICK f : f = Expired(c, Fresh(c))
    OBVIOUS
  <2>2. f.messages = c.messages
    BY <2>1, ExpiredIs
  <2>3. QED
    BY <1>2, <1>6, <2>1, <2>2
<1>8. PICK ids \in SUBSET Ids : ids = IdsOf(batch, skipped)
  BY IdsTyped DEF TypesInv
<1>9. Apart(batch, skipped) /\ Asked(m, ids) /\ Preceded(m)
  BY <1>3, <1>4, <1>8 DEF AnswersInv, CtxAnswered
<1>10. PICK k \in Nat \ {0}, n \in Nat :
         k = Len(batch) /\ DOMAIN batch = 1 .. k /\ n = next /\ n \in 1 .. k
  <2>1. batch \in Seq(Actions)
    BY DEF TypesInv, TypeOK, Actions
  <2>2. next \in 1 .. Len(batch) /\ Len(batch) \in Nat \ {0}
    BY <1>3, NextIs
  <2>3. QED
    BY <2>1, <2>2
<1>11. PICK told \in SUBSET ids : told = Displaced \cup CallIds(batch, 1, n - 1)
  <2>1. \A j \in 1 .. n - 1 : j \in 1 .. k
    BY <1>10
  <2>2. Displaced \cup CallIds(batch, 1, n - 1) \in SUBSET ids
    BY <1>8, <1>10, <2>1 DEF Displaced, CallIds, IdsOf
  <2>3. QED
    BY <2>2
<1>12. PICK id : id = batch[n].id
  OBVIOUS
<1>13. id \in ids \ told
  <2>1. id \in ids
    BY <1>8, <1>10, <1>12 DEF IdsOf
  <2>2. id \notin Displaced
    BY <1>9, <1>10, <1>12 DEF Displaced, Apart
  <2>3. id \notin CallIds(batch, 1, n - 1)
    <3>1. \A j \in 1 .. n - 1 : j \in 1 .. k /\ j # n
      BY <1>10
    <3>2. QED
      BY <1>9, <1>10, <1>12, <3>1 DEF CallIds, Apart
  <2>4. QED
    BY <1>11, <2>1, <2>2, <2>3
<1>14. PICK told2 : told2 = told \cup {id}
  OBVIOUS
<1>15. told2 = Displaced \cup CallIds(batch, 1, n)
  <2>1. 1 .. n = 1 .. n - 1 \cup {n}
    BY <1>10
  <2>2. CallIds(batch, 1, n) = CallIds(batch, 1, n - 1) \cup {id}
    BY <1>12, <2>1 DEF CallIds
  <2>3. QED
    BY <1>11, <1>14, <2>2
<1>16. PICK z \in Nat : z = Len(m)
  OBVIOUS
<1>17. PICK p : Joined(Messages, m, p, z, 1, e) /\ p[1] = x
  BY <1>2, <1>5, <1>16, OneMoreIs
<1>18. /\ Preceded(e) /\ Asked(e, ids)
       /\ Half(m, ids, told) => Half(e, ids, told2)
  <2>1. PICK y \in Nat : y = 1
    OBVIOUS
  <2>2. PICK q : q = [j \in 1 .. y |-> id]
    OBVIOUS
  <2>3. \A j \in 1 .. y : j = 1
    BY <2>1
  <2>4. DOMAIN q = 1 .. y /\ \A j \in 1 .. y : q[j] = id
    BY <2>2
  <2>5. \A j \in 1 .. y : p[j].kind = "result" /\ p[j].of = {q[j]}
    <3>1. x.kind = "result" /\ x.of = {id}
      BY <1>1, <1>10, <1>12, MessageIs
    <3>2. QED
      BY <1>17, <2>3, <2>4, <3>1
  <2>6. PICK more \in SUBSET ids : more = {id} /\ told \cap more = {}
    <3>1. {id} \in SUBSET ids /\ told \cap {id} = {}
      BY <1>13
    <3>2. QED
      BY <3>1
  <2>7. Tell(p, q, y, more)
    <3>1. 1 \in 1 .. y
      BY <2>1
    <3>2. more = {q[j] : j \in 1 .. y}
      BY <2>4, <2>6, <3>1
    <3>3. \A i, j \in 1 .. y : q[i] = q[j] => i = j
      BY <2>3
    <3>4. QED
      BY <2>5, <3>2, <3>3 DEF Tell
  <2>8. Joined(Messages, m, p, z, y, e)
    BY <1>17, <2>1
  <2>9. /\ Preceded(m) /\ Asked(m, ids) => Preceded(e) /\ Asked(e, ids)
        /\ Half(m, ids, told) => Half(e, ids, told \cup more)
    BY <1>16, <2>6, <2>7, <2>8, ResultsMore
  <2>10. told \cup more = told2
    BY <1>14, <2>6
  <2>11. QED
    BY <1>9, <2>9, <2>10
<1>19. s \in Stages
  BY DEF Stages
<1>20. e \in Seq(Messages)
  BY <1>2, <1>5, AppendProperties
<1>21. ~Interrupted => Half(e, ids, told2)
  BY <1>3, <1>4, <1>8, <1>10, <1>11, <1>18 DEF AnswersInv, CtxAnswered
<1>22. s # "idle"
  OBVIOUS
<1>23. /\ ~stored'.cut => StoredAnswered'
       /\ \/ pc' = s /\ ctx' = d /\ (~Interrupted' => ~Interrupted)
          \/ pc' = "failing" /\ ctx' = c /\ Interrupted'
  BY <1>2, <1>3, <1>6, <1>18, <1>19, <1>22, PublishStored
<1>24. IdsOf(batch', skipped') = ids /\ Displaced' = Displaced
  BY <1>3, <1>8 DEF Displaced
<1>25. ASSUME pc' = s, ctx' = d, ~Interrupted' => ~Interrupted PROVE CtxAnswered'
  <2>1. CASE AtLast
    <3>1. n = k
      BY <1>10, <2>1 DEF AtLast
    <3>2. told2 = ids
      BY <1>8, <1>10, <1>15, <3>1 DEF CallIds, Displaced, IdsOf
    <3>3. ~Interrupted => AllAnswered(e)
      BY <1>20, <1>21, <3>2, HalfWhole
    <3>4. pc' = "iterate" /\ ctx'.messages = e
      BY <1>2, <1>7, <1>25, <2>1
    <3>5. QED
      BY <1>18, <1>25, <3>3, <3>4 DEF CtxAnswered
  <2>2. CASE ~AtLast
    <3>1. pc' = "closing" /\ ctx'.messages = e
      BY <1>2, <1>7, <1>25, <2>2
    <3>2. next' - 1 = n
      BY <1>3, <1>10, <2>2
    <3>3. Displaced' \cup CallIds(batch', 1, next' - 1) = told2
      BY <1>3, <1>15, <1>24, <3>2
    <3>4. Apart(batch', skipped')
      BY <1>3, <1>9
    <3>5. QED
      BY <1>18, <1>21, <1>24, <1>25, <3>1, <3>3, <3>4 DEF CtxAnswered
  <2>3. QED
    BY <2>1, <2>2
<1>26. ASSUME pc' = "failing", ctx' = c, Interrupted' PROVE CtxAnswered'
  BY <1>6, <1>18, <1>26 DEF CtxAnswered
<1>27. CtxAnswered'
  BY <1>23, <1>25, <1>26
<1>28. QED
  BY <1>23, <1>27 DEF AnswersInv

LEMMA AnswerTextAnswers ==
  ASSUME TypesInv, AnswersInv, ~ctx.cut, AnswerText
  PROVE  AnswersInv'
<1>1. PICK x : x = Message("text", {})
  OBVIOUS
<1>2. PICK c \in Contexts :
        /\ x \in Messages
        /\ Retold(ctx, c, Append(ctx.messages, x))
        /\ \/ Publish(c, c, "spoken")
           \/ ctx' = c /\ pc' = "spoken" /\ UNCHANGED <<stored, errors>>
  BY <1>1, AnswerTextIs
<1>3. pc = "asking" /\ ctx \in Contexts /\ UNCHANGED stops
  BY NotesFit DEF AnswerText, work
<1>4. PICK m \in Seq(Messages) : m = ctx.messages
  BY <1>3, ContextType
<1>5. /\ Preceded(m) => Preceded(Append(m, x))
      /\ AllAnswered(m) => AllAnswered(Append(m, x))
  BY <1>1, <1>2, PlainMore, MessageIs
<1>6. c.messages = Append(m, x)
  BY <1>2, <1>4 DEF Retold
<1>7. Preceded(c.messages) /\ (~Interrupted => AllAnswered(c.messages))
  BY <1>3, <1>4, <1>5, <1>6 DEF AnswersInv, CtxAnswered
<1>8. CASE Publish(c, c, "spoken")
  BY <1>3, <1>7, <1>8, PublishAnswers
<1>9. CASE ctx' = c /\ pc' = "spoken" /\ UNCHANGED <<stored, errors>>
  <2>1. CtxAnswered'
    BY <1>3, <1>7, <1>9 DEF CtxAnswered, Interrupted
  <2>2. QED
    BY <1>3, <1>9, <2>1 DEF AnswersInv, StoredAnswered, Interrupted
<1>10. QED
  BY <1>2, <1>8, <1>9

LEMMA EndAnswers ==
  ASSUME TypesInv, StartedInv, AnswersInv, ~ctx.cut, Limit \/ Finalize \/ Fail \/ Stop \/ Raise
  PROVE  AnswersInv'
<1>1. ctx \in Contexts
  BY NotesFit
<1>2. CASE Limit
  <2>1. Publish(ctx, ctx, "finalize") /\ pc = "iterate" /\ UNCHANGED stops
    BY <1>2 DEF Limit
  <2>2. Preceded(ctx.messages) /\ (~Interrupted => AllAnswered(ctx.messages))
    BY <2>1 DEF AnswersInv, CtxAnswered
  <2>3. QED
    BY <1>1, <2>1, <2>2, PublishAnswers
<1>3. CASE Finalize
  <2>1. PICK c \in Contexts : /\ c = IF pc = "spoken" THEN Expired(ctx, {}) ELSE ctx
                              /\ Publish(c, c, "idle")
    BY <1>3, FinalizeIs
  <2>2. c.messages = ctx.messages
    <3>1. PICK e : e = Expired(ctx, {})
      OBVIOUS
    <3>2. e.messages = ctx.messages
      BY <1>1, <3>1, ExpiredIs
    <3>3. QED
      BY <2>1, <3>1, <3>2
  <2>3. pc \in {"spoken", "finalize"} /\ UNCHANGED stops
    BY <1>3 DEF Finalize
  <2>4. Preceded(c.messages) /\ (~Interrupted => AllAnswered(c.messages))
    BY <2>2, <2>3 DEF AnswersInv, CtxAnswered
  <2>5. QED
    BY <2>1, <2>3, <2>4, PublishAnswers
<1>4. CASE Fail
  <2>1. pc = "failing" /\ pc' = "idle" /\ ctx' = ctx /\ stored' = Compacted(ctx)
        /\ UNCHANGED <<stops, errors>>
    BY <1>4 DEF Fail
  <2>2. Saved(ctx, stored')
    BY <1>1, <2>1, CompactedIs
  <2>3. ~stored'.cut => stored'.messages = ctx.messages
    BY <2>2 DEF Saved
  <2>4. Interrupted'
    BY <2>1 DEF StartedInv, Interrupted
  <2>5. Preceded(ctx.messages)
    BY DEF AnswersInv, CtxAnswered
  <2>6. QED
    BY <2>1, <2>3, <2>4, <2>5 DEF AnswersInv, StoredAnswered, CtxAnswered
<1>5. CASE Stop \/ Raise
  <2>1. pc' \in {"idle", "failing"} /\ UNCHANGED <<stored, ctx>>
    BY <1>5 DEF Stop, Raise
  <2>2. Interrupted'
    BY <1>5, LoopAssumption DEF Stop, Raise, TypesInv, TypeOK, Interrupted
  <2>3. QED
    BY <2>1, <2>2 DEF AnswersInv, StoredAnswered, CtxAnswered
<1>6. QED
  BY <1>2, <1>3, <1>4, <1>5

LEMMA InitAnswers == Init => AnswersInv
<1>1. SUFFICES ASSUME Init PROVE AnswersInv
  OBVIOUS
<1>2. stored = ctx /\ ctx.messages = <<>> /\ pc = "idle"
  BY <1>1, SeededIs DEF Init
<1>3. Preceded(<<>>) /\ AllAnswered(<<>>)
  BY DEF Preceded, AllAnswered
<1>4. QED
  BY <1>2, <1>3 DEF AnswersInv, StoredAnswered, CtxAnswered

LEMMA NextAnswers ==
  ASSUME TypesInv, StartedInv, ContextInv, AnswersInv, [Next]_vars
  PROVE  AnswersInv'
<1>1. CASE UNCHANGED vars
  <2>1. UNCHANGED <<stored, ctx, pc, batch, skipped, next, stops, errors>>
    BY <1>1 DEF vars
  <2>2. UNCHANGED Displaced
    BY <2>1 DEF Displaced
  <2>3. QED
    BY <2>1, <2>2 DEF AnswersInv, StoredAnswered, CtxAnswered, Interrupted
<1>2. CASE stored.cut /\ (ctx.cut \/ StartTurn)
  <2>1. stored'.cut /\ ctx'.cut
    BY <1>2, CutStays
  <2>2. QED
    BY <2>1 DEF AnswersInv
<1>3. CASE ~ctx.cut /\ ~StartTurn /\ Next
  <2>1. ASSUME NEW i \in DOMAIN batch, Run(i) PROVE AnswersInv'
    BY <1>3, <2>1, RunAnswers
  <2>2. QED
    BY <1>3, <2>1, IterateAnswers, PruneAnswers, AnswerCallsAnswers, OpenAnswers,
       CloseAnswers, AnswerTextAnswers, EndAnswers, Zenon DEF Next
<1>4. CASE ~stored.cut /\ StartTurn
  BY <1>4, StartAnswers
<1>5. ctx.cut => stored.cut
  BY DEF ContextInv
<1>6. QED
  BY <1>1, <1>2, <1>3, <1>4, <1>5

\* What CallsAnswered says of a list of messages.
Demanded(m) ==
  /\ \A j \in DOMAIN m : m[j].kind = "result" =>
       \E i \in 1 .. j - 1 : m[i].kind = "calls" /\ m[j].of \subseteq m[i].of
  /\ \A i \in DOMAIN m : m[i].kind = "calls" /\ ~Interrupted =>
       LET after == SubSeq(m, i + 1, Min({Len(m), i + Cardinality(m[i].of)}))
       IN /\ \A j \in DOMAIN after : after[j].kind = "result"
          /\ {after[j].of : j \in DOMAIN after} = {{id} : id \in m[i].of}

LEMMA AnswersShown ==
  ASSUME TypesInv, AnswersInv
  PROVE  CallsAnswered
<1>1. SUFFICES ASSUME pc = "asking", ~ctx.cut PROVE CallsAnswered
  BY Zenon DEF CallsAnswered
<1>2. ctx \in Contexts
  BY NotesFit
<1>3. PICK m \in Seq(Messages) : m = ctx.messages
  BY <1>2, ContextType
<1>4. PICK z \in Nat : z = Len(m) /\ DOMAIN m = 1 .. z
  OBVIOUS
<1>5. \A j \in DOMAIN m : m[j].kind = "result" =>
        \E i \in 1 .. j - 1 : m[i].kind = "calls" /\ m[j].of \subseteq m[i].of
  <2>1. Preceded(m)
    BY <1>1, <1>3 DEF AnswersInv, CtxAnswered
  <2>2. QED
    BY <2>1, Zenon DEF Preceded
<1>6. ASSUME NEW i \in DOMAIN m, m[i].kind = "calls", ~Interrupted
      PROVE  LET after == SubSeq(m, i + 1, Min({Len(m), i + Cardinality(m[i].of)}))
             IN /\ \A j \in DOMAIN after : after[j].kind = "result"
                /\ {after[j].of : j \in DOMAIN after} = {{id} : id \in m[i].of}
  <2>1. PICK r \in Nat : r = Cardinality(m[i].of)
    BY <1>6, CallsOf
  <2>2. AllAnswered(m)
    BY <1>1, <1>3, <1>6 DEF AnswersInv, CtxAnswered
  <2>3. i + r <= z /\ Results(m, i + 1, i + r, m[i].of)
    BY <1>4, <1>6, <2>1, <2>2 DEF AllAnswered, Answered
  <2>4. Min({Len(m), i + Cardinality(m[i].of)}) = i + r
    <3>1. PICK T \in SUBSET Nat : T = {z, i + r}
      <4>1. {z, i + r} \in SUBSET Nat
        BY <1>4
      <4>2. QED
        BY <4>1
    <3>2. Min(T) \in T /\ \A y \in T : Min(T) =< y
      BY <3>1, FirstIs
    <3>3. Min(T) = i + r
      BY <1>4, <2>3, <3>1, <3>2
    <3>4. QED
      BY <1>4, <2>1, <3>1, <3>3
  <2>5. PICK after : after = SubSeq(m, i + 1, i + r)
    OBVIOUS
  <2>6. DOMAIN after = 1 .. r /\ \A j \in 1 .. r : after[j] = m[i + j]
    <3>1. PICK a \in 1 .. z + 1, b \in 0 .. z : a = i + 1 /\ b = i + r
      BY <1>4, <2>3
    <3>2. after = SubSeq(m, a, b) /\ r = b - a + 1
      BY SMTT(20), <1>4, <2>5, <3>1
    <3>3. \A j \in a .. b : m[j] \in Messages
      BY <1>4, <2>3, <3>1
    <3>4. a \in Int /\ b \in Int
      OBVIOUS
    <3>5. /\ SubSeq(m, a, b) \in Seq(Messages)
          /\ Len(SubSeq(m, a, b)) = IF a <= b THEN b - a + 1 ELSE 0
          /\ \A j \in 1 .. b - a + 1 : SubSeq(m, a, b)[j] = m[a + j - 1]
      BY <3>3, <3>4, SubSeqProperties
    <3>6. b - a + 1 = r /\ (IF a <= b THEN b - a + 1 ELSE 0) = r
      BY <1>4, <2>1, <3>1
    <3>7. after \in Seq(Messages) /\ Len(after) = r
      BY <3>2, <3>5, <3>6
    <3>8. \A j \in 1 .. r : after[j] = m[a + j - 1]
      BY <3>2, <3>5, <3>6
    <3>9. \A j \in 1 .. r : a + j - 1 = i + j
      BY <1>4, <3>1
    <3>10. DOMAIN after = 1 .. r
      BY <3>7
    <3>11. QED
      BY <3>8, <3>9, <3>10
  <2>7. Results(after, 1, r, m[i].of)
    <3>1. \A j \in 1 .. r : after[0 + j] = m[i + j]
      BY <2>6
    <3>2. i \in Nat /\ 0 \in Nat
      BY <1>4
    <3>3. Results(after, 0 + 1, 0 + r, m[i].of)
      BY <2>3, <3>1, <3>2, ResultsMoved
    <3>4. QED
      BY <3>3
  <2>8. /\ \A j \in DOMAIN after : after[j].kind = "result"
        /\ {after[j].of : j \in DOMAIN after} = {{id} : id \in m[i].of}
    <3>1. DOMAIN after = 1 .. r
      BY <2>6
    <3>2. /\ \A j \in 1 .. r : after[j].kind = "result" /\ \E id \in m[i].of : after[j].of = {id}
          /\ \A id \in m[i].of : \E j \in 1 .. r : after[j].of = {id}
      BY <2>7 DEF Results
    <3>3. {after[j].of : j \in 1 .. r} \subseteq {{id} : id \in m[i].of}
      BY <3>2
    <3>4. {{id} : id \in m[i].of} \subseteq {after[j].of : j \in 1 .. r}
      BY ZenonT(30), <3>2
    <3>5. QED
      BY <3>1, <3>2, <3>3, <3>4
  <2>9. QED
    BY <2>4, <2>5, <2>8
<1>7. Demanded(m)
  BY <1>5, <1>6, Zenon DEF Demanded
<1>8. Demanded(ctx.messages)
  BY <1>3, <1>7
<1>9. QED
  BY <1>8, Zenon DEF Demanded, CallsAnswered

\* What a chat API demands of a context whose beginning no save has cut off: no result
\* without its calls before it, whatever was interrupted; and until a turn is, every call
\* answered at once by the results of its message's calls, one each (loop.py:450, 473-479,
\* 539-556, pruning.py:60-95).
THEOREM CallsAreAnswered == Spec => []CallsAnswered
<1>1. TypesInv /\ [Next]_vars => TypesInv'
  BY NextTypes
<1>2. TypesInv /\ StartedInv /\ [Next]_vars => StartedInv'
  BY NextStarted
<1>3. TypesInv /\ ContextInv /\ [Next]_vars => ContextInv'
  BY NextContext
<1>4. TypesInv /\ StartedInv /\ ContextInv /\ AnswersInv /\ [Next]_vars => AnswersInv'
  BY NextAnswers
<1>5. TypesInv /\ AnswersInv => CallsAnswered
  BY AnswersShown
<1>6. QED
  BY InitTypes, InitStarted, InitContext, InitAnswers, <1>1, <1>2, <1>3, <1>4, <1>5, PTL
     DEF Spec

=============================================================================
