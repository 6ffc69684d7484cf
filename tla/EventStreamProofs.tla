-------------------------- MODULE EventStreamProofs --------------------------
(***************************************************************************)
(* Proofs about EventStream: types, and that what a client receives is     *)
(* stored, in order, once, and without holes, for any clients, queue size, *)
(* turns, lost connections, cancels, restarts and overflows.               *)
(*                                                                         *)
(* The argument: the event with number n is at place n of the log, in      *)
(* memory and stored, and so in every queue and replay; and from the       *)
(* moment a replay is read, each number after the last one sent is in the  *)
(* subscriber's queue, was given up there, or was never told.              *)
(***************************************************************************)
EXTENDS EventStream, SequenceTheorems, WellFoundedInduction, TLAPS

-----------------------------------------------------------------------------
(* The invariant *)

Items == Events \cup {Gap, Chunk}

\* The event at place i has number i.
Numbered(s) == s \in Seq(Events) /\ \A i \in DOMAIN s : s[i].seq = i

\* The numbers up to this one were emitted, or never will be.
Told == IF publish = "stored" THEN Len(stored) - 1 ELSE Len(stored)

\* The log in memory is the stored one and what is being saved; an event whose save
\* raised stays in it and is silent.
LogInv ==
  /\ Numbered(stored) /\ Numbered(mem)
  /\ publish \in {"none", "idle", "saving", "stored", "failed"} /\ turn \in Nat
  /\ publish = "none" => mem = <<>>
  /\ publish \in {"idle", "stored"} => mem = stored
  /\ publish = "stored" => stored # <<>>
  /\ publish \in {"saving", "failed"} =>
       /\ Len(stored) < Len(mem) /\ \A i \in DOMAIN stored : mem[i] = stored[i]
       /\ \A i \in DOMAIN mem \ DOMAIN stored :
            i < Len(mem) \/ publish = "failed" => i \in silent
  /\ publish = "failed" => Len(mem) < MaxEvents
  /\ silent \subseteq 1 .. MaxEvents

\* A queue holds stored events that were told, in their order.
Sorted(q) ==
  \A i, j \in DOMAIN q :
    i < j /\ Durable(q[i]) /\ Durable(q[j]) => q[i].seq < q[j].seq

QueueInv(c) ==
  /\ queue[c] \in Seq(Items) /\ Len(queue[c]) <= MaxQueueSize
  /\ Sorted(queue[c])
  /\ \A i \in DOMAIN queue[c] :
       Durable(queue[c][i]) =>
         /\ queue[c][i].seq \in 1 .. Told
         /\ queue[c][i] = stored[queue[c][i].seq]
  /\ lost[c] \subseteq 1 .. MaxEvents

\* The queue will bring what follows number m, up to what was told.
Brings(c, m) ==
  \A n \in m + 1 .. Told : n \in Numbers(queue[c]) \cup silent \cup lost[c]

FeedInv(c) ==
  /\ \A m \in Numbers(queue[c]) : Brings(c, m)
  /\ conn[c].stage \in {"replaying", "live"} /\ got[c] # <<>> => Brings(c, conn[c].last)

Conns == [stage: Stages, last: 0 .. MaxEvents, replay: Seq(Events),
          terminal: BOOLEAN, loaded: 0 .. MaxEvents]

\* What a connection keeps in mind fits what its client got and the log.
ConnInv(c) ==
  /\ got[c] \in Seq(Events) /\ Id(c) <= Len(stored)
  /\ conn[c] \in Conns
  /\ conn[c].stage = "off" => queue[c] = <<>>
  /\ conn[c].stage \in {"loading", "listing", "replaying"} => got[c] # <<>>
  /\ conn[c].stage \in {"loading", "listing", "live"} => conn[c].last = Id(c)
  /\ conn[c].stage = "listing" => conn[c].loaded <= Len(stored)
  /\ conn[c].stage = "replaying" =>
       /\ conn[c].last = Id(c) + Len(conn[c].replay)
       /\ conn[c].last <= Len(stored)
       /\ \A i \in DOMAIN conn[c].replay : conn[c].replay[i] = stored[Id(c) + i]

EInv ==
  /\ queue = [c \in Clients |-> queue[c]] /\ conn = [c \in Clients |-> conn[c]]
  /\ got = [c \in Clients |-> got[c]] /\ lost = [c \in Clients |-> lost[c]]
  /\ LogInv
  /\ \A c \in Clients : QueueInv(c) /\ FeedInv(c) /\ ConnInv(c)

-----------------------------------------------------------------------------
(* Facts about the operators *)

\* A set of numbers that is not empty has a first one.
LEMMA FirstOf ==
  ASSUME NEW T \in SUBSET Nat, T # {}
  PROVE  First(T) \in T /\ \A y \in T : First(T) <= y
<1> DEFINE R == OpToRel(<, Nat)
<1>1. IsWellFoundedOn(R, Nat)
  BY NatLessThanWellFounded
<1>2. \A x, y \in Nat : y < x => <<y, x>> \in R
  BY DEF OpToRel
<1> HIDE DEF R
<1>3. PICK x \in T : \A y \in T : ~(<<y, x>> \in R)
  BY <1>1, WFMin, Zenon
<1>4. ASSUME NEW y \in T PROVE x <= y
  <2>1. x \in Nat /\ y \in Nat /\ ~(y < x)
    BY <1>2, <1>3, <1>4, Zenon
  <2> QED
    BY <2>1
<1> QED
  BY <1>3, <1>4, Zenon DEF First

\* Events that follow each other in a longer sequence stay sorted.
LEMMA SortedPart ==
  ASSUME NEW a \in Seq(Items), Sorted(a), NEW r \in Seq(Items),
         NEW f \in [DOMAIN r -> DOMAIN a],
         \A i \in DOMAIN r : Durable(r[i]) => r[i] = a[f[i]],
         \A i, j \in DOMAIN r : i < j /\ Durable(r[i]) /\ Durable(r[j]) => f[i] < f[j]
  PROVE  /\ Sorted(r)
         /\ \A i \in DOMAIN r : Durable(r[i]) => \E j \in DOMAIN a : r[i] = a[j]
  BY DEF Sorted

LEMMA GapItem == Gap \in Items /\ Chunk \in Items /\ ~Durable(Gap) /\ ~Durable(Chunk)
  BY DEF Gap, Chunk, Items, Durable

\* Taking out the event at place k and putting one in at the end.
LEMMA Displaced ==
  ASSUME NEW S, NEW q \in Seq(S), NEW k \in 1 .. Len(q), NEW e \in S
  PROVE  LET r == Append(RemoveAt(q, k), e) IN
         /\ r \in Seq(S) /\ Len(r) = Len(q)
         /\ \A i \in 1 .. Len(q) : i < k => r[i] = q[i]
         /\ \A i \in 1 .. Len(q) : i >= k => r[i] = Append(q, e)[i + 1]
<1>0. Len(q) \in Nat /\ k \in Nat
  BY LenProperties
<1>1. PICK p : p = SubSeq(q, 1, k - 1)
  OBVIOUS
<1>2. PICK t : t = SubSeq(q, k + 1, Len(q))
  OBVIOUS
<1>3. p \in Seq(S) /\ Len(p) = k - 1 /\ \A i \in 1 .. k - 1 : p[i] = q[i]
  BY <1>0, <1>1
<1>4. t \in Seq(S) /\ Len(t) = Len(q) - k /\ \A i \in 1 .. Len(q) - k : t[i] = q[k + i]
  BY <1>0, <1>2
<1>5. PICK pt : pt = p \o t
  OBVIOUS
<1>6. /\ pt \in Seq(S) /\ Len(pt) = Len(q) - 1
      /\ \A i \in 1 .. Len(q) - 1 : i < k => pt[i] = q[i]
      /\ \A i \in 1 .. Len(q) - 1 : i >= k => pt[i] = q[i + 1]
  <2>1. /\ pt \in Seq(S) /\ Len(pt) = Len(p) + Len(t)
        /\ \A i \in 1 .. Len(p) : pt[i] = p[i]
        /\ \A i \in 1 .. Len(t) : pt[Len(p) + i] = t[i]
    <3>1. p \in Seq(S) /\ t \in Seq(S)
      BY <1>3, <1>4
    <3>2. pt \in Seq(S) /\ Len(pt) = Len(p) + Len(t)
      BY ONLY <3>1, <1>5
    <3>3. \A i \in 1 .. Len(p) : pt[i] = p[i]
      BY ONLY <3>1, <1>5
    <3>4. \A i \in 1 .. Len(t) : pt[Len(p) + i] = t[i]
      BY ONLY <3>1, <1>5
    <3> QED
      BY <3>2, <3>3, <3>4
  <2>2. pt \in Seq(S) /\ Len(pt) = Len(q) - 1
    BY <1>0, <1>3, <1>4, <2>1
  <2>3. \A i \in 1 .. Len(q) - 1 : i < k => pt[i] = q[i]
    <3>1. \A i \in 1 .. Len(q) - 1 : i < k => i \in 1 .. Len(p)
      BY <1>0, <1>3
    <3>2. \A i \in 1 .. Len(q) - 1 : i < k => i \in 1 .. k - 1
      BY <1>0
    <3> QED
      BY <1>3, <2>1, <3>1, <3>2, Zenon
  <2>4. ASSUME NEW i \in 1 .. Len(q) - 1, i >= k
        PROVE  pt[i] = q[i + 1]
    <3>1. PICK j \in 1 .. Len(t) : j = i - (k - 1)
      BY <1>0, <1>4, <2>4
    <3>2. pt[(k - 1) + j] = q[k + j]
      BY <1>3, <1>4, <2>1
    <3>3. (k - 1) + j = i /\ k + j = i + 1
      BY <1>0, <3>1
    <3> QED
      BY <3>2, <3>3
  <2> QED
    BY <2>2, <2>3, <2>4
<1>7. PICK r : r = Append(pt, e)
  OBVIOUS
<1>8. r = Append(RemoveAt(q, k), e)
  BY <1>1, <1>2, <1>5, <1>7 DEF RemoveAt
<1>9. /\ r \in Seq(S) /\ Len(r) = Len(q)
      /\ \A i \in 1 .. Len(q) : i < k => r[i] = q[i]
      /\ \A i \in 1 .. Len(q) : i >= k => r[i] = Append(q, e)[i + 1]
  <2>1. /\ r \in Seq(S) /\ Len(r) = Len(q)
        /\ \A i \in 1 .. Len(q) - 1 : r[i] = pt[i]
        /\ r[Len(q)] = e
    BY <1>0, <1>6, <1>7
  <2>2. /\ \A i \in 1 .. Len(q) : Append(q, e)[i] = q[i]
        /\ Append(q, e)[Len(q) + 1] = e
    BY AppendProperties
  <2>3. \A i \in 1 .. Len(q) : i < k => r[i] = q[i]
    BY <1>0, <1>6, <2>1
  <2>4. ASSUME NEW i \in 1 .. Len(q), i >= k
        PROVE  r[i] = Append(q, e)[i + 1]
    <3>1. CASE i = Len(q)
      BY <2>1, <2>2, <3>1
    <3>2. CASE i # Len(q)
      <4>1. i \in 1 .. Len(q) - 1 /\ i + 1 \in 1 .. Len(q)
        BY <1>0, <3>2
      <4>2. r[i] = q[i + 1]
        BY <1>6, <2>1, <2>4, <4>1
      <4> QED
        BY <2>2, <4>1, <4>2
    <3> QED
      BY <3>1, <3>2
  <2> QED
    BY <2>1, <2>3, <2>4
<1> QED
  BY <1>8, <1>9

\* In a full queue without ephemeral events the two oldest are replaced.
Shifted(q, e) == Fitting(SubSeq(q, 3, Len(q)) \o <<Gap, e>>)

LEMMA Replaced ==
  ASSUME NEW q \in Seq(Items), NEW e \in Items, Len(q) = MaxQueueSize
  PROVE  /\ Shifted(q, e) \in Seq(Items) /\ Len(Shifted(q, e)) = Len(q)
         /\ \A i \in 1 .. Len(q) : i < Len(q) - 1 => Shifted(q, e)[i] = q[i + 2]
         /\ Len(q) = 1 => Shifted(q, e)[1] = Gap
         /\ Len(q) >= 2 => Shifted(q, e)[Len(q) - 1] = Gap /\ Shifted(q, e)[Len(q)] = e
<1>0. Len(q) \in Nat \ {0}
  BY QueueAssumption
<1>1. PICK t : t = SubSeq(q, 3, Len(q))
  OBVIOUS
<1>2. /\ t \in Seq(Items) /\ Len(t) \in Nat
      /\ Len(q) >= 2 => Len(t) = Len(q) - 2
      /\ Len(q) = 1 => Len(t) = 0
      /\ \A i \in 1 .. Len(q) - 2 : t[i] = q[i + 2]
  BY <1>0, <1>1
<1>3. PICK s : s = t \o <<Gap, e>>
  OBVIOUS
<1>4. /\ s \in Seq(Items) /\ Len(s) = Len(t) + 2
      /\ \A i \in 1 .. Len(t) : s[i] = t[i]
      /\ s[Len(t) + 1] = Gap /\ s[Len(t) + 2] = e
  BY <1>2, <1>3, GapItem
<1>5. PICK r : r = SubSeq(s, 1, Len(q))
  OBVIOUS
<1>6. r = Shifted(q, e)
  <2>1. Len(s) >= Len(q) /\ Len(s) \in Nat
    BY <1>0, <1>2, <1>4
  <2>2. Fitting(s) = SubSeq(s, 1, Len(q))
    BY <1>0, <2>1 DEF Fitting
  <2> QED
    BY <1>1, <1>3, <1>5, <2>2 DEF Shifted
<1>7. r \in Seq(Items) /\ Len(r) = Len(q) /\ \A i \in 1 .. Len(q) : r[i] = s[i]
  BY <1>0, <1>2, <1>4, <1>5
<1>8. /\ \A i \in 1 .. Len(q) : i < Len(q) - 1 => r[i] = q[i + 2]
      /\ Len(q) = 1 => r[1] = Gap
      /\ Len(q) >= 2 => r[Len(q) - 1] = Gap /\ r[Len(q)] = e
  BY <1>0, <1>2, <1>4, <1>7
<1> QED
  BY <1>6, <1>7, <1>8

\* A queue with an event put into it fits its size, and its durable events are
\* durable events of the queue and the new one, in their order.
LEMMA EnqueueKeeps ==
  ASSUME NEW q \in Seq(Items), Len(q) <= MaxQueueSize, NEW e \in Items,
         Sorted(Append(q, e))
  PROVE  /\ Enqueue(q, e) \in Seq(Items) /\ Len(Enqueue(q, e)) <= MaxQueueSize
         /\ Sorted(Enqueue(q, e))
         /\ \A i \in DOMAIN Enqueue(q, e) : Durable(Enqueue(q, e)[i]) =>
              \E j \in DOMAIN Append(q, e) : Enqueue(q, e)[i] = Append(q, e)[j]
<1>0. MaxQueueSize \in Nat \ {0}
  BY QueueAssumption
<1>1. PICK a : a = Append(q, e)
  OBVIOUS
<1>2. /\ a \in Seq(Items) /\ Len(a) = Len(q) + 1 /\ a[Len(q) + 1] = e
      /\ \A i \in 1 .. Len(q) : a[i] = q[i]
      /\ DOMAIN a = 1 .. Len(q) + 1 /\ DOMAIN q = 1 .. Len(q) /\ Len(q) \in Nat
  BY <1>1, AppendProperties, LenProperties
<1>3. Sorted(a)
  BY <1>1
<1>4. PICK r : r = Enqueue(q, e)
  OBVIOUS
<1>5. CASE Len(q) < MaxQueueSize
  <2>1. r = a
    BY <1>1, <1>4, <1>5 DEF Enqueue
  <2>2. Len(a) <= MaxQueueSize
    BY <1>0, <1>2, <1>5
  <2> QED
    BY <1>1, <1>2, <1>3, <1>4, <2>1, <2>2
<1>6. CASE Len(q) = MaxQueueSize /\ Ephemerals(q) # {}
  <2>1. First(Ephemerals(q)) \in 1 .. Len(q)
    <3>1. Ephemerals(q) \subseteq 1 .. Len(q)
      BY <1>2 DEF Ephemerals
    <3>2. Ephemerals(q) \in SUBSET Nat
      BY <3>1, <1>2
    <3> QED
      BY <3>1, <3>2, <1>6, FirstOf
  <2>2. PICK k \in 1 .. Len(q) : k = First(Ephemerals(q))
    BY <2>1
  <2>3. r = Append(RemoveAt(q, k), e)
    <3>1. ~(Len(q) < MaxQueueSize)
      BY <1>6, <1>0
    <3> QED
      BY <1>4, <1>6, <2>2, <3>1, Zenon DEF Enqueue
  <2>4. /\ r \in Seq(Items) /\ Len(r) = Len(q)
        /\ \A i \in 1 .. Len(q) : i < k => r[i] = q[i]
        /\ \A i \in 1 .. Len(q) : i >= k => r[i] = a[i + 1]
    BY <1>1, <2>3, Displaced
  <2>5. DOMAIN r = 1 .. Len(q)
    BY <2>4, LenProperties
  <2>6. PICK f : f = [i \in 1 .. Len(q) |-> IF i < k THEN i ELSE i + 1]
    OBVIOUS
  <2>7. /\ f \in [DOMAIN r -> DOMAIN a]
        /\ \A i, j \in DOMAIN r : i < j => f[i] < f[j]
        /\ \A i \in DOMAIN r : (i < k => f[i] = i) /\ (i >= k => f[i] = i + 1)
    BY <1>2, <2>5, <2>6
  <2>8. \A i \in DOMAIN r : r[i] = a[f[i]]
    BY <1>2, <2>4, <2>5, <2>7
  <2>9. /\ Sorted(r)
        /\ \A i \in DOMAIN r : Durable(r[i]) => \E j \in DOMAIN a : r[i] = a[j]
    BY <1>2, <1>3, <2>4, <2>7, <2>8, SortedPart
  <2> QED
    BY <1>0, <1>1, <1>4, <1>6, <2>4, <2>9
<1>7. CASE Len(q) = MaxQueueSize /\ Ephemerals(q) = {} /\ Durable(e)
  <2>1. r = Shifted(q, e)
    <3>1. ~(Len(q) < MaxQueueSize)
      BY <1>7, <1>0
    <3> QED
      BY <1>4, <1>7, <3>1, Zenon DEF Enqueue, Shifted
  <2>2. /\ r \in Seq(Items) /\ Len(r) = Len(q)
        /\ \A i \in 1 .. Len(q) : i < Len(q) - 1 => r[i] = q[i + 2]
        /\ Len(q) = 1 => r[1] = Gap
        /\ Len(q) >= 2 => r[Len(q) - 1] = Gap /\ r[Len(q)] = e
    BY <1>7, <2>1, Replaced
  <2>3. DOMAIN r = 1 .. Len(q)
    BY <2>2, LenProperties
  <2>4. PICK f : f = [i \in 1 .. Len(q) |-> IF i < Len(q) - 1 THEN i + 2 ELSE Len(q) + 1]
    OBVIOUS
  <2>5. /\ f \in [DOMAIN r -> DOMAIN a]
        /\ \A i \in DOMAIN r : i < Len(q) - 1 => f[i] = i + 2
        /\ \A i \in DOMAIN r : i >= Len(q) - 1 => f[i] = Len(q) + 1
    <3>1. PICK n \in Nat : n = Len(q)
      BY <1>2
    <3>2. f = [i \in 1 .. n |-> IF i < n - 1 THEN i + 2 ELSE n + 1]
      BY <2>4, <3>1
    <3>3. \A i \in 1 .. n : i < n - 1 => f[i] = i + 2
      BY <3>2
    <3>4. \A i \in 1 .. n : i >= n - 1 => f[i] = n + 1
      BY <3>2
    <3>5. \A i \in 1 .. n : f[i] \in 1 .. n + 1
      BY <3>3, <3>4
    <3>6. f \in [1 .. n -> 1 .. n + 1]
      BY <3>2, <3>5
    <3> QED
      BY <1>2, <2>3, <3>1, <3>3, <3>4, <3>6
  <2>6. \A i \in DOMAIN r : Durable(r[i]) => i < Len(q) - 1 \/ (i = Len(q) /\ Len(q) >= 2)
    <3>1. ASSUME NEW i \in 1 .. Len(q), Durable(r[i])
          PROVE  i < Len(q) - 1 \/ (i = Len(q) /\ Len(q) >= 2)
      <4>1. r[i] # Gap
        BY <3>1, GapItem
      <4>2. CASE Len(q) = 1
        BY <2>2, <4>1, <4>2
      <4>3. CASE Len(q) >= 2
        <5>1. r[Len(q) - 1] = Gap
          BY <2>2, <4>3, Zenon
        <5>2. i # Len(q) - 1
          BY <4>1, <5>1, Zenon
        <5> QED
          <6>1. PICK n \in Nat : n = Len(q)
            BY <1>2
          <6>2. n >= 2 /\ i \in 1 .. n /\ i # n - 1
            BY <4>3, <5>2, <6>1
          <6>3. i < n - 1 \/ (i = n /\ n >= 2)
            BY <6>2
          <6> QED
            BY <6>1, <6>3
      <4> QED
        BY <1>0, <1>2, <1>7, <4>2, <4>3
    <3> QED
      BY <2>3, <3>1
  <2>7. \A i \in DOMAIN r : Durable(r[i]) => r[i] = a[f[i]]
    BY <1>2, <2>2, <2>3, <2>5, <2>6
  <2>8. \A i, j \in DOMAIN r : i < j /\ Durable(r[i]) /\ Durable(r[j]) => f[i] < f[j]
    BY <1>2, <2>3, <2>5, <2>6
  <2>9. /\ Sorted(r)
        /\ \A i \in DOMAIN r : Durable(r[i]) => \E j \in DOMAIN a : r[i] = a[j]
    BY <1>2, <1>3, <2>2, <2>5, <2>7, <2>8, SortedPart
  <2> QED
    BY <1>0, <1>1, <1>4, <1>7, <2>2, <2>9
<1>8. CASE Len(q) = MaxQueueSize /\ Ephemerals(q) = {} /\ ~Durable(e)
  <2>1. r = q
    BY <1>0, <1>4, <1>8 DEF Enqueue
  <2>2. Sorted(q) /\ \A i \in DOMAIN q : \E j \in DOMAIN a : q[i] = a[j]
    BY <1>2, <1>3 DEF Sorted
  <2> QED
    BY <1>0, <1>1, <1>4, <1>8, <2>1, <2>2
<1> QED
  <2>1. Len(q) < MaxQueueSize \/ Len(q) = MaxQueueSize
    <3>1. PICK n \in Nat : n = Len(q) /\ n <= MaxQueueSize
      BY <1>2
    <3>2. n < MaxQueueSize \/ n = MaxQueueSize
      BY <1>0, <3>1
    <3>3. QED
      BY <3>1, <3>2
  <2>2. CASE Len(q) < MaxQueueSize
    BY <1>5, <2>2
  <2>3. CASE Len(q) = MaxQueueSize /\ Ephemerals(q) # {}
    BY <1>6, <2>3
  <2>4. CASE Len(q) = MaxQueueSize /\ Ephemerals(q) = {} /\ Durable(e)
    BY <1>7, <2>4
  <2>5. CASE Len(q) = MaxQueueSize /\ Ephemerals(q) = {} /\ ~Durable(e)
    BY <1>8, <2>5
  <2> QED
    BY <2>1, <2>2, <2>3, <2>4, <2>5

\* The numbers of a log without holes say where its later part begins.
LEMMA AfterIs ==
  ASSUME Numbered(stored), NEW n \in Nat, n <= Len(stored)
  PROVE  After(n) = SubSeq(stored, n + 1, Len(stored))
<1> DEFINE later == {i \in DOMAIN stored : stored[i].seq > n}
<1>1. DOMAIN stored = 1 .. Len(stored) /\ Len(stored) \in Nat
  BY LenProperties DEF Numbered
<1>2. later = n + 1 .. Len(stored)
  BY <1>1 DEF Numbered
<1>3. After(n) = IF later = {} THEN <<>> ELSE SubSeq(stored, First(later), Len(stored))
  BY DEF After
<1> HIDE DEF later
<1>4. CASE n = Len(stored)
  <2>1. later = {}
    BY <1>1, <1>2, <1>4
  <2>2. SubSeq(stored, n + 1, Len(stored)) = <<>>
    BY <1>1, <1>4, SubSeqEmpty
  <2> QED
    BY <1>3, <2>1, <2>2
<1>5. CASE n < Len(stored)
  <2>1. later \in SUBSET Nat /\ later # {} /\ n + 1 \in later
    BY <1>1, <1>2, <1>5
  <2>2. First(later) \in later /\ \A y \in later : First(later) <= y
    BY <2>1, FirstOf
  <2>3. First(later) = n + 1
    BY <1>1, <1>2, <2>1, <2>2
  <2> QED
    BY <1>3, <2>1, <2>3
<1>6. n = Len(stored) \/ n < Len(stored)
  <2>1. PICK k \in Nat : k = Len(stored)
    BY <1>1
  <2>2. n <= k
    BY <2>1
  <2>3. n = k \/ n < k
    BY <2>2
  <2> QED
    BY <2>1, <2>3
<1> QED
  BY <1>4, <1>5, <1>6, Zenon

LEMMA LogLength ==
  ASSUME NEW s, Numbered(s)
  PROVE  Len(s) \in 0 .. MaxEvents /\ DOMAIN s = 1 .. Len(s)
<1>1. Len(s) \in Nat /\ DOMAIN s = 1 .. Len(s)
  BY LenProperties DEF Numbered
<1>2. CASE Len(s) = 0
  BY <1>1, <1>2, EventsAssumption
<1>3. CASE Len(s) > 0
  <2>1. s[Len(s)] \in Events /\ s[Len(s)].seq = Len(s)
    BY <1>1, <1>3 DEF Numbered
  <2>2. Len(s) \in 1 .. MaxEvents
    BY <2>1 DEF Events
  <2> QED
    BY <1>1, <2>2, EventsAssumption
<1> QED
  BY <1>1, <1>2, <1>3

LEMMA LastOf ==
  ASSUME NEW S, NEW s \in Seq(S), s # <<>>
  PROVE  Len(s) \in Nat \ {0} /\ Last(s) = s[Len(s)] /\ Last(s) \in S
<1>1. Len(s) \in Nat \ {0}
  BY EmptySeq
<1> QED
  BY <1>1, ElementOfSeq DEF Last

\* The number of the last event received.
LEMMA IdOf ==
  ASSUME NEW c, got[c] \in Seq(Events)
  PROVE  /\ Id(c) \in 0 .. MaxEvents /\ Id(c) \in Nat /\ (Id(c) = 0 <=> got[c] = <<>>)
         /\ got[c] # <<>> => Id(c) = got[c][Len(got[c])].seq
<1>1. CASE got[c] = <<>>
  BY <1>1, EventsAssumption DEF Id
<1>2. CASE got[c] # <<>>
  <2>1. Last(got[c]) \in Events /\ Last(got[c]) = got[c][Len(got[c])]
    BY <1>2, LastOf
  <2>2. Last(got[c]).seq \in 1 .. MaxEvents
    BY <2>1 DEF Events
  <2> QED
    BY <1>2, <2>1, <2>2, EventsAssumption DEF Id
<1> QED
  BY <1>1, <1>2

LEMMA OffConn == Off \in Conns /\ Off.stage = "off"
  BY EventsAssumption DEF Off, Conns, Stages

-----------------------------------------------------------------------------
(* The steps *)

LEMMA EInit == Init => EInv
<1> SUFFICES ASSUME Init PROVE EInv
  OBVIOUS
<1>1. LogInv
  BY DEF Init, LogInv, Numbered
<1>2. Told = 0
  BY DEF Init, Told
<1>3. ASSUME NEW c \in Clients PROVE QueueInv(c) /\ FeedInv(c) /\ ConnInv(c)
  <2>1. queue[c] = <<>> /\ lost[c] = {} /\ conn[c] = Off /\ got[c] = <<>> /\ stored = <<>>
    BY DEF Init
  <2>2. QueueInv(c)
    BY <2>1, QueueAssumption DEF QueueInv, Sorted
  <2>3. FeedInv(c)
    BY <2>1, OffConn DEF FeedInv, Numbers
  <2>4. Id(c) = 0
    BY <2>1 DEF Id
  <2>5. ConnInv(c)
    BY <2>1, <2>4, OffConn DEF ConnInv
  <2> QED
    BY <2>2, <2>3, <2>5
<1> QED
  BY <1>1, <1>3 DEF EInv, Init

LEMMA EType == EInv => TypeOK
<1> SUFFICES ASSUME EInv PROVE TypeOK
  OBVIOUS
<1>1. /\ stored \in Seq(Events) /\ mem \in Seq(Events)
      /\ publish \in {"none", "idle", "saving", "stored", "failed"}
      /\ turn \in Nat /\ silent \subseteq 1 .. MaxEvents
  BY DEF EInv, LogInv, Numbered
<1>2. ASSUME NEW c \in Clients
      PROVE  /\ queue[c] \in Seq(Events \cup {Gap, Chunk}) /\ Len(queue[c]) <= MaxQueueSize
             /\ conn[c] \in [stage: Stages, last: 0 .. MaxEvents,
                             replay: Seq(Events \cup Snapshots),
                             terminal: BOOLEAN, loaded: 0 .. MaxEvents]
             /\ got[c] \in Seq(Events \cup Snapshots)
             /\ lost[c] \subseteq 1 .. MaxEvents
  <2>1. QueueInv(c) /\ ConnInv(c)
    BY DEF EInv
  <2>2. conn[c] \in Conns /\ got[c] \in Seq(Events)
    BY <2>1 DEF ConnInv
  <2>3. Events \subseteq Events \cup Snapshots
    OBVIOUS
  <2>4. conn[c].replay \in Seq(Events)
    BY <2>2 DEF Conns
  <2>5. /\ got[c] \in Seq(Events \cup Snapshots)
        /\ conn[c].replay \in Seq(Events \cup Snapshots)
    BY <2>2, <2>3, <2>4, SeqMonotonic
  <2>6. conn[c] \in [stage: Stages, last: 0 .. MaxEvents, replay: Seq(Events \cup Snapshots),
                     terminal: BOOLEAN, loaded: 0 .. MaxEvents]
    BY <2>2, <2>5 DEF Conns
  <2> QED
    BY <2>1, <2>5, <2>6 DEF QueueInv, Items
<1> QED
  BY <1>1, <1>2 DEF TypeOK

\* A step of the turn that emits nothing keeps what the clients have.
LEMMA LogMoves ==
  ASSUME EInv, UNCHANGED <<queue, conn, got, lost>>, LogInv', silent \subseteq silent',
         Len(stored) <= Len(stored'), \A i \in DOMAIN stored : stored'[i] = stored[i],
         Told <= Told', \A n \in Told + 1 .. Told' : n \in silent'
  PROVE  EInv'
<1>1. /\ Len(stored) \in Nat /\ DOMAIN stored = 1 .. Len(stored)
      /\ Len(stored') \in Nat /\ DOMAIN stored' = 1 .. Len(stored')
      /\ Told \in Int /\ Told' \in Int /\ Told <= Len(stored)
  BY LogLength DEF EInv, LogInv, Told
<1>2. ASSUME NEW c \in Clients PROVE QueueInv(c)' /\ FeedInv(c)' /\ ConnInv(c)'
  <2>0. QueueInv(c) /\ FeedInv(c) /\ ConnInv(c)
    BY DEF EInv
  <2>1. QueueInv(c)'
    <3>1. ASSUME NEW i \in DOMAIN queue[c], Durable(queue[c][i])
          PROVE  /\ queue[c][i].seq \in 1 .. Told'
                 /\ queue[c][i] = stored'[queue[c][i].seq]
      <4>1. /\ queue[c][i].seq \in 1 .. Told
            /\ queue[c][i] = stored[queue[c][i].seq]
        BY <2>0, <3>1 DEF QueueInv
      <4> QED
        BY <1>1, <4>1
    <3> QED
      BY <2>0, <3>1 DEF QueueInv
  <2>2. ASSUME NEW m, m \in Nat, Brings(c, m) PROVE Brings(c, m)'
    BY <1>1, <2>2 DEF Brings
  <2>3. FeedInv(c)'
    <3>1. ASSUME NEW m \in Numbers(queue[c]) PROVE m \in Nat
      BY <2>0, <3>1, <1>1 DEF Numbers, QueueInv, Durable
    <3>2. conn[c].last \in Nat
      BY <2>0 DEF ConnInv, Conns
    <3> QED
      BY <2>0, <2>2, <3>1, <3>2 DEF FeedInv
  <2>4. ConnInv(c)'
    <3>1. Id(c)' = Id(c) /\ Id(c) \in Nat
      BY <2>0, IdOf DEF Id, ConnInv
    <3>2. conn[c].last \in Nat /\ conn[c].loaded \in Nat /\ conn[c].replay \in Seq(Events)
      BY <2>0 DEF ConnInv, Conns
    <3>3. ASSUME conn[c].stage = "replaying"
          PROVE  \A i \in DOMAIN conn[c].replay : conn[c].replay[i] = stored'[Id(c) + i]
      <4>1. /\ conn[c].last = Id(c) + Len(conn[c].replay) /\ conn[c].last <= Len(stored)
            /\ \A i \in DOMAIN conn[c].replay : conn[c].replay[i] = stored[Id(c) + i]
        BY <2>0, <3>3 DEF ConnInv
      <4>2. \A i \in DOMAIN conn[c].replay : Id(c) + i \in DOMAIN stored
        BY SMTT(20), <1>1, <3>1, <3>2, <4>1, LenProperties
      <4> QED
        BY <4>1, <4>2
    <3> QED
      BY <1>1, <2>0, <3>1, <3>2, <3>3 DEF ConnInv
  <2> QED
    BY <2>1, <2>3, <2>4
<1> QED
  BY <1>2 DEF EInv

LEMMA StartTurnKeeps == EInv /\ StartTurn => EInv'
<1> SUFFICES ASSUME EInv, StartTurn PROVE EInv'
  OBVIOUS
<1>1. LogInv'
  BY DEF EInv, LogInv, Numbered, StartTurn, holes
<1>2. Told' = Told
  BY DEF StartTurn, Told
<1> QED
  <2>1. Len(stored) \in Nat
    BY LogLength DEF EInv, LogInv
  <2>2. Told \in Int
    BY <2>1 DEF Told
  <2> QED
    BY <1>1, <1>2, <2>1, <2>2, LogMoves DEF StartTurn, holes

LEMMA PublishKeeps == EInv /\ Publish => EInv'
<1> SUFFICES ASSUME EInv, Publish PROVE EInv'
  OBVIOUS
<1>0. /\ Len(stored) \in Nat /\ DOMAIN stored = 1 .. Len(stored)
      /\ Len(mem) \in Nat /\ DOMAIN mem = 1 .. Len(mem) /\ mem \in Seq(Events)
      /\ LogInv
  BY LogLength DEF EInv, LogInv, Numbered
<1>1. Len(mem) < MaxEvents /\ publish \in {"idle", "failed"}
  BY <1>0 DEF Publish, LogInv
<1>2. PICK e : /\ mem' = Append(mem, e) /\ e.seq = Len(mem) + 1
               /\ e \in Events
  <2>1. PICK k \in Kinds :
           mem' = Append(mem, [kind |-> k, seq |-> Len(mem) + 1, turn |-> turn])
    BY DEF Publish, Kinds
  <2>2. Len(mem) + 1 \in 1 .. MaxEvents
    BY <1>0, <1>1, EventsAssumption
  <2>3. [kind |-> k, seq |-> Len(mem) + 1, turn |-> turn] \in Events
    BY <1>0, <2>2 DEF LogInv, Events
  <2> QED
    BY <2>1, <2>3
<1>3. /\ mem' \in Seq(Events) /\ Len(mem') = Len(mem) + 1
      /\ \A i \in 1 .. Len(mem) : mem'[i] = mem[i]
      /\ mem'[Len(mem) + 1] = e
      /\ DOMAIN mem' = 1 .. Len(mem) + 1
  BY <1>0, <1>2, AppendProperties, LenProperties
<1>4. Numbered(mem')
  BY <1>0, <1>2, <1>3 DEF LogInv, Numbered
<1>5. Len(stored) < Len(mem') /\ \A i \in DOMAIN stored : mem'[i] = stored[i]
  BY <1>0, <1>1, <1>3 DEF LogInv
<1>6. ASSUME NEW i \in DOMAIN mem' \ DOMAIN stored, i < Len(mem') PROVE i \in silent
  BY <1>0, <1>1, <1>3, <1>6 DEF LogInv
<1>7. LogInv'
  BY <1>0, <1>4, <1>5, <1>6 DEF LogInv, Publish, holes
<1>8. Told' = Told /\ Told \in Int
  <2>1. stored' = stored /\ publish' = "saving" /\ publish # "stored"
    BY <1>1 DEF Publish
  <2> QED
    BY <1>0, <2>1 DEF Told
<1> QED
  BY <1>0, <1>7, <1>8, LogMoves DEF Publish, holes

LEMMA LandKeeps == EInv /\ Land => EInv'
<1> SUFFICES ASSUME EInv, Land PROVE EInv'
  OBVIOUS
<1>0. /\ Len(stored) \in Nat /\ DOMAIN stored = 1 .. Len(stored)
      /\ Len(mem) \in Nat /\ DOMAIN mem = 1 .. Len(mem)
      /\ LogInv /\ Len(stored) < Len(mem)
  BY LogLength DEF EInv, LogInv, Land
<1>1. LogInv'
  <2>1. mem # <<>>
    BY <1>0
  <2> QED
    BY <1>0, <2>1 DEF Land, LogInv, Numbered, holes
<1>2. Told = Len(stored) /\ Told' = Len(mem) - 1
  BY DEF Land, Told
<1>3. \A n \in Told + 1 .. Told' : n \in silent
  BY <1>0, <1>2 DEF Land, LogInv
<1>4. \A i \in DOMAIN stored : stored'[i] = stored[i]
  BY <1>0 DEF Land, LogInv
<1>5. Len(stored) <= Len(stored') /\ Told <= Told'
  BY <1>0, <1>2 DEF Land
<1> QED
  BY <1>1, <1>3, <1>4, <1>5, LogMoves DEF Land, holes

LEMMA SaveFailsKeeps == EInv /\ SaveFails => EInv'
<1> SUFFICES ASSUME EInv, SaveFails PROVE EInv'
  OBVIOUS
<1>0. /\ Len(stored) \in Nat /\ DOMAIN stored = 1 .. Len(stored)
      /\ Len(mem) \in Nat /\ DOMAIN mem = 1 .. Len(mem)
      /\ LogInv /\ Len(stored) < Len(mem)
  BY LogLength DEF EInv, LogInv, SaveFails
<1>1. LogInv'
  <2>1. Len(mem) \in 1 .. MaxEvents
    BY <1>0, EventsAssumption DEF SaveFails
  <2>2. silent' \subseteq 1 .. MaxEvents
    BY <1>0, <2>1 DEF SaveFails, LogInv
  <2>3. \A i \in DOMAIN mem \ DOMAIN stored : i \in silent'
    BY <1>0 DEF SaveFails, LogInv
  <2> QED
    BY <1>0, <2>2, <2>3 DEF SaveFails, LogInv, Numbered
<1>2. Told' = Told /\ Told \in Int
  BY <1>0 DEF SaveFails, Told
<1> QED
  <2>1. UNCHANGED <<stored, queue, conn, got, lost>> /\ silent \subseteq silent'
    BY DEF SaveFails
  <2> QED
    BY <1>0, <1>1, <1>2, <2>1, LogMoves

LEMMA CancelTurnKeeps == EInv /\ CancelTurn => EInv'
<1> SUFFICES ASSUME EInv, CancelTurn PROVE EInv'
  OBVIOUS
<1>0. Len(stored) \in 0 .. MaxEvents /\ DOMAIN stored = 1 .. Len(stored) /\ LogInv
  BY LogLength DEF EInv, LogInv
<1>1. silent \subseteq silent' /\ silent' \subseteq 1 .. MaxEvents
  <2>1. CASE publish = "stored"
    <3>1. mem = stored /\ stored # <<>>
      BY <1>0, <2>1 DEF LogInv
    <3>2. Len(mem) \in 1 .. MaxEvents
      BY <1>0, <3>1, EmptySeq, EventsAssumption DEF LogInv, Numbered
    <3> QED
      BY <1>0, <2>1, <3>2 DEF CancelTurn, LogInv
  <2>2. CASE publish # "stored"
    BY <1>0, <2>2 DEF CancelTurn, LogInv
  <2> QED
    BY <2>1, <2>2
<1>2. LogInv'
  <2>1. Numbered(<<>>)
    BY DEF Numbered
  <2> QED
    BY <1>0, <1>1, <2>1 DEF CancelTurn, LogInv, Numbered
<1>3. Told <= Told' /\ \A n \in Told + 1 .. Told' : n \in silent'
  <2>1. Told' = Len(stored)
    BY DEF CancelTurn, Told
  <2>2. CASE publish = "stored"
    <3>1. Told = Len(stored) - 1 /\ silent' = silent \cup {Len(stored)}
      BY <1>0, <2>2 DEF CancelTurn, Told, LogInv
    <3> QED
      BY <1>0, <2>1, <3>1
  <2>3. CASE publish # "stored"
    BY <1>0, <2>1, <2>3 DEF Told
  <2> QED
    BY <2>2, <2>3
<1> QED
  <2>1. UNCHANGED <<stored, queue, conn, got, lost>>
    BY DEF CancelTurn
  <2> QED
    BY <1>0, <1>1, <1>2, <1>3, <2>1, LogMoves

LEMMA CrashKeeps == EInv /\ Crash => EInv'
<1> SUFFICES ASSUME EInv, Crash PROVE EInv'
  OBVIOUS
<1>0. Len(stored) \in 0 .. MaxEvents /\ LogInv
  BY LogLength DEF EInv, LogInv
<1>1. LogInv'
  <2>1. Numbered(<<>>)
    BY DEF Numbered
  <2> QED
    BY <1>0, <2>1 DEF Crash, LogInv, Numbered, holes
<1>2. ASSUME NEW c \in Clients PROVE QueueInv(c)' /\ FeedInv(c)' /\ ConnInv(c)'
  <2>0. QueueInv(c) /\ ConnInv(c)
    BY DEF EInv
  <2>1. /\ queue'[c] = <<>> /\ conn'[c] = Off
        /\ stored' = stored /\ got' = got /\ lost' = lost
    BY DEF Crash, holes
  <2>2. QueueInv(c)'
    BY <2>0, <2>1, QueueAssumption DEF QueueInv, Sorted
  <2>3. FeedInv(c)'
    BY <2>1, OffConn DEF FeedInv, Numbers
  <2>4. ConnInv(c)'
    BY <2>0, <2>1, OffConn DEF ConnInv, Id
  <2> QED
    BY <2>2, <2>3, <2>4
<1> QED
  BY <1>1, <1>2 DEF EInv, Crash, holes

\* An event that is emitted: a chunk, or the last one stored, which is told by it.
LEMMA EmitKeeps ==
  ASSUME EInv, NEW e \in Items, Emit(e), UNCHANGED <<stored, conn, got, silent>>, LogInv',
         \/ Told' = Told /\ ~Durable(e)
         \/ /\ Told' = Told + 1 /\ Told' \in 1 .. MaxEvents
            /\ e.seq = Told' /\ e = stored[Told']
  PROVE  EInv'
<1>0. Told \in Int /\ Told <= Told'
  <2>1. Len(stored) \in Nat
    BY LogLength DEF EInv, LogInv
  <2> QED
    BY <2>1 DEF Told
<1>1. ASSUME NEW c \in Clients PROVE QueueInv(c)' /\ FeedInv(c)' /\ ConnInv(c)'
  <2>0. QueueInv(c) /\ FeedInv(c) /\ ConnInv(c)
    BY DEF EInv
  <2>1. CASE ~Subscribed(c)
    <3>1. /\ conn[c].stage = "off" /\ queue[c] = <<>>
          /\ queue'[c] = queue[c] /\ lost'[c] = lost[c]
      BY <2>0, <2>1 DEF Emit, Subscribed, ConnInv
    <3>2. QueueInv(c)'
      BY <2>0, <3>1 DEF QueueInv
    <3>3. FeedInv(c)'
      BY <3>1 DEF FeedInv, Numbers
    <3>4. ConnInv(c)'
      BY <2>0, <3>1 DEF ConnInv, Id
    <3> QED
      BY <3>2, <3>3, <3>4
  <2>2. CASE Subscribed(c)
    <3>1. PICK q : q = queue[c]
      OBVIOUS
    <3>2. PICK a : a = Append(q, e)
      OBVIOUS
    <3>3. PICK r : r = Enqueue(q, e)
      OBVIOUS
    <3>4. /\ queue'[c] = r
          /\ lost'[c] = lost[c] \cup (Numbers(a) \ Numbers(r))
      BY <2>2, <3>1, <3>2, <3>3 DEF Emit
    <3>5. /\ q \in Seq(Items) /\ Len(q) <= MaxQueueSize /\ Sorted(q)
          /\ \A i \in DOMAIN q :
               Durable(q[i]) => q[i].seq \in 1 .. Told /\ q[i] = stored[q[i].seq]
      BY <2>0, <3>1 DEF QueueInv
    <3>6. /\ a \in Seq(Items) /\ DOMAIN a = 1 .. Len(q) + 1 /\ DOMAIN q = 1 .. Len(q)
          /\ a[Len(q) + 1] = e /\ \A i \in 1 .. Len(q) : a[i] = q[i]
          /\ Len(q) \in Nat
      BY <3>2, <3>5, AppendProperties, LenProperties
    <3>7. \A i \in DOMAIN a :
            Durable(a[i]) => a[i].seq \in 1 .. Told' /\ a[i] = stored[a[i].seq]
      BY <1>0, <3>5, <3>6
    <3>8. Sorted(a)
      <4>1. ASSUME NEW i \in DOMAIN a, NEW j \in DOMAIN a,
                   i < j, Durable(a[i]), Durable(a[j])
            PROVE  a[i].seq < a[j].seq
        <5>1. i \in 1 .. Len(q) /\ a[i] = q[i]
          BY <3>6, <4>1
        <5>2. CASE j = Len(q) + 1
          <6>1. a[j] = e /\ e.seq = Told + 1
            BY <3>6, <4>1, <5>2
          <6>2. a[i].seq \in 1 .. Told
            BY <3>5, <3>6, <4>1, <5>1
          <6> QED
            BY <1>0, <6>1, <6>2
        <5>3. CASE j # Len(q) + 1
          <6>1. j \in 1 .. Len(q) /\ a[j] = q[j]
            BY <3>6, <4>1, <5>3
          <6> QED
            BY <3>5, <3>6, <4>1, <5>1, <6>1 DEF Sorted
        <5> QED
          BY <5>2, <5>3
      <4> QED
        BY <4>1 DEF Sorted
    <3>9. /\ r \in Seq(Items) /\ Len(r) <= MaxQueueSize /\ Sorted(r)
          /\ \A i \in DOMAIN r : Durable(r[i]) => \E j \in DOMAIN a : r[i] = a[j]
      BY <3>2, <3>3, <3>5, <3>8, EnqueueKeeps
    <3>10. Numbers(a) \subseteq 1 .. MaxEvents /\ Numbers(a) \subseteq Nat
      <4>1. ASSUME NEW n \in Numbers(a) PROVE n \in 1 .. MaxEvents
        <5>1. PICK i \in DOMAIN a : n = a[i].seq /\ n # 0
          BY <4>1 DEF Numbers
        <5>2. a[i] \in Items /\ a[i] # Gap /\ a[i] # Chunk
          BY <3>6, <5>1, GapItem, ElementOfSeq DEF Durable
        <5> QED
          BY <5>1, <5>2 DEF Items, Events
      <4> QED
        BY <4>1
    <3>11. QueueInv(c)'
      <4>1. lost'[c] \subseteq 1 .. MaxEvents
        BY <2>0, <3>4, <3>10 DEF QueueInv
      <4>2. \A i \in DOMAIN r :
              Durable(r[i]) => r[i].seq \in 1 .. Told' /\ r[i] = stored[r[i].seq]
        BY <3>7, <3>9
      <4> QED
        BY <3>4, <3>9, <4>1, <4>2 DEF QueueInv
    <3>12. Numbers(q) \subseteq Numbers(a) /\ (Durable(e) => e.seq \in Numbers(a))
      BY <3>6 DEF Numbers, Durable
    <3>13. Numbers(a) \subseteq Numbers(q) \cup {e.seq} /\ Numbers(r) \subseteq Numbers(a)
      <4>1. Numbers(a) \subseteq Numbers(q) \cup {e.seq}
        BY <3>6 DEF Numbers
      <4>2. Numbers(r) \subseteq Numbers(a)
        BY <3>9 DEF Numbers, Durable
      <4> QED
        BY <4>1, <4>2
    <3>14. \A m \in Nat : Brings(c, m) => Brings(c, m)'
      <4>1. SUFFICES ASSUME NEW m \in Nat, Brings(c, m), NEW n \in m + 1 .. Told'
                     PROVE  n \in Numbers(r) \cup silent \cup lost'[c]
        BY <3>4 DEF Brings
      <4>2. CASE n <= Told
        <5>1. n \in Numbers(q) \cup silent \cup lost[c]
          BY <1>0, <3>1, <4>1, <4>2 DEF Brings
        <5> QED
          BY <3>4, <3>12, <5>1
      <4>3. CASE n > Told
        <5>1. Durable(e) /\ e.seq = n
          BY <1>0, <4>1, <4>3 DEF Durable
        <5> QED
          BY <3>4, <3>12, <5>1
      <4> QED
        BY <1>0, <4>1, <4>2, <4>3
    <3>15. FeedInv(c)'
      <4>1. ASSUME NEW m \in Numbers(r) PROVE Brings(c, m)'
        <5>1. m \in Nat
          BY <3>10, <3>13, <4>1
        <5>2. CASE m \in Numbers(q)
          BY <2>0, <3>1, <3>14, <5>1, <5>2 DEF FeedInv
        <5>3. CASE m = e.seq
          <6>1. m # 0
            BY <4>1 DEF Numbers
          <6>2. m = Told'
            BY <5>3, <6>1 DEF Durable
          <6> QED
            BY <1>0, <6>2 DEF Brings
        <5> QED
          BY <3>13, <4>1, <5>2, <5>3
      <4>2. conn[c].last \in Nat
        BY <2>0 DEF ConnInv, Conns
      <4> QED
        BY <2>0, <3>4, <3>14, <4>1, <4>2 DEF FeedInv
    <3>16. ConnInv(c)'
      BY <2>0, <2>2 DEF ConnInv, Id, Subscribed
    <3> QED
      BY <3>11, <3>15, <3>16
  <2> QED
    BY <2>1, <2>2
<1> QED
  BY <1>1 DEF EInv, Emit

LEMMA EmittedKeeps == EInv /\ Emitted => EInv'
<1> SUFFICES ASSUME EInv, Emitted PROVE EInv'
  OBVIOUS
<1>0. LogInv /\ mem = stored /\ stored # <<>> /\ Numbered(stored)
  BY DEF EInv, LogInv, Emitted
<1>1. Len(stored) \in 1 .. MaxEvents /\ DOMAIN stored = 1 .. Len(stored)
  BY <1>0, LogLength, EmptySeq DEF Numbered
<1>2. Last(mem) = stored[Len(stored)] /\ Last(mem) \in Events
  BY <1>0, LastOf DEF Numbered
<1>3. Last(mem) \in Items /\ Last(mem).seq = Len(stored)
  BY <1>0, <1>1, <1>2 DEF Items, Numbered
<1>4. LogInv'
  <2>1. Numbered(<<>>)
    BY DEF Numbered
  <2> QED
    BY <1>0, <2>1 DEF Emitted, LogInv, Numbered
<1>5. Told' = Told + 1 /\ Told' = Len(stored)
  <2>1. publish = "stored" /\ publish' # "stored" /\ stored' = stored
    BY DEF Emitted
  <2>2. Told = Len(stored) - 1 /\ Told' = Len(stored)
    BY <2>1 DEF Told
  <2> QED
    BY <1>1, <2>2
<1>6. Emit(Last(mem)) /\ UNCHANGED <<stored, conn, got, silent>>
  BY DEF Emitted
<1> QED
  BY <1>1, <1>2, <1>3, <1>4, <1>5, <1>6, EmitKeeps

LEMMA EmitChunkKeeps == EInv /\ EmitChunk => EInv'
<1> SUFFICES ASSUME EInv, EmitChunk PROVE EInv'
  OBVIOUS
<1>1. UNCHANGED <<stored, mem, publish, turn, silent>>
  BY DEF EmitChunk, log
<1>2. LogInv' /\ Told' = Told
  BY <1>1 DEF EInv, LogInv, Numbered, Told
<1>3. Emit(Chunk) /\ UNCHANGED <<stored, conn, got, silent>>
  BY DEF EmitChunk, log
<1> QED
  BY <1>2, <1>3, GapItem, EmitKeeps

\* A step of one connection leaves the turn and the other clients alone.
Alone(c) ==
  /\ UNCHANGED <<log, holes>>
  /\ queue' = [d \in Clients |-> queue'[d]] /\ conn' = [d \in Clients |-> conn'[d]]
  /\ got' = [d \in Clients |-> got'[d]]
  /\ \A d \in Clients \ {c} :
       queue'[d] = queue[d] /\ conn'[d] = conn[d] /\ got'[d] = got[d]

LEMMA ClientMoves ==
  ASSUME EInv, NEW c \in Clients, Alone(c), QueueInv(c)', FeedInv(c)', ConnInv(c)'
  PROVE  EInv'
<1>1. UNCHANGED <<stored, mem, publish, turn, silent, lost>>
  BY DEF Alone, log, holes
<1>2. LogInv'
  BY <1>1 DEF EInv, LogInv, Numbered
<1>3. ASSUME NEW d \in Clients \ {c} PROVE QueueInv(d)' /\ FeedInv(d)' /\ ConnInv(d)'
  <2>0. QueueInv(d) /\ FeedInv(d) /\ ConnInv(d)
    BY DEF EInv
  <2>1. queue'[d] = queue[d] /\ conn'[d] = conn[d] /\ got'[d] = got[d]
    BY DEF Alone
  <2>2. Told' = Told
    BY <1>1 DEF Told
  <2>3. QueueInv(d)'
    BY <1>1, <2>0, <2>1, <2>2 DEF QueueInv
  <2>4. FeedInv(d)'
    BY <1>1, <2>0, <2>1, <2>2 DEF FeedInv, Brings, Numbers
  <2>5. ConnInv(d)'
    BY <1>1, <2>0, <2>1 DEF ConnInv, Id
  <2> QED
    BY <2>3, <2>4, <2>5
<1>4. /\ queue' = [d \in Clients |-> queue'[d]] /\ conn' = [d \in Clients |-> conn'[d]]
      /\ got' = [d \in Clients |-> got'[d]] /\ lost' = [d \in Clients |-> lost'[d]]
  BY <1>1 DEF Alone, EInv
<1>5. \A d \in Clients : QueueInv(d)' /\ FeedInv(d)' /\ ConnInv(d)'
  BY <1>3
<1> QED
  BY <1>2, <1>4, <1>5 DEF EInv

\* A connection that is closed, with what its client got by then.
LEMMA Closed ==
  ASSUME EInv, NEW c \in Clients, Close(c), UNCHANGED <<log, holes>>,
         got' = [d \in Clients |-> got'[d]], \A d \in Clients \ {c} : got'[d] = got[d],
         got'[c] \in Seq(Events), Id(c)' <= Len(stored)
  PROVE  EInv'
<1>1. /\ queue' = [queue EXCEPT ![c] = <<>>] /\ conn' = [conn EXCEPT ![c] = Off]
      /\ queue = [d \in Clients |-> queue[d]] /\ conn = [d \in Clients |-> conn[d]]
  BY DEF Close, EInv
<1>2. queue'[c] = <<>> /\ conn'[c] = Off /\ Alone(c)
  BY <1>1 DEF Alone
<1>3. QueueInv(c) /\ stored' = stored /\ lost' = lost
  BY DEF EInv, log, holes
<1>4. QueueInv(c)'
  BY <1>2, <1>3, QueueAssumption DEF QueueInv, Sorted
<1>5. FeedInv(c)'
  BY <1>2, OffConn DEF FeedInv, Numbers
<1>6. ConnInv(c)'
  BY <1>2, <1>3, OffConn DEF ConnInv
<1> QED
  BY <1>2, <1>4, <1>5, <1>6, ClientMoves

LEMMA DropKeeps ==
  ASSUME EInv, NEW c \in Clients, Drop(c)
  PROVE  EInv'
<1>1. Close(c) /\ UNCHANGED <<log, holes>> /\ got' = got
  BY DEF Drop
<1>2. ConnInv(c) /\ got = [d \in Clients |-> got[d]]
  BY DEF EInv
<1>3. got'[c] \in Seq(Events) /\ Id(c)' <= Len(stored)
  BY <1>1, <1>2 DEF ConnInv, Id
<1> QED
  BY <1>1, <1>2, <1>3, Closed

\* A step that only changes what the connection keeps in mind.
LEMMA ConnMoves ==
  ASSUME EInv, NEW c \in Clients, NEW d \in Conns,
         conn' = [conn EXCEPT ![c] = d], UNCHANGED <<log, queue, got, holes>>,
         d.stage # "off", FeedInv(c)', ConnInv(c)'
  PROVE  EInv'
<1>1. /\ queue = [x \in Clients |-> queue[x]] /\ conn = [x \in Clients |-> conn[x]]
      /\ got = [x \in Clients |-> got[x]]
      /\ QueueInv(c)
  BY DEF EInv
<1>2. Alone(c)
  BY <1>1 DEF Alone
<1>3. QueueInv(c)'
  BY <1>1 DEF QueueInv, Told, log, holes
<1> QED
  BY <1>2, <1>3, ClientMoves

LEMMA ConnectKeeps ==
  ASSUME EInv, NEW c \in Clients, Connect(c)
  PROVE  EInv'
<1>0. QueueInv(c) /\ FeedInv(c) /\ ConnInv(c) /\ conn = [x \in Clients |-> conn[x]]
  BY DEF EInv
<1>1. Id(c) \in 0 .. MaxEvents /\ (Id(c) = 0 <=> got[c] = <<>>)
  BY <1>0, IdOf DEF ConnInv
<1>2. PICK d : d = [Off EXCEPT !.stage = IF Id(c) = 0 THEN "live" ELSE "loading",
                               !.last = Id(c)]
  OBVIOUS
<1>3. /\ d \in Conns /\ d.last = Id(c)
      /\ (d.stage = "live" /\ Id(c) = 0) \/ (d.stage = "loading" /\ Id(c) # 0)
  <2>1. PICK o \in Conns : o = Off
    BY OffConn
  <2>2. CASE Id(c) = 0
    <3>1. d = [o EXCEPT !.stage = "live", !.last = Id(c)]
      BY <1>2, <2>1, <2>2
    <3>2. d.stage = "live" /\ d.last = Id(c) /\ d \in Conns
      BY <1>1, <3>1 DEF Conns, Stages
    <3> QED
      BY <2>2, <3>2
  <2>3. CASE Id(c) # 0
    <3>1. d = [o EXCEPT !.stage = "loading", !.last = Id(c)]
      BY <1>2, <2>1, <2>3
    <3>2. d.stage = "loading" /\ d.last = Id(c) /\ d \in Conns
      BY <1>1, <3>1 DEF Conns, Stages
    <3> QED
      BY <2>3, <3>2
  <2> QED
    BY <2>2, <2>3
<1>4. conn' = [conn EXCEPT ![c] = d] /\ UNCHANGED <<log, queue, got, holes>>
  BY <1>2 DEF Connect
<1>5. conn'[c] = d /\ stored' = stored /\ Told' = Told /\ Id(c)' = Id(c)
  BY <1>0, <1>4 DEF log, Told, Id
<1>6. FeedInv(c)'
  BY <1>0, <1>1, <1>3, <1>4, <1>5 DEF FeedInv, Brings, holes
<1>7. ConnInv(c)'
  BY <1>0, <1>1, <1>3, <1>4, <1>5 DEF ConnInv
<1> QED
  BY <1>3, <1>4, <1>6, <1>7, ConnMoves

LEMMA LoadKeeps ==
  ASSUME EInv, NEW c \in Clients, Load(c)
  PROVE  EInv'
<1>0. /\ QueueInv(c) /\ FeedInv(c) /\ ConnInv(c) /\ conn = [x \in Clients |-> conn[x]]
      /\ conn[c] \in Conns /\ Len(stored) \in 0 .. MaxEvents
      /\ Len(stored) <= Len(stored)
  BY LogLength DEF EInv, ConnInv, LogInv
<1>1. PICK b \in Conns : b = conn[c]
  BY <1>0
<1>2. PICK d : d = [b EXCEPT !.stage = "listing", !.loaded = Len(stored),
                             !.terminal = publish = "none" \/ StoredEnd]
  OBVIOUS
<1>3. d \in Conns /\ d.last = b.last /\ d.stage = "listing" /\ d.loaded = Len(stored)
  BY <1>0, <1>2 DEF Conns, Stages
<1>4. conn' = [conn EXCEPT ![c] = d] /\ UNCHANGED <<log, queue, got, holes>>
  BY <1>0, <1>1, <1>2 DEF Load
<1>5. conn'[c] = d /\ stored' = stored /\ Told' = Told /\ Id(c)' = Id(c)
  BY <1>0, <1>4 DEF log, Told, Id
<1>6. FeedInv(c)'
  BY <1>0, <1>3, <1>4, <1>5 DEF FeedInv, Brings, holes
<1>7. ConnInv(c)'
  BY <1>0, <1>1, <1>3, <1>4, <1>5 DEF ConnInv, Load
<1> QED
  BY <1>3, <1>4, <1>6, <1>7, ConnMoves

\* What is replayed is the log after the last number received: never a snapshot.
LEMMA ReplayIs ==
  ASSUME Numbered(stored), NEW n \in Nat, n <= Len(stored),
         NEW loaded \in Nat, loaded <= Len(stored), NEW done
  PROVE  Replay(n, loaded, done) = SubSeq(stored, n + 1, Len(stored))
<1>0. Len(stored) \in Nat /\ DOMAIN stored = 1 .. Len(stored) /\ stored \in Seq(Events)
  BY LogLength DEF Numbered
<1>1. PICK events : events = SubSeq(stored, n + 1, Len(stored))
  OBVIOUS
<1>2. After(n) = events
  BY <1>1, AfterIs
<1>3. PICK k \in Nat : k = Len(stored)
  BY <1>0
<1>4. CASE n = k
  <2>1. events = <<>>
    BY <1>1, <1>3, <1>4, SubSeqEmpty
  <2>2. ~(loaded > n)
    BY <1>3, <1>4
  <2> QED
    BY <1>1, <1>2, <2>1, <2>2 DEF Replay
<1>5. CASE n < k
  <2>1. n + 1 \in 1 .. Len(stored) /\ Len(stored) \in n + 1 .. Len(stored)
    BY <1>3, <1>5
  <2>2. Head(events) = stored[n + 1]
    BY <1>0, <1>1, <2>1, HeadTailOfSubSeq
  <2>3. stored[n + 1].seq = n + 1
    BY <1>0, <2>1 DEF Numbered
  <2>4. Len(events) = Len(stored) - n
    <3>1. \A i \in n + 1 .. Len(stored) : stored[i] \in Events
      BY <1>0, ElementOfSeq
    <3>2. Len(events) = IF n + 1 <= Len(stored) THEN Len(stored) - (n + 1) + 1 ELSE 0
      BY <1>0, <1>1, <3>1, SubSeqProperties
    <3>3. n + 1 <= Len(stored) /\ Len(stored) - (n + 1) + 1 = Len(stored) - n
      BY <1>3, <1>5
    <3> QED
      BY <3>2, <3>3
  <2>5. events # <<>>
    BY <1>3, <1>5, <2>4, EmptySeq
  <2> QED
    BY <1>1, <1>2, <2>2, <2>3, <2>5 DEF Replay
<1>6. n = k \/ n < k
  BY <1>3
<1> QED
  BY <1>4, <1>5, <1>6, Zenon

LEMMA ListKeeps ==
  ASSUME EInv, NEW c \in Clients, List(c)
  PROVE  EInv'
<1>0. /\ QueueInv(c) /\ FeedInv(c) /\ ConnInv(c) /\ conn = [x \in Clients |-> conn[x]]
      /\ conn[c] \in Conns /\ Numbered(stored) /\ conn[c].stage = "listing"
      /\ Len(stored) \in 0 .. MaxEvents /\ DOMAIN stored = 1 .. Len(stored)
      /\ stored \in Seq(Events)
  BY LogLength DEF EInv, ConnInv, LogInv, List, Numbered
<1>1. PICK b \in Conns : b = conn[c]
  BY <1>0
<1>2. /\ b.last = Id(c) /\ Id(c) \in Nat /\ Id(c) <= Len(stored) /\ got[c] # <<>>
      /\ b.loaded \in Nat /\ b.loaded <= Len(stored)
  BY <1>0, <1>1, IdOf DEF ConnInv, Conns
<1>3. PICK rep : rep = SubSeq(stored, Id(c) + 1, Len(stored))
  OBVIOUS
<1>4. Replay(b.last, b.loaded, b.terminal) = rep
  BY <1>0, <1>2, <1>3, ReplayIs
<1>5. /\ rep \in Seq(Events) /\ Len(rep) = Len(stored) - Id(c)
      /\ \A i \in 1 .. Len(rep) : rep[i] = stored[Id(c) + i]
      /\ DOMAIN rep = 1 .. Len(rep)
  <2>1. PICK n \in Nat : n = Id(c)
    BY <1>2
  <2>2. rep = SubSeq(stored, n + 1, Len(stored)) /\ n <= Len(stored)
    BY <1>2, <1>3, <2>1
  <2>3. rep \in Seq(Events) /\ Len(rep) = Len(stored) - n
    BY <1>0, <2>2
  <2>4. \A i \in 1 .. Len(stored) - n : rep[i] = stored[n + i]
    BY <1>0, <2>2
  <2> QED
    BY <2>1, <2>3, <2>4, LenProperties
<1>6. PICK last : last = IF rep = <<>> THEN b.last ELSE Last(rep).seq
  OBVIOUS
<1>7. last = Len(stored)
  <2>1. CASE rep = <<>>
    BY <1>0, <1>2, <1>5, <1>6, <2>1
  <2>2. CASE rep # <<>>
    <3>1. Last(rep) = rep[Len(rep)] /\ Len(rep) \in Nat \ {0}
      BY <1>5, <2>2, LastOf
    <3>2. rep[Len(rep)] = stored[Id(c) + Len(rep)] /\ Id(c) + Len(rep) = Len(stored)
      BY <1>0, <1>2, <1>5, <3>1
    <3>3. Len(stored) \in DOMAIN stored
      BY <1>0, <1>2, <1>5, <3>1
    <3> QED
      BY <1>0, <1>6, <2>2, <3>1, <3>2, <3>3 DEF Numbered
  <2> QED
    BY <2>1, <2>2
<1>8. PICK t \in BOOLEAN : t = (\E i \in DOMAIN rep : Terminal(rep[i]))
  OBVIOUS
<1>9. PICK d : d = [b EXCEPT !.stage = "replaying", !.replay = rep, !.last = last,
                             !.terminal = t]
  OBVIOUS
<1>10. /\ d \in Conns /\ d.stage = "replaying" /\ d.replay = rep
       /\ d.last = Len(stored)
  BY <1>0, <1>5, <1>7, <1>9 DEF Conns, Stages
<1>11. conn' = [conn EXCEPT ![c] = d] /\ UNCHANGED <<log, queue, got, holes>>
  <2>1. Replay(conn[c].last, conn[c].loaded, conn[c].terminal) = rep
    BY <1>1, <1>4
  <2>2. conn' = [conn EXCEPT ![c].stage = "replaying", ![c].replay = rep,
                             ![c].last = IF rep = <<>> THEN @ ELSE Last(rep).seq,
                             ![c].terminal = \E i \in DOMAIN rep : Terminal(rep[i])]
    BY <2>1, Zenon DEF List
  <2>3. conn' = [conn EXCEPT ![c] = d]
    BY <1>0, <1>1, <1>6, <1>8, <1>9, <2>2
  <2> QED
    BY <2>3 DEF List
<1>12. /\ conn'[c] = d /\ stored' = stored /\ Told' = Told /\ Id(c)' = Id(c) /\ got' = got
       /\ Told <= Len(stored) /\ Told \in Int
  BY <1>0, <1>11 DEF log, Told, Id
<1>13. FeedInv(c)'
  BY <1>0, <1>10, <1>11, <1>12 DEF FeedInv, Brings, holes
<1>14. ConnInv(c)'
  <2>1. /\ got'[c] \in Seq(Events) /\ Id(c)' <= Len(stored') /\ got'[c] # <<>>
        /\ conn'[c] \in Conns /\ conn'[c].stage = "replaying"
    BY <1>0, <1>2, <1>10, <1>12 DEF ConnInv
  <2>2. /\ conn'[c].last = Id(c)' + Len(conn'[c].replay) /\ conn'[c].last <= Len(stored')
    BY <1>0, <1>2, <1>5, <1>10, <1>12
  <2>3. \A i \in DOMAIN conn'[c].replay : conn'[c].replay[i] = stored'[Id(c)' + i]
    BY <1>5, <1>10, <1>12
  <2> QED
    BY <2>1, <2>2, <2>3 DEF ConnInv
<1> QED
  BY <1>10, <1>11, <1>13, <1>14, ConnMoves

LEMMA SendReplayKeeps ==
  ASSUME EInv, NEW c \in Clients, SendReplay(c)
  PROVE  /\ EInv'
         /\ \E i \in DOMAIN stored : Receives(c, stored[i]) /\ i = Id(c) + 1
<1>0. /\ QueueInv(c) /\ FeedInv(c) /\ ConnInv(c) /\ conn = [x \in Clients |-> conn[x]]
      /\ conn[c] \in Conns /\ Numbered(stored) /\ conn[c].stage = "replaying"
      /\ Len(stored) \in 0 .. MaxEvents /\ DOMAIN stored = 1 .. Len(stored)
      /\ got = [x \in Clients |-> got[x]] /\ got[c] \in Seq(Events) /\ got[c] # <<>>
  BY LogLength DEF EInv, ConnInv, LogInv, SendReplay
<1>1. PICK b \in Conns : b = conn[c]
  BY <1>0
<1>2. /\ Id(c) \in Nat /\ b.last = Id(c) + Len(b.replay) /\ b.last <= Len(stored)
      /\ \A i \in DOMAIN b.replay : b.replay[i] = stored[Id(c) + i]
      /\ b.replay \in Seq(Events) /\ b.replay # <<>>
  <2>1. Id(c) \in Nat
    BY <1>0, IdOf
  <2>2. b.replay \in Seq(Events) /\ b.replay # <<>>
    BY <1>1 DEF Conns, SendReplay
  <2>3. /\ b.last = Id(c) + Len(b.replay) /\ b.last <= Len(stored)
        /\ \A i \in DOMAIN b.replay : b.replay[i] = stored[Id(c) + i]
    BY <1>0, <1>1, Zenon DEF ConnInv
  <2> QED
    BY <2>1, <2>2, <2>3
<1>3. PICK n \in Nat : n = Id(c)
  BY <1>2
<1>4. Len(b.replay) \in Nat \ {0} /\ DOMAIN b.replay = 1 .. Len(b.replay)
  BY <1>2, EmptySeq, LenProperties
<1>5. /\ Head(b.replay) = stored[n + 1] /\ n + 1 \in DOMAIN stored
      /\ stored[n + 1] \in Events /\ stored[n + 1].seq = n + 1
  <2>1. Head(b.replay) = b.replay[1] /\ 1 \in DOMAIN b.replay
    BY <1>2, <1>4
  <2>2. n + 1 \in DOMAIN stored
    BY <1>0, <1>2, <1>3, <1>4
  <2> QED
    BY <1>2, <1>3, <2>1, <2>2 , <1>0 DEF Numbered
<1>6. /\ Tail(b.replay) \in Seq(Events) /\ Len(Tail(b.replay)) = Len(b.replay) - 1
      /\ \A i \in 1 .. Len(b.replay) - 1 : Tail(b.replay)[i] = stored[n + 1 + i]
      /\ DOMAIN Tail(b.replay) = 1 .. Len(b.replay) - 1
  <2>1. /\ Tail(b.replay) \in Seq(Events) /\ Len(Tail(b.replay)) = Len(b.replay) - 1
        /\ \A i \in 1 .. Len(Tail(b.replay)) : Tail(b.replay)[i] = b.replay[i + 1]
    BY <1>2, HeadTailProperties
  <2>2. ASSUME NEW i \in 1 .. Len(b.replay) - 1
        PROVE  Tail(b.replay)[i] = stored[n + 1 + i]
    <3>1. i + 1 \in DOMAIN b.replay /\ i \in 1 .. Len(Tail(b.replay))
      BY <1>4, <2>1
    <3>2. Tail(b.replay)[i] = stored[n + (i + 1)]
      BY <1>2, <1>3, <2>1, <3>1
    <3>3. n + (i + 1) = n + 1 + i
      OBVIOUS
    <3> QED
      BY <3>2, <3>3
  <2> QED
    BY <2>1, <2>2, LenProperties
<1>7. PICK d : d = [b EXCEPT !.replay = Tail(b.replay)]
  OBVIOUS
<1>8. /\ d \in Conns /\ d.stage = "replaying" /\ d.last = b.last
      /\ d.replay = Tail(b.replay)
  BY <1>0, <1>1, <1>6, <1>7 DEF Conns
<1>9. PICK g : g = Append(got[c], stored[n + 1])
  OBVIOUS
<1>10. /\ g \in Seq(Events) /\ g # <<>> /\ Last(g) = stored[n + 1]
  <2>1. /\ g \in Seq(Events) /\ g # <<>> /\ Len(g) = Len(got[c]) + 1
        /\ g[Len(got[c]) + 1] = stored[n + 1]
    BY <1>0, <1>5, <1>9, AppendProperties
  <2> QED
    BY <2>1, LastOf
<1>11. /\ conn' = [conn EXCEPT ![c] = d] /\ got' = [got EXCEPT ![c] = g]
       /\ UNCHANGED <<log, queue, holes>>
  BY <1>0, <1>1, <1>5, <1>7, <1>9 DEF SendReplay
<1>12. /\ conn'[c] = d /\ got'[c] = g /\ stored' = stored /\ Told' = Told
       /\ queue' = queue /\ silent' = silent /\ lost' = lost
  BY <1>0, <1>11 DEF log, holes, Told
<1>13. Id(c)' = n + 1
  BY <1>5, <1>10, <1>12 DEF Id
<1>14. Alone(c)
  BY <1>0, <1>11 DEF EInv, Alone
<1>15. QueueInv(c)'
  BY <1>0, <1>12 DEF QueueInv
<1>16. FeedInv(c)'
  BY <1>0, <1>1, <1>8, <1>12 DEF FeedInv, Brings
<1>17. ConnInv(c)'
  <2>1. got'[c] \in Seq(Events) /\ got'[c] # <<>> /\ Id(c)' <= Len(stored')
    BY <1>0, <1>5, <1>10, <1>12, <1>13
  <2>2. conn'[c] \in Conns /\ conn'[c].stage = "replaying"
    BY <1>8, <1>12
  <2>3. /\ conn'[c].last = Id(c)' + Len(conn'[c].replay)
        /\ conn'[c].last <= Len(stored')
    <3>1. conn'[c].last = b.last /\ Len(conn'[c].replay) = Len(b.replay) - 1
      BY <1>6, <1>8, <1>12
    <3>2. b.last = (n + 1) + (Len(b.replay) - 1)
      BY <1>2, <1>3, <1>4
    <3> QED
      BY <1>2, <1>12, <1>13, <3>1, <3>2
  <2>4. \A i \in DOMAIN conn'[c].replay : conn'[c].replay[i] = stored'[Id(c)' + i]
    BY <1>6, <1>8, <1>12, <1>13
  <2> QED
    BY <2>1, <2>2, <2>3, <2>4 DEF ConnInv
<1>18. Receives(c, stored[n + 1])
  BY <1>9, <1>12 DEF Receives
<1> QED
  BY <1>3, <1>5, <1>14, <1>15, <1>16, <1>17, <1>18, ClientMoves

LEMMA ReplayedKeeps ==
  ASSUME EInv, NEW c \in Clients, Replayed(c)
  PROVE  EInv'
<1>0. /\ QueueInv(c) /\ FeedInv(c) /\ ConnInv(c) /\ conn = [x \in Clients |-> conn[x]]
      /\ conn[c] \in Conns /\ conn[c].stage = "replaying"
      /\ got = [x \in Clients |-> got[x]] /\ conn[c].replay = <<>>
      /\ UNCHANGED <<log, got, holes>>
  BY DEF EInv, ConnInv, Replayed
<1>1. CASE conn[c].terminal
  <2>1. Close(c)
    BY <1>1 DEF Replayed
  <2>2. got'[c] \in Seq(Events) /\ Id(c)' <= Len(stored)
    BY <1>0 DEF ConnInv, Id
  <2> QED
    BY <1>0, <2>1, <2>2, Closed
<1>2. CASE ~conn[c].terminal
  <2>1. PICK b \in Conns : b = conn[c]
    BY <1>0
  <2>2. PICK d : d = [b EXCEPT !.stage = "live"]
    OBVIOUS
  <2>3. /\ d \in Conns /\ d.stage = "live" /\ d.last = b.last
    BY <2>2 DEF Conns, Stages
  <2>4. conn' = [conn EXCEPT ![c] = d] /\ UNCHANGED <<log, queue, got, holes>>
    BY <1>0, <1>2, <2>1, <2>2 DEF Replayed
  <2>5. conn'[c] = d /\ stored' = stored /\ Told' = Told /\ Id(c)' = Id(c)
    BY <1>0, <2>4 DEF log, Told, Id
  <2>6. FeedInv(c)'
    BY <1>0, <2>1, <2>3, <2>4, <2>5 DEF FeedInv, Brings, holes
  <2>7. d.last = Id(c)
    <3>0. got[c] \in Seq(Events)
      BY <1>0 DEF ConnInv
    <3>1. Id(c) \in Nat
      BY <3>0, IdOf
    <3>2. d.last = Id(c) + 0
      BY <1>0, <2>1, <2>3 DEF ConnInv
    <3> QED
      BY <3>1, <3>2
  <2>8. ConnInv(c)'
    BY <1>0, <2>3, <2>4, <2>5, <2>7 DEF ConnInv
  <2> QED
    BY <2>3, <2>4, <2>6, <2>8, ConnMoves
<1> QED
  BY <1>1, <1>2

\* A step of the queue's reader; what the client receives, if anything, follows what
\* it had, but for events that were not told or that its queue gave up.
LEMMA PollKeeps ==
  ASSUME EInv, NEW c \in Clients, Poll(c)
  PROVE  /\ EInv'
         /\ got'[c] # got[c] =>
              \E i \in DOMAIN stored :
                /\ Receives(c, stored[i]) /\ i > Id(c)
                /\ got[c] # <<>> => (Id(c) + 1) .. (i - 1) \subseteq silent \cup lost[c]
<1>0. /\ QueueInv(c) /\ FeedInv(c) /\ ConnInv(c) /\ conn = [x \in Clients |-> conn[x]]
      /\ conn[c] \in Conns /\ Numbered(stored) /\ conn[c].stage = "live"
      /\ Len(stored) \in 0 .. MaxEvents /\ DOMAIN stored = 1 .. Len(stored)
      /\ got = [x \in Clients |-> got[x]] /\ got[c] \in Seq(Events)
      /\ queue = [x \in Clients |-> queue[x]] /\ queue[c] # <<>>
      /\ queue[c] \in Seq(Items)
      /\ UNCHANGED <<log, holes>>
  BY LogLength DEF EInv, ConnInv, LogInv, Poll, QueueInv
<1>1. PICK b \in Conns : b = conn[c]
  BY <1>0
<1>2. b.last = Id(c) /\ Id(c) \in Nat /\ (Id(c) = 0 <=> got[c] = <<>>)
  <2>1. Id(c) \in Nat /\ (Id(c) = 0 <=> got[c] = <<>>)
    BY <1>0, IdOf
  <2> QED
    BY <1>0, <1>1, <2>1 DEF ConnInv
<1>3. PICK e : e = Head(queue[c])
  OBVIOUS
<1>4. PICK t : t = Tail(queue[c])
  OBVIOUS
<1>5. /\ Len(queue[c]) \in Nat \ {0} /\ DOMAIN queue[c] = 1 .. Len(queue[c])
      /\ e = queue[c][1] /\ 1 \in DOMAIN queue[c]
  BY <1>0, <1>3, EmptySeq, LenProperties
<1>6. /\ t \in Seq(Items) /\ Len(t) = Len(queue[c]) - 1 /\ DOMAIN t = 1 .. Len(queue[c]) - 1
      /\ \A i \in 1 .. Len(queue[c]) - 1 : t[i] = queue[c][i + 1]
  <2>1. /\ t \in Seq(Items) /\ Len(t) = Len(queue[c]) - 1
        /\ \A i \in 1 .. Len(t) : t[i] = queue[c][i + 1]
    BY <1>0, <1>4, HeadTailProperties
  <2> QED
    BY <2>1, LenProperties
<1>7. PICK fresh \in BOOLEAN : fresh = (Durable(e) /\ e.seq > conn[c].last)
  OBVIOUS
<1>8. /\ got' = (IF fresh THEN [got EXCEPT ![c] = Append(@, e)] ELSE got)
      /\ IF (fresh /\ Terminal(e)) \/ e = Gap
         THEN Close(c)
         ELSE /\ conn' = (IF fresh THEN [conn EXCEPT ![c].last = e.seq] ELSE conn)
              /\ queue' = [queue EXCEPT ![c] = Tail(@)]
  BY <1>3, <1>7, Zenon DEF Poll
<1>9. ASSUME fresh
      PROVE  /\ e.seq \in DOMAIN stored /\ e = stored[e.seq] /\ e.seq > Id(c)
             /\ e \in Events /\ e.seq \in 1 .. MaxEvents /\ e.seq \in 1 .. Told
  <2>1. Durable(e) /\ e.seq > Id(c)
    BY <1>1, <1>2, <1>7, <1>9
  <2>2. e.seq \in 1 .. Told /\ e = stored[e.seq]
    BY <1>0, <1>5, <2>1 DEF QueueInv
  <2>3. e.seq \in 1 .. Len(stored)
    BY <1>0, <2>2 DEF Told
  <2>4. e \in Events
    BY <1>0, <2>2, <2>3 DEF Numbered
  <2> QED
    <3>1. e.seq \in 1 .. MaxEvents
      BY <2>4 DEF Events
    <3>2. e.seq \in DOMAIN stored
      BY <1>0, <2>3, Zenon
    <3> QED
      BY <2>1, <2>2, <2>4, <3>1, <3>2
<1>10. /\ got' = [d \in Clients |-> got'[d]] /\ \A d \in Clients \ {c} : got'[d] = got[d]
       /\ fresh => got'[c] = Append(got[c], e)
       /\ ~fresh => got'[c] = got[c]
  BY <1>0, <1>8
<1>11. /\ got'[c] \in Seq(Events)
       /\ fresh => got'[c] # <<>> /\ Id(c)' = e.seq
       /\ ~fresh => Id(c)' = Id(c)
  <2>1. CASE fresh
    <3>1. PICK g : g = Append(got[c], e)
      OBVIOUS
    <3>2. /\ g \in Seq(Events) /\ g # <<>> /\ Len(g) = Len(got[c]) + 1
          /\ g[Len(got[c]) + 1] = e
      BY <1>0, <1>9, <2>1, <3>1, AppendProperties
    <3>3. Last(g) = e
      BY <3>2, LastOf
    <3> QED
      BY <1>10, <2>1, <3>1, <3>2, <3>3 DEF Id
  <2>2. CASE ~fresh
    BY <1>0, <1>10, <2>2 DEF Id
  <2> QED
    BY <2>1, <2>2
<1>12. Id(c)' <= Len(stored)
  BY <1>0, <1>9, <1>11 DEF ConnInv
<1>13. \A n \in Numbers(queue[c]) : n = e.seq \/ n \in Numbers(t)
  <2>1. ASSUME NEW n \in Numbers(queue[c]), n # e.seq PROVE n \in Numbers(t)
    <3>1. PICK i \in DOMAIN queue[c] : n = queue[c][i].seq /\ n # 0
      BY <2>1 DEF Numbers
    <3>2. i # 1
      BY <1>5, <2>1, <3>1
    <3>3. i - 1 \in DOMAIN t /\ t[i - 1] = queue[c][i]
      <4>1. i - 1 \in 1 .. Len(queue[c]) - 1 /\ (i - 1) + 1 = i
        BY <1>5, <3>1, <3>2
      <4> QED
        BY <1>6, <4>1
    <3> QED
      BY <3>1, <3>3 DEF Numbers
  <2> QED
    BY <2>1
<1>14. \A n \in Numbers(t) : n \in Numbers(queue[c]) /\ n \in Nat /\ (Durable(e) => e.seq < n)
  <2>1. SUFFICES ASSUME NEW n \in Numbers(t)
                 PROVE  /\ n \in Numbers(queue[c]) /\ n \in Nat
                        /\ Durable(e) => e.seq < n
    OBVIOUS
  <2>2. PICK i \in DOMAIN t : n = t[i].seq /\ n # 0
    BY DEF Numbers
  <2>3. i + 1 \in DOMAIN queue[c] /\ t[i] = queue[c][i + 1] /\ 1 < i + 1
    BY <1>5, <1>6
  <2>4. Durable(queue[c][i + 1])
    BY <2>2, <2>3 DEF Durable
  <2>5. queue[c][i + 1].seq \in 1 .. Told
    BY <1>0, <2>3, <2>4 DEF QueueInv
  <2>6. Durable(e) => e.seq < queue[c][i + 1].seq
    BY <1>0, <1>5, <2>3, <2>4 DEF QueueInv, Sorted
  <2> QED
    BY <2>2, <2>3, <2>5, <2>6 DEF Numbers
<1>15. Told' = Told /\ stored' = stored /\ silent' = silent /\ lost' = lost
  BY <1>0 DEF log, holes, Told
<1>16. EInv'
  <2>1. CASE (fresh /\ Terminal(e)) \/ e = Gap
    <3>1. Close(c)
      BY <1>8, <2>1
    <3> QED
      BY <1>0, <1>10, <1>11, <1>12, <3>1, Closed
  <2>2. CASE ~((fresh /\ Terminal(e)) \/ e = Gap)
    <3>1. PICK d : d = IF fresh THEN [b EXCEPT !.last = e.seq] ELSE b
      OBVIOUS
    <3>2. d \in Conns /\ d.stage = "live" /\ d.last = Id(c)'
      <4>1. CASE fresh
        <5>1. d = [b EXCEPT !.last = e.seq] /\ e.seq \in 0 .. MaxEvents
          BY <1>9, <3>1, <4>1
        <5> QED
          BY <1>0, <1>1, <1>11, <4>1, <5>1 DEF Conns
      <4>2. CASE ~fresh
        BY <1>0, <1>1, <1>2, <1>11, <3>1, <4>2
      <4> QED
        BY <4>1, <4>2
    <3>3. conn' = [conn EXCEPT ![c] = d] /\ queue' = [queue EXCEPT ![c] = t]
      <4>1. /\ conn' = (IF fresh THEN [conn EXCEPT ![c].last = e.seq] ELSE conn)
            /\ queue' = [queue EXCEPT ![c] = Tail(@)]
        BY <1>8, <2>2
      <4>2. queue' = [queue EXCEPT ![c] = t]
        BY <1>4, <4>1
      <4>3. CASE fresh
        BY <1>0, <1>1, <3>1, <4>1, <4>2, <4>3
      <4>4. CASE ~fresh
        BY <1>0, <1>1, <3>1, <4>1, <4>2, <4>4
      <4> QED
        BY <4>3, <4>4
    <3>4. conn'[c] = d /\ queue'[c] = t
      BY <1>0, <3>3
    <3>5. Alone(c)
      BY <1>0, <1>10, <3>3 DEF Alone
    <3>6. QueueInv(c)'
      <4>1. Sorted(t)
        <5>1. ASSUME NEW i \in DOMAIN t, NEW j \in DOMAIN t,
                     i < j, Durable(t[i]), Durable(t[j])
              PROVE  t[i].seq < t[j].seq
          <6>1. /\ i + 1 \in DOMAIN queue[c] /\ j + 1 \in DOMAIN queue[c] /\ i + 1 < j + 1
                /\ t[i] = queue[c][i + 1] /\ t[j] = queue[c][j + 1]
            <7>1. PICK k \in Nat : k = Len(queue[c])
              BY <1>5
            <7>2. i \in 1 .. k - 1 /\ j \in 1 .. k - 1
              BY <1>6, <7>1
            <7>3. i + 1 \in 1 .. k /\ j + 1 \in 1 .. k /\ i + 1 < j + 1
              BY <5>1, <7>2
            <7> QED
              BY <1>5, <1>6, <7>1, <7>2, <7>3
          <6> QED
            BY <1>0, <5>1, <6>1 DEF QueueInv, Sorted
        <5> QED
          BY <5>1 DEF Sorted
      <4>2. ASSUME NEW i \in DOMAIN t, Durable(t[i])
            PROVE  t[i].seq \in 1 .. Told /\ t[i] = stored[t[i].seq]
        <5>1. i + 1 \in DOMAIN queue[c] /\ t[i] = queue[c][i + 1]
          BY <1>5, <1>6
        <5> QED
          BY <1>0, <4>2, <5>1 DEF QueueInv
      <4>3. Len(t) <= MaxQueueSize
        BY <1>0, <1>5, <1>6, QueueAssumption DEF QueueInv
      <4> QED
        BY <1>0, <1>6, <1>15, <3>4, <4>1, <4>2, <4>3 DEF QueueInv
    <3>7. ASSUME NEW m \in Nat, Brings(c, m), Durable(e) => e.seq <= m
          PROVE  Brings(c, m)'
      <4>1. SUFFICES ASSUME NEW n \in m + 1 .. Told
                     PROVE  n \in Numbers(t) \cup silent \cup lost[c]
        BY <1>15, <3>4 DEF Brings
      <4>2. n \in Numbers(queue[c]) \cup silent \cup lost[c]
        BY <3>7, <4>1 DEF Brings
      <4>3. ASSUME n \in Numbers(queue[c]) PROVE n # e.seq
        <5>1. n # 0
          BY <4>3 DEF Numbers
        <5>2. CASE Durable(e)
          BY <3>7, <4>1, <5>2, <1>0, <1>5 DEF QueueInv
        <5>3. CASE ~Durable(e)
          BY <5>1, <5>3 DEF Durable
        <5> QED
          BY <5>2, <5>3
      <4> QED
        BY <1>13, <4>2, <4>3
    <3>8. FeedInv(c)'
      <4>1. ASSUME NEW m \in Numbers(t) PROVE Brings(c, m)'
        <5>1. m \in Numbers(queue[c]) /\ m \in Nat /\ (Durable(e) => e.seq < m)
          BY <1>14, <4>1
        <5>2. Brings(c, m)
          BY <1>0, <5>1 DEF FeedInv
        <5>3. Durable(e) => e.seq <= m
          BY <1>0, <1>5, <5>1 DEF QueueInv
        <5> QED
          BY <3>7, <5>1, <5>2, <5>3
      <4>2. ASSUME got'[c] # <<>> PROVE Brings(c, d.last)'
        <5>1. CASE fresh
          <6>1. d.last = e.seq /\ Durable(e) /\ e.seq \in Nat
            <7>1. e.seq \in 1 .. MaxEvents
              BY <1>9, <5>1
            <7>2. e.seq \in Nat
              BY <7>1
            <7> QED
              BY <1>7, <1>11, <3>2, <5>1, <7>2
          <6>2. e.seq \in Numbers(queue[c])
            BY <1>5, <6>1 DEF Numbers, Durable
          <6>3. Brings(c, e.seq)
            BY <1>0, <6>2 DEF FeedInv
          <6>4. Brings(c, e.seq)'
            BY <3>7, <6>1, <6>3
          <6> QED
            BY <6>1, <6>4
        <5>2. CASE ~fresh
          <6>1. d.last = Id(c) /\ conn[c].last = Id(c) /\ got[c] # <<>>
            BY <1>1, <1>2, <1>10, <1>11, <3>2, <4>2, <5>2
          <6>2. Brings(c, Id(c))
            BY <1>0, <6>1 DEF FeedInv
          <6>3. Durable(e) => e.seq <= Id(c)
            <7>1. SUFFICES ASSUME Durable(e) PROVE e.seq <= Id(c)
              OBVIOUS
            <7>2. e.seq \in 1 .. Told
              BY <1>0, <1>5, <7>1 DEF QueueInv
            <7>3. ~(e.seq > Id(c))
              BY <1>7, <5>2, <6>1, <7>1
            <7> QED
              BY <1>2, <7>2, <7>3
          <6>4. Brings(c, Id(c))'
            <7>1. PICK m \in Nat : m = Id(c)
              BY <1>2
            <7>2. Id(c)' = m
              BY <1>11, <5>2, <7>1
            <7>3. Brings(c, m)'
              BY <3>7, <6>2, <6>3, <7>1
            <7> QED
              BY <7>2, <7>3
          <6> QED
            BY <3>2, <6>4
        <5> QED
          BY <5>1, <5>2
      <4> QED
        BY <3>4, <4>1, <4>2 DEF FeedInv
    <3>9. ConnInv(c)'
      BY <1>11, <1>12, <1>15, <3>2, <3>4 DEF ConnInv
    <3> QED
      BY <3>5, <3>6, <3>8, <3>9, ClientMoves
  <2> QED
    BY <2>1, <2>2
<1>17. ASSUME got'[c] # got[c]
       PROVE  \E i \in DOMAIN stored :
                /\ Receives(c, stored[i]) /\ i > Id(c)
                /\ got[c] # <<>> => (Id(c) + 1) .. (i - 1) \subseteq silent \cup lost[c]
  <2>1. fresh
    BY <1>10, <1>17
  <2>2. /\ e.seq \in DOMAIN stored /\ e = stored[e.seq] /\ e.seq > Id(c)
        /\ e.seq \in 1 .. Told /\ Durable(e)
    BY <1>7, <1>9, <2>1
  <2>3. Receives(c, stored[e.seq])
    BY <1>10, <2>1, <2>2 DEF Receives
  <2>4. ASSUME got[c] # <<>>, NEW n \in (Id(c) + 1) .. (e.seq - 1)
        PROVE  n \in silent \cup lost[c]
    <3>1. Brings(c, Id(c))
      BY <1>0, <1>1, <1>2, <2>4 DEF FeedInv
    <3>2. n \in Id(c) + 1 .. Told
      BY <1>0, <1>2, <2>2, <2>4 DEF Told
    <3>3. n \in Numbers(queue[c]) \cup silent \cup lost[c]
      BY <3>1, <3>2 DEF Brings
    <3>4. n < e.seq
      BY <1>2, <2>2, <2>4
    <3>5. ~(n \in Numbers(queue[c]))
      BY <1>13, <1>14, <2>2, <3>4
    <3> QED
      BY <3>3, <3>5
  <2> QED
    BY <2>2, <2>3, <2>4
<1> QED
  BY <1>16, <1>17

-----------------------------------------------------------------------------
(* The theorems *)

\* What a client receives in a step, if anything.
Fed(c) ==
  got'[c] # got[c] =>
    \E i \in DOMAIN stored :
      /\ Receives(c, stored[i]) /\ i > Id(c)
      /\ got[c] # <<>> => (Id(c) + 1) .. (i - 1) \subseteq silent \cup lost[c]

LEMMA ENext == EInv /\ [Next]_vars => EInv' /\ \A c \in Clients : Fed(c)
<1> SUFFICES ASSUME EInv, [Next]_vars PROVE EInv' /\ \A c \in Clients : Fed(c)
  OBVIOUS
<1>1. CASE Turn
  <2>1. EInv'
    BY <1>1, StartTurnKeeps, PublishKeeps, LandKeeps, SaveFailsKeeps, EmittedKeeps,
       EmitChunkKeeps, CancelTurnKeeps DEF Turn
  <2>2. got' = got
    BY <1>1 DEF Turn, StartTurn, Publish, Land, SaveFails, Emitted, EmitChunk, CancelTurn
  <2> QED
    BY <2>1, <2>2 DEF Fed
<1>2. ASSUME NEW c \in Clients, Connect(c) \/ Load(c) \/ List(c) \/ Replayed(c) \/ Drop(c)
      PROVE  EInv' /\ \A d \in Clients : Fed(d)
  <2>1. EInv'
    BY <1>2, ConnectKeeps, LoadKeeps, ListKeeps, ReplayedKeeps, DropKeeps
  <2>2. got' = got
    BY <1>2 DEF Connect, Load, List, Replayed, Drop
  <2> QED
    BY <2>1, <2>2 DEF Fed
<1>3. ASSUME NEW c \in Clients, SendReplay(c)
      PROVE  EInv' /\ \A d \in Clients : Fed(d)
  <2>1. EInv' /\ \E i \in DOMAIN stored : Receives(c, stored[i]) /\ i = Id(c) + 1
    BY <1>3, SendReplayKeeps
  <2>2. Id(c) \in Nat /\ got = [x \in Clients |-> got[x]]
    BY IdOf DEF EInv, ConnInv
  <2>3. Fed(c)
    <3>1. PICK i \in DOMAIN stored : Receives(c, stored[i]) /\ i = Id(c) + 1
      BY <2>1
    <3>2. i > Id(c) /\ (Id(c) + 1) .. (i - 1) = {}
      BY <2>2, <3>1
    <3> QED
      BY <3>1, <3>2 DEF Fed
  <2>4. \A d \in Clients \ {c} : got'[d] = got[d]
    BY <1>3, <2>2 DEF SendReplay
  <2> QED
    BY <2>1, <2>3, <2>4 DEF Fed
<1>4. ASSUME NEW c \in Clients, Poll(c)
      PROVE  EInv' /\ \A d \in Clients : Fed(d)
  <2>1. EInv' /\ Fed(c)
    BY <1>4, PollKeeps DEF Fed
  <2>2. got = [x \in Clients |-> got[x]]
    BY DEF EInv
  <2>3. \A d \in Clients \ {c} : got'[d] = got[d]
    BY <1>4, <2>2 DEF Poll
  <2> QED
    BY <2>1, <2>3 DEF Fed
<1>5. CASE Crash
  <2>1. got' = got
    BY <1>5 DEF Crash
  <2> QED
    BY <1>5, <2>1, CrashKeeps DEF Fed
<1>6. CASE UNCHANGED vars
  <2>1. UNCHANGED <<stored, mem, publish, turn, queue, conn, got, silent, lost>>
    BY <1>6 DEF vars, log, holes
  <2>2. EInv'
    <3>1. LogInv'
      BY <2>1 DEF EInv, LogInv, Numbered
    <3>2. Told' = Told /\ Len(stored) \in Nat
      BY <2>1, LogLength DEF Told, EInv, LogInv
    <3>3. Told \in Int
      BY <3>2 DEF Told
    <3> QED
      BY <2>1, <3>1, <3>2, <3>3, LogMoves
  <2> QED
    BY <2>1, <2>2 DEF Fed
<1> QED
  BY <1>1, <1>2, <1>3, <1>4, <1>5, <1>6 DEF Next, Connection

\* The log, the running turn and what every connection keeps in mind have their types,
\* for any clients, turns, failures and restarts: the queue of each subscriber stays
\* within MaxQueueSize, however many events are put into it.
THEOREM StreamTypes == Spec => []TypeOK
<1>1. EInv /\ [Next]_vars => EInv'
  BY ENext
<1> QED
  BY EInit, EType, <1>1, PTL DEF Spec

\* A client is sent what is stored, in the order of the log and never twice, and nothing
\* is left out but what was never emitted or what its own full queue gave up:
\* publish_durable_event saves before it emits, stream_events subscribes before it
\* reads, and the sequence check drops what the replay already sent.
THEOREM FeedHasNoGaps == Spec => GaplessFeed
<1>1. EInv /\ [Next]_vars => EInv'
  BY ENext
<1>2. EInv /\ [Next]_vars =>
        [\A c \in Clients : got'[c] # got[c] =>
           \E i \in DOMAIN stored :
             /\ Receives(c, stored[i]) /\ i > Id(c)
             /\ got[c] # <<>> => (Id(c) + 1) .. (i - 1) \subseteq silent \cup lost[c]]_vars
  BY ENext DEF Fed
<1> QED
  BY EInit, <1>1, <1>2, PTL DEF Spec, GaplessFeed

=============================================================================
