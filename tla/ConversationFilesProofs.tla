---------------------- MODULE ConversationFilesProofs ----------------------
(***************************************************************************)
(* Proofs about ConversationFiles, for any files, paths, calls and bounds. *)
(***************************************************************************)
EXTENDS ConversationFiles, FiniteSetTheorems, SequenceTheorems, NaturalsInduction,
        WellFoundedInduction, TLAPS

-----------------------------------------------------------------------------
(* Lists of files *)

\* In a finite set of numbers there is an n-th one.
LEMMA NthOf ==
  ASSUME NEW K \in SUBSET Nat, IsFiniteSet(K), NEW n \in 1 .. Cardinality(K)
  PROVE  \E i \in K : Cardinality({j \in K : j <= i}) = n
<1>1. Cardinality(K) \in Nat
  BY FS_CardinalityType
<1>2. \A i \in K : /\ IsFiniteSet({j \in K : j <= i})
                   /\ Cardinality({j \in K : j <= i}) \in 1 .. Cardinality(K)
  <2>1. TAKE i \in K
  <2>2. {j \in K : j <= i} \in SUBSET K /\ i \in {j \in K : j <= i}
    OBVIOUS
  <2>3. /\ IsFiniteSet({j \in K : j <= i})
        /\ Cardinality({j \in K : j <= i}) <= Cardinality(K)
    BY <2>2, FS_Subset
  <2>4. Cardinality({j \in K : j <= i}) \in Nat /\ Cardinality({j \in K : j <= i}) # 0
    BY <2>2, <2>3, FS_CardinalityType, FS_EmptySet
  <2>5. QED
    BY <1>1, <2>3, <2>4
<1>3. PICK f : f = [i \in K |-> Cardinality({j \in K : j <= i})]
  OBVIOUS
<1>4. f \in [K -> 1 .. Cardinality(K)]
  BY <1>2, <1>3
<1>5. \A h, i \in K : h < i => f[h] # f[i]
  <2>1. SUFFICES ASSUME NEW h \in K, NEW i \in K, h < i PROVE f[h] # f[i]
    OBVIOUS
  <2>2. /\ {j \in K : j <= h} \in SUBSET {j \in K : j <= i}
        /\ i \in {j \in K : j <= i} /\ i \notin {j \in K : j <= h}
    <3>1. h \in Nat /\ i \in Nat /\ \A j \in K : j \in Nat
      OBVIOUS
    <3>2. \A j \in K : j <= h => j <= i
      BY <2>1, <3>1
    <3>3. ~(i <= h) /\ i <= i
      BY <2>1, <3>1
    <3>4. QED
      BY <3>2, <3>3
  <2>3. Cardinality({j \in K : j <= i}) # Cardinality({j \in K : j <= h})
    BY <1>2, <2>2, FS_Subset
  <2>4. QED
    BY <1>3, <2>3
<1>6. \A h, i \in K : f[h] = f[i] => h = i
  BY <1>5
<1>7. f \in Injection(K, 1 .. Cardinality(K))
  BY <1>4, <1>6 DEF Injection, IsInjective
<1>8. IsFiniteSet(1 .. Cardinality(K)) /\ Cardinality(1 .. Cardinality(K)) = Cardinality(K)
  BY <1>1, FS_Interval
<1>9. f \in Surjection(K, 1 .. Cardinality(K))
  BY <1>7, <1>8, FS_Injection
<1>10. QED
  BY <1>3, <1>9 DEF Surjection

\* A list without k has the other elements of the list.
LEMMA DroppedIs ==
  ASSUME NEW S, NEW list \in Seq(S), NEW k
  PROVE  Dropped(list, k) \in Seq(S) /\ ToSet(Dropped(list, k)) = ToSet(list) \ {k}
<1>1. PICK K : K = {i \in DOMAIN list : list[i] # k}
  OBVIOUS
<1>2. PICK m \in Nat : m = Len(list) /\ DOMAIN list = 1 .. m
  OBVIOUS
<1>3. K \in SUBSET Nat /\ \A i \in K : i \in 1 .. m /\ list[i] \in S /\ list[i] # k
  BY <1>1, <1>2
<1>4. IsFiniteSet(1 .. m)
  BY FS_Interval
<1>5. IsFiniteSet(K)
  BY <1>1, <1>2, <1>4, FS_Subset
<1>6. PICK at : at = [n \in 1 .. Cardinality(K) |->
                        CHOOSE i \in K : Cardinality({j \in K : j <= i}) = n]
  OBVIOUS
<1>7. \A n \in 1 .. Cardinality(K) :
        at[n] \in K /\ Cardinality({j \in K : j <= at[n]}) = n
  BY <1>3, <1>5, <1>6, NthOf
<1>8. PICK d : d = [n \in 1 .. Cardinality(K) |-> list[at[n]]]
  OBVIOUS
<1>9. Dropped(list, k) = d
  BY <1>1, <1>6, <1>8 DEF Dropped
<1>10. Cardinality(K) \in Nat
  BY <1>5, FS_CardinalityType
<1>11. d \in [1 .. Cardinality(K) -> S]
  BY <1>3, <1>7, <1>8
<1>12. d \in Seq(S)
  BY <1>10, <1>11, SeqDef
<1>13. \A i \in K : Cardinality({j \in K : j <= i}) \in 1 .. Cardinality(K)
  <2>1. TAKE i \in K
  <2>2. {j \in K : j <= i} \in SUBSET K /\ i \in {j \in K : j <= i}
    BY <1>3
  <2>3. IsFiniteSet({j \in K : j <= i})
        /\ Cardinality({j \in K : j <= i}) <= Cardinality(K)
    BY <1>5, <2>2, FS_Subset
  <2>4. Cardinality({j \in K : j <= i}) \in Nat /\ Cardinality({j \in K : j <= i}) # 0
    BY <2>2, <2>3, FS_CardinalityType, FS_EmptySet
  <2>5. QED
    BY <1>10, <2>3, <2>4
<1>14. \A i \in K : at[Cardinality({j \in K : j <= i})] = i
  <2>1. TAKE i \in K
  <2>2. PICK n \in 1 .. Cardinality(K) : n = Cardinality({j \in K : j <= i})
    BY <1>13
  <2>3. at[n] \in K /\ Cardinality({j \in K : j <= at[n]}) = n
    BY <1>7
  <2>4. ASSUME NEW h \in K, NEW l \in K, h < l,
               Cardinality({j \in K : j <= h}) = Cardinality({j \in K : j <= l})
        PROVE  FALSE
    <3>1. /\ {j \in K : j <= h} \in SUBSET {j \in K : j <= l}
          /\ l \in {j \in K : j <= l} /\ l \notin {j \in K : j <= h}
      <4>1. h \in Nat /\ l \in Nat /\ \A j \in K : j \in Nat
        BY <1>3
      <4>2. \A j \in K : j <= h => j <= l
        BY <2>4, <4>1
      <4>3. ~(l <= h) /\ l <= l
        BY <2>4, <4>1
      <4>4. QED
        BY <4>2, <4>3
    <3>2. IsFiniteSet({j \in K : j <= l})
      BY <1>5, FS_Subset
    <3>3. QED
      BY <2>4, <3>1, <3>2, FS_Subset
  <2>5. ~(i < at[n]) /\ ~(at[n] < i)
    BY <2>2, <2>3, <2>4
  <2>6. i \in Nat /\ at[n] \in Nat
    BY <1>3, <2>3
  <2>7. at[n] = i
    BY <2>5, <2>6
  <2>8. QED
    BY <2>2, <2>7
<1>15. ToSet(d) \subseteq ToSet(list) \ {k}
  BY <1>2, <1>3, <1>7, <1>8 DEF ToSet
<1>16. \A x \in ToSet(list) \ {k} : x \in ToSet(d)
  <2>1. TAKE x \in ToSet(list) \ {k}
  <2>2. PICK i \in K : x = list[i]
    BY <1>1 DEF ToSet
  <2>3. PICK n \in 1 .. Cardinality(K) : n = Cardinality({j \in K : j <= i})
    BY <1>13
  <2>4. d[n] = x /\ n \in DOMAIN d
    BY <1>8, <1>14, <2>2, <2>3
  <2>5. QED
    BY <2>4 DEF ToSet
<1>17. QED
  BY <1>9, <1>12, <1>15, <1>16

-----------------------------------------------------------------------------
(* The work of a message *)

CallStages == {"idle", "unlinking", "unlinked", "opening", "writing", "removing", "scanning",
               "clearing", "worked", "raised", "waiting", "draining", "answered", "stray"}

Records == [call: Calls \cup {None}, stage: CallStages,
            answer: {"none", "ok", "error", "gone"},
            view: Seq(Keys), file: Nat, names: SUBSET Paths, shell: BOOLEAN, child: BOOLEAN]

\* What a stage says of the tool, and the names that rmtree has listed.
Fits(r) ==
  /\ r.stage \in {"unlinking", "unlinked"} => r.call \in Calls /\ r.call.tool = "delete"
  /\ r.stage \in {"opening", "writing"} => r.call \in Calls /\ r.call.tool = "upload"
  /\ r.stage \in {"removing", "scanning", "clearing"} =>
       r.call \in Calls /\ r.call.tool = "remove"
  /\ r.stage = "worked" => r.call \in Calls /\ r.call.tool \in {"upload", "remove"}
  /\ r.shell \/ r.child \/ r.stage \in {"waiting", "draining"} =>
       r.call \in Calls /\ r.call.tool = "bash"
  /\ r.stage = "writing" => r.file # 0
  /\ r.stage = "clearing" => \A q \in r.names : Len(q) = Len(r.call.path) + 1

RunOK ==
  /\ run \in [Runs -> Records] /\ \A i \in Runs : Fits(run[i])
  /\ todo \in Seq(Calls) /\ Len(todo) <= MaxBatch
  /\ turn \in {"off", "on", "tools", "saving"} /\ cancels \in 0 .. MaxCancels

LEMMA CallFields ==
  ASSUME NEW c \in Calls
  PROVE  /\ c.tool = "delete" => c.key \in Keys
         /\ c.tool \in {"list", "bash"} => c.path \in Paths \cup {<<>>}
         /\ c.tool \in {"folder", "remove"} => c.path \in Paths
         /\ c.tool = "upload" => c.path \in Paths /\ c.text \in Texts
BY DEF Calls

LEMMA IdleFits == Idle \in Records /\ Fits(Idle)
BY EmptySeq DEF Idle, Records, CallStages, Fits

LEMMA LiveInRuns == Live \subseteq Runs
BY DEF Runs

\* One record changes.
LEMMA SetOne ==
  ASSUME RunOK, NEW i \in Runs, NEW r \in Records, Fits(r),
         run' = [run EXCEPT ![i] = r],
         UNCHANGED <<turn, cancels>>, todo' \in Seq(Calls), Len(todo') <= MaxBatch
  PROVE  RunOK'
<1>1. run' \in [Runs -> Records]
  BY DEF RunOK
<1>2. \A j \in Runs : run'[j] = IF j = i THEN r ELSE run[j]
  BY DEF RunOK
<1>3. \A j \in Runs : Fits(run'[j])
  BY <1>2 DEF RunOK
<1>4. QED
  BY <1>1, <1>3 DEF RunOK

LEMMA DueIs ==
  ASSUME RunOK, NEW i, NEW tool, Due(i, tool)
  PROVE  /\ i \in Live /\ i \in Runs
         /\ Head(todo) \in Calls /\ Head(todo).tool = tool
         /\ Tail(todo) \in Seq(Calls) /\ Len(Tail(todo)) <= MaxBatch
<1>1. todo # <<>> /\ i = Len(todo) /\ Head(todo).tool = tool
  BY DEF Due
<1>2. Len(todo) \in 1 .. MaxBatch /\ Head(todo) \in Calls
  BY <1>1 DEF RunOK
<1>3. Tail(todo) \in Seq(Calls) /\ Len(Tail(todo)) = Len(todo) - 1
  BY <1>1 DEF RunOK
<1>4. QED
  BY <1>1, <1>2, <1>3, BatchAssumption, LiveInRuns DEF Live

LEMMA BeginsOK ==
  ASSUME RunOK, NEW i, NEW tool, Due(i, tool),
         NEW r \in Records, NEW s \in Records, s = [r EXCEPT !.call = Head(todo)], Fits(s),
         Begins(i, r)
  PROVE  RunOK' /\ run' = [run EXCEPT ![i] = s]
<1>1. run' = [run EXCEPT ![i] = s] /\ todo' = Tail(todo) /\ UNCHANGED <<turn, cancels>>
  BY DEF Begins
<1>2. QED
  BY <1>1, SetOne, DueIs

LEMMA StepsOK ==
  ASSUME RunOK, NEW i \in Runs, NEW r \in Records, Fits(r), Steps(i, r)
  PROVE  RunOK' /\ run' = [run EXCEPT ![i] = r]
<1>1. run' = [run EXCEPT ![i] = r] /\ UNCHANGED <<turn, todo, cancels>>
  BY DEF Steps
<1>2. QED
  BY <1>1, SetOne DEF RunOK

LEMMA LeavesOK ==
  ASSUME RunOK, NEW i \in Runs, NEW r \in Records, Fits(r), Leaves(i, r)
  PROVE  RunOK' /\ run' = [run EXCEPT ![i] = IF i \in Live THEN r ELSE Idle]
<1>1. run' = [run EXCEPT ![i] = IF i \in Live THEN r ELSE Idle]
      /\ UNCHANGED <<turn, todo, cancels>>
  BY DEF Leaves
<1>2. PICK s \in Records : s = (IF i \in Live THEN r ELSE Idle) /\ Fits(s)
  BY IdleFits
<1>3. QED
  BY <1>1, <1>2, SetOne DEF RunOK

\* A call that begins with an answer, or with a stage of its tool.
LEMMA AnswerOK ==
  ASSUME NEW a \in {"ok", "error", "gone"}, NEW c \in Calls
  PROVE  /\ Answer(a) \in Records /\ [Answer(a) EXCEPT !.call = c] \in Records
         /\ Fits([Answer(a) EXCEPT !.call = c])
         /\ [Answer(a) EXCEPT !.call = c].stage = "answered"
         /\ [Answer(a) EXCEPT !.call = c].answer = a
         /\ [Answer(a) EXCEPT !.call = c].call = c
         /\ ~[Answer(a) EXCEPT !.call = c].shell /\ ~[Answer(a) EXCEPT !.call = c].child
BY EmptySeq DEF Answer, Idle, Records, CallStages, Fits

-----------------------------------------------------------------------------
(* The workspace's tree *)

Nodes == [id: Nat, text: Contents \cup {Dir}]

\* Every entry is in a folder, and only a folder has entries.
TreeOK ==
  /\ DOMAIN tree \subseteq Paths /\ tree \in [DOMAIN tree -> Nodes]
  /\ \A p \in DOMAIN tree :
       /\ tree[p] = Folder \/ (tree[p].id # 0 /\ tree[p].text \in Contents)
       /\ Len(p) > 1 => Front(p) \in DOMAIN tree /\ tree[Front(p)] = Folder

SpaceOK == TreeOK /\ alone \in BOOLEAN /\ touches \in 0 .. MaxTouches

\* No entry is in p.
Bare(p) == \A q \in DOMAIN tree : Len(q) > 1 => Front(q) # p

LEMMA PathIs ==
  ASSUME NEW p \in Paths
  PROVE  /\ p \in Seq(STRING) /\ Len(p) \in {1, 2}
         /\ Len(p) > 1 => Front(p) \in Paths /\ Len(Front(p)) = 1 /\ Front(p) \in Above(p)
                          /\ Front(p) # p /\ IsPrefix(Front(p), p)
         /\ Len(p) = 1 => Front(p) = <<>>
<1>1. p \in Seq(STRING) /\ p # <<>> /\ Len(p) <= 2
  BY PathsAssumption
<1>2. Len(p) \in {1, 2}
  <2>1. Len(p) \in Nat \ {0}
    BY <1>1, EmptySeq
  <2>2. PICK n \in Nat \ {0} : n = Len(p)
    BY <2>1
  <2>3. n <= 2
    BY <1>1, <2>2
  <2>4. n \in {1, 2}
    BY <2>3
  <2>5. QED
    BY <2>2, <2>4
<1>3. ASSUME Len(p) = 2
      PROVE  Front(p) \in Paths /\ Len(Front(p)) = 1 /\ Front(p) \in Above(p)
             /\ Front(p) # p /\ IsPrefix(Front(p), p)
  <2>1. Front(p) \in Paths /\ Front(p) \in Seq(STRING)
    BY <1>3, PathsAssumption
  <2>2. Front(p) = SubSeq(p, 1, 1)
    BY <1>3 DEF Front
  <2>3. Len(Front(p)) = 1 /\ Front(p)[1] = p[1]
    BY <1>1, <1>3, <2>2
  <2>4. Len(SubSeq(Front(p), 1, 1)) = 1 /\ SubSeq(Front(p), 1, 1)[1] = p[1]
        /\ SubSeq(Front(p), 1, 1) \in Seq(STRING)
    <3>1. PICK f \in Seq(STRING) : f = Front(p)
      BY <2>1
    <3>2. Len(f) = 1 /\ f[1] = p[1]
      BY <2>3, <3>1
    <3>3. SubSeq(f, 1, 1) \in Seq(STRING) /\ Len(SubSeq(f, 1, 1)) = 1
          /\ SubSeq(f, 1, 1)[1] = f[1]
      BY <3>2
    <3>4. QED
      BY <3>1, <3>2, <3>3
  <2>5. SubSeq(Front(p), 1, 1) = Front(p)
    BY <2>1, <2>3, <2>4, SeqEqual
  <2>6. IsPrefix(Front(p), p)
    BY <1>3, <2>2, <2>3, <2>5 DEF IsPrefix
  <2>7. Front(p) # p
    BY <1>3, <2>3
  <2>8. QED
    BY <2>1, <2>3, <2>6, <2>7 DEF Above, IsStrictPrefix
<1>4. ASSUME Len(p) = 1 PROVE Front(p) = <<>>
  <2>1. Front(p) \in Seq(STRING) /\ Len(Front(p)) = 0
    BY <1>1, <1>4 DEF Front
  <2>2. QED
    BY <2>1
<1>5. QED
  BY <1>1, <1>2, <1>3, <1>4

LEMMA AboveIs ==
  ASSUME NEW p \in Paths \cup {<<>>}, NEW q \in Above(p)
  PROVE  q \in Paths /\ Len(q) = 1 /\ p \in Paths /\ q # p
<1>1. q \in Paths /\ IsPrefix(q, p) /\ q # p
  BY DEF Above, IsStrictPrefix
<1>2. q \in Seq(STRING) /\ Len(q) \in {1, 2} /\ Len(q) <= Len(p)
  BY <1>1, PathIs DEF IsPrefix
<1>3. p # <<>>
  BY <1>2
<1>4. p \in Seq(STRING) /\ Len(p) \in {1, 2}
  BY <1>3, PathIs
<1>5. ASSUME Len(q) = 2 PROVE FALSE
  <2>1. Len(p) = 2 /\ SubSeq(q, 1, 2) = SubSeq(p, 1, 2)
    BY <1>1, <1>2, <1>4, <1>5 DEF IsPrefix
  <2>2. q[1] = p[1] /\ q[2] = p[2]
    <3>1. /\ SubSeq(q, 1, 2)[1] = q[1] /\ SubSeq(q, 1, 2)[2] = q[2]
          /\ SubSeq(p, 1, 2)[1] = p[1] /\ SubSeq(p, 1, 2)[2] = p[2]
      BY <1>2, <1>4, <1>5, <2>1
    <3>2. QED
      BY <2>1, <3>1
  <2>3. q = p
    <3>1. \A i \in 1 .. Len(q) : q[i] = p[i]
      BY <1>5, <2>2
    <3>2. QED
      BY <1>2, <1>4, <1>5, <2>1, <3>1, SeqEqual
  <2>4. QED
    BY <1>1, <2>3
<1>6. QED
  BY <1>1, <1>2, <1>3, <1>5

\* With a folder at every path of P, which holds the folder of each of its own.
LEMMA MadeOK ==
  ASSUME TreeOK, NEW P \in SUBSET Paths,
         \A q \in P : Len(q) > 1 => Front(q) \in P,
         tree' = Made(P)
  PROVE  TreeOK'
<1>1. DOMAIN tree' = DOMAIN tree \cup P
  BY DEF Made
<1>2. \A q \in DOMAIN tree' : tree'[q] = IF q \in P THEN Folder ELSE tree[q]
  BY <1>1 DEF Made
<1>3. Folder \in Nodes
  BY DEF Folder, Node, Nodes
<1>4. tree' \in [DOMAIN tree' -> Nodes]
  BY <1>1, <1>2, <1>3 DEF Made, TreeOK
<1>5. \A q \in DOMAIN tree' :
        /\ tree'[q] = Folder \/ (tree'[q].id # 0 /\ tree'[q].text \in Contents)
        /\ Len(q) > 1 => Front(q) \in DOMAIN tree' /\ tree'[Front(q)] = Folder
  BY <1>1, <1>2 DEF TreeOK
<1>6. DOMAIN tree' \subseteq Paths
  BY <1>1 DEF TreeOK
<1>7. QED
  BY <1>4, <1>5, <1>6 DEF TreeOK

LEMMA PlacedOK ==
  ASSUME TreeOK, NEW p \in Paths, IsFolder(Front(p)), ~IsFolder(p),
         NEW id \in Nat \ {0}, NEW x \in Contents, tree' = With(tree, p, Node(id, x))
  PROVE  TreeOK'
<1>1. DOMAIN tree' = DOMAIN tree \cup {p}
  BY DEF With
<1>2. \A q \in DOMAIN tree' : tree'[q] = IF q = p THEN Node(id, x) ELSE tree[q]
  BY <1>1 DEF With
<1>3. /\ Node(id, x) \in Nodes /\ Node(id, x).id = id /\ Node(id, x).text = x
      /\ Node(id, x) # Folder
  BY DEF Folder, Node, Nodes
<1>4. tree' \in [DOMAIN tree' -> Nodes]
  BY <1>1, <1>2, <1>3 DEF With, TreeOK
<1>5. \A q \in DOMAIN tree : Len(q) > 1 => Front(q) # p
  BY DEF TreeOK, IsFolder
<1>6. Len(p) > 1 => Front(p) \in DOMAIN tree /\ tree[Front(p)] = Folder /\ Front(p) # p
  <2>1. Len(p) > 1 => Front(p) # <<>>
    BY PathIs, PathsAssumption
  <2>2. QED
    BY <2>1, PathIs DEF IsFolder
<1>7. \A q \in DOMAIN tree' :
        /\ tree'[q] = Folder \/ (tree'[q].id # 0 /\ tree'[q].text \in Contents)
        /\ Len(q) > 1 => Front(q) \in DOMAIN tree' /\ tree'[Front(q)] = Folder
  BY <1>1, <1>2, <1>3, <1>5, <1>6 DEF TreeOK
<1>8. DOMAIN tree' \subseteq Paths
  BY <1>1 DEF TreeOK
<1>9. QED
  BY <1>4, <1>7, <1>8 DEF TreeOK

LEMMA RemovedOK ==
  ASSUME TreeOK, NEW p, Bare(p), tree' = Without(tree, {p})
  PROVE  TreeOK'
<1>1. DOMAIN tree' = DOMAIN tree \ {p}
  BY DEF Without
<1>2. \A q \in DOMAIN tree' : tree'[q] = tree[q]
  BY <1>1 DEF Without
<1>3. tree' \in [DOMAIN tree' -> Nodes]
  BY <1>1, <1>2 DEF Without, TreeOK
<1>4. QED
  BY <1>1, <1>2, <1>3 DEF TreeOK, Bare

\* A file, an empty folder and a folder's folder have no entries.
LEMMA FileIsBare ==
  ASSUME TreeOK, NEW p, IsFile(p)
  PROVE  Bare(p)
BY DEF TreeOK, Bare, IsFile

LEMMA EmptyIsBare ==
  ASSUME TreeOK, NEW p, Children(p) = {}
  PROVE  Bare(p)
<1>1. SUFFICES ASSUME NEW q \in DOMAIN tree, Len(q) > 1, Front(q) = p PROVE FALSE
  BY DEF Bare
<1>2. q \in Paths /\ Len(q) = 2 /\ Len(p) = 1 /\ IsPrefix(p, q)
  BY <1>1, PathIs DEF TreeOK
<1>3. q \in Children(p)
  BY <1>1, <1>2 DEF Children
<1>4. QED
  BY <1>3

LEMMA DeepIsBare ==
  ASSUME TreeOK, NEW p, Len(p) = 2
  PROVE  Bare(p)
<1>1. SUFFICES ASSUME NEW q \in DOMAIN tree, Len(q) > 1, Front(q) = p PROVE FALSE
  BY DEF Bare
<1>2. q \in Paths /\ Len(p) = 1
  BY <1>1, PathIs DEF TreeOK
<1>3. QED
  BY <1>2

-----------------------------------------------------------------------------
(* File numbers: there is always one that no entry and no open file has. *)

LEMMA ImageOf ==
  ASSUME NEW S, IsFiniteSet(S), NEW f
  PROVE  IsFiniteSet({f[x] : x \in S}) /\ Cardinality({f[x] : x \in S}) <= Cardinality(S)
<1>1. PICK g : g = [x \in S |-> f[x]]
  OBVIOUS
<1>2. PICK T : T = {f[x] : x \in S}
  OBVIOUS
<1>3. g \in [S -> T] /\ \A t \in T : \E x \in S : g[x] = t
  BY <1>1, <1>2
<1>4. g \in Surjection(S, T)
  BY <1>3 DEF Surjection
<1>5. QED
  BY <1>2, <1>4, FS_Surjection

LEMMA RunsFinite == IsFiniteSet(Runs)
<1>1. MaxBatch \in Nat /\ MaxBatch * (MaxCancels + MaxCrashes + 1) \in Nat
  BY BatchAssumption
<1>2. IsFiniteSet(Live) /\ IsFiniteSet(Left)
  <2>1. PICK n \in Nat : n = MaxBatch * (MaxCancels + MaxCrashes + 1)
    BY <1>1
  <2>2. IsFiniteSet(1 .. MaxBatch) /\ IsFiniteSet((MaxBatch + 1) .. n)
    BY <1>1, FS_Interval
  <2>3. QED
    BY <2>1, <2>2 DEF Live, Left
<1>3. QED
  BY <1>2, FS_Union DEF Runs

LEMMA FreshIs ==
  ASSUME RunOK, TreeOK
  PROVE  /\ FreshId \in Nat \ {0}
         /\ \A j \in Runs : run[j].file # FreshId
         /\ \A p \in DOMAIN tree : tree[p].id # FreshId
<1>1. PICK f : f = [j \in Runs |-> run[j].file]
  OBVIOUS
<1>2. PICK g : g = [p \in DOMAIN tree |-> tree[p].id]
  OBVIOUS
<1>3. PICK A : A = {f[j] : j \in Runs}
  OBVIOUS
<1>4. PICK B : B = {g[p] : p \in DOMAIN tree}
  OBVIOUS
<1>5. IsFiniteSet(A) /\ Cardinality(A) <= Cardinality(Runs)
  BY <1>3, RunsFinite, ImageOf
<1>6. IsFiniteSet(DOMAIN tree) /\ Cardinality(DOMAIN tree) <= Cardinality(Paths)
  BY PathsAssumption, FS_Subset DEF TreeOK
<1>7. IsFiniteSet(B) /\ Cardinality(B) <= Cardinality(DOMAIN tree)
  BY <1>4, <1>6, ImageOf
<1>8. /\ Cardinality(Runs) \in Nat /\ Cardinality(Paths) \in Nat
      /\ Cardinality(A) \in Nat /\ Cardinality(B) \in Nat /\ Cardinality(DOMAIN tree) \in Nat
  BY <1>5, <1>6, <1>7, RunsFinite, PathsAssumption, FS_CardinalityType
<1>9. PICK n \in Nat : n = Cardinality(Runs) + Cardinality(Paths) + 1
  BY <1>8
<1>10. IsFiniteSet(A \cup B) /\ Cardinality(A \cup B) < n
  <2>1. /\ IsFiniteSet(A \cup B)
        /\ Cardinality(A \cup B) = Cardinality(A) + Cardinality(B) - Cardinality(A \cap B)
    BY <1>5, <1>7, FS_Union
  <2>2. IsFiniteSet(A \cap B) /\ Cardinality(A \cap B) \in Nat
    BY <1>5, FS_Intersection, FS_CardinalityType
  <2>3. QED
    BY <1>5, <1>6, <1>7, <1>8, <1>9, <2>1, <2>2
<1>11. IsFiniteSet(1 .. n) /\ Cardinality(1 .. n) = n
  BY FS_Interval
<1>12. ~(1 .. n \subseteq A \cup B)
  <2>1. SUFFICES ASSUME 1 .. n \in SUBSET (A \cup B) PROVE FALSE
    OBVIOUS
  <2>2. Cardinality(1 .. n) <= Cardinality(A \cup B)
    BY <1>10, <2>1, FS_Subset
  <2>3. Cardinality(A \cup B) \in Nat
    BY <1>10, FS_CardinalityType
  <2>4. QED
    BY <1>10, <1>11, <2>2, <2>3
<1>13. A = Opened
  BY <1>1, <1>3 DEF Opened
<1>14. B = {tree[p].id : p \in DOMAIN tree}
  BY <1>2, <1>4
<1>15. FreshId = CHOOSE m \in 1 .. n : m \notin A \cup B
  BY <1>9, <1>13, <1>14 DEF FreshId
<1>16. FreshId \in 1 .. n /\ FreshId \notin A \cup B
  BY <1>12, <1>15
<1>17. QED
  BY <1>1, <1>2, <1>3, <1>4, <1>16

-----------------------------------------------------------------------------
(* The steps of a workspace call *)

LEMMA MakingOK ==
  ASSUME RunOK, SpaceOK, NEW i, NEW tool, Due(i, tool),
         NEW P \in SUBSET Paths, \A q \in P : Len(q) > 1 => Front(q) \in P,
         NEW r \in Records, NEW s \in Records, s = [r EXCEPT !.call = Head(todo)], Fits(s),
         Making(i, P, r)
  PROVE  RunOK' /\ SpaceOK'
<1>1. CASE CanMake(P)
  <2>1. tree' = Made(P) /\ Begins(i, r) /\ UNCHANGED <<alone, touches>>
    BY <1>1 DEF Making
  <2>2. RunOK'
    BY <2>1, BeginsOK
  <2>3. TreeOK'
    BY <2>1, MadeOK DEF SpaceOK
  <2>4. QED
    BY <2>1, <2>2, <2>3 DEF SpaceOK
<1>2. CASE ~CanMake(P)
  <2>1. tree' = tree /\ Begins(i, Answer("error")) /\ UNCHANGED <<alone, touches>>
    BY <1>2 DEF Making
  <2>2. Head(todo) \in Calls
    BY DueIs
  <2>3. /\ Answer("error") \in Records
        /\ [Answer("error") EXCEPT !.call = Head(todo)] \in Records
        /\ Fits([Answer("error") EXCEPT !.call = Head(todo)])
    BY <2>2, AnswerOK
  <2>4. RunOK'
    BY <2>1, <2>3, BeginsOK
  <2>5. QED
    BY <2>1, <2>4 DEF SpaceOK, TreeOK
<1>3. QED
  BY <1>1, <1>2

\* The folders above a path, with or without it.
LEMMA FoldersOf ==
  ASSUME NEW p \in Paths \cup {<<>>}
  PROVE  /\ Above(p) \in SUBSET Paths /\ \A q \in Above(p) : ~(Len(q) > 1)
         /\ ({p} \cup Above(p)) \ {<<>>} \in SUBSET Paths
         /\ \A q \in ({p} \cup Above(p)) \ {<<>>} :
              Len(q) > 1 => Front(q) \in ({p} \cup Above(p)) \ {<<>>}
         /\ p \in Paths => /\ {p} \cup Above(p) \in SUBSET Paths
                           /\ \A q \in {p} \cup Above(p) :
                                Len(q) > 1 => Front(q) \in {p} \cup Above(p)
<1>1. \A q \in Above(p) : q \in Paths /\ ~(Len(q) > 1)
  BY AboveIs
<1>2. p \in Paths /\ Len(p) > 1 => Front(p) \in Above(p) /\ Front(p) # <<>>
  BY PathIs, PathsAssumption
<1>3. <<>> \notin Paths /\ ~(Len(<<>>) > 1)
  BY PathsAssumption
<1>4. QED
  BY <1>1, <1>2, <1>3

LEMMA BeginListStep ==
  ASSUME RunOK, SpaceOK, NEW i, BeginList(i)
  PROVE  RunOK' /\ SpaceOK'
<1>1. Due(i, "list") /\ Head(todo) \in Calls /\ Head(todo).tool = "list"
  BY DueIs DEF BeginList
<1>2. Head(todo).path \in Paths \cup {<<>>}
  BY <1>1, CallFields
<1>3. PICK p : p = Head(todo).path
  OBVIOUS
<1>4. PICK a \in {"ok", "error"} : Making(i, ({p} \cup Above(p)) \ {<<>>}, Answer(a))
  BY <1>3 DEF BeginList
<1>5. /\ Answer(a) \in Records /\ [Answer(a) EXCEPT !.call = Head(todo)] \in Records
      /\ Fits([Answer(a) EXCEPT !.call = Head(todo)])
  BY <1>1, AnswerOK
<1>6. PICK P : P = ({p} \cup Above(p)) \ {<<>>}
  OBVIOUS
<1>7. P \in SUBSET Paths /\ \A q \in P : Len(q) > 1 => Front(q) \in P
  BY <1>2, <1>3, <1>6, FoldersOf
<1>8. QED
  BY <1>1, <1>4, <1>5, <1>6, <1>7, MakingOK

LEMMA BeginFolderStep ==
  ASSUME RunOK, SpaceOK, NEW i, BeginFolder(i)
  PROVE  RunOK' /\ SpaceOK'
<1>1. Due(i, "folder") /\ Head(todo) \in Calls /\ Head(todo).tool = "folder"
  BY DueIs DEF BeginFolder
<1>2. PICK p \in Paths : p = Head(todo).path
  BY <1>1, CallFields
<1>3. Making(i, {p} \cup Above(p), Answer("ok"))
  BY <1>2 DEF BeginFolder
<1>4. /\ Answer("ok") \in Records /\ [Answer("ok") EXCEPT !.call = Head(todo)] \in Records
      /\ Fits([Answer("ok") EXCEPT !.call = Head(todo)])
  BY <1>1, AnswerOK
<1>5. PICK P : P = {p} \cup Above(p)
  OBVIOUS
<1>6. P \in SUBSET Paths /\ \A q \in P : Len(q) > 1 => Front(q) \in P
  BY <1>5, FoldersOf
<1>7. QED
  BY <1>1, <1>3, <1>4, <1>5, <1>6, MakingOK

\* How the calls of each tool begin: s is r with its call.
LEMMA DeleteBegins ==
  ASSUME NEW c \in Calls, c.tool = "delete", NEW v \in Seq(Keys),
         NEW r, r = [Idle EXCEPT !.stage = "unlinking", !.view = v],
         NEW s, s = [r EXCEPT !.call = c]
  PROVE  /\ r \in Records /\ s \in Records /\ Fits(s)
         /\ s.stage = "unlinking" /\ s.view = v /\ s.call = c /\ ~s.shell /\ ~s.child
BY DEF Idle, Records, CallStages, Fits

LEMMA UploadBegins ==
  ASSUME NEW c \in Calls, c.tool = "upload",
         NEW r, r = [Idle EXCEPT !.stage = "opening"], NEW s, s = [r EXCEPT !.call = c]
  PROVE  /\ r \in Records /\ s \in Records /\ Fits(s)
         /\ s.stage = "opening" /\ s.call = c /\ ~s.shell /\ ~s.child
BY EmptySeq DEF Idle, Records, CallStages, Fits

LEMMA RemoveBegins ==
  ASSUME NEW c \in Calls, c.tool = "remove", NEW stage \in {"removing", "scanning"},
         NEW r, r = [Idle EXCEPT !.stage = stage], NEW s, s = [r EXCEPT !.call = c]
  PROVE  /\ r \in Records /\ s \in Records /\ Fits(s)
         /\ s.stage = stage /\ s.call = c /\ ~s.shell /\ ~s.child
BY EmptySeq DEF Idle, Records, CallStages, Fits

LEMMA BashBegins ==
  ASSUME NEW c \in Calls, c.tool = "bash",
         NEW r, r = [Idle EXCEPT !.stage = "waiting", !.shell = TRUE],
         NEW s, s = [r EXCEPT !.call = c]
  PROVE  /\ r \in Records /\ s \in Records /\ Fits(s)
         /\ s.stage = "waiting" /\ s.call = c /\ s.shell
BY EmptySeq DEF Idle, Records, CallStages, Fits

LEMMA BeginUploadStep ==
  ASSUME RunOK, SpaceOK, NEW i, BeginUpload(i)
  PROVE  RunOK' /\ SpaceOK'
<1>1. Due(i, "upload") /\ Head(todo) \in Calls /\ Head(todo).tool = "upload"
  BY DueIs DEF BeginUpload
<1>2. PICK p \in Paths : p = Head(todo).path
  BY <1>1, CallFields
<1>3. PICK r : r = [Idle EXCEPT !.stage = "opening"]
  OBVIOUS
<1>4. PICK s : s = [r EXCEPT !.call = Head(todo)]
  OBVIOUS
<1>5. r \in Records /\ s \in Records /\ Fits(s)
  BY <1>1, <1>3, <1>4, UploadBegins
<1>6. Above(p) \in SUBSET Paths /\ \A q \in Above(p) : Len(q) > 1 => Front(q) \in Above(p)
  BY FoldersOf
<1>7. Making(i, Above(p), r)
  BY <1>2, <1>3 DEF BeginUpload
<1>8. QED
  BY <1>1, <1>4, <1>5, <1>6, <1>7, MakingOK

LEMMA BeginCommandStep ==
  ASSUME RunOK, SpaceOK, NEW i, BeginCommand(i)
  PROVE  RunOK' /\ SpaceOK'
<1>1. Due(i, "bash") /\ Head(todo) \in Calls /\ Head(todo).tool = "bash"
  BY DueIs DEF BeginCommand
<1>2. PICK p \in Paths \cup {<<>>} : p = Head(todo).path
  BY <1>1, CallFields
<1>3. PICK r : r = [Idle EXCEPT !.stage = "waiting", !.shell = TRUE]
  OBVIOUS
<1>4. PICK s : s = [r EXCEPT !.call = Head(todo)]
  OBVIOUS
<1>5. r \in Records /\ s \in Records /\ Fits(s)
  BY <1>1, <1>3, <1>4, BashBegins
<1>6. PICK P : P = ({p} \cup Above(p)) \ {<<>>}
  OBVIOUS
<1>7. P \in SUBSET Paths /\ \A q \in P : Len(q) > 1 => Front(q) \in P
  BY <1>6, FoldersOf
<1>8. Making(i, P, r)
  BY <1>2, <1>3, <1>6 DEF BeginCommand
<1>9. QED
  BY <1>1, <1>4, <1>5, <1>7, <1>8, MakingOK

LEMMA OpenFileStep ==
  ASSUME RunOK, SpaceOK, NEW i \in Runs, OpenFile(i)
  PROVE  RunOK' /\ SpaceOK'
<1>1. PICK r \in Records : r = run[i] /\ Fits(r) /\ r.stage = "opening"
  BY DEF RunOK, OpenFile, At
<1>2. PICK p \in Paths : p = r.call.path /\ r.call \in Calls /\ r.call.tool = "upload"
  BY <1>1, CallFields DEF Fits
<1>3. PICK id : id = IF IsFile(p) THEN tree[p].id ELSE FreshId
  OBVIOUS
<1>4. id \in Nat \ {0}
  BY <1>3, FreshIs DEF IsFile, SpaceOK, TreeOK, Nodes
<1>5. UNCHANGED <<alone, touches>>
  BY DEF OpenFile
<1>6. CASE IsFolder(Front(p)) /\ ~IsFolder(p)
  <2>1. /\ tree' = With(tree, p, Node(id, Part))
        /\ Steps(i, [r EXCEPT !.stage = "writing", !.file = id])
    BY <1>1, <1>2, <1>3, <1>6 DEF OpenFile
  <2>2. TreeOK'
    BY <1>4, <1>6, <2>1, PlacedOK DEF SpaceOK, Contents
  <2>3. PICK s : s = [r EXCEPT !.stage = "writing", !.file = id]
    OBVIOUS
  <2>4. s \in Records /\ Fits(s)
    BY <1>1, <1>4, <2>3 DEF Records, CallStages, Fits
  <2>5. RunOK'
    BY <2>1, <2>3, <2>4, StepsOK
  <2>6. QED
    BY <1>5, <2>2, <2>5 DEF SpaceOK
<1>7. CASE ~(IsFolder(Front(p)) /\ ~IsFolder(p))
  <2>1. Leaves(i, [r EXCEPT !.stage = "raised"]) /\ tree' = tree
    BY <1>1, <1>2, <1>3, <1>7 DEF OpenFile
  <2>2. PICK s : s = [r EXCEPT !.stage = "raised"]
    OBVIOUS
  <2>3. s \in Records /\ Fits(s)
    BY <1>1, <1>2, <2>2 DEF Records, CallStages, Fits
  <2>4. RunOK'
    BY <2>1, <2>2, <2>3, LeavesOK
  <2>5. QED
    BY <1>5, <2>1, <2>4 DEF SpaceOK, TreeOK
<1>8. QED
  BY <1>6, <1>7

LEMMA WriteFileStep ==
  ASSUME RunOK, SpaceOK, NEW i \in Runs, WriteFile(i)
  PROVE  RunOK' /\ SpaceOK'
<1>1. PICK r \in Records : r = run[i] /\ Fits(r) /\ r.stage = "writing"
  BY DEF RunOK, WriteFile, At
<1>2. PICK p \in Paths : /\ p = r.call.path /\ r.call \in Calls /\ r.call.tool = "upload"
                         /\ r.call.text \in Texts
  BY <1>1, CallFields DEF Fits
<1>3. PICK x \in Contents :
        tree' = IF p \in DOMAIN tree /\ tree[p].id = r.file
                THEN With(tree, p, Node(r.file, x)) ELSE tree
  BY <1>1, <1>2 DEF WriteFile, Contents
<1>4. UNCHANGED <<alone, touches>> /\ Leaves(i, [r EXCEPT !.stage = "worked", !.file = 0])
  BY <1>1 DEF WriteFile
<1>5. PICK s : s = [r EXCEPT !.stage = "worked", !.file = 0]
  OBVIOUS
<1>6. s \in Records /\ Fits(s)
  BY <1>1, <1>2, <1>5 DEF Records, CallStages, Fits
<1>7. RunOK'
  BY <1>4, <1>5, <1>6, LeavesOK
<1>8. TreeOK'
  <2>1. CASE p \in DOMAIN tree /\ tree[p].id = r.file
    <3>1. tree' = With(tree, p, Node(r.file, x))
      BY <1>3, <2>1
    <3>2. tree[p] \in Nodes /\ r.file \in Nat
      BY <2>1 DEF SpaceOK, TreeOK, Records
    <3>3. r.file \in Nat \ {0} /\ tree[p] # Folder
      BY <1>1, <2>1, <3>2 DEF Fits, Folder, Node
    <3>4. ~IsFolder(p)
      BY <3>3, PathsAssumption DEF IsFolder
    <3>5. IsFolder(Front(p))
      BY <2>1, PathIs DEF IsFolder, SpaceOK, TreeOK
    <3>6. QED
      BY <3>1, <3>3, <3>4, <3>5, PlacedOK DEF SpaceOK
  <2>2. CASE ~(p \in DOMAIN tree /\ tree[p].id = r.file)
    BY <1>3, <2>2 DEF SpaceOK, TreeOK
  <2>3. QED
    BY <2>1, <2>2
<1>9. QED
  BY <1>4, <1>7, <1>8 DEF SpaceOK

LEMMA BeginRemoveStep ==
  ASSUME RunOK, SpaceOK, NEW i, BeginRemove(i)
  PROVE  RunOK' /\ SpaceOK'
<1>1. Due(i, "remove") /\ Head(todo) \in Calls /\ Head(todo).tool = "remove"
  BY DueIs DEF BeginRemove
<1>2. UNCHANGED space
  BY DEF BeginRemove
<1>3. CASE Begins(i, Answer("gone"))
  <2>1. /\ Answer("gone") \in Records /\ [Answer("gone") EXCEPT !.call = Head(todo)] \in Records
        /\ Fits([Answer("gone") EXCEPT !.call = Head(todo)])
    BY <1>1, AnswerOK
  <2>2. RunOK'
    BY <1>1, <1>3, <2>1, BeginsOK
  <2>3. QED
    BY <1>2, <2>2 DEF SpaceOK, TreeOK, space
<1>4. ASSUME NEW stage \in {"removing", "scanning"}, Begins(i, [Idle EXCEPT !.stage = stage])
      PROVE  RunOK' /\ SpaceOK'
  <2>1. PICK r : r = [Idle EXCEPT !.stage = stage]
    OBVIOUS
  <2>2. PICK s : s = [r EXCEPT !.call = Head(todo)]
    OBVIOUS
  <2>3. r \in Records /\ s \in Records /\ Fits(s)
    BY <1>1, <2>1, <2>2, RemoveBegins
  <2>4. Begins(i, r)
    BY <1>4, <2>1
  <2>5. RunOK'
    BY <1>1, <2>2, <2>3, <2>4, BeginsOK
  <2>6. QED
    BY <1>2, <2>5 DEF SpaceOK, TreeOK, space
<1>5. QED
  BY <1>3, <1>4 DEF BeginRemove

LEMMA RemoveFileStep ==
  ASSUME RunOK, SpaceOK, NEW i \in Runs, RemoveFile(i)
  PROVE  RunOK' /\ SpaceOK'
<1>1. PICK r \in Records : r = run[i] /\ Fits(r) /\ r.stage = "removing"
  BY DEF RunOK, RemoveFile, At
<1>2. PICK p \in Paths : p = r.call.path /\ r.call \in Calls /\ r.call.tool = "remove"
  BY <1>1, CallFields DEF Fits
<1>3. UNCHANGED <<alone, touches>>
  BY DEF RemoveFile
<1>4. ASSUME NEW stage \in {"worked", "raised"}, Leaves(i, [r EXCEPT !.stage = stage])
      PROVE  RunOK'
  <2>1. PICK s : s = [r EXCEPT !.stage = stage]
    OBVIOUS
  <2>2. s \in Records /\ Fits(s)
    BY <1>1, <1>2, <2>1 DEF Records, CallStages, Fits
  <2>3. QED
    BY <1>4, <2>1, <2>2, LeavesOK
<1>5. CASE IsFile(p)
  <2>1. tree' = Without(tree, {p}) /\ Leaves(i, [r EXCEPT !.stage = "worked"])
    BY <1>1, <1>2, <1>5 DEF RemoveFile
  <2>2. TreeOK'
    BY <1>5, <2>1, FileIsBare, RemovedOK DEF SpaceOK
  <2>3. QED
    BY <1>3, <1>4, <2>1, <2>2 DEF SpaceOK
<1>6. CASE ~IsFile(p)
  <2>1. tree' = tree /\ Leaves(i, [r EXCEPT !.stage = "raised"])
    BY <1>1, <1>2, <1>6 DEF RemoveFile
  <2>2. QED
    BY <1>3, <1>4, <2>1 DEF SpaceOK, TreeOK
<1>7. QED
  BY <1>5, <1>6

LEMMA ScanStep ==
  ASSUME RunOK, SpaceOK, NEW i \in Runs, Scan(i)
  PROVE  RunOK' /\ SpaceOK'
<1>1. PICK r \in Records : r = run[i] /\ Fits(r) /\ r.stage = "scanning"
  BY DEF RunOK, Scan, At
<1>2. r.call \in Calls /\ r.call.tool = "remove"
  BY <1>1 DEF Fits
<1>3. PICK names : names = Children(r.call.path)
  OBVIOUS
<1>4. names \in SUBSET Paths /\ \A q \in names : Len(q) = Len(r.call.path) + 1
  BY <1>3 DEF Children, SpaceOK, TreeOK
<1>5. Steps(i, [r EXCEPT !.stage = "clearing", !.names = names]) /\ UNCHANGED space
  BY <1>1, <1>3 DEF Scan
<1>6. PICK s : s = [r EXCEPT !.stage = "clearing", !.names = names]
  OBVIOUS
<1>7. s \in Records /\ Fits(s)
  BY <1>1, <1>2, <1>4, <1>6 DEF Records, CallStages, Fits
<1>8. RunOK'
  BY <1>5, <1>6, <1>7, StepsOK
<1>9. QED
  BY <1>5, <1>8 DEF SpaceOK, TreeOK, space

LEMMA ClearStep ==
  ASSUME RunOK, SpaceOK, NEW i \in Runs, Clear(i)
  PROVE  RunOK' /\ SpaceOK'
<1>1. PICK r \in Records : r = run[i] /\ Fits(r) /\ r.stage = "clearing"
  BY DEF RunOK, Clear, At
<1>2. PICK p \in Paths : p = r.call.path /\ r.call \in Calls /\ r.call.tool = "remove"
  BY <1>1, CallFields DEF Fits
<1>3. UNCHANGED <<alone, touches>>
  BY DEF Clear
<1>4. PICK q \in r.names :
        IF q \in DOMAIN tree
        THEN /\ tree' = Without(tree, {q})
             /\ Steps(i, [r EXCEPT !.names = r.names \ {q}])
        ELSE Leaves(i, [r EXCEPT !.stage = "raised", !.names = {}]) /\ UNCHANGED tree
  BY <1>1 DEF Clear
<1>5. CASE q \in DOMAIN tree
  <2>1. tree' = Without(tree, {q}) /\ Steps(i, [r EXCEPT !.names = r.names \ {q}])
    BY <1>4, <1>5
  <2>2. Len(q) = 2
    <3>1. Len(q) = Len(p) + 1 /\ q \in Paths
      BY <1>1, <1>2, <1>4 DEF Fits, Records
    <3>2. PICK n \in {1, 2}, m \in {1, 2} : n = Len(p) /\ m = Len(q)
      BY <3>1, PathIs
    <3>3. m = n + 1 => m = 2
      OBVIOUS
    <3>4. QED
      BY <3>1, <3>2, <3>3
  <2>3. TreeOK'
    BY <2>1, <2>2, DeepIsBare, RemovedOK DEF SpaceOK
  <2>4. PICK s : s = [r EXCEPT !.names = r.names \ {q}]
    OBVIOUS
  <2>5. s \in Records /\ Fits(s)
    BY <1>1, <1>2, <2>4 DEF Records, CallStages, Fits
  <2>6. RunOK'
    BY <2>1, <2>4, <2>5, StepsOK
  <2>7. QED
    BY <1>3, <2>3, <2>6 DEF SpaceOK
<1>6. CASE q \notin DOMAIN tree
  <2>1. Leaves(i, [r EXCEPT !.stage = "raised", !.names = {}]) /\ tree' = tree
    BY <1>4, <1>6
  <2>2. PICK s : s = [r EXCEPT !.stage = "raised", !.names = {}]
    OBVIOUS
  <2>3. s \in Records /\ Fits(s)
    BY <1>1, <1>2, <2>2 DEF Records, CallStages, Fits
  <2>4. RunOK'
    BY <2>1, <2>2, <2>3, LeavesOK
  <2>5. QED
    BY <1>3, <2>1, <2>4 DEF SpaceOK, TreeOK
<1>7. QED
  BY <1>5, <1>6

LEMMA RemoveFolderStep ==
  ASSUME RunOK, SpaceOK, NEW i \in Runs, RemoveFolder(i)
  PROVE  RunOK' /\ SpaceOK'
<1>1. PICK r \in Records : r = run[i] /\ Fits(r) /\ r.stage = "clearing"
  BY DEF RunOK, RemoveFolder, At
<1>2. PICK p \in Paths : p = r.call.path /\ r.call \in Calls /\ r.call.tool = "remove"
  BY <1>1, CallFields DEF Fits
<1>3. UNCHANGED <<alone, touches>>
  BY DEF RemoveFolder
<1>4. ASSUME NEW stage \in {"worked", "raised"}, Leaves(i, [r EXCEPT !.stage = stage])
      PROVE  RunOK'
  <2>1. PICK s : s = [r EXCEPT !.stage = stage]
    OBVIOUS
  <2>2. s \in Records /\ Fits(s)
    BY <1>1, <1>2, <2>1 DEF Records, CallStages, Fits
  <2>3. QED
    BY <1>4, <2>1, <2>2, LeavesOK
<1>5. CASE p \in DOMAIN tree /\ IsFolder(p) /\ Children(p) = {}
  <2>1. tree' = Without(tree, {p}) /\ Leaves(i, [r EXCEPT !.stage = "worked"])
    BY <1>1, <1>2, <1>5 DEF RemoveFolder
  <2>2. TreeOK'
    BY <1>5, <2>1, EmptyIsBare, RemovedOK DEF SpaceOK
  <2>3. QED
    BY <1>3, <1>4, <2>1, <2>2 DEF SpaceOK
<1>6. CASE ~(p \in DOMAIN tree /\ IsFolder(p) /\ Children(p) = {})
  <2>1. tree' = tree /\ Leaves(i, [r EXCEPT !.stage = "raised"])
    BY <1>1, <1>2, <1>6 DEF RemoveFolder
  <2>2. QED
    BY <1>3, <1>4, <2>1 DEF SpaceOK, TreeOK
<1>7. QED
  BY <1>5, <1>6

\* The answer of a thread, and what run_bash and its processes do.
LEMMA OtherStep ==
  ASSUME RunOK, SpaceOK, NEW i \in Runs,
         Reply(i) \/ Fork(i) \/ ShellExits(i) \/ ChildExits(i) \/ EndCommand(i) \/ Timeout(i)
  PROVE  RunOK' /\ SpaceOK'
<1>1. PICK r \in Records : r = run[i] /\ Fits(r)
  BY DEF RunOK
<1>2. SpaceOK'
  BY DEF SpaceOK, TreeOK, space, Reply, Fork, ShellExits, ChildExits, EndCommand, Timeout
<1>3. CASE Reply(i)
  <2>1. PICK a \in {"ok", "error"} :
          /\ Steps(i, [r EXCEPT !.stage = "answered", !.answer = a])
          /\ r.stage \in {"worked", "raised"}
    BY <1>1, <1>3 DEF Reply, At
  <2>2. PICK s : s = [r EXCEPT !.stage = "answered", !.answer = a]
    OBVIOUS
  <2>3. s \in Records /\ Fits(s)
    <3>1. s \in Records
      BY <1>1, <2>1, <2>2 DEF Records, CallStages
    <3>2. s.call = r.call /\ s.stage = "answered" /\ s.shell = r.shell /\ s.child = r.child
      BY <1>1, <2>2 DEF Records
    <3>3. QED
      BY <1>1, <3>1, <3>2 DEF Fits
  <2>4. QED
    BY <1>2, <2>1, <2>2, <2>3, StepsOK
<1>4. CASE Fork(i)
  <2>1. r.shell /\ Steps(i, [r EXCEPT !.child = TRUE])
    BY <1>1, <1>4 DEF Fork
  <2>2. PICK s : s = [r EXCEPT !.child = TRUE]
    OBVIOUS
  <2>3. s \in Records /\ Fits(s)
    BY <1>1, <2>1, <2>2 DEF Records, CallStages, Fits
  <2>4. QED
    BY <1>2, <2>1, <2>2, <2>3, StepsOK
<1>5. CASE ShellExits(i)
  <2>1. r.shell /\ (Steps(i, Idle) \/ Steps(i, [r EXCEPT !.shell = FALSE]))
    BY <1>1, <1>5 DEF ShellExits
  <2>2. PICK s : s = [r EXCEPT !.shell = FALSE]
    OBVIOUS
  <2>3. s \in Records /\ Fits(s)
    BY <1>1, <2>1, <2>2 DEF Records, CallStages, Fits
  <2>4. QED
    BY <1>2, <2>1, <2>2, <2>3, StepsOK, IdleFits
<1>6. CASE ChildExits(i)
  <2>1. r.child /\ (Steps(i, Idle) \/ Steps(i, [r EXCEPT !.child = FALSE]))
    BY <1>1, <1>6 DEF ChildExits
  <2>2. PICK s : s = [r EXCEPT !.child = FALSE]
    OBVIOUS
  <2>3. s \in Records /\ Fits(s)
    BY <1>1, <2>1, <2>2 DEF Records, CallStages, Fits
  <2>4. QED
    BY <1>2, <2>1, <2>2, <2>3, StepsOK, IdleFits
<1>7. CASE EndCommand(i)
  <2>1. PICK a \in {"ok", "error"} : Steps(i, [r EXCEPT !.stage = "answered", !.answer = a])
    BY <1>1, <1>7 DEF EndCommand, At
  <2>2. PICK s : s = [r EXCEPT !.stage = "answered", !.answer = a]
    OBVIOUS
  <2>3. s \in Records /\ Fits(s)
    <3>1. s \in Records
      BY <1>1, <2>1, <2>2 DEF Records, CallStages
    <3>2. s.call = r.call /\ s.stage = "answered" /\ s.shell = r.shell /\ s.child = r.child
      BY <1>1, <2>2 DEF Records
    <3>3. QED
      BY <1>1, <3>1, <3>2 DEF Fits
  <2>4. QED
    BY <1>2, <2>1, <2>2, <2>3, StepsOK
<1>8. CASE Timeout(i)
  <2>1. Steps(i, [r EXCEPT !.stage = "draining", !.shell = FALSE]) /\ r.stage = "waiting"
    BY <1>1, <1>8 DEF Timeout, At
  <2>2. PICK s : s = [r EXCEPT !.stage = "draining", !.shell = FALSE]
    OBVIOUS
  <2>3. s \in Records /\ Fits(s)
    BY <1>1, <2>1, <2>2 DEF Records, CallStages, Fits
  <2>4. QED
    BY <1>2, <2>1, <2>2, <2>3, StepsOK
<1>9. QED
  BY <1>3, <1>4, <1>5, <1>6, <1>7, <1>8

LEMMA TouchStep ==
  ASSUME RunOK, SpaceOK, NEW i \in Runs, Touch(i)
  PROVE  RunOK' /\ SpaceOK'
<1>1. UNCHANGED batch /\ alone' = alone /\ touches < MaxTouches /\ touches' = touches + 1
  BY DEF Touch
<1>2. PICK p \in Paths :
        \/ IsFolder(Front(p)) /\ ~IsFolder(p) /\ tree' = With(tree, p, Node(FreshId, Foreign))
        \/ p \in DOMAIN tree /\ Children(p) = {} /\ tree' = Without(tree, {p})
  BY DEF Touch
<1>3. TreeOK
  BY DEF SpaceOK
<1>4. TreeOK'
  <2>1. CASE IsFolder(Front(p)) /\ ~IsFolder(p) /\ tree' = With(tree, p, Node(FreshId, Foreign))
    <3>1. FreshId \in Nat \ {0} /\ Foreign \in Contents
      BY <1>3, FreshIs DEF Contents
    <3>2. QED
      BY <1>3, <2>1, <3>1, PlacedOK
  <2>2. CASE p \in DOMAIN tree /\ Children(p) = {} /\ tree' = Without(tree, {p})
    BY <1>3, <2>2, EmptyIsBare, RemovedOK
  <2>3. QED
    BY <1>2, <2>1, <2>2
<1>5. touches' \in 0 .. MaxTouches
  BY <1>1, FilesAssumption DEF SpaceOK
<1>6. RunOK'
  BY <1>1 DEF RunOK, batch
<1>7. QED
  BY <1>1, <1>4, <1>5, <1>6 DEF SpaceOK

-----------------------------------------------------------------------------
(* The steps of a request and of a turn with its files *)

RequestType == [stage: {"none", "uploading", "writing", "loading", "merging", "started"},
                files: Seq(Keys), left: 0 .. MaxFiles, found: Seq(Keys)]

AttachOK ==
  /\ DOMAIN disk \subseteq Keys /\ disk \in [DOMAIN disk -> {"part", "whole"}]
  /\ stored \in Seq(Keys) /\ listed \in Seq(Keys) /\ working \in BOOLEAN
  /\ req \in RequestType
  /\ req.stage = "writing" => req.files # <<>> /\ req.left > 0
  /\ DOMAIN number \subseteq Keys /\ number \in [DOMAIN number -> Nat]
  /\ late = None \/ late \in Seq(Keys)
  /\ accepted \subseteq Keys /\ asked \subseteq Keys /\ lates \in 0 .. MaxLates

\* The elements of lists.
LEMMA ConcatSet ==
  ASSUME NEW s \in Seq(Keys), NEW t \in Seq(Keys)
  PROVE  s \o t \in Seq(Keys) /\ ToSet(s \o t) = ToSet(s) \cup ToSet(t)
<1>1. PICK n \in Nat : n = Len(s) /\ DOMAIN s = 1 .. n
  OBVIOUS
<1>2. PICK m \in Nat : m = Len(t) /\ DOMAIN t = 1 .. m
  OBVIOUS
<1>3. PICK u : u = s \o t
  OBVIOUS
<1>4. u \in Seq(Keys) /\ Len(u) = n + m
  BY <1>1, <1>2, <1>3, ConcatProperties
<1>5. /\ DOMAIN u = 1 .. n + m
      /\ \A i \in 1 .. n : u[i] = s[i]
      /\ \A i \in 1 .. m : u[n + i] = t[i]
  BY <1>1, <1>2, <1>3, <1>4
<1>6. \A x \in ToSet(u) : x \in ToSet(s) \cup ToSet(t)
  <2>1. TAKE x \in ToSet(u)
  <2>2. PICK i \in 1 .. n + m : x = u[i]
    BY <1>5 DEF ToSet
  <2>3. CASE i <= n
    <3>1. i \in 1 .. n
      BY <2>2, <2>3
    <3>2. QED
      BY <1>1, <1>5, <2>2, <3>1 DEF ToSet
  <2>4. CASE i > n
    <3>1. i - n \in 1 .. m /\ n + (i - n) = i
      BY <2>2, <2>4
    <3>2. x = t[i - n]
      BY <1>5, <2>2, <3>1
    <3>3. QED
      BY <1>2, <3>1, <3>2 DEF ToSet
  <2>5. QED
    BY <2>2, <2>3, <2>4
<1>7. \A x \in ToSet(s) : x \in ToSet(u)
  <2>1. TAKE x \in ToSet(s)
  <2>2. PICK i \in 1 .. n : x = s[i]
    BY <1>1 DEF ToSet
  <2>3. i \in 1 .. n + m
    OBVIOUS
  <2>4. QED
    BY <1>5, <2>2, <2>3 DEF ToSet
<1>8. \A x \in ToSet(t) : x \in ToSet(u)
  <2>1. TAKE x \in ToSet(t)
  <2>2. PICK i \in 1 .. m : x = t[i]
    BY <1>2 DEF ToSet
  <2>3. n + i \in 1 .. n + m /\ u[n + i] = x
    BY <1>5, <2>2
  <2>4. QED
    BY <1>5, <2>3 DEF ToSet
<1>9. QED
  BY <1>3, <1>4, <1>6, <1>7, <1>8

LEMMA AppendSet ==
  ASSUME NEW s \in Seq(Keys), NEW k \in Keys
  PROVE  /\ Append(s, k) \in Seq(Keys) /\ Len(Append(s, k)) = Len(s) + 1
         /\ Append(s, k)[Len(s) + 1] = k
         /\ \A i \in 1 .. Len(s) : Append(s, k)[i] = s[i]
         /\ ToSet(Append(s, k)) = ToSet(s) \cup {k}
<1>1. PICK n \in Nat : n = Len(s) /\ DOMAIN s = 1 .. n
  OBVIOUS
<1>2. PICK v : v = Append(s, k)
  OBVIOUS
<1>3. /\ v \in Seq(Keys) /\ Len(v) = n + 1
      /\ DOMAIN v = 1 .. n + 1 /\ v[n + 1] = k /\ \A i \in 1 .. n : v[i] = s[i]
  BY <1>1, <1>2
<1>4. \A x \in ToSet(v) : x \in ToSet(s) \cup {k}
  <2>1. TAKE x \in ToSet(v)
  <2>2. PICK i \in 1 .. n + 1 : x = v[i]
    BY <1>3 DEF ToSet
  <2>3. i = n + 1 \/ i \in 1 .. n
    OBVIOUS
  <2>4. QED
    BY <1>1, <1>3, <2>2, <2>3 DEF ToSet
<1>5. \A x \in ToSet(s) : x \in ToSet(v)
  <2>1. TAKE x \in ToSet(s)
  <2>2. PICK i \in 1 .. n : x = s[i]
    BY <1>1 DEF ToSet
  <2>3. i \in 1 .. n + 1
    OBVIOUS
  <2>4. QED
    BY <1>3, <2>2, <2>3 DEF ToSet
<1>6. n + 1 \in 1 .. n + 1
  OBVIOUS
<1>7. k \in ToSet(v)
  BY <1>3, <1>6 DEF ToSet
<1>8. QED
  BY <1>1, <1>2, <1>3, <1>4, <1>5, <1>7

LEMMA ElementsOf ==
  ASSUME NEW s \in Seq(Keys)
  PROVE  ToSet(s) \subseteq Keys
BY DEF ToSet

\* The key of an upload is new to the disk, the context and the requests.
LEMMA OpenUploadIs ==
  ASSUME AttachOK, OpenUpload
  PROVE  \E k \in Keys :
           /\ k \notin DOMAIN disk \cup accepted \cup ToSet(stored) \cup asked
           /\ disk' = With(disk, k, "part") /\ req.stage = "uploading" /\ req.left > 0
           /\ req' = [req EXCEPT !.stage = "writing", !.files = Append(req.files, k)]
           /\ req' \in RequestType /\ req'.stage = "writing" /\ req'.left = req.left
           /\ req'.files = Append(req.files, k) /\ req'.found = req.found
           /\ UNCHANGED <<batch, stored, working, listed, number, late, accepted, asked, lates>>
<1>1. PICK k \in Keys :
        /\ k \notin Used /\ disk' = With(disk, k, "part")
        /\ req' = [req EXCEPT !.stage = "writing", !.files = Append(req.files, k)]
  <2>1. Keys \ Used # {}
    BY DEF OpenUpload
  <2>2. PICK k : k = CHOOSE key \in Keys : key \notin Used
    OBVIOUS
  <2>3. k \in Keys /\ k \notin Used
    BY <2>1, <2>2
  <2>4. QED
    BY <2>2, <2>3 DEF OpenUpload
<1>2. Append(req.files, k) \in Seq(Keys)
  BY DEF AttachOK, RequestType
<1>3. /\ req' \in RequestType /\ req'.stage = "writing" /\ req'.left = req.left
      /\ req'.files = Append(req.files, k) /\ req'.found = req.found
  BY <1>1, <1>2 DEF AttachOK, RequestType
<1>4. QED
  BY <1>1, <1>3 DEF OpenUpload, Used

LEMMA FinishUploadIs ==
  ASSUME AttachOK, FinishUpload
  PROVE  \E k \in Keys :
           /\ req.stage = "writing" /\ k = Last(req.files)
           /\ disk' = [disk EXCEPT ![k] = "whole"]
           /\ req' \in RequestType /\ req'.stage \in {"loading", "uploading"}
           /\ req'.files = req.files /\ req'.found = req.found
           /\ UNCHANGED <<batch, stored, working, listed, number, late, accepted, asked, lates>>
<1>1. PICK k : k = Last(req.files)
  OBVIOUS
<1>2. req.stage = "writing" /\ req.files \in Seq(Keys) /\ req.files # <<>> /\ req.left > 0
  BY DEF FinishUpload, AttachOK, RequestType
<1>3. k \in Keys
  <2>1. Len(req.files) \in Nat \ {0}
    BY <1>2, EmptySeq
  <2>2. Len(req.files) \in 1 .. Len(req.files)
    BY <2>1
  <2>3. QED
    BY <1>1, <1>2, <2>2, ElementOfSeq DEF Last
<1>4. req.left - 1 \in 0 .. MaxFiles
  BY <1>2, FilesAssumption DEF AttachOK, RequestType
<1>5. PICK s \in {"loading", "uploading"} :
        req' = [req EXCEPT !.left = req.left - 1, !.stage = s]
  BY DEF FinishUpload
<1>6. /\ req' \in RequestType /\ req'.stage = s
      /\ req'.files = req.files /\ req'.found = req.found
  BY <1>4, <1>5 DEF AttachOK, RequestType
<1>7. QED
  BY <1>1, <1>2, <1>3, <1>6 DEF FinishUpload

LEMMA NoRequestIs == /\ NoRequest \in RequestType /\ NoRequest.stage = "none"
                     /\ NoRequest.files = <<>> /\ NoRequest.found = <<>>
BY EmptySeq, FilesAssumption DEF NoRequest, RequestType

LEMMA ClaimIs ==
  ASSUME AttachOK, Claim
  PROVE  /\ req.stage = "none" /\ ~working /\ working' = TRUE
         /\ req' \in RequestType /\ req'.stage \in {"uploading", "started"}
         /\ req'.files = <<>> /\ req'.found = <<>>
         /\ UNCHANGED <<batch, disk, stored, listed, number, late, accepted, asked, lates>>
<1>1. PICK n \in 0 .. MaxFiles, s \in {"uploading", "started"} :
        req' = [NoRequest EXCEPT !.stage = s, !.left = n]
  BY DEF Claim
<1>2. req' \in RequestType /\ req'.stage = s /\ req'.files = <<>> /\ req'.found = <<>>
  BY <1>1, NoRequestIs, EmptySeq DEF NoRequest, RequestType
<1>3. QED
  BY <1>2 DEF Claim

LEMMA LoadContextIs ==
  ASSUME AttachOK, LoadContext
  PROVE  /\ req.stage = "loading"
         /\ req' \in RequestType /\ req'.stage = "merging"
         /\ req'.files = req.files /\ req'.found = stored
         /\ UNCHANGED <<batch, disk, stored, working, listed, number, late, accepted, asked,
                        lates>>
BY DEF LoadContext, AttachOK, RequestType

LEMMA SaveContextIs ==
  ASSUME AttachOK, SaveContext
  PROVE  /\ req.stage = "merging"
         /\ req' \in RequestType /\ req'.stage = "started"
         /\ req'.files = req.files /\ req'.found = req.found
         /\ stored' = req.found \o req.files /\ stored' \in Seq(Keys)
         /\ ToSet(stored') = ToSet(req.found) \cup ToSet(req.files)
         /\ accepted' = accepted \cup ToSet(req.files)
         /\ ToSet(req.files) \subseteq Keys
         /\ UNCHANGED <<batch, disk, working, listed, number, late, asked, lates>>
<1>1. req.found \in Seq(Keys) /\ req.files \in Seq(Keys)
  BY DEF AttachOK, RequestType
<1>2. stored' = req.found \o req.files
  BY DEF SaveContext
<1>3. /\ req' \in RequestType /\ req'.stage = "started"
      /\ req'.files = req.files /\ req'.found = req.found
  BY DEF SaveContext, AttachOK, RequestType
<1>4. /\ stored' \in Seq(Keys) /\ ToSet(req.files) \subseteq Keys
      /\ ToSet(stored') = ToSet(req.found) \cup ToSet(req.files)
  BY <1>1, <1>2, ConcatSet, ElementsOf
<1>5. QED
  BY <1>2, <1>3, <1>4 DEF SaveContext

\* The turn's list has the stored files, and those of the request at its end.
LEMMA InjectedIs ==
  ASSUME NEW s \in Seq(Keys), NEW f \in Seq(Keys)
  PROVE  /\ Injected(s, f) \in Seq(Keys) /\ Len(Injected(s, f)) - Len(f) \in Nat
         /\ ToSet(s) \subseteq ToSet(Injected(s, f))
         /\ ToSet(Injected(s, f)) \subseteq ToSet(s) \cup ToSet(f)
<1>1. PICK n \in Nat : n = Len(s)
  OBVIOUS
<1>2. PICK m \in Nat : m = Len(f)
  OBVIOUS
<1>3. s \o f \in Seq(Keys) /\ Len(s \o f) = n + m
      /\ ToSet(s \o f) = ToSet(s) \cup ToSet(f)
  BY <1>1, <1>2, ConcatSet, ConcatProperties
<1>4. CASE f = <<>>
  <2>1. Injected(s, f) = s /\ m = 0
    BY <1>2, <1>4, EmptySeq DEF Injected
  <2>2. QED
    BY <1>1, <1>2, <2>1
<1>5. CASE f # <<>> /\ Seeded(s, f)
  <2>1. Injected(s, f) = s /\ n >= m
    BY <1>1, <1>2, <1>5 DEF Injected, Seeded
  <2>2. QED
    BY <1>1, <1>2, <2>1
<1>6. CASE f # <<>> /\ ~Seeded(s, f)
  <2>1. Injected(s, f) = s \o f
    BY <1>6 DEF Injected
  <2>2. QED
    BY <1>1, <1>2, <1>3, <2>1
<1>7. QED
  BY <1>4, <1>5, <1>6

LEMMA StartTurnIs ==
  ASSUME AttachOK, StartTurn
  PROVE  /\ turn = "off" /\ req.stage = "started" /\ turn' = "on"
         /\ listed' = Injected(stored, req.files) /\ listed' \in Seq(Keys)
         /\ ToSet(stored) \subseteq ToSet(listed')
         /\ ToSet(listed') \subseteq ToSet(stored) \cup ToSet(req.files)
         /\ DOMAIN number' = DOMAIN number \cup ToSet(req.files)
         /\ number' \in [DOMAIN number' -> Nat]
         /\ DOMAIN number' \subseteq Keys
         /\ UNCHANGED <<todo, run, cancels, disk, stored, uploads, late, asked, lates>>
<1>1. PICK f \in Seq(Keys) : f = req.files
  BY DEF AttachOK, RequestType
<1>2. /\ Injected(stored, f) \in Seq(Keys) /\ ToSet(stored) \subseteq ToSet(Injected(stored, f))
      /\ ToSet(Injected(stored, f)) \subseteq ToSet(stored) \cup ToSet(f)
  BY InjectedIs DEF AttachOK
<1>3. PICK base \in Nat : base = Len(Injected(stored, f)) - Len(f)
  BY InjectedIs DEF AttachOK
<1>4. PICK at : at = [k \in ToSet(f) |-> CHOOSE i \in DOMAIN f : f[i] = k]
  OBVIOUS
<1>5. \A k \in ToSet(f) : at[k] \in DOMAIN f /\ at[k] \in Nat
  BY <1>4 DEF ToSet
<1>6. number' = [k \in DOMAIN number \cup ToSet(f) |->
                  IF \E i \in DOMAIN f : f[i] = k
                  THEN base + CHOOSE i \in DOMAIN f : f[i] = k ELSE number[k]]
  BY <1>1, <1>3 DEF StartTurn
<1>7. \A k \in DOMAIN number \cup ToSet(f) :
        number'[k] = IF k \in ToSet(f) THEN base + at[k] ELSE number[k]
  BY <1>4, <1>6 DEF ToSet
<1>8. \A k \in DOMAIN number \cup ToSet(f) : number'[k] \in Nat
  BY <1>5, <1>7 DEF AttachOK
<1>9. DOMAIN number' = DOMAIN number \cup ToSet(f) /\ number' \in [DOMAIN number' -> Nat]
  BY <1>6, <1>8
<1>10. DOMAIN number' \subseteq Keys
  BY <1>9, ElementsOf DEF AttachOK
<1>11. QED
  BY <1>1, <1>2, <1>9, <1>10 DEF StartTurn

\* A delete begins: with an answer, or with the list it found.
LEMMA BeginDeleteIs ==
  ASSUME RunOK, AttachOK, NEW i, BeginDelete(i)
  PROVE  /\ RunOK' /\ i \in Live /\ i \in Runs /\ todo # <<>> /\ turn' = turn
         /\ \E r \in Records :
              /\ run' = [run EXCEPT ![i] = r]
              /\ r.call \in Calls /\ r.call.tool = "delete"
              /\ asked' = asked \cup {r.call.key} /\ r.call.key \in Keys
              /\ \/ r.stage = "answered" /\ r.answer # "ok"
                 \/ r.stage = "unlinking" /\ r.view = listed
         /\ UNCHANGED <<disk, stored, uploads, listed, number, late, lates>>
<1>1. /\ i \in Live /\ i \in Runs /\ Due(i, "delete")
      /\ Head(todo) \in Calls /\ Head(todo).tool = "delete"
  BY DueIs DEF BeginDelete
<1>2. Head(todo).key \in Keys /\ asked' = asked \cup {Head(todo).key}
  BY <1>1, CallFields DEF BeginDelete
<1>3. todo # <<>>
  BY <1>1 DEF Due
<1>4. ASSUME NEW a \in {"error", "gone"}, Begins(i, Answer(a))
      PROVE  RunOK' /\ turn' = turn /\ \E r \in Records :
               /\ run' = [run EXCEPT ![i] = r] /\ r.call = Head(todo)
               /\ r.stage = "answered" /\ r.answer # "ok"
  <2>1. PICK s : s = [Answer(a) EXCEPT !.call = Head(todo)]
    OBVIOUS
  <2>2. /\ Answer(a) \in Records /\ s \in Records /\ Fits(s)
        /\ s.stage = "answered" /\ s.answer = a /\ s.call = Head(todo)
    BY <1>1, <2>1, AnswerOK
  <2>3. RunOK' /\ run' = [run EXCEPT ![i] = s]
    BY <1>1, <1>4, <2>1, <2>2, BeginsOK
  <2>4. turn' = turn
    BY <1>4 DEF Begins
  <2>5. QED
    BY <2>2, <2>3, <2>4
<1>5. CASE Begins(i, [Idle EXCEPT !.stage = "unlinking", !.view = listed])
  <2>1. PICK r : r = [Idle EXCEPT !.stage = "unlinking", !.view = listed]
    OBVIOUS
  <2>2. PICK s : s = [r EXCEPT !.call = Head(todo)]
    OBVIOUS
  <2>3. /\ r \in Records /\ s \in Records /\ Fits(s)
        /\ s.stage = "unlinking" /\ s.view = listed /\ s.call = Head(todo)
    <3>1. PICK c \in Calls : c = Head(todo) /\ c.tool = "delete"
      BY <1>1
    <3>2. PICK v \in Seq(Keys) : v = listed
      BY DEF AttachOK
    <3>3. r = [Idle EXCEPT !.stage = "unlinking", !.view = v] /\ s = [r EXCEPT !.call = c]
      BY <2>1, <2>2, <3>1, <3>2
    <3>4. /\ r \in Records /\ s \in Records /\ Fits(s)
          /\ s.stage = "unlinking" /\ s.view = v /\ s.call = c
      BY <3>1, <3>3 DEF Idle, Records, CallStages, Fits
    <3>5. QED
      BY <3>1, <3>2, <3>4
  <2>4. Begins(i, r)
    BY <1>5, <2>1
  <2>5. RunOK' /\ run' = [run EXCEPT ![i] = s] /\ turn' = turn
    BY <1>1, <2>2, <2>3, <2>4, BeginsOK DEF Begins
  <2>6. QED
    BY <1>1, <1>2, <1>3, <2>3, <2>5 DEF BeginDelete
<1>6. CASE Begins(i, Answer("error")) \/ Begins(i, Answer("gone"))
  <2>1. PICK r \in Records :
          /\ run' = [run EXCEPT ![i] = r] /\ r.call = Head(todo)
          /\ r.stage = "answered" /\ r.answer # "ok"
    BY <1>4, <1>6
  <2>2. RunOK' /\ turn' = turn
    BY <1>4, <1>6
  <2>3. QED
    BY <1>1, <1>2, <1>3, <2>1, <2>2 DEF BeginDelete
<1>7. QED
  BY <1>5, <1>6 DEF BeginDelete

LEMMA UnlinkFileIs ==
  ASSUME RunOK, AttachOK, NEW i \in Runs, UnlinkFile(i)
  PROVE  /\ RunOK' /\ At(i, "unlinking") /\ turn' = turn /\ todo' = todo
         /\ run[i].call \in Calls /\ run[i].call.tool = "delete"
         /\ disk' \in {disk, Without(disk, {run[i].call.key})}
         /\ \E r \in Records :
              /\ run' = [run EXCEPT ![i] = r]
              /\ \/ i \notin Live /\ r = Idle
                 \/ /\ i \in Live /\ r.call = run[i].call /\ r.view = run[i].view
                    /\ \/ r.stage = "raised"
                       \/ r.stage = "unlinked" /\ disk' = Without(disk, {run[i].call.key})
         /\ UNCHANGED <<stored, uploads, listed, number, late, asked, lates>>
<1>1. PICK r \in Records : r = run[i] /\ Fits(r) /\ r.stage = "unlinking"
  BY DEF RunOK, UnlinkFile, At
<1>2. PICK k : k = r.call.key /\ r.call \in Calls /\ r.call.tool = "delete"
  BY <1>1 DEF Fits
<1>3. PICK stage \in {"unlinked", "raised"} :
        /\ Leaves(i, [r EXCEPT !.stage = stage])
        /\ \/ stage = "unlinked" /\ disk' = Without(disk, {k})
           \/ stage = "raised" /\ disk' = disk
  BY <1>1, <1>2 DEF UnlinkFile
<1>4. PICK s : s = [r EXCEPT !.stage = stage]
  OBVIOUS
<1>5. s \in Records /\ Fits(s) /\ s.stage = stage /\ s.call = r.call /\ s.view = r.view
  BY <1>1, <1>2, <1>4 DEF Records, CallStages, Fits
<1>6. RunOK' /\ run' = [run EXCEPT ![i] = IF i \in Live THEN s ELSE Idle]
  BY <1>3, <1>4, <1>5, LeavesOK
<1>7. turn' = turn /\ todo' = todo
  BY <1>3 DEF Leaves
<1>8. UNCHANGED <<stored, uploads, listed, number, late, asked, lates>>
  BY DEF UnlinkFile
<1>9. \E q \in Records :
        /\ run' = [run EXCEPT ![i] = q]
        /\ \/ i \notin Live /\ q = Idle
           \/ /\ i \in Live /\ q.call = run[i].call /\ q.view = run[i].view
              /\ \/ q.stage = "raised"
                 \/ q.stage = "unlinked" /\ disk' = Without(disk, {run[i].call.key})
  <2>1. CASE i \in Live
    BY <1>1, <1>2, <1>3, <1>5, <1>6, <2>1
  <2>2. CASE i \notin Live
    BY <1>6, <2>2, IdleFits
  <2>3. QED
    BY <2>1, <2>2
<1>10. QED
  BY <1>1, <1>2, <1>3, <1>6, <1>7, <1>8, <1>9 DEF At

LEMMA EndDeleteIs ==
  ASSUME RunOK, AttachOK, NEW i \in Runs, EndDelete(i)
  PROVE  /\ RunOK' /\ At(i, "unlinked") /\ turn' = turn /\ todo' = todo
         /\ run[i].call \in Calls /\ run[i].call.tool = "delete"
         /\ listed' \in Seq(Keys)
         /\ ToSet(listed') = ToSet(run[i].view) \ {run[i].call.key}
         /\ \E r \in Records :
              /\ run' = [run EXCEPT ![i] = r]
              /\ r.stage = "answered" /\ r.call = run[i].call /\ r.answer = "ok"
         /\ UNCHANGED <<disk, stored, uploads, number, late, asked, lates>>
<1>1. PICK r \in Records : r = run[i] /\ Fits(r) /\ r.stage = "unlinked"
  BY DEF RunOK, EndDelete, At
<1>2. PICK s : s = [r EXCEPT !.stage = "answered", !.answer = "ok"]
  OBVIOUS
<1>3. s \in Records /\ Fits(s) /\ s.stage = "answered" /\ s.call = r.call /\ s.answer = "ok"
  BY <1>1, <1>2 DEF Records, CallStages, Fits
<1>4. Steps(i, s)
  BY <1>1, <1>2 DEF EndDelete
<1>5. RunOK' /\ run' = [run EXCEPT ![i] = s] /\ turn' = turn /\ todo' = todo
  BY <1>3, <1>4, StepsOK DEF Steps
<1>6. r.view \in Seq(Keys) /\ listed' = Dropped(r.view, r.call.key)
  BY <1>1 DEF EndDelete, Records
<1>7. listed' \in Seq(Keys) /\ ToSet(listed') = ToSet(r.view) \ {r.call.key}
  BY <1>6, DroppedIs
<1>8. UNCHANGED <<disk, stored, uploads, number, late, asked, lates>>
  BY DEF EndDelete
<1>9. QED
  BY <1>1, <1>3, <1>5, <1>7, <1>8 DEF Fits, At

-----------------------------------------------------------------------------
(* The steps of a turn *)

LEMMA FirstIs ==
  ASSUME NEW T \in SUBSET Nat, T # {}
  PROVE  Min(T) \in T
<1> DEFINE R == OpToRel(<, Nat)
<1>1. IsWellFoundedOn(R, Nat)
  BY NatLessThanWellFounded
<1>2. \A x, y \in Nat : y < x => <<y, x>> \in R
  BY DEF OpToRel
<1> HIDE DEF R
<1>3. PICK x \in T : \A y \in T : ~(<<y, x>> \in R)
  BY <1>1, WFMin, Zenon
<1>4. ASSUME NEW y \in T PROVE x =< y
  <2>1. x \in Nat /\ y \in Nat /\ ~(y < x)
    BY <1>2, <1>3, <1>4, Zenon
  <2>2. QED
    BY <2>1
<1>5. QED
  BY <1>3, <1>4, Zenon DEF Min

LEMMA RunIs ==
  ASSUME NEW b \in Batches
  PROVE  Run(b) \in Seq(Calls) /\ Len(Run(b)) <= MaxBatch
<1>1. b \in Seq(Calls) /\ Len(b) \in 1 .. MaxBatch /\ MaxBatch \in Nat
  BY BatchAssumption, FilesAssumption
<1>2. PICK T : T = {i \in DOMAIN b : b[i].tool = "bash"}
  OBVIOUS
<1>3. T \in SUBSET Nat /\ T \in SUBSET (DOMAIN b)
  BY <1>1, <1>2
<1>4. CASE T = {}
  BY <1>1, <1>2, <1>4 DEF Run
<1>5. CASE T # {}
  <2>1. Min(T) \in DOMAIN b
    BY <1>3, <1>5, FirstIs
  <2>2. PICK c \in Calls : c = b[Min(T)]
    BY <1>1, <2>1
  <2>3. Run(b) = <<c>>
    BY <1>2, <1>5, <2>2 DEF Run
  <2>4. QED
    BY <1>1, <2>3
<1>6. QED
  BY <1>4, <1>5

\* Ask, Answered and EndTurn
LEMMA AskIs ==
  ASSUME RunOK, SpaceOK, Ask
  PROVE  /\ RunOK' /\ SpaceOK' /\ turn = "on" /\ turn' = "tools"
         /\ \A i \in Live : run'[i] = Idle
         /\ \A i \in Left : run'[i] = run[i]
<1>1. PICK b \in Batches : todo' = Run(b)
  BY DEF Ask
<1>2. todo' \in Seq(Calls) /\ Len(todo') <= MaxBatch
  BY <1>1, RunIs
<1>3. run' = [i \in Runs |-> IF i \in Live THEN Idle ELSE run[i]]
  BY DEF Ask
<1>4. \A i \in Runs : run'[i] \in Records /\ Fits(run'[i])
  BY <1>3, IdleFits DEF RunOK
<1>5. run' \in [Runs -> Records]
  BY <1>3, <1>4
<1>6. RunOK'
  BY <1>2, <1>4, <1>5 DEF RunOK, Ask
<1>7. SpaceOK'
  BY DEF Ask, SpaceOK, TreeOK
<1>8. \A i \in Left : i \notin Live
  BY BatchAssumption DEF Left, Live
<1>9. QED
  BY <1>3, <1>6, <1>7, <1>8 DEF Ask, Runs

LEMMA OutlivesIs ==
  ASSUME NEW r \in Records, Fits(r), NEW o \in Outlives(r)
  PROVE  /\ o \in Records /\ Fits(o)
         /\ \/ o = Idle
            \/ o = r /\ r.stage \in Jobs
            \/ o.stage = "stray" /\ o.call = r.call
<1>1. CASE r.shell \/ r.child
  <2>1. o = [r EXCEPT !.stage = "stray"]
    BY <1>1 DEF Outlives
  <2>2. QED
    BY <1>1, <2>1 DEF Records, CallStages, Fits
<1>2. CASE ~(r.shell \/ r.child)
  <2>1. o = Idle \/ (o = r /\ r.stage \in Jobs)
    BY <1>2 DEF Outlives, Jobs
  <2>2. QED
    BY <2>1, IdleFits
<1>3. QED
  BY <1>1, <1>2

LEMMA StraysIs ==
  ASSUME RunOK, NEW i \in Runs
  PROVE  /\ Strays[i] \in Records /\ Fits(Strays[i])
         /\ Strays[i] = Idle \/ (Strays[i].stage = "stray" /\ Strays[i].call = run[i].call)
<1>1. PICK r \in Records : r = run[i] /\ Fits(r)
  BY DEF RunOK
<1>2. CASE r.shell \/ r.child
  <2>1. Strays[i] = [r EXCEPT !.stage = "stray"]
    BY <1>1, <1>2 DEF Strays
  <2>2. QED
    BY <1>1, <1>2, <2>1 DEF Records, CallStages, Fits
<1>3. CASE ~(r.shell \/ r.child)
  <2>1. Strays[i] = Idle
    BY <1>1, <1>3 DEF Strays
  <2>2. QED
    BY <2>1, IdleFits
<1>4. QED
  BY <1>2, <1>3

\* After a cut no call is live, and what is left was left, or goes on.
LEMMA CutOffIs ==
  ASSUME RunOK, NEW left, NEW rest, CutOff(left, rest),
         \A i \in Live : left[i] \in Records /\ Fits(left[i]),
         \A i \in Runs : rest[i] \in Records /\ Fits(rest[i]),
         cancels' \in 0 .. MaxCancels
  PROVE  /\ RunOK' /\ turn' = "off" /\ todo' = <<>>
         /\ \A i \in Live : run'[i] = Idle
         /\ \A i \in Left : run'[i] = rest[i] \/ \E j \in Live : run'[i] = left[j]
<1>1. PICK gone : run' = [i \in Runs |-> IF i \in Live THEN Idle
                           ELSE IF i - gone \in Live THEN left[i - gone] ELSE rest[i]]
  BY DEF CutOff
<1>2. \A i \in Runs : run'[i] \in Records /\ Fits(run'[i])
  BY <1>1, IdleFits
<1>3. run' \in [Runs -> Records]
  BY <1>1, <1>2
<1>4. turn' = "off" /\ todo' = <<>>
  BY DEF CutOff
<1>5. RunOK'
  BY <1>2, <1>3, <1>4, BatchAssumption, EmptySeq DEF RunOK
<1>6. \A i \in Left : i \notin Live
  BY BatchAssumption DEF Left, Live
<1>7. QED
  BY <1>1, <1>4, <1>5, <1>6 DEF Runs

LEMMA CancelIs ==
  ASSUME RunOK, Cancel
  PROVE  /\ RunOK' /\ turn # "off" /\ turn' = "off" /\ todo' = <<>> /\ LeaveFiles(TRUE)
         /\ \A i \in Live : run'[i] = Idle
         /\ \A i \in Left : \/ run'[i] = run[i] \/ run'[i] = Idle
                            \/ \E j \in Live : run'[i] = run[j] /\ run[j].stage \in Jobs
                            \/ run'[i].stage = "stray"
         /\ UNCHANGED <<space, bounds>>
<1>1. PICK left : /\ \A i \in Live : left[i] \in Outlives(run[i])
                  /\ CutOff(left, run)
  BY DEF Cancel
<1>2. \A i \in Live : /\ left[i] \in Records /\ Fits(left[i])
                      /\ \/ left[i] = Idle
                         \/ left[i] = run[i] /\ run[i].stage \in Jobs
                         \/ left[i].stage = "stray"
  <2>1. TAKE i \in Live
  <2>2. run[i] \in Records /\ Fits(run[i])
    BY LiveInRuns DEF RunOK
  <2>3. QED
    BY <1>1, <2>2, OutlivesIs
<1>3. cancels' \in 0 .. MaxCancels
  BY BatchAssumption DEF Cancel, RunOK
<1>4. \A i \in Runs : run[i] \in Records /\ Fits(run[i])
  BY DEF RunOK
<1>5. /\ RunOK' /\ turn' = "off" /\ todo' = <<>>
      /\ \A i \in Live : run'[i] = Idle
      /\ \A i \in Left : run'[i] = run[i] \/ \E j \in Live : run'[i] = left[j]
  BY <1>1, <1>2, <1>3, <1>4, CutOffIs
<1>6. \A i \in Left : \/ run'[i] = run[i] \/ run'[i] = Idle
                      \/ \E j \in Live : run'[i] = run[j] /\ run[j].stage \in Jobs
                      \/ run'[i].stage = "stray"
  BY <1>2, <1>5
<1>7. QED
  BY <1>5, <1>6 DEF Cancel

LEMMA CrashIs ==
  ASSUME RunOK, Crash
  PROVE  /\ RunOK' /\ turn' = "off" /\ todo' = <<>> /\ CrashFiles
         /\ \A i \in Live : run'[i] = Idle
         /\ \A i \in Left : run'[i] = Idle \/ run'[i].stage = "stray"
         /\ UNCHANGED space
<1>1. CutOff(Strays, Strays) /\ cancels' = cancels
  BY DEF Crash
<1>2. \A i \in Runs : /\ Strays[i] \in Records /\ Fits(Strays[i])
                      /\ Strays[i] = Idle \/ Strays[i].stage = "stray"
  BY StraysIs
<1>3. /\ RunOK' /\ turn' = "off" /\ todo' = <<>>
      /\ \A i \in Live : run'[i] = Idle
      /\ \A i \in Left : run'[i] = Strays[i] \/ \E j \in Live : run'[i] = Strays[j]
  BY <1>1, <1>2, LiveInRuns, CutOffIs DEF RunOK
<1>4. QED
  BY <1>2, <1>3, LiveInRuns DEF Crash, Runs

-----------------------------------------------------------------------------
(* Types *)

TypesInv == RunOK /\ SpaceOK /\ AttachOK

\* The steps that leave the attachments alone.
Beside(i) == WorkspaceCall(i) \/ Command(i) \/ Program(i)

LEMMA BesideOK ==
  ASSUME RunOK, SpaceOK, NEW i \in Runs, Beside(i)
  PROVE  RunOK' /\ SpaceOK' /\ UNCHANGED <<attach, bounds>>
<1>1. UNCHANGED <<attach, bounds>>
  BY DEF Beside, WorkspaceCall, Command, Program
<1>2. CASE BeginList(i) \/ BeginFolder(i) \/ BeginUpload(i) \/ BeginRemove(i) \/ BeginCommand(i)
  BY <1>1, <1>2, BeginListStep, BeginFolderStep, BeginUploadStep, BeginRemoveStep,
     BeginCommandStep, Zenon
<1>3. CASE OpenFile(i) \/ WriteFile(i) \/ RemoveFile(i) \/ Scan(i) \/ Clear(i) \/ RemoveFolder(i)
  BY <1>1, <1>3, OpenFileStep, WriteFileStep, RemoveFileStep, ScanStep, ClearStep,
     RemoveFolderStep, Zenon
<1>4. CASE \/ Reply(i) \/ Fork(i) \/ ShellExits(i) \/ ChildExits(i)
           \/ EndCommand(i) \/ Timeout(i)
  BY <1>1, <1>4, OtherStep, Zenon
<1>5. CASE Touch(i)
  BY <1>1, <1>5, TouchStep, Zenon
<1>6. QED
  BY <1>2, <1>3, <1>4, <1>5 DEF Beside, WorkspaceCall, Command, Program

LEMMA RequestsOK ==
  ASSUME TypesInv, Requests
  PROVE  AttachOK' /\ UNCHANGED <<batch, space>>
<1>1. AttachOK
  BY DEF TypesInv
<1>2. UNCHANGED space
  BY DEF Requests
<1>3. CASE Claim
  BY <1>1, <1>2, <1>3, ClaimIs DEF AttachOK
<1>4. CASE OpenUpload
  <2>1. PICK k \in Keys :
           /\ disk' = With(disk, k, "part") /\ req.stage = "uploading" /\ req.left > 0
           /\ req' \in RequestType /\ req'.stage = "writing" /\ req'.left = req.left
           /\ req'.files = Append(req.files, k)
           /\ UNCHANGED <<batch, stored, working, listed, number, late, accepted, asked, lates>>
    BY <1>1, <1>4, OpenUploadIs
  <2>2. DOMAIN disk' = DOMAIN disk \cup {k} /\ disk' \in [DOMAIN disk' -> {"part", "whole"}]
    BY <1>1, <2>1 DEF With, AttachOK
  <2>3. Append(req.files, k) # <<>>
    BY <1>1, AppendProperties DEF AttachOK, RequestType
  <2>4. QED
    BY <1>1, <1>2, <2>1, <2>2, <2>3 DEF AttachOK
<1>5. CASE FinishUpload
  <2>1. PICK k \in Keys :
           /\ disk' = [disk EXCEPT ![k] = "whole"]
           /\ req' \in RequestType /\ req'.stage \in {"loading", "uploading"}
           /\ UNCHANGED <<batch, stored, working, listed, number, late, accepted, asked, lates>>
    BY <1>1, <1>5, FinishUploadIs
  <2>2. DOMAIN disk' = DOMAIN disk /\ disk' \in [DOMAIN disk' -> {"part", "whole"}]
    BY <1>1, <2>1 DEF AttachOK
  <2>3. QED
    BY <1>1, <1>2, <2>1, <2>2 DEF AttachOK
<1>6. CASE FailUpload
  <2>1. PICK S : disk' = disk \/ disk' = Without(disk, S)
    BY <1>6 DEF FailUpload
  <2>2. DOMAIN disk' \subseteq DOMAIN disk /\ disk' \in [DOMAIN disk' -> {"part", "whole"}]
    BY <1>1, <2>1 DEF Without, AttachOK
  <2>3. req' = NoRequest /\ working' = FALSE
        /\ UNCHANGED <<batch, stored, listed, number, late, accepted, asked, lates>>
    BY <1>6 DEF FailUpload
  <2>4. QED
    BY <1>1, <1>2, <2>2, <2>3, NoRequestIs DEF AttachOK
<1>7. CASE LoadContext
  BY <1>1, <1>2, <1>7, LoadContextIs DEF AttachOK
<1>8. CASE SaveContext
  BY <1>1, <1>2, <1>8, SaveContextIs DEF AttachOK
<1>9. QED
  BY <1>3, <1>4, <1>5, <1>6, <1>7, <1>8 DEF Requests

LEMMA StorageOK ==
  ASSUME TypesInv, Storage
  PROVE  RunOK' /\ AttachOK' /\ UNCHANGED space
<1>1. AttachOK /\ RunOK
  BY DEF TypesInv
<1>2. UNCHANGED space
  BY DEF Storage
<1>3. CASE StartTurn
  <2>1. AttachOK'
    BY <1>1, <1>3, StartTurnIs DEF AttachOK, uploads
  <2>2. RunOK'
    BY <1>1, <1>3 DEF StartTurn, RunOK
  <2>3. QED
    BY <1>2, <2>1, <2>2
<1>4. CASE SaveFiles
  BY <1>1, <1>2, <1>4 DEF SaveFiles, AttachOK, RunOK, uploads
<1>5. CASE LateSave
  BY <1>1, <1>2, <1>5 DEF LateSave, AttachOK, RunOK, uploads, batch
<1>6. QED
  BY <1>3, <1>4, <1>5 DEF Storage

LEMMA DeleteOK ==
  ASSUME TypesInv, NEW i \in Runs, Delete(i)
  PROVE  RunOK' /\ AttachOK' /\ UNCHANGED space
<1>1. AttachOK /\ RunOK
  BY DEF TypesInv
<1>2. UNCHANGED space
  BY DEF Delete
<1>3. CASE BeginDelete(i)
  <2>1. RunOK' /\ (\E k \in Keys : asked' = asked \cup {k})
        /\ UNCHANGED <<disk, stored, uploads, listed, number, late, lates>>
    BY <1>1, <1>3, BeginDeleteIs
  <2>2. QED
    BY <1>1, <1>2, <2>1 DEF AttachOK, uploads
<1>4. CASE UnlinkFile(i)
  <2>1. RunOK' /\ (\E S : disk' \in {disk, Without(disk, S)})
        /\ UNCHANGED <<stored, uploads, listed, number, late, asked, lates>>
    BY <1>1, <1>4, UnlinkFileIs
  <2>2. DOMAIN disk' \subseteq DOMAIN disk /\ disk' \in [DOMAIN disk' -> {"part", "whole"}]
    BY <1>1, <2>1 DEF Without, AttachOK
  <2>3. QED
    BY <1>1, <1>2, <2>1, <2>2 DEF AttachOK, uploads
<1>5. CASE EndDelete(i)
  BY <1>1, <1>2, <1>5, EndDeleteIs DEF AttachOK, uploads
<1>6. QED
  BY <1>3, <1>4, <1>5 DEF Delete

LEMMA LeaveFilesOK ==
  ASSUME AttachOK, NEW cut, LeaveFiles(cut)
  PROVE  /\ AttachOK' /\ req' = NoRequest /\ listed' = <<>>
         /\ \/ UNCHANGED <<late, lates>>
            \/ turn = "saving" /\ late' = listed /\ lates' = lates + 1
         /\ UNCHANGED <<disk, stored, number, accepted, asked>>
<1>1. /\ working' = FALSE /\ req' = NoRequest /\ listed' = <<>>
      /\ \/ UNCHANGED <<late, lates>>
         \/ turn = "saving" /\ lates < MaxLates /\ late' = listed /\ lates' = lates + 1
      /\ UNCHANGED <<disk, stored, number, accepted, asked>>
  BY DEF LeaveFiles
<1>2. lates' \in 0 .. MaxLates /\ <<>> \in Seq(Keys)
  BY <1>1, FilesAssumption, EmptySeq DEF AttachOK
<1>3. AttachOK'
  BY <1>1, <1>2, NoRequestIs DEF AttachOK
<1>4. QED
  BY <1>1, <1>3

LEMMA CrashFilesOK ==
  ASSUME AttachOK, CrashFiles
  PROVE  /\ AttachOK' /\ req' = NoRequest /\ listed' = <<>> /\ late' = None
         /\ UNCHANGED <<disk, stored, working, number, accepted, asked, lates>>
BY NoRequestIs, EmptySeq DEF CrashFiles, AttachOK

LEMMA TypesInit == Init => TypesInv
<1>1. SUFFICES ASSUME Init PROVE TypesInv
  OBVIOUS
<1>2. RunOK
  <2>1. run = [i \in Runs |-> Idle] /\ todo = <<>> /\ turn = "off" /\ cancels = 0
    BY <1>1 DEF Init
  <2>2. run \in [Runs -> Records] /\ \A i \in Runs : Fits(run[i])
    BY <2>1, IdleFits
  <2>3. QED
    BY <2>1, <2>2, EmptySeq, BatchAssumption DEF RunOK
<1>3. SpaceOK
  <2>1. tree = <<>> /\ alone = TRUE /\ touches = 0
    BY <1>1 DEF Init, SpaceInit
  <2>2. DOMAIN tree = {}
    BY <2>1
  <2>3. tree \in [DOMAIN tree -> Nodes]
    BY <2>1, <2>2
  <2>4. QED
    BY <2>1, <2>2, <2>3, FilesAssumption DEF SpaceOK, TreeOK
<1>4. AttachOK
  <2>1. /\ disk = <<>> /\ stored = <<>> /\ working = FALSE /\ req = NoRequest
        /\ listed = <<>> /\ number = <<>> /\ late = None
        /\ accepted = {} /\ asked = {} /\ lates = 0
    BY <1>1 DEF Init, AttachInit
  <2>2. /\ DOMAIN disk = {} /\ disk \in [DOMAIN disk -> {"part", "whole"}]
        /\ DOMAIN number = {} /\ number \in [DOMAIN number -> Nat]
    BY <2>1
  <2>3. req \in RequestType /\ req.stage = "none"
    BY <2>1, NoRequestIs
  <2>4. <<>> \in Seq(Keys) /\ lates \in 0 .. MaxLates
    BY <2>1, EmptySeq, FilesAssumption
  <2>5. stored \in Seq(Keys) /\ listed \in Seq(Keys)
    BY <2>1, <2>4
  <2>6. QED
    BY <2>1, <2>2, <2>3, <2>4, <2>5 DEF AttachOK
<1>5. QED
  BY <1>2, <1>3, <1>4 DEF TypesInv

LEMMA TypesNext == TypesInv /\ [Next]_vars => TypesInv'
<1>1. SUFFICES ASSUME TypesInv, [Next]_vars PROVE TypesInv'
  OBVIOUS
<1>2. RunOK /\ SpaceOK /\ AttachOK
  BY <1>1 DEF TypesInv
<1>3. CASE Requests
  <2>1. AttachOK' /\ UNCHANGED <<batch, space>>
    BY <1>1, <1>3, RequestsOK
  <2>2. RunOK' /\ SpaceOK'
    BY <1>2, <2>1 DEF RunOK, SpaceOK, TreeOK, batch, space
  <2>3. QED
    BY <2>1, <2>2 DEF TypesInv
<1>4. CASE Storage
  <2>1. SpaceOK'
    BY <1>1, <1>2, <1>4, StorageOK DEF SpaceOK, TreeOK, space
  <2>2. QED
    BY <1>1, <1>4, <2>1, StorageOK DEF TypesInv
<1>5. ASSUME NEW i \in Runs, Delete(i) PROVE TypesInv'
  <2>1. RunOK' /\ AttachOK' /\ UNCHANGED space
    BY <1>1, <1>5, DeleteOK
  <2>2. SpaceOK'
    BY <1>2, <2>1 DEF SpaceOK, TreeOK, space
  <2>3. QED
    BY <2>1, <2>2 DEF TypesInv
<1>6. ASSUME NEW i \in Runs, Beside(i) PROVE TypesInv'
  <2>1. RunOK' /\ SpaceOK' /\ UNCHANGED attach
    BY <1>2, <1>6, BesideOK
  <2>2. AttachOK'
    BY <1>2, <2>1 DEF AttachOK, attach, uploads
  <2>3. QED
    BY <2>1, <2>2 DEF TypesInv
<1>7. CASE Ask
  <2>1. RunOK' /\ SpaceOK'
    BY <1>2, <1>7, AskIs
  <2>2. AttachOK'
    BY <1>2, <1>7 DEF Ask, AttachOK, attach, uploads
  <2>3. QED
    BY <2>1, <2>2 DEF TypesInv
<1>8. CASE Answered
  BY <1>2, <1>8 DEF Answered, TypesInv, RunOK, SpaceOK, TreeOK, AttachOK, attach, uploads, space
<1>9. CASE EndTurn
  <2>1. RunOK' /\ SpaceOK' /\ LeaveFiles(FALSE)
    BY <1>2, <1>9 DEF EndTurn, RunOK, SpaceOK, TreeOK, space
  <2>2. QED
    BY <1>2, <2>1, LeaveFilesOK DEF TypesInv
<1>10. CASE Cancel
  <2>1. RunOK' /\ LeaveFiles(TRUE) /\ UNCHANGED space
    BY <1>2, <1>10, CancelIs
  <2>2. SpaceOK'
    BY <1>2, <2>1 DEF SpaceOK, TreeOK, space
  <2>3. QED
    BY <1>2, <2>1, <2>2, LeaveFilesOK DEF TypesInv
<1>11. CASE Crash
  <2>1. RunOK' /\ CrashFiles /\ UNCHANGED space
    BY <1>2, <1>11, CrashIs
  <2>2. SpaceOK'
    BY <1>2, <2>1 DEF SpaceOK, TreeOK, space
  <2>3. QED
    BY <1>2, <2>1, <2>2, CrashFilesOK DEF TypesInv
<1>12. CASE UNCHANGED vars
  <2>1. UNCHANGED <<batch, attach, space>>
    BY <1>12 DEF vars
  <2>2. RunOK' /\ SpaceOK' /\ AttachOK'
    BY <1>2, <2>1 DEF RunOK, SpaceOK, TreeOK, AttachOK, batch, attach, uploads, space
  <2>3. QED
    BY <2>2 DEF TypesInv
<1>13. QED
  BY <1>1, <1>3, <1>4, <1>5, <1>6, <1>7, <1>8, <1>9, <1>10, <1>11, <1>12 DEF Next, Beside

\* Every part of the state keeps its type: above all, that every entry of the workspace
\* stays in a folder, whatever calls, commands and removals do to it at a time.
THEOREM FilesTypes == Spec => []TypeOK
<1>1. TypesInv => TypeOK
  BY DEF TypesInv, RunOK, SpaceOK, TreeOK, AttachOK, RequestType, TypeOK, AttachTypeOK,
         SpaceTypeOK
<1>2. QED
  BY <1>1, TypesInit, TypesNext, PTL DEF Spec

-----------------------------------------------------------------------------
(* What a step beside the attachments does to the calls: one of them changes, and
   none becomes a delete that is under way or done. *)

Deleting(i) == run[i].stage \in {"unlinking", "unlinked"}

\* Record r is a delete that said "ok".
Told(r) == /\ r.call \in Calls /\ r.call.tool = "delete"
           /\ r.stage = "answered" /\ r.answer = "ok"

\* Record r can follow record q in the place of call i.
Follows(i, q, r) ==
  /\ r = q \/ r.stage \notin {"unlinking", "unlinked"}
  /\ r = q \/ ~Told(r)
  /\ \/ i \notin Live \/ r.call = q.call
     \/ q.call \in Calls /\ q.call.tool = "bash"
     \/ todo # <<>> /\ i = Len(todo) /\ r.call = Head(todo)

LEMMA BeginFollows ==
  ASSUME RunOK, NEW i \in Runs,
         BeginList(i) \/ BeginFolder(i) \/ BeginUpload(i) \/ BeginRemove(i) \/ BeginCommand(i)
  PROVE  /\ turn' = turn /\ todo # <<>> /\ todo' = Tail(todo)
         /\ \E r \in Records : run' = [run EXCEPT ![i] = r] /\ Follows(i, run[i], r)
<1>1. PICK tool \in {"list", "folder", "upload", "remove", "bash"} :
        /\ Due(i, tool)
        /\ \/ \E a \in {"ok", "error", "gone"} : Begins(i, Answer(a))
           \/ tool = "upload" /\ Begins(i, [Idle EXCEPT !.stage = "opening"])
           \/ tool = "remove" /\ \E stage \in {"removing", "scanning"} :
                                  Begins(i, [Idle EXCEPT !.stage = stage])
           \/ tool = "bash" /\ Begins(i, [Idle EXCEPT !.stage = "waiting", !.shell = TRUE])
  <2>1. CASE BeginList(i)
    BY <2>1 DEF BeginList, Making
  <2>2. CASE BeginFolder(i)
    BY <2>2 DEF BeginFolder, Making
  <2>3. CASE BeginUpload(i)
    BY <2>3 DEF BeginUpload, Making
  <2>4. CASE BeginRemove(i)
    BY <2>4 DEF BeginRemove
  <2>5. CASE BeginCommand(i)
    BY <2>5 DEF BeginCommand, Making
  <2>6. QED
    BY <2>1, <2>2, <2>3, <2>4, <2>5
<1>2. PICK c \in Calls : c = Head(todo) /\ c.tool = tool
  BY <1>1, DueIs
<1>3. ASSUME NEW q, Begins(i, q), NEW r \in Records, r = [q EXCEPT !.call = c],
             r.call = c, r.stage \notin {"unlinking", "unlinked"}
      PROVE  /\ turn' = turn /\ todo # <<>> /\ todo' = Tail(todo)
             /\ \E s \in Records : run' = [run EXCEPT ![i] = s] /\ Follows(i, run[i], s)
  <2>1. turn' = turn /\ todo' = Tail(todo) /\ run' = [run EXCEPT ![i] = r]
    BY <1>2, <1>3 DEF Begins
  <2>2. todo # <<>> /\ Follows(i, run[i], r)
    BY <1>1, <1>2, <1>3 DEF Follows, Told, Due
  <2>3. QED
    BY <2>1, <2>2
<1>4. CASE \E a \in {"ok", "error", "gone"} : Begins(i, Answer(a))
  <2>1. PICK a \in {"ok", "error", "gone"} : Begins(i, Answer(a))
    BY <1>4
  <2>2. PICK r : r = [Answer(a) EXCEPT !.call = c]
    OBVIOUS
  <2>3. r \in Records /\ r.call = c /\ r.stage = "answered"
    BY <2>2, AnswerOK
  <2>4. QED
    BY <1>3, <2>1, <2>2, <2>3
<1>5. CASE tool = "upload" /\ Begins(i, [Idle EXCEPT !.stage = "opening"])
  <2>1. PICK q : q = [Idle EXCEPT !.stage = "opening"]
    OBVIOUS
  <2>2. PICK r : r = [q EXCEPT !.call = c]
    OBVIOUS
  <2>3. r \in Records /\ r.call = c /\ r.stage = "opening"
    <3>1. c.tool = "upload"
      BY <1>2, <1>5
    <3>2. QED
      BY <2>1, <2>2, <3>1, UploadBegins
  <2>4. QED
    BY <1>3, <1>5, <2>1, <2>2, <2>3
<1>6. CASE tool = "remove" /\ \E stage \in {"removing", "scanning"} :
                                Begins(i, [Idle EXCEPT !.stage = stage])
  <2>1. PICK stage \in {"removing", "scanning"} : Begins(i, [Idle EXCEPT !.stage = stage])
    BY <1>6
  <2>2. PICK q : q = [Idle EXCEPT !.stage = stage]
    OBVIOUS
  <2>3. PICK r : r = [q EXCEPT !.call = c]
    OBVIOUS
  <2>4. r \in Records /\ r.call = c /\ r.stage = stage
    <3>1. c.tool = "remove"
      BY <1>2, <1>6
    <3>2. QED
      BY <2>2, <2>3, <3>1, EmptySeq DEF Idle, Records, CallStages
  <2>5. QED
    BY <1>3, <2>1, <2>2, <2>3, <2>4
<1>7. CASE tool = "bash" /\ Begins(i, [Idle EXCEPT !.stage = "waiting", !.shell = TRUE])
  <2>1. PICK q : q = [Idle EXCEPT !.stage = "waiting", !.shell = TRUE]
    OBVIOUS
  <2>2. PICK r : r = [q EXCEPT !.call = c]
    OBVIOUS
  <2>3. r \in Records /\ r.call = c /\ r.stage = "waiting"
    <3>1. r = [[Idle EXCEPT !.stage = "waiting", !.shell = TRUE] EXCEPT !.call = c]
      BY <2>1, <2>2
    <3>2. r.call = c /\ r.stage = "waiting"
      BY <3>1 DEF Idle
    <3>3. r \in Records
      BY <3>1, <1>2, EmptySeq DEF Idle, Records, CallStages
    <3>4. QED
      BY <3>2, <3>3
  <2>4. QED
    BY <1>3, <1>7, <2>1, <2>2, <2>3
<1>8. QED
  BY <1>1, <1>4, <1>5, <1>6, <1>7

\* The record of a call after one step of its work: its call stays.
LEMMA WorkFollows ==
  ASSUME RunOK, NEW i \in Runs,
         \/ OpenFile(i) \/ WriteFile(i) \/ RemoveFile(i) \/ Scan(i) \/ Clear(i)
         \/ RemoveFolder(i) \/ Reply(i) \/ Fork(i) \/ ShellExits(i) \/ ChildExits(i)
         \/ EndCommand(i) \/ Timeout(i) \/ Touch(i)
  PROVE  /\ turn' = turn /\ todo' = todo
         /\ \E r : run' = [run EXCEPT ![i] = r] /\ Follows(i, run[i], r)
<1>1. PICK q \in Records : q = run[i] /\ Fits(q)
  BY DEF RunOK
<1>2. Idle.stage = "idle"
  BY DEF Idle
<1>3. ASSUME NEW r, Leaves(i, r), r.call = q.call, r.stage \in {"raised", "worked"}
      PROVE  /\ turn' = turn /\ todo' = todo
             /\ \E s : run' = [run EXCEPT ![i] = s] /\ Follows(i, q, s)
  <2>1. turn' = turn /\ todo' = todo
    BY <1>3 DEF Leaves
  <2>2. CASE i \in Live
    BY <1>3, <2>1, <2>2 DEF Leaves, Follows, Told
  <2>3. CASE i \notin Live
    <3>1. run' = [run EXCEPT ![i] = Idle]
      BY <1>3, <2>3 DEF Leaves
    <3>2. Follows(i, q, Idle)
      BY <1>2, <2>3 DEF Follows, Told
    <3>3. QED
      BY <2>1, <3>1, <3>2
  <2>4. QED
    BY <2>2, <2>3
<1>4. ASSUME NEW r, Steps(i, r), Follows(i, q, r)
      PROVE  /\ turn' = turn /\ todo' = todo
             /\ \E s : run' = [run EXCEPT ![i] = s] /\ Follows(i, q, s)
  BY <1>4 DEF Steps
<1>5. CASE \/ OpenFile(i) \/ WriteFile(i) \/ RemoveFile(i) \/ Clear(i) \/ RemoveFolder(i)
  <2>1. PICK r :
          \/ /\ Leaves(i, r) /\ r.call = q.call /\ r.stage \in {"raised", "worked"}
          \/ /\ Steps(i, r) /\ r.call = q.call /\ r.stage \in {"writing", "clearing"}
    <3>1. CASE OpenFile(i)
      <4>1. PICK id : \/ Steps(i, [q EXCEPT !.stage = "writing", !.file = id])
                      \/ Leaves(i, [q EXCEPT !.stage = "raised"])
        BY <1>1, <3>1 DEF OpenFile
      <4>2. /\ [q EXCEPT !.stage = "writing", !.file = id].call = q.call
            /\ [q EXCEPT !.stage = "writing", !.file = id].stage = "writing"
            /\ [q EXCEPT !.stage = "raised"].call = q.call
            /\ [q EXCEPT !.stage = "raised"].stage = "raised"
        BY <1>1 DEF Records
      <4>3. QED
        BY <4>1, <4>2
    <3>2. CASE WriteFile(i)
      <4>1. Leaves(i, [q EXCEPT !.stage = "worked", !.file = 0])
        BY <1>1, <3>2 DEF WriteFile
      <4>2. /\ [q EXCEPT !.stage = "worked", !.file = 0].call = q.call
            /\ [q EXCEPT !.stage = "worked", !.file = 0].stage = "worked"
        BY <1>1 DEF Records
      <4>3. QED
        BY <4>1, <4>2
    <3>3. CASE RemoveFile(i) \/ RemoveFolder(i)
      <4>1. PICK stage \in {"worked", "raised"} : Leaves(i, [q EXCEPT !.stage = stage])
        BY <1>1, <3>3 DEF RemoveFile, RemoveFolder
      <4>2. /\ [q EXCEPT !.stage = stage].call = q.call
            /\ [q EXCEPT !.stage = stage].stage = stage
        BY <1>1 DEF Records
      <4>3. QED
        BY <4>1, <4>2
    <3>4. CASE Clear(i)
      <4>1. PICK names : \/ Steps(i, [q EXCEPT !.names = names])
                         \/ Leaves(i, [q EXCEPT !.stage = "raised", !.names = {}])
        BY <1>1, <3>4 DEF Clear
      <4>2. q.stage = "clearing"
        BY <1>1, <3>4 DEF Clear, At
      <4>3. /\ [q EXCEPT !.names = names].call = q.call
            /\ [q EXCEPT !.names = names].stage = "clearing"
            /\ [q EXCEPT !.stage = "raised", !.names = {}].call = q.call
            /\ [q EXCEPT !.stage = "raised", !.names = {}].stage = "raised"
        BY <1>1, <4>2 DEF Records
      <4>4. QED
        BY <4>1, <4>3
    <3>5. QED
      BY <1>5, <3>1, <3>2, <3>3, <3>4
  <2>2. Steps(i, r) /\ r.call = q.call /\ r.stage \in {"writing", "clearing"}
        => Follows(i, q, r)
    BY DEF Follows, Told
  <2>3. QED
    BY <1>1, <1>3, <1>4, <2>1, <2>2
<1>6. CASE Scan(i) \/ Fork(i) \/ Timeout(i)
  <2>1. PICK r : /\ Steps(i, r) /\ r.call = q.call
                 /\ r.stage \in {"clearing", "draining"} \/ (q.shell /\ r.stage = q.stage)
    <3>1. CASE Scan(i)
      <4>1. PICK names : Steps(i, [q EXCEPT !.stage = "clearing", !.names = names])
        BY <1>1, <3>1 DEF Scan
      <4>2. /\ [q EXCEPT !.stage = "clearing", !.names = names].call = q.call
            /\ [q EXCEPT !.stage = "clearing", !.names = names].stage = "clearing"
        BY <1>1 DEF Records
      <4>3. QED
        BY <4>1, <4>2
    <3>2. CASE Fork(i)
      <4>1. q.shell /\ Steps(i, [q EXCEPT !.child = TRUE])
        BY <1>1, <3>2 DEF Fork
      <4>2. /\ [q EXCEPT !.child = TRUE].call = q.call
            /\ [q EXCEPT !.child = TRUE].stage = q.stage
        BY <1>1 DEF Records
      <4>3. QED
        BY <4>1, <4>2
    <3>3. CASE Timeout(i)
      <4>1. Steps(i, [q EXCEPT !.stage = "draining", !.shell = FALSE])
        BY <1>1, <3>3 DEF Timeout
      <4>2. /\ [q EXCEPT !.stage = "draining", !.shell = FALSE].call = q.call
            /\ [q EXCEPT !.stage = "draining", !.shell = FALSE].stage = "draining"
        BY <1>1 DEF Records
      <4>3. QED
        BY <4>1, <4>2
    <3>4. QED
      BY <1>6, <3>1, <3>2, <3>3
  <2>2. q.shell => q.call.tool = "bash" /\ q.stage \notin {"unlinking", "unlinked"}
    BY <1>1 DEF Fits
  <2>3. Follows(i, q, r)
    BY <2>1, <2>2 DEF Follows, Told
  <2>4. QED
    BY <1>1, <1>4, <2>1, <2>3
<1>7. CASE ShellExits(i) \/ ChildExits(i)
  <2>1. /\ q.shell \/ q.child
        /\ \/ Steps(i, Idle) \/ Steps(i, [q EXCEPT !.shell = FALSE])
           \/ Steps(i, [q EXCEPT !.child = FALSE])
    BY <1>1, <1>7 DEF ShellExits, ChildExits
  <2>2. /\ q.call \in Calls /\ q.call.tool = "bash"
        /\ q.stage \notin {"unlinking", "unlinked"}
    BY <1>1, <2>1 DEF Fits
  <2>3. /\ [q EXCEPT !.shell = FALSE].call = q.call /\ [q EXCEPT !.shell = FALSE].stage = q.stage
        /\ [q EXCEPT !.child = FALSE].call = q.call /\ [q EXCEPT !.child = FALSE].stage = q.stage
    BY <1>1 DEF Records
  <2>4. \A r : (r = Idle \/ (r.call = q.call /\ r.stage = q.stage)) => Follows(i, q, r)
    BY <1>2, <2>2 DEF Follows, Told
  <2>5. QED
    BY <1>1, <1>4, <2>1, <2>3, <2>4
<1>8. CASE Reply(i)
  <2>1. PICK a \in {"ok", "error"} :
          /\ Steps(i, [q EXCEPT !.stage = "answered", !.answer = a])
          /\ a = "ok" => q.stage = "worked"
    BY <1>1, <1>8 DEF Reply, At
  <2>2. PICK r : r = [q EXCEPT !.stage = "answered", !.answer = a]
    OBVIOUS
  <2>3. r.call = q.call /\ r.stage = "answered" /\ r.answer = a
    BY <1>1, <2>2 DEF Records
  <2>4. Follows(i, q, r)
    BY <1>1, <2>1, <2>3 DEF Follows, Told, Fits
  <2>5. QED
    BY <1>1, <1>4, <2>1, <2>2, <2>4
<1>9. CASE EndCommand(i)
  <2>1. PICK a : /\ Steps(i, [q EXCEPT !.stage = "answered", !.answer = a])
                 /\ q.stage \in {"waiting", "draining"}
    BY <1>1, <1>9 DEF EndCommand, At
  <2>2. PICK r : r = [q EXCEPT !.stage = "answered", !.answer = a]
    OBVIOUS
  <2>3. r.call = q.call /\ r.stage = "answered" /\ q.call.tool = "bash"
    BY <1>1, <2>1, <2>2 DEF Records, Fits
  <2>4. Follows(i, q, r)
    BY <2>3 DEF Follows, Told
  <2>5. QED
    BY <1>1, <1>4, <2>1, <2>2, <2>4
<1>10. CASE Touch(i)
  <2>1. turn' = turn /\ todo' = todo /\ run' = run
    BY <1>10 DEF Touch, batch
  <2>2. run' = [run EXCEPT ![i] = q]
    BY <1>1, <2>1 DEF RunOK
  <2>3. Follows(i, q, q)
    BY DEF Follows
  <2>4. QED
    BY <1>1, <2>1, <2>2, <2>3
<1>11. QED
  BY <1>5, <1>6, <1>7, <1>8, <1>9, <1>10

LEMMA BesideFollows ==
  ASSUME RunOK, NEW i \in Runs, Beside(i)
  PROVE  /\ turn' = turn /\ (todo' = todo \/ (todo # <<>> /\ todo' = Tail(todo)))
         /\ \E r : run' = [run EXCEPT ![i] = r] /\ Follows(i, run[i], r)
BY BeginFollows, WorkFollows, Zenon DEF Beside, WorkspaceCall, Command, Program

-----------------------------------------------------------------------------
(* Where files are kept *)

\* The files of S, but the ones of A, are whole on disk d; all of S and A is accepted.
Whole(S, d, A) == \A k \in S \ A : k \in DOMAIN d /\ d[k] = "whole"
Has(S, acc, A) == acc \subseteq S \cup A

\* A delete is part of the message at work, or of one whose turn was cancelled.
Turns ==
  /\ todo # <<>> => turn = "tools"
  /\ turn # "off" => req.stage = "started"
  /\ \A i \in Live : Deleting(i) => turn = "tools"
  /\ \A i \in Runs : Deleting(i) => run[i].call.key \in asked
  /\ \A i \in Left : ~At(i, "unlinked")

\* Every list of files is on disk: the stored one, the turn's, those that a request, a
\* call or a late save has in mind.
OnDisk ==
  /\ Whole(ToSet(stored), disk, asked) /\ Whole(ToSet(listed), disk, asked)
  /\ Whole(ToSet(req.found), disk, asked)
  /\ late # None => Whole(ToSet(late), disk, asked)
  /\ \A i \in Live : Deleting(i) => Whole(ToSet(run[i].view), disk, asked)

\* So are the files of the request, but for the one it is writing.
Uploaded ==
  /\ req.stage # "writing" => Whole(ToSet(req.files), disk, asked)
  /\ req.stage = "writing" =>
       \E k \in Keys, s \in Seq(Keys) :
         /\ req.files = Append(s, k) /\ Whole(ToSet(s), disk, asked)
         /\ k \in DOMAIN disk /\ disk[k] = "part" /\ k \notin asked

\* Until a save is late, every list has the accepted files.
Listing ==
  /\ late # None => lates > 0
  /\ lates = 0 =>
       /\ Has(ToSet(stored), accepted, asked)
       /\ req.stage = "merging" => Has(ToSet(req.found), accepted, asked)
       /\ turn # "off" => Has(ToSet(listed), accepted, asked)
       /\ \A i \in Live : Deleting(i) => Has(ToSet(run[i].view), accepted, asked)

KeptInv == Turns /\ OnDisk /\ Uploaded /\ Listing

\* A disk that still has what was whole and is not asked to be deleted.
LEMMA StaysWhole ==
  ASSUME NEW d, NEW A, NEW e, NEW B, A \subseteq B,
         \A k \in DOMAIN d \ B : d[k] = "whole" => k \in DOMAIN e /\ e[k] = "whole"
  PROVE  \A S : Whole(S, d, A) => Whole(S, e, B)
BY DEF Whole

LEMMA PartOf ==
  ASSUME NEW d, NEW A, NEW S, NEW T, Whole(S, d, A), T \subseteq S
  PROVE  Whole(T, d, A)
BY DEF Whole

LEMMA BothWhole ==
  ASSUME NEW d, NEW A, NEW S, NEW T, Whole(S, d, A), Whole(T, d, A)
  PROVE  Whole(S \cup T, d, A)
BY DEF Whole

\* No call but call i changes, and that does not become a delete under way.
LEMMA OneCall ==
  ASSUME RunOK, NEW i \in Runs, NEW r, run' = [run EXCEPT ![i] = r]
  PROVE  \A j \in Runs : run'[j] = IF j = i THEN r ELSE run[j]
BY DEF RunOK

LEMMA BesideKept ==
  ASSUME TypesInv, KeptInv, NEW i \in Runs, Beside(i)
  PROVE  KeptInv'
<1>1. RunOK /\ UNCHANGED attach
  BY BesideOK DEF TypesInv
<1>2. UNCHANGED <<disk, stored, req, working, accepted, listed, number, late, asked, lates>>
  BY <1>1 DEF attach, uploads
<1>3. turn' = turn /\ (todo' # <<>> => todo # <<>>)
  BY <1>1, BesideFollows
<1>4. \A j \in Runs : run'[j].stage \in {"unlinking", "unlinked"} => run'[j] = run[j]
  <2>1. PICK r : run' = [run EXCEPT ![i] = r] /\ Follows(i, run[i], r)
    BY <1>1, BesideFollows
  <2>2. QED
    BY <1>1, <2>1, OneCall DEF Follows
<1>5. Turns'
  BY <1>2, <1>3, <1>4, LiveInRuns DEF KeptInv, Turns, Deleting, At, Runs
<1>6. OnDisk'
  BY <1>2, <1>4, LiveInRuns DEF KeptInv, OnDisk, Deleting
<1>7. Uploaded'
  BY <1>2 DEF KeptInv, Uploaded
<1>8. Listing'
  BY <1>2, <1>3, <1>4, LiveInRuns DEF KeptInv, Listing, Deleting
<1>9. QED
  BY <1>5, <1>6, <1>7, <1>8 DEF KeptInv

\* What a request with another stage, another disk and the same lists leaves.
LEMMA RequestKept ==
  ASSUME TypesInv, KeptInv, UNCHANGED <<batch, listed, late, asked, lates>>,
         turn = "off",
         Whole(ToSet(stored'), disk', asked), Whole(ToSet(req'.found), disk', asked),
         \A k \in DOMAIN disk \ asked :
           disk[k] = "whole" => k \in DOMAIN disk' /\ disk'[k] = "whole",
         Uploaded',
         lates = 0 => Has(ToSet(stored'), accepted', asked),
         lates = 0 /\ req'.stage = "merging" => Has(ToSet(req'.found), accepted', asked)
  PROVE  KeptInv'
<1>1. turn' = "off" /\ turn = "off" /\ UNCHANGED <<todo, run>>
  BY DEF batch
<1>2. \A i \in Live : ~Deleting(i)
  BY <1>1 DEF KeptInv, Turns
<1>3. \A S : Whole(S, disk, asked) => Whole(S, disk', asked)
  BY StaysWhole, Zenon
<1>4. Turns'
  BY <1>1 DEF KeptInv, Turns, Deleting, At
<1>5. OnDisk'
  BY <1>1, <1>2, <1>3 DEF KeptInv, OnDisk, Deleting
<1>6. Listing'
  BY <1>1, <1>2 DEF KeptInv, Listing, Deleting
<1>7. QED
  BY <1>4, <1>5, <1>6 DEF KeptInv

LEMMA RequestsKept ==
  ASSUME TypesInv, KeptInv, Requests
  PROVE  KeptInv'
<1>1. AttachOK /\ RunOK
  BY DEF TypesInv
<1>2. OnDisk /\ Uploaded /\ Listing /\ Turns
  BY DEF KeptInv
<1>3. Whole(ToSet(<<>>), disk, asked)
  BY DEF Whole, ToSet
<1>4. CASE Claim
  <2>1. turn = "off" \/ turn # "off"
    OBVIOUS
  <2>2. turn = "off"
    BY <1>1, <1>2, <1>4, ClaimIs DEF Turns
  <2>3. Uploaded'
    BY <1>1, <1>3, <1>4, ClaimIs DEF Uploaded
  <2>4. QED
    BY <1>1, <1>2, <1>3, <1>4, <2>2, <2>3, ClaimIs, RequestKept DEF OnDisk, Listing
<1>5. CASE OpenUpload
  <2>1. PICK k \in Keys :
           /\ k \notin DOMAIN disk \cup asked
           /\ disk' = With(disk, k, "part") /\ req.stage = "uploading"
           /\ req'.stage = "writing" /\ req'.files = Append(req.files, k)
           /\ req'.found = req.found
           /\ UNCHANGED <<batch, stored, listed, late, accepted, asked, lates>>
    BY <1>1, <1>5, OpenUploadIs
  <2>2. turn = "off"
    BY <1>2, <2>1 DEF Turns
  <2>3. /\ k \in DOMAIN disk' /\ disk'[k] = "part"
        /\ \A j \in DOMAIN disk : j \in DOMAIN disk' /\ disk'[j] = disk[j]
    BY <2>1 DEF With
  <2>4. \A S : Whole(S, disk, asked) => Whole(S, disk', asked)
    BY <2>3 DEF Whole
  <2>5. req.files \in Seq(Keys) /\ Whole(ToSet(req.files), disk', asked)
    BY <1>1, <1>2, <2>1, <2>4 DEF Uploaded, AttachOK, RequestType
  <2>6. Uploaded'
    BY <2>1, <2>3, <2>5 DEF Uploaded
  <2>7. QED
    BY <1>2, <2>1, <2>2, <2>3, <2>4, <2>6, RequestKept DEF OnDisk, Listing
<1>6. CASE FinishUpload
  <2>1. PICK l \in Keys :
           /\ req.stage = "writing" /\ l = Last(req.files)
           /\ disk' = [disk EXCEPT ![l] = "whole"]
           /\ req'.stage \in {"loading", "uploading"}
           /\ req'.files = req.files /\ req'.found = req.found
           /\ UNCHANGED <<batch, stored, listed, late, accepted, asked, lates>>
    BY <1>1, <1>6, FinishUploadIs
  <2>2. turn = "off"
    BY <1>2, <2>1 DEF Turns
  <2>3. PICK k \in Keys, s \in Seq(Keys) :
          /\ req.files = Append(s, k) /\ Whole(ToSet(s), disk, asked)
          /\ k \in DOMAIN disk /\ disk[k] = "part" /\ k \notin asked
    BY <1>2, <2>1 DEF Uploaded
  <2>4. k = l
    BY <2>1, <2>3, AppendProperties DEF Last
  <2>5. /\ k \in DOMAIN disk' /\ disk'[k] = "whole"
        /\ \A j \in DOMAIN disk : j \in DOMAIN disk' /\ (disk[j] = "whole" => disk'[j] = "whole")
    BY <1>1, <2>1, <2>3, <2>4 DEF AttachOK
  <2>6. \A S : Whole(S, disk, asked) => Whole(S, disk', asked)
    BY <2>5 DEF Whole
  <2>7. ToSet(req.files) = ToSet(s) \cup {k}
    BY <2>3, AppendSet
  <2>8. Whole(ToSet(req'.files), disk', asked)
    BY <2>1, <2>3, <2>5, <2>6, <2>7 DEF Whole
  <2>9. Uploaded'
    BY <2>1, <2>8 DEF Uploaded
  <2>10. QED
    BY <1>2, <2>1, <2>2, <2>5, <2>6, <2>9, RequestKept DEF OnDisk, Listing
<1>7. CASE FailUpload
  <2>1. /\ req.stage \in {"uploading", "writing"} /\ req' = NoRequest
        /\ disk' = disk \/ (req.stage = "writing" /\ disk' = Without(disk, {Last(req.files)}))
        /\ UNCHANGED <<batch, stored, listed, late, accepted, asked, lates>>
    BY <1>7 DEF FailUpload
  <2>2. turn = "off"
    BY <1>2, <2>1 DEF Turns
  <2>3. \A j \in DOMAIN disk : disk[j] = "whole" => j \in DOMAIN disk' /\ disk'[j] = disk[j]
    <3>1. CASE disk' = disk
      BY <3>1
    <3>2. CASE req.stage = "writing" /\ disk' = Without(disk, {Last(req.files)})
      <4>1. PICK k \in Keys, s \in Seq(Keys) :
              req.files = Append(s, k) /\ disk[k] = "part"
        BY <1>2, <3>2 DEF Uploaded
      <4>2. k = Last(req.files)
        BY <4>1, AppendProperties DEF Last
      <4>3. QED
        BY <3>2, <4>1, <4>2 DEF Without
    <3>3. QED
      BY <2>1, <3>1, <3>2
  <2>4. \A S : Whole(S, disk, asked) => Whole(S, disk', asked)
    BY <2>3 DEF Whole
  <2>5. Whole(ToSet(<<>>), disk', asked) /\ req'.files = <<>> /\ req'.found = <<>>
        /\ req'.stage = "none"
    BY <1>3, <2>1, <2>4, NoRequestIs
  <2>6. Uploaded'
    BY <2>1, <2>5 DEF Uploaded
  <2>7. QED
    BY <1>2, <2>1, <2>2, <2>3, <2>4, <2>5, <2>6, RequestKept DEF OnDisk, Listing
<1>8. CASE LoadContext
  <2>1. turn = "off"
    BY <1>1, <1>2, <1>8, LoadContextIs DEF Turns
  <2>2. Uploaded'
    BY <1>1, <1>2, <1>8, LoadContextIs DEF Uploaded
  <2>3. QED
    BY <1>1, <1>2, <1>8, <2>1, <2>2, LoadContextIs, RequestKept DEF OnDisk, Listing
<1>9. CASE SaveContext
  <2>1. turn = "off"
    BY <1>1, <1>2, <1>9, SaveContextIs DEF Turns
  <2>2. Uploaded'
    BY <1>1, <1>2, <1>9, SaveContextIs DEF Uploaded
  <2>3. Whole(ToSet(stored'), disk', asked)
    BY <1>1, <1>2, <1>9, SaveContextIs DEF Whole, OnDisk, Uploaded
  <2>4. lates = 0 => Has(ToSet(stored'), accepted', asked)
    BY <1>1, <1>2, <1>9, SaveContextIs DEF Has, Listing
  <2>5. QED
    BY <1>1, <1>2, <1>9, <2>1, <2>2, <2>3, <2>4, SaveContextIs, RequestKept DEF OnDisk
<1>10. QED
  BY <1>4, <1>5, <1>6, <1>7, <1>8, <1>9 DEF Requests

LEMMA StorageKept ==
  ASSUME TypesInv, KeptInv, Storage
  PROVE  KeptInv'
<1>1. AttachOK /\ RunOK
  BY DEF TypesInv
<1>2. OnDisk /\ Uploaded /\ Listing /\ Turns
  BY DEF KeptInv
<1>3. CASE StartTurn
  <2>1. /\ turn = "off" /\ req.stage = "started" /\ turn' = "on"
        /\ ToSet(stored) \subseteq ToSet(listed')
        /\ ToSet(listed') \subseteq ToSet(stored) \cup ToSet(req.files)
        /\ UNCHANGED <<todo, run, disk, stored, req, accepted, late, asked, lates>>
    BY <1>1, <1>3, StartTurnIs DEF uploads
  <2>2. Whole(ToSet(listed'), disk, asked)
    BY <1>2, <2>1 DEF Whole, OnDisk, Uploaded
  <2>3. lates = 0 => Has(ToSet(listed'), accepted, asked)
    BY <1>2, <2>1 DEF Has, Listing
  <2>4. \A i \in Live : ~Deleting(i)
    BY <1>2, <2>1 DEF Turns
  <2>5. Turns'
    BY <1>2, <2>1, <2>4 DEF Turns, Deleting, At
  <2>6. OnDisk'
    BY <1>2, <2>1, <2>2 DEF OnDisk, Deleting
  <2>7. Uploaded'
    BY <1>2, <2>1 DEF Uploaded
  <2>8. Listing'
    BY <1>2, <2>1, <2>3 DEF Listing, Deleting
  <2>9. QED
    BY <2>5, <2>6, <2>7, <2>8 DEF KeptInv
<1>4. CASE SaveFiles
  <2>1. /\ turn = "saving" /\ turn' = "on" /\ stored' = listed
        /\ UNCHANGED <<todo, run, disk, req, accepted, listed, late, asked, lates>>
    BY <1>4 DEF SaveFiles, uploads
  <2>2. \A i \in Live : ~Deleting(i)
    BY <1>2, <2>1 DEF Turns
  <2>3. Turns'
    BY <1>2, <2>1, <2>2 DEF Turns, Deleting, At
  <2>4. OnDisk'
    BY <1>2, <2>1 DEF OnDisk, Deleting
  <2>5. Uploaded'
    BY <1>2, <2>1 DEF Uploaded
  <2>6. Listing'
    BY <1>2, <2>1 DEF Listing, Deleting
  <2>7. QED
    BY <2>3, <2>4, <2>5, <2>6 DEF KeptInv
<1>5. CASE LateSave
  <2>1. /\ late # None /\ stored' = late /\ late' = None
        /\ UNCHANGED <<turn, todo, run, disk, req, accepted, listed, asked, lates>>
    BY <1>5 DEF LateSave, batch, uploads
  <2>2. Turns'
    BY <1>2, <2>1 DEF Turns, Deleting, At
  <2>3. OnDisk'
    BY <1>2, <2>1 DEF OnDisk, Deleting
  <2>4. Uploaded'
    BY <1>2, <2>1 DEF Uploaded
  <2>5. lates # 0
    BY <1>1, <1>2, <2>1 DEF Listing, AttachOK
  <2>6. Listing'
    BY <2>1, <2>5 DEF Listing
  <2>7. QED
    BY <2>2, <2>3, <2>4, <2>6 DEF KeptInv
<1>6. QED
  BY <1>3, <1>4, <1>5 DEF Storage

LEMMA DeleteKept ==
  ASSUME TypesInv, KeptInv, NEW i \in Runs, Delete(i)
  PROVE  KeptInv'
<1>1. AttachOK /\ RunOK
  BY DEF TypesInv
<1>2. OnDisk /\ Uploaded /\ Listing /\ Turns
  BY DEF KeptInv
<1>3. \A l \in Left : l \notin Live
  BY BatchAssumption DEF Left, Live
<1>4. CASE BeginDelete(i)
  <2>1. /\ i \in Live /\ todo # <<>> /\ turn' = turn
        /\ UNCHANGED <<disk, stored, req, accepted, listed, late, lates>>
    BY <1>1, <1>4, BeginDeleteIs DEF uploads
  <2>2. turn = "tools" /\ req.stage = "started"
    BY <1>2, <2>1 DEF Turns
  <2>3. PICK r \in Records :
              /\ run' = [run EXCEPT ![i] = r]
              /\ asked' = asked \cup {r.call.key}
              /\ \/ r.stage = "answered" /\ r.answer # "ok"
                 \/ r.stage = "unlinking" /\ r.view = listed
    BY <1>1, <1>4, BeginDeleteIs
  <2>4. \A j \in Runs : run'[j] = IF j = i THEN r ELSE run[j]
    BY <1>1, <2>3, OneCall
  <2>5. \A S : Whole(S, disk, asked) => Whole(S, disk, asked')
    BY <2>3 DEF Whole
  <2>6. \A S : Has(S, accepted, asked) => Has(S, accepted, asked')
    BY <2>3 DEF Has
  <2>7. Turns'
    BY <1>2, <1>3, <2>1, <2>2, <2>3, <2>4 DEF Turns, Deleting, At, Runs
  <2>8. OnDisk'
    BY <1>2, <2>1, <2>3, <2>4, <2>5, LiveInRuns DEF OnDisk, Deleting
  <2>9. Uploaded'
    BY <1>2, <2>1, <2>2, <2>5 DEF Uploaded
  <2>10. Listing'
    BY <1>2, <2>1, <2>2, <2>3, <2>4, <2>6, LiveInRuns DEF Listing, Deleting
  <2>11. QED
    BY <2>7, <2>8, <2>9, <2>10 DEF KeptInv
<1>5. CASE UnlinkFile(i)
  <2>1. /\ At(i, "unlinking") /\ turn' = turn /\ todo' = todo
        /\ disk' \in {disk, Without(disk, {run[i].call.key})}
        /\ UNCHANGED <<stored, req, accepted, listed, late, asked, lates>>
    BY <1>1, <1>5, UnlinkFileIs DEF uploads
  <2>2. run[i].call.key \in asked
    BY <1>2, <2>1 DEF Turns, Deleting, At
  <2>3. \A k \in DOMAIN disk \ asked : k \in DOMAIN disk' /\ disk'[k] = disk[k]
    BY <2>1, <2>2 DEF Without
  <2>4. PICK r \in Records :
              /\ run' = [run EXCEPT ![i] = r]
              /\ \/ i \notin Live /\ r = Idle
                 \/ /\ i \in Live /\ r.call = run[i].call /\ r.view = run[i].view
                    /\ r.stage \in {"raised", "unlinked"}
    BY <1>1, <1>5, UnlinkFileIs
  <2>5. \A j \in Runs : run'[j] = IF j = i THEN r ELSE run[j]
    BY <1>1, <2>4, OneCall
  <2>6. \A S : Whole(S, disk, asked) => Whole(S, disk', asked)
    BY <2>3 DEF Whole
  <2>7. Deleting(i) /\ Idle.stage = "idle"
    BY <2>1 DEF Deleting, At, Idle
  <2>8. Turns'
    BY <1>2, <1>3, <2>1, <2>4, <2>5, <2>7, LiveInRuns DEF Turns, Deleting, At, Runs
  <2>9. OnDisk'
    BY <1>2, <2>1, <2>4, <2>5, <2>6, <2>7, LiveInRuns DEF OnDisk, Deleting
  <2>10. Uploaded'
    BY <1>2, <2>1, <2>3, <2>6 DEF Uploaded
  <2>11. Listing'
    BY <1>2, <2>1, <2>4, <2>5, <2>7, LiveInRuns DEF Listing, Deleting
  <2>12. QED
    BY <2>8, <2>9, <2>10, <2>11 DEF KeptInv
<1>6. CASE EndDelete(i)
  <2>1. /\ At(i, "unlinked") /\ turn' = turn /\ todo' = todo
        /\ ToSet(listed') = ToSet(run[i].view) \ {run[i].call.key}
        /\ UNCHANGED <<disk, stored, req, accepted, late, asked, lates>>
    BY <1>1, <1>6, EndDeleteIs DEF uploads
  <2>2. Deleting(i) /\ i \in Live /\ run[i].call.key \in asked
    BY <1>2, <2>1 DEF Turns, Deleting, At, Runs
  <2>3. PICK r \in Records : run' = [run EXCEPT ![i] = r] /\ r.stage = "answered"
    BY <1>1, <1>6, EndDeleteIs
  <2>4. \A j \in Runs : run'[j] = IF j = i THEN r ELSE run[j]
    BY <1>1, <2>3, OneCall
  <2>5. Whole(ToSet(listed'), disk, asked)
    BY <1>2, <2>1, <2>2 DEF OnDisk, Whole
  <2>6. lates = 0 => Has(ToSet(listed'), accepted, asked)
    BY <1>2, <2>1, <2>2 DEF Listing, Has
  <2>7. Turns'
    BY <1>2, <2>1, <2>3, <2>4, LiveInRuns DEF Turns, Deleting, At, Runs
  <2>8. OnDisk'
    BY <1>2, <2>1, <2>3, <2>4, <2>5, LiveInRuns DEF OnDisk, Deleting
  <2>9. Uploaded'
    BY <1>2, <2>1 DEF Uploaded
  <2>10. Listing'
    BY <1>2, <2>1, <2>3, <2>4, <2>6, LiveInRuns DEF Listing, Deleting
  <2>11. QED
    BY <2>7, <2>8, <2>9, <2>10 DEF KeptInv
<1>7. QED
  BY <1>4, <1>5, <1>6 DEF Delete

\* A turn that ends, is cancelled or lost: nothing is listed, and the calls' work goes on
\* without them.
LEMMA CutKept ==
  ASSUME TypesInv, KeptInv, turn' = "off", req' = NoRequest, listed' = <<>>,
         UNCHANGED <<disk, stored, accepted, asked>>,
         \/ late' \in {late, None} /\ lates' = lates
         \/ late' = listed /\ lates' = lates + 1,
         todo' = <<>>, \A j \in Live : ~Deleting(j)',
         \A j \in Left : \/ run'[j].stage \notin {"unlinking", "unlinked"}
                         \/ \E l \in Runs : run'[j] = run[l] /\ run[l].stage # "unlinked"
  PROVE  KeptInv'
<1>1. OnDisk /\ Uploaded /\ Listing /\ Turns /\ AttachOK
  BY DEF KeptInv, TypesInv
<1>2. req'.stage = "none" /\ ToSet(req'.files) = {} /\ ToSet(req'.found) = {}
      /\ ToSet(listed') = {}
  BY NoRequestIs DEF ToSet
<1>3. \A S : S = {} => Whole(S, disk, asked)
  BY DEF Whole
<1>4. Turns'
  BY <1>1 DEF Turns, Deleting, At, Runs
<1>5. OnDisk'
  BY <1>1, <1>2, <1>3 DEF OnDisk
<1>6. Uploaded'
  BY <1>2, <1>3 DEF Uploaded
<1>7. lates \in Nat
  BY <1>1 DEF AttachOK
<1>8. Listing'
  BY <1>1, <1>2, <1>7 DEF Listing
<1>9. QED
  BY <1>4, <1>5, <1>6, <1>8 DEF KeptInv

LEMMA TurnsKept ==
  ASSUME TypesInv, KeptInv, Ask \/ Answered \/ EndTurn \/ Cancel \/ Crash
  PROVE  KeptInv'
<1>1. AttachOK /\ RunOK /\ SpaceOK
  BY DEF TypesInv
<1>2. OnDisk /\ Uploaded /\ Listing /\ Turns
  BY DEF KeptInv
<1>3. Idle.stage = "idle"
  BY DEF Idle
<1>4. CASE Ask
  <2>1. /\ turn = "on" /\ turn' = "tools"
        /\ \A j \in Live : run'[j] = Idle
        /\ \A j \in Left : run'[j] = run[j]
    BY <1>1, <1>4, AskIs
  <2>2. UNCHANGED <<disk, stored, req, accepted, listed, late, asked, lates>>
    BY <1>4 DEF Ask, attach, uploads
  <2>3. Turns'
    BY <1>2, <1>3, <2>1, <2>2 DEF Turns, Deleting, At, Runs
  <2>4. OnDisk'
    BY <1>2, <1>3, <2>1, <2>2 DEF OnDisk, Deleting
  <2>5. Uploaded'
    BY <1>2, <2>2 DEF Uploaded
  <2>6. Listing'
    BY <1>2, <1>3, <2>1, <2>2 DEF Listing, Deleting
  <2>7. QED
    BY <2>3, <2>4, <2>5, <2>6 DEF KeptInv
<1>5. CASE Answered
  <2>1. /\ turn = "tools" /\ turn' = "saving" /\ todo = <<>>
        /\ \A j \in Live : run[j].stage \in {"idle", "answered"}
        /\ UNCHANGED <<todo, run, disk, stored, req, accepted, listed, late, asked, lates>>
    BY <1>5 DEF Answered, Ended, attach, uploads
  <2>2. Turns'
    BY <1>2, <2>1 DEF Turns, Deleting, At
  <2>3. OnDisk'
    BY <1>2, <2>1 DEF OnDisk, Deleting
  <2>4. Uploaded'
    BY <1>2, <2>1 DEF Uploaded
  <2>5. Listing'
    BY <1>2, <2>1 DEF Listing, Deleting
  <2>6. QED
    BY <2>2, <2>3, <2>4, <2>5 DEF KeptInv
<1>6. CASE EndTurn
  <2>1. turn = "on" /\ turn' = "off" /\ LeaveFiles(FALSE) /\ UNCHANGED <<todo, run>>
    BY <1>6 DEF EndTurn
  <2>2. todo' = <<>> /\ \A j \in Live : ~Deleting(j)'
    BY <1>2, <2>1 DEF Turns, Deleting
  <2>3. \A j \in Left : run'[j] = run[j] /\ run[j].stage # "unlinked" /\ j \in Runs
    BY <1>2, <2>1 DEF Turns, At, Runs
  <2>4. req' = NoRequest /\ listed' = <<>> /\ UNCHANGED <<disk, stored, accepted, asked>>
        /\ \/ late' \in {late, None} /\ lates' = lates
           \/ late' = listed /\ lates' = lates + 1
    BY <1>1, <2>1, LeaveFilesOK
  <2>5. QED
    BY <2>1, <2>2, <2>3, <2>4, CutKept
<1>7. CASE Cancel
  <2>1. /\ turn' = "off" /\ todo' = <<>> /\ LeaveFiles(TRUE)
        /\ \A j \in Live : run'[j] = Idle
        /\ \A j \in Left : \/ run'[j] = run[j] \/ run'[j] = Idle
                           \/ \E l \in Live : run'[j] = run[l] /\ run[l].stage \in Jobs
                           \/ run'[j].stage = "stray"
    BY <1>1, <1>7, CancelIs
  <2>2. \A j \in Live : ~Deleting(j)'
    BY <1>3, <2>1 DEF Deleting
  <2>3. \A j \in Left : \/ run'[j].stage \notin {"unlinking", "unlinked"}
                        \/ \E l \in Runs : run'[j] = run[l] /\ run[l].stage # "unlinked"
    <3>1. TAKE j \in Left
    <3>2. j \in Runs /\ run[j].stage # "unlinked"
      BY <1>2 DEF Turns, At, Runs
    <3>3. \A st \in Jobs : st # "unlinked"
      BY DEF Jobs, Withdrawable
    <3>4. QED
      BY <1>3, <2>1, <3>2, <3>3, LiveInRuns
  <2>4. req' = NoRequest /\ listed' = <<>> /\ UNCHANGED <<disk, stored, accepted, asked>>
        /\ \/ late' \in {late, None} /\ lates' = lates
           \/ late' = listed /\ lates' = lates + 1
    BY <1>1, <2>1, LeaveFilesOK
  <2>5. QED
    BY <2>1, <2>2, <2>3, <2>4, CutKept
<1>8. CASE Crash
  <2>1. /\ turn' = "off" /\ todo' = <<>> /\ CrashFiles
        /\ \A j \in Live : run'[j] = Idle
        /\ \A j \in Left : run'[j] = Idle \/ run'[j].stage = "stray"
    BY <1>1, <1>8, CrashIs
  <2>2. \A j \in Live : ~Deleting(j)'
    BY <1>3, <2>1 DEF Deleting
  <2>3. \A j \in Left : run'[j].stage \notin {"unlinking", "unlinked"}
    BY <1>3, <2>1
  <2>4. /\ req' = NoRequest /\ listed' = <<>> /\ UNCHANGED <<disk, stored, accepted, asked>>
        /\ late' \in {late, None} /\ lates' = lates
    BY <1>1, <2>1, CrashFilesOK
  <2>5. QED
    BY <2>1, <2>2, <2>3, <2>4, CutKept
<1>9. QED
  BY <1>4, <1>5, <1>6, <1>7, <1>8

LEMMA KeptInit == Init => KeptInv
<1>1. SUFFICES ASSUME Init PROVE KeptInv
  OBVIOUS
<1>2. /\ turn = "off" /\ todo = <<>> /\ \A i \in Runs : run[i] = Idle
      /\ disk = <<>> /\ stored = <<>> /\ req = NoRequest /\ listed = <<>> /\ late = None
      /\ accepted = {} /\ lates = 0
  BY <1>1 DEF Init, AttachInit
<1>3. \A i \in Runs : run[i].stage = "idle"
  BY <1>2 DEF Idle
<1>4. req.stage = "none" /\ req.files = <<>> /\ req.found = <<>> /\ ToSet(<<>>) = {}
  BY <1>2, NoRequestIs DEF ToSet
<1>5. Turns
  BY <1>2, <1>3, LiveInRuns DEF Turns, Deleting, At, Runs
<1>6. OnDisk /\ Uploaded
  BY <1>2, <1>3, <1>4, LiveInRuns DEF OnDisk, Uploaded, Whole, Deleting
<1>7. Listing
  BY <1>2, <1>3, <1>4, LiveInRuns DEF Listing, Has, Deleting
<1>8. QED
  BY <1>5, <1>6, <1>7 DEF KeptInv

LEMMA KeptNext == TypesInv /\ KeptInv /\ [Next]_vars => KeptInv'
<1>1. SUFFICES ASSUME TypesInv, KeptInv, [Next]_vars PROVE KeptInv'
  OBVIOUS
<1>2. CASE UNCHANGED vars
  BY <1>1, <1>2 DEF KeptInv, Turns, OnDisk, Uploaded, Listing, Deleting, At,
                    vars, batch, attach, uploads
<1>3. CASE Next
  BY <1>1, <1>3, RequestsKept, StorageKept, DeleteKept, BesideKept, TurnsKept
     DEF Next, Beside
<1>4. QED
  BY <1>1, <1>2, <1>3

\* A file of a turn that was started is in the stored context, and what the context or the
\* turn lists is whole on disk, until somebody asks to delete it: whatever uploads fail,
\* turns are cancelled and restarts come in between.
THEOREM FilesStay == Spec => []FilesKept
<1>1. TypesInv /\ KeptInv => FilesKept
  BY DEF KeptInv, OnDisk, Listing, Whole, Has, FilesKept
<1>2. QED
  BY <1>1, TypesInit, TypesNext, KeptInit, KeptNext, PTL DEF Spec

-----------------------------------------------------------------------------
(* Where files are listed, while none is asked to be deleted and no save is late *)

\* List u is list s, of length n, and list t after it, of length m.
Joins(u, s, t, n, m) ==
  /\ n = Len(s) /\ DOMAIN s = 1 .. n /\ m = Len(t) /\ DOMAIN t = 1 .. m
  /\ u \in Seq(Keys) /\ Len(u) = n + m /\ DOMAIN u = 1 .. n + m
  /\ \A i \in 1 .. n : u[i] = s[i]
  /\ \A i \in 1 .. m : u[n + i] = t[i]

LEMMA ConcatIs ==
  ASSUME NEW s \in Seq(Keys), NEW t \in Seq(Keys)
  PROVE  \E n \in Nat, m \in Nat : Joins(s \o t, s, t, n, m)
<1>1. PICK n \in Nat : n = Len(s) /\ DOMAIN s = 1 .. n
  OBVIOUS
<1>2. PICK m \in Nat : m = Len(t) /\ DOMAIN t = 1 .. m
  OBVIOUS
<1>3. PICK u : u = s \o t
  OBVIOUS
<1>4. u \in Seq(Keys) /\ Len(u) = n + m
  BY <1>1, <1>2, <1>3, ConcatProperties
<1>5. /\ DOMAIN u = 1 .. n + m
      /\ \A i \in 1 .. n : u[i] = s[i]
      /\ \A i \in 1 .. m : u[n + i] = t[i]
  BY <1>1, <1>2, <1>3, <1>4
<1>6. Joins(u, s, t, n, m)
  BY <1>1, <1>2, <1>4, <1>5 DEF Joins
<1>7. QED
  BY <1>3, <1>6

\* Lists without repetition, and with no common element.
LEMMA ConcatOnce ==
  ASSUME NEW s \in Seq(Keys), NEW t \in Seq(Keys), IsInjective(s), IsInjective(t),
         ToSet(t) \cap ToSet(s) = {}
  PROVE  IsInjective(s \o t)
<1>0. PICK u : u = s \o t
  OBVIOUS
<1>1. PICK n \in Nat, m \in Nat :
        /\ DOMAIN s = 1 .. n /\ DOMAIN t = 1 .. m /\ DOMAIN u = 1 .. n + m
        /\ \A i \in 1 .. n : u[i] = s[i]
        /\ \A i \in 1 .. m : u[n + i] = t[i]
  <2>1. PICK n \in Nat, m \in Nat : Joins(u, s, t, n, m)
    BY <1>0, ConcatIs
  <2>2. QED
    BY <2>1 DEF Joins
<1>2. ASSUME NEW a \in 1 .. n + m, NEW b \in 1 .. n + m, u[a] = u[b]
      PROVE  a = b
  <2>1. \A c \in 1 .. n + m : c \in 1 .. n \/ (c - n \in 1 .. m /\ u[c] = t[c - n])
    <3>1. TAKE c \in 1 .. n + m
    <3>2. CASE c > n
      <4>1. PICK d \in 1 .. m : d = c - n /\ c = n + d
        BY <3>2
      <4>2. QED
        BY <1>1, <4>1
    <3>3. QED
      BY <3>2
  <2>2. CASE a \in 1 .. n /\ b \in 1 .. n
    BY <1>1, <1>2, <2>2 DEF IsInjective
  <2>3. CASE a - n \in 1 .. m /\ b - n \in 1 .. m /\ u[a] = t[a - n] /\ u[b] = t[b - n]
    <3>1. a - n = b - n
      BY <1>1, <1>2, <2>3 DEF IsInjective
    <3>2. QED
      BY <3>1
  <2>4. CASE a \in 1 .. n /\ b - n \in 1 .. m /\ u[b] = t[b - n]
    BY <1>1, <1>2, <2>4 DEF ToSet
  <2>5. CASE b \in 1 .. n /\ a - n \in 1 .. m /\ u[a] = t[a - n]
    BY <1>1, <1>2, <2>5 DEF ToSet
  <2>6. QED
    BY <2>1, <2>2, <2>3, <2>4, <2>5
<1>3. IsInjective(u)
  BY <1>1, <1>2 DEF IsInjective
<1>4. QED
  BY <1>0, <1>3, Zenon

LEMMA AppendOnce ==
  ASSUME NEW s \in Seq(Keys), NEW k \in Keys, IsInjective(s), k \notin ToSet(s)
  PROVE  IsInjective(Append(s, k))
<1>0. PICK v : v = Append(s, k)
  OBVIOUS
<1>1. PICK n \in Nat :
        /\ DOMAIN s = 1 .. n /\ DOMAIN v = 1 .. n + 1
        /\ \A i \in 1 .. n : v[i] = s[i]
        /\ v[n + 1] = k
  BY <1>0
<1>2. ASSUME NEW a \in 1 .. n + 1, NEW b \in 1 .. n + 1, v[a] = v[b]
      PROVE  a = b
  <2>1. (a \in 1 .. n \/ a = n + 1) /\ (b \in 1 .. n \/ b = n + 1)
    OBVIOUS
  <2>2. CASE a \in 1 .. n /\ b \in 1 .. n
    BY <1>1, <1>2, <2>2 DEF IsInjective
  <2>3. CASE a \in 1 .. n /\ b = n + 1
    BY <1>1, <1>2, <2>3 DEF ToSet
  <2>4. CASE b \in 1 .. n /\ a = n + 1
    BY <1>1, <1>2, <2>4 DEF ToSet
  <2>5. QED
    BY <2>1, <2>2, <2>3, <2>4
<1>3. IsInjective(v)
  BY <1>1, <1>2 DEF IsInjective
<1>4. QED
  BY <1>0, <1>3

\* A list that ends with the files is left as it is.
LEMMA SeededIs ==
  ASSUME NEW s \in Seq(Keys), NEW f \in Seq(Keys)
  PROVE  Injected(s \o f, f) = s \o f
<1>0. PICK u : u = s \o f
  OBVIOUS
<1>1. PICK n \in Nat, m \in Nat :
        /\ u \in Seq(Keys) /\ m = Len(f) /\ DOMAIN f = 1 .. m
        /\ Len(u) = n + m /\ DOMAIN u = 1 .. n + m
        /\ \A i \in 1 .. m : u[n + i] = f[i]
  <2>1. PICK n \in Nat, m \in Nat : Joins(u, s, f, n, m)
    BY <1>0, ConcatIs
  <2>2. QED
    BY <2>1 DEF Joins
<1>2. PICK v : v = SubSeq(u, n + 1, n + m)
  OBVIOUS
<1>3. \A i \in n + 1 .. n + m : u[i] \in Keys
  <2>1. TAKE i \in n + 1 .. n + m
  <2>2. i \in 1 .. n + m
    OBVIOUS
  <2>3. QED
    BY <1>1, <2>2, ElementOfSeq
<1>4. /\ v \in Seq(Keys)
      /\ Len(v) = IF n + 1 <= n + m THEN (n + m) - (n + 1) + 1 ELSE 0
      /\ \A i \in 1 .. (n + m) - (n + 1) + 1 : v[i] = u[n + 1 + i - 1]
  <2>1. PICK a \in Int, b \in Int : a = n + 1 /\ b = n + m
    OBVIOUS
  <2>2. v = SubSeq(u, a, b) /\ \A i \in a .. b : u[i] \in Keys
    BY <1>2, <1>3, <2>1
  <2>3. /\ SubSeq(u, a, b) \in Seq(Keys)
        /\ Len(SubSeq(u, a, b)) = IF a <= b THEN b - a + 1 ELSE 0
        /\ \A i \in 1 .. b - a + 1 : SubSeq(u, a, b)[i] = u[a + i - 1]
    BY <2>2, SubSeqProperties
  <2>4. QED
    BY <2>1, <2>2, <2>3, Zenon
<1>5. Len(v) = m /\ \A i \in 1 .. m : v[i] = f[i]
  <2>1. Len(v) = m
    BY <1>4
  <2>2. ASSUME NEW i \in 1 .. m PROVE v[i] = f[i]
    <3>1. i \in 1 .. (n + m) - (n + 1) + 1 /\ n + 1 + i - 1 = n + i
      OBVIOUS
    <3>2. QED
      BY <1>1, <1>4, <3>1
  <2>3. QED
    BY <2>1, <2>2
<1>6. v = f
  BY <1>1, <1>4, <1>5, SeqEqual
<1>7. Len(u) >= Len(f) /\ Len(u) - Len(f) + 1 = n + 1 /\ Len(u) = n + m
  BY <1>1
<1>8. Seeded(u, f)
  BY <1>2, <1>6, <1>7 DEF Seeded
<1>9. QED
  BY <1>0, <1>8, Zenon DEF Injected

\* The numbers that a turn's start gives to the files of its request.
LEMMA NumbersAre ==
  ASSUME AttachOK, StartTurn, NEW s \in Seq(Keys), stored = s \o req.files
  PROVE  /\ listed' = stored
         /\ DOMAIN number' = DOMAIN number \cup ToSet(req.files)
         /\ \A k \in DOMAIN number' \ ToSet(req.files) : number'[k] = number[k]
         /\ \A k \in ToSet(req.files) : number'[k] \in DOMAIN stored /\ stored[number'[k]] = k
<1>1. PICK f \in Seq(Keys) : f = req.files
  BY DEF AttachOK, RequestType
<1>2. Injected(stored, f) = stored
  BY <1>1, SeededIs
<1>3. PICK n \in Nat, m \in Nat :
        /\ n = Len(s) /\ m = Len(f) /\ DOMAIN f = 1 .. m
        /\ Len(stored) = n + m /\ DOMAIN stored = 1 .. n + m
        /\ \A i \in 1 .. m : stored[n + i] = f[i]
  <2>1. PICK n \in Nat, m \in Nat : Joins(stored, s, f, n, m)
    BY <1>1, ConcatIs
  <2>2. QED
    BY <2>1 DEF Joins
<1>4. Len(stored) - Len(f) = n
  BY <1>3
<1>5. PICK at : at = [k \in ToSet(f) |-> CHOOSE i \in DOMAIN f : f[i] = k]
  OBVIOUS
<1>6. \A k \in ToSet(f) : at[k] \in 1 .. m /\ f[at[k]] = k
  BY <1>3, <1>5 DEF ToSet
<1>7. number' = [k \in DOMAIN number \cup ToSet(f) |->
                  IF \E i \in DOMAIN f : f[i] = k
                  THEN n + CHOOSE i \in DOMAIN f : f[i] = k ELSE number[k]]
  BY <1>1, <1>2, <1>4 DEF StartTurn
<1>8. \A k \in DOMAIN number \cup ToSet(f) :
        number'[k] = IF k \in ToSet(f) THEN n + at[k] ELSE number[k]
  BY <1>5, <1>7 DEF ToSet
<1>9. DOMAIN number' = DOMAIN number \cup ToSet(f)
  BY <1>7
<1>10. \A k \in ToSet(f) : number'[k] \in DOMAIN stored /\ stored[number'[k]] = k
  <2>1. TAKE k \in ToSet(f)
  <2>2. PICK i \in 1 .. m : i = at[k] /\ f[i] = k
    BY <1>6
  <2>3. number'[k] = n + i
    BY <1>8, <2>2
  <2>4. n + i \in 1 .. n + m
    BY <2>2
  <2>5. QED
    BY <1>3, <2>2, <2>3, <2>4
<1>11. listed' = stored
  BY <1>1, <1>2 DEF StartTurn
<1>12. QED
  BY <1>1, <1>8, <1>9, <1>10, <1>11

Clean == asked = {} /\ lates = 0

\* The context lists the accepted files, each once, at its number.
Entries ==
  /\ IsInjective(stored) /\ accepted = ToSet(stored)
  /\ \A k \in DOMAIN number : number[k] \in DOMAIN stored /\ stored[number[k]] = k

\* The files of the request are new, until they are the last of the context.
Coming ==
  /\ IsInjective(req.files)
  /\ req.stage # "started" => ToSet(req.files) \cap ToSet(stored) = {}
  /\ req.stage = "merging" => req.found = stored
  /\ req.stage = "started" => \E s \in Seq(Keys) : stored = s \o req.files

\* The turn lists what the context does.
Current == turn # "off" => listed = stored

NumbersInv == Clean => Entries /\ Coming /\ Current

LEMMA RequestsNumbers ==
  ASSUME TypesInv, KeptInv, NumbersInv, Requests
  PROVE  NumbersInv'
<1>1. AttachOK /\ RunOK /\ Turns /\ Uploaded
  BY DEF TypesInv, KeptInv
<1>2. UNCHANGED <<turn, listed, number, asked, lates>>
  <2>1. UNCHANGED batch
    BY RequestsOK
  <2>2. UNCHANGED <<listed, number, asked, lates>>
    BY DEF Requests, Claim, OpenUpload, FinishUpload, FailUpload, LoadContext, SaveContext
  <2>3. QED
    BY <2>1, <2>2 DEF batch
<1>3. SUFFICES ASSUME Clean PROVE Entries' /\ Coming' /\ Current'
  BY <1>2 DEF NumbersInv, Clean
<1>4. Entries /\ Coming /\ Current
  BY <1>3 DEF NumbersInv
<1>5. req.files \in Seq(Keys) /\ req.found \in Seq(Keys) /\ stored \in Seq(Keys)
  BY <1>1 DEF AttachOK, RequestType
<1>6. IsInjective(<<>>) /\ ToSet(<<>>) = {}
  BY DEF IsInjective, ToSet
<1>7. Current' /\ turn = "off" /\ req.stage # "started"
  <2>1. req.stage # "started"
    BY DEF Requests, Claim, OpenUpload, FinishUpload, FailUpload, LoadContext, SaveContext
  <2>2. turn = "off"
    BY <1>1, <2>1 DEF Turns
  <2>3. QED
    BY <1>2, <2>1, <2>2 DEF Current
<1>8. CASE Claim
  <2>1. req'.stage \in {"uploading", "started"} /\ req'.files = <<>>
        /\ UNCHANGED <<stored, accepted>>
    BY <1>1, <1>8, ClaimIs
  <2>2. stored = stored \o <<>>
    BY <1>5, ConcatEmptySeq
  <2>3. Coming'
    BY <1>5, <1>6, <2>1, <2>2 DEF Coming
  <2>4. QED
    BY <1>2, <1>4, <1>7, <2>1, <2>3 DEF Entries
<1>9. CASE OpenUpload
  <2>1. PICK k \in Keys :
           /\ k \notin DOMAIN disk \cup accepted \cup ToSet(stored) \cup asked
           /\ req.stage = "uploading" /\ req'.stage = "writing"
           /\ req'.files = Append(req.files, k)
           /\ UNCHANGED <<stored, accepted>>
    BY <1>1, <1>9, OpenUploadIs
  <2>2. k \notin ToSet(req.files)
    BY <1>1, <1>3, <2>1 DEF Uploaded, Whole, Clean
  <2>3. IsInjective(Append(req.files, k)) /\ ToSet(Append(req.files, k)) = ToSet(req.files) \cup {k}
    BY <1>4, <1>5, <2>2, AppendOnce, AppendSet DEF Coming
  <2>4. Coming'
    BY <1>4, <2>1, <2>3 DEF Coming
  <2>5. QED
    BY <1>2, <1>4, <1>7, <2>1, <2>4 DEF Entries
<1>10. CASE FinishUpload
  <2>1. /\ req.stage = "writing" /\ req'.stage \in {"loading", "uploading"}
        /\ req'.files = req.files /\ UNCHANGED <<stored, accepted>>
    BY <1>1, <1>10, FinishUploadIs
  <2>2. QED
    BY <1>2, <1>4, <1>7, <2>1 DEF Entries, Coming
<1>11. CASE FailUpload
  <2>1. req'.stage = "none" /\ req'.files = <<>> /\ UNCHANGED <<stored, accepted>>
    BY <1>11, NoRequestIs DEF FailUpload
  <2>2. QED
    BY <1>2, <1>4, <1>6, <1>7, <2>1 DEF Entries, Coming
<1>12. CASE LoadContext
  <2>1. /\ req.stage = "loading" /\ req'.stage = "merging" /\ req'.found = stored
        /\ req'.files = req.files /\ UNCHANGED <<stored, accepted>>
    BY <1>1, <1>12, LoadContextIs
  <2>2. QED
    BY <1>2, <1>4, <1>7, <2>1 DEF Entries, Coming
<1>13. CASE SaveContext
  <2>1. /\ req.stage = "merging" /\ req'.stage = "started" /\ req'.files = req.files
        /\ stored' = req.found \o req.files
        /\ ToSet(stored') = ToSet(req.found) \cup ToSet(req.files)
        /\ accepted' = accepted \cup ToSet(req.files)
    BY <1>1, <1>13, SaveContextIs
  <2>2. req.found = stored
    BY <1>4, <2>1 DEF Coming
  <2>3. IsInjective(stored')
    <3>1. IsInjective(stored) /\ IsInjective(req.files)
          /\ ToSet(req.files) \cap ToSet(stored) = {}
      BY <1>4, <2>1 DEF Entries, Coming
    <3>2. QED
      BY <1>5, <2>1, <2>2, <3>1, ConcatOnce
  <2>4. Coming'
    BY <1>4, <1>5, <2>1, <2>2 DEF Coming
  <2>5. \A j \in DOMAIN stored : j \in DOMAIN stored' /\ stored'[j] = stored[j]
    <3>1. PICK n \in Nat, m \in Nat : Joins(stored', stored, req.files, n, m)
      BY <1>5, <2>1, <2>2, ConcatIs
    <3>2. \A j \in 1 .. n : j \in 1 .. n + m
      OBVIOUS
    <3>3. QED
      BY <3>1, <3>2 DEF Joins
  <2>6. Entries'
    BY <1>2, <1>4, <2>1, <2>2, <2>3, <2>5 DEF Entries
  <2>7. QED
    BY <1>7, <2>4, <2>6
<1>14. QED
  BY <1>8, <1>9, <1>10, <1>11, <1>12, <1>13 DEF Requests

LEMMA StorageNumbers ==
  ASSUME TypesInv, KeptInv, NumbersInv, Storage
  PROVE  NumbersInv'
<1>1. AttachOK /\ RunOK /\ Turns /\ Listing
  BY DEF TypesInv, KeptInv
<1>2. UNCHANGED <<req, accepted, asked, lates>>
  BY DEF Storage, StartTurn, SaveFiles, LateSave, uploads
<1>3. SUFFICES ASSUME Clean PROVE Entries' /\ Coming' /\ Current'
  BY <1>2 DEF NumbersInv, Clean
<1>4. Entries /\ Coming /\ Current
  BY <1>3 DEF NumbersInv
<1>5. CASE StartTurn
  <2>1. req.stage = "started" /\ stored' = stored
    BY <1>5 DEF StartTurn
  <2>2. PICK s \in Seq(Keys) : stored = s \o req.files
    BY <1>4, <2>1 DEF Coming
  <2>3. /\ listed' = stored
        /\ DOMAIN number' = DOMAIN number \cup ToSet(req.files)
        /\ \A k \in DOMAIN number' \ ToSet(req.files) : number'[k] = number[k]
        /\ \A k \in ToSet(req.files) : number'[k] \in DOMAIN stored /\ stored[number'[k]] = k
    BY <1>1, <1>5, <2>2, NumbersAre
  <2>4. Entries'
    BY <1>2, <1>4, <2>1, <2>3 DEF Entries
  <2>5. Coming' /\ Current'
    BY <1>2, <1>4, <2>1, <2>3 DEF Coming, Current
  <2>6. QED
    BY <2>4, <2>5
<1>6. CASE SaveFiles
  <2>1. turn = "saving" /\ stored' = listed /\ UNCHANGED <<listed, number>>
    BY <1>6 DEF SaveFiles
  <2>2. listed = stored
    BY <1>4, <2>1 DEF Current
  <2>3. QED
    BY <1>2, <1>4, <2>1, <2>2 DEF Entries, Coming, Current
<1>7. CASE LateSave
  BY <1>1, <1>3, <1>7 DEF LateSave, Listing, Clean, AttachOK
<1>8. QED
  BY <1>5, <1>6, <1>7 DEF Storage

LEMMA DeleteNumbers ==
  ASSUME TypesInv, KeptInv, NEW i \in Runs, Delete(i)
  PROVE  ~Clean'
<1>1. AttachOK /\ RunOK /\ Turns
  BY DEF TypesInv, KeptInv
<1>2. CASE BeginDelete(i)
  <2>1. \E k : asked' = asked \cup {k}
    BY <1>2 DEF BeginDelete
  <2>2. QED
    BY <2>1 DEF Clean
<1>3. CASE UnlinkFile(i) \/ EndDelete(i)
  <2>1. Deleting(i) /\ asked' = asked
    BY <1>3 DEF UnlinkFile, EndDelete, At, Deleting
  <2>2. QED
    BY <1>1, <2>1 DEF Turns, Clean
<1>4. QED
  BY <1>2, <1>3 DEF Delete

LEMMA TurnsNumbers ==
  ASSUME TypesInv, KeptInv, NumbersInv, Ask \/ Answered \/ EndTurn \/ Cancel \/ Crash
  PROVE  NumbersInv'
<1>1. AttachOK /\ RunOK
  BY DEF TypesInv
<1>2. CASE Ask \/ Answered
  <2>1. /\ turn # "off"
        /\ UNCHANGED <<stored, req, accepted, listed, number, asked, lates>>
    BY <1>2 DEF Ask, Answered, attach, uploads
  <2>2. QED
    BY <2>1 DEF NumbersInv, Clean, Entries, Coming, Current
<1>3. CASE EndTurn \/ Cancel \/ Crash
  <2>1. /\ turn' = "off" /\ req' = NoRequest
        /\ lates' = lates \/ lates' = lates + 1
        /\ UNCHANGED <<stored, number, accepted, asked>>
    <3>1. CASE EndTurn
      BY <1>1, <3>1, LeaveFilesOK DEF EndTurn
    <3>2. CASE Cancel
      BY <1>1, <3>2, CancelIs, LeaveFilesOK
    <3>3. CASE Crash
      BY <1>1, <3>3, CrashIs, CrashFilesOK
    <3>4. QED
      BY <1>3, <3>1, <3>2, <3>3
  <2>2. SUFFICES ASSUME Clean' PROVE Entries' /\ Coming' /\ Current'
    BY DEF NumbersInv
  <2>3. Clean
    BY <1>1, <2>1, <2>2 DEF Clean, AttachOK
  <2>4. Entries
    BY <2>3 DEF NumbersInv
  <2>5. Entries' /\ Current'
    BY <2>1, <2>4 DEF Entries, Current
  <2>6. IsInjective(<<>>) /\ ToSet(<<>>) = {}
    BY DEF IsInjective, ToSet
  <2>7. Coming'
    BY <2>1, <2>6, NoRequestIs DEF Coming
  <2>8. QED
    BY <2>5, <2>7
<1>4. QED
  BY <1>2, <1>3

LEMMA NumbersInit == Init => NumbersInv
<1>1. SUFFICES ASSUME Init PROVE NumbersInv
  OBVIOUS
<1>2. /\ turn = "off" /\ stored = <<>> /\ req = NoRequest /\ number = <<>> /\ accepted = {}
  BY <1>1 DEF Init, AttachInit
<1>3. IsInjective(<<>>) /\ ToSet(<<>>) = {}
  BY DEF IsInjective, ToSet
<1>4. Entries /\ Current
  BY <1>2, <1>3 DEF Entries, Current
<1>5. Coming
  BY <1>2, <1>3, NoRequestIs DEF Coming
<1>6. QED
  BY <1>4, <1>5 DEF NumbersInv

LEMMA NumbersNext == TypesInv /\ KeptInv /\ NumbersInv /\ [Next]_vars => NumbersInv'
<1>1. SUFFICES ASSUME TypesInv, KeptInv, NumbersInv, [Next]_vars PROVE NumbersInv'
  OBVIOUS
<1>2. CASE UNCHANGED vars
  BY <1>1, <1>2 DEF NumbersInv, Clean, Entries, Coming, Current, vars, batch, attach, uploads
<1>3. ASSUME NEW i \in Runs, Beside(i) PROVE NumbersInv'
  <2>1. UNCHANGED attach /\ turn' = turn
    BY <1>1, <1>3, BesideOK, BesideFollows DEF TypesInv
  <2>2. QED
    BY <1>1, <2>1 DEF NumbersInv, Clean, Entries, Coming, Current, attach, uploads
<1>4. ASSUME NEW i \in Runs, Delete(i) PROVE NumbersInv'
  <2>1. ~Clean'
    BY <1>1, <1>4, DeleteNumbers
  <2>2. QED
    BY <2>1 DEF NumbersInv
<1>5. CASE Next
  BY <1>1, <1>3, <1>4, <1>5, RequestsNumbers, StorageNumbers, TurnsNumbers DEF Next, Beside
<1>6. QED
  BY <1>1, <1>2, <1>5

\* Until a file is asked to be deleted, or a save is late, the list of the turn has each
\* file once, the files of the request are in it, and the number that the user's messages
\* give a file is its place, in this turn and in the ones before.
THEOREM NumbersRight == Spec => []NumbersMatch
<1>1. TypesInv /\ KeptInv /\ NumbersInv => NumbersMatch
  <2>1. SUFFICES ASSUME TypesInv, KeptInv, NumbersInv, turn # "off", Clean
                 PROVE  /\ IsInjective(listed) /\ ToSet(req.files) \subseteq ToSet(listed)
                        /\ \A k \in ToSet(listed) \cap DOMAIN number : listed[number[k]] = k
    BY DEF NumbersMatch, Clean
  <2>2. listed = stored /\ Entries /\ Coming /\ req.stage = "started"
    BY <2>1 DEF NumbersInv, KeptInv, Turns, Current
  <2>3. ToSet(req.files) \subseteq ToSet(stored)
    <3>1. PICK s \in Seq(Keys) : stored = s \o req.files
      BY <2>2 DEF Coming
    <3>2. req.files \in Seq(Keys)
      BY <2>1 DEF TypesInv, AttachOK, RequestType
    <3>3. QED
      BY <3>1, <3>2, ConcatSet
  <2>4. QED
    BY <2>2, <2>3 DEF Entries
<1>2. QED
  BY <1>1, TypesInit, TypesNext, KeptInit, KeptNext, NumbersInit, NumbersNext, PTL DEF Spec

-----------------------------------------------------------------------------
(* What a call says it has done *)

\* A call that is still to begin has no record, and a command is the only call.
Places ==
  /\ \A n \in 1 .. Len(todo) : run[n].call = None
  /\ \A n \in DOMAIN todo : todo[n].tool = "bash" =>
       Len(todo) = 1 /\ \A j \in Live : run[j].call = None
  /\ \A i \in Live : Asked(i, "bash") =>
       todo = <<>> /\ \A j \in Live \ {i} : run[j].call = None

\* Nothing of an earlier message is at work, if nothing was when this one began.
Messaging == alone /\ turn \in {"tools", "saving"}
Quiet == Messaging => \A j \in Left : ~Busy(j)

\* An answer is given at the end, and rmtree lists what is in its folder.
Sound(i) ==
  /\ i \in Live /\ run[i].answer = "ok" => run[i].stage = "answered"
  /\ \A q \in run[i].names : IsPrefix(run[i].call.path, q)

\* No two entries are one file, and a file that is open is in one place at most: where
\* the call that opened it put it.
Ids ==
  /\ \A p, q \in DOMAIN tree : tree[p].id # 0 /\ tree[p].id = tree[q].id => p = q
  /\ \A j \in Runs : \A q \in DOMAIN tree :
       run[j].file # 0 /\ tree[q].id = run[j].file => q = run[j].call.path

\* No other call of the message is about the path of call i or a folder above it.
Apart(i) ==
  \A j \in Live \ {i} :
    run[j].call # None => \/ run[j].call.tool \in {"delete", "bash", "list", "folder"}
                          \/ ~IsPrefix(run[j].call.path, run[i].call.path)

\* What upload r has in tree t: an open file, or its text.
Done(r) == r.stage = "worked" \/ (r.stage = "answered" /\ r.answer = "ok")
There(r, t) ==
  /\ r.stage = "writing" => r.call.path \in DOMAIN t /\ t[r.call.path] = Node(r.file, Part)
  /\ Done(r) => /\ r.call.path \in DOMAIN t /\ t[r.call.path].id # 0
                /\ t[r.call.path].text = r.call.text

Written ==
  Messaging => \A i \in Live : Asked(i, "upload") /\ Apart(i) => There(run[i], tree)

\* What storage has deleted is not on disk, and no upload gets its key.
Gone ==
  \A i \in Live :
    run[i].stage = "unlinked" \/ Told(run[i]) =>
      run[i].call.key \in asked /\ run[i].call.key \notin DOMAIN disk

\* It is in no list that the turn, or the next one, starts from.
Only(i) == \A j \in Live \ {i} : ~Asked(j, "delete")
Unlisted ==
  \A i \in Live :
    Told(run[i]) /\ Only(i) =>
      /\ turn \in {"tools", "saving"} => run[i].call.key \notin ToSet(listed)
      /\ lates = 0 /\ turn \in {"on", "off"} =>
           run[i].call.key \notin ToSet(stored) \cup ToSet(listed)
      /\ lates = 0 /\ turn = "off" =>
           run[i].call.key \notin ToSet(req.files) \cup ToSet(req.found)

OkInv == /\ Places /\ Quiet /\ Ids /\ Written /\ Gone /\ Unlisted
         /\ \A i \in Runs : Sound(i)

-----------------------------------------------------------------------------
(* What a step of call i does, that leaves it with record r *)

\* It begins, goes on, or is a process that ends and that nobody waits for.
Goes(i, r) ==
  /\ run' = [run EXCEPT ![i] = r] /\ r \in Records /\ UNCHANGED <<turn, alone>>
  /\ i \in Live \/ Busy(i)
  /\ \/ todo # <<>> /\ i = Len(todo) /\ r.call = Head(todo) /\ todo' = Tail(todo)
     \/ todo' = todo /\ r.call = run[i].call
     \/ todo' = todo /\ r = Idle
        /\ (i \in Live => run[i].call \in Calls /\ run[i].call.tool = "bash")

SoundRecord(i, r) ==
  /\ i \in Live /\ r.answer = "ok" => r.stage = "answered"
  /\ \A q \in r.names : IsPrefix(r.call.path, q)

\* The entries with files that it changes are in X; at most one has a new file.
Changes(X) ==
  /\ \E p : \A n \in DOMAIN tree' :
       \/ n \in DOMAIN tree /\ tree'[n].id = tree[n].id
       \/ tree'[n].id = 0
       \/ n = p /\ tree'[n].id = FreshId
  /\ \A n \in DOMAIN tree :
       tree[n].id # 0 => (n \in DOMAIN tree' /\ tree'[n] = tree[n]) \/ n \in X

\* What a call can reach: a command everything, an upload and a removal their paths.
Reach(i) ==
  {n \in Paths : \/ run[i].shell \/ run[i].child
                 \/ /\ Busy(i) /\ run[i].call \in Calls
                    /\ run[i].call.tool \in {"upload", "remove"}
                    /\ IsPrefix(run[i].call.path, n)}

\* A file that it has open is where it put it.
Opens(i, r) ==
  \/ r.file = 0
  \/ r.file = run[i].file /\ r.call = run[i].call
  \/ r.call.path \in DOMAIN tree' /\ tree'[r.call.path].id = r.file

\* An upload goes on from what it had in the tree, if nobody else has its file open.
Shared(i) ==
  At(i, "writing") /\ \E j \in Runs \ {i} : At(j, "writing") /\ run[j].file = run[i].file
Uploads(i, r) ==
  (/\ r.call \in Calls /\ r.call.tool = "upload"
   /\ r.call = run[i].call => ~Shared(i) /\ There(run[i], tree))
  => There(r, tree')

Effect(i, r) ==
  Goes(i, r) /\ SoundRecord(i, r) /\ Changes(Reach(i)) /\ Opens(i, r) /\ Uploads(i, r)

\* Changes of the tree.
LEMMA TreeStays ==
  ASSUME tree' = tree, NEW X
  PROVE  Changes(X)
BY DEF Changes

LEMMA TreeMade ==
  ASSUME TreeOK, NEW P, CanMake(P), tree' = Made(P), NEW X
  PROVE  Changes(X)
<1>1. DOMAIN tree' = DOMAIN tree \cup P
  BY DEF Made
<1>2. \A q \in DOMAIN tree' : tree'[q] = IF q \in P THEN Folder ELSE tree[q]
  BY <1>1 DEF Made
<1>3. Folder.id = 0
  BY DEF Folder, Node
<1>4. \A q \in P : q \in DOMAIN tree => tree[q].id = 0
  BY <1>3 DEF CanMake, IsFile
<1>5. QED
  BY <1>1, <1>2, <1>3, <1>4 DEF Changes

LEMMA TreePut ==
  ASSUME TreeOK, NEW p, NEW id, NEW x, tree' = With(tree, p, Node(id, x)),
         id = FreshId \/ (p \in DOMAIN tree /\ tree[p].id = id),
         NEW X, p \in X
  PROVE  /\ Changes(X) /\ p \in DOMAIN tree' /\ tree'[p] = Node(id, x)
         /\ tree'[p].id = id /\ tree'[p].text = x
<1>1. DOMAIN tree' = DOMAIN tree \cup {p}
  BY DEF With
<1>2. \A q \in DOMAIN tree' : tree'[q] = IF q = p THEN Node(id, x) ELSE tree[q]
  BY <1>1 DEF With
<1>3. Node(id, x).id = id /\ Node(id, x).text = x
  BY DEF Node
<1>4. \A n \in DOMAIN tree' :
        \/ n \in DOMAIN tree /\ tree'[n].id = tree[n].id
        \/ n = p /\ tree'[n].id = FreshId
  BY <1>1, <1>2, <1>3
<1>5. QED
  BY <1>1, <1>2, <1>3, <1>4 DEF Changes

LEMMA TreeLess ==
  ASSUME NEW p, tree' = Without(tree, {p}), NEW X, p \in X
  PROVE  Changes(X)
<1>1. DOMAIN tree' = DOMAIN tree \ {p}
  BY DEF Without
<1>2. \A q \in DOMAIN tree' : tree'[q] = tree[q]
  BY <1>1 DEF Without
<1>3. QED
  BY <1>1, <1>2 DEF Changes

LEMMA ChangesMore ==
  ASSUME NEW X, NEW Y, Changes(X), X \subseteq Y
  PROVE  Changes(Y)
BY DEF Changes

\* A call that begins.
Fresh(r) ==
  /\ r.file = 0 /\ r.names = {} /\ r.stage \notin {"writing", "worked"}
  /\ r.answer = "ok" => r.stage = "answered" /\ r.call.tool # "upload"

LEMMA BeginEffect ==
  ASSUME RunOK, NEW i, NEW tool, Due(i, tool), NEW b, Begins(i, b),
         NEW r \in Records, r = [b EXCEPT !.call = Head(todo)], r.call = Head(todo), Fresh(r),
         alone' = alone, Changes({})
  PROVE  Effect(i, r)
<1>1. i \in Live /\ todo # <<>> /\ i = Len(todo)
  BY DueIs DEF Due
<1>2. Goes(i, r)
  BY <1>1 DEF Goes, Begins
<1>3. SoundRecord(i, r) /\ Opens(i, r)
  BY DEF SoundRecord, Opens, Fresh
<1>4. Uploads(i, r)
  BY DEF Uploads, There, Done, Fresh
<1>5. Changes(Reach(i))
  BY ChangesMore
<1>6. QED
  BY <1>2, <1>3, <1>4, <1>5 DEF Effect

LEMMA AnswerEffect ==
  ASSUME RunOK, NEW i, NEW tool, Due(i, tool), NEW a \in {"ok", "error", "gone"},
         Begins(i, Answer(a)), a = "ok" => tool # "upload", alone' = alone, Changes({})
  PROVE  \E r : Effect(i, r)
<1>1. PICK c \in Calls : c = Head(todo) /\ c.tool = tool
  BY DueIs
<1>2. PICK r : r = [Answer(a) EXCEPT !.call = c]
  OBVIOUS
<1>3. r \in Records /\ r.call = c /\ r.stage = "answered" /\ r.answer = a
  BY <1>2, AnswerOK
<1>4. r.file = 0 /\ r.names = {}
  BY <1>2 DEF Answer, Idle
<1>5. Fresh(r)
  BY <1>1, <1>3, <1>4 DEF Fresh
<1>6. Effect(i, r)
  BY <1>1, <1>2, <1>3, <1>5, BeginEffect
<1>7. QED
  BY <1>6

LEMMA MakingEffect ==
  ASSUME RunOK, SpaceOK, NEW i, NEW tool, Due(i, tool), NEW P, NEW b, Making(i, P, b),
         Begins(i, b) /\ Changes({}) => \E r : Effect(i, r)
  PROVE  \E r : Effect(i, r)
<1>1. CASE CanMake(P)
  <2>1. tree' = Made(P) /\ Begins(i, b)
    BY <1>1 DEF Making
  <2>2. Changes({})
    BY <1>1, <2>1, TreeMade DEF SpaceOK
  <2>3. QED
    BY <2>1, <2>2
<1>2. CASE ~CanMake(P)
  <2>1. tree' = tree /\ Begins(i, Answer("error")) /\ alone' = alone
    BY <1>2 DEF Making
  <2>2. Changes({})
    BY <2>1, TreeStays
  <2>3. QED
    BY <2>1, <2>2, AnswerEffect
<1>3. QED
  BY <1>1, <1>2

LEMMA BeginsEffect ==
  ASSUME RunOK, SpaceOK, NEW i,
         BeginList(i) \/ BeginFolder(i) \/ BeginUpload(i) \/ BeginRemove(i) \/ BeginCommand(i)
  PROVE  \E r : Effect(i, r)
<1>1. CASE BeginList(i)
  <2>0. PICK p : p = Head(todo).path
    OBVIOUS
  <2>1. PICK P, a : a \in {"ok", "error"} /\ Due(i, "list") /\ Making(i, P, Answer(a))
    <3>1. PICK a \in {"ok", "error"} : Making(i, ({p} \cup Above(p)) \ {<<>>}, Answer(a))
      BY <1>1, <2>0 DEF BeginList
    <3>2. QED
      BY <1>1, <3>1 DEF BeginList
  <2>2. alone' = alone
    BY <2>1 DEF Making
  <2>3. Begins(i, Answer(a)) /\ Changes({}) => \E r : Effect(i, r)
    BY <2>1, <2>2, AnswerEffect
  <2>4. QED
    BY <2>1, <2>3, MakingEffect
<1>2. CASE BeginFolder(i)
  <2>1. PICK P : Due(i, "folder") /\ Making(i, P, Answer("ok"))
    BY <1>2 DEF BeginFolder
  <2>2. alone' = alone
    BY <2>1 DEF Making
  <2>3. Begins(i, Answer("ok")) /\ Changes({}) => \E r : Effect(i, r)
    BY <2>1, <2>2, AnswerEffect
  <2>4. QED
    BY <2>1, <2>3, MakingEffect
<1>3. CASE BeginUpload(i)
  <2>1. PICK b : b = [Idle EXCEPT !.stage = "opening"]
    OBVIOUS
  <2>2. PICK P : Due(i, "upload") /\ Making(i, P, b)
    BY <1>3, <2>1 DEF BeginUpload
  <2>3. PICK c \in Calls : c = Head(todo) /\ c.tool = "upload"
    BY <2>2, DueIs
  <2>4. PICK r : r = [b EXCEPT !.call = c]
    OBVIOUS
  <2>5. r \in Records /\ r.call = c /\ r.stage = "opening"
    <3>1. c.tool = "upload"
      BY <2>3
    <3>2. QED
      BY <2>1, <2>4, <3>1, EmptySeq DEF Idle, Records, CallStages
  <2>6. Fresh(r)
    BY <2>1, <2>4, <2>5 DEF Fresh, Idle
  <2>7. alone' = alone
    BY <2>2 DEF Making
  <2>8. Begins(i, b) /\ Changes({}) => Effect(i, r)
    BY <2>2, <2>3, <2>4, <2>5, <2>6, <2>7, BeginEffect
  <2>9. QED
    BY <2>2, <2>8, MakingEffect
<1>4. CASE BeginRemove(i)
  <2>1. Due(i, "remove") /\ alone' = alone /\ tree' = tree
    BY <1>4 DEF BeginRemove, space
  <2>2. Changes({})
    BY <2>1, TreeStays
  <2>3. CASE Begins(i, Answer("gone"))
    BY <2>1, <2>2, <2>3, AnswerEffect
  <2>4. ASSUME NEW stage \in {"removing", "scanning"}, Begins(i, [Idle EXCEPT !.stage = stage])
        PROVE  \E r : Effect(i, r)
    <3>1. PICK b : b = [Idle EXCEPT !.stage = stage]
      OBVIOUS
    <3>2. PICK c \in Calls : c = Head(todo) /\ c.tool = "remove"
      BY <2>1, DueIs
    <3>3. PICK r : r = [b EXCEPT !.call = c]
      OBVIOUS
    <3>4. r \in Records /\ r.call = c /\ r.stage = stage
      <4>1. c.tool = "remove"
        BY <3>2
      <4>2. QED
        BY <3>1, <3>3, <4>1, EmptySeq DEF Idle, Records, CallStages
    <3>5. Fresh(r)
      BY <3>1, <3>3, <3>4 DEF Fresh, Idle
    <3>6. Begins(i, b)
      BY <2>4, <3>1
    <3>7. Effect(i, r)
      BY <2>1, <2>2, <3>2, <3>3, <3>4, <3>5, <3>6, BeginEffect
    <3>8. QED
      BY <3>7
  <2>5. QED
    BY <1>4, <2>3, <2>4 DEF BeginRemove
<1>5. CASE BeginCommand(i)
  <2>1. PICK b : b = [Idle EXCEPT !.stage = "waiting", !.shell = TRUE]
    OBVIOUS
  <2>2. PICK P : Due(i, "bash") /\ Making(i, P, b)
    BY <1>5, <2>1 DEF BeginCommand
  <2>3. PICK c \in Calls : c = Head(todo) /\ c.tool = "bash"
    BY <2>2, DueIs
  <2>4. PICK r : r = [b EXCEPT !.call = c]
    OBVIOUS
  <2>5. r \in Records /\ r.call = c /\ r.stage = "waiting"
    <3>1. c.tool = "bash"
      BY <2>3
    <3>2. r = [[Idle EXCEPT !.stage = "waiting", !.shell = TRUE] EXCEPT !.call = c]
      BY <2>1, <2>4
    <3>3. r.call = c /\ r.stage = "waiting"
      BY <3>2 DEF Idle
    <3>4. r \in Records
      BY <3>1, <3>2, EmptySeq DEF Idle, Records, CallStages
    <3>5. QED
      BY <3>3, <3>4
  <2>6. Fresh(r)
    BY <2>1, <2>4, <2>5 DEF Fresh, Idle
  <2>7. alone' = alone
    BY <2>2 DEF Making
  <2>8. Begins(i, b) /\ Changes({}) => Effect(i, r)
    BY <2>2, <2>3, <2>4, <2>5, <2>6, <2>7, BeginEffect
  <2>9. QED
    BY <2>2, <2>8, MakingEffect
<1>6. QED
  BY <1>1, <1>2, <1>3, <1>4, <1>5

\* A call, or what outlived one, goes on.
LEMMA StepsEffect ==
  ASSUME RunOK, NEW i \in Runs, Busy(i), NEW s \in Records, Steps(i, s), alone' = alone,
         s.call = run[i].call, SoundRecord(i, s), Opens(i, s), Uploads(i, s),
         Changes(Reach(i))
  PROVE  \E r : Effect(i, r)
<1>1. Goes(i, s)
  BY DEF Goes, Steps
<1>2. QED
  BY <1>1 DEF Effect

LEMMA LeavesEffect ==
  ASSUME RunOK, NEW i \in Runs, Sound(i), Busy(i), run[i].stage # "answered",
         NEW s \in Records, Leaves(i, s), alone' = alone,
         s.call = run[i].call, s.names \subseteq run[i].names, s.file \in {0, run[i].file},
         s.answer = run[i].answer, Uploads(i, s), Changes(Reach(i))
  PROVE  \E r : Effect(i, r)
<1>1. CASE i \in Live
  <2>1. Goes(i, s)
    BY <1>1 DEF Goes, Leaves
  <2>2. SoundRecord(i, s) /\ Opens(i, s)
    BY DEF Sound, SoundRecord, Opens
  <2>3. QED
    BY <2>1, <2>2 DEF Effect
<1>2. CASE i \notin Live
  <2>1. Goes(i, Idle)
    BY <1>2, IdleFits DEF Goes, Leaves
  <2>2. /\ Idle.call = None /\ Idle.stage = "idle" /\ Idle.answer = "none"
        /\ Idle.names = {} /\ Idle.file = 0
    BY DEF Idle
  <2>3. SoundRecord(i, Idle) /\ Opens(i, Idle)
    BY <2>2 DEF SoundRecord, Opens
  <2>4. Uploads(i, Idle)
    BY <2>2 DEF Uploads, There, Done
  <2>5. QED
    BY <2>1, <2>3, <2>4 DEF Effect
<1>3. QED
  BY <1>1, <1>2

LEMMA PrefixSelf ==
  ASSUME NEW p \in Paths
  PROVE  IsPrefix(p, p)
<1>1. p \in Seq(STRING) /\ Len(p) \in Nat
  BY PathIs
<1>2. QED
  BY <1>1 DEF IsPrefix

\* The work of a thread on a path.
LEMMA AtWork ==
  ASSUME RunOK, NEW i \in Runs,
         run[i].stage \in {"opening", "writing", "removing", "scanning", "clearing"}
  PROVE  /\ Busy(i) /\ run[i] \in Records /\ Fits(run[i])
         /\ run[i].call \in Calls /\ run[i].call.path \in Paths
         /\ run[i].stage \in {"opening", "writing"} =>
              run[i].call.tool = "upload" /\ run[i].call.text \in Texts
         /\ run[i].stage \in {"removing", "scanning", "clearing"} =>
              run[i].call.tool = "remove"
         /\ run[i].call.path \in Reach(i)
         /\ \A n \in Paths : IsPrefix(run[i].call.path, n) => n \in Reach(i)
<1>1. run[i] \in Records /\ Fits(run[i]) /\ Busy(i)
  BY DEF RunOK, Busy, Ended
<1>2. /\ run[i].call \in Calls /\ run[i].call.tool \in {"upload", "remove"}
      /\ run[i].stage \in {"opening", "writing"} => run[i].call.tool = "upload"
      /\ run[i].stage \in {"removing", "scanning", "clearing"} => run[i].call.tool = "remove"
  BY <1>1 DEF Fits
<1>3. /\ run[i].call.path \in Paths
      /\ run[i].call.tool = "upload" => run[i].call.text \in Texts
  <2>1. PICK c \in Calls : c = run[i].call /\ c.tool \in {"upload", "remove"}
    BY <1>2
  <2>2. c.path \in Paths /\ (c.tool = "upload" => c.text \in Texts)
    BY <2>1, CallFields
  <2>3. QED
    BY <2>1, <2>2
<1>4. IsPrefix(run[i].call.path, run[i].call.path)
  BY <1>3, PrefixSelf
<1>5. QED
  BY <1>1, <1>2, <1>3, <1>4 DEF Reach

LEMMA OpenFileEffect ==
  ASSUME RunOK, SpaceOK, NEW i \in Runs, Sound(i), OpenFile(i)
  PROVE  \E r : Effect(i, r)
<1>1. PICK r \in Records : r = run[i] /\ r.stage = "opening"
  BY DEF RunOK, OpenFile, At
<1>2. /\ Busy(i) /\ r.call \in Calls /\ r.call.path \in Paths /\ r.call.tool = "upload"
      /\ r.call.path \in Reach(i)
  BY <1>1, AtWork
<1>3. PICK p : p = r.call.path
  OBVIOUS
<1>4. PICK id : id = IF IsFile(p) THEN tree[p].id ELSE FreshId
  OBVIOUS
<1>5. id = FreshId \/ (p \in DOMAIN tree /\ tree[p].id = id)
  BY <1>4 DEF IsFile
<1>6. alone' = alone /\ id \in Nat
  BY <1>4, FreshIs DEF OpenFile, IsFile, SpaceOK, TreeOK, Nodes
<1>7. CASE IsFolder(Front(p)) /\ ~IsFolder(p)
  <2>1. /\ tree' = With(tree, p, Node(id, Part))
        /\ Steps(i, [r EXCEPT !.stage = "writing", !.file = id])
    BY <1>1, <1>3, <1>4, <1>7 DEF OpenFile
  <2>2. /\ Changes(Reach(i)) /\ p \in DOMAIN tree' /\ tree'[p] = Node(id, Part)
        /\ tree'[p].id = id
    BY <1>2, <1>3, <1>5, <2>1, TreePut DEF SpaceOK
  <2>3. PICK s : s = [r EXCEPT !.stage = "writing", !.file = id]
    OBVIOUS
  <2>4. /\ s \in Records /\ s.call = r.call /\ s.stage = "writing" /\ s.file = id
        /\ s.names = r.names /\ s.answer = r.answer
    BY <1>1, <1>6, <2>3 DEF Records, CallStages
  <2>5. SoundRecord(i, s)
    BY <1>1, <2>4 DEF Sound, SoundRecord
  <2>6. Opens(i, s)
    BY <1>3, <2>2, <2>4 DEF Opens
  <2>7. Uploads(i, s)
    BY <1>3, <2>2, <2>4 DEF Uploads, There, Done
  <2>8. Steps(i, s)
    BY <2>1, <2>3
  <2>9. QED
    BY <1>1, <1>2, <1>6, <2>2, <2>4, <2>5, <2>6, <2>7, <2>8, StepsEffect
<1>8. CASE ~(IsFolder(Front(p)) /\ ~IsFolder(p))
  <2>1. Leaves(i, [r EXCEPT !.stage = "raised"]) /\ tree' = tree
    BY <1>1, <1>3, <1>4, <1>8 DEF OpenFile
  <2>2. PICK s : s = [r EXCEPT !.stage = "raised"]
    OBVIOUS
  <2>3. /\ s \in Records /\ s.call = r.call /\ s.stage = "raised" /\ s.file = r.file
        /\ s.names = r.names /\ s.answer = r.answer
    BY <1>1, <2>2 DEF Records, CallStages
  <2>4. Uploads(i, s)
    BY <2>3 DEF Uploads, There, Done
  <2>5. Changes(Reach(i))
    BY <2>1, TreeStays
  <2>6. Leaves(i, s)
    BY <2>1, <2>2
  <2>7. QED
    BY <1>1, <1>2, <1>6, <2>3, <2>4, <2>5, <2>6, LeavesEffect
<1>9. QED
  BY <1>7, <1>8

LEMMA WriteFileEffect ==
  ASSUME RunOK, SpaceOK, NEW i \in Runs, Sound(i), WriteFile(i)
  PROVE  \E r : Effect(i, r)
<1>1. PICK r \in Records : r = run[i] /\ r.stage = "writing"
  BY DEF RunOK, WriteFile, At
<1>2. /\ Busy(i) /\ r.call \in Calls /\ r.call.path \in Paths /\ r.call.tool = "upload"
      /\ r.call.path \in Reach(i) /\ r.file # 0
  BY <1>1, AtWork DEF Fits
<1>3. PICK p : p = r.call.path
  OBVIOUS
<1>4. PICK there \in BOOLEAN : there = (p \in DOMAIN tree /\ tree[p].id = r.file)
  OBVIOUS
<1>5. PICK x :
        /\ tree' = IF there THEN With(tree, p, Node(r.file, x)) ELSE tree
        /\ there /\ tree[p].text = Part /\ ~Shared(i) => x = r.call.text
  BY <1>1, <1>3, <1>4 DEF WriteFile, Shared, At
<1>6. Leaves(i, [r EXCEPT !.stage = "worked", !.file = 0]) /\ alone' = alone
  BY <1>1 DEF WriteFile
<1>7. PICK s : s = [r EXCEPT !.stage = "worked", !.file = 0]
  OBVIOUS
<1>8. /\ s \in Records /\ s.call = r.call /\ s.stage = "worked" /\ s.file = 0
      /\ s.names = r.names /\ s.answer = r.answer
  BY <1>1, <1>7 DEF Records, CallStages
<1>9. there => /\ Changes(Reach(i)) /\ p \in DOMAIN tree'
               /\ tree'[p].id = r.file /\ tree'[p].text = x
  <2>1. SUFFICES ASSUME there PROVE /\ Changes(Reach(i)) /\ p \in DOMAIN tree'
                                    /\ tree'[p].id = r.file /\ tree'[p].text = x
    OBVIOUS
  <2>2. tree' = With(tree, p, Node(r.file, x)) /\ p \in DOMAIN tree /\ tree[p].id = r.file
    BY <1>4, <1>5, <2>1
  <2>3. TreeOK /\ p \in Reach(i)
    BY <1>2, <1>3 DEF SpaceOK
  <2>4. QED
    BY <2>2, <2>3, TreePut
<1>10. Changes(Reach(i))
  BY <1>5, <1>9, TreeStays
<1>11. Uploads(i, s)
  <2>1. SUFFICES ASSUME ~Shared(i), There(r, tree) PROVE There(s, tree')
    BY <1>1, <1>8 DEF Uploads
  <2>2. p \in DOMAIN tree /\ tree[p] = Node(r.file, Part)
    BY <1>1, <1>3, <2>1 DEF There
  <2>3. there /\ tree[p].text = Part
    <3>1. Node(r.file, Part).id = r.file /\ Node(r.file, Part).text = Part
      BY DEF Node
    <3>2. QED
      BY <1>4, <2>2, <3>1
  <2>4. x = r.call.text
    BY <1>5, <2>1, <2>3
  <2>5. QED
    BY <1>2, <1>3, <1>8, <1>9, <2>3, <2>4 DEF There
<1>12. Leaves(i, s)
  BY <1>6, <1>7
<1>13. QED
  BY <1>1, <1>2, <1>6, <1>8, <1>10, <1>11, <1>12, LeavesEffect

\* The work of a removal leaves its record with its call: it is no upload.
LEMMA RemovalEffect ==
  ASSUME RunOK, SpaceOK, NEW i \in Runs, Sound(i),
         RemoveFile(i) \/ Scan(i) \/ Clear(i) \/ RemoveFolder(i)
  PROVE  \E r : Effect(i, r)
<1>1. PICK r \in Records : r = run[i] /\ r.stage \in {"removing", "scanning", "clearing"}
  BY DEF RunOK, RemoveFile, Scan, Clear, RemoveFolder, At
<1>2. /\ Busy(i) /\ r.call \in Calls /\ r.call.path \in Paths /\ r.call.tool = "remove"
      /\ r.call.path \in Reach(i)
      /\ \A n \in Paths : IsPrefix(r.call.path, n) => n \in Reach(i)
  BY <1>1, AtWork
<1>3. \A s : s.call = r.call => Uploads(i, s)
  BY <1>2 DEF Uploads
<1>4. alone' = alone
  BY DEF RemoveFile, Scan, Clear, RemoveFolder, space
<1>5. ASSUME NEW stage \in {"worked", "raised"}, Leaves(i, [r EXCEPT !.stage = stage]),
             Changes(Reach(i))
      PROVE  \E s : Effect(i, s)
  <2>1. PICK s : s = [r EXCEPT !.stage = stage]
    OBVIOUS
  <2>2. /\ s \in Records /\ s.call = r.call /\ s.stage = stage /\ s.file = r.file
        /\ s.names = r.names /\ s.answer = r.answer
    BY <1>1, <2>1 DEF Records, CallStages
  <2>3. Leaves(i, s)
    BY <1>5, <2>1
  <2>4. QED
    BY <1>1, <1>2, <1>3, <1>4, <1>5, <2>2, <2>3, LeavesEffect
<1>6. ASSUME NEW names \in SUBSET Paths, \A q \in names : IsPrefix(r.call.path, q),
             Steps(i, [r EXCEPT !.stage = "clearing", !.names = names]), Changes(Reach(i))
      PROVE  \E s : Effect(i, s)
  <2>1. PICK s : s = [r EXCEPT !.stage = "clearing", !.names = names]
    OBVIOUS
  <2>2. /\ s \in Records /\ s.call = r.call /\ s.stage = "clearing" /\ s.file = r.file
        /\ s.names = names /\ s.answer = r.answer
    BY <1>1, <2>1 DEF Records, CallStages
  <2>3. Steps(i, s)
    BY <1>6, <2>1
  <2>4. SoundRecord(i, s) /\ Opens(i, s)
    BY <1>1, <1>6, <2>2 DEF Sound, SoundRecord, Opens
  <2>5. QED
    BY <1>1, <1>2, <1>3, <1>4, <1>6, <2>2, <2>3, <2>4, StepsEffect
<1>7. ASSUME NEW q, q \in Reach(i), tree' = Without(tree, {q}) PROVE Changes(Reach(i))
  BY <1>7, TreeLess
<1>8. CASE RemoveFile(i) \/ RemoveFolder(i)
  <2>1. PICK stage \in {"worked", "raised"} :
          /\ Leaves(i, [r EXCEPT !.stage = stage])
          /\ tree' \in {tree, Without(tree, {r.call.path})}
    BY <1>1, <1>8 DEF RemoveFile, RemoveFolder
  <2>2. Changes(Reach(i))
    BY <1>2, <1>7, <2>1, TreeStays
  <2>3. QED
    BY <1>5, <2>1, <2>2
<1>9. CASE Scan(i)
  <2>1. PICK names : names = Children(r.call.path)
    OBVIOUS
  <2>2. names \in SUBSET Paths /\ \A q \in names : IsPrefix(r.call.path, q)
    BY <2>1 DEF Children, SpaceOK, TreeOK
  <2>3. Steps(i, [r EXCEPT !.stage = "clearing", !.names = names]) /\ tree' = tree
    BY <1>1, <1>9, <2>1 DEF Scan, space
  <2>4. QED
    BY <1>6, <2>2, <2>3, TreeStays
<1>10. CASE Clear(i)
  <2>1. PICK q \in r.names :
          IF q \in DOMAIN tree
          THEN /\ tree' = Without(tree, {q})
               /\ Steps(i, [r EXCEPT !.names = r.names \ {q}])
          ELSE Leaves(i, [r EXCEPT !.stage = "raised", !.names = {}]) /\ UNCHANGED tree
    BY <1>1, <1>10 DEF Clear
  <2>2. /\ r.stage = "clearing" /\ r.names \in SUBSET Paths
        /\ \A n \in r.names : IsPrefix(r.call.path, n)
    BY <1>1, <1>10 DEF Clear, At, Sound, Records
  <2>3. CASE q \in DOMAIN tree
    <3>1. tree' = Without(tree, {q}) /\ Steps(i, [r EXCEPT !.names = r.names \ {q}])
      BY <2>1, <2>3
    <3>2. Changes(Reach(i))
      BY <1>2, <1>7, <2>2, <3>1
    <3>3. PICK s : s = [r EXCEPT !.names = r.names \ {q}]
      OBVIOUS
    <3>4. s = [r EXCEPT !.stage = "clearing", !.names = r.names \ {q}]
      BY <1>1, <2>2, <3>3 DEF Records
    <3>5. PICK names : names = r.names \ {q}
      OBVIOUS
    <3>6. Steps(i, [r EXCEPT !.stage = "clearing", !.names = names])
      BY <3>1, <3>3, <3>4, <3>5
    <3>7. names \in SUBSET Paths /\ \A n \in names : IsPrefix(r.call.path, n)
      BY <2>2, <3>5
    <3>8. QED
      BY <1>6, <3>2, <3>6, <3>7
  <2>4. CASE q \notin DOMAIN tree
    <3>1. Leaves(i, [r EXCEPT !.stage = "raised", !.names = {}]) /\ tree' = tree
      BY <2>1, <2>4
    <3>2. PICK s : s = [r EXCEPT !.stage = "raised", !.names = {}]
      OBVIOUS
    <3>3. /\ s \in Records /\ s.call = r.call /\ s.stage = "raised" /\ s.file = r.file
          /\ s.names = {} /\ s.answer = r.answer
      BY <1>1, <3>2 DEF Records, CallStages
    <3>4. Leaves(i, s) /\ Changes(Reach(i))
      BY <3>1, <3>2, TreeStays
    <3>5. QED
      BY <1>1, <1>2, <1>3, <1>4, <3>3, <3>4, LeavesEffect
  <2>5. QED
    BY <2>3, <2>4
<1>11. QED
  BY <1>8, <1>9, <1>10

LEMMA ReplyEffect ==
  ASSUME RunOK, SpaceOK, NEW i \in Runs, Sound(i), Reply(i)
  PROVE  \E r : Effect(i, r)
<1>1. PICK r \in Records : r = run[i] /\ r.stage \in {"worked", "raised"}
  BY DEF RunOK, Reply, At
<1>2. PICK a \in {"ok", "error"} :
        /\ Steps(i, [r EXCEPT !.stage = "answered", !.answer = a])
        /\ a = "ok" => r.stage = "worked"
  BY <1>1 DEF Reply, At
<1>3. tree' = tree /\ alone' = alone
  BY DEF Reply, space
<1>4. PICK s : s = [r EXCEPT !.stage = "answered", !.answer = a]
  OBVIOUS
<1>5. /\ s \in Records /\ s.call = r.call /\ s.stage = "answered" /\ s.file = r.file
      /\ s.names = r.names /\ s.answer = a
  BY <1>1, <1>4 DEF Records, CallStages
<1>6. Uploads(i, s)
  BY <1>1, <1>2, <1>3, <1>5 DEF Uploads, There, Done
<1>7. SoundRecord(i, s) /\ Opens(i, s) /\ Changes(Reach(i))
  BY <1>1, <1>3, <1>5, TreeStays DEF Sound, SoundRecord, Opens
<1>8. Steps(i, s) /\ Busy(i)
  BY <1>1, <1>2, <1>4 DEF Busy, Ended
<1>9. QED
  BY <1>1, <1>3, <1>5, <1>6, <1>7, <1>8, StepsEffect

\* A command and its processes.
LEMMA CommandEffect ==
  ASSUME RunOK, SpaceOK, NEW i \in Runs, Sound(i),
         Fork(i) \/ ShellExits(i) \/ ChildExits(i) \/ EndCommand(i) \/ Timeout(i)
  PROVE  \E r : Effect(i, r)
<1>1. PICK r \in Records : r = run[i] /\ Fits(r)
  BY DEF RunOK
<1>2. r.shell \/ r.child \/ r.stage \in {"waiting", "draining"}
  BY <1>1 DEF Fork, ShellExits, ChildExits, EndCommand, Timeout, At
<1>3. r.call \in Calls /\ r.call.tool = "bash"
  BY <1>1, <1>2 DEF Fits
<1>4. tree' = tree /\ alone' = alone /\ Busy(i)
  BY <1>1, <1>2 DEF Fork, ShellExits, ChildExits, EndCommand, Timeout, space, Busy, Ended
<1>5. Changes(Reach(i))
  BY <1>4, TreeStays
<1>6. ASSUME NEW s \in Records, Steps(i, s), s.call = r.call, s.names = r.names,
             s.file = r.file, s.answer = "ok" => (s.stage = "answered" \/ s.stage = r.stage),
             s.stage = "answered" \/ s.answer = r.answer
      PROVE  \E q : Effect(i, q)
  <2>1. SoundRecord(i, s) /\ Opens(i, s) /\ Uploads(i, s)
    BY <1>1, <1>3, <1>6 DEF Sound, SoundRecord, Opens, Uploads
  <2>2. QED
    BY <1>1, <1>4, <1>5, <1>6, <2>1, StepsEffect
<1>7. ASSUME Steps(i, Idle) PROVE \E q : Effect(i, q)
  <2>1. Goes(i, Idle)
    BY <1>1, <1>3, <1>4, <1>7, IdleFits DEF Goes, Steps
  <2>2. /\ Idle.call = None /\ Idle.stage = "idle" /\ Idle.answer = "none"
        /\ Idle.names = {} /\ Idle.file = 0
    BY DEF Idle
  <2>3. SoundRecord(i, Idle) /\ Opens(i, Idle) /\ Uploads(i, Idle)
    BY <2>2 DEF SoundRecord, Opens, Uploads, There, Done
  <2>4. QED
    BY <1>5, <2>1, <2>3 DEF Effect
<1>8. CASE Fork(i)
  <2>1. Steps(i, [r EXCEPT !.child = TRUE])
    BY <1>1, <1>8 DEF Fork
  <2>2. PICK s : s = [r EXCEPT !.child = TRUE]
    OBVIOUS
  <2>3. /\ s \in Records /\ s.call = r.call /\ s.stage = r.stage /\ s.file = r.file
        /\ s.names = r.names /\ s.answer = r.answer
    BY <1>1, <2>2 DEF Records, CallStages
  <2>4. QED
    BY <1>6, <2>1, <2>2, <2>3
<1>9. CASE ShellExits(i)
  <2>1. Steps(i, Idle) \/ Steps(i, [r EXCEPT !.shell = FALSE])
    BY <1>1, <1>9 DEF ShellExits
  <2>2. PICK s : s = [r EXCEPT !.shell = FALSE]
    OBVIOUS
  <2>3. /\ s \in Records /\ s.call = r.call /\ s.stage = r.stage /\ s.file = r.file
        /\ s.names = r.names /\ s.answer = r.answer
    BY <1>1, <2>2 DEF Records, CallStages
  <2>4. QED
    BY <1>6, <1>7, <2>1, <2>2, <2>3
<1>10. CASE ChildExits(i)
  <2>1. Steps(i, Idle) \/ Steps(i, [r EXCEPT !.child = FALSE])
    BY <1>1, <1>10 DEF ChildExits
  <2>2. PICK s : s = [r EXCEPT !.child = FALSE]
    OBVIOUS
  <2>3. /\ s \in Records /\ s.call = r.call /\ s.stage = r.stage /\ s.file = r.file
        /\ s.names = r.names /\ s.answer = r.answer
    BY <1>1, <2>2 DEF Records, CallStages
  <2>4. QED
    BY <1>6, <1>7, <2>1, <2>2, <2>3
<1>11. CASE EndCommand(i)
  <2>1. PICK a \in {"ok", "error"} : Steps(i, [r EXCEPT !.stage = "answered", !.answer = a])
    BY <1>1, <1>11 DEF EndCommand, At
  <2>2. PICK s : s = [r EXCEPT !.stage = "answered", !.answer = a]
    OBVIOUS
  <2>3. /\ s \in Records /\ s.call = r.call /\ s.stage = "answered" /\ s.file = r.file
        /\ s.names = r.names
    BY <1>1, <2>2 DEF Records, CallStages
  <2>4. QED
    BY <1>6, <2>1, <2>2, <2>3
<1>12. CASE Timeout(i)
  <2>1. Steps(i, [r EXCEPT !.stage = "draining", !.shell = FALSE]) /\ r.stage = "waiting"
    BY <1>1, <1>12 DEF Timeout, At
  <2>2. PICK s : s = [r EXCEPT !.stage = "draining", !.shell = FALSE]
    OBVIOUS
  <2>3. /\ s \in Records /\ s.call = r.call /\ s.stage = "draining" /\ s.file = r.file
        /\ s.names = r.names /\ s.answer = r.answer
    BY <1>1, <2>2 DEF Records, CallStages
  <2>4. SoundRecord(i, s) /\ Opens(i, s) /\ Uploads(i, s)
    BY <1>1, <1>3, <2>1, <2>3 DEF Sound, SoundRecord, Opens, Uploads
  <2>5. Steps(i, s)
    BY <2>1, <2>2
  <2>6. QED
    BY <1>1, <1>4, <1>5, <2>3, <2>4, <2>5, StepsEffect
<1>13. QED
  BY <1>8, <1>9, <1>10, <1>11, <1>12

LEMMA TouchEffect ==
  ASSUME RunOK, SpaceOK, NEW i \in Runs, Sound(i), Touch(i)
  PROVE  \E r : Effect(i, r)
<1>1. PICK r \in Records : r = run[i] /\ Fits(r)
  BY DEF RunOK
<1>2. r.shell \/ r.child
  BY <1>1 DEF Touch
<1>3. r.call \in Calls /\ r.call.tool = "bash" /\ Busy(i)
  BY <1>1, <1>2 DEF Fits, Busy
<1>4. \A p \in Paths : p \in Reach(i)
  BY <1>1, <1>2 DEF Reach
<1>5. PICK p \in Paths :
        \/ tree' = With(tree, p, Node(FreshId, Foreign)) \/ tree' = Without(tree, {p})
  BY DEF Touch
<1>6. Changes(Reach(i))
  BY <1>4, <1>5, TreePut, TreeLess DEF SpaceOK
<1>7. Goes(i, r)
  <2>1. UNCHANGED <<turn, todo, run, alone>>
    BY DEF Touch, batch
  <2>2. run' = [run EXCEPT ![i] = r]
    BY <1>1, <2>1 DEF RunOK
  <2>3. QED
    BY <1>1, <1>3, <2>1, <2>2 DEF Goes
<1>8. SoundRecord(i, r) /\ Opens(i, r) /\ Uploads(i, r)
  BY <1>1, <1>3 DEF Sound, SoundRecord, Opens, Uploads
<1>9. QED
  BY <1>6, <1>7, <1>8 DEF Effect

LEMMA DeleteEffect ==
  ASSUME TypesInv, NEW i \in Runs, Sound(i), Delete(i)
  PROVE  \E r : Effect(i, r)
<1>1. RunOK /\ SpaceOK /\ AttachOK /\ tree' = tree /\ alone' = alone
  BY DEF TypesInv, Delete, space
<1>2. \A X : Changes(X)
  BY <1>1, TreeStays
<1>3. CASE BeginDelete(i)
  <2>1. /\ Due(i, "delete")
        /\ \/ Begins(i, Answer("error")) \/ Begins(i, Answer("gone"))
           \/ Begins(i, [Idle EXCEPT !.stage = "unlinking", !.view = listed])
    BY <1>3 DEF BeginDelete
  <2>2. CASE Begins(i, Answer("error")) \/ Begins(i, Answer("gone"))
    BY <1>1, <1>2, <2>1, <2>2, AnswerEffect
  <2>3. CASE Begins(i, [Idle EXCEPT !.stage = "unlinking", !.view = listed])
    <3>1. PICK b : b = [Idle EXCEPT !.stage = "unlinking", !.view = listed]
      OBVIOUS
    <3>2. PICK c \in Calls : c = Head(todo) /\ c.tool = "delete"
      BY <1>1, <2>1, DueIs
    <3>3. PICK r : r = [b EXCEPT !.call = c]
      OBVIOUS
    <3>4. PICK v \in Seq(Keys) : v = listed
      BY <1>1 DEF AttachOK
    <3>5. r \in Records /\ r.call = c /\ r.stage = "unlinking"
      BY <3>1, <3>3, <3>4 DEF Idle, Records, CallStages
    <3>6. Fresh(r)
      BY <3>1, <3>3, <3>5 DEF Fresh, Idle
    <3>7. Begins(i, b)
      BY <2>3, <3>1
    <3>8. Effect(i, r)
      BY <1>1, <1>2, <2>1, <3>2, <3>3, <3>5, <3>6, <3>7, BeginEffect
    <3>9. QED
      BY <3>8
  <2>4. QED
    BY <2>1, <2>2, <2>3
<1>4. CASE UnlinkFile(i)
  <2>1. PICK r \in Records : r = run[i] /\ Fits(r) /\ r.stage = "unlinking"
    BY <1>1, <1>4 DEF RunOK, UnlinkFile, At
  <2>2. r.call \in Calls /\ r.call.tool = "delete" /\ Busy(i)
    BY <2>1 DEF Fits, Busy, Ended
  <2>3. PICK stage \in {"unlinked", "raised"} : Leaves(i, [r EXCEPT !.stage = stage])
    BY <1>4, <2>1 DEF UnlinkFile
  <2>4. PICK s : s = [r EXCEPT !.stage = stage]
    OBVIOUS
  <2>5. /\ s \in Records /\ s.call = r.call /\ s.stage = stage /\ s.file = r.file
        /\ s.names = r.names /\ s.answer = r.answer
    BY <2>1, <2>4 DEF Records, CallStages
  <2>6. Uploads(i, s)
    BY <2>2, <2>5 DEF Uploads
  <2>7. Leaves(i, s)
    BY <2>3, <2>4
  <2>8. QED
    BY <1>1, <1>2, <2>1, <2>2, <2>5, <2>6, <2>7, LeavesEffect
<1>5. CASE EndDelete(i)
  <2>1. PICK r \in Records : r = run[i] /\ Fits(r) /\ r.stage = "unlinked"
    BY <1>1, <1>5 DEF RunOK, EndDelete, At
  <2>2. r.call \in Calls /\ r.call.tool = "delete" /\ Busy(i)
    BY <2>1 DEF Fits, Busy, Ended
  <2>3. PICK s : s = [r EXCEPT !.stage = "answered", !.answer = "ok"]
    OBVIOUS
  <2>4. /\ s \in Records /\ s.call = r.call /\ s.stage = "answered" /\ s.file = r.file
        /\ s.names = r.names
    BY <2>1, <2>3 DEF Records, CallStages
  <2>5. SoundRecord(i, s) /\ Opens(i, s) /\ Uploads(i, s)
    BY <2>1, <2>2, <2>4 DEF Sound, SoundRecord, Opens, Uploads
  <2>6. Steps(i, s)
    BY <1>5, <2>1, <2>3 DEF EndDelete
  <2>7. QED
    BY <1>1, <1>2, <2>1, <2>2, <2>4, <2>5, <2>6, StepsEffect
<1>6. QED
  BY <1>3, <1>4, <1>5 DEF Delete

\* Every step of a call, and of what outlived one.
LEMMA CallEffect ==
  ASSUME TypesInv, NEW i \in Runs, Sound(i), Delete(i) \/ Beside(i)
  PROVE  \E r : Effect(i, r)
<1>1. RunOK /\ SpaceOK
  BY DEF TypesInv
<1>2. CASE Delete(i)
  BY <1>2, DeleteEffect
<1>3. CASE BeginList(i) \/ BeginFolder(i) \/ BeginUpload(i) \/ BeginRemove(i) \/ BeginCommand(i)
  BY <1>1, <1>3, BeginsEffect
<1>4. CASE OpenFile(i) \/ WriteFile(i)
  BY <1>1, <1>4, OpenFileEffect, WriteFileEffect
<1>5. CASE RemoveFile(i) \/ Scan(i) \/ Clear(i) \/ RemoveFolder(i)
  BY <1>1, <1>5, RemovalEffect
<1>6. CASE Reply(i)
  BY <1>1, <1>6, ReplyEffect
<1>7. CASE Fork(i) \/ ShellExits(i) \/ ChildExits(i) \/ EndCommand(i) \/ Timeout(i)
  BY <1>1, <1>7, CommandEffect
<1>8. CASE Touch(i)
  BY <1>1, <1>8, TouchEffect
<1>9. CASE Beside(i)
  BY <1>3, <1>4, <1>5, <1>6, <1>7, <1>8, <1>9 DEF Beside, WorkspaceCall, Command, Program
<1>10. QED
  BY <1>2, <1>9

-----------------------------------------------------------------------------
(* A step of a call keeps what the others were told *)

LEMMA EffectSound ==
  ASSUME RunOK, \A j \in Runs : Sound(j), NEW i \in Runs, NEW r, Effect(i, r)
  PROVE  \A j \in Runs : Sound(j)'
<1>1. \A j \in Runs : run'[j] = IF j = i THEN r ELSE run[j]
  BY OneCall DEF Effect, Goes
<1>2. QED
  BY <1>1 DEF Effect, SoundRecord, Sound

LEMMA EffectQuiet ==
  ASSUME RunOK, Quiet, NEW i \in Runs, NEW r, Effect(i, r)
  PROVE  /\ Quiet' /\ Messaging' = Messaging
         /\ Messaging => i \in Live /\ \A j \in Runs : Busy(j) => j \in Live
<1>1. /\ \A j \in Runs : run'[j] = IF j = i THEN r ELSE run[j]
      /\ i \in Live \/ Busy(i)
      /\ Messaging' = Messaging
  BY OneCall DEF Effect, Goes, Messaging
<1>2. \A j \in Left : j \notin Live
  BY BatchAssumption DEF Left, Live
<1>3. Messaging => i \in Live /\ \A j \in Runs : Busy(j) => j \in Live
  BY <1>1 DEF Quiet, Runs
<1>4. Quiet'
  BY <1>1, <1>2, <1>3 DEF Quiet, Runs, Busy, Ended, At
<1>5. QED
  BY <1>1, <1>3, <1>4

LEMMA EffectIds ==
  ASSUME RunOK, TreeOK, Ids, NEW i \in Runs, NEW r, Effect(i, r)
  PROVE  Ids'
<1>1. \A j \in Runs : run'[j] = IF j = i THEN r ELSE run[j]
  BY OneCall DEF Effect, Goes
<1>2. PICK p : \A n \in DOMAIN tree' :
        \/ n \in DOMAIN tree /\ tree'[n].id = tree[n].id
        \/ tree'[n].id = 0
        \/ n = p /\ tree'[n].id = FreshId
  BY DEF Effect, Changes
<1>3. /\ \A j \in Runs : run[j].file # FreshId
      /\ \A n \in DOMAIN tree : tree[n].id # FreshId
  BY FreshIs
<1>4. \A m, n \in DOMAIN tree' : tree'[m].id # 0 /\ tree'[m].id = tree'[n].id => m = n
  BY <1>2, <1>3 DEF Ids
<1>5. \A j \in Runs : \A n \in DOMAIN tree' :
        run[j].file # 0 /\ tree'[n].id = run[j].file => n = run[j].call.path
  BY <1>2, <1>3 DEF Ids
<1>6. \A n \in DOMAIN tree' : r.file # 0 /\ tree'[n].id = r.file => n = r.call.path
  BY <1>4, <1>5 DEF Effect, Opens
<1>7. QED
  BY <1>1, <1>4, <1>5, <1>6 DEF Ids

LEMMA EffectPlaces ==
  ASSUME RunOK, Places, NEW i \in Runs, NEW r, Effect(i, r)
  PROVE  /\ Places'
         /\ \/ r.call = run[i].call \/ i \notin Live
            \/ run[i].call = None /\ r.call \in Calls
            \/ run[i].call \in Calls /\ run[i].call.tool = "bash" /\ r.call = None
<1>1. \A j \in Runs : run'[j] = IF j = i THEN r ELSE run[j]
  BY OneCall DEF Effect, Goes
<1>2. 1 .. Len(todo) \subseteq Live /\ DOMAIN todo = 1 .. Len(todo) /\ Live \subseteq Runs
  <2>1. PICK n \in Nat : n = Len(todo) /\ n <= MaxBatch /\ DOMAIN todo = 1 .. n
    BY DEF RunOK
  <2>2. 1 .. n \subseteq Live
    BY <2>1, BatchAssumption DEF Live
  <2>3. QED
    BY <2>1, <2>2, LiveInRuns
<1>3. CASE todo # <<>> /\ i = Len(todo) /\ r.call = Head(todo) /\ todo' = Tail(todo)
  <2>1. PICK s \in Seq(Calls) : s = todo /\ s # <<>> /\ Tail(s) = todo' /\ r.call = Head(s)
    BY <1>3 DEF RunOK
  <2>2. PICK n \in Nat : n = Len(s) /\ n > 0 /\ i = n
    BY <1>3, <2>1
  <2>3. /\ Len(todo') = n - 1 /\ DOMAIN todo' = 1 .. n - 1
        /\ \A m \in 1 .. n - 1 : m + 1 \in 1 .. n /\ todo'[m] = todo[m + 1]
        /\ r.call = todo[1] /\ r.call \in Calls /\ 1 \in 1 .. n
    BY <2>1, <2>2
  <2>4. i \in Live /\ run[i].call = None
    BY <1>2, <2>1, <2>2 DEF Places
  <2>5. \A m \in 1 .. Len(todo') : run'[m].call = None
    <3>1. TAKE m \in 1 .. Len(todo')
    <3>2. m \in 1 .. n /\ m # i
      BY <2>2, <2>3
    <3>3. m \in 1 .. Len(todo) /\ m \in Runs
      BY <1>2, <2>1, <2>2, <3>2
    <3>4. QED
      BY <1>1, <3>2, <3>3 DEF Places
  <2>6. \A m \in DOMAIN todo' : todo'[m].tool # "bash"
    <3>1. SUFFICES ASSUME NEW m \in 1 .. n - 1, todo[m + 1].tool = "bash" PROVE FALSE
      BY <2>3
    <3>2. m + 1 \in DOMAIN todo
      BY <1>2, <2>1, <2>2, <2>3
    <3>3. n = 1
      BY <2>1, <2>2, <3>1, <3>2 DEF Places
    <3>4. QED
      BY <3>1, <3>3
  <2>7. ASSUME NEW j \in Live, Asked(j, "bash")'
        PROVE  todo' = <<>> /\ \A l \in Live \ {j} : run'[l].call = None
    <3>1. j = i
      <4>1. SUFFICES ASSUME j # i PROVE FALSE
        OBVIOUS
      <4>2. Asked(j, "bash")
        BY <1>1, <1>2, <2>7, <4>1 DEF Asked
      <4>3. QED
        BY <1>3, <4>2 DEF Places
    <3>2. todo[1].tool = "bash" /\ 1 \in DOMAIN todo
      BY <1>1, <1>2, <2>1, <2>2, <2>3, <2>7, <3>1 DEF Asked
    <3>3. n = 1 /\ \A l \in Live : run[l].call = None
      BY <2>1, <2>2, <3>2 DEF Places
    <3>4. todo' = <<>>
      <4>1. s \in Seq(Calls) /\ s # <<>>
        BY <2>1
      <4>2. Tail(s) \in Seq(Calls) /\ Len(Tail(s)) = Len(s) - 1
        BY <4>1
      <4>3. Len(s) = 1
        BY <2>2, <3>3
      <4>4. PICK t : t = Tail(s)
        OBVIOUS
      <4>5. t \in Seq(Calls) /\ Len(t) = 0
        <5>1. Len(s) - 1 = 0
          BY <4>3
        <5>2. QED
          BY <4>2, <4>4, <5>1
      <4>6. t = <<>>
        BY <4>5
      <4>7. QED
        BY <2>1, <4>4, <4>6
    <3>5. QED
      BY <1>1, <1>2, <3>1, <3>3, <3>4
  <2>8. QED
    BY <2>3, <2>4, <2>5, <2>6, <2>7 DEF Places
<1>4. CASE todo' = todo /\ r.call = run[i].call
  <2>1. \A j \in Runs : run'[j].call = run[j].call
    BY <1>1, <1>4
  <2>2. Places'
    BY <1>2, <1>4, <2>1 DEF Places, Asked
  <2>3. QED
    BY <1>4, <2>2
<1>5. CASE todo' = todo /\ r = Idle
           /\ (i \in Live => run[i].call \in Calls /\ run[i].call.tool = "bash")
  <2>1. Idle.call = None
    BY DEF Idle
  <2>2. \A j \in Runs : run'[j].call = run[j].call \/ run'[j].call = None
    BY <1>1, <1>5, <2>1
  <2>3. Places'
    BY <1>2, <1>5, <2>2 DEF Places, Asked
  <2>4. QED
    BY <1>5, <2>1, <2>3
<1>6. QED
  BY <1>3, <1>4, <1>5 DEF Effect, Goes

LEMMA EffectWritten ==
  ASSUME TypesInv, Places, Quiet, Ids, Written, NEW i \in Runs, NEW r, Effect(i, r)
  PROVE  Written'
<1>1. RunOK /\ TreeOK /\ SpaceOK
  BY DEF TypesInv, SpaceOK
<1>2. \A j \in Runs : run'[j] = IF j = i THEN r ELSE run[j]
  BY <1>1, OneCall DEF Effect, Goes
<1>3. SUFFICES ASSUME Messaging', NEW j \in Live, Asked(j, "upload")', Apart(j)'
               PROVE  There(run'[j], tree')
  BY DEF Written
<1>4. Messaging /\ i \in Live /\ j \in Runs /\ \A l \in Runs : Busy(l) => l \in Live
  BY <1>1, <1>3, EffectQuiet, LiveInRuns
<1>5. \/ r.call = run[i].call
      \/ run[i].call = None /\ r.call \in Calls
      \/ run[i].call \in Calls /\ run[i].call.tool = "bash" /\ r.call = None
  BY <1>1, <1>4, EffectPlaces
<1>6. run'[j].call \in Calls /\ run'[j].call.tool = "upload" /\ None \notin Calls
  <2>1. run' \in [Runs -> Records]
    BY <1>1 DEF RunOK, Effect, Goes
  <2>2. run'[j].call \in Calls \cup {None}
    BY <1>4, <2>1 DEF Records
  <2>3. QED
    BY <1>3, <2>2, FilesAssumption DEF Asked
<1>7. ASSUME run'[j].call = run[j].call PROVE Asked(j, "upload") /\ Apart(j)
  <2>1. Asked(j, "upload")
    BY <1>3, <1>7 DEF Asked
  <2>2. SUFFICES ASSUME NEW l \in Live \ {j}, run[l].call # None
                 PROVE  \/ run[l].call.tool \in {"delete", "bash", "list", "folder"}
                        \/ ~IsPrefix(run[l].call.path, run[j].call.path)
    BY <2>1 DEF Apart
  <2>3. run'[l].call = run[l].call \/ run[l].call.tool = "bash"
    BY <1>2, <1>5, <2>2, LiveInRuns
  <2>4. QED
    BY <1>3, <1>7, <2>2, <2>3 DEF Apart
<1>8. CASE j = i
  <2>1. run'[j] = r
    BY <1>2, <1>8
  <2>2. ASSUME r.call = run[i].call PROVE ~Shared(i) /\ There(run[i], tree)
    <3>1. Asked(i, "upload") /\ Apart(i) /\ There(run[i], tree)
      BY <1>4, <1>7, <1>8, <2>1, <2>2 DEF Written
    <3>2. SUFFICES ASSUME At(i, "writing"), NEW l \in Runs \ {i}, At(l, "writing"),
                          run[l].file = run[i].file
                   PROVE  FALSE
      BY <3>1 DEF Shared
    <3>3. /\ run[l].file # 0 /\ run[l].call \in Calls /\ run[l].call.tool = "upload"
          /\ l \in Live
      BY <1>1, <1>4, <3>2 DEF RunOK, Fits, At, Busy, Ended
    <3>4. PICK p : p = run[i].call.path
      OBVIOUS
    <3>5. p \in DOMAIN tree /\ tree[p].id = run[i].file
      BY <3>1, <3>2, <3>4 DEF There, At, Node
    <3>6. p = run[l].call.path
      BY <3>2, <3>3, <3>5 DEF Ids
    <3>7. ~IsPrefix(p, p)
      BY <1>6, <3>1, <3>2, <3>3, <3>4, <3>6 DEF Apart
    <3>8. p \in Paths
      BY <1>1, <3>5 DEF TreeOK
    <3>9. QED
      BY <3>7, <3>8, PrefixSelf
  <2>3. QED
    BY <1>6, <2>1, <2>2 DEF Effect, Uploads
<1>9. CASE j # i
  <2>1. run'[j] = run[j] /\ Asked(j, "upload") /\ Apart(j)
    BY <1>2, <1>4, <1>7, <1>9
  <2>2. There(run[j], tree)
    BY <1>4, <2>1 DEF Written
  <2>3. PICK p : p = run[j].call.path
    OBVIOUS
  <2>4. p \notin Reach(i)
    <3>1. ASSUME run[i].shell \/ run[i].child PROVE FALSE
      <4>1. run[i].call \in Calls /\ run[i].call.tool = "bash"
        BY <1>1, <3>1 DEF RunOK, Fits
      <4>2. Asked(i, "bash")
        BY <1>6, <4>1 DEF Asked
      <4>3. run[j].call = None
        BY <1>4, <1>9, <4>2 DEF Places
      <4>4. QED
        BY <2>1, <4>3 DEF Asked
    <3>2. ASSUME run[i].call \in Calls, run[i].call.tool \in {"upload", "remove"},
                 IsPrefix(run[i].call.path, p)
          PROVE  FALSE
      BY <1>4, <1>6, <1>9, <2>1, <2>3, <3>2 DEF Apart
    <3>3. QED
      BY <3>1, <3>2 DEF Reach
  <2>5. p \in DOMAIN tree /\ tree[p].id # 0 => p \in DOMAIN tree' /\ tree'[p] = tree[p]
    BY <2>4 DEF Effect, Changes
  <2>6. run[j].stage = "writing" => run[j].file # 0
    BY <1>1, <1>4 DEF RunOK, Fits
  <2>7. \A x : Node(run[j].file, x).id = run[j].file
    BY DEF Node
  <2>8. QED
    BY <2>1, <2>2, <2>3, <2>5, <2>6, <2>7 DEF There
<1>10. QED
  BY <1>8, <1>9

LEMMA EffectOnly ==
  ASSUME TypesInv, Places, NEW i \in Runs, NEW r, Effect(i, r)
  PROVE  \A j \in Live : Only(j)' => Only(j)
<1>1. RunOK
  BY DEF TypesInv
<1>2. \A j \in Runs : run'[j] = IF j = i THEN r ELSE run[j]
  BY <1>1, OneCall DEF Effect, Goes
<1>3. \/ r.call = run[i].call \/ i \notin Live
      \/ run[i].call = None \/ run[i].call.tool = "bash"
  BY <1>1, EffectPlaces
<1>4. SUFFICES ASSUME NEW j \in Live, NEW l \in Live \ {j}, Asked(l, "delete"), Only(j)'
               PROVE  FALSE
  BY DEF Only
<1>5. run'[l].call = run[l].call
  BY <1>2, <1>3, <1>4, LiveInRuns DEF Asked
<1>6. Asked(l, "delete")'
  BY <1>4, <1>5 DEF Asked
<1>7. QED
  BY <1>4, <1>6 DEF Only

LEMMA BesideOk ==
  ASSUME TypesInv, KeptInv, OkInv, NEW i \in Runs, Beside(i)
  PROVE  Gone' /\ Unlisted'
<1>1. RunOK /\ SpaceOK /\ Places /\ Gone /\ Unlisted /\ \A j \in Runs : Sound(j)
  BY DEF TypesInv, OkInv
<1>2. UNCHANGED <<disk, stored, req, listed, asked, lates>>
  BY <1>1, BesideOK DEF attach, uploads
<1>3. turn' = turn
      /\ \A j \in Live : run'[j].stage = "unlinked" \/ Told(run'[j]) => run'[j] = run[j]
  <2>1. PICK r : turn' = turn /\ run' = [run EXCEPT ![i] = r] /\ Follows(i, run[i], r)
    BY <1>1, BesideFollows
  <2>2. QED
    BY <1>1, <2>1, OneCall, LiveInRuns DEF Follows
<1>4. \A j \in Live : Only(j)' => Only(j)
  <2>1. PICK r : Effect(i, r)
    BY <1>1, CallEffect
  <2>2. QED
    BY <1>1, <2>1, EffectOnly
<1>5. Gone'
  BY <1>1, <1>2, <1>3 DEF Gone
<1>6. Unlisted'
  BY <1>1, <1>2, <1>3, <1>4 DEF Unlisted
<1>7. QED
  BY <1>5, <1>6

LEMMA DeleteOk ==
  ASSUME TypesInv, KeptInv, OkInv, NEW i \in Runs, Delete(i)
  PROVE  Gone' /\ Unlisted'
<1>1. /\ RunOK /\ SpaceOK /\ AttachOK /\ Turns
      /\ Places /\ Gone /\ Unlisted /\ \A j \in Runs : Sound(j)
  BY DEF TypesInv, OkInv, KeptInv
<1>2. \A j \in Live : Only(j)' => Only(j)
  <2>1. PICK r : Effect(i, r)
    BY <1>1, CallEffect
  <2>2. QED
    BY <1>1, <2>1, EffectOnly
<1>3. \A j \in Live : run'[i].call \in Calls /\ run'[i].call.tool = "delete" /\ i \in Live /\ j # i
        => ~Only(j)'
  BY FilesAssumption DEF Only, Asked
<1>4. CASE BeginDelete(i)
  <2>1. /\ i \in Live /\ UNCHANGED <<disk, stored, req, listed, lates>>
    BY <1>1, <1>4, BeginDeleteIs DEF uploads
  <2>2. PICK r \in Records :
          /\ run' = [run EXCEPT ![i] = r]
          /\ r.call \in Calls /\ r.call.tool = "delete" /\ asked \subseteq asked'
          /\ r.stage # "unlinked" /\ ~Told(r)
    BY <1>1, <1>4, BeginDeleteIs DEF Told
  <2>3. \A j \in Runs : run'[j] = IF j = i THEN r ELSE run[j]
    BY <1>1, <2>2, OneCall
  <2>4. Gone'
    BY <1>1, <2>1, <2>2, <2>3, LiveInRuns DEF Gone
  <2>5. Unlisted'
    BY <1>3, <2>1, <2>2, <2>3, LiveInRuns DEF Unlisted
  <2>6. QED
    BY <2>4, <2>5
<1>5. CASE UnlinkFile(i)
  <2>1. /\ Deleting(i) /\ turn' = turn
        /\ disk' \in {disk, Without(disk, {run[i].call.key})}
        /\ UNCHANGED <<stored, req, listed, asked, lates>>
    BY <1>1, <1>5, UnlinkFileIs DEF uploads, Deleting, At
  <2>2. PICK r \in Records :
          /\ run' = [run EXCEPT ![i] = r]
          /\ \/ i \notin Live
             \/ /\ r.call = run[i].call
                /\ \/ r.stage = "raised"
                   \/ r.stage = "unlinked" /\ disk' = Without(disk, {run[i].call.key})
    BY <1>1, <1>5, UnlinkFileIs
  <2>3. \A j \in Runs : run'[j] = IF j = i THEN r ELSE run[j]
    BY <1>1, <2>2, OneCall
  <2>4. DOMAIN disk' \subseteq DOMAIN disk
        /\ (disk' = Without(disk, {run[i].call.key}) => run[i].call.key \notin DOMAIN disk')
    BY <2>1 DEF Without
  <2>5. run[i].call.key \in asked
    BY <1>1, <2>1 DEF Turns
  <2>6. Gone'
    BY <1>1, <2>1, <2>2, <2>3, <2>4, <2>5, LiveInRuns DEF Gone, Told
  <2>7. Unlisted'
    BY <1>1, <1>2, <2>1, <2>2, <2>3, LiveInRuns DEF Unlisted, Told
  <2>8. QED
    BY <2>6, <2>7
<1>6. CASE EndDelete(i)
  <2>1. /\ At(i, "unlinked") /\ Deleting(i) /\ turn' = turn
        /\ run[i].call \in Calls /\ run[i].call.tool = "delete"
        /\ run[i].call.key \notin ToSet(listed')
        /\ UNCHANGED <<disk, stored, req, asked, lates>>
    BY <1>1, <1>6, EndDeleteIs DEF uploads, Deleting, At
  <2>2. i \in Live /\ turn = "tools"
    BY <1>1, <2>1 DEF Turns, Runs
  <2>3. PICK r \in Records : run' = [run EXCEPT ![i] = r] /\ r.call = run[i].call
    BY <1>1, <1>6, EndDeleteIs
  <2>4. \A j \in Runs : run'[j] = IF j = i THEN r ELSE run[j]
    <3>1. RunOK /\ run' = [run EXCEPT ![i] = r]
      BY <1>1, <2>3
    <3>2. QED
      BY <3>1, OneCall
  <2>5. Gone'
    BY <1>1, <2>1, <2>2, <2>3, <2>4, LiveInRuns DEF Gone, At
  <2>6. Unlisted'
    BY <1>3, <2>1, <2>2, <2>3, <2>4 DEF Unlisted
  <2>7. QED
    BY <2>5, <2>6
<1>7. QED
  BY <1>4, <1>5, <1>6 DEF Delete

LEMMA CallsOk ==
  ASSUME TypesInv, KeptInv, OkInv, NEW i \in Runs, Delete(i) \/ Beside(i)
  PROVE  OkInv'
<1>1. /\ RunOK /\ TreeOK /\ Places /\ Quiet /\ Ids /\ Written /\ \A j \in Runs : Sound(j)
  BY DEF TypesInv, OkInv, SpaceOK
<1>2. PICK r : Effect(i, r)
  BY <1>1, CallEffect
<1>3. Gone' /\ Unlisted'
  BY DeleteOk, BesideOk
<1>4. QED
  BY <1>1, <1>2, <1>3, EffectSound, EffectQuiet, EffectIds, EffectPlaces, EffectWritten
     DEF OkInv

-----------------------------------------------------------------------------
(* The other steps *)

\* A request takes no file that was asked to be deleted.
LEMMA RequestsAre ==
  ASSUME TypesInv, KeptInv, Requests
  PROVE  /\ turn = "off" /\ UNCHANGED <<batch, space, listed, asked, lates>>
         /\ \A k \in asked : k \in DOMAIN disk' => k \in DOMAIN disk
         /\ \A k \in asked :
              k \in ToSet(stored') \cup ToSet(req'.files) \cup ToSet(req'.found)
              => k \in ToSet(stored) \cup ToSet(req.files) \cup ToSet(req.found)
<1>1. AttachOK /\ Turns /\ UNCHANGED space
  BY DEF TypesInv, KeptInv, Requests
<1>2. ToSet(<<>>) = {}
  BY DEF ToSet
<1>3. CASE Claim
  <2>1. turn = "off"
    BY <1>1, <1>3, ClaimIs DEF Turns
  <2>2. QED
    BY <1>1, <1>2, <1>3, <2>1, ClaimIs
<1>4. CASE OpenUpload
  <2>1. PICK k \in Keys :
           /\ k \notin asked /\ disk' = With(disk, k, "part") /\ req.stage = "uploading"
           /\ req'.files = Append(req.files, k) /\ req'.found = req.found
           /\ UNCHANGED <<batch, stored, listed, asked, lates>>
    BY <1>1, <1>4, OpenUploadIs
  <2>2. turn = "off" /\ DOMAIN disk' = DOMAIN disk \cup {k}
    BY <1>1, <2>1 DEF Turns, With
  <2>3. ToSet(req'.files) = ToSet(req.files) \cup {k}
    BY <1>1, <2>1, AppendSet DEF AttachOK, RequestType
  <2>4. QED
    BY <1>1, <2>1, <2>2, <2>3
<1>5. CASE FinishUpload
  <2>1. PICK l \in Keys :
           /\ req.stage = "writing" /\ disk' = [disk EXCEPT ![l] = "whole"]
           /\ req'.files = req.files /\ req'.found = req.found
           /\ UNCHANGED <<batch, stored, listed, asked, lates>>
    BY <1>1, <1>5, FinishUploadIs
  <2>2. turn = "off" /\ DOMAIN disk' = DOMAIN disk
    BY <1>1, <2>1 DEF Turns, AttachOK
  <2>3. QED
    BY <1>1, <2>1, <2>2
<1>6. CASE FailUpload
  <2>1. /\ req.stage \in {"uploading", "writing"} /\ req' = NoRequest
        /\ disk' = disk \/ disk' = Without(disk, {Last(req.files)})
        /\ UNCHANGED <<batch, stored, listed, asked, lates>>
    BY <1>6 DEF FailUpload
  <2>2. turn = "off" /\ DOMAIN disk' \subseteq DOMAIN disk
    BY <1>1, <2>1 DEF Turns, Without
  <2>3. QED
    BY <1>1, <1>2, <2>1, <2>2, NoRequestIs
<1>7. CASE LoadContext
  <2>1. turn = "off"
    BY <1>1, <1>7, LoadContextIs DEF Turns
  <2>2. QED
    BY <1>1, <1>7, <2>1, LoadContextIs
<1>8. CASE SaveContext
  <2>1. turn = "off"
    BY <1>1, <1>8, SaveContextIs DEF Turns
  <2>2. QED
    BY <1>1, <1>8, <2>1, SaveContextIs
<1>9. QED
  BY <1>3, <1>4, <1>5, <1>6, <1>7, <1>8 DEF Requests

\* The calls' part of the invariant, when no call takes a step and no turn goes on.
LEMMA RunsStay ==
  ASSUME RunOK, OkInv, UNCHANGED <<todo, run, space>>, Messaging' => Messaging
  PROVE  Places' /\ Quiet' /\ Ids' /\ Written' /\ \A i \in Runs : Sound(i)'
<1>1. UNCHANGED tree
  BY DEF space
<1>2. Places /\ Quiet /\ Ids /\ Written /\ \A i \in Runs : Sound(i)
  BY DEF OkInv
<1>3. Places'
  BY <1>2 DEF Places, Asked
<1>4. Quiet'
  BY <1>2 DEF Quiet, Busy, Ended
<1>5. Ids'
  BY <1>1, <1>2 DEF Ids
<1>6. Written'
  BY <1>1, <1>2 DEF Written, Asked, Apart
<1>7. \A i \in Runs : Sound(i)'
  BY <1>2 DEF Sound
<1>8. QED
  BY <1>3, <1>4, <1>5, <1>6, <1>7

LEMMA RequestsHold ==
  ASSUME TypesInv, KeptInv, OkInv, Requests
  PROVE  OkInv'
<1>1. RunOK /\ Gone /\ Unlisted
  BY DEF TypesInv, OkInv
<1>2. turn = "off" /\ UNCHANGED <<turn, todo, run, alone, space, listed, asked, lates>>
  BY RequestsAre DEF batch, space
<1>3. Places' /\ Quiet' /\ Ids' /\ Written' /\ \A i \in Runs : Sound(i)'
  BY <1>1, <1>2, RunsStay DEF Messaging
<1>4. Gone'
  BY <1>1, <1>2, RequestsAre DEF Gone
<1>5. Unlisted'
  <2>1. SUFFICES ASSUME NEW i \in Live, Told(run[i]), Only(i)', lates = 0
                 PROVE  /\ run[i].call.key \notin ToSet(stored') \cup ToSet(listed)
                        /\ run[i].call.key \notin ToSet(req'.files) \cup ToSet(req'.found)
    BY <1>2 DEF Unlisted
  <2>2. run[i].call.key \in asked
    BY <1>1, <2>1 DEF Gone
  <2>3. Only(i)
    BY <1>2, <2>1 DEF Only, Asked
  <2>4. /\ run[i].call.key \notin ToSet(stored) \cup ToSet(listed)
        /\ run[i].call.key \notin ToSet(req.files) \cup ToSet(req.found)
    BY <1>1, <1>2, <2>1, <2>3 DEF Unlisted
  <2>5. QED
    BY <2>2, <2>4, RequestsAre
<1>6. QED
  BY <1>3, <1>4, <1>5 DEF OkInv

LEMMA StorageHolds ==
  ASSUME TypesInv, KeptInv, OkInv, Storage
  PROVE  OkInv'
<1>1. RunOK /\ AttachOK /\ Listing /\ Gone /\ Unlisted /\ UNCHANGED <<space, alone>>
  BY DEF TypesInv, KeptInv, OkInv, Storage, space
<1>2. ASSUME UNCHANGED <<todo, run, disk, asked, lates>>, Unlisted', Messaging' => Messaging
      PROVE  OkInv'
  <2>1. Places' /\ Quiet' /\ Ids' /\ Written' /\ \A i \in Runs : Sound(i)'
    BY <1>1, <1>2, RunsStay
  <2>2. Gone'
    BY <1>1, <1>2 DEF Gone
  <2>3. QED
    BY <1>2, <2>1, <2>2 DEF OkInv
<1>3. run' = run => \A i \in Live : Only(i)' => Only(i)
  BY DEF Only, Asked
<1>4. CASE StartTurn
  <2>1. /\ turn = "off" /\ turn' = "on"
        /\ ToSet(listed') \subseteq ToSet(stored) \cup ToSet(req.files)
        /\ UNCHANGED <<todo, run, disk, stored, req, asked, lates>>
    BY <1>1, <1>4, StartTurnIs DEF uploads
  <2>2. Unlisted'
    BY <1>1, <1>3, <2>1 DEF Unlisted
  <2>3. QED
    BY <1>2, <2>1, <2>2 DEF Messaging
<1>5. CASE SaveFiles
  <2>1. /\ turn = "saving" /\ turn' = "on" /\ stored' = listed
        /\ UNCHANGED <<todo, run, disk, req, listed, asked, lates>>
    BY <1>5 DEF SaveFiles, uploads
  <2>2. Unlisted'
    BY <1>1, <1>3, <2>1 DEF Unlisted
  <2>3. QED
    BY <1>2, <2>1, <2>2 DEF Messaging
<1>6. CASE LateSave
  <2>1. late # None /\ UNCHANGED <<turn, todo, run, disk, req, listed, asked, lates>>
    BY <1>6 DEF LateSave, batch, uploads
  <2>2. lates # 0
    BY <1>1, <2>1 DEF Listing, AttachOK
  <2>3. Unlisted'
    BY <1>1, <1>3, <2>1, <2>2 DEF Unlisted
  <2>4. QED
    BY <1>1, <1>2, <2>1, <2>3 DEF Messaging
<1>7. QED
  BY <1>4, <1>5, <1>6 DEF Storage

LEMMA RunAlone ==
  ASSUME NEW b \in Batches, NEW n \in DOMAIN Run(b), Run(b)[n].tool = "bash"
  PROVE  Len(Run(b)) = 1
<1>1. PICK T : T = {i \in DOMAIN b : b[i].tool = "bash"}
  OBVIOUS
<1>2. CASE T = {}
  BY <1>1, <1>2 DEF Run
<1>3. CASE T # {}
  <2>1. PICK c : c = b[Min(T)]
    OBVIOUS
  <2>2. Run(b) = <<c>>
    BY <1>1, <1>3, <2>1 DEF Run
  <2>3. QED
    BY <2>2
<1>4. QED
  BY <1>2, <1>3

\* No live call is left, and the records that are had the same path, file and names.
LEMMA NoneLive ==
  ASSUME RunOK, RunOK', OkInv, tree' = tree,
         \A i \in Live : run'[i] = Idle,
         \A i \in Left : \/ run'[i] = Idle
                         \/ \E j \in Runs : /\ run'[i].call = run[j].call
                                            /\ run'[i].file = run[j].file
                                            /\ run'[i].names = run[j].names,
         \A n \in DOMAIN todo' : todo'[n].tool = "bash" => Len(todo') = 1,
         Quiet'
  PROVE  OkInv'
<1>1. /\ Idle.call = None /\ Idle.stage = "idle" /\ Idle.answer = "none"
      /\ Idle.names = {} /\ Idle.file = 0
  BY DEF Idle
<1>2. \A i \in Live : run'[i].call = None /\ ~Told(run'[i]) /\ run'[i].stage # "unlinked"
  BY <1>1 DEF Told
<1>3. 1 .. Len(todo') \subseteq Live
  <2>1. PICK n \in Nat : n = Len(todo') /\ n <= MaxBatch
    BY DEF RunOK
  <2>2. QED
    BY <2>1, BatchAssumption DEF Live
<1>4. Places'
  BY <1>2, <1>3 DEF Places, Asked
<1>5. \A i \in Runs : \/ run'[i].file = 0 /\ run'[i].names = {}
                      \/ \E j \in Runs : /\ run'[i].call = run[j].call
                                         /\ run'[i].file = run[j].file
                                         /\ run'[i].names = run[j].names
  BY <1>1 DEF Runs
<1>6. Ids'
  BY <1>5 DEF OkInv, Ids
<1>7. \A i \in Left : i \notin Live
  BY BatchAssumption DEF Left, Live
<1>8. \A i \in Runs : Sound(i)'
  BY <1>1, <1>5 DEF OkInv, Sound
<1>9. Written' /\ Gone' /\ Unlisted'
  BY <1>2 DEF Written, Gone, Unlisted, Asked
<1>10. QED
  BY <1>4, <1>6, <1>8, <1>9 DEF OkInv

LEMMA AskHolds ==
  ASSUME TypesInv, OkInv, Ask
  PROVE  OkInv'
<1>1. RunOK /\ SpaceOK
  BY DEF TypesInv
<1>2. /\ RunOK' /\ tree' = tree
      /\ \A i \in Live : run'[i] = Idle
      /\ \A i \in Left : run'[i] = run[i]
  BY <1>1, AskIs DEF Ask
<1>3. PICK b \in Batches : todo' = Run(b)
  BY DEF Ask
<1>4. \A n \in DOMAIN todo' : todo'[n].tool = "bash" => Len(todo') = 1
  BY <1>3, RunAlone
<1>5. alone' = \A i \in Runs : ~Busy(i)
  BY DEF Ask
<1>6. Quiet'
  BY <1>2, <1>5 DEF Quiet, Messaging, Busy, Ended, Runs
<1>7. \A i \in Left : \E j \in Runs : /\ run'[i].call = run[j].call
                                      /\ run'[i].file = run[j].file
                                      /\ run'[i].names = run[j].names
  BY <1>2 DEF Runs
<1>8. QED
  BY <1>1, <1>2, <1>4, <1>6, <1>7, NoneLive

LEMMA OutlivesKeeps ==
  ASSUME NEW r \in Records, NEW o \in Outlives(r)
  PROVE  o = Idle \/ (o.call = r.call /\ o.file = r.file /\ o.names = r.names)
<1>1. CASE r.shell \/ r.child
  <2>1. o = [r EXCEPT !.stage = "stray"]
    BY <1>1 DEF Outlives
  <2>2. QED
    BY <2>1 DEF Records
<1>2. CASE ~(r.shell \/ r.child)
  BY <1>2 DEF Outlives
<1>3. QED
  BY <1>1, <1>2

LEMMA CutHolds ==
  ASSUME TypesInv, OkInv, Cancel \/ Crash
  PROVE  OkInv'
<1>1. RunOK
  BY DEF TypesInv
<1>2. tree' = tree
  BY DEF Cancel, Crash, space
<1>3. \A i \in Runs : /\ Strays[i] \in Records /\ Fits(Strays[i])
                      /\ \/ Strays[i] = Idle
                         \/ /\ Strays[i].call = run[i].call /\ Strays[i].file = run[i].file
                            /\ Strays[i].names = run[i].names
  <2>1. TAKE i \in Runs
  <2>2. PICK r \in Records : r = run[i]
    BY <1>1 DEF RunOK
  <2>3. Strays[i] = IF r.shell \/ r.child THEN [r EXCEPT !.stage = "stray"] ELSE Idle
    BY <2>2 DEF Strays
  <2>4. \/ Strays[i] = Idle
        \/ /\ Strays[i].call = r.call /\ Strays[i].file = r.file
           /\ Strays[i].names = r.names
    BY <2>2, <2>3 DEF Records
  <2>5. QED
    BY <1>1, <2>2, <2>4, StraysIs
<1>4. PICK left, rest :
        /\ CutOff(left, rest) /\ cancels' \in 0 .. MaxCancels
        /\ \A i \in Live : /\ left[i] \in Records /\ Fits(left[i])
                           /\ \/ left[i] = Idle
                              \/ /\ left[i].call = run[i].call /\ left[i].file = run[i].file
                                 /\ left[i].names = run[i].names
        /\ \A i \in Runs : /\ rest[i] \in Records /\ Fits(rest[i])
                           /\ \/ rest[i] = Idle
                              \/ /\ rest[i].call = run[i].call /\ rest[i].file = run[i].file
                                 /\ rest[i].names = run[i].names
  <2>1. CASE Cancel
    <3>1. PICK left : /\ \A i \in Live : left[i] \in Outlives(run[i])
                      /\ CutOff(left, run)
      BY <2>1 DEF Cancel
    <3>2. \A i \in Live : /\ left[i] \in Records /\ Fits(left[i])
                          /\ \/ left[i] = Idle
                             \/ /\ left[i].call = run[i].call /\ left[i].file = run[i].file
                                /\ left[i].names = run[i].names
      <4>1. TAKE i \in Live
      <4>2. run[i] \in Records /\ Fits(run[i]) /\ left[i] \in Outlives(run[i])
        BY <1>1, <3>1, LiveInRuns DEF RunOK
      <4>3. QED
        BY <4>2, OutlivesIs, OutlivesKeeps
    <3>3. cancels' \in 0 .. MaxCancels
      BY <1>1, <2>1, BatchAssumption DEF Cancel, RunOK
    <3>4. \A i \in Runs : run[i] \in Records /\ Fits(run[i])
      BY <1>1 DEF RunOK
    <3>5. QED
      BY <3>1, <3>2, <3>3, <3>4
  <2>2. CASE Crash
    <3>1. CutOff(Strays, Strays) /\ cancels' \in 0 .. MaxCancels
      BY <1>1, <2>2 DEF Crash, RunOK
    <3>2. QED
      BY <1>3, <3>1, LiveInRuns
  <2>3. QED
    BY <2>1, <2>2
<1>5. /\ RunOK' /\ turn' = "off" /\ todo' = <<>>
      /\ \A i \in Live : run'[i] = Idle
      /\ \A i \in Left : run'[i] = rest[i] \/ \E j \in Live : run'[i] = left[j]
  BY <1>1, <1>4, CutOffIs
<1>6. \A i \in Left : \/ run'[i] = Idle
                      \/ \E j \in Runs : /\ run'[i].call = run[j].call
                                         /\ run'[i].file = run[j].file
                                         /\ run'[i].names = run[j].names
  <2>1. TAKE i \in Left
  <2>2. i \in Runs
    BY DEF Runs
  <2>3. CASE run'[i] = rest[i]
    BY <1>4, <2>2, <2>3
  <2>4. CASE \E j \in Live : run'[i] = left[j]
    BY <1>4, <2>4, LiveInRuns
  <2>5. QED
    BY <1>5, <2>3, <2>4
<1>7. Quiet'
  BY <1>5 DEF Quiet, Messaging
<1>8. DOMAIN todo' = {}
  BY <1>5
<1>9. QED
  BY <1>1, <1>2, <1>5, <1>6, <1>7, <1>8, NoneLive

LEMMA TurnEndsHolds ==
  ASSUME TypesInv, OkInv, Answered \/ EndTurn
  PROVE  OkInv'
<1>1. RunOK /\ AttachOK /\ Gone /\ Unlisted
  BY DEF TypesInv, OkInv
<1>2. UNCHANGED <<todo, run, space, alone, stored, disk, asked, lates>>
  BY DEF Answered, EndTurn, LeaveFiles, attach, space
<1>3. Messaging' => Messaging
  BY <1>2 DEF Answered, EndTurn, Messaging
<1>4. Places' /\ Quiet' /\ Ids' /\ Written' /\ \A i \in Runs : Sound(i)'
  BY <1>1, <1>2, <1>3, RunsStay
<1>5. Gone'
  BY <1>1, <1>2 DEF Gone
<1>6. \A i \in Live : Only(i)' => Only(i)
  BY <1>2 DEF Only, Asked
<1>7. ToSet(<<>>) = {}
  BY DEF ToSet
<1>8. CASE Answered
  <2>1. turn = "tools" /\ turn' = "saving" /\ listed' = listed
    BY <1>8 DEF Answered, attach
  <2>2. Unlisted'
    BY <1>1, <1>2, <1>6, <2>1 DEF Unlisted
  <2>3. QED
    BY <1>4, <1>5, <2>2 DEF OkInv
<1>9. CASE EndTurn
  <2>1. /\ turn = "on" /\ turn' = "off" /\ listed' = <<>>
        /\ req'.files = <<>> /\ req'.found = <<>>
    BY <1>9, NoRequestIs DEF EndTurn, LeaveFiles
  <2>2. Unlisted'
    BY <1>1, <1>2, <1>6, <1>7, <2>1 DEF Unlisted
  <2>3. QED
    BY <1>4, <1>5, <2>2 DEF OkInv
<1>10. QED
  BY <1>8, <1>9

LEMMA OkInit == Init => OkInv
<1>1. SUFFICES ASSUME Init PROVE OkInv
  OBVIOUS
<1>2. /\ turn = "off" /\ todo = <<>> /\ tree = <<>>
      /\ \A i \in Runs : run[i] = Idle
  BY <1>1 DEF Init, SpaceInit
<1>3. /\ Idle.call = None /\ Idle.stage = "idle" /\ Idle.answer = "none"
      /\ Idle.names = {} /\ Idle.file = 0 /\ ~Told(Idle)
  BY DEF Idle, Told
<1>4. DOMAIN todo = {} /\ DOMAIN tree = {} /\ 1 .. Len(todo) = {}
  <2>1. DOMAIN todo = {} /\ DOMAIN tree = {}
    BY <1>2
  <2>2. Len(todo) = 0
    BY <1>2, EmptySeq
  <2>3. 1 .. 0 = {}
    OBVIOUS
  <2>4. QED
    BY <2>1, <2>2, <2>3
<1>5. Places /\ Quiet /\ Ids /\ Written
  BY <1>2, <1>3, <1>4, LiveInRuns DEF Places, Quiet, Ids, Written, Messaging, Asked
<1>6. Gone /\ Unlisted /\ \A i \in Runs : Sound(i)
  BY <1>2, <1>3, LiveInRuns DEF Gone, Unlisted, Sound
<1>7. QED
  BY <1>5, <1>6 DEF OkInv

LEMMA OkNext == TypesInv /\ KeptInv /\ OkInv /\ [Next]_vars => OkInv'
<1>1. SUFFICES ASSUME TypesInv, KeptInv, OkInv, [Next]_vars PROVE OkInv'
  OBVIOUS
<1>2. CASE UNCHANGED vars
  <2>1. /\ RunOK /\ Gone /\ Unlisted
        /\ UNCHANGED <<turn, todo, run, space, alone, disk, stored, listed, req, asked, lates>>
    BY <1>1, <1>2 DEF TypesInv, OkInv, vars, batch, attach, uploads, space
  <2>2. Places' /\ Quiet' /\ Ids' /\ Written' /\ \A i \in Runs : Sound(i)'
    BY <1>1, <2>1, RunsStay DEF Messaging
  <2>3. Gone' /\ Unlisted'
    BY <2>1 DEF Gone, Unlisted, Only, Asked
  <2>4. QED
    BY <2>2, <2>3 DEF OkInv
<1>3. CASE Next
  BY <1>1, <1>3, RequestsHold, StorageHolds, CallsOk, AskHolds, TurnEndsHolds, CutHolds
     DEF Next, Beside
<1>4. QED
  BY <1>1, <1>2, <1>3

\* What the model is told was done still is: a file that storage deleted is not on disk,
\* in no list of the rest of the turn or, if no save is late, of the turns that follow; a
\* file that workspace wrote has its text, after the other calls of its message, whatever
\* calls, commands, cancelled turns and restarts were there before.
THEOREM OkStays == Spec => []OkHolds
<1>1. TypesInv /\ OkInv => OkHolds
  <2>1. SUFFICES ASSUME TypesInv, OkInv PROVE DeleteTakesEffect /\ UploadHolds
    BY DEF OkHolds
  <2>2. /\ RunOK /\ Written /\ Gone /\ Unlisted /\ \A i \in Runs : Sound(i)
    BY <2>1 DEF TypesInv, OkInv
  <2>3. \A i \in Live : run[i].call \in Calls \cup {None}
    BY <2>2, LiveInRuns DEF RunOK, Records
  <2>4. DeleteTakesEffect
    <3>1. SUFFICES ASSUME NEW i \in Live, Asked(i, "delete"), At(i, "answered"),
                          run[i].answer = "ok", turn # "off"
                   PROVE  /\ run[i].call.key \notin DOMAIN disk
                          /\ (/\ \A j \in Live \ {i} : ~Asked(j, "delete")
                              /\ turn \in {"tools", "saving"} \/ lates = 0)
                             => run[i].call.key \notin ToSet(listed)
      BY DEF DeleteTakesEffect
    <3>2. Told(run[i])
      BY <2>3, <3>1 DEF Told, Asked, At
    <3>3. turn \in {"on", "tools", "saving"}
      BY <2>2, <3>1 DEF RunOK
    <3>4. QED
      BY <2>2, <3>1, <3>2, <3>3 DEF Gone, Unlisted, Only
  <2>5. UploadHolds
    <3>1. SUFFICES ASSUME NEW i \in Live, turn = "saving", alone, Asked(i, "upload"),
                          run[i].answer = "ok", Apart(i)
                   PROVE  /\ run[i].call.path \in DOMAIN tree
                          /\ tree[run[i].call.path].text = run[i].call.text
      BY DEF UploadHolds, Apart
    <3>2. Done(run[i]) /\ There(run[i], tree)
      BY <2>2, <3>1, LiveInRuns DEF Done, Sound, Written, Messaging
    <3>3. QED
      BY <3>2 DEF There
  <2>6. QED
    BY <2>4, <2>5
<1>2. QED
  BY <1>1, TypesInit, TypesNext, KeptInit, KeptNext, OkInit, OkNext, PTL DEF Spec

=============================================================================
