----------------------- MODULE ConversationStoreProofs -----------------------
(***************************************************************************)
(* Proofs about ConversationStore: its types for every set of coroutines,  *)
(* cancelled or not, and, where no cancel leaves a write job behind, that  *)
(* the document on disk is always whole and every operation atomic.        *)
(***************************************************************************)
EXTENDS ConversationStore, SequenceTheorems, TLAPS

-----------------------------------------------------------------------------
(* The operators of ConversationDocument *)

LEMMA NewDocType == ASSUME NEW org \in Orgs, NEW now \in Nat
                    PROVE  NewDoc(org, now) \in Docs
  BY DEF NewDoc, Docs, Statuses

LEMMA EditedType ==
  ASSUME NEW r \in Requests, NEW doc \in Docs, NEW now \in Nat
  PROVE  Edited(r, doc, now) \in Docs
<1>1. CASE r \in Saves
  BY <1>1 DEF Saves, Edited, Saved, Docs
<1>2. CASE r \in Marks
  BY <1>2 DEF Marks, Edited, Marked, Docs
<1>3. CASE r \in Titles
  BY <1>3 DEF Titles, Edited, Docs
<1>4. CASE r \in Claims
  BY <1>4 DEF Claims, Edited, Claimed, Docs, Statuses
<1>5. QED
  BY <1>1, <1>2, <1>3, <1>4 DEF Requests

\* What may be asked is a request.
LEMMA AskedType ==
  ASSUME TypeOK, NEW p \in Procs, NEW org \in Orgs,
         NEW k \in {"save", "status", "title", "claim"}, NEW r \in Asked(p, org)[k]
  PROVE  r \in Requests
<1>1. CASE k = "save"
  BY <1>1, ProcsAssumption DEF Asked, Requests, Saves, TypeOK
<1>2. CASE k = "status"
  BY <1>2, ProcsAssumption DEF Asked, Requests, Marks
<1>3. CASE k = "title"
  BY <1>3 DEF Asked, Requests, Titles
<1>4. CASE k = "claim"
  BY <1>4 DEF Asked, Requests, Claims, TypeOK, Docs
<1>5. QED
  BY <1>1, <1>2, <1>3, <1>4

-----------------------------------------------------------------------------
(* Types.  A call that is past its checks holds a document and knows what  *)
(* it was asked.                                                           *)

CallOK ==
  \A p \in Procs :
    /\ stage[p] \in {"locking", "read"} => request[p] \in Requests
    /\ stage[p] \in WriteStages \cup OrphanStages \cup {"replaced"}
         => request[p] \in Requests \cup {Creating}
    /\ stage[p] \in WriteStages \cup OrphanStages => buf[p] \in Docs

TInv == TypeOK /\ CallOK

LEMMA TypeInit == Init => TInv
  BY ProcsAssumption DEF Init, TInv, TypeOK, CallOK, Stages, WriteStages, OrphanStages

LEMMA TypeNext == TInv /\ [Next]_vars => TInv'
<1> SUFFICES ASSUME TInv, [Next]_vars PROVE TInv'
  OBVIOUS
<1> USE DEF TInv, CallOK
<1>1. CASE UNCHANGED vars
  BY <1>1 DEF vars, TypeOK
<1>2. CASE Crash
  BY <1>2 DEF Crash, TypeOK, Stages, WriteStages, OrphanStages
<1>3. ASSUME NEW p \in Procs, Create(p) PROVE TInv'
  <2>1. PICK org \in Orgs : buf' = [buf EXCEPT ![p] = NewDoc(org, clock + 1)]
    BY <1>3 DEF Create
  <2>2. NewDoc(org, clock + 1) \in Docs
    BY NewDocType DEF TypeOK
  <2>3. QED
    BY <1>3, <2>1, <2>2 DEF Create, Begin, TypeOK, Stages, WriteStages, OrphanStages, files
<1>4. ASSUME NEW p \in Procs, Get(p) PROVE TInv'
  BY <1>4 DEF Get, Begin, TypeOK, Stages, WriteStages, OrphanStages, files
<1>5. ASSUME NEW p \in Procs, Locked(p) PROVE TInv'
  <2>0. PICK k \in {"save", "status", "title", "claim"}, org \in Orgs :
             \E r \in Asked(p, org)[k] : Begin(p, r, "locking")
    BY <1>5 DEF Locked
  <2>1. PICK r \in Asked(p, org)[k] : Begin(p, r, "locking")
    BY <2>0
  <2>2. r \in Requests
    BY AskedType
  <2>3. clock' \in Nat
    BY <1>5 DEF Locked, TypeOK
  <2>4. lockQ' \in Seq(Procs)
    BY <1>5 DEF Locked, TypeOK
  <2>5. QED
    BY <1>5, <2>1, <2>2, <2>3, <2>4
       DEF Locked, Begin, TypeOK, Stages, WriteStages, OrphanStages, files
<1>6. ASSUME NEW p \in Procs, Release(p) PROVE lockQ' \in Seq(Procs)
  BY <1>6 DEF Release, Holds, TypeOK
<1>7. ASSUME NEW p \in Procs, Leave(p)
      PROVE  /\ stage' \in [Procs -> Stages]
             /\ request' \in [Procs -> Requests \cup {None, Creating, Getting}]
             /\ buf' \in [Procs -> Docs \cup {None}]
             /\ fd' \in [Procs -> Inodes \cup {None}]
             /\ CallOK'
  BY <1>7 DEF Leave, TypeOK, Stages, WriteStages, OrphanStages
<1>8. ASSUME NEW p \in Procs, Coroutine(p) PROVE TInv'
  <2>1. CASE Edit(p)
    <3>1. buf[p] \in Docs /\ request[p] \in Requests
      BY <2>1 DEF Edit, Accepts, Matches, TypeOK
    <3>2. Edited(request[p], buf[p], clock + 1) \in Docs
      BY <3>1, EditedType DEF TypeOK
    <3>3. QED
      BY <2>1, <3>1, <3>2 DEF Edit, TypeOK, Stages, WriteStages, OrphanStages, files
  <2>2. CASE Refuse(p)
    BY <2>2, <1>6, <1>7 DEF Refuse, TypeOK, files
  <2>3. CASE Submit(p)
    BY <2>3 DEF Submit, TypeOK, Stages, WriteStages, OrphanStages, files
  <2>4. CASE Finish(p)
    <3>1. won' \in [Procs -> SUBSET Nat]
      BY <2>4 DEF Finish, TypeOK, Requests, Saves, Marks, Titles, Claims, Creating
    <3>2. QED
      BY <2>4, <3>1, <1>6, <1>7 DEF Finish, TypeOK, files
  <2>5. CASE Raise(p)
    BY <2>5, <1>6, <1>7 DEF Raise, TypeOK, files
  <2>6. QED
    BY <1>8, <2>1, <2>2, <2>3, <2>4, <2>5 DEF Coroutine
<1>9. ASSUME NEW p \in Procs, Thread(p) PROVE TInv'
  <2>1. CASE Fetch(p)
    <3>1. seen' \in [Procs -> Docs \cup {None}]
      BY <2>1 DEF Fetch, TypeOK, Readable, OnDisk
    <3>2. QED
      BY <2>1, <3>1, <1>7 DEF Fetch, TypeOK, files
  <2>2. CASE Read(p)
    BY <2>2 DEF Read, TypeOK, Stages, WriteStages, OrphanStages, Readable, OnDisk, files
  <2>3. CASE Open(p)
    BY <2>3 DEF Open, FreeInodes, TypeOK, Stages, WriteStages, OrphanStages
  <2>4. CASE Write(p)
    <3>1. PICK d \in Docs \cup {Torn} : content' = [content EXCEPT ![fd[p]] = d]
      BY <2>4 DEF Write, WriteStages, OrphanStages
    <3>2. content' \in [Inodes -> Docs \cup {Empty, Torn}]
      BY <3>1 DEF TypeOK
    <3>3. CASE stage[p] = "writing"
      BY <2>4, <3>2, <3>3 DEF Write, TypeOK, Stages, WriteStages, OrphanStages
    <3>4. CASE stage[p] # "writing"
      BY <2>4, <3>2, <3>4, <1>7 DEF Write, TypeOK
    <3>5. QED
      BY <3>3, <3>4
  <2>5. CASE Replace(p)
    <3>1. /\ path' \in Inodes \cup {None} /\ tmp' \in Inodes \cup {None}
          /\ content' \in [Inodes -> Docs \cup {Empty, Torn}]
      BY <2>5 DEF Replace, TypeOK, files
    <3>2. CASE stage[p] = "replacing"
      BY <2>5, <3>1, <3>2 DEF Replace, TypeOK, Stages, WriteStages, OrphanStages
    <3>3. CASE stage[p] # "replacing"
      BY <2>5, <3>1, <3>3, <1>7 DEF Replace, TypeOK
    <3>4. QED
      BY <3>2, <3>3
  <2>6. QED
    BY <1>9, <2>1, <2>2, <2>3, <2>4, <2>5 DEF Thread
<1>10. ASSUME NEW p \in Procs, JobFails(p) PROVE TInv'
  <2>1. content' \in [Inodes -> Docs \cup {Empty, Torn}]
    BY <1>10 DEF JobFails, TypeOK
  <2>2. stage' \in [Procs -> Stages]
    BY <1>10 DEF JobFails, TypeOK, Stages
  <2>3. CallOK'
    BY <1>10 DEF JobFails, TypeOK, WriteStages, OrphanStages
  <2>4. QED
    BY <1>10, <2>1, <2>2, <2>3 DEF JobFails, TypeOK
<1>11. ASSUME NEW p \in Procs, Cancel(p) PROVE TInv'
  <2>1. lockQ' \in Seq(Procs)
    <3>1. ASSUME NEW i \in DOMAIN lockQ PROVE RemoveAt(lockQ, i) \in Seq(Procs)
      <4>1. /\ i \in 1 .. Len(lockQ) /\ Len(lockQ) \in Nat
            /\ \A j \in 1 .. Len(lockQ) : lockQ[j] \in Procs
        BY DEF TypeOK
      <4>2. SubSeq(lockQ, 1, i - 1) \in Seq(Procs)
        BY <4>1, SubSeqProperties
      <4>3. SubSeq(lockQ, i + 1, Len(lockQ)) \in Seq(Procs)
        BY <4>1, SubSeqProperties
      <4>4. QED
        BY <4>2, <4>3, ConcatProperties DEF RemoveAt
    <3>2. QED
      BY <1>11, <3>1 DEF Cancel, TypeOK
  <2>2. CASE Leave(p)
    BY <1>11, <2>1, <2>2, <1>7 DEF Cancel, TypeOK, files
  <2>3. CASE ~Leave(p)
    <3>1. PICK s \in OrphanStages : /\ stage' = [stage EXCEPT ![p] = s]
                                   /\ stage[p] \in WriteStages
                                   /\ UNCHANGED <<request, buf, fd>>
      BY <1>11, <2>3 DEF Cancel, AfterCancel, OrphanStages, TypeOK, WriteStages
    <3>2. QED
      BY <1>11, <2>1, <3>1 DEF Cancel, TypeOK, Stages, WriteStages, OrphanStages, files
  <2>4. QED
    BY <2>2, <2>3
<1>12. QED
  BY <1>1, <1>2, <1>3, <1>4, <1>5, <1>8, <1>9, <1>10, <1>11 DEF Next

\* Every reachable state of the store, for any coroutines, any cancellations,
\* faults and crashes, is well typed.
THEOREM StoreTypes == Spec => []TypeOK
<1>1. TInv => TypeOK
  BY DEF TInv
<1>2. QED
  BY TypeInit, TypeNext, <1>1, PTL DEF Spec

-----------------------------------------------------------------------------
(* The document is always whole.  Only the holder of the lock, or the      *)
(* creator while nobody else knows the conversation, has a write under     *)
(* way; it writes a file no reader sees, and what it wrote is there when   *)
(* it renames it.                                                          *)

Alone(p) == /\ path = None /\ request[p] = Creating /\ lockQ = <<>>
            /\ \A q \in Procs \ {p} : stage[q] = "idle"

OneWriter ==
  \A p \in Procs :
    /\ stage[p] = "read" => Holds(p) /\ path # None
    /\ stage[p] \in WriteStages =>
         \/ Holds(p) /\ path # None /\ request[p] \in Requests
         \/ Alone(p)

\* The write under way is the answer to its request on the current document.
Answer ==
  \A p \in Procs :
    /\ stage[p] = "read" => buf[p] = OnDisk
    /\ stage[p] \in WriteStages /\ request[p] \in Requests =>
         /\ Accepts(request[p], OnDisk)
         /\ buf[p] = Edited(request[p], OnDisk, buf[p].stamp)
    /\ stage[p] \in WriteStages /\ request[p] = Creating =>
         buf[p] = NewDoc(buf[p].org, buf[p].stamp)

TmpFile ==
  \A p \in Procs :
    /\ stage[p] = "writing" => tmp # None /\ fd[p] = tmp /\ content[tmp] = Empty
    /\ stage[p] \in {"written", "replacing"} =>
         tmp # None /\ fd[p] = tmp /\ content[tmp] = buf[p]

WholeFile == path # None => path # tmp /\ content[path] \in Docs

Fresh == calls = 0 => lockQ = <<>> /\ \A p \in Procs : stage[p] = "idle"

NoOrphans == \A p \in Procs : stage[p] \notin OrphanStages

Known == lockQ # <<>> => path # None

WInv == OneWriter /\ Answer /\ TmpFile /\ WholeFile /\ Fresh /\ NoOrphans /\ Known

LEMMA MarksApart == /\ Empty \notin Docs /\ Torn \notin Docs
                    /\ None \notin Docs /\ Creating \notin Requests
<1>1. \A d \in Docs : DOMAIN d = {"org", "status", "ctx", "stamp", "title"}
  BY DEF Docs
<1>2. DOMAIN Empty = {"kind"} /\ DOMAIN Torn = {"kind"}
  BY DEF Empty, Torn
<1>3. {"kind"} # {"org", "status", "ctx", "stamp", "title"}
  OBVIOUS
<1>4. Creating \notin Requests
  BY DEF Creating, Requests, Saves, Marks, Titles, Claims
<1>5. QED
  BY <1>1, <1>2, <1>3, <1>4, NoneAssumption

LEMMA EditedTime ==
  ASSUME NEW r \in Requests, NEW doc \in Docs, NEW now \in Nat
  PROVE  Edited(r, doc, now) = Edited(r, doc, Edited(r, doc, now).stamp)
<1>1. CASE r \in Saves
  BY <1>1 DEF Saves, Edited, Saved, Docs
<1>2. CASE r \in Marks
  BY <1>2 DEF Marks, Edited, Marked, Docs
<1>3. CASE r \in Titles
  BY <1>3 DEF Titles, Edited, Docs
<1>4. CASE r \in Claims
  BY <1>4 DEF Claims, Edited, Claimed, Docs
<1>5. QED
  BY <1>1, <1>2, <1>3, <1>4 DEF Requests

\* No job outlives its call: nobody is cancelled while a thread opens, writes or
\* renames a file for it.
CalmAssumption == CancelAt \cap {"opening", "writing", "replacing"} = {}

\* Two writes are never under way together.
LEMMA OneAtATime ==
  ASSUME OneWriter, NEW p \in Procs, NEW q \in Procs,
         stage[p] \in {"read"} \cup WriteStages, stage[q] \in {"read"} \cup WriteStages
  PROVE  p = q
  BY DEF OneWriter, Alone, Holds, WriteStages

LEMMA WholeInit == Init => WInv
  BY MarksApart, ProcsAssumption
  DEF Init, WInv, OneWriter, Answer, TmpFile, WholeFile, Fresh, NoOrphans, Known,
      WriteStages, OrphanStages

\* Such a cancel ends the call and gives up its place in the lock's queue.
LEMMA CalmCancel ==
  ASSUME CalmAssumption, TInv, WInv, NEW p \in Procs, Cancel(p)
  PROVE  /\ Leave(p) /\ stage[p] # "idle" /\ UNCHANGED <<files, won, clock, calls>>
         /\ lockQ' # <<>> => lockQ # <<>>
         /\ \A q \in Procs \ {p} : Holds(q) => Holds(q)'
<1>1. /\ stage[p] \in Stages \ {"opening", "writing", "replacing"}
      /\ stage[p] \notin {"idle"} \cup OrphanStages
  BY ProcsAssumption DEF Cancel, CalmAssumption, TInv, TypeOK
<1>2. AfterCancel[stage[p]] = {"idle"}
  BY <1>1 DEF AfterCancel
<1>3. Leave(p) /\ UNCHANGED <<files, won, clock, calls>>
  BY <1>2 DEF Cancel, files
<1>4. CASE lockQ' = lockQ
  BY <1>1, <1>3, <1>4 DEF Holds
<1>5. CASE lockQ' # lockQ
  <2>1. PICK i \in DOMAIN lockQ : lockQ[i] = p /\ lockQ' = RemoveAt(lockQ, i)
    BY <1>5 DEF Cancel
  <2>2. i \in 1 .. Len(lockQ) /\ lockQ \in Seq(Procs)
    BY <2>1 DEF TInv, TypeOK
  <2>3. lockQ' = SubSeq(lockQ, 1, i - 1) \o SubSeq(lockQ, i + 1, Len(lockQ))
    BY <2>1 DEF RemoveAt
  <2>4. ASSUME NEW q \in Procs \ {p}, Holds(q) PROVE Holds(q)'
    <3>1. Head(lockQ) = lockQ[1] /\ lockQ[1] = q
      BY <2>2, <2>4 DEF Holds
    <3>2. i # 1
      BY <2>1, <3>1
    <3>3. /\ SubSeq(lockQ, 1, i - 1) \in Seq(Procs) /\ Len(SubSeq(lockQ, 1, i - 1)) = i - 1
          /\ SubSeq(lockQ, 1, i - 1)[1] = lockQ[1]
          /\ SubSeq(lockQ, i + 1, Len(lockQ)) \in Seq(Procs)
      BY <2>2, <3>2, SubSeqProperties
    <3>4. lockQ'[1] = q /\ lockQ' # <<>> /\ lockQ' \in Seq(Procs)
      BY <2>2, <2>3, <3>1, <3>2, <3>3, ConcatProperties
    <3>5. QED
      BY <3>4 DEF Holds
  <2>5. QED
    BY <1>1, <1>3, <2>2, <2>4
<1>6. QED
  BY <1>4, <1>5

LEMMA WholeNext ==
  ASSUME CalmAssumption, TInv, TInv', WInv, [Next]_vars
  PROVE  WInv'
<1> USE DEF WInv
<1>1. CASE UNCHANGED vars
  BY <1>1 DEF vars, OneWriter, Answer, TmpFile, WholeFile, Fresh, NoOrphans, Known,
              Alone, Holds, OnDisk
<1>2. CASE Crash
  <2>1. WholeFile'
    BY <1>2 DEF Crash, WholeFile, TmpFile, NoOrphans, OrphanStages, TInv, TypeOK
  <2>2. QED
    BY <1>2, <2>1 DEF Crash, OneWriter, Answer, TmpFile, Fresh, NoOrphans, Known,
                      WriteStages, OrphanStages
<1>3. ASSUME NEW p \in Procs, Create(p) PROVE WInv'
  <2>1. PICK org \in Orgs : buf' = [buf EXCEPT ![p] = NewDoc(org, clock + 1)]
    BY <1>3 DEF Create
  <2>2. /\ lockQ = <<>> /\ lockQ' = <<>> /\ path' = None /\ tmp' = None
        /\ \A q \in Procs : stage[q] = "idle"
        /\ stage' = [stage EXCEPT ![p] = "opening"]
        /\ request' = [request EXCEPT ![p] = Creating]
        /\ calls' = calls + 1 /\ content' = content
    BY <1>3 DEF Create, Begin, Fresh, files
  <2>3. OneWriter'
    BY <2>2 DEF OneWriter, Alone, TInv, TypeOK, WriteStages
  <2>4. Answer'
    BY <2>1, <2>2, MarksApart
       DEF Answer, TInv, TypeOK, WriteStages, NewDoc
  <2>5. TmpFile' /\ WholeFile' /\ NoOrphans'
    BY <2>2 DEF TmpFile, WholeFile, NoOrphans, OrphanStages, TInv, TypeOK
  <2>6. Fresh' /\ Known'
    BY <2>2 DEF Fresh, Known, TInv, TypeOK
  <2>7. QED
    BY <2>3, <2>4, <2>5, <2>6
<1>4. ASSUME NEW p \in Procs, Get(p) \/ Locked(p) PROVE WInv'
  <2>1. /\ path # None /\ path' = path /\ tmp' = tmp /\ content' = content
        /\ stage[p] = "idle" /\ fd' = fd /\ buf' = buf
        /\ \E s \in {"fetching", "locking"} : stage' = [stage EXCEPT ![p] = s]
        /\ \A q \in Procs \ {p} : request'[q] = request[q]
        /\ calls' = calls + 1
    BY <1>4 DEF Get, Locked, Begin, files, TInv, TypeOK
  <2>2. \A q \in Procs : Holds(q) => Holds(q)'
    <3>1. lockQ' = lockQ \/ lockQ' = Append(lockQ, p)
      BY <1>4 DEF Get, Locked
    <3>2. lockQ # <<>> => Append(lockQ, p) # <<>> /\ Head(Append(lockQ, p)) = Head(lockQ)
      BY DEF TInv, TypeOK
    <3>3. QED
      BY <3>1, <3>2 DEF Holds
  <2>3. OneWriter'
    BY <2>1, <2>2 DEF OneWriter, Alone, TInv, TypeOK, WriteStages
  <2>4. Answer'
    BY <2>1 DEF Answer, OnDisk, TInv, TypeOK, WriteStages
  <2>5. TmpFile' /\ WholeFile' /\ NoOrphans'
    BY <2>1 DEF TmpFile, WholeFile, NoOrphans, OrphanStages, TInv, TypeOK
  <2>6. Fresh' /\ Known'
    BY <2>1 DEF Fresh, Known, TInv, TypeOK
  <2>7. QED
    BY <2>3, <2>4, <2>5, <2>6
\* A step that ends p's call, or brings it past its write, and leaves the
\* files as they are.
<1>5. ASSUME NEW p \in Procs, NEW s \in {"idle", "failed"},
             stage' = [stage EXCEPT ![p] = s],
             \A q \in Procs \ {p} :
               request'[q] = request[q] /\ buf'[q] = buf[q] /\ fd'[q] = fd[q],
             path' = path, tmp' = tmp, WholeFile', stage[p] # "idle",
             content' = content
               \/ (stage[p] = "writing" /\ content' = [content EXCEPT ![fd[p]] = Torn]),
             lockQ' = lockQ \/ (Holds(p) /\ lockQ' = Tail(lockQ)),
             calls' = calls
      PROVE  WInv'
  <2>1. \A q \in Procs \ {p} : stage[q] \in {"read"} \cup WriteStages =>
          \/ Holds(q) /\ lockQ' = lockQ
          \/ Alone(q)
    BY <1>5 DEF OneWriter, Holds
  <2>2. OneWriter'
    BY <1>5, <2>1 DEF OneWriter, Alone, Holds, TInv, TypeOK, WriteStages
  <2>3. OnDisk' = OnDisk
    BY <1>5 DEF OnDisk, TmpFile, WholeFile, TInv, TypeOK
  <2>4. Answer'
    BY <1>5, <2>3 DEF Answer, TInv, TypeOK, WriteStages
  <2>5. TmpFile'
    <3>1. CASE content' = content
      BY <1>5, <3>1 DEF TmpFile, TInv, TypeOK
    <3>2. CASE stage[p] = "writing"
      BY <1>5, <3>2, OneAtATime DEF TmpFile, TInv, TypeOK, WriteStages
    <3>3. QED
      BY <1>5, <3>1, <3>2
  <2>6. Fresh' /\ NoOrphans' /\ Known'
    BY <1>5 DEF Fresh, NoOrphans, Known, Holds, OrphanStages, TInv, TypeOK
  <2>7. QED
    BY <1>5, <2>2, <2>4, <2>5, <2>6
<1>6. ASSUME NEW p \in Procs, Fetch(p) \/ Refuse(p) \/ Finish(p) \/ Raise(p) \/ JobFails(p)
      PROVE  WInv'
  <2>1. WholeFile'
    BY <1>6 DEF Fetch, Refuse, Finish, Raise, JobFails, WholeFile, TmpFile, files, TInv, TypeOK
  <2>2. CASE JobFails(p)
    <3>1. stage' = [stage EXCEPT ![p] = "failed"] /\ stage[p] # "idle"
      BY <2>2 DEF JobFails
    <3>2. QED
      BY <2>1, <2>2, <3>1, <1>5 DEF JobFails
  <2>3. CASE ~JobFails(p)
    <3>1. stage' = [stage EXCEPT ![p] = "idle"] /\ stage[p] # "idle"
      BY <1>6, <2>3 DEF Fetch, Refuse, Finish, Raise, Leave
    <3>2. lockQ' = lockQ \/ (Holds(p) /\ lockQ' = Tail(lockQ))
      BY <1>6, <2>3 DEF Fetch, Refuse, Finish, Raise, Release
    <3>3. /\ path' = path /\ tmp' = tmp /\ content' = content /\ calls' = calls
          /\ \A q \in Procs \ {p} :
               request'[q] = request[q] /\ buf'[q] = buf[q] /\ fd'[q] = fd[q]
      BY <1>6, <2>3 DEF Fetch, Refuse, Finish, Raise, Leave, files, TInv, TypeOK
    <3>4. QED
      BY <2>1, <3>1, <3>2, <3>3, <1>5
  <2>4. QED
    BY <2>2, <2>3
<1>7. ASSUME NEW p \in Procs, Read(p) PROVE WInv'
  <2>1. /\ Holds(p) /\ path' = path /\ tmp' = tmp /\ content' = content
        /\ lockQ' = lockQ /\ calls' = calls /\ request' = request /\ fd' = fd
        /\ \A q \in Procs \ {p} : stage'[q] = stage[q] /\ buf'[q] = buf[q]
    BY <1>7 DEF Read, files, TInv, TypeOK
  <2>2. (stage'[p] = "read" /\ buf'[p] = OnDisk) \/ stage'[p] = "failed"
    BY <1>7 DEF Read, TInv, TypeOK
  <2>3. path # None
    BY <2>1 DEF Known, Holds
  <2>4. OneWriter'
    BY <2>1, <2>2, <2>3 DEF OneWriter, Alone, Holds, WriteStages
  <2>5. Answer'
    BY <2>1, <2>2 DEF Answer, OnDisk, WriteStages
  <2>6. TmpFile' /\ WholeFile' /\ NoOrphans' /\ Fresh' /\ Known'
    BY <1>7, <2>1, <2>2 DEF Read, TmpFile, WholeFile, NoOrphans, Fresh, Known, OrphanStages
  <2>7. QED
    BY <2>4, <2>5, <2>6
<1>8. ASSUME NEW p \in Procs, Edit(p) PROVE WInv'
  <2>1. /\ path' = path /\ tmp' = tmp /\ content' = content /\ stage[p] = "read"
        /\ lockQ' = lockQ /\ calls' = calls /\ request' = request /\ fd' = fd
        /\ stage' = [stage EXCEPT ![p] = "opening"]
        /\ buf' = [buf EXCEPT ![p] = Edited(request[p], OnDisk, clock + 1)]
        /\ Accepts(request[p], OnDisk) /\ request[p] \in Requests
    BY <1>8 DEF Edit, files, TInv, CallOK, Answer
  <2>2. OnDisk \in Docs /\ OnDisk' = OnDisk
    BY <2>1 DEF OneWriter, WholeFile, OnDisk
  <2>3. OneWriter'
    BY <2>1 DEF OneWriter, Alone, Holds, WriteStages, TInv, TypeOK
  <2>4. Answer'
    BY <2>1, <2>2, EditedTime, MarksApart DEF Answer, WriteStages, TInv, TypeOK
  <2>5. TmpFile' /\ WholeFile' /\ NoOrphans' /\ Fresh' /\ Known'
    BY <2>1 DEF TmpFile, WholeFile, NoOrphans, Fresh, Known, OrphanStages, TInv, TypeOK
  <2>6. QED
    BY <2>3, <2>4, <2>5
\* The other coroutines have nothing under way while p writes.
<1>9. ASSUME NEW p \in Procs, stage[p] \in WriteStages,
             NEW s \in WriteStages \cup {"replaced"}, stage' = [stage EXCEPT ![p] = s],
             request' = request, buf' = buf, lockQ' = lockQ, calls' = calls
      PROVE  /\ \A q \in Procs \ {p} : stage'[q] \notin {"read"} \cup WriteStages
             /\ path' = path \/ s = "replaced" => OneWriter'
             /\ OnDisk' = OnDisk \/ s = "replaced" => Answer'
             /\ path' # None \/ path' = path => Known'
             /\ NoOrphans' /\ Fresh'
  <2>1. \A q \in Procs \ {p} : stage'[q] \notin {"read"} \cup WriteStages
    BY <1>9, OneAtATime DEF TInv, TypeOK
  <2>2. path' = path \/ s = "replaced" => OneWriter'
    BY <1>9, <2>1 DEF OneWriter, Alone, Holds, WriteStages, TInv, TypeOK
  <2>3. OnDisk' = OnDisk \/ s = "replaced" => Answer'
    BY <1>9, <2>1 DEF Answer, WriteStages, TInv, TypeOK
  <2>4. NoOrphans' /\ Fresh'
    BY <1>9 DEF NoOrphans, Fresh, OrphanStages, WriteStages, TInv, TypeOK
  <2>5. QED
    BY <1>9, <2>1, <2>2, <2>3, <2>4 DEF Known
<1>10. ASSUME NEW p \in Procs, Open(p) PROVE WInv'
  <2>1. /\ stage[p] = "opening" /\ stage' = [stage EXCEPT ![p] = "writing"]
        /\ path' = path /\ request' = request /\ buf' = buf /\ lockQ' = lockQ
        /\ calls' = calls
    BY <1>10 DEF Open, NoOrphans, OrphanStages
  <2>2. PICK i \in IF tmp = None THEN FreeInodes ELSE {tmp} :
          /\ tmp' = i /\ content' = [content EXCEPT ![i] = Empty]
          /\ fd' = [fd EXCEPT ![p] = i]
    BY <1>10 DEF Open
  <2>3. i # path /\ i \in Inodes
    BY <2>2 DEF FreeInodes, WholeFile, TInv, TypeOK
  <2>4. OnDisk' = OnDisk /\ WholeFile'
    BY <2>1, <2>2, <2>3 DEF OnDisk, WholeFile, TInv, TypeOK
  <2>5. /\ \A q \in Procs \ {p} : stage'[q] \notin {"read"} \cup WriteStages
        /\ OneWriter' /\ Answer' /\ Known' /\ NoOrphans' /\ Fresh'
    BY <2>1, <2>4, <1>9 DEF WriteStages
  <2>6. TmpFile'
    BY <2>1, <2>2, <2>3, <2>5, ProcsAssumption DEF TmpFile, WriteStages, TInv, TypeOK
  <2>7. QED
    BY <2>4, <2>5, <2>6
<1>11. ASSUME NEW p \in Procs, Write(p) PROVE WInv'
  <2>1. /\ stage[p] = "writing" /\ stage' = [stage EXCEPT ![p] = "written"]
        /\ path' = path /\ request' = request /\ buf' = buf /\ lockQ' = lockQ
        /\ calls' = calls /\ tmp' = tmp /\ fd' = fd
    BY <1>11 DEF Write, NoOrphans, OrphanStages
  <2>2. ~Shared(p)
    BY <2>1, OneAtATime DEF Shared, TmpFile, NoOrphans, OrphanStages, WriteStages
  <2>3. content' = [content EXCEPT ![tmp] = buf[p]] /\ tmp \in Inodes
    BY <1>11, <2>1, <2>2 DEF Write, TmpFile, TInv, TypeOK
  <2>4. OnDisk' = OnDisk /\ WholeFile'
    BY <2>1, <2>3 DEF OnDisk, WholeFile, TInv, TypeOK
  <2>5. /\ \A q \in Procs \ {p} : stage'[q] \notin {"read"} \cup WriteStages
        /\ OneWriter' /\ Answer' /\ Known' /\ NoOrphans' /\ Fresh'
    BY <2>1, <2>4, <1>9 DEF WriteStages
  <2>6. TmpFile'
    BY <2>1, <2>3, <2>5 DEF TmpFile, WriteStages, TInv, TypeOK
  <2>7. QED
    BY <2>4, <2>5, <2>6
<1>12. ASSUME NEW p \in Procs, Submit(p) PROVE WInv'
  <2>1. /\ stage[p] = "written" /\ stage' = [stage EXCEPT ![p] = "replacing"]
        /\ path' = path /\ request' = request /\ buf' = buf /\ lockQ' = lockQ
        /\ calls' = calls /\ tmp' = tmp /\ fd' = fd /\ content' = content
    BY <1>12 DEF Submit, files
  <2>2. OnDisk' = OnDisk /\ WholeFile' /\ TmpFile'
    BY <2>1 DEF OnDisk, WholeFile, TmpFile, TInv, TypeOK
  <2>3. OneWriter' /\ Answer' /\ Known' /\ NoOrphans' /\ Fresh'
    BY <2>1, <2>2, <1>9 DEF WriteStages
  <2>4. QED
    BY <2>2, <2>3
<1>13. ASSUME NEW p \in Procs, Replace(p) PROVE WInv'
  <2>1. /\ stage[p] = "replacing" /\ stage' = [stage EXCEPT ![p] = "replaced"]
        /\ path' = tmp /\ tmp # None /\ tmp' = None
        /\ request' = request /\ buf' = buf /\ lockQ' = lockQ /\ calls' = calls
        /\ content' = IF path = None THEN content ELSE [content EXCEPT ![path] = Empty]
    BY <1>13 DEF Replace, NoOrphans, OrphanStages, TmpFile
  <2>2. WholeFile'
    BY <2>1 DEF WholeFile, TmpFile, WriteStages, TInv, CallOK, TypeOK
  <2>3. /\ \A q \in Procs \ {p} : stage'[q] \notin {"read"} \cup WriteStages
        /\ OneWriter' /\ Answer' /\ Known' /\ NoOrphans' /\ Fresh'
    BY <2>1, <1>9 DEF WriteStages
  <2>4. TmpFile'
    BY <2>1, <2>3 DEF TmpFile, WriteStages, TInv, TypeOK
  <2>5. QED
    BY <2>2, <2>3, <2>4
<1>14. ASSUME NEW p \in Procs, Cancel(p) PROVE WInv'
  <2>1. /\ Leave(p) /\ stage[p] # "idle" /\ UNCHANGED <<files, calls>>
        /\ lockQ' # <<>> => lockQ # <<>>
        /\ \A q \in Procs \ {p} : Holds(q) => Holds(q)'
    BY <1>14, CalmCancel
  <2>2. /\ stage'[p] = "idle"
        /\ \A q \in Procs \ {p} : /\ stage'[q] = stage[q] /\ request'[q] = request[q]
                                  /\ buf'[q] = buf[q] /\ fd'[q] = fd[q]
    BY <2>1 DEF Leave, TInv, TypeOK
  <2>3. \A q \in Procs \ {p} : ~Alone(q)
    BY <2>1 DEF Alone
  <2>4. OneWriter'
    BY <2>1, <2>2, <2>3 DEF OneWriter, WriteStages, files
  <2>5. Answer' /\ TmpFile' /\ WholeFile'
    BY <2>1, <2>2 DEF Answer, TmpFile, WholeFile, WriteStages, OnDisk, files
  <2>6. Fresh' /\ NoOrphans' /\ Known'
    BY <2>1, <2>2 DEF Fresh, NoOrphans, OrphanStages, Known, files
  <2>7. QED
    BY <2>4, <2>5, <2>6
<1>15. QED
  BY <1>1, <1>2, <1>3, <1>4, <1>6, <1>7, <1>8, <1>10, <1>11, <1>12, <1>13, <1>14
     DEF Next, Coroutine, Thread

\* While no cancel leaves a write job behind, every reader of the document, at any instant,
\* through any failed writes and crashes, reads a whole document
\* (_write_doc, conversation_store.py:180-185).
THEOREM StoreWhole == ASSUME CalmAssumption PROVE Spec => []DiskIsJson
<1>1. TInv /\ WInv => DiskIsJson
  BY MarksApart, ProcsAssumption DEF WInv, WholeFile, DiskIsJson, OnDisk
<1>2. TInv /\ WInv /\ [Next]_vars => (TInv /\ WInv)'
  BY TypeNext, WholeNext
<1>3. QED
  BY TypeInit, WholeInit, <1>1, <1>2, PTL DEF Spec

-----------------------------------------------------------------------------
(* The store implements AtomicDocument. *)

\* Both modules have ConversationDocument's operators, under two names.
LEMMA SameData ==
  /\ Promised!Docs = Docs /\ Promised!Requests = Requests
  /\ \A r, d : Promised!Accepts(r, d) <=> Accepts(r, d)
  /\ \A r, d, now : Promised!Edited(r, d, now) = Edited(r, d, now)
  /\ \A org, now : Promised!NewDoc(org, now) = NewDoc(org, now)
<1>1. Promised!Docs = Docs
  BY DEF Promised!Docs, Docs, Promised!Statuses, Statuses
<1>2. Promised!Requests = Requests
  BY DEF Promised!Requests, Requests, Promised!Saves, Saves, Promised!Marks, Marks,
         Promised!Titles, Titles, Promised!Claims, Claims, Promised!Statuses, Statuses
<1>3. \A r, d : Promised!Accepts(r, d) <=> Accepts(r, d)
  BY DEF Promised!Accepts, Accepts, Promised!Matches, Matches
<1>4. \A r, d, now : Promised!Edited(r, d, now) = Edited(r, d, now)
  BY DEF Promised!Edited, Edited, Promised!Saved, Saved, Promised!Marked, Marked,
         Promised!Claimed, Claimed
<1>5. \A org, now : Promised!NewDoc(org, now) = NewDoc(org, now)
  BY DEF Promised!NewDoc, NewDoc
<1>6. QED
  BY <1>1, <1>2, <1>3, <1>4, <1>5

LEMMA AtomicInit == Init => Promised!AInit
<1> SUFFICES ASSUME Init PROVE Promised!AInit
  OBVIOUS
<1>1. OnDisk \in Docs \cup {None}
  BY ProcsAssumption DEF Init, OnDisk
<1>2. Pending = [p \in Procs |-> None]
  BY DEF Init, Pending
<1>3. QED
  BY <1>1, <1>2, SameData DEF Promised!AInit

LEMMA AtomicNext ==
  ASSUME CalmAssumption, TInv, TInv', WInv, WInv', [Next]_vars
  PROVE  [Promised!ANext]_(Promised!avars)
<1> DEFINE Stutter == OnDisk' = OnDisk /\ Pending' = Pending
<1>0. Stutter => UNCHANGED Promised!avars
  BY DEF Promised!avars
<1>1. CASE UNCHANGED vars
  BY <1>0, <1>1 DEF vars, OnDisk, Pending
<1>2. CASE Crash
  <2>1. OnDisk' = OnDisk
    BY <1>2 DEF Crash, OnDisk, WInv, WholeFile, TmpFile, NoOrphans, OrphanStages, TInv, TypeOK
  <2>2. Pending' = [p \in Procs |-> None]
    BY <1>2 DEF Crash, Pending
  <2>3. QED
    BY <2>1, <2>2 DEF Promised!ANext, Promised!ACrash
<1>3. ASSUME NEW p \in Procs, Create(p) PROVE Promised!ANext
  <2>1. OnDisk = None /\ OnDisk' = None
    BY <1>3 DEF Create, Begin, files, OnDisk
  <2>2. Pending[p] = None /\ Pending' = [Pending EXCEPT ![p] = Creating]
    BY <1>3 DEF Create, Begin, Pending, TInv, TypeOK
  <2>3. QED
    BY <2>1, <2>2 DEF Promised!ANext, Promised!ACallCreate, Promised!Create, Creating
<1>4. ASSUME NEW p \in Procs, Locked(p) PROVE Promised!ANext
  <2>0. PICK k \in {"save", "status", "title", "claim"}, org \in Orgs :
             \E r \in Asked(p, org)[k] : Begin(p, r, "locking")
    BY <1>4 DEF Locked
  <2>1. PICK r \in Asked(p, org)[k] : Begin(p, r, "locking")
    BY <2>0
  <2>2. r \in Requests
    BY AskedType DEF TInv
  <2>3. Pending[p] = None /\ Pending' = [Pending EXCEPT ![p] = r] /\ Pending'[p] = r
    BY <2>1 DEF Begin, Pending, TInv, TypeOK
  <2>4. OnDisk # None /\ OnDisk' = OnDisk
    BY <1>4, <2>1, MarksApart DEF Locked, Begin, files, OnDisk, WInv, WholeFile
  <2>5. /\ Pending'[p] \in Promised!Requests
        /\ Pending' = [Pending EXCEPT ![p] = Pending'[p]]
    <3>1. Promised!Requests = Requests
      BY SameData
    <3>2. Pending'[p] \in Requests
      BY <2>2, <2>3
    <3>3. Pending' = [Pending EXCEPT ![p] = Pending'[p]]
      BY <2>3
    <3>4. QED
      BY <3>1, <3>2, <3>3, Zenon
  <2>6. Promised!ACall(p)
    BY <2>3, <2>4, <2>5 DEF Promised!ACall
  <2>7. QED
    BY <2>6 DEF Promised!ANext
<1>5. ASSUME NEW p \in Procs, Get(p) \/ Fetch(p) PROVE Stutter
  BY <1>5 DEF Get, Fetch, Begin, Leave, files, OnDisk, Pending, TInv, TypeOK
<1>6. ASSUME NEW p \in Procs, Read(p) \/ Edit(p) \/ Submit(p) PROVE Stutter
  BY <1>6 DEF Read, Edit, Submit, files, OnDisk, Pending, TInv, TypeOK
<1>7. ASSUME NEW p \in Procs, Open(p) \/ Write(p) \/ JobFails(p) PROVE Stutter
  <2>1. OnDisk' = OnDisk
    BY <1>7 DEF Open, Write, JobFails, FreeInodes, OnDisk, WInv, WholeFile, TmpFile,
                NoOrphans, OrphanStages, TInv, TypeOK
  <2>2. Pending' = Pending
    BY <1>7 DEF Open, Write, JobFails, Pending, WInv, NoOrphans, OrphanStages, TInv, TypeOK
  <2>3. QED
    BY <2>1, <2>2
<1>8. ASSUME NEW p \in Procs, Refuse(p) PROVE Promised!ANext
  <2>1. OnDisk' = OnDisk /\ Pending' = [Pending EXCEPT ![p] = None]
    BY <1>8 DEF Refuse, Leave, files, OnDisk, Pending, TInv, TypeOK
  <2>2. Pending[p] \in Requests /\ ~Accepts(Pending[p], OnDisk)
    BY <1>8 DEF Refuse, Pending, TInv, CallOK, WInv, Answer
  <2>3. QED
    BY <2>1, <2>2, SameData DEF Promised!ANext, Promised!ARefuse
<1>9. ASSUME NEW p \in Procs, Finish(p) \/ Raise(p) \/ Cancel(p)
      PROVE  Promised!ANext \/ Stutter
  <2>0. Leave(p) /\ UNCHANGED files
    BY <1>9, CalmCancel DEF Finish, Raise, files
  <2>1. OnDisk' = OnDisk /\ Pending' = [Pending EXCEPT ![p] = None]
    BY <2>0 DEF Leave, files, OnDisk, Pending, TInv, TypeOK
  <2>2. CASE Pending[p] = None
    BY <2>1, <2>2 DEF Pending
  <2>3. CASE Pending[p] # None
    BY <2>1, <2>3 DEF Promised!ANext, Promised!AReturn
  <2>4. QED
    BY <2>2, <2>3
<1>10. ASSUME NEW p \in Procs, Replace(p) PROVE Promised!ANext
  <2>1. /\ stage[p] = "replacing" /\ stage' = [stage EXCEPT ![p] = "replaced"]
        /\ tmp # None /\ content[tmp] = buf[p] /\ request' = request
        /\ path' = tmp /\ content'[tmp] = content[tmp]
    BY <1>10 DEF Replace, WInv, NoOrphans, OrphanStages, TmpFile, WholeFile, TInv, TypeOK
  <2>2. OnDisk' = buf[p] /\ buf[p] \in Docs
    BY <2>1 DEF OnDisk, TInv, CallOK, WriteStages
  <2>3. Pending[p] = request[p] /\ Pending' = [Pending EXCEPT ![p] = [kind |-> "done"]]
    BY <2>1 DEF Pending, TInv, TypeOK
  <2>4. CASE request[p] \in Requests
    <3>1. Accepts(request[p], OnDisk) /\ buf[p] = Edited(request[p], OnDisk, buf[p].stamp)
      BY <2>1, <2>4 DEF WInv, Answer, WriteStages
    <3>2. QED
      BY <2>2, <2>3, <2>4, <3>1, SameData DEF Promised!ANext, Promised!ACommit, Promised!Done
  <2>5. CASE request[p] = Creating
    <3>1. buf[p] = NewDoc(buf[p].org, buf[p].stamp)
      BY <2>1, <2>5 DEF WInv, Answer, WriteStages
    <3>2. OnDisk = None
      BY <2>1, <2>5, MarksApart DEF WInv, OneWriter, Alone, WriteStages, OnDisk
    <3>3. QED
      BY <2>2, <2>3, <2>5, <3>1, <3>2, SameData
         DEF Promised!ANext, Promised!ACreate, Promised!Create, Promised!Done, Creating
  <2>6. QED
    BY <2>1, <2>4, <2>5 DEF TInv, CallOK, WriteStages
<1>11. QED
  BY <1>0, <1>1, <1>2, <1>3, <1>4, <1>5, <1>6, <1>7, <1>8, <1>9, <1>10
     DEF Next, Coroutine, Thread

\* While no cancel leaves a write job behind, the store is atomic: save, update_status,
\* update_title and claim_turn each act once, on the current document, whatever
\* calls overlap them, whatever writes fail, wherever the process dies.
THEOREM StoreAtomic == ASSUME CalmAssumption PROVE Spec => Atomic
<1>1. TInv /\ WInv /\ [Next]_vars => (TInv /\ WInv)'
  BY TypeNext, WholeNext
<1>2. TInv /\ TInv' /\ WInv /\ WInv' /\ [Next]_vars => [Promised!ANext]_(Promised!avars)
  BY AtomicNext
<1>3. QED
  BY TypeInit, WholeInit, AtomicInit, <1>1, <1>2, PTL DEF Spec, Atomic, Promised!ASpec

\* A title, once there, survives every edit that is accepted.
LEMMA EditedTitle ==
  ASSUME NEW r \in Requests, NEW doc \in Docs, NEW now, Accepts(r, doc), doc.title # None
  PROVE  Edited(r, doc, now).title = doc.title
<1>1. CASE r \in Saves
  BY <1>1 DEF Saves, Edited, Saved, Docs
<1>2. CASE r \in Marks
  BY <1>2 DEF Marks, Edited, Marked, Docs
<1>3. CASE r \in Titles
  BY <1>3 DEF Titles, Accepts
<1>4. CASE r \in Claims
  BY <1>4 DEF Claims, Edited, Claimed, Docs
<1>5. QED
  BY <1>1, <1>2, <1>3, <1>4 DEF Requests

LEMMA TitleNext ==
  ASSUME WInv, WInv', [Promised!ANext]_(Promised!avars)
  PROVE  TitleKept
<1> SUFFICES ASSUME OnDisk # None, OnDisk.title # None
             PROVE  DiskIsJson' /\ OnDisk'.title = OnDisk.title
  BY DEF TitleKept
<1>1. DiskIsJson'
  BY MarksApart, ProcsAssumption DEF WInv, WholeFile, DiskIsJson, OnDisk
<1>2. OnDisk \in Docs
  BY DEF WInv, WholeFile, OnDisk
<1>3. ASSUME NEW p \in Procs, Promised!ACommit(p) PROVE OnDisk'.title = OnDisk.title
  <2>1. /\ Pending[p] \in Requests /\ Accepts(Pending[p], OnDisk)
        /\ OnDisk' = Edited(Pending[p], OnDisk, OnDisk'.stamp)
    BY <1>3, SameData DEF Promised!ACommit
  <2>2. QED
    BY <1>2, <2>1, EditedTitle
<1>4. ASSUME NEW p \in Procs, Promised!ACreate(p) PROVE FALSE
  BY <1>4 DEF Promised!ACreate
<1>5. QED
  BY <1>1, <1>3, <1>4
  DEF Promised!ANext, Promised!ACrash, Promised!ACallCreate, Promised!ACall,
      Promised!ARefuse, Promised!AReturn, Promised!avars

\* While no cancel leaves a write job behind, generate_title's title, once stored,
\* survives every save, claim and status change that overlaps it
\* (conversation_store.py:31-61).
THEOREM StoreKeepsTitle == ASSUME CalmAssumption PROVE Spec => TitleSticks
<1>1. TInv /\ WInv /\ [Next]_vars => (TInv /\ WInv)'
  BY TypeNext, WholeNext
<1>2. TInv /\ TInv' /\ WInv /\ WInv' /\ [Next]_vars => TitleKept
  BY AtomicNext, TitleNext
<1>3. QED
  BY TypeInit, WholeInit, <1>1, <1>2, PTL DEF Spec, TitleSticks


-----------------------------------------------------------------------------
(***************************************************************************)
(* Proof about ConversationStore, while no cancel leaves a write job       *)
(* behind: of the callers that read the same last_message_at only one      *)
(* claims the turn, however many coroutines, saves, claims, failed writes  *)
(* and crashes there are.                                                  *)
(*                                                                         *)
(* The argument: a stamp that a claim has used never comes back.  Whoever  *)
(* writes the document keeps the stamp that is there or brings one that    *)
(* nobody has used, and a claim always brings a new one.                   *)
(***************************************************************************)

\* A save that has its time and has not stored it; a claim that has stored its
\* document and has not returned.
Saving(p) == stage[p] \in {"locking", "read"} \cup WriteStages /\ request[p] \in Saves
Claimer(p) == stage[p] = "replaced" /\ request[p] \in Claims

\* The stamps that claims have used.
Spent(n) ==
  \/ \E p \in Procs : n \in won[p]
  \/ \E p \in Procs : Claimer(p) /\ request[p].expected = n

Past ==
  /\ OnDisk # None => OnDisk.stamp <= clock
  /\ \A p \in Procs : Saving(p) => request[p].stamp <= clock
  /\ \A p \in Procs : stage[p] \in WriteStages => buf[p].stamp <= clock
  /\ \A n \in Nat : Spent(n) => n <= clock

\* The stamps in the document and on their way to it are not spent, and all differ.
Apart ==
  /\ OnDisk # None => ~Spent(OnDisk.stamp)
  /\ \A p \in Procs : Saving(p) =>
       ~Spent(request[p].stamp) /\ (OnDisk # None => OnDisk.stamp # request[p].stamp)
  /\ \A p, q \in Procs : p # q /\ Saving(p) /\ Saving(q) =>
       request[p].stamp # request[q].stamp

New(p) ==
  /\ ~Spent(buf[p].stamp)
  /\ OnDisk # None => buf[p].stamp # OnDisk.stamp
  /\ \A q \in Procs \ {p} : Saving(q) => request[q].stamp # buf[p].stamp

Kept(p) == request[p] \notin Claims /\ OnDisk # None /\ buf[p].stamp = OnDisk.stamp

KeepsOrNew == \A p \in Procs : stage[p] \in WriteStages => Kept(p) \/ New(p)

OneWinner ==
  /\ \A p, q \in Procs : p # q => won[p] \cap won[q] = {}
  /\ \A p, q \in Procs : p # q /\ Claimer(p) => request[p].expected \notin won[q]
  /\ \A p, q \in Procs : p # q /\ Claimer(p) /\ Claimer(q) =>
       request[p].expected # request[q].expected

SInv == Past /\ Apart /\ KeepsOrNew /\ OneWinner

LEMMA KindsApart == /\ Saves \cap Claims = {} /\ Marks \cap Claims = {}
                    /\ Titles \cap Claims = {} /\ Saves \cap Marks = {}
                    /\ Saves \cap Titles = {} /\ Marks \cap Titles = {}
  BY DEF Saves, Claims, Marks, Titles

LEMMA EditedStamp ==
  ASSUME NEW r \in Requests, NEW doc \in Docs, NEW now \in Nat
  PROVE  /\ r \in Saves => Edited(r, doc, now).stamp = r.stamp
         /\ r \in Marks => Edited(r, doc, now).stamp =
                             IF r.status = "working" THEN now ELSE doc.stamp
         /\ r \in Titles => Edited(r, doc, now).stamp = doc.stamp
         /\ r \in Claims => Edited(r, doc, now).stamp = now
<1>1. CASE r \in Saves
  BY <1>1, KindsApart DEF Saves, Edited, Saved, Docs
<1>2. CASE r \in Marks
  BY <1>2, KindsApart DEF Marks, Edited, Marked, Docs, Titles
<1>3. CASE r \in Titles
  BY <1>3, KindsApart DEF Titles, Edited, Docs
<1>4. CASE r \in Claims
  BY <1>4, KindsApart DEF Claims, Edited, Claimed, Docs
<1>5. QED
  BY <1>1, <1>2, <1>3, <1>4 DEF Requests

LEMMA SpentInit ==
  ASSUME \A d \in Stored : d.stamp = 0
  PROVE  Init => SInv
<1> SUFFICES ASSUME Init PROVE SInv
  OBVIOUS
<1>1. \A p \in Procs : ~Saving(p) /\ ~Claimer(p) /\ stage[p] \notin WriteStages /\ won[p] = {}
  BY DEF Init, Saving, Claimer, WriteStages
<1>2. \A n : ~Spent(n)
  BY <1>1 DEF Spent
<1>3. OnDisk # None => OnDisk.stamp = 0
  BY ProcsAssumption DEF Init, OnDisk
<1>4. clock = 0
  BY DEF Init
<1>5. QED
  BY <1>1, <1>2, <1>3, <1>4 DEF SInv, Past, Apart, KeepsOrNew, OneWinner

\* The stamps are times.
LEMMA StampTypes ==
  ASSUME TInv, WInv
  PROVE  /\ OnDisk # None => OnDisk \in Docs /\ OnDisk.stamp \in Nat
         /\ \A p \in Procs : Saving(p) => request[p].stamp \in Nat
         /\ \A p \in Procs : stage[p] \in WriteStages => buf[p] \in Docs /\ buf[p].stamp \in Nat
         /\ \A p \in Procs : request[p] \in Claims => request[p].expected \in Nat
         /\ clock \in Nat
<1>1. OnDisk # None => OnDisk \in Docs
  BY DEF WInv, WholeFile, OnDisk
<1>2. \A d \in Docs : d.stamp \in Nat
  BY DEF Docs
<1>3. QED
  BY <1>1, <1>2 DEF Saving, Saves, Claims, TInv, CallOK, TypeOK

\* Steps that write nothing and ask for nothing.
LEMMA SpentStays ==
  ASSUME SInv, TInv, TInv', WInv, WInv', OnDisk' = OnDisk, won' = won, clock' >= clock,
         \A p \in Procs : /\ Saving(p)' => Saving(p) /\ request'[p] = request[p]
                          /\ Claimer(p)' => Claimer(p) /\ request'[p] = request[p]
                          /\ stage'[p] \in WriteStages =>
                               /\ stage[p] \in WriteStages
                               /\ request'[p] = request[p] /\ buf'[p] = buf[p]
  PROVE  SInv'
<1>1. \A n : Spent(n)' => Spent(n)
  BY DEF Spent
<1>2. Past'
  <2>1. \A x \in Nat : x <= clock => x <= clock'
    BY StampTypes DEF TInv, TypeOK
  <2>2. QED
    BY <1>1, <2>1, StampTypes DEF SInv, Past
<1>3. Apart'
  BY <1>1 DEF SInv, Apart
<1>4. KeepsOrNew'
  BY <1>1 DEF SInv, KeepsOrNew, Kept, New
<1>5. OneWinner'
  BY DEF SInv, OneWinner
<1>6. QED
  BY <1>2, <1>3, <1>4, <1>5 DEF SInv

LEMMA SpentNext ==
  ASSUME CalmAssumption, SInv, TInv, TInv', WInv, WInv', [Next]_vars
  PROVE  SInv'
<1> USE StampTypes
<1>0. /\ OnDisk # None => OnDisk \in Docs
      /\ path # None => OnDisk # None
  BY MarksApart, ProcsAssumption DEF WInv, WholeFile, OnDisk
<1>1. CASE UNCHANGED vars
  BY <1>1, SpentStays DEF vars, OnDisk, Saving, Claimer
<1>2. CASE Crash
  <2>1. OnDisk' = OnDisk
    BY <1>2 DEF Crash, OnDisk, WInv, WholeFile, TmpFile, NoOrphans, OrphanStages, TInv, TypeOK
  <2>2. QED
    BY <1>2, <2>1, SpentStays DEF Crash, Saving, Claimer, WriteStages
<1>3. ASSUME NEW p \in Procs, Create(p) PROVE SInv'
  <2>1. /\ \A q \in Procs : stage[q] = "idle"
        /\ stage' = [stage EXCEPT ![p] = "opening"]
        /\ request' = [request EXCEPT ![p] = Creating]
        /\ OnDisk = None /\ OnDisk' = None /\ won' = won /\ clock' = clock + 1
    BY <1>3 DEF Create, Begin, WInv, Fresh, files, OnDisk
  <2>2. buf'[p].stamp = clock + 1
    BY <1>3 DEF Create, NewDoc, TInv, TypeOK
  <2>3. \A q \in Procs : ~Saving(q)' /\ ~Claimer(q)' /\ (q # p => stage'[q] = "idle")
    BY <2>1 DEF Saving, Claimer, WriteStages, Creating, Saves, TInv, TypeOK
  <2>4. \A n : Spent(n)' => Spent(n)
    BY <2>1, <2>3 DEF Spent
  <2>5. ~Spent(clock + 1)
    BY DEF SInv, Past
  <2>6. Past'
    BY <2>1, <2>2, <2>3, <2>4 DEF SInv, Past, WriteStages
  <2>7. Apart' /\ OneWinner'
    BY <2>1, <2>3 DEF SInv, Apart, OneWinner
  <2>8. KeepsOrNew'
    BY <2>1, <2>2, <2>3, <2>4, <2>5 DEF KeepsOrNew, New, WriteStages
  <2>9. QED
    BY <2>6, <2>7, <2>8 DEF SInv
<1>4. ASSUME NEW p \in Procs, Locked(p) PROVE SInv'
  <2>0. PICK k \in {"save", "status", "title", "claim"}, org \in Orgs :
             \E r \in Asked(p, org)[k] :
               Begin(p, r, "locking") /\ clock' = IF k = "save" THEN clock + 1 ELSE clock
    BY <1>4 DEF Locked
  <2>1. PICK r \in Asked(p, org)[k] : Begin(p, r, "locking")
    BY <2>0
  <2>2. /\ stage[p] = "idle" /\ stage' = [stage EXCEPT ![p] = "locking"]
        /\ request' = [request EXCEPT ![p] = r]
        /\ OnDisk' = OnDisk /\ won' = won /\ buf' = buf
    BY <1>4, <2>1 DEF Locked, Begin, files, OnDisk
  <2>3. \A q \in Procs : /\ Claimer(q)' => Claimer(q) /\ request'[q] = request[q]
                         /\ stage'[q] \in WriteStages => /\ q # p /\ stage[q] \in WriteStages
                                                         /\ request'[q] = request[q]
                         /\ q # p => (Saving(q)' <=> Saving(q)) /\ request'[q] = request[q]
    BY <2>2 DEF Saving, Claimer, WriteStages, TInv, TypeOK
  <2>4. CASE k = "save"
    <3>1. r.stamp = clock + 1 /\ clock' = clock + 1
      BY <2>0, <2>1, <2>4 DEF Asked
    <3>2. request'[p] = r
      BY <2>2 DEF TInv, TypeOK
    <3>3. \A n : Spent(n)' => Spent(n)
      BY <2>2, <2>3 DEF Spent
    <3>4. ~Spent(clock + 1)
      BY DEF SInv, Past
    <3>5. Past'
      BY <2>2, <2>3, <3>1, <3>2, <3>3 DEF SInv, Past
    <3>6. Apart'
      <4>1. \A q \in Procs : Saving(q)' /\ q # p => request'[q].stamp # request'[p].stamp
        BY <2>3, <3>1, <3>2 DEF SInv, Past
      <4>2. \A q \in Procs : Saving(q)' =>
              ~Spent(request'[q].stamp) /\ (OnDisk # None => OnDisk.stamp # request'[q].stamp)
        BY <2>3, <3>1, <3>2, <3>4 DEF SInv, Past, Apart
      <4>3. QED
        BY <2>2, <2>3, <3>3, <4>1, <4>2 DEF SInv, Apart
    <3>7. KeepsOrNew'
      <4>1. ASSUME NEW q \in Procs, stage'[q] \in WriteStages PROVE Kept(q)' \/ New(q)'
        <5>1. q # p /\ stage[q] \in WriteStages /\ buf'[q] = buf[q] /\ request'[q] = request[q]
          BY <2>2, <2>3, <4>1
        <5>2. request'[p].stamp # buf[q].stamp
          BY <3>1, <3>2, <5>1 DEF SInv, Past
        <5>3. QED
          BY <2>2, <2>3, <3>3, <5>1, <5>2 DEF SInv, KeepsOrNew, Kept, New
      <4>2. QED
        BY <4>1 DEF KeepsOrNew
    <3>8. OneWinner'
      BY <2>2, <2>3 DEF SInv, OneWinner
    <3>9. QED
      BY <3>5, <3>6, <3>7, <3>8 DEF SInv
  <2>5. CASE k # "save"
    <3>1. r \notin Saves /\ clock' = clock
      BY <2>0, <2>1, <2>5 DEF Asked, Saves
    <3>2. ~Saving(p)'
      BY <2>2, <3>1 DEF Saving, TInv, TypeOK
    <3>3. QED
      BY <2>2, <2>3, <3>1, <3>2, SpentStays
  <2>6. QED
    BY <2>4, <2>5
<1>5. ASSUME NEW p \in Procs, Get(p) \/ Fetch(p) \/ Refuse(p) \/ Raise(p) PROVE SInv'
  BY <1>5, SpentStays
  DEF Get, Fetch, Refuse, Raise, Begin, Leave, files, OnDisk, Saving, Claimer, WriteStages,
      TInv, TypeOK
<1>5a. ASSUME NEW p \in Procs, Cancel(p) PROVE SInv'
  <2>1. Leave(p) /\ UNCHANGED <<files, won, clock>>
    BY <1>5a, CalmCancel
  <2>2. QED
    BY <2>1, SpentStays
    DEF Leave, files, OnDisk, Saving, Claimer, WriteStages, TInv, TypeOK
<1>6. ASSUME NEW p \in Procs, Read(p) \/ Submit(p) PROVE SInv'
  BY <1>6, SpentStays
  DEF Read, Submit, files, OnDisk, Saving, Claimer, WriteStages, TInv, TypeOK
<1>7. ASSUME NEW p \in Procs, Open(p) \/ Write(p) \/ JobFails(p) PROVE SInv'
  <2>1. OnDisk' = OnDisk
    BY <1>7 DEF Open, Write, JobFails, FreeInodes, OnDisk, WInv, WholeFile, TmpFile,
                NoOrphans, OrphanStages, TInv, TypeOK
  <2>2. QED
    BY <1>7, <2>1, SpentStays
    DEF Open, Write, JobFails, Saving, Claimer, WriteStages, WInv, NoOrphans, OrphanStages,
        TInv, TypeOK
<1>8. ASSUME NEW p \in Procs, Edit(p) PROVE SInv'
  <2>1. /\ stage[p] = "read" /\ stage' = [stage EXCEPT ![p] = "opening"]
        /\ request[p] \in Requests /\ request' = request /\ won' = won
        /\ OnDisk # None /\ OnDisk' = OnDisk /\ buf[p] = OnDisk
        /\ buf' = [buf EXCEPT ![p] = Edited(request[p], OnDisk, clock + 1)]
        /\ clock' = IF TakesTime(request[p]) THEN clock + 1 ELSE clock
    BY <1>0, <1>8 DEF Edit, files, OnDisk, WInv, Answer, OneWriter, TInv, CallOK
  <2>2. \A q \in Procs : /\ Saving(q)' <=> Saving(q)
                         /\ Claimer(q)' <=> Claimer(q)
                         /\ q # p => stage'[q] \notin WriteStages
    BY <2>1, OneAtATime DEF Saving, Claimer, WriteStages, WInv, TInv, TypeOK
  <2>3. \A n : Spent(n)' <=> Spent(n)
    BY <2>1, <2>2 DEF Spent
  <2>4. ~Spent(clock + 1) /\ \A q \in Procs : Saving(q) => request[q].stamp # clock + 1
    BY DEF SInv, Past
  <2>5. clock' >= clock /\ clock' \in Nat
    BY <2>1
  <2>6. buf'[p].stamp <= clock' /\ (Kept(p)' \/ New(p)')
    <3>0. buf'[p] = Edited(request[p], OnDisk, clock + 1)
      BY <2>1 DEF TInv, TypeOK
    <3>1. CASE request[p] \in Saves
      <4>1. buf'[p].stamp = request[p].stamp /\ Saving(p)
        BY <1>0, <2>1, <3>0, <3>1, EditedStamp DEF Saving
      <4>2. request[p].stamp <= clock /\ ~Spent(request[p].stamp)
            /\ OnDisk.stamp # request[p].stamp
        BY <2>1, <4>1 DEF SInv, Past, Apart
      <4>3. \A q \in Procs \ {p} : Saving(q) => request[q].stamp # request[p].stamp
        BY <4>1 DEF SInv, Apart
      <4>4. buf'[p].stamp <= clock'
        BY <2>5, <4>1, <4>2
      <4>5. New(p)'
        BY <2>1, <2>2, <2>3, <4>1, <4>2, <4>3 DEF New
      <4>6. QED
        BY <4>4, <4>5
    <3>2. CASE buf'[p].stamp = clock + 1 /\ clock' = clock + 1
      <4>1. New(p)'
        BY <2>1, <2>2, <2>3, <2>4, <3>2 DEF New, SInv, Past
      <4>2. QED
        BY <3>2, <4>1
    <3>3. CASE buf'[p].stamp = OnDisk.stamp /\ request[p] \notin Claims
      BY <2>1, <2>5, <3>3 DEF Kept, SInv, Past
    <3>4. CASE request[p] \in Marks
      <4>1. CASE request[p].status = "working"
        <5>1. buf'[p].stamp = clock + 1
          BY <1>0, <2>1, <3>0, <3>4, <4>1, EditedStamp
        <5>2. clock' = clock + 1
          BY <2>1, <3>4, <4>1 DEF TakesTime, Marks
        <5>3. QED
          BY <3>2, <5>1, <5>2
      <4>2. CASE request[p].status # "working"
        <5>1. buf'[p].stamp = OnDisk.stamp
          BY <1>0, <2>1, <3>0, <3>4, <4>2, EditedStamp
        <5>2. QED
          BY <3>3, <3>4, <5>1, KindsApart
      <4>3. QED
        BY <4>1, <4>2
    <3>5. CASE request[p] \in Titles
      <4>1. buf'[p].stamp = OnDisk.stamp
        BY <1>0, <2>1, <3>0, <3>5, EditedStamp
      <4>2. QED
        BY <3>3, <3>5, <4>1, KindsApart
    <3>6. CASE request[p] \in Claims
      <4>1. buf'[p].stamp = clock + 1
        BY <1>0, <2>1, <3>0, <3>6, EditedStamp
      <4>2. clock' = clock + 1
        BY <2>1, <3>6 DEF TakesTime, Claims
      <4>3. QED
        BY <3>2, <4>1, <4>2
    <3>7. QED
      BY <2>1, <3>1, <3>4, <3>5, <3>6 DEF Requests
  <2>7. Past'
    BY <2>1, <2>2, <2>3, <2>5, <2>6 DEF SInv, Past
  <2>8. Apart' /\ OneWinner'
    BY <2>1, <2>2, <2>3 DEF SInv, Apart, OneWinner
  <2>9. KeepsOrNew'
    BY <2>2, <2>6 DEF KeepsOrNew
  <2>10. QED
    BY <2>7, <2>8, <2>9 DEF SInv
<1>9. ASSUME NEW p \in Procs, Replace(p) PROVE SInv'
  <2>1. /\ stage[p] = "replacing" /\ stage' = [stage EXCEPT ![p] = "replaced"]
        /\ tmp # None /\ content[tmp] = buf[p] /\ request' = request
        /\ path' = tmp /\ content'[tmp] = content[tmp] /\ won' = won /\ clock' = clock
    BY <1>9 DEF Replace, WInv, NoOrphans, OrphanStages, TmpFile, WholeFile, TInv, TypeOK
  <2>2. OnDisk' = buf[p] /\ OnDisk' # None /\ OnDisk'.stamp <= clock
    BY <2>1, MarksApart DEF OnDisk, TInv, CallOK, WriteStages, SInv, Past
  <2>3. \A q \in Procs : /\ stage'[q] \notin WriteStages
                         /\ Saving(q)' => q # p /\ Saving(q)
                         /\ q # p => (Claimer(q)' <=> Claimer(q))
    BY <2>1, OneAtATime DEF Saving, Claimer, WriteStages, WInv, TInv, TypeOK
  <2>4. Kept(p) \/ New(p)
    BY <2>1 DEF SInv, KeepsOrNew, WriteStages
  <2>5. request[p] \in Claims =>
          OnDisk # None /\ request[p].expected = OnDisk.stamp /\ New(p)
    BY <2>1, <2>4 DEF WInv, Answer, Accepts, Matches, Requests, Claims, WriteStages, Kept
  <2>6. \A n : Spent(n)' => Spent(n) \/ (request[p] \in Claims /\ n = request[p].expected)
    BY <2>1, <2>3 DEF Spent, Claimer
  <2>7. Past'
    BY <2>1, <2>2, <2>3, <2>5, <2>6 DEF SInv, Past
  <2>8. Apart'
    <3>1. \A n : n = buf[p].stamp => ~Spent(n)'
      BY <2>4, <2>5, <2>6 DEF SInv, Apart, Kept, New
    <3>2. \A q \in Procs : Saving(q)' =>
            /\ Saving(q) /\ request'[q] = request[q]
            /\ \A n : n = request[q].stamp => ~Spent(n)' /\ n # buf[p].stamp
      <4>1. ASSUME NEW q \in Procs, Saving(q), q # p
            PROVE  \A n : n = request[q].stamp => ~Spent(n)' /\ n # buf[p].stamp
        BY <2>4, <2>5, <2>6, <4>1 DEF SInv, Apart, Kept, New
      <4>2. QED
        BY <2>1, <2>3, <4>1
    <3>3. QED
      BY <2>2, <3>1, <3>2 DEF SInv, Apart
  <2>9. OneWinner'
    <3>1. request[p] \in Claims => ~Spent(request[p].expected)
      BY <2>5 DEF SInv, Apart
    <3>2. QED
      BY <2>1, <2>3, <3>1 DEF SInv, OneWinner, Spent, Claimer
  <2>10. KeepsOrNew'
    BY <2>3 DEF KeepsOrNew
  <2>11. QED
    BY <2>7, <2>8, <2>9, <2>10 DEF SInv
<1>10. ASSUME NEW p \in Procs, Finish(p) PROVE SInv'
  <2>1. /\ stage[p] = "replaced" /\ stage' = [stage EXCEPT ![p] = "idle"]
        /\ request' = [request EXCEPT ![p] = None] /\ buf' = [buf EXCEPT ![p] = None]
        /\ OnDisk' = OnDisk /\ clock' = clock
    BY <1>10 DEF Finish, Leave, files, OnDisk
  <2>2. \A q \in Procs : /\ Saving(q)' => Saving(q) /\ request'[q] = request[q]
                         /\ Claimer(q)' => q # p /\ Claimer(q) /\ request'[q] = request[q]
                         /\ stage'[q] \in WriteStages =>
                              /\ stage[q] \in WriteStages
                              /\ request'[q] = request[q] /\ buf'[q] = buf[q]
    BY <2>1 DEF Saving, Claimer, WriteStages, TInv, TypeOK
  <2>3. CASE Claimer(p)
    <3>1. won' = [won EXCEPT ![p] = @ \cup {request[p].expected}]
      BY <1>10, <2>3 DEF Finish, Claimer, Claims
    <3>2. \A q \in Procs : won'[q] = IF q = p THEN won[p] \cup {request[p].expected} ELSE won[q]
      BY <3>1 DEF TInv, TypeOK
    <3>3. \A n : Spent(n)' => Spent(n)
      BY <2>2, <2>3, <3>2 DEF Spent
    <3>4. Past' /\ Apart' /\ KeepsOrNew'
      BY <2>1, <2>2, <3>3 DEF SInv, Past, Apart, KeepsOrNew, Kept, New
    <3>5. OneWinner'
      BY <2>2, <2>3, <3>2 DEF SInv, OneWinner
    <3>6. QED
      BY <3>4, <3>5 DEF SInv
  <2>4. CASE ~Claimer(p)
    <3>1. won' = won
      BY <1>10, <2>1, <2>4 DEF Finish, Claimer, TInv, TypeOK, CallOK, Requests, Saves, Marks,
                               Titles, Creating
    <3>2. QED
      BY <2>1, <2>2, <3>1, SpentStays
  <2>5. QED
    BY <2>3, <2>4
<1>11. QED
  BY <1>1, <1>2, <1>3, <1>4, <1>5, <1>5a, <1>6, <1>7, <1>8, <1>9, <1>10
     DEF Next, Coroutine, Thread

\* While no cancel leaves a write job behind, and the documents a server starts with
\* are older than anything it stores itself: two callers never win the turn with the
\* same last_message_at (claim_turn, conversation_store.py:112-134).
THEOREM StoreOneClaim ==
  ASSUME CalmAssumption, \A d \in Stored : d.stamp = 0
  PROVE  Spec => []OneClaimPerStamp
<1>1. TInv /\ WInv /\ SInv /\ [Next]_vars => (TInv /\ WInv /\ SInv)'
  BY TypeNext, WholeNext, SpentNext
<1>2. SInv => OneClaimPerStamp
  BY DEF SInv, OneWinner, OneClaimPerStamp
<1>3. QED
  BY TypeInit, WholeInit, SpentInit, <1>1, <1>2, PTL DEF Spec

=============================================================================
