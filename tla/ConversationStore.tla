-------------------------- MODULE ConversationStore --------------------------
(***************************************************************************)
(* LocalConversationStore (host/stores/conversation_store.py) on one       *)
(* conversation: the asyncio lock, the lock-free reads, and _write_doc's   *)
(* two worker-thread jobs - write the .tmp file, rename it over the        *)
(* document - with the interleavings asyncio and the thread pool allow.    *)
(*                                                                         *)
(* A coroutine step (Acquire is folded in the queue order, Edit, Finish)   *)
(* runs on the event loop; a thread step (Read, Open, Write, Replace) runs *)
(* whenever the pool schedules it.  Cancelling a coroutine does not stop   *)
(* the job its thread is running: the lock is released at once while the   *)
(* job goes on (stages "orphan...").  A crash forgets every coroutine,     *)
(* lock and thread and leaves the files.                                   *)
(***************************************************************************)
EXTENDS ConversationDocument, SequencesExt

CONSTANTS Procs,        \* coroutines calling the store
          Kinds,        \* Kinds[p]: the operations p calls
          Cancellable,  \* the coroutines that may be cancelled (turn tasks)
          CancelAt,     \* the stages of a call at which that happens
          Puts,         \* bound: the statuses that calls bring
          Stored,       \* the documents a server may find when it starts
          Inodes,       \* file identities
          MaxCalls,     \* bound: calls made in a behaviour
          MaxFaults,    \* bound: write jobs that raise (disk full, I/O error)
          MaxCrashes    \* bound: process crashes

\* What a file that is no document holds, and the requests without a field.
Empty    == [kind |-> "empty"]
Torn     == [kind |-> "torn"]
Creating == [kind |-> "create"]
Getting  == [kind |-> "get"]

\* The stages of the jobs that write, from the open to the rename.
WriteStages == {"opening", "writing", "written", "replacing"}
OrphanStages == {"orphanOpening", "orphanWriting", "orphanReplacing"}
Stages == {"idle", "fetching", "locking", "read", "replaced", "failed"}
            \cup WriteStages \cup OrphanStages

ASSUME ProcsAssumption == /\ Cancellable \subseteq Procs
                          /\ CancelAt \subseteq Stages \ ({"idle"} \cup OrphanStages)
                          /\ Stored \subseteq Docs /\ Puts \subseteq Statuses
                          /\ None \notin Inodes
                          /\ None \notin {Empty, Torn, Creating, Getting}

VARIABLES path,     \* inode of <id>.json, or None
          tmp,      \* inode of <id>.tmp, or None
          content,  \* content[i]: a document, "empty" or "torn"
          lockQ,    \* the lock's holder, then its waiters in order
          stage,    \* stage[p]: where p's call is
          request,  \* request[p]: what p asked for
          buf,      \* buf[p]: the document p holds in memory
          fd,       \* fd[p]: inode p's write_text has open
          seen,     \* seen[p]: the document p's last lock-free read returned
          won,      \* won[p]: the stamps p's successful claims expected
          clock,    \* utcnow(), one tick per stamp taken
          calls, faults, crashes

files == <<path, tmp, content>>
mine  == <<stage, request, buf, fd>>
vars  == <<path, tmp, content, lockQ, stage, request, buf, fd, seen, won,
           clock, calls, faults, crashes>>

TypeOK ==
  /\ path \in Inodes \cup {None}
  /\ tmp \in Inodes \cup {None}
  /\ content \in [Inodes -> Docs \cup {Empty, Torn}]
  /\ lockQ \in Seq(Procs)
  /\ stage \in [Procs -> Stages]
  /\ request \in [Procs -> Requests \cup {None, Creating, Getting}]
  /\ buf \in [Procs -> Docs \cup {None}]
  /\ fd \in [Procs -> Inodes \cup {None}]
  /\ seen \in [Procs -> Docs \cup {None}]
  /\ won \in [Procs -> SUBSET Nat]
  /\ clock \in Nat /\ calls \in Nat /\ faults \in Nat /\ crashes \in Nat

Init ==
  /\ tmp = None
  /\ \/ path = None /\ content = [i \in Inodes |-> Empty]
     \/ \E i \in Inodes, d \in Stored :
          path = i /\ content = [j \in Inodes |-> IF j = i THEN d ELSE Empty]
  /\ lockQ = <<>>
  /\ stage = [p \in Procs |-> "idle"]
  /\ request = [p \in Procs |-> None]
  /\ buf = [p \in Procs |-> None]
  /\ fd = [p \in Procs |-> None]
  /\ seen = [p \in Procs |-> None]
  /\ won = [p \in Procs |-> {}]
  /\ clock = 0 /\ calls = 0 /\ faults = 0 /\ crashes = 0

Holds(p) == lockQ # <<>> /\ Head(lockQ) = p

\* The document a reader of <id>.json gets; None when there is no file.
OnDisk == IF path = None THEN None ELSE content[path]

Readable == OnDisk \notin {Empty, Torn}

-----------------------------------------------------------------------------
(* Calls *)

Begin(p, r, s) ==
  /\ stage[p] = "idle"
  /\ calls < MaxCalls
  /\ calls' = calls + 1
  /\ request' = [request EXCEPT ![p] = r]
  /\ stage' = [stage EXCEPT ![p] = s]
  /\ UNCHANGED <<files, fd, won, faults, crashes>>

\* create() writes the first document without the lock: its fresh id is not
\* known to anyone until the rename.
Create(p) ==
  /\ "create" \in Kinds[p]
  /\ path = None /\ tmp = None /\ calls = 0
  /\ Begin(p, Creating, "opening")
  /\ \E org \in Orgs : buf' = [buf EXCEPT ![p] = NewDoc(org, clock + 1)]
  /\ clock' = clock + 1
  /\ UNCHANGED <<lockQ, seen>>

\* get(), load(), list_durable_events(): one read without the lock.
Get(p) ==
  /\ "get" \in Kinds[p]
  /\ path # None
  /\ Begin(p, Getting, "fetching")
  /\ UNCHANGED <<lockQ, buf, seen, clock>>

\* The requests p can make now.  A save was given its time by the caller; a
\* claim repeats the status and stamp of the document p saw, which send_message
\* only makes when that status was not "working".
Asked(p, org) ==
  [save   |-> {[kind |-> "save", org |-> org, status |-> s, ctx |-> c,
                stamp |-> clock + 1] : s \in Puts, c \in Contexts},
   status |-> {[kind |-> "status", org |-> org, status |-> s] : s \in Puts},
   title  |-> {[kind |-> "title", org |-> org, title |-> c] : c \in Contexts},
   claim  |-> IF seen[p] = None \/ seen[p].status = "working" THEN {}
              ELSE {[kind |-> "claim", org |-> org, allowed |-> seen[p].status,
                     expected |-> seen[p].stamp]}]

\* save(), update_status(), update_title(), claim_turn(): join the lock.
Locked(p) ==
  /\ path # None
  /\ \E k \in Kinds[p] \cap {"save", "status", "title", "claim"}, org \in Orgs :
       \E r \in Asked(p, org)[k] :
         /\ Begin(p, r, "locking")
         /\ clock' = IF k = "save" THEN clock + 1 ELSE clock
  /\ lockQ' = Append(lockQ, p)
  /\ UNCHANGED <<buf, seen>>

-----------------------------------------------------------------------------
(* Leaving a call *)

\* async with lock: __aexit__ wakes the next waiter.
Release(p) == lockQ' = IF Holds(p) THEN Tail(lockQ) ELSE lockQ

Leave(p) ==
  /\ stage' = [stage EXCEPT ![p] = "idle"]
  /\ request' = [request EXCEPT ![p] = None]
  /\ buf' = [buf EXCEPT ![p] = None]
  /\ fd' = [fd EXCEPT ![p] = None]

-----------------------------------------------------------------------------
(* Reading *)

\* read_text in a worker thread, then json.loads: an unreadable file raises.
Fetch(p) ==
  /\ stage[p] = "fetching"
  /\ Leave(p)
  /\ seen' = [seen EXCEPT ![p] = IF Readable THEN OnDisk ELSE None]
  /\ UNCHANGED <<files, lockQ, won, clock, calls, faults, crashes>>

Read(p) ==
  /\ stage[p] = "locking" /\ Holds(p)
  /\ IF Readable
     THEN /\ stage' = [stage EXCEPT ![p] = "read"]
          /\ buf' = [buf EXCEPT ![p] = OnDisk]
     ELSE /\ stage' = [stage EXCEPT ![p] = "failed"]
          /\ UNCHANGED buf
  /\ UNCHANGED <<files, lockQ, request, fd, seen, won, clock, calls, faults,
                 crashes>>

TakesTime(r) == r.kind = "claim" \/ (r.kind = "status" /\ r.status = "working")

\* Bug: a caller that read the document before it asked for the lock writes
\* that one back.
BugEdit(p) ==
  /\ stage[p] = "read"
  /\ Accepts(request[p], buf[p])
  /\ stage' = [stage EXCEPT ![p] = "opening"]
  /\ buf' = [buf EXCEPT ![p] =
               Edited(request[p], IF seen[p] = None THEN @ ELSE seen[p], clock + 1)]
  /\ clock' = IF TakesTime(request[p]) THEN clock + 1 ELSE clock
  /\ UNCHANGED <<files, lockQ, request, fd, seen, won, calls, faults, crashes>>

\* The coroutine resumes: its checks, then the new document.
Edit(p) ==
  /\ stage[p] = "read"
  /\ Accepts(request[p], buf[p])
  /\ stage' = [stage EXCEPT ![p] = "opening"]
  /\ buf' = [buf EXCEPT ![p] = Edited(request[p], buf[p], clock + 1)]
  /\ clock' = IF TakesTime(request[p]) THEN clock + 1 ELSE clock
  /\ UNCHANGED <<files, lockQ, request, fd, seen, won, calls, faults, crashes>>

\* save raises OrgScopingError; the others return without writing.
Refuse(p) ==
  /\ stage[p] = "read"
  /\ ~Accepts(request[p], buf[p])
  /\ Leave(p)
  /\ Release(p)
  /\ UNCHANGED <<files, seen, won, clock, calls, faults, crashes>>

-----------------------------------------------------------------------------
(* Writing: to_thread(tmp.write_text), then to_thread(tmp.replace, path) *)

FreeInodes == Inodes \ ({path, tmp} \cup {fd[q] : q \in Procs})

\* Bug: the document itself is opened for writing.
BugOpen(p) ==
  /\ stage[p] = "opening"
  /\ \E i \in IF path = None THEN FreeInodes ELSE {path} :
       /\ tmp' = i
       /\ content' = [content EXCEPT ![i] = Empty]
       /\ fd' = [fd EXCEPT ![p] = i]
  /\ stage' = [stage EXCEPT ![p] = "writing"]
  /\ UNCHANGED <<path, lockQ, request, buf, seen, won, clock, calls, faults,
                 crashes>>

\* open(tmp, "w"): truncate the .tmp file that is there, or make one.
Open(p) ==
  /\ stage[p] \in {"opening", "orphanOpening"}
  /\ \E i \in IF tmp = None THEN FreeInodes ELSE {tmp} :
       /\ tmp' = i
       /\ content' = [content EXCEPT ![i] = Empty]
       /\ fd' = [fd EXCEPT ![p] = i]
  /\ stage' = [stage EXCEPT ![p] =
                 IF @ = "opening" THEN "writing" ELSE "orphanWriting"]
  /\ UNCHANGED <<path, lockQ, request, buf, seen, won, clock, calls, faults,
                 crashes>>

\* Some other thread is writing, or wrote, the file p has open.
Shared(p) ==
  \/ content[fd[p]] # Empty
  \/ \E q \in Procs \ {p} :
       fd[q] = fd[p] /\ stage[q] \in {"writing", "orphanWriting"}

\* The payload lands in the open file.  Two writers of one file may leave
\* one's text overlaid on the other's.
Write(p) ==
  /\ stage[p] \in {"writing", "orphanWriting"}
  /\ \E d \in {buf[p]} \cup (IF Shared(p) THEN {Torn} ELSE {}) :
       content' = [content EXCEPT ![fd[p]] = d]
  /\ IF stage[p] = "writing"
     THEN /\ stage' = [stage EXCEPT ![p] = "written"]
          /\ UNCHANGED <<request, buf, fd>>
     ELSE Leave(p)
  /\ UNCHANGED <<path, tmp, lockQ, seen, won, clock, calls, faults, crashes>>

\* The coroutine resumes and submits the rename.
Submit(p) ==
  /\ stage[p] = "written"
  /\ stage' = [stage EXCEPT ![p] = "replacing"]
  /\ UNCHANGED <<files, lockQ, request, buf, fd, seen, won, clock, calls,
                 faults, crashes>>

\* os.replace; it raises FileNotFoundError when the .tmp file is gone.
Replace(p) ==
  /\ stage[p] \in {"replacing", "orphanReplacing"}
  /\ IF tmp = None
     THEN UNCHANGED files
     ELSE /\ path' = tmp /\ tmp' = None
          /\ content' = IF path = None THEN content
                        ELSE [content EXCEPT ![path] = Empty] \* unlinked
  /\ IF stage[p] = "replacing"
     THEN /\ stage' = [stage EXCEPT ![p] =
                         IF tmp = None THEN "failed" ELSE "replaced"]
          /\ UNCHANGED <<request, buf, fd>>
     ELSE Leave(p)
  /\ UNCHANGED <<lockQ, seen, won, clock, calls, faults, crashes>>

\* A job raises: the write may have left part of its text behind.
JobFails(p) ==
  /\ stage[p] \in {"opening", "writing", "replacing"}
  /\ faults < MaxFaults
  /\ faults' = faults + 1
  /\ content' = IF stage[p] = "writing"
                THEN [content EXCEPT ![fd[p]] = Torn] ELSE content
  /\ stage' = [stage EXCEPT ![p] = "failed"]
  /\ UNCHANGED <<path, tmp, lockQ, request, buf, fd, seen, won, clock, calls,
                 crashes>>

-----------------------------------------------------------------------------
(* The end of a call, cancellation, crash *)

Finish(p) ==
  /\ stage[p] = "replaced"
  /\ won' = IF request[p].kind = "claim"
            THEN [won EXCEPT ![p] = @ \cup {request[p].expected}] ELSE won
  /\ Leave(p)
  /\ Release(p)
  /\ UNCHANGED <<files, seen, clock, calls, faults, crashes>>

Raise(p) ==
  /\ stage[p] = "failed"
  /\ Leave(p)
  /\ Release(p)
  /\ UNCHANGED <<files, seen, won, clock, calls, faults, crashes>>

\* What is left of a cancelled call: a job still queued may be withdrawn, one
\* that its thread started runs to its end.
AfterCancel ==
  [s \in Stages |->
     CASE s = "opening"   -> {"idle", "orphanOpening"}
       [] s = "writing"   -> {"orphanWriting"}
       [] s = "replacing" -> {"idle", "orphanReplacing"}
       [] OTHER           -> {"idle"}]

\* Bug: a cancelled call keeps its place in the lock.
BugCancel(p) ==
  /\ p \in Cancellable /\ stage[p] \in CancelAt
  /\ Leave(p)
  /\ UNCHANGED <<files, lockQ, seen, won, clock, calls, faults, crashes>>

\* task.cancel(): CancelledError is thrown at the call's await and the lock is
\* given up, or the waiter leaves the queue.
Cancel(p) ==
  /\ p \in Cancellable /\ stage[p] \in CancelAt
  /\ \/ p \notin ToSet(lockQ) /\ UNCHANGED lockQ
     \/ \E i \in DOMAIN lockQ : lockQ[i] = p /\ lockQ' = RemoveAt(lockQ, i)
  /\ \E s \in AfterCancel[stage[p]] :
       IF s = "idle" THEN Leave(p)
       ELSE /\ stage' = [stage EXCEPT ![p] = s]
            /\ UNCHANGED <<request, buf, fd>>
  /\ UNCHANGED <<files, seen, won, clock, calls, faults, crashes>>

Crash ==
  /\ crashes < MaxCrashes
  /\ crashes' = crashes + 1
  /\ lockQ' = <<>>
  /\ stage' = [p \in Procs |-> "idle"]
  /\ request' = [p \in Procs |-> None]
  /\ buf' = [p \in Procs |-> None]
  /\ fd' = [p \in Procs |-> None]
  /\ seen' = [p \in Procs |-> None]
  /\ content' = [i \in Inodes |->
        IF \E p \in Procs : fd[p] = i /\ stage[p] \in {"writing", "orphanWriting"}
        THEN Torn ELSE content[i]]
  /\ UNCHANGED <<path, tmp, won, clock, calls, faults>>

-----------------------------------------------------------------------------

Coroutine(p) == Edit(p) \/ Refuse(p) \/ Submit(p) \/ Finish(p) \/ Raise(p)

Thread(p) == Fetch(p) \/ Read(p) \/ Open(p) \/ Write(p) \/ Replace(p)

Next ==
  \/ Crash
  \/ \E p \in Procs :
       \/ Create(p) \/ Get(p) \/ Locked(p)
       \/ Coroutine(p) \/ Thread(p)
       \/ JobFails(p) \/ Cancel(p)

Spec == Init /\ [][Next]_vars

\* The event loop runs every ready coroutine and the pool every job.
FairSpec == Spec /\ \A p \in Procs : WF_vars(Coroutine(p)) /\ WF_vars(Thread(p))

-----------------------------------------------------------------------------
(* Properties *)

\* Whoever reads <id>.json, at any instant, crash or failed write included,
\* reads one whole document: _write_doc's write-then-rename (180-185).
DiskIsJson == OnDisk \notin {Empty, Torn}

\* Of the callers that saw the same last_message_at only one wins the turn:
\* claim_turn's compare-and-set (112-134).
OneClaimPerStamp ==
  \A p, q \in Procs : p # q => won[p] \cap won[q] = {}

\* generate_title's title, once stored, survives every save, claim and status
\* change that overlaps it: saves rewrite the document they read under the
\* lock (31-43) and update_title never replaces a title (55-61).
TitleKept ==
  DiskIsJson /\ OnDisk # None /\ OnDisk.title # None
    => DiskIsJson' /\ OnDisk'.title = OnDisk.title

TitleSticks == [][TitleKept]_vars

\* Every call comes back - its result, an exception or its cancellation - and
\* no cancelled, refused or failed call keeps the lock from the others.
EveryCallEnds == \A p \in Procs : stage[p] # "idle" ~> stage[p] = "idle"

\* What p's call still owes: nothing, its effect, or its return.
Pending ==
  [p \in Procs |-> IF stage[p] \in {"idle", "fetching"} THEN None
                   ELSE IF stage[p] = "replaced" THEN [kind |-> "done"]
                   ELSE request[p]]

Promised == INSTANCE AtomicDocument WITH doc <- OnDisk, pending <- Pending

\* The store is atomic: each operation acts once, on the document of that
\* instant, and a call that raises acts not at all (31-61, 112-134, 180-185).
Atomic == Promised!ASpec

=============================================================================
