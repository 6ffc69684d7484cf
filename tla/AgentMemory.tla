----------------------------- MODULE AgentMemory -----------------------------
(***************************************************************************)
(* What an agent remembers: the scratchpad of each conversation, and the   *)
(* memory file that the conversations share (FileMemoryStore).  A turn     *)
(* reads the file into its prompt; edit_memory notes something in the      *)
(* scratchpad and saves it in the file, under an asyncio lock: read the    *)
(* file, write memory.tmp, rename it.                                      *)
(*                                                                         *)
(* The calls of one message are begun in their order (asyncio.gather), and *)
(* a call makes its note and joins the lock before its first await: Call   *)
(* is both.  A cancelled turn gives the lock up, but the job that a worker *)
(* thread has begun goes on ("orphan..."), as in ConversationStore; only   *)
(* the lock's holder has a job, so a cancel leaves one behind at most.  A  *)
(* conversation's document is saved atomically here.  A read of the file   *)
(* does not fail, and delete_memory, which nothing calls, is left out.     *)
(***************************************************************************)
EXTENDS Scratchpad

CONSTANTS Convs,      \* conversations of one agent
          Slots,      \* places in a message with parallel calls, 1 .. n
          Keys,       \* the dotted keys that calls name
          Batches,    \* the calls of one message: sequences of edits
          MaxEdits,   \* bound: calls of edit_memory
          MaxTurns,   \* bound: turns
          MaxFaults,  \* bound: write jobs that raise
          MaxCancels, \* bound: turns cancelled
          MaxCrashes, \* bound: restarts of the process
          None, Empty, Torn \* no file; a file that was just opened; a garbled one

Edits == [path: Keys, value: Values, persist: BOOLEAN]

ASSUME MemoryAssumption ==
  /\ Keys \subseteq Paths
  /\ Batches \subseteq Seq(Edits)
  /\ \A b \in Batches : DOMAIN b \subseteq Slots
  /\ Slots \subseteq Nat
  /\ None \notin Convs /\ None \notin Edits

\* What is on disk when there is no document is none.
ASSUME MarksAssumption ==
  \A S \in SUBSET Keys : \A m \in {None, Empty, Torn} : m \notin [S -> Values]

VARIABLES main,    \* what memory.json holds
          tmp,     \* what memory.tmp holds
          lockQ,   \* FileMemoryStore._lock: its holder, then its waiters
          save,    \* save[p]: the save of call p, or a job that outlived one
          turn,    \* turn[c]: "off", "prompt", "on", or "tools" while calls run
          todo,    \* todo[c]: the calls of its message that are still to begin
          pad,     \* pad[c]: the scratchpad of c's turn
          saved,   \* saved[c]: the scratchpad in c's document
          shown,   \* shown[c]: the memories in the turn's prompt
          told,    \* the keys that a call answered as persisted
          latest,  \* the last value asked to be saved under a key
          clean,   \* no save has failed or been cut off
          mixed,   \* a save began while a cancelled one's job was at work
          edits, turns, faults, cancels, crashes

files  == <<main, tmp>>
bounds == <<edits, turns, faults, cancels, crashes>>
talk   == <<turn, todo, pad, saved, shown>>
vars   == <<files, lockQ, save, talk, told, latest, clean, mixed, bounds>>

Calls == Convs \X Slots
Left  == {<<None, n>> : n \in 1 .. MaxCancels}
Procs == Calls \cup Left

Stages == {"idle", "locking", "opening", "writing", "renaming", "renamed", "failed"}
Orphans == {"orphanOpening", "orphanWriting", "orphanRenaming"}

\* A document: the saved values, by key.
IsDoc(d) == /\ d = [k \in DOMAIN d |-> d[k]]
            /\ \A k \in DOMAIN d : k \in Keys /\ d[k] \in Values

Idle == [stage |-> "idle", edit |-> None, doc |-> None, fd |-> "none"]

TypeOK ==
  /\ main \in {None, Empty, Torn} \/ IsDoc(main)
  /\ tmp \in {None, Empty, Torn} \/ IsDoc(tmp)
  /\ lockQ \in Seq(Calls)
  /\ \A p \in Procs :
       /\ save[p].stage \in Stages \cup Orphans
       /\ save[p].edit \in Edits \cup {None}
       /\ save[p].doc = None \/ IsDoc(save[p].doc)
       /\ save[p].fd \in {"none", "tmp", "main", "gone"}
       /\ save[p].stage \in {"idle", "locking"} \/ save[p].doc # None
  /\ \A c \in Convs :
       /\ turn[c] \in {"off", "prompt", "on", "tools"}
       /\ todo[c] \in Seq(Edits)
       /\ IsPad(pad[c]) /\ IsPad(saved[c]) /\ IsDoc(shown[c])
  /\ told \subseteq Keys /\ IsDoc(latest) /\ clean \in BOOLEAN /\ mixed \in BOOLEAN

Init ==
  /\ main = None /\ tmp = None /\ lockQ = <<>>
  /\ save = [p \in Procs |-> Idle]
  /\ turn = [c \in Convs |-> "off"] /\ todo = [c \in Convs |-> <<>>]
  /\ pad = [c \in Convs |-> <<>>] /\ saved = [c \in Convs |-> <<>>]
  /\ shown = [c \in Convs |-> <<>>]
  /\ told = {} /\ latest = <<>> /\ clean = TRUE /\ mixed = FALSE
  /\ edits = 0 /\ turns = 0 /\ faults = 0 /\ cancels = 0 /\ crashes = 0

\* _read_doc: no file, or one that is no JSON, is an empty memory.
Memory == IF main \in {None, Empty, Torn} THEN <<>> ELSE main

Put(doc, k, v) == [q \in DOMAIN doc \cup {k} |-> IF q = k THEN v ELSE doc[q]]

Holds(p) == lockQ # <<>> /\ Head(lockQ) = p

At(p, s) == save[p].stage = s

-----------------------------------------------------------------------------
(* A turn *)

StartTurn(c) ==
  /\ turn[c] = "off" /\ turns < MaxTurns /\ turns' = turns + 1
  /\ turn' = [turn EXCEPT ![c] = "prompt"]
  /\ UNCHANGED <<files, lockQ, save, todo, pad, saved, shown, told, latest, clean,
                 mixed, edits, faults, cancels, crashes>>

\* load_memories takes no lock; then restore_state.
Recall(c) ==
  /\ turn[c] = "prompt"
  /\ turn' = [turn EXCEPT ![c] = "on"]
  /\ shown' = [shown EXCEPT ![c] = Memory]
  /\ pad' = [pad EXCEPT ![c] = saved[c]]
  /\ UNCHANGED <<files, lockQ, save, todo, saved, told, latest, clean, mixed, bounds>>

Ask(c) ==
  /\ turn[c] = "on"
  /\ \E b \in Batches :
       /\ edits + Len(b) <= MaxEdits /\ edits' = edits + Len(b)
       /\ todo' = [todo EXCEPT ![c] = b]
  /\ turn' = [turn EXCEPT ![c] = "tools"]
  /\ UNCHANGED <<files, lockQ, save, pad, saved, shown, told, latest, clean, mixed,
                 turns, faults, cancels, crashes>>

\* A call notes its value, and goes on to save it if it is to and nothing was
\* wrong.
Call(p) ==
  LET c == p[1] IN
  /\ p \in Calls /\ todo[c] # <<>>
  /\ p[2] = Len(todo[c])
  /\ LET e == Head(todo[c]) IN
     /\ pad' = [pad EXCEPT ![c] = Edited(@, e.path, e.value)]
     /\ IF e.persist /\ Succeeds(pad[c], e.path, e.value)
        THEN /\ lockQ' = Append(lockQ, p)
             /\ save' = [save EXCEPT ![p] = [Idle EXCEPT !.stage = "locking", !.edit = e]]
             /\ latest' = Put(latest, e.path, e.value)
        ELSE UNCHANGED <<lockQ, save, latest>>
  /\ todo' = [todo EXCEPT ![c] = Tail(@)]
  /\ UNCHANGED <<files, turn, saved, shown, told, clean, mixed, bounds>>

\* gather returns; the results are saved with the scratchpad.
Answered(c) ==
  /\ turn[c] = "tools" /\ todo[c] = <<>>
  /\ \A i \in Slots : At(<<c, i>>, "idle")
  /\ turn' = [turn EXCEPT ![c] = "on"]
  /\ saved' = [saved EXCEPT ![c] = pad[c]]
  /\ UNCHANGED <<files, lockQ, save, todo, pad, shown, told, latest, clean, mixed, bounds>>

\* The turn's state is gone.
Forget(C) ==
  /\ turn' = [c \in Convs |-> IF c \in C THEN "off" ELSE turn[c]]
  /\ todo' = [c \in Convs |-> IF c \in C THEN <<>> ELSE todo[c]]
  /\ pad' = [c \in Convs |-> IF c \in C THEN <<>> ELSE pad[c]]
  /\ shown' = [c \in Convs |-> IF c \in C THEN <<>> ELSE shown[c]]

EndTurn(c) ==
  /\ turn[c] = "on"
  /\ Forget({c})
  /\ UNCHANGED <<files, lockQ, save, saved, told, latest, clean, mixed, bounds>>

-----------------------------------------------------------------------------
(* save_memory *)

\* Bug: the file is read without the lock.
BugRead(p) ==
  /\ At(p, "locking")
  /\ save' = [save EXCEPT ![p].stage = "opening",
                ![p].doc = Put(Memory, save[p].edit.path, save[p].edit.value)]
  /\ mixed' = (mixed \/ \E q \in Procs : save[q].stage \in Orphans)
  /\ UNCHANGED <<files, lockQ, talk, told, latest, clean, bounds>>

\* The file is read and the value put into it.
Read(p) ==
  /\ At(p, "locking") /\ Holds(p)
  /\ save' = [save EXCEPT ![p].stage = "opening",
                ![p].doc = Put(Memory, save[p].edit.path, save[p].edit.value)]
  /\ mixed' = (mixed \/ \E q \in Procs : save[q].stage \in Orphans)
  /\ UNCHANGED <<files, lockQ, talk, told, latest, clean, bounds>>

\* Bug: memory.json itself is opened.
BugOpen(p) ==
  /\ save[p].stage \in {"opening", "orphanOpening"}
  /\ main' = Empty
  /\ save' = [save EXCEPT ![p].fd = "main",
       ![p].stage = IF @ = "opening" THEN "writing" ELSE "orphanWriting"]
  /\ UNCHANGED <<tmp, lockQ, talk, told, latest, clean, mixed, bounds>>

\* tmp.write_text opens the file, and empties one that is there...
Open(p) ==
  /\ save[p].stage \in {"opening", "orphanOpening"}
  /\ tmp' = Empty
  /\ save' = [save EXCEPT ![p].fd = "tmp",
       ![p].stage = IF @ = "opening" THEN "writing" ELSE "orphanWriting"]
  /\ UNCHANGED <<main, lockQ, talk, told, latest, clean, mixed, bounds>>

\* Another job has the same file open, or wrote it since p opened it.
Shared(p) ==
  \/ save[p].fd = "tmp" /\ tmp # Empty
  \/ save[p].fd = "main" /\ main # Empty
  \/ \E q \in Procs \ {p} :
       save[q].fd = save[p].fd /\ save[q].stage \in {"writing", "orphanWriting"}

\* ... and writes it: two texts in one file may overlay each other.
Write(p) ==
  /\ save[p].stage \in {"writing", "orphanWriting"}
  /\ \E d \in {save[p].doc} \cup (IF Shared(p) THEN {Torn} ELSE {}) :
       /\ tmp' = IF save[p].fd = "tmp" THEN d ELSE tmp
       /\ main' = IF save[p].fd = "main" THEN d ELSE main
  /\ save' = [save EXCEPT ![p] =
       IF @.stage = "writing" THEN [@ EXCEPT !.stage = "renaming", !.fd = "none"]
       ELSE Idle]
  /\ UNCHANGED <<lockQ, talk, told, latest, clean, mixed, bounds>>

\* tmp.replace: files that are open stay open under their new name.
Rename(p) ==
  /\ save[p].stage \in {"renaming", "orphanRenaming"}
  /\ IF tmp = None THEN UNCHANGED files ELSE main' = tmp /\ tmp' = None
  /\ LET moved(fd) == IF tmp = None THEN fd
                      ELSE [none |-> "none", tmp |-> "main",
                            main |-> "gone", gone |-> "gone"][fd]
     IN save' = [q \in Procs |->
          IF q # p THEN [save[q] EXCEPT !.fd = moved(@)]
          ELSE IF ~At(p, "renaming") THEN Idle
          ELSE [save[p] EXCEPT !.stage = IF tmp = None THEN "failed" ELSE "renamed"]]
  /\ UNCHANGED <<lockQ, talk, told, latest, clean, mixed, bounds>>

\* A job raises OSError, the write perhaps halfway.
JobFails(p) ==
  /\ save[p].stage \in {"opening", "writing", "renaming"}
  /\ faults < MaxFaults /\ faults' = faults + 1
  /\ tmp' = IF At(p, "writing") /\ save[p].fd = "tmp" THEN Torn ELSE tmp
  /\ main' = IF At(p, "writing") /\ save[p].fd = "main" THEN Torn ELSE main
  /\ save' = [save EXCEPT ![p].stage = "failed", ![p].fd = "none"]
  /\ UNCHANGED <<lockQ, talk, told, latest, clean, mixed,
                 edits, turns, cancels, crashes>>

\* Bug: the answer does not look at the outcome.
BugFinish(p) ==
  /\ save[p].stage \in {"renamed", "failed"}
  /\ save' = [save EXCEPT ![p] = Idle]
  /\ lockQ' = Tail(lockQ)
  /\ told' = told \cup {save[p].edit.path}
  /\ clean' = (clean /\ At(p, "renamed"))
  /\ UNCHANGED <<files, talk, latest, mixed, bounds>>

\* The end of the call: the lock is passed on, and an exception is swallowed.
Finish(p) ==
  /\ save[p].stage \in {"renamed", "failed"}
  /\ save' = [save EXCEPT ![p] = Idle]
  /\ lockQ' = Tail(lockQ)
  /\ told' = IF At(p, "renamed") THEN told \cup {save[p].edit.path} ELSE told
  /\ clean' = (clean /\ At(p, "renamed"))
  /\ UNCHANGED <<files, talk, latest, mixed, bounds>>

-----------------------------------------------------------------------------
(* Cancellation and restarts *)

\* A job that waits for a thread may be withdrawn, one at work goes on.
AfterCancel(s) ==
  {t \in Orphans \cup {"idle"} :
     \/ t = "idle" /\ s # "writing"
     \/ t = "orphanOpening" /\ s = "opening"
     \/ t = "orphanWriting" /\ s = "writing"
     \/ t = "orphanRenaming" /\ s = "renaming"}

\* Bug: a cancelled call keeps its place in the lock.
BugCancel(c) ==
  /\ turn[c] # "off" /\ cancels < MaxCancels /\ cancels' = cancels + 1
  /\ Forget({c})
  /\ save' = [p \in Procs |-> IF p[1] = c THEN Idle ELSE save[p]]
  /\ clean' = (clean /\ \A i \in Slots : At(<<c, i>>, "idle"))
  /\ UNCHANGED <<files, lockQ, saved, told, latest, mixed, edits, turns, faults,
                 crashes>>

\* The queue of the lock without the calls of c.
Others(q, c) ==
  LET kept == {i \in DOMAIN q : q[i][1] # c}
  IN [n \in 1 .. Cardinality(kept) |->
        q[CHOOSE i \in kept : Cardinality({j \in kept : j <= i}) = n]]

Cancel(c) ==
  /\ turn[c] # "off" /\ cancels < MaxCancels /\ cancels' = cancels + 1
  /\ Forget({c})
  /\ lockQ' = Others(lockQ, c)
  /\ LET rest == [p \in Procs |-> IF p[1] = c THEN Idle ELSE save[p]]
         held == lockQ # <<>> /\ Head(lockQ)[1] = c
         own  == save[Head(lockQ)]
     IN \E s \in IF held THEN AfterCancel(own.stage) ELSE {"idle"} :
          save' = IF s = "idle" THEN rest
                  ELSE [rest EXCEPT ![<<None, cancels'>>] = [own EXCEPT !.stage = s]]
  /\ clean' = (clean /\ \A i \in Slots : At(<<c, i>>, "idle"))
  /\ UNCHANGED <<files, saved, told, latest, mixed, edits, turns, faults, crashes>>

Crash ==
  /\ crashes < MaxCrashes /\ crashes' = crashes + 1
  /\ lockQ' = <<>>
  /\ save' = [p \in Procs |-> Idle]
  /\ Forget(Convs)
  /\ clean' = (clean /\ \A p \in Procs : At(p, "idle"))
  /\ UNCHANGED <<files, saved, told, latest, mixed, edits, turns, faults, cancels>>

-----------------------------------------------------------------------------

Turn(c) ==
  \/ Recall(c) \/ Ask(c) \/ Answered(c) \/ EndTurn(c)
  \/ \E i \in Slots : Call(<<c, i>>)

Saving(p) == Read(p) \/ Open(p) \/ Write(p) \/ Rename(p) \/ Finish(p)

Next ==
  \/ \E c \in Convs : StartTurn(c) \/ Turn(c) \/ Cancel(c)
  \/ \E p \in Procs : Saving(p) \/ JobFails(p)
  \/ Crash

Spec == Init /\ [][Next]_vars

\* The event loop and the worker threads go on.
FairSpec == Spec /\ \A p \in Procs : WF_vars(Saving(p))

-----------------------------------------------------------------------------
(* Properties *)

\* Saves of several conversations never lose one another's notes, nor does a
\* job that raises or a restart: what the file says changes by one key at a
\* time (memory_store.py:18-22, 40-48).  If a save begins while the job of a
\* cancelled one is still at work this is not so: the two share memory.tmp, and
\* a garbled file is read as an empty memory.
OneKeyAtATime ==
  [][~mixed' /\ Memory' # Memory =>
       \E p \in {p \in Procs : save[p].edit # None} :
         Memory' = Put(Memory, save[p].edit.path, save[p].edit.value)]_vars

\* When every save asked for was made, the file holds the last value asked for
\* under each key, across conversations: the lock is fair and the file is read
\* under it (memory_store.py:18-22, edit_memory.py:95-121).
LastNoteWins ==
  clean /\ (\A p \in Procs : At(p, "idle")) => Memory = latest

\* A turn is shown every note that some call answered as persisted before, of
\* whatever conversation, also after restarts (prompt.py:145-157).
Recalled ==
  [][\A c \in Convs : ~mixed /\ turn[c] = "prompt" /\ turn'[c] = "on"
                       => told \subseteq DOMAIN shown'[c]]_vars

\* _log names every note of the scratchpad, of this turn or an earlier one, as
\* long as nobody noted something under _log itself (edit_memory.py:98-107,
\* prompt.py:34).
Audited ==
  \A c \in Convs : \A s \in {pad[c], saved[c]} :
    LogLost(s) \/ \A q \in DOMAIN s \ {LogPath} :
                     \E i \in DOMAIN Log(s).log : Log(s).log[i].path = q

\* No value hides beneath another one, so a shape map or a dotted key reaches
\* every note (edit_memory.py:77-96).
NothingHidden ==
  \A c \in Convs : \A s \in {pad[c], saved[c]} :
    \A q, r \in DOMAIN s : ~IsStrictPrefix(q, r)

\* The scratchpad stays a tree that its log accounts for, across failed saves,
\* values put where a branch was needed and branches where a value was.
PadIsSound == Audited /\ NothingHidden

\* Every call that saves is answered, whatever others fail, are cancelled or
\* hold the lock (memory_store.py:19).
EverySaveEnds == \A p \in Calls : ~At(p, "idle") ~> At(p, "idle")

=============================================================================
