---------------------------- MODULE TurnLifecycle ----------------------------
(***************************************************************************)
(* The life of one conversation's turns: the request handlers of           *)
(* host/router.py (create_conversation, send_message, cancel_turn), the    *)
(* turn tasks they start (_safe_run_turn around core/loop.py's run_turn),  *)
(* the registry of active turns and the cancel lock, over the conversation *)
(* store.                                                                  *)
(*                                                                         *)
(* The store is used as AtomicDocument says, with the two things a caller  *)
(* can tell apart beside it: calls act in the order they queued for the    *)
(* asyncio lock, and reads need no lock.  Land is the instant a call acts  *)
(* (in its worker thread); the caller resumes, and frees the lock, in a    *)
(* step of its own.                                                        *)
(*                                                                         *)
(* A request and the turn task it starts share one identity: the request   *)
(* ends when it has registered the task.  A turn publishes durable events; *)
(* what it does between two of them (the model, the tools) is its own.     *)
(***************************************************************************)
EXTENDS ConversationDocument, SequencesExt

CONSTANTS Creator,    \* the POST /conversations request
          Senders,    \* the POST .../messages requests
          Cancels,    \* the POST .../cancel requests
          WithFiles,  \* the requests that upload files
          BadUpload,  \* those whose upload may fail
          BadStart,   \* turns whose load, tools or prompt provider may raise
          Limited,    \* turns that may run into the tool call limit
          Cleanups,   \* turns that await cleanups when they end
          FaultAt,    \* the stages whose store call may raise
          MaxEvents,  \* bound: agent messages and tool events of a turn
          MaxFaults,  \* bound: store calls that raise
          MaxLates,   \* bound: write jobs that outlive a cancelled call
          MaxCrashes  \* bound: restarts of the process

Requesters == {Creator} \cup Senders
Actors == Requesters \cup Cancels

ASSUME ActorsAssumption ==
  /\ Creator \notin Senders \cup Cancels
  /\ Senders \cap Cancels = {}
  /\ BadUpload \subseteq WithFiles
  /\ {"own", ""} \subseteq Orgs

VARIABLES doc,        \* the stored document, None before create()
          lockQ,      \* the store's lock: the holder, then the waiters
          call,       \* call[a]: the request a has with the store, or None
          outcome,    \* outcome[a]: "pending", "done", "refused" or "failed"
          pc,         \* pc[a]: where a's handler or turn is
          view,       \* view[a]: the document a read last
          log,        \* log[r]: the durable events in turn r's memory
          active,     \* _active_turns[conversation]: a turn or None
          cancelled,  \* the turns whose task.cancel() was called
          cancelQ,    \* the conversation's cancel lock: holder, then waiters
          target,     \* target[c]: the turn c cancelled
          late,       \* the document a job that outlived its call still writes
          faults, lates, crashes

store == <<doc, lockQ, call, outcome>>
vars  == <<doc, lockQ, call, outcome, pc, view, log, active, cancelled, cancelQ,
           target, late, faults, lates, crashes>>

\* The stages of a request, of a turn and of a cancel handler.
RequestStages == {"start", "check", "claiming", "uploading", "loading", "merging",
                  "seeding", "marking", "restoring", "replied"}
TurnStages == {"load", "running", "saving", "limited", "completing",
               "failing", "unwinding", "reload", "refail", "refailing", "giveUp",
               "draining", "ended"}
CancelStages == {"start", "check", "queued", "waiting", "looking", "stopping",
                 "replied"}

Kinds  == {"message", "completed", "error"}
Events == [turn: Requesters, kind: Kinds]

TypeOK ==
  /\ doc \in Docs \cup {None}
  /\ lockQ \in Seq(Actors)
  /\ call \in [Actors -> Requests \cup {None}]
  /\ outcome \in [Actors -> {"pending", "done", "refused", "failed"}]
  /\ \A r \in Requesters : pc[r] \in RequestStages \cup TurnStages
  /\ \A c \in Cancels : pc[c] \in CancelStages
  /\ view \in [Actors -> Docs \cup {None}]
  /\ log \in [Requesters -> Seq(Events)]
  /\ active \in Requesters \cup {None}
  /\ cancelled \subseteq Requesters
  /\ cancelQ \in Seq(Cancels)
  /\ target \in [Cancels -> Requesters \cup {None}]
  /\ late \in Docs \cup {None}

Init ==
  /\ doc = None
  /\ lockQ = <<>>
  /\ call = [a \in Actors |-> None]
  /\ outcome = [a \in Actors |-> "pending"]
  /\ pc = [a \in Actors |-> "start"]
  /\ view = [a \in Actors |-> None]
  /\ log = [r \in Requesters |-> <<>>]
  /\ active = None
  /\ cancelled = {}
  /\ cancelQ = <<>>
  /\ target = [c \in Cancels |-> None]
  /\ late = None
  /\ faults = 0 /\ lates = 0 /\ crashes = 0

-----------------------------------------------------------------------------
(* Time.  Only whether two times are equal matters (claim_turn compares    *)
(* them), so a new one is the least that nothing holds.                    *)

Held ==
  {d.stamp : d \in ({doc, late} \cup {view[a] : a \in Actors}) \ {None}}
    \cup {r.stamp : r \in {c \in {call[a] : a \in Actors} \ {None} : c.kind = "save"}}
    \cup {r.expected : r \in {c \in {call[a] : a \in Actors} \ {None} : c.kind = "claim"}}

Now == CHOOSE n \in 0 .. Cardinality(Held) :
         n \notin Held /\ \A m \in 0 .. Cardinality(Held) : m < n => m \in Held

-----------------------------------------------------------------------------
(* The store *)

\* Bug: the context is not written.
BugSave(org, status, ctx) == [kind |-> "save", org |-> org, status |-> status,
                              ctx |-> None, stamp |-> Now]

Save(org, status, ctx) == [kind |-> "save", org |-> org, status |-> status,
                           ctx |-> ctx, stamp |-> Now]
Mark(status) == [kind |-> "status", org |-> "own", status |-> status]
Claim(d) == [kind |-> "claim", org |-> "own", allowed |-> d.status,
             expected |-> d.stamp]

\* a starts a call, or returns from one and starts the next.
Ask(a, r) ==
  /\ lockQ' = Append(IF call[a] = None THEN lockQ ELSE Tail(lockQ), a)
  /\ call' = [call EXCEPT ![a] = r]
  /\ outcome' = [outcome EXCEPT ![a] = "pending"]
  /\ UNCHANGED doc

\* a returns from its call and makes no other at once.
Return(a) ==
  /\ lockQ' = Tail(lockQ)
  /\ call' = [call EXCEPT ![a] = None]
  /\ outcome' = [outcome EXCEPT ![a] = "pending"]
  /\ UNCHANGED doc

\* The cancel handler's wait_for is resumed in the event loop's next round; a
\* call that gets the lock only now needs three more rounds to act.  (Only a turn
\* that awaits cleanups could end while another call's job is already running.)
Woken(c) == pc[c] = "waiting" /\ pc[target[c]] = "ended"
ThreadsRun == \A c \in Cancels : ~Woken(c)

\* The call at the head of the lock acts, is refused, or raises.
Land(a) ==
  /\ ThreadsRun
  /\ lockQ # <<>> /\ Head(lockQ) = a
  /\ call[a] # None /\ outcome[a] = "pending"
  /\ \/ /\ Accepts(call[a], doc)
        /\ doc' = Edited(call[a], doc, Now)
        /\ outcome' = [outcome EXCEPT ![a] = "done"]
        /\ UNCHANGED faults
     \/ /\ ~Accepts(call[a], doc)
        /\ outcome' = [outcome EXCEPT ![a] = "refused"]
        /\ UNCHANGED <<doc, faults>>
     \/ /\ pc[a] \in FaultAt /\ faults < MaxFaults
        /\ faults' = faults + 1
        /\ outcome' = [outcome EXCEPT ![a] = "failed"]
        /\ UNCHANGED doc
  /\ UNCHANGED <<lockQ, call, pc, view, log, active, cancelled, cancelQ, target,
                 late, lates, crashes>>

\* A read by a, which then goes on at stage s.
Look(a, s) ==
  /\ ThreadsRun
  /\ view' = [view EXCEPT ![a] = doc]
  /\ pc' = [pc EXCEPT ![a] = s]

Goto(a, s) == pc' = [pc EXCEPT ![a] = s]

\* a's call came back in one of these ways.
Back(a, stages, ways) == pc[a] \in stages /\ outcome[a] \in ways

requestOnly == <<log, active, cancelled, cancelQ, target, late, faults, lates, crashes>>

-----------------------------------------------------------------------------
(* create_conversation and send_message *)

\* store.create's job; the handler goes on, without a further await if there are
\* no files, in Upload.
Create ==
  /\ pc[Creator] = "start" /\ doc = None
  /\ doc' = NewDoc("own", Now)
  /\ Goto(Creator, "uploading")
  /\ UNCHANGED <<lockQ, call, outcome, view, requestOnly>>

Get(r) ==
  /\ r \in Senders /\ pc[r] = "start" /\ doc # None
  /\ Look(r, "check")
  /\ UNCHANGED <<store, requestOnly>>

\* 409 while working, else claim the turn for the status and stamp read.
Check(r) ==
  /\ r \in Senders /\ pc[r] = "check"
  /\ IF view[r].status = "working"
     THEN Goto(r, "replied") /\ UNCHANGED store
     ELSE Goto(r, "claiming") /\ Ask(r, Claim(view[r]))
  /\ UNCHANGED <<view, requestOnly>>

\* A request without files goes on to its mark at once; one with files awaits
\* their upload.
ClaimReturns(r) ==
  /\ \/ /\ Back(r, {"claiming"}, {"refused", "failed"})
        /\ Goto(r, "replied") /\ Return(r)
     \/ /\ Back(r, {"claiming"}, {"done"}) /\ r \in WithFiles
        /\ Goto(r, "uploading") /\ Return(r)
     \/ /\ Back(r, {"claiming"}, {"done"}) /\ r \notin WithFiles
        /\ Goto(r, "marking") /\ Ask(r, Mark("working"))
  /\ UNCHANGED <<view, requestOnly>>

Upload(r) ==
  /\ pc[r] = "uploading"
  /\ \/ r = Creator /\ Goto(r, "seeding") /\ Ask(r, Save("own", "working", <<>>))
     \/ r \in Senders /\ Goto(r, "loading") /\ UNCHANGED store
  /\ UNCHANGED <<view, requestOnly>>

\* Bug: a failed upload leaves the status as the claim set it.
BugUploadFails(r) ==
  /\ pc[r] = "uploading" /\ r \in BadUpload
  /\ Goto(r, "replied")
  /\ UNCHANGED <<store, view, requestOnly>>

\* A failed upload puts back the status the request found.
UploadFails(r) ==
  /\ pc[r] = "uploading" /\ r \in BadUpload
  /\ Goto(r, "restoring")
  /\ Ask(r, Mark(IF r = Creator THEN "error" ELSE view[r].status))
  /\ UNCHANGED <<view, requestOnly>>

SeedFails ==
  /\ Back(Creator, {"seeding"}, {"refused", "failed"})
  /\ Goto(Creator, "restoring")
  /\ Ask(Creator, Mark("error"))
  /\ UNCHANGED <<view, requestOnly>>

\* The files are added to the context that is stored now.
LoadForFiles(r) ==
  /\ pc[r] = "loading"
  /\ Look(r, "merging")
  /\ UNCHANGED <<store, requestOnly>>

\* Bug: the files are saved with a new context.
BugMerge(r) ==
  /\ pc[r] = "merging" /\ view[r].ctx # None
  /\ Goto(r, "marking")
  /\ Ask(r, Save("own", "working", <<>>))
  /\ UNCHANGED <<view, requestOnly>>

Merge(r) ==
  /\ pc[r] = "merging" /\ view[r].ctx # None
  /\ Goto(r, "marking")
  /\ Ask(r, Save("own", "working", view[r].ctx))
  /\ UNCHANGED <<view, requestOnly>>

Refuse(r) ==
  /\ \/ Back(r, {"restoring"}, {"done", "refused", "failed"})
     \/ Back(r, {"marking"}, {"refused", "failed"})
  /\ Goto(r, "replied")
  /\ Return(r)
  /\ UNCHANGED <<view, requestOnly>>

\* create_task and _register_turn_task, with no await between.
StartTurn(r) ==
  /\ \/ Back(r, {"seeding", "marking"}, {"done"}) /\ Return(r)
     \/ pc[r] = "merging" /\ view[r].ctx = None /\ UNCHANGED store
  /\ Goto(r, "load")
  /\ active' = r
  /\ UNCHANGED <<view, log, cancelled, cancelQ, target, late, faults, lates, crashes>>

-----------------------------------------------------------------------------
(* run_turn and _safe_run_turn.  A task whose cancel() was called takes no *)
(* other step before the CancelledError.                                   *)

Runs(r) == r \in Requesters \ cancelled

\* The task is done: the registry's callback runs.
End(r) ==
  /\ Goto(r, "ended")
  /\ active' = IF active = r THEN None ELSE active

\* run_turn's finally clause, then s.
Finally(r, s) ==
  IF r \in Cleanups
  THEN Goto(r, IF s = "ended" THEN "draining" ELSE "unwinding") /\ UNCHANGED active
  ELSE IF s = "ended" THEN End(r) ELSE Goto(r, s) /\ UNCHANGED active

\* publish_durable_event: append to the log in memory, then save it all.
Publish(r, base, kind, status) ==
  LET grown == Append(base, [turn |-> r, kind |-> kind]) IN
  /\ log' = [log EXCEPT ![r] = grown]
  /\ Ask(r, Save("own", status, grown))

turnOnly == <<cancelled, cancelQ, target, late, faults, lates, crashes>>

Load(r) ==
  /\ Runs(r) /\ pc[r] = "load"
  /\ ThreadsRun
  /\ IF doc.ctx = None /\ r # Creator
     THEN Finally(r, "ended") /\ UNCHANGED log   \* OrgScopingError, swallowed
     ELSE /\ log' = [log EXCEPT ![r] = IF doc.ctx = None THEN <<>> ELSE doc.ctx]
          /\ Goto(r, "running")
          /\ UNCHANGED active
  /\ UNCHANGED <<store, view, turnOnly>>

\* Something raises before the state is restored: turn_error is published from
\* an empty state, whose organisation is "".
StartFails(r) ==
  /\ Runs(r) /\ pc[r] = "load" /\ r \in BadStart
  /\ Goto(r, "failing")
  /\ Ask(r, Save("", "error", <<[turn |-> r, kind |-> "error"]>>))
  /\ UNCHANGED <<view, log, active, turnOnly>>

Mine(r) == {i \in DOMAIN log[r] : log[r][i].turn = r}

Message(r) ==
  /\ Runs(r) /\ pc[r] = "running" /\ Cardinality(Mine(r)) < MaxEvents
  /\ Publish(r, log[r], "message", "working")
  /\ Goto(r, "saving")
  /\ UNCHANGED <<view, active, turnOnly>>

\* The tool call limit: a last message is saved with status idle already.
Limit(r) ==
  /\ Runs(r) /\ pc[r] = "running" /\ r \in Limited
  /\ Publish(r, log[r], "message", "idle")
  /\ Goto(r, "limited")
  /\ UNCHANGED <<view, active, turnOnly>>

Published(r) ==
  /\ Runs(r) /\ Back(r, {"saving"}, {"done"})
  /\ Goto(r, "running")
  /\ Return(r)
  /\ UNCHANGED <<view, log, active, turnOnly>>

Complete(r) ==
  /\ Runs(r)
  /\ pc[r] = "running" \/ Back(r, {"limited"}, {"done"})
  /\ Publish(r, log[r], "completed", "idle")
  /\ Goto(r, "completing")
  /\ UNCHANGED <<view, active, turnOnly>>

\* The model or a save raises: turn_error, from the same memory.
Fail(r) ==
  /\ Runs(r)
  /\ pc[r] = "running" \/ Back(r, {"saving", "limited", "completing"}, {"failed"})
  /\ Publish(r, log[r], "error", "error")
  /\ Goto(r, "failing")
  /\ UNCHANGED <<view, active, turnOnly>>

\* The last save came back, or OrgScopingError ends the turn without another.
Finish(r) ==
  /\ Runs(r)
  /\ \/ Back(r, {"completing", "failing"}, {"done"})
     \/ Back(r, {"saving", "limited", "completing", "failing"}, {"refused"})
  /\ Return(r)
  /\ Finally(r, "ended")
  /\ UNCHANGED <<view, log, turnOnly>>

\* Bug: the failure is logged and nothing else.
BugUnwind(r) ==
  /\ Runs(r) /\ Back(r, {"failing"}, {"failed"})
  /\ Return(r)
  /\ Finally(r, "ended")
  /\ UNCHANGED <<view, log, turnOnly>>

\* turn_error could not be saved: _safe_run_turn tries again from the store.
Unwind(r) ==
  /\ Runs(r) /\ Back(r, {"failing"}, {"failed"})
  /\ Return(r)
  /\ Finally(r, "reload")
  /\ UNCHANGED <<view, log, turnOnly>>

Drained(r) ==
  /\ Runs(r)
  /\ \/ pc[r] = "draining" /\ End(r)
     \/ pc[r] = "unwinding" /\ Goto(r, "reload") /\ UNCHANGED active
  /\ UNCHANGED <<store, view, log, turnOnly>>

\* Bug: only the status is written.
BugReload(r) ==
  /\ Runs(r) /\ pc[r] = "reload"
  /\ Goto(r, "giveUp")
  /\ Ask(r, Mark("error"))
  /\ UNCHANGED <<view, log, active, turnOnly>>

Reload(r) ==
  /\ Runs(r) /\ pc[r] = "reload"
  /\ Look(r, "refail")
  /\ UNCHANGED <<store, log, active, turnOnly>>

Refail(r) ==
  /\ Runs(r) /\ pc[r] = "refail"
  /\ Publish(r, IF view[r].ctx = None THEN <<>> ELSE view[r].ctx, "error", "error")
  /\ Goto(r, "refailing")
  /\ UNCHANGED <<view, active, turnOnly>>

\* Neither worked: the bare status.
GiveUp(r) ==
  /\ Runs(r)
  /\ \/ /\ pc[r] = "reload" /\ "reload" \in FaultAt /\ faults < MaxFaults
        /\ faults' = faults + 1
     \/ Back(r, {"refailing"}, {"refused", "failed"}) /\ UNCHANGED faults
  /\ Ask(r, Mark("error"))
  /\ Goto(r, "giveUp")
  /\ UNCHANGED <<view, log, active, cancelled, cancelQ, target, late, lates, crashes>>

GivenUp(r) ==
  /\ Runs(r)
  /\ \/ Back(r, {"refailing"}, {"done"})
     \/ Back(r, {"giveUp"}, {"done", "refused", "failed"})
  /\ Return(r)
  /\ End(r)
  /\ UNCHANGED <<view, log, turnOnly>>

\* The turn's call has reached its worker thread and would change the document.
Writing(r) ==
  /\ lockQ # <<>> /\ Head(lockQ) = r /\ outcome[r] = "pending"
  /\ Accepts(call[r], doc)

\* Bug: a cancelled turn keeps its place in the lock.
BugInterrupt(r) ==
  /\ r \in cancelled
  /\ cancelled' = cancelled \ {r}
  /\ call' = [call EXCEPT ![r] = None]
  /\ outcome' = [outcome EXCEPT ![r] = "pending"]
  /\ End(r)
  /\ UNCHANGED <<doc, lockQ, view, log, cancelQ, target, late, faults, lates, crashes>>

\* CancelledError at the turn's await: its place in the lock is given up and
\* its call, if it has not acted, is dropped - or the thread goes on with it.
Interrupt(r) ==
  /\ r \in cancelled
  /\ cancelled' = cancelled \ {r}
  /\ call' = [call EXCEPT ![r] = None]
  /\ outcome' = [outcome EXCEPT ![r] = "pending"]
  /\ \/ r \notin ToSet(lockQ) /\ UNCHANGED lockQ
     \/ \E i \in DOMAIN lockQ : lockQ[i] = r /\ lockQ' = RemoveAt(lockQ, i)
  /\ IF pc[r] \in {"load", "running", "saving", "limited", "completing", "failing"}
     THEN Finally(r, "ended")
     ELSE End(r)
  /\ \/ UNCHANGED <<late, lates>>
     \/ /\ Writing(r) /\ lates < MaxLates /\ lates' = lates + 1
        /\ late' = Edited(call[r], doc, Now)
  /\ UNCHANGED <<doc, view, log, cancelQ, target, faults, crashes>>

\* That job ends: the document it was to write replaces what is there now.
LateWrite ==
  /\ late # None
  /\ doc' = late /\ late' = None
  /\ UNCHANGED <<lockQ, call, outcome, pc, view, log, active, cancelled, cancelQ,
                 target, faults, lates, crashes>>

-----------------------------------------------------------------------------
(* cancel_turn *)

cancelOnly == <<log, active, late, faults, lates, crashes>>

Release(c) == cancelQ' = Tail(cancelQ)

CancelGet(c) ==
  /\ c \in Cancels /\ pc[c] = "start" /\ doc # None
  /\ Look(c, "check")
  /\ UNCHANGED <<store, cancelled, cancelQ, target, cancelOnly>>

CancelQueue(c) ==
  /\ c \in Cancels /\ pc[c] = "check"
  /\ Goto(c, "queued")
  /\ cancelQ' = Append(cancelQ, c)
  /\ UNCHANGED <<store, view, cancelled, target, cancelOnly>>

\* Bug: the task is cancelled but not awaited.
BugCancelTask(c) ==
  /\ c \in Cancels /\ pc[c] = "queued" /\ Head(cancelQ) = c /\ active # None
  /\ Goto(c, "stopping") /\ Ask(c, Mark("error"))
  /\ cancelled' = cancelled \cup {active}
  /\ target' = [target EXCEPT ![c] = active]
  /\ UNCHANGED <<view, cancelQ, cancelOnly>>

\* Under the cancel lock: cancel the registered task, if it is not done.
CancelTask(c) ==
  /\ c \in Cancels /\ pc[c] = "queued" /\ Head(cancelQ) = c
  /\ IF active = None
     THEN Goto(c, "looking") /\ UNCHANGED <<cancelled, target>>
     ELSE /\ Goto(c, "waiting")
          /\ cancelled' = cancelled \cup {active}
          /\ target' = [target EXCEPT ![c] = active]
  /\ UNCHANGED <<store, view, cancelQ, cancelOnly>>

CancelNothing(c) ==
  /\ c \in Cancels /\ pc[c] = "looking"
  /\ Look(c, "replied")
  /\ Release(c)
  /\ UNCHANGED <<store, cancelled, target, cancelOnly>>

\* The task ended.  Unless a new turn is registered, the status becomes error.
CancelWake(c) ==
  /\ c \in Cancels /\ Woken(c)
  /\ IF active \notin {None, target[c]}
     THEN Goto(c, "replied") /\ Release(c) /\ UNCHANGED store
     ELSE Goto(c, "stopping") /\ Ask(c, Mark("error")) /\ UNCHANGED cancelQ
  /\ UNCHANGED <<view, cancelled, target, cancelOnly>>

CancelReply(c) ==
  /\ c \in Cancels /\ Back(c, {"stopping"}, {"done", "refused", "failed"})
  /\ Goto(c, "replied")
  /\ Return(c)
  /\ Release(c)
  /\ UNCHANGED <<view, cancelled, target, cancelOnly>>

-----------------------------------------------------------------------------

\* The process dies and starts again: what remains is the document.
Crash ==
  /\ crashes < MaxCrashes /\ crashes' = crashes + 1
  /\ pc' = [a \in Actors |->
              IF pc[a] = "start" THEN "start"
              ELSE IF pc[a] \in TurnStages THEN "ended" ELSE "replied"]
  /\ lockQ' = <<>> /\ cancelQ' = <<>>
  /\ call' = [a \in Actors |-> None]
  /\ outcome' = [a \in Actors |-> "pending"]
  /\ view' = [a \in Actors |-> None]
  /\ active' = None /\ cancelled' = {} /\ late' = None
  /\ UNCHANGED <<doc, log, target, faults, lates>>

RequestStep(r) ==
  \/ Get(r) \/ Check(r) \/ ClaimReturns(r) \/ Upload(r) \/ UploadFails(r)
  \/ LoadForFiles(r) \/ Merge(r) \/ Refuse(r) \/ StartTurn(r)
  \/ r = Creator /\ (Create \/ SeedFails)

TurnStep(r) ==
  \/ Load(r) \/ StartFails(r) \/ Message(r) \/ Limit(r) \/ Published(r) \/ Complete(r)
  \/ Fail(r) \/ Finish(r) \/ Unwind(r) \/ Drained(r) \/ Reload(r) \/ Refail(r)
  \/ GiveUp(r) \/ GivenUp(r) \/ Interrupt(r)

CancelStep(c) ==
  \/ CancelGet(c) \/ CancelQueue(c) \/ CancelTask(c) \/ CancelNothing(c)
  \/ CancelWake(c) \/ CancelReply(c)

Next ==
  \/ \E a \in Actors : Land(a)
  \/ \E r \in Requesters : RequestStep(r) \/ TurnStep(r)
  \/ \E c \in Cancels : CancelStep(c)
  \/ LateWrite
  \/ Crash

Spec == Init /\ [][Next]_vars

\* Where a turn awaits what is not its own: providers and the load, the model and
\* the tools, cleanups.  Tools and cleanups have no timeout.
Hangs == {"load", "running", "draining", "unwinding"}

\* The event loop and the store's worker threads leave no one behind, and a
\* cancelled task gets its CancelledError.  A turn may hang.
Fairness ==
  /\ \A a \in Actors : WF_vars(Land(a))
  /\ \A r \in Requesters : /\ WF_vars(RequestStep(r))
                           /\ WF_vars(pc[r] \notin Hangs /\ TurnStep(r))
                           /\ WF_vars(Interrupt(r))
  /\ \A c \in Cancels : WF_vars(CancelStep(c))

FairSpec == Spec /\ Fairness

-----------------------------------------------------------------------------
(* Properties *)

Working == doc # None /\ doc.status = "working"

\* A turn that may still write the conversation; one that awaits its cleanups
\* may not.
Turning(r) == pc[r] \in TurnStages \ {"draining", "ended"}

\* One turn task is at work at a time: claim_turn, the registry and the status keep
\* two apart.
OneRunner == \A q, r \in Requesters : Turning(q) /\ Turning(r) => q = r

\* Someone who is still at work owns a "working" status and will replace it: a
\* request past its claim, a turn, or the cancel handler that ended the turn.
\* Otherwise every later message is answered 409 for ever (router.py:378-382).
WorkingHasOwner ==
  Working =>
    \/ \E r \in Requesters :
         \/ Turning(r)
         \/ pc[r] \in {"uploading", "loading", "merging", "seeding", "marking", "restoring"}
         \/ pc[r] = "claiming" /\ outcome[r] = "done"
    \/ \E c \in Cancels : pc[c] \in {"waiting", "stopping"}

\* A turn at work is shown as working until its own last save: no other request
\* finds the conversation free meanwhile.
TurnShowsWorking ==
  \A r \in Requesters :
    pc[r] \in {"load", "running", "saving"} => doc.status = "working"

\* What leaves a "working" to nobody: a restart, a write job that outlived its call,
\* a mark that raised after the claim, a turn that raised before it had its state.
Abandoned ==
  \/ crashes > 0 \/ lates > 0
  \/ "marking" \in FaultAt /\ faults > 0
  \/ \E r \in Requesters :
       pc[r] = "ended" /\ log[r] = <<>> /\ \A c \in Cancels : target[c] # r

\* The status in the store and the tasks in memory tell the same story, through
\* claims, failed uploads, failed saves and cancels: one turn at a time, shown as
\* working, and no "working" that nobody will ever replace (router.py:58, 102-164,
\* 389-394, 445-463).
StatusIsTrue ==
  /\ OneRunner
  /\ lates = 0 => TurnShowsWorking
  /\ ~Abandoned => WorkingHasOwner

Ending(e) == e.kind # "message"

\* Durable events are durable, whatever else is stored, cancelled or restarted: no
\* save drops or changes one that is stored (the saves write the whole log,
\* events.py:194-215), and none adds one of a turn that ended in the log before
\* it.  But a write job may outlive its cancelled call and put an old log back,
\* and a turn_completed whose save raised is stored with its turn_error.
LogGrows ==
  [][lates = 0 /\ doc # None /\ doc.ctx # None =>
       /\ doc'.ctx # None /\ IsPrefix(doc.ctx, doc'.ctx)
       /\ faults = 0 =>
            \A i \in DOMAIN doc'.ctx \ DOMAIN doc.ctx : \A j \in 1 .. i - 1 :
              doc'.ctx[j].turn = doc'.ctx[i].turn => ~Ending(doc'.ctx[j])]_vars

\* A turn that ended on its own left its terminal event as the last one it
\* stored, so a client that follows the log sees it end, even when one of its
\* saves failed (loop.py:605-656, router.py:127-164).
EndedTurnsAreClosed ==
  \A r \in Requesters :
    pc[r] = "ended" /\ faults < 2 /\ (\A c \in Cancels : target[c] # r)
    => \E i \in DOMAIN doc.ctx :
         /\ doc.ctx[i].turn = r /\ Ending(doc.ctx[i])
         /\ \A j \in DOMAIN doc.ctx : doc.ctx[j].turn = r => j <= i

\* Every request is answered, also while another turn hangs: a message by a refusal
\* or by a turn that was started, a cancel once the turn has stopped.
EveryRequestEnds ==
  \A a \in Actors : pc[a] # "start" ~> pc[a] \in {"replied"} \cup TurnStages

\* Nothing that a turn awaits hangs for ever: an assumption about the model, the
\* providers, the tools and the cleanups, which no timeout of the code sees to.
ToolsReturn == \A r \in Requesters : []<>(pc[r] \notin Hangs)

\* Every request is answered and, if nothing hangs for ever, every turn ends and the
\* conversation takes messages again: a status "working" is replaced, whichever of
\* its store calls raise (router.py:127-164, 397-421).
ComesToRest ==
  /\ EveryRequestEnds
  /\ ToolsReturn => /\ Working ~> ~Working
                    /\ \A r \in Requesters : pc[r] \in TurnStages ~> pc[r] = "ended"

=============================================================================
