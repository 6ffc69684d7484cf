-------------------------- MODULE ConversationFiles --------------------------
(***************************************************************************)
(* A conversation's attachments and workspace under its turns: requests    *)
(* bring files, messages of the model ask for batches of storage and       *)
(* workspace calls or for one run_bash, turns are cancelled while threads  *)
(* and processes go on, and the server restarts.                           *)
(***************************************************************************)
EXTENDS Attachments, Workspace

CONSTANTS MaxTurns,   \* bound: requests
          MaxMessages \* bound: messages with tool calls

\* A call names a tool, with what it is given.
Calls == [tool: {"delete"}, key: Keys]
           \cup [tool: {"list", "bash"}, path: Paths \cup {<<>>}]
           \cup [tool: {"folder", "remove"}, path: Paths]
           \cup [tool: {"upload"}, path: Paths, text: Texts]

ASSUME FilesAssumption ==
  /\ Batches \subseteq Seq(Calls) /\ None \notin Calls
  /\ MaxFiles \in Nat /\ MaxLates \in Nat /\ MaxTouches \in Nat

VARIABLES requests, messages, crashes

bounds == <<requests, messages, crashes>>
vars == <<batch, attach, space, bounds>>

TypeOK ==
  /\ turn \in {"off", "on", "tools", "saving"}
  /\ Len(todo) <= MaxBatch /\ cancels \in 0 .. MaxCancels
  /\ AttachTypeOK /\ SpaceTypeOK

Init ==
  /\ turn = "off" /\ todo = <<>> /\ run = [i \in Runs |-> Idle] /\ cancels = 0
  /\ AttachInit /\ SpaceInit
  /\ requests = 0 /\ messages = 0 /\ crashes = 0

\* The calls that are run: the first exclusive one alone.
Run(b) ==
  LET bash == {i \in DOMAIN b : b[i].tool = "bash"}
  IN IF bash = {} THEN b ELSE <<b[Min(bash)]>>

Ask ==
  /\ turn = "on" /\ messages < MaxMessages /\ messages' = messages + 1
  /\ turn' = "tools"
  /\ \E b \in Batches : todo' = Run(b)
  /\ run' = [i \in Runs |-> IF i \in Live THEN Idle ELSE run[i]]
  /\ alone' = \A i \in Runs : ~Busy(i)
  /\ UNCHANGED <<cancels, attach, tree, touches, requests, crashes>>

\* gather returns.
Answered ==
  /\ turn = "tools" /\ todo = <<>> /\ \A i \in Live : Ended(i)
  /\ turn' = "saving"
  /\ UNCHANGED <<todo, run, cancels, attach, space, bounds>>

EndTurn ==
  /\ turn = "on" /\ turn' = "off"
  /\ LeaveFiles(FALSE)
  /\ UNCHANGED <<todo, run, cancels, space, bounds>>

\* What goes on without its call: jobs that a thread began, processes.  A job
\* that still waits for a thread may be withdrawn.
Withdrawable == {"unlinking", "opening", "removing", "scanning"}
Jobs == Withdrawable \cup {"writing", "clearing"}

Outlives(r) ==
  IF r.shell \/ r.child THEN {[r EXCEPT !.stage = "stray"]}
  ELSE IF r.stage \in Withdrawable THEN {Idle, r}
  ELSE IF r.stage \in Jobs THEN {r}
  ELSE {Idle}

\* No call is live any more: left[i] is left of call i, under a number that no work
\* has had, and rest[i] of the work that had outlived its call before.
CutOff(left, rest) ==
  /\ turn' = "off" /\ todo' = <<>>
  /\ LET gone == MaxBatch * (cancels + crashes + 1) IN
     run' = [i \in Runs |-> IF i \in Live THEN Idle
                           ELSE IF i - gone \in Live THEN left[i - gone] ELSE rest[i]]

Cancel ==
  /\ turn # "off" /\ cancels < MaxCancels /\ cancels' = cancels + 1
  /\ \E left \in [Live -> UNION {Outlives(run[i]) : i \in Live}] :
       /\ \A i \in Live : left[i] \in Outlives(run[i])
       /\ CutOff(left, run)
  /\ LeaveFiles(TRUE)
  /\ UNCHANGED <<space, bounds>>

\* Processes outlive the server.
Strays == [i \in Runs |-> IF run[i].shell \/ run[i].child
                         THEN [run[i] EXCEPT !.stage = "stray"] ELSE Idle]

Crash ==
  /\ crashes < MaxCrashes /\ crashes' = crashes + 1
  /\ CutOff(Strays, Strays)
  /\ CrashFiles
  /\ UNCHANGED <<cancels, space, requests, messages>>

Requests ==
  /\ \/ Claim /\ requests < MaxTurns /\ requests' = requests + 1
     \/ (OpenUpload \/ FinishUpload \/ FailUpload \/ LoadContext \/ SaveContext)
        /\ UNCHANGED requests
  /\ UNCHANGED <<space, messages, crashes>>

Storage ==
  /\ StartTurn \/ SaveFiles \/ LateSave
  /\ UNCHANGED <<space, bounds>>

Delete(i) ==
  /\ BeginDelete(i) \/ UnlinkFile(i) \/ EndDelete(i)
  /\ UNCHANGED <<space, bounds>>

WorkspaceCall(i) ==
  /\ \/ BeginList(i) \/ BeginFolder(i) \/ BeginUpload(i) \/ BeginRemove(i)
     \/ OpenFile(i) \/ WriteFile(i) \/ RemoveFile(i)
     \/ Scan(i) \/ Clear(i) \/ RemoveFolder(i) \/ Reply(i)
  /\ UNCHANGED <<attach, bounds>>

\* What goes on by itself: the event loop, and the clock of wait_for.
Command(i) ==
  /\ BeginCommand(i) \/ EndCommand(i) \/ Timeout(i)
  /\ UNCHANGED <<attach, bounds>>

\* What a user's program does.
Program(i) ==
  /\ Touch(i) \/ Fork(i) \/ ShellExits(i) \/ ChildExits(i)
  /\ UNCHANGED <<attach, bounds>>

Next ==
  \/ Requests \/ Storage
  \/ \E i \in Runs : Delete(i) \/ WorkspaceCall(i) \/ Command(i) \/ Program(i)
  \/ Ask \/ Answered \/ EndTurn \/ Cancel \/ Crash

Spec == Init /\ [][Next]_vars

\* Threads do their work, the event loop goes on and wait_for's clock runs.  A
\* program need not end: neither a shell nor what it left in the background.
FairSpec ==
  /\ Spec
  /\ WF_vars(Answered)
  /\ \A i \in Live : WF_vars(Delete(i)) /\ WF_vars(WorkspaceCall(i)) /\ WF_vars(Command(i))

-----------------------------------------------------------------------------
(* Properties *)

\* A request whose turn was started has its files in the stored context, and what
\* the context or the turn lists is a whole file on disk, until somebody asks to
\* delete it: no failed upload, no save of another writer, no cancel or restart
\* takes it away.  (A save that outlives its cancelled turn drops later entries,
\* see the README.)
FilesKept ==
  /\ lates = 0 => accepted \subseteq ToSet(stored) \cup asked
  /\ \A k \in (ToSet(stored) \cup ToSet(listed)) \ asked :
       k \in DOMAIN disk /\ disk[k] = "whole"

\* The user's messages name the files by number, and the numbers of this turn and
\* of the earlier ones are right: each file is listed once, at its number.
NumbersMatch ==
  (turn # "off" /\ asked = {} /\ lates = 0) =>
    /\ IsInjective(listed)
    /\ ToSet(req.files) \subseteq ToSet(listed)
    /\ \A k \in ToSet(listed) \cap DOMAIN number : listed[number[k]] = k

Asked(i, tool) == run[i].call # None /\ run[i].call.tool = tool

\* A file that storage says is deleted is not on disk; nor is it listed, if the
\* message had no second delete (which puts the entry of the first one back), in the
\* rest of the turn and, if no save outlived its turn, in the turns that follow.
DeleteTakesEffect ==
  \A i \in Live :
    (Asked(i, "delete") /\ At(i, "answered") /\ run[i].answer = "ok" /\ turn # "off")
    => /\ run[i].call.key \notin DOMAIN disk
       /\ (/\ \A j \in Live \ {i} : ~Asked(j, "delete")
           /\ turn \in {"tools", "saving"} \/ lates = 0)
          => run[i].call.key \notin ToSet(listed)

\* A file that workspace says is written is there with its text when the turn goes
\* on, if nothing of an earlier message was still at work and no other call of the
\* message was about its path or a folder above it.
UploadHolds ==
  \A i \in Live :
    (/\ turn = "saving" /\ alone /\ Asked(i, "upload") /\ run[i].answer = "ok"
     /\ \A j \in Live \ {i} :
          run[j].call # None => \/ run[j].call.tool \in {"delete", "bash", "list", "folder"}
                                \/ ~IsPrefix(run[j].call.path, run[i].call.path))
    => LET p == run[i].call.path
       IN p \in DOMAIN tree /\ tree[p].text = run[i].call.text

\* An "ok" can be relied on: what the model is told was done still is, after the
\* other calls of the message and the threads of earlier ones.
OkHolds == DeleteTakesEffect /\ UploadHolds

\* No command leaves a process behind for ever that keeps its output open.
ChildrenEnd == \A i \in Live : []<>(~run[i].child)

\* Then the calls of a message all answer, whatever the others do to the files they
\* work on: a shell that does not end is killed (bash.py:96-104).
CallsEnd == ChildrenEnd => (turn = "tools" ~> turn # "tools")

\* A command that runs into its timeout is killed and its call answers: the tool's
\* "Seconds before killing the command" (bash.py:47).  It does not, if the command
\* left a child: process.kill() ends the shell alone, and the second communicate()
\* waits for the child's end of the output, without a timeout (bash.py:99-100).
KilledInTime == \A i \in Live : At(i, "draining") ~> ~At(i, "draining")

=============================================================================
