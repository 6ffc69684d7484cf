----------------------------- MODULE Attachments -----------------------------
(***************************************************************************)
(* The files attached to a conversation: on disk (LocalFileStore,          *)
(* host/stores/file_store.py), in its stored context and in its running    *)
(* turn's state.  A request claims the turn, uploads its files and puts    *)
(* them into the context (host/router.py 213-252, 396-425); the turn       *)
(* announces them by number (core/state.py 47-65); the storage tool        *)
(* (tools/storage.py) deletes.                                             *)
(***************************************************************************)
EXTENDS ToolBatch, SequencesExt

CONSTANTS Keys,      \* storage keys: conversation, uuid and name
          MaxFiles,  \* the files of one request
          MaxLates   \* bound: saves that outlive their cancelled turn

VARIABLES disk,     \* disk[k]: "part" or "whole", for the files there are
          stored,   \* context.files of the stored document
          working,  \* the stored status is "working"
          req,      \* the request past its claim: stage, files, what is left
          listed,   \* state["files"] of the turn
          number,   \* number[k]: k was announced as artifact number[k] - 1
          late,     \* the files of a save that outlived its turn, or None
          accepted, \* the files of requests whose turn was started
          asked,    \* the files that a call was asked to delete
          lates

uploads == <<req, working, accepted>>
attach  == <<disk, stored, uploads, listed, number, late, asked, lates>>

NoRequest == [stage |-> "none", files |-> <<>>, left |-> 0, found |-> <<>>]

AttachTypeOK ==
  /\ DOMAIN disk \subseteq Keys /\ \A k \in DOMAIN disk : disk[k] \in {"part", "whole"}
  /\ stored \in Seq(Keys) /\ listed \in Seq(Keys) /\ working \in BOOLEAN
  /\ req.stage \in {"none", "uploading", "writing", "loading", "merging", "started"}
  /\ req.files \in Seq(Keys) /\ req.left \in 0 .. MaxFiles /\ req.found \in Seq(Keys)
  /\ DOMAIN number \subseteq Keys /\ \A k \in DOMAIN number : number[k] \in Nat
  /\ late = None \/ late \in Seq(Keys)
  /\ accepted \subseteq Keys /\ asked \subseteq Keys /\ lates \in 0 .. MaxLates

AttachInit ==
  /\ disk = <<>> /\ stored = <<>> /\ working = FALSE /\ req = NoRequest
  /\ listed = <<>> /\ number = <<>> /\ late = None
  /\ accepted = {} /\ asked = {} /\ lates = 0

-----------------------------------------------------------------------------
(* A request with files *)

\* The claim; without files only the status is written.
Claim ==
  /\ ~working /\ req.stage = "none"
  /\ working' = TRUE
  /\ \E n \in 0 .. MaxFiles :
       req' = [NoRequest EXCEPT !.stage = IF n = 0 THEN "started" ELSE "uploading",
                                !.left = n]
  /\ UNCHANGED <<batch, disk, stored, listed, number, late, accepted, asked, lates>>

\* upload_file: a fresh key (which one does not matter), and the file is opened.
Used == DOMAIN disk \cup accepted \cup ToSet(stored) \cup asked

OpenUpload ==
  /\ req.stage = "uploading" /\ req.left > 0 /\ Keys \ Used # {}
  /\ LET k == CHOOSE key \in Keys : key \notin Used IN
       /\ disk' = With(disk, k, "part")
       /\ req' = [req EXCEPT !.stage = "writing", !.files = Append(@, k)]
  /\ UNCHANGED <<batch, stored, working, listed, number, late, accepted, asked, lates>>

FinishUpload ==
  /\ req.stage = "writing"
  /\ disk' = [disk EXCEPT ![Last(req.files)] = "whole"]
  /\ req' = [req EXCEPT !.left = @ - 1,
                        !.stage = IF req.left = 1 THEN "loading" ELSE "uploading"]
  /\ UNCHANGED <<batch, stored, working, listed, number, late, accepted, asked, lates>>

\* A file that is too long is removed, one whose upload fails otherwise is not;
\* nor are those that came before it.  The request puts the status back.
FailUpload ==
  /\ req.stage \in {"uploading", "writing"}
  /\ disk' \in IF req.stage = "writing" THEN {disk, Without(disk, {Last(req.files)})}
               ELSE {disk}
  /\ req' = NoRequest /\ working' = FALSE
  /\ UNCHANGED <<batch, stored, listed, number, late, accepted, asked, lates>>

LoadContext ==
  /\ req.stage = "loading"
  /\ req' = [req EXCEPT !.stage = "merging", !.found = stored]
  /\ UNCHANGED <<batch, disk, stored, working, listed, number, late, accepted, asked,
                 lates>>

\* Bug: the context is given the files of this request.
BugSaveContext ==
  /\ req.stage = "merging"
  /\ stored' = req.files
  /\ req' = [req EXCEPT !.stage = "started"]
  /\ accepted' = accepted \cup ToSet(req.files)
  /\ UNCHANGED <<batch, disk, working, listed, number, late, asked, lates>>

SaveContext ==
  /\ req.stage = "merging"
  /\ stored' = req.found \o req.files
  /\ req' = [req EXCEPT !.stage = "started"]
  /\ accepted' = accepted \cup ToSet(req.files)
  /\ UNCHANGED <<batch, disk, working, listed, number, late, asked, lates>>

-----------------------------------------------------------------------------
(* The turn *)

\* The context has the files of this request at its end already.
Seeded(list, files) ==
  Len(list) >= Len(files) /\ SubSeq(list, Len(list) - Len(files) + 1, Len(list)) = files

\* Bug: the files are appended without a look.
BugInjected(list, files) == list \o files

Injected(list, files) ==
  IF files = <<>> \/ Seeded(list, files) THEN list ELSE list \o files

\* restore_state, then inject_user_message.
StartTurn ==
  /\ turn = "off" /\ req.stage = "started"
  /\ turn' = "on"
  /\ LET list == Injected(stored, req.files)
         base == Len(list) - Len(req.files) IN
     /\ listed' = list
     /\ number' = [k \in DOMAIN number \cup ToSet(req.files) |->
          IF \E i \in DOMAIN req.files : req.files[i] = k
          THEN base + CHOOSE i \in DOMAIN req.files : req.files[i] = k
          ELSE number[k]]
  /\ UNCHANGED <<todo, run, cancels, disk, stored, uploads, late, asked, lates>>

\* storage, action delete: the list is taken, then the file is looked for.
BeginDelete(i) ==
  /\ Due(i, "delete")
  /\ LET k == Head(todo).key IN
     /\ asked' = asked \cup {k}
     /\ \/ k \notin ToSet(listed) /\ Begins(i, Answer("error"))
        \/ k \in ToSet(listed) /\ k \notin DOMAIN disk /\ Begins(i, Answer("gone"))
        \/ /\ k \in ToSet(listed) /\ k \in DOMAIN disk
           /\ Begins(i, [Idle EXCEPT !.stage = "unlinking", !.view = listed])
  /\ UNCHANGED <<disk, stored, uploads, listed, number, late, lates>>

\* The thread's unlink raises when another one was first.
UnlinkFile(i) ==
  /\ At(i, "unlinking")
  /\ LET k == run[i].call.key IN
     IF k \in DOMAIN disk
     THEN /\ disk' = Without(disk, {k})
          /\ Leaves(i, [run[i] EXCEPT !.stage = "unlinked"])
     ELSE Leaves(i, [run[i] EXCEPT !.stage = "raised"]) /\ UNCHANGED disk
  /\ UNCHANGED <<stored, uploads, listed, number, late, asked, lates>>

\* Bug: the entry stays.
BugEndDelete(i) ==
  /\ At(i, "unlinked")
  /\ Steps(i, [run[i] EXCEPT !.stage = "answered", !.answer = "ok"])
  /\ UNCHANGED attach

\* The list without k.
Dropped(list, k) ==
  LET kept == {i \in DOMAIN list : list[i] # k}
  IN [n \in 1 .. Cardinality(kept) |->
        list[CHOOSE i \in kept : Cardinality({j \in kept : j <= i}) = n]]

\* The list that the call took, without the file, becomes the turn's list.
EndDelete(i) ==
  /\ At(i, "unlinked")
  /\ listed' = Dropped(run[i].view, run[i].call.key)
  /\ Steps(i, [run[i] EXCEPT !.stage = "answered", !.answer = "ok"])
  /\ UNCHANGED <<disk, stored, uploads, number, late, asked, lates>>

\* publish_durable_event saves the state.
SaveFiles ==
  /\ turn = "saving"
  /\ stored' = listed
  /\ turn' = "on"
  /\ UNCHANGED <<todo, run, cancels, disk, uploads, listed, number, late, asked, lates>>

LateSave ==
  /\ late # None
  /\ stored' = late /\ late' = None
  /\ UNCHANGED <<batch, disk, uploads, listed, number, asked, lates>>

\* A status that is not "working" is stored at the end, and after a cancel; a
\* save under way may be left behind.
LeaveFiles(cut) ==
  /\ working' = FALSE /\ req' = NoRequest
  /\ listed' = <<>>
  /\ \/ UNCHANGED <<late, lates>>
     \/ /\ cut /\ turn = "saving" /\ lates < MaxLates /\ late = None
        /\ late' = listed /\ lates' = lates + 1
  /\ UNCHANGED <<disk, stored, number, accepted, asked>>

\* After a restart the status stays "working" if it was (see TurnLifecycle).
CrashFiles ==
  /\ req' = NoRequest /\ listed' = <<>> /\ late' = None
  /\ UNCHANGED <<disk, stored, working, number, accepted, asked, lates>>

Request == Claim \/ OpenUpload \/ FinishUpload \/ FailUpload \/ LoadContext \/ SaveContext

=============================================================================
