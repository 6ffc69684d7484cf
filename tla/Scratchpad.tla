------------------------------ MODULE Scratchpad ------------------------------
(***************************************************************************)
(* The notes of a conversation, as edit_memory (tools/edit_memory.py)      *)
(* leaves them: a tree of dicts, written as a function from the paths of   *)
(* its leaves to their values.  One leaf, _log, is the tool's own list of  *)
(* what was noted.  Values are plain (no dict, no list, no null).          *)
(***************************************************************************)
EXTENDS Sequences, SequencesExt

CONSTANTS Segments,  \* the names that dotted keys are made of
          Values     \* what is noted

LogName == "_log"
LogPath == <<LogName>>

Paths == Seq(Segments \cup {LogName}) \ {<<>>}

\* A note is logged with its path and whether it is new.
Entries == [path: Paths, action: {"created", "updated"}]
Logs    == [log: Seq(Entries)]

ASSUME ValuesAssumption == Values \cap Logs = {}

IsPad(pad) ==
  /\ pad = [q \in DOMAIN pad |-> pad[q]]
  /\ \A q \in DOMAIN pad : q \in Paths /\ pad[q] \in Values \cup Logs

\* A value that is no dict stands on the way to p.
Blocked(pad, p) == \E q \in DOMAIN pad : IsStrictPrefix(q, p)

\* Bug: what was beneath p stays.
BugNoted(pad, p, v) == [q \in DOMAIN pad \cup {p} |-> IF q = p THEN v ELSE pad[q]]

\* cursor[leaf] = value: what was beneath p goes.
Noted(pad, p, v) ==
  [q \in {q \in DOMAIN pad : ~IsPrefix(p, q)} \cup {p} |->
     IF q = p THEN v ELSE pad[q]]

\* leaf in cursor: a value, or a dict of notes.
Exists(pad, p) == \E q \in DOMAIN pad : IsPrefix(p, q)

\* Bug: a third action.
BugEntry(pad, p) ==
  [path |-> p, action |-> IF Exists(pad, p) THEN "replaced" ELSE "created"]

Entry(pad, p) ==
  [path |-> p, action |-> IF Exists(pad, p) THEN "updated" ELSE "created"]

Log(pad) == IF LogPath \in DOMAIN pad THEN pad[LogPath] ELSE [log |-> <<>>]

\* setdefault("_log", []) finds something that is no list.
LogLost(pad) ==
  \/ LogPath \in DOMAIN pad /\ pad[LogPath] \notin Logs
  \/ \E q \in DOMAIN pad : IsStrictPrefix(LogPath, q)

Logged(pad, e) ==
  [q \in DOMAIN pad \cup {LogPath} |->
     IF q = LogPath THEN [log |-> Append(Log(pad).log, e)] ELSE pad[q]]

\* The note is made before the log is looked at: if that fails the call is
\* answered with an error, and the note stays.
Edited(pad, p, v) ==
  IF Blocked(pad, p) THEN pad
  ELSE LET noted == Noted(pad, p, v) IN
       IF LogLost(noted) THEN noted ELSE Logged(noted, Entry(pad, p))

Succeeds(pad, p, v) == ~Blocked(pad, p) /\ ~LogLost(Noted(pad, p, v))

=============================================================================
