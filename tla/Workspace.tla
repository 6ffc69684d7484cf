------------------------------ MODULE Workspace ------------------------------
(***************************************************************************)
(* A conversation's workspace: the directory, the workspace tool's calls   *)
(* on it (tools/workspace.py, host/stores/workspace_store.py), and the     *)
(* processes that run_bash starts in it (tools/bash.py).  Path checks, the *)
(* texts and what a command prints are left out.                           *)
(***************************************************************************)
EXTENDS ToolBatch, SequencesExt

CONSTANTS Paths,    \* files and folders below the root: sequences of names
          Texts,    \* what is uploaded
          Dir, Part, Torn, Foreign, \* a folder; a file that was just opened; one
                    \* written by two; one that a command wrote
          MaxTouches \* bound: changes that commands make

ASSUME PathsAssumption ==
  /\ Paths \subseteq Seq(STRING) \ {<<>>} /\ IsFiniteSet(Paths)
  /\ \A p \in Paths : Len(p) > 1 => Front(p) \in Paths
  /\ \A p \in Paths : Len(p) <= 2  \* a folder's folders are empty

VARIABLES tree,    \* tree[p]: the folder or file at p, if there is one
          alone,   \* nothing was at work when the message's calls began
          touches

space == <<tree, alone, touches>>

Node(id, text) == [id |-> id, text |-> text]
Folder == Node(0, Dir)
Contents == Texts \cup {Part, Torn, Foreign}

SpaceTypeOK ==
  /\ DOMAIN tree \subseteq Paths /\ alone \in BOOLEAN /\ touches \in 0 .. MaxTouches
  /\ \A p \in DOMAIN tree :
       /\ tree[p] = Folder \/ (tree[p].id # 0 /\ tree[p].text \in Contents)
       /\ Len(p) > 1 => Front(p) \in DOMAIN tree /\ tree[Front(p)] = Folder

SpaceInit == tree = <<>> /\ alone = TRUE /\ touches = 0

Above(p)    == {q \in Paths : IsStrictPrefix(q, p)}
Children(p) == {q \in DOMAIN tree : Len(q) = Len(p) + 1 /\ IsPrefix(p, q)}
IsFolder(p) == p = <<>> \/ (p \in DOMAIN tree /\ tree[p] = Folder)
IsFile(p)   == p \in DOMAIN tree /\ tree[p] # Folder

\* mkdir(parents=True, exist_ok=True) of the folders P.
Made(P) == [q \in DOMAIN tree \cup P |-> IF q \in P THEN Folder ELSE tree[q]]
CanMake(P) == \A q \in P : ~IsFile(q)

\* What a call that makes folders first does: it goes on with r, or cannot.
Making(i, P, r) ==
  /\ tree' = IF CanMake(P) THEN Made(P) ELSE tree
  /\ Begins(i, IF CanMake(P) THEN r ELSE Answer("error"))
  /\ UNCHANGED <<alone, touches>>

-----------------------------------------------------------------------------
(* The workspace tool *)

\* A folder may lose an entry between iterdir and its stat.
BeginList(i) ==
  /\ Due(i, "list")
  /\ LET p == Head(todo).path IN
     \E a \in {"ok"} \cup (IF \E j \in Runs : Busy(j) THEN {"error"} ELSE {}) :
       Making(i, ({p} \cup Above(p)) \ {<<>>}, Answer(a))

BeginFolder(i) ==
  /\ Due(i, "folder")
  /\ LET p == Head(todo).path IN Making(i, {p} \cup Above(p), Answer("ok"))

BeginUpload(i) ==
  /\ Due(i, "upload")
  /\ Making(i, Above(Head(todo).path), [Idle EXCEPT !.stage = "opening"])

Opened == {run[j].file : j \in Runs}
FreshId == CHOOSE n \in 1 .. (Cardinality(Runs) + Cardinality(Paths) + 1) :
             n \notin Opened \cup {tree[p].id : p \in DOMAIN tree}

\* write_bytes opens the file, and empties one that is there...
OpenFile(i) ==
  /\ At(i, "opening")
  /\ LET p  == run[i].call.path
         id == IF IsFile(p) THEN tree[p].id ELSE FreshId IN
     IF IsFolder(Front(p)) /\ ~IsFolder(p)
     THEN /\ tree' = With(tree, p, Node(id, Part))
          /\ Steps(i, [run[i] EXCEPT !.stage = "writing", !.file = id])
     ELSE Leaves(i, [run[i] EXCEPT !.stage = "raised"]) /\ UNCHANGED tree
  /\ UNCHANGED <<alone, touches>>

\* ... and writes it, even if the file is in no folder any more.
WriteFile(i) ==
  /\ At(i, "writing")
  /\ LET p == run[i].call.path
         there == p \in DOMAIN tree /\ tree[p].id = run[i].file
         shared ==
           \/ there /\ tree[p].text # Part
           \/ \E j \in Runs \ {i} : At(j, "writing") /\ run[j].file = run[i].file
     IN \E x \in {run[i].call.text} \cup (IF shared THEN {Torn} ELSE {}) :
          tree' = IF there THEN With(tree, p, Node(run[i].file, x)) ELSE tree
  /\ Leaves(i, [run[i] EXCEPT !.stage = "worked", !.file = 0])
  /\ UNCHANGED <<alone, touches>>

BeginRemove(i) ==
  /\ Due(i, "remove")
  /\ LET p == Head(todo).path IN
     \/ p \notin DOMAIN tree /\ Begins(i, Answer("gone"))
     \/ IsFile(p) /\ Begins(i, [Idle EXCEPT !.stage = "removing"])
     \/ p \in DOMAIN tree /\ IsFolder(p) /\ Begins(i, [Idle EXCEPT !.stage = "scanning"])
  /\ UNCHANGED space

RemoveFile(i) ==
  /\ At(i, "removing")
  /\ LET p == run[i].call.path IN
     IF IsFile(p)
     THEN /\ tree' = Without(tree, {p})
          /\ Leaves(i, [run[i] EXCEPT !.stage = "worked"])
     ELSE Leaves(i, [run[i] EXCEPT !.stage = "raised"]) /\ UNCHANGED tree
  /\ UNCHANGED <<alone, touches>>

\* rmtree: list the folder, remove what it listed one by one, then the folder.
Scan(i) ==
  /\ At(i, "scanning")
  /\ Steps(i, [run[i] EXCEPT !.stage = "clearing", !.names = Children(run[i].call.path)])
  /\ UNCHANGED space

Clear(i) ==
  /\ At(i, "clearing") /\ run[i].names # {}
  /\ \E q \in run[i].names :
       IF q \in DOMAIN tree
       THEN /\ tree' = Without(tree, {q})
            /\ Steps(i, [run[i] EXCEPT !.names = @ \ {q}])
       ELSE Leaves(i, [run[i] EXCEPT !.stage = "raised", !.names = {}]) /\ UNCHANGED tree
  /\ UNCHANGED <<alone, touches>>

\* Bug: the folder is removed with what has come into it.
BugRemoveFolder(i) ==
  /\ At(i, "clearing") /\ run[i].names = {}
  /\ tree' = Without(tree, {run[i].call.path})
  /\ Leaves(i, [run[i] EXCEPT !.stage = "worked"])
  /\ UNCHANGED <<alone, touches>>

RemoveFolder(i) ==
  /\ At(i, "clearing") /\ run[i].names = {}
  /\ LET p == run[i].call.path IN
     IF p \in DOMAIN tree /\ IsFolder(p) /\ Children(p) = {}
     THEN /\ tree' = Without(tree, {p})
          /\ Leaves(i, [run[i] EXCEPT !.stage = "worked"])
     ELSE Leaves(i, [run[i] EXCEPT !.stage = "raised"]) /\ UNCHANGED tree
  /\ UNCHANGED <<alone, touches>>

\* The call goes on: an exception is an answer too.
Reply(i) ==
  /\ At(i, "worked") \/ At(i, "raised")
  /\ Steps(i, [run[i] EXCEPT !.stage = "answered",
                             !.answer = IF At(i, "worked") THEN "ok" ELSE "error"])
  /\ UNCHANGED space

-----------------------------------------------------------------------------
(* run_bash *)

BeginCommand(i) ==
  /\ Due(i, "bash")
  /\ LET p == Head(todo).path IN
     Making(i, ({p} \cup Above(p)) \ {<<>>}, [Idle EXCEPT !.stage = "waiting", !.shell = TRUE])

\* A command, or what it left running, changes the workspace.
Touch(i) ==
  /\ (run[i].shell \/ run[i].child) /\ touches < MaxTouches /\ touches' = touches + 1
  /\ \E p \in Paths :
       \/ IsFolder(Front(p)) /\ ~IsFolder(p) /\ tree' = With(tree, p, Node(FreshId, Foreign))
       \/ p \in DOMAIN tree /\ Children(p) = {} /\ tree' = Without(tree, {p})
  /\ UNCHANGED <<batch, alone>>

\* It starts a process in the background that keeps its output open.
Fork(i) ==
  /\ run[i].shell /\ ~run[i].child
  /\ Steps(i, [run[i] EXCEPT !.child = TRUE])
  /\ UNCHANGED space

ShellExits(i) ==
  /\ run[i].shell
  /\ IF At(i, "stray") /\ ~run[i].child THEN Steps(i, Idle)
     ELSE Steps(i, [run[i] EXCEPT !.shell = FALSE])
  /\ UNCHANGED space

ChildExits(i) ==
  /\ run[i].child
  /\ IF At(i, "stray") /\ ~run[i].shell THEN Steps(i, Idle)
     ELSE Steps(i, [run[i] EXCEPT !.child = FALSE])
  /\ UNCHANGED space

\* communicate() ends when the output is closed and the shell is done; after a
\* timeout the answer is an error.
EndCommand(i) ==
  /\ At(i, "waiting") \/ At(i, "draining")
  /\ ~run[i].shell /\ ~run[i].child
  /\ Steps(i, [run[i] EXCEPT !.stage = "answered",
                             !.answer = IF At(i, "waiting") THEN "ok" ELSE "error"])
  /\ UNCHANGED space

\* Bug: the shell is not killed.
BugTimeout(i) ==
  /\ At(i, "waiting") /\ (run[i].shell \/ run[i].child)
  /\ Steps(i, [run[i] EXCEPT !.stage = "draining"])
  /\ UNCHANGED space

\* wait_for gives up: the shell is killed, and its output is read to its end.
Timeout(i) ==
  /\ At(i, "waiting") /\ (run[i].shell \/ run[i].child)
  /\ Steps(i, [run[i] EXCEPT !.stage = "draining", !.shell = FALSE])
  /\ UNCHANGED space

=============================================================================
