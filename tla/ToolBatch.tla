------------------------------ MODULE ToolBatch ------------------------------
(***************************************************************************)
(* The tool calls of one message of a turn (core/loop.py 453-581): an      *)
(* exclusive tool runs alone and the calls beside it are skipped, others   *)
(* run together under asyncio.gather.  A call is begun in its place, gives *)
(* its blocking work to a worker thread or a process, and goes on when     *)
(* that is done; the turn goes on when every call has answered.            *)
(*                                                                         *)
(* A cancelled turn forgets its calls, but work that is under way goes on: *)
(* it keeps its record, under a number beyond those of the live calls.     *)
(***************************************************************************)
EXTENDS Integers, Sequences, FiniteSets

CONSTANTS None,
          Batches,    \* the calls of one message, in their order
          MaxBatch,   \* the calls of one message are at most this many
          MaxCancels, \* bound: turns cancelled
          MaxCrashes  \* bound: restarts of the process

ASSUME BatchAssumption ==
  /\ MaxBatch \in Nat /\ MaxCancels \in Nat /\ MaxCrashes \in Nat
  /\ \A b \in Batches : Len(b) \in 1 .. MaxBatch

VARIABLES turn,    \* "off", "on", "tools" while calls run, "saving" their results
          todo,    \* the calls that are still to begin
          run,     \* run[i]: the call numbered i, or work that outlived one
          cancels  \* turns cancelled

batch == <<turn, todo, run, cancels>>

Live == 1 .. MaxBatch
Left == (MaxBatch + 1) .. (MaxBatch * (MaxCancels + MaxCrashes + 1))
Runs == Live \cup Left

\* A call, where it is and its answer; what it keeps in mind: a list of files,
\* an open file, names in a folder; its process, and one that this started.
Idle == [call |-> None, stage |-> "idle", answer |-> "none",
         view |-> <<>>, file |-> 0, names |-> {}, shell |-> FALSE, child |-> FALSE]

At(i, s) == run[i].stage = s

Ended(i) == run[i].stage \in {"idle", "answered"}

\* Something of call i is still at work outside the event loop.
Busy(i) == ~Ended(i) \/ run[i].shell \/ run[i].child

\* Call i is the next to begin (the numbers count down).
Due(i, tool) == todo # <<>> /\ i = Len(todo) /\ Head(todo).tool = tool

\* It begins with record r, to go on or with its answer.
Begins(i, r) ==
  /\ run' = [run EXCEPT ![i] = [r EXCEPT !.call = Head(todo)]]
  /\ todo' = Tail(todo)
  /\ UNCHANGED <<turn, cancels>>

Answer(a) == [Idle EXCEPT !.stage = "answered", !.answer = a]

\* Its work leaves it with record r; nobody waits for what outlived its call.
Leaves(i, r) ==
  /\ run' = [run EXCEPT ![i] = IF i \in Live THEN r ELSE Idle]
  /\ UNCHANGED <<turn, todo, cancels>>

Steps(i, r) == run' = [run EXCEPT ![i] = r] /\ UNCHANGED <<turn, todo, cancels>>

\* A function without the elements S of its domain, and with x at k.
Without(f, S) == [j \in DOMAIN f \ S |-> f[j]]
With(f, k, x) == [j \in DOMAIN f \cup {k} |-> IF j = k THEN x ELSE f[j]]

=============================================================================
