------------------------------ MODULE TurnTools ------------------------------
(***************************************************************************)
(* The tools of a turn that come from outside (core/tools.py 73-199,       *)
(* core/loop.py 340-350, 377, 232-248, 657-663): a provider connects to    *)
(* MCP servers and lists their tools, the turn's overlay shows them beside *)
(* the builtin ones, calls go to them or to an HTTP tool, and the turn's   *)
(* cleanups close them, whether the turn ends, fails or is cancelled       *)
(* (host/router.py 428-456).                                               *)
(*                                                                         *)
(* The repository has the hook but no provider: the one here registers the *)
(* close of each client before it connects it, and gives up or goes on     *)
(* without the client when that fails.                                     *)
(***************************************************************************)
EXTENDS McpClient, SequencesExt

CONSTANTS Wanted,   \* Wanted[t]: the clients that the provider uses in turn t, once each
          Offers,   \* Offers[c]: names of the tools that the server of c lists
          Builtins, \* names of the registered tools
          Http,     \* a name of a registered HTTP tool
          MaxCalls  \* bound: calls in one turn

ASSUME ToolsAssumption ==
  /\ MaxCalls \in Nat /\ Http \in Builtins
  /\ Wanted \in [Turns -> SUBSET Clients]
  /\ None \notin Clients \cup Connects /\ "builtin" \notin Clients \cup {None}

VARIABLES stage,    \* stage[t]: new, provider, on, drain or done
          left,     \* left[t]: clients that the provider still has to connect
          cleanups, \* cleanups[t]: the clients whose close is still to run
          overlay,  \* overlay[t]: which client has the tool of that name
          shown,    \* shown[t]: the tools whose definitions the model has
          call,     \* call[t]: the tool that runs and its name
          calls,    \* calls[t]: how many the turn has made
          cancelled, \* turns that a user cancelled
          struck,   \* turns that were cancelled while they drained
          shared    \* clients that two turns used at the same time

asked == <<call, calls>>
turns == <<stage, left, cleanups, overlay, shown, asked, cancelled, struck, shared>>
vars == <<mcp, turns>>

NoCall == [name |-> None, tool |-> None]

Names == Builtins \cup UNION {Offers[c] : c \in Clients}
Toolboxes(S) == UNION {[D -> S] : D \in SUBSET Names}

\* A turn awaits what its stage is about.
Fits(t) ==
  /\ task[t].await \in {"stream", "session", "initialize", "undo", "list"}
       => stage[t] = "provider"
  /\ task[t].await \in {"invoke", "http"} => stage[t] = "on"
  /\ Awaiting(t, "close") => stage[t] = "drain"

TypeOK ==
  /\ McpTypeOK
  /\ stage \in [Turns -> {"new", "provider", "on", "drain", "done"}]
  /\ \A t \in Turns : Fits(t)
  /\ left \in [Turns -> SUBSET Clients] /\ cleanups \in [Turns -> Seq(Clients)]
  /\ overlay \in [Turns -> Toolboxes(Clients)]
  /\ shown \in [Turns -> Toolboxes(Clients \cup {"builtin"})]
  /\ call \in [Turns -> [name : Names \cup {None}, tool : Clients \cup {"builtin", None}]]
  /\ calls \in [Turns -> 0 .. MaxCalls]
  /\ cancelled \subseteq Turns /\ struck \subseteq cancelled /\ shared \subseteq Clients

Init ==
  /\ McpInit
  /\ stage = [t \in Turns |-> "new"]
  /\ left = Wanted
  /\ cleanups = [t \in Turns |-> <<>>]
  /\ overlay = [t \in Turns |-> <<>>]
  /\ shown = [t \in Turns |-> <<>>]
  /\ call = [t \in Turns |-> NoCall] /\ calls = [t \in Turns |-> 0]
  /\ cancelled = {} /\ struck = {} /\ shared = {}

\* set_dynamic_tools_for_turn: the last tool of a name wins.
Overlaid(over, c) ==
  [n \in DOMAIN over \cup Offers[c] |-> IF n \in Offers[c] THEN c ELSE over[n]]

Builtin == [n \in Builtins |-> "builtin"]

\* _visible_tools, and get_tool_by_name: builtin tools win.
Visible(over) ==
  [n \in DOMAIN over \cup Builtins |-> IF n \in Builtins THEN Builtin[n] ELSE over[n]]

\* Bug: the turn's own tools win.
BugFound(n, over) == IF n \in DOMAIN over THEN over[n] ELSE Builtin[n]

Found(n, over) == IF n \in Builtins THEN Builtin[n] ELSE over[n]

-----------------------------------------------------------------------------
(* The provider *)

Start(t) ==
  /\ stage[t] = "new"
  /\ stage' = [stage EXCEPT ![t] = "provider"]
  /\ UNCHANGED <<mcp, left, cleanups, overlay, shown, asked, cancelled, struck, shared>>

\* A turn uses a client from its connect to its close.
Uses(t, c) == stage[t] # "done" /\ (c \in ToSet(cleanups[t]) \/ task[t].client = c)

\* register_turn_cleanup(client.close), then connect.
Provide(t) ==
  /\ stage[t] = "provider" /\ Awaiting(t, "step")
  /\ \E c \in left[t] :
     /\ cleanups' = [cleanups EXCEPT ![t] = Append(@, c)]
     /\ shared' = IF \E u \in Turns \ {t} : Uses(u, c)
                  THEN shared \cup {c} ELSE shared
     /\ IF connected[c]
        THEN Await(t, "list", c, session[c]) /\ UNCHANGED <<clients, open>>
        ELSE Connect(t, c)
     /\ left' = [left EXCEPT ![t] = @ \ {c}]
  /\ UNCHANGED <<stage, overlay, shown, asked, cancelled, struck>>

Connecting(t) ==
  /\ OpenStream(t) \/ OpenSession(t) \/ Initialized(t)
  /\ UNCHANGED turns

Listed(t) ==
  /\ Awaiting(t, "list") /\ Alive(task[t].on)
  /\ overlay' = [overlay EXCEPT ![t] = Overlaid(@, task[t].client)]
  /\ GoesOn(t)
  /\ UNCHANGED <<clients, open, stage, left, cleanups, shown, asked, cancelled, struck, shared>>

\* The turn makes no more calls; both context variables are reset after its drain.
Leaves(t) ==
  /\ overlay' = [overlay EXCEPT ![t] = <<>>]
  /\ shown' = [shown EXCEPT ![t] = <<>>]
  /\ call' = [call EXCEPT ![t] = NoCall]
  /\ calls' = [calls EXCEPT ![t] = 0]

\* A server is unavailable: the turn does without it, or fails.
GivesUp(t) ==
  /\ \/ UNCHANGED <<stage, overlay, shown, asked>>
     \/ stage' = [stage EXCEPT ![t] = "drain"] /\ Leaves(t)
  /\ UNCHANGED <<left, cleanups, cancelled, struck, shared>>

Unavailable(t) ==
  \/ ConnectFails(t) /\ UNCHANGED turns
  \/ (Undone(t) \/ ConnectFailsBare(t)) /\ GivesUp(t)
  \/ Awaiting(t, "list") /\ GoesOn(t) /\ UNCHANGED <<clients, open>> /\ GivesUp(t)

Provided(t) ==
  /\ stage[t] = "provider" /\ Awaiting(t, "step") /\ left[t] = {}
  /\ stage' = [stage EXCEPT ![t] = "on"]
  /\ shown' = [shown EXCEPT ![t] = Visible(overlay[t])]
  /\ UNCHANGED <<mcp, left, cleanups, overlay, asked, cancelled, struck, shared>>

-----------------------------------------------------------------------------
(* Calls *)

\* A call of a tool whose client has no session is answered at once.
Ask(t) ==
  /\ stage[t] = "on" /\ Awaiting(t, "step") /\ calls[t] < MaxCalls
  /\ \E n \in DOMAIN shown[t] :
       LET tool == Found(n, overlay[t]) IN
       /\ n = Http \/ tool # "builtin"
       /\ call' = [call EXCEPT ![t] = [name |-> n, tool |-> tool]]
       /\ calls' = [calls EXCEPT ![t] = @ + 1]
       /\ IF tool = "builtin" THEN Await(t, "http", None, None)
          ELSE IF Usable(tool) THEN Await(t, "invoke", tool, session[tool])
          ELSE GoesOn(t)
  /\ UNCHANGED <<clients, open, stage, left, cleanups, overlay, shown, cancelled, struck, shared>>

\* An answer, an error, a timeout or a lost connection: the call is over.
Answered(t) ==
  /\ Awaiting(t, "invoke") \/ Awaiting(t, "http")
  /\ GoesOn(t)
  /\ UNCHANGED <<clients, open, turns>>

-----------------------------------------------------------------------------
(* The end *)

End(t) ==
  /\ stage[t] = "on" /\ Awaiting(t, "step")
  /\ stage' = [stage EXCEPT ![t] = "drain"]
  /\ Leaves(t)
  /\ UNCHANGED <<mcp, left, cleanups, cancelled, struck, shared>>

\* drain_turn_cleanups: the next cleanup.
Clean(t) ==
  /\ stage[t] = "drain" /\ Awaiting(t, "step") /\ cleanups[t] # <<>>
  /\ Close(t, Head(cleanups[t]))
  /\ cleanups' = [cleanups EXCEPT ![t] = Tail(@)]
  /\ UNCHANGED <<stage, left, overlay, shown, asked, cancelled, struck, shared>>

Cleaned(t) ==
  /\ ClosesDown(t)
  /\ UNCHANGED turns

\* Bug: the cleanups are started, not awaited.
BugDone(t) ==
  /\ stage[t] = "drain" /\ cleanups[t] = <<>>
  /\ stage' = [stage EXCEPT ![t] = "done"]
  /\ UNCHANGED <<mcp, left, cleanups, overlay, shown, asked, cancelled, struck, shared>>

Done(t) ==
  /\ stage[t] = "drain" /\ Awaiting(t, "step") /\ cleanups[t] = <<>>
  /\ stage' = [stage EXCEPT ![t] = "done"]
  /\ UNCHANGED <<mcp, left, cleanups, overlay, shown, asked, cancelled, struck, shared>>

\* A cancelled turn drains; one that drains already is done, and the rest of its
\* cleanups is not run.
CancelTurn(t) ==
  /\ t \notin cancelled /\ stage[t] \notin {"new", "done"}
  /\ cancelled' = cancelled \cup {t}
  /\ Cut(t)
  /\ stage' = [stage EXCEPT ![t] = IF @ = "drain" THEN "done" ELSE "drain"]
  /\ struck' = IF stage[t] = "drain" THEN struck \cup {t} ELSE struck
  /\ Leaves(t)
  /\ UNCHANGED <<left, cleanups, shared>>

\* Bug: the second cancel does not reach the cleanup.
BugRecancel(t) == t \in cancelled /\ stage[t] = "drain" /\ UNCHANGED vars

\* wait_for's five seconds are over: it cancels the turn once more, and waits.
Recancel(t) ==
  /\ t \in cancelled /\ stage[t] = "drain"
  /\ Cut(t)
  /\ stage' = [stage EXCEPT ![t] = "done"]
  /\ struck' = struck \cup {t}
  /\ UNCHANGED <<left, cleanups, overlay, shown, asked, cancelled, shared>>

Step(t) ==
  \/ Start(t) \/ Provide(t) \/ Connecting(t) \/ Listed(t)
  \/ Unavailable(t) \/ Provided(t)
  \/ Ask(t) \/ Answered(t)
  \/ End(t) \/ Clean(t) \/ Cleaned(t) \/ Done(t) \/ CancelTurn(t) \/ Recancel(t)

Next == \E t \in Turns : Step(t)

Spec == Init /\ [][Next]_vars

\* The clock of wait_for runs.
FairSpec == Spec /\ \A t \in Turns : WF_vars(Recancel(t))

-----------------------------------------------------------------------------
(* Properties, of clients that one turn uses at a time: see the README *)

Unshared == Clients \ shared
Of(c) == {x \in open : x.by[2] = c}
Struck(c) == \E t \in struck : c \in Wanted[t]
Closing(c) == \E t \in Turns : task[t].await \in {"undo", "close"} /\ task[t].client = c

\* What a client has opened is on the stack that it will close, through failed and
\* cancelled connects, but for what a close was at when it was interrupted, and for
\* the clients of a turn whose cleanups were cut short.
Held == \A c \in Unshared : ~Struck(c) => \A x \in Of(c) : x.on \in {stack[c], None}

\* A turn that is over has left nothing open, however its connects failed or were
\* cancelled, but for the contexts of a failed connect that was being undone when
\* the cancel came: they are on no stack any more.  Nothing is said of a turn that
\* was cancelled while its cleanups ran: the rest of them is never run.
NothingLeaks ==
  \A t \in Turns \ struck : stage[t] = "done" =>
    \A c \in Unshared : \A x \in Of(c) : x.by[1] = t => x.on = None

\* A client that says it is connected has an open session, unless it is being
\* closed or its close was interrupted.
ConnectedIsOpen ==
  \A c \in Unshared :
    (connected[c] /\ ~Closing(c) /\ ~Struck(c)) =>
      \E x \in Of(c) : x.kind = "session" /\ x.by = session[c]

\* The tool that runs is the one whose definition the model was given, whatever
\* names servers and builtin tools share.
ShownIsRun ==
  \A t \in Turns : call[t].name # None => call[t].tool = shown[t][call[t].name]

\* A turn that makes calls finds every client whose tools the model was shown with
\* its session open, whatever became of the other clients, and of the turns that
\* had the client before and closed it.
ShownIsReady ==
  \A t \in Turns : stage[t] = "on" => \A n \in DOMAIN shown[t] :
    LET c == shown[t][n] IN c \in Unshared => Usable(c) /\ Alive(session[c])

\* A cancelled turn ends, though one of its cleanups may hang.
CancelEnds == \A t \in Turns : t \in cancelled ~> stage[t] = "done"

=============================================================================
