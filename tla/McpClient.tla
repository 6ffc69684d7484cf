------------------------------ MODULE McpClient ------------------------------
(***************************************************************************)
(* The MCP client (mcp/client.py) and what it is used for in a turn's task *)
(* (tools/mcp_tool.py).  A client has one session at a time; what it holds *)
(* open - a stream and a session - is on an AsyncExitStack.  The server    *)
(* and the SDK answer, fail or hang as they like; checks of addresses are  *)
(* left out (a connect may fail before it has opened anything).            *)
(***************************************************************************)
EXTENDS Naturals, Sequences, FiniteSets

CONSTANTS Turns, Clients, None

VARIABLES connected, \* _connected of client c
          session, \* its _session
          stack,   \* its _exit_stack
          open,    \* the contexts that are open
          task     \* task[t]: what the task of turn t awaits

clients == <<connected, session, stack>>
mcp == <<clients, open, task>>

\* A connect is named by its turn and client, and so are its stack and session.
Connects == Turns \X Clients

Context(kind, by, on) == [kind |-> kind, by |-> by, on |-> on]
\* One whose aclose was interrupted is on no stack any more.
Contexts == [kind : {"stream", "session"}, by : Connects, on : Connects \cup {None}]

\* "step": the task goes on; otherwise it awaits this, on a stack or a session.
Going == [await |-> "step", client |-> None, on |-> None]
Awaits == {"step", "stream", "session", "initialize", "undo", "list", "invoke", "http",
           "close"}

McpTypeOK ==
  /\ connected \in [Clients -> BOOLEAN]
  /\ session \in [Clients -> Connects \cup {None}]
  /\ stack \in [Clients -> Connects \cup {None}]
  /\ open \subseteq Contexts
  /\ task \in [Turns -> [await : Awaits, client : Clients \cup {None},
                         on : Connects \cup {None}]]

McpInit ==
  /\ connected = [c \in Clients |-> FALSE]
  /\ session = [c \in Clients |-> None] /\ stack = [c \in Clients |-> None]
  /\ open = {}
  /\ task = [t \in Turns |-> Going]

Await(t, a, c, s) == task' = [task EXCEPT ![t] = [await |-> a, client |-> c, on |-> s]]
GoesOn(t) == task' = [task EXCEPT ![t] = Going]
Awaiting(t, a) == task[t].await = a

\* list_tools and invoke refuse to start without a session.
Usable(c) == connected[c] /\ session[c] # None
\* An answer comes from a session that is open.
Alive(s) == \E x \in open : x.kind = "session" /\ x.by = s

-----------------------------------------------------------------------------
\* connect, of a client that is not connected: a new stack takes the place of
\* the one that was there.
Connect(t, c) ==
  /\ stack' = [stack EXCEPT ![c] = <<t, c>>]
  /\ UNCHANGED <<connected, session>>
  /\ Await(t, "stream", c, <<t, c>>)
  /\ UNCHANGED open

\* The session is put on the stack that the client has by then; with none there
\* the connect fails.
OpenStream(t) ==
  /\ Awaiting(t, "stream")
  /\ LET c == task[t].client IN
     /\ open' = open \cup {Context("stream", <<t, c>>, task[t].on)}
     /\ stack[c] # None
     /\ Await(t, "session", c, stack[c])
  /\ UNCHANGED clients

\* Bug: the client says it is connected before the session is initialized.
BugOpenSession(t) ==
  /\ Awaiting(t, "session")
  /\ LET c == task[t].client IN
     /\ open' = open \cup {Context("session", <<t, c>>, task[t].on)}
     /\ session' = [session EXCEPT ![c] = <<t, c>>]
     /\ connected' = [connected EXCEPT ![c] = TRUE]
     /\ Await(t, "initialize", c, None)
  /\ UNCHANGED stack

OpenSession(t) ==
  /\ Awaiting(t, "session")
  /\ LET c == task[t].client IN
     /\ open' = open \cup {Context("session", <<t, c>>, task[t].on)}
     /\ session' = [session EXCEPT ![c] = <<t, c>>]
     /\ Await(t, "initialize", c, None)
  /\ UNCHANGED <<connected, stack>>

\* The tools are listed at once.
Initialized(t) ==
  /\ Awaiting(t, "initialize")
  /\ connected' = [connected EXCEPT ![task[t].client] = TRUE]
  /\ Await(t, "list", task[t].client, session[task[t].client])
  /\ UNCHANGED <<session, stack, open>>

\* A failed connect closes the stack that the client has.
ConnectFails(t) ==
  /\ task[t].await \in {"stream", "session", "initialize"}
  /\ stack[task[t].client] # None
  /\ Await(t, "undo", task[t].client, stack[task[t].client])
  /\ UNCHANGED <<clients, open>>

\* _safe_close_stack is done: an exception of aclose is logged.
Closed(s) == open' = {x \in open : x.on # s}
Unstacked(c) == stack' = [stack EXCEPT ![c] = None] /\ UNCHANGED <<connected, session>>
\* After close: no session either.
Reset(c) ==
  /\ connected' = [connected EXCEPT ![c] = FALSE]
  /\ session' = [session EXCEPT ![c] = None]
  /\ stack' = [stack EXCEPT ![c] = None]

Undone(t) ==
  /\ Awaiting(t, "undo")
  /\ Closed(task[t].on) /\ Unstacked(task[t].client)
  /\ GoesOn(t)

\* There is no stack to close.
ConnectFailsBare(t) ==
  /\ task[t].await \in {"stream", "session", "initialize"}
  /\ stack[task[t].client] = None
  /\ open' \in {open} \cup
       (IF Awaiting(t, "stream")
        THEN {open \cup {Context("stream", <<t, task[t].client>>, task[t].on)}} ELSE {})
  /\ GoesOn(t)
  /\ UNCHANGED clients

\* Bug: a client that is not connected is not closed.
BugClose(t, c) ==
  /\ IF connected[c] THEN Await(t, "close", c, stack[c]) ELSE GoesOn(t)
  /\ UNCHANGED <<clients, open>>

\* close, of a client with a stack and of one without.
Close(t, c) ==
  /\ IF stack[c] = None
     THEN Reset(c) /\ GoesOn(t)
     ELSE Await(t, "close", c, stack[c]) /\ UNCHANGED clients
  /\ UNCHANGED open

ClosesDown(t) ==
  /\ Awaiting(t, "close")
  /\ Closed(task[t].on)
  /\ Reset(task[t].client)
  /\ GoesOn(t)

\* An aclose that is interrupted takes every context off its stack; some may stay
\* open.
Abandoned(s, kinds) ==
  open' = {x \in open : x.on # s} \cup
            {[x EXCEPT !.on = None] : x \in {y \in open : y.on = s /\ y.kind \in kinds}}

\* CancelledError in what the task awaits: connect has no handler for it, so that
\* a stack stays with its client; the finally of _safe_close_stack drops it.
Cut(t) ==
  /\ GoesOn(t)
  /\ IF task[t].await \in {"undo", "close"}
     THEN /\ \E kinds \in SUBSET {"stream", "session"} : Abandoned(task[t].on, kinds)
          /\ Unstacked(task[t].client)
     ELSE UNCHANGED <<clients, open>>

=============================================================================
