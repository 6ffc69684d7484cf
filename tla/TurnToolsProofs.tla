--------------------------- MODULE TurnToolsProofs ---------------------------
(***************************************************************************)
(* Proofs about TurnTools, for every set of turns and clients: types, the  *)
(* tool that runs, success that is true, and that the turns' clients leave *)
(* nothing open.                                                           *)
(***************************************************************************)
EXTENDS TurnTools, TLAPS

-----------------------------------------------------------------------------
(* Sequences and toolboxes *)

LEMMA AppendSet ==
  ASSUME NEW S, NEW s \in Seq(S), NEW e \in S
  PROVE  /\ Append(s, e) \in Seq(S)
         /\ ToSet(Append(s, e)) = ToSet(s) \cup {e}
<1>1. /\ Append(s, e) \in Seq(S) /\ DOMAIN Append(s, e) = 1 .. Len(s) + 1
      /\ Append(s, e)[Len(s) + 1] = e
      /\ \A i \in 1 .. Len(s) : Append(s, e)[i] = s[i]
  OBVIOUS
<1>2. DOMAIN s = 1 .. Len(s) /\ Len(s) \in Nat
  OBVIOUS
<1>3. ToSet(Append(s, e)) \subseteq ToSet(s) \cup {e}
  BY <1>1, <1>2 DEF ToSet
<1>4. ToSet(s) \subseteq ToSet(Append(s, e))
  BY <1>1, <1>2 DEF ToSet
<1>5. e \in ToSet(Append(s, e))
  BY <1>1, <1>2 DEF ToSet
<1>6. QED
  BY <1>1, <1>3, <1>4, <1>5

LEMMA TailSet ==
  ASSUME NEW S, NEW s \in Seq(S), s # <<>>
  PROVE  /\ Head(s) \in S /\ Tail(s) \in Seq(S)
         /\ ToSet(s) = {Head(s)} \cup ToSet(Tail(s))
<1>1. /\ Head(s) = s[1] /\ Head(s) \in S /\ Tail(s) \in Seq(S)
      /\ DOMAIN s = 1 .. Len(s) /\ Len(s) \in Nat /\ Len(s) > 0
      /\ DOMAIN Tail(s) = 1 .. Len(s) - 1
      /\ \A i \in 1 .. Len(s) - 1 : Tail(s)[i] = s[i + 1]
  OBVIOUS
<1>2. ToSet(Tail(s)) \subseteq ToSet(s)
  BY <1>1 DEF ToSet
<1>3. Head(s) \in ToSet(s)
  BY <1>1 DEF ToSet
<1>4. ASSUME NEW x \in ToSet(s), x # Head(s)
      PROVE  x \in ToSet(Tail(s))
  <2>1. PICK i \in 1 .. Len(s) : s[i] = x
    BY <1>1 DEF ToSet
  <2>2. i # 1
    BY <2>1, <1>4, <1>1
  <2>3. i - 1 \in 1 .. Len(s) - 1 /\ Tail(s)[i - 1] = s[i]
    BY <2>2, <1>1
  <2>4. QED
    BY <2>1, <2>3, <1>1 DEF ToSet
<1>5. QED
  BY <1>1, <1>2, <1>3, <1>4

LEMMA EmptyBox == \A S : <<>> \in Toolboxes(S)
<1>1. \A S : <<>> \in [{} -> S]
  OBVIOUS
<1>2. QED
  BY <1>1 DEF Toolboxes

LEMMA OverlaidType ==
  ASSUME NEW over \in Toolboxes(Clients), NEW c \in Clients
  PROVE  Overlaid(over, c) \in Toolboxes(Clients)
<1>1. PICK D \in SUBSET Names : over \in [D -> Clients]
  BY DEF Toolboxes
<1>2. D \cup Offers[c] \in SUBSET Names
  BY DEF Names
<1>3. Overlaid(over, c) \in [D \cup Offers[c] -> Clients]
  BY <1>1 DEF Overlaid
<1>4. QED
  BY <1>2, <1>3 DEF Toolboxes

LEMMA VisibleType ==
  ASSUME NEW over \in Toolboxes(Clients)
  PROVE  /\ Visible(over) \in Toolboxes(Clients \cup {"builtin"})
         /\ \A n \in DOMAIN Visible(over) :
              /\ n \in Names /\ Found(n, over) = Visible(over)[n]
              /\ Found(n, over) \in Clients \cup {"builtin"}
              /\ n \notin Builtins => n \in DOMAIN over /\ Found(n, over) = over[n]
<1>1. PICK D \in SUBSET Names : over \in [D -> Clients]
  BY DEF Toolboxes
<1>2. D \cup Builtins \in SUBSET Names
  BY DEF Names
<1>3. Visible(over) \in [D \cup Builtins -> Clients \cup {"builtin"}]
  BY <1>1 DEF Visible, Builtin
<1>4. \A n \in DOMAIN Visible(over) :
        /\ Found(n, over) = Visible(over)[n]
        /\ n \notin Builtins => n \in DOMAIN over /\ Found(n, over) = over[n]
  BY <1>1 DEF Visible, Found
<1>5. QED
  BY <1>2, <1>3, <1>4 DEF Toolboxes

-----------------------------------------------------------------------------
(* Types.  A task that connects or closes knows its client and stack, and  *)
(* a turn that makes calls shows what it has.                              *)

TaskOK(t) ==
  /\ task[t].await \in {"stream", "session", "undo", "close"} =>
       task[t].client \in Clients /\ task[t].on \in Connects
  /\ task[t].await \in {"initialize", "list", "invoke"} => task[t].client \in Clients
  /\ task[t].await \in {"step", "http"} => task[t].client = None

CallOK(t) ==
  /\ stage[t] # "on" => call[t] = NoCall
  /\ stage[t] = "on" => shown[t] = Visible(overlay[t])

TInv == TypeOK /\ \A t \in Turns : TaskOK(t) /\ CallOK(t)

LEMMA TypeInit == Init => TInv
<1> USE ToolsAssumption
<1> SUFFICES ASSUME Init PROVE TInv
  OBVIOUS
<1>1. McpTypeOK
  BY DEF Init, McpInit, McpTypeOK, Going, Awaits
<1>2. TypeOK
  BY <1>1, EmptyBox DEF Init, McpInit, TypeOK, NoCall, Fits, Awaiting, Going
<1>3. QED
  BY <1>2 DEF TInv, TaskOK, CallOK, Init, McpInit, Going

Tasks == [Turns -> [await : Awaits, client : Clients \cup {None}, on : Connects \cup {None}]]

\* What a task awaits after a step, and that the others await what they did.
LEMMA AwaitSet ==
  ASSUME task \in Tasks, NEW t \in Turns, NEW a \in Awaits, NEW c \in Clients \cup {None},
         NEW s \in Connects \cup {None}, Await(t, a, c, s)
  PROVE  /\ task' \in Tasks
         /\ task'[t].await = a /\ task'[t].client = c /\ task'[t].on = s
         /\ \A u \in Turns \ {t} : task'[u] = task[u]
  BY DEF Await, Tasks

LEMMA GoesOnSet ==
  ASSUME task \in Tasks, NEW t \in Turns, GoesOn(t)
  PROVE  /\ task' \in Tasks
         /\ task'[t].await = "step" /\ task'[t].client = None /\ task'[t].on = None
         /\ \A u \in Turns \ {t} : task'[u] = task[u]
  BY DEF GoesOn, Going, Tasks, Awaits

\* What a step of turn t has to keep.
ClientTypes ==
  /\ connected \in [Clients -> BOOLEAN]
  /\ session \in [Clients -> Connects \cup {None}]
  /\ stack \in [Clients -> Connects \cup {None}]
  /\ open \subseteq Contexts

TurnTypes ==
  /\ stage \in [Turns -> {"new", "provider", "on", "drain", "done"}]
  /\ left \in [Turns -> SUBSET Clients] /\ cleanups \in [Turns -> Seq(Clients)]
  /\ overlay \in [Turns -> Toolboxes(Clients)]
  /\ shown \in [Turns -> Toolboxes(Clients \cup {"builtin"})]
  /\ cancelled \subseteq Turns /\ struck \subseteq cancelled /\ shared \subseteq Clients

CallTypes ==
  /\ call \in [Turns -> [name : Names \cup {None}, tool : Clients \cup {"builtin", None}]]
  /\ calls \in [Turns -> 0 .. MaxCalls]

Types == ClientTypes /\ task \in Tasks /\ TurnTypes /\ CallTypes

\* An aclose that is interrupted: what is open is what was, or comes off its stack.
LEMMA AbandonedSet ==
  ASSUME ClientTypes, NEW s \in Connects, NEW kinds, Abandoned(s, kinds)
  PROVE  /\ open' \subseteq Contexts
         /\ \A x \in open' : \/ x \in open /\ x.on # s
                            \/ /\ x.on = None
                               /\ \E y \in open : y.on = s /\ x.by = y.by
         /\ \A x \in open : x.on # s => x \in open'
<1>1. \A y \in open : /\ [y EXCEPT !.on = None] \in Contexts
                     /\ [y EXCEPT !.on = None].on = None
                     /\ [y EXCEPT !.on = None].by = y.by
  BY DEF ClientTypes, Contexts
<1>2. \A x : x \in open' <=>
        \/ x \in open /\ x.on # s
        \/ \E y \in open : y.on = s /\ y.kind \in kinds /\ x = [y EXCEPT !.on = None]
  BY DEF Abandoned
<1>3. ASSUME NEW x \in open', ~(x \in open /\ x.on # s)
      PROVE  /\ x.on = None /\ x \in Contexts
             /\ \E y \in open : y.on = s /\ x.by = y.by
  <2>1. PICK y \in open : y.on = s /\ x = [y EXCEPT !.on = None]
    BY <1>2, <1>3
  <2>2. x.on = None /\ x \in Contexts /\ x.by = y.by
    BY <1>1, <2>1
  <2>3. QED
    BY <2>1, <2>2
<1>4. open' \subseteq Contexts
  BY <1>3 DEF ClientTypes
<1>5. QED
  BY <1>2, <1>3, <1>4

\* A cancel leaves the clients their types.
LEMMA CutTypes ==
  ASSUME ClientTypes, NEW t \in Turns, TaskOK(t), Cut(t)
  PROVE  ClientTypes'
<1>1. CASE task[t].await \in {"undo", "close"}
  <2>1. task[t].on \in Connects /\ \E kinds : Abandoned(task[t].on, kinds)
    BY <1>1 DEF TaskOK, Cut
  <2>2. open' \subseteq Contexts
    BY <2>1, AbandonedSet
  <2>3. QED
    BY <1>1, <2>2 DEF Cut, Unstacked, ClientTypes, TaskOK
<1>2. CASE task[t].await \notin {"undo", "close"}
  BY <1>2 DEF Cut, clients, ClientTypes
<1>3. QED
  BY <1>1, <1>2

LEMMA LeavesTypes ==
  ASSUME CallTypes, overlay \in [Turns -> Toolboxes(Clients)],
         shown \in [Turns -> Toolboxes(Clients \cup {"builtin"})],
         NEW t \in Turns, Leaves(t)
  PROVE  /\ CallTypes'
         /\ overlay' \in [Turns -> Toolboxes(Clients)]
         /\ shown' \in [Turns -> Toolboxes(Clients \cup {"builtin"})]
<1> USE ToolsAssumption
<1>1. CallTypes'
  BY DEF Leaves, NoCall, CallTypes
<1>2. QED
  BY <1>1, EmptyBox DEF Leaves

\* A step of turn t keeps the shape of all turns if it keeps that of t.
LEMMA OthersKept ==
  ASSUME TInv, NEW t \in Turns,
         \A u \in Turns \ {t} :
           /\ task'[u] = task[u] /\ stage'[u] = stage[u] /\ call'[u] = call[u]
           /\ shown'[u] = shown[u] /\ overlay'[u] = overlay[u],
         Fits(t)', TaskOK(t)', CallOK(t)'
  PROVE  \A u \in Turns : Fits(u)' /\ TaskOK(u)' /\ CallOK(u)'
<1>1. SUFFICES ASSUME NEW u \in Turns \ {t}
               PROVE  Fits(u)' /\ TaskOK(u)' /\ CallOK(u)'
  OBVIOUS
<1>2. /\ task'[u] = task[u] /\ stage'[u] = stage[u] /\ call'[u] = call[u]
      /\ shown'[u] = shown[u] /\ overlay'[u] = overlay[u]
  OBVIOUS
<1>3. Fits(u) /\ TaskOK(u) /\ CallOK(u)
  BY DEF TInv, TypeOK
<1>4. Fits(u)' /\ TaskOK(u)'
  BY <1>2, <1>3 DEF Fits, TaskOK, Awaiting
<1>5. CallOK(u)'
  BY <1>2, <1>3 DEF CallOK
<1>6. QED
  BY <1>4, <1>5

LEMMA TInvParts == TInv <=> Types /\ \A t \in Turns : Fits(t) /\ TaskOK(t) /\ CallOK(t)
  BY DEF TInv, Types, TypeOK, McpTypeOK, ClientTypes, Tasks, TurnTypes, CallTypes

LEMMA KeptByOne ==
  ASSUME TInv, NEW t \in Turns,
         ClientTypes', task' \in Tasks, TurnTypes', CallTypes',
         \A u \in Turns \ {t} :
           /\ task'[u] = task[u] /\ stage'[u] = stage[u] /\ call'[u] = call[u]
           /\ shown'[u] = shown[u] /\ overlay'[u] = overlay[u],
         Fits(t)', TaskOK(t)', CallOK(t)'
  PROVE  TInv'
<1>1. \A u \in Turns : Fits(u)' /\ TaskOK(u)' /\ CallOK(u)'
  BY OthersKept
<1>2. Types'
  BY DEF Types
<1>3. QED
  BY <1>1, <1>2 DEF TInv, Types, TypeOK, McpTypeOK, ClientTypes, Tasks, TurnTypes, CallTypes

LEMMA TypeStep == TInv /\ [Next]_vars => TInv'
<1> USE ToolsAssumption
<1> SUFFICES ASSUME TInv, [Next]_vars PROVE TInv'
  OBVIOUS
<1>0. /\ ClientTypes /\ task \in Tasks /\ TurnTypes /\ CallTypes
      /\ \A u \in Turns : Fits(u) /\ TaskOK(u) /\ CallOK(u)
  BY TInvParts DEF Types
<1>1. ASSUME NEW t \in Turns, Step(t) PROVE TInv'
  <2>1. CASE Start(t)
    BY <2>1, <1>0 DEF Start, TInv, TypeOK, McpTypeOK, mcp, clients, asked, TaskOK, CallOK,
       Fits, Awaiting, ClientTypes, Tasks, TurnTypes, CallTypes
  <2>2. CASE Provide(t)
    <3>1. PICK c \in left[t] :
           /\ cleanups' = [cleanups EXCEPT ![t] = Append(@, c)]
           /\ shared' \in {shared, shared \cup {c}}
           /\ \/ Await(t, "list", c, session[c]) /\ UNCHANGED <<clients, open>>
              \/ Connect(t, c)
           /\ left' = [left EXCEPT ![t] = @ \ {c}]
           /\ stage[t] = "provider"
           /\ UNCHANGED <<stage, overlay, shown, asked, cancelled, struck>>
      BY <2>2 DEF Provide
    <3>2. c \in Clients /\ <<t, c>> \in Connects
      BY <3>1, <1>0 DEF TurnTypes, Connects
    <3>3. /\ task' \in Tasks /\ task'[t].await \in {"list", "stream"}
          /\ task'[t].client = c /\ (task'[t].await = "stream" => task'[t].on = <<t, c>>)
          /\ \A u \in Turns \ {t} : task'[u] = task[u]
      BY <3>1, <3>2, <1>0, AwaitSet DEF Connect, ClientTypes, Awaits
    <3>4. ClientTypes'
      BY <3>1, <3>2, <1>0 DEF Connect, clients, ClientTypes
    <3>5. TurnTypes'
      BY <3>1, <3>2, <1>0, AppendSet DEF TurnTypes
    <3>6. CallTypes'
      BY <3>1, <1>0 DEF asked, CallTypes
    <3>7. Fits(t)' /\ TaskOK(t)'
      BY <3>1, <3>2, <3>3, <1>0 DEF Fits, TaskOK, Awaiting, TurnTypes
    <3>8. CallOK(t)'
      BY <3>1, <1>0 DEF asked, CallOK
    <3>9. \A u \in Turns \ {t} :
           /\ stage'[u] = stage[u] /\ call'[u] = call[u]
           /\ shown'[u] = shown[u] /\ overlay'[u] = overlay[u]
      BY <3>1, <1>0 DEF asked
    <3>10. QED
      BY <3>1, <3>2, <3>3, <3>4, <3>5, <3>6, <3>7, <3>8, <3>9, KeptByOne
  <2>3. CASE OpenStream(t) /\ UNCHANGED turns
    <3>1. task[t].client \in Clients /\ <<t, task[t].client>> \in Connects /\ stage[t] = "provider"
         /\ task[t].on \in Connects
      BY <2>3, <1>0 DEF OpenStream, Awaiting, TaskOK, Fits, Connects
    <3>2. /\ task' \in Tasks
          /\ task'[t].await = "session" /\ task'[t].client = task[t].client
          /\ task'[t].on = stack[task[t].client]
          /\ \A u \in Turns \ {t} : task'[u] = task[u]
      BY <2>3, <3>1, <1>0, AwaitSet DEF OpenStream, ClientTypes, Awaits
    <3>3. ClientTypes'
      <4>1. Context("stream", <<t, task[t].client>>, task[t].on) \in Contexts
        BY <3>1 DEF Context, Contexts
      <4>2. QED
        BY <2>3, <4>1, <1>0 DEF OpenStream, clients, ClientTypes
    <3>4. TurnTypes'
      BY <2>3, <3>1, <3>2, <1>0 DEF OpenStream, clients, mcp, turns, asked, TurnTypes
    <3>5. CallTypes'
      BY <2>3, <3>1, <3>2, <1>0 DEF OpenStream, clients, mcp, turns, asked, CallTypes, NoCall
    <3>6. Fits(t)' /\ TaskOK(t)'
      BY <2>3, <3>1, <3>2, <1>0 DEF OpenStream, turns, Fits, TaskOK, Awaiting, ClientTypes
    <3>7. CallOK(t)'
      BY <2>3, <3>1, <3>2, <1>0 DEF OpenStream, clients, mcp, turns, asked, CallOK, TurnTypes,
         CallTypes
    <3>8. \A u \in Turns \ {t} :
           /\ stage'[u] = stage[u] /\ call'[u] = call[u]
           /\ shown'[u] = shown[u] /\ overlay'[u] = overlay[u]
      BY <2>3, <1>0 DEF OpenStream, clients, mcp, turns, asked, TurnTypes, CallTypes
    <3>9. QED
      BY <3>1, <3>2, <3>3, <3>4, <3>5, <3>6, <3>7, <3>8, KeptByOne
  <2>4. CASE OpenSession(t) /\ UNCHANGED turns
    <3>1. task[t].client \in Clients /\ <<t, task[t].client>> \in Connects /\ stage[t] = "provider"
         /\ task[t].on \in Connects
      BY <2>4, <1>0 DEF OpenSession, Awaiting, TaskOK, Fits, Connects
    <3>2. /\ task' \in Tasks
          /\ task'[t].await = "initialize" /\ task'[t].client = task[t].client /\ task'[t].on = None
          /\ \A u \in Turns \ {t} : task'[u] = task[u]
      BY <2>4, <3>1, <1>0, AwaitSet DEF OpenSession, ClientTypes, Awaits
    <3>3. ClientTypes'
      BY <2>4, <3>1, <1>0 DEF OpenSession, Context, Contexts, ClientTypes
    <3>4. TurnTypes'
      BY <2>4, <3>1, <3>2, <1>0 DEF OpenSession, clients, mcp, turns, asked, TurnTypes
    <3>5. CallTypes'
      BY <2>4, <3>1, <3>2, <1>0 DEF OpenSession, clients, mcp, turns, asked, CallTypes, NoCall
    <3>6. Fits(t)' /\ TaskOK(t)'
      BY <2>4, <3>1, <3>2, <1>0 DEF OpenSession, turns, Fits, TaskOK, Awaiting, ClientTypes
    <3>7. CallOK(t)'
      BY <2>4, <3>1, <3>2, <1>0 DEF OpenSession, clients, mcp, turns, asked, CallOK,
         TurnTypes, CallTypes
    <3>8. \A u \in Turns \ {t} :
           /\ stage'[u] = stage[u] /\ call'[u] = call[u]
           /\ shown'[u] = shown[u] /\ overlay'[u] = overlay[u]
      BY <2>4, <1>0 DEF OpenSession, clients, mcp, turns, asked, TurnTypes, CallTypes
    <3>9. QED
      BY <3>1, <3>2, <3>3, <3>4, <3>5, <3>6, <3>7, <3>8, KeptByOne
  <2>5. CASE Initialized(t) /\ UNCHANGED turns
    <3>1. task[t].client \in Clients /\ stage[t] = "provider"
      BY <2>5, <1>0 DEF Initialized, Awaiting, TaskOK, Fits
    <3>2. /\ task' \in Tasks
          /\ task'[t].await = "list" /\ task'[t].client = task[t].client
          /\ task'[t].on = session[task[t].client]
          /\ \A u \in Turns \ {t} : task'[u] = task[u]
      BY <2>5, <3>1, <1>0, AwaitSet DEF Initialized, ClientTypes, Awaits
    <3>3. ClientTypes'
      BY <2>5, <3>1, <3>2, <1>0 DEF Initialized, clients, mcp, turns, asked, ClientTypes
    <3>4. TurnTypes'
      BY <2>5, <3>1, <3>2, <1>0 DEF Initialized, clients, mcp, turns, asked, TurnTypes
    <3>5. CallTypes'
      BY <2>5, <3>1, <3>2, <1>0 DEF Initialized, clients, mcp, turns, asked, CallTypes, NoCall
    <3>6. Fits(t)' /\ TaskOK(t)'
      BY <2>5, <3>1, <3>2, <1>0 DEF Initialized, clients, mcp, turns, asked, Fits, TaskOK,
         Awaiting, TurnTypes
    <3>7. CallOK(t)'
      BY <2>5, <3>1, <3>2, <1>0 DEF Initialized, clients, mcp, turns, asked, CallOK,
         TurnTypes, CallTypes
    <3>8. \A u \in Turns \ {t} :
           /\ stage'[u] = stage[u] /\ call'[u] = call[u]
           /\ shown'[u] = shown[u] /\ overlay'[u] = overlay[u]
      BY <2>5, <1>0 DEF Initialized, clients, mcp, turns, asked, TurnTypes, CallTypes
    <3>9. QED
      BY <3>1, <3>2, <3>3, <3>4, <3>5, <3>6, <3>7, <3>8, KeptByOne
  <2>6. CASE Listed(t)
    <3>1. task[t].client \in Clients /\ stage[t] = "provider"
      BY <2>6, <1>0 DEF Listed, Awaiting, TaskOK, Fits
    <3>2. /\ task' \in Tasks
          /\ task'[t].await = "step" /\ task'[t].client = None /\ task'[t].on = None
          /\ \A u \in Turns \ {t} : task'[u] = task[u]
      BY <2>6, <1>0, GoesOnSet DEF Listed
    <3>3. ClientTypes'
      BY <2>6, <3>1, <3>2, <1>0, OverlaidType DEF Listed, clients, mcp, turns, asked,
         ClientTypes
    <3>4. TurnTypes'
      BY <2>6, <3>1, <3>2, <1>0, OverlaidType DEF Listed, clients, mcp, turns, asked, TurnTypes
    <3>5. CallTypes'
      BY <2>6, <3>1, <3>2, <1>0, OverlaidType DEF Listed, clients, mcp, turns, asked,
         CallTypes, NoCall
    <3>6. Fits(t)' /\ TaskOK(t)'
      BY <2>6, <3>1, <3>2, <1>0 DEF Listed, clients, mcp, turns, asked, Fits, TaskOK,
         Awaiting, TurnTypes
    <3>7. CallOK(t)'
      BY <2>6, <3>1, <3>2, <1>0, OverlaidType DEF Listed, clients, mcp, turns, asked, CallOK,
         TurnTypes, CallTypes
    <3>8. \A u \in Turns \ {t} :
           /\ stage'[u] = stage[u] /\ call'[u] = call[u]
           /\ shown'[u] = shown[u] /\ overlay'[u] = overlay[u]
      BY <2>6, <1>0 DEF Listed, clients, mcp, turns, asked, TurnTypes, CallTypes
    <3>9. QED
      BY <3>1, <3>2, <3>3, <3>4, <3>5, <3>6, <3>7, <3>8, KeptByOne
  <2>7. CASE Unavailable(t)
    <3>1. CASE ConnectFails(t) /\ UNCHANGED turns
      <4>1. /\ task[t].client \in Clients /\ stage[t] = "provider"
            /\ stack[task[t].client] \in Connects
        BY <3>1, <1>0 DEF ConnectFails, TaskOK, Fits, ClientTypes
      <4>2. /\ task' \in Tasks
            /\ task'[t].await = "undo" /\ task'[t].client \in Clients
            /\ task'[t].on \in Connects
            /\ \A u \in Turns \ {t} : task'[u] = task[u]
        BY <3>1, <4>1, <1>0, AwaitSet DEF ConnectFails, Awaits
      <4>3. ClientTypes' /\ TurnTypes' /\ CallTypes'
        BY <3>1, <1>0 DEF ConnectFails, clients, turns, asked, ClientTypes, TurnTypes, CallTypes
      <4>4. Fits(t)' /\ TaskOK(t)' /\ CallOK(t)'
        BY <3>1, <4>1, <4>2, <1>0 DEF turns, asked, Fits, TaskOK, CallOK, Awaiting
      <4>5. \A u \in Turns \ {t} :
             /\ stage'[u] = stage[u] /\ call'[u] = call[u]
             /\ shown'[u] = shown[u] /\ overlay'[u] = overlay[u]
        BY <3>1 DEF turns, asked
      <4>6. QED
        BY <4>2, <4>3, <4>4, <4>5, KeptByOne
    <3>2. ASSUME GoesOn(t), GivesUp(t), ClientTypes', task[t].await \in Awaits \ {"step"},
                 stage[t] = "provider"
          PROVE  TInv'
      <4>1. /\ task' \in Tasks
            /\ task'[t].await = "step" /\ task'[t].client = None
            /\ \A u \in Turns \ {t} : task'[u] = task[u]
        BY <3>2, <1>0, GoesOnSet
      <4>2. TurnTypes' /\ CallTypes'
        <5>1. CASE UNCHANGED <<stage, overlay, shown, asked>>
          BY <3>2, <5>1, <1>0 DEF GivesUp, asked, TurnTypes, CallTypes
        <5>2. CASE stage' = [stage EXCEPT ![t] = "drain"] /\ Leaves(t)
          BY <3>2, <5>2, <1>0, LeavesTypes DEF GivesUp, TurnTypes
        <5>3. QED
          BY <3>2, <5>1, <5>2 DEF GivesUp
      <4>4. Fits(t)' /\ TaskOK(t)'
        BY <4>1 DEF Fits, TaskOK, Awaiting
      <4>5. CallOK(t)'
        BY <3>2, <1>0 DEF GivesUp, Leaves, asked, CallOK, TurnTypes, CallTypes
      <4>6. \A u \in Turns \ {t} :
             /\ stage'[u] = stage[u] /\ call'[u] = call[u]
             /\ shown'[u] = shown[u] /\ overlay'[u] = overlay[u]
        BY <3>2, <1>0 DEF GivesUp, Leaves, asked, TurnTypes, CallTypes
      <4>7. QED
        BY <3>2, <4>1, <4>2, <4>4, <4>5, <4>6, KeptByOne
    <3>3. CASE Undone(t) /\ GivesUp(t)
      <4>1. task[t].client \in Clients /\ stage[t] = "provider"
        BY <3>3, <1>0 DEF Undone, Awaiting, TaskOK, Fits
      <4>2. ClientTypes'
        BY <3>3, <4>1, <1>0 DEF Undone, Closed, Unstacked, ClientTypes
      <4>3. QED
        BY <3>2, <3>3, <4>1, <4>2 DEF Undone, Awaiting, Awaits
    <3>4. CASE ConnectFailsBare(t) /\ GivesUp(t)
      <4>1. task[t].client \in Clients /\ stage[t] = "provider"
        BY <3>4, <1>0 DEF ConnectFailsBare, Awaiting, TaskOK, Fits
      <4>2. Awaiting(t, "stream") =>
              Context("stream", <<t, task[t].client>>, task[t].on) \in Contexts
        BY <4>1, <1>0 DEF Awaiting, TaskOK, Context, Contexts, Connects
      <4>3. ClientTypes'
        BY <3>4, <4>2, <1>0 DEF ConnectFailsBare, clients, ClientTypes
      <4>4. QED
        BY <3>2, <3>4, <4>1, <4>3 DEF ConnectFailsBare, Awaits
    <3>5. CASE Awaiting(t, "list") /\ GoesOn(t) /\ UNCHANGED <<clients, open>> /\ GivesUp(t)
      <4>1. ClientTypes' /\ stage[t] = "provider"
        BY <3>5, <1>0 DEF clients, ClientTypes, Fits, Awaiting
      <4>2. QED
        BY <3>2, <3>5, <4>1 DEF Awaiting, Awaits
    <3>6. QED
      BY <2>7, <3>1, <3>3, <3>4, <3>5 DEF Unavailable
  <2>8. CASE Provided(t)
    <3>1. task' = task /\ task' \in Tasks /\ \A u \in Turns \ {t} : task'[u] = task[u]
      BY <2>8, <1>0 DEF Provided, mcp
    <3>2. ClientTypes'
      BY <2>8, <3>1, <1>0, VisibleType DEF Provided, clients, mcp, turns, asked, ClientTypes
    <3>3. TurnTypes'
      BY <2>8, <3>1, <1>0, VisibleType DEF Provided, clients, mcp, turns, asked, TurnTypes
    <3>4. CallTypes'
      BY <2>8, <3>1, <1>0, VisibleType DEF Provided, clients, mcp, turns, asked, CallTypes,
         NoCall
    <3>5. Fits(t)' /\ TaskOK(t)'
      BY <2>8, <3>1, <1>0 DEF Provided, clients, mcp, turns, asked, Fits, TaskOK, Awaiting,
         TurnTypes
    <3>6. CallOK(t)'
      BY <2>8, <3>1, <1>0, VisibleType DEF Provided, clients, mcp, turns, asked, CallOK,
         TurnTypes, CallTypes
    <3>7. \A u \in Turns \ {t} :
           /\ stage'[u] = stage[u] /\ call'[u] = call[u]
           /\ shown'[u] = shown[u] /\ overlay'[u] = overlay[u]
      BY <2>8, <1>0 DEF Provided, clients, mcp, turns, asked, TurnTypes, CallTypes
    <3>8. QED
      BY <3>1, <3>2, <3>3, <3>4, <3>5, <3>6, <3>7, KeptByOne
  <2>9. CASE Ask(t)
    <3>0. stage[t] = "on" /\ shown[t] = Visible(overlay[t]) /\ overlay[t] \in Toolboxes(Clients)
      BY <2>9, <1>0 DEF Ask, CallOK, TurnTypes
    <3>1. PICK n \in DOMAIN shown[t] :
           /\ call' = [call EXCEPT ![t] = [name |-> n, tool |-> Found(n, overlay[t])]]
           /\ calls' = [calls EXCEPT ![t] = @ + 1]
           /\ \/ Await(t, "http", None, None)
              \/ /\ Found(n, overlay[t]) # "builtin"
                 /\ Await(t, "invoke", Found(n, overlay[t]), session[Found(n, overlay[t])])
              \/ GoesOn(t)
      BY <2>9 DEF Ask
    <3>2. /\ n \in Names /\ Found(n, overlay[t]) = shown[t][n]
          /\ Found(n, overlay[t]) \in Clients \cup {"builtin"}
      BY <3>0, <3>1, VisibleType
    <3>3. /\ task' \in Tasks /\ task'[t].await \in {"http", "invoke", "step"}
          /\ task'[t].await # "invoke" => task'[t].client = None
          /\ task'[t].await = "invoke" => task'[t].client \in Clients
          /\ \A u \in Turns \ {t} : task'[u] = task[u]
      <4>1. CASE Await(t, "http", None, None)
        BY <4>1, <1>0, AwaitSet DEF Awaits
      <4>2. CASE /\ Found(n, overlay[t]) # "builtin"
                 /\ Await(t, "invoke", Found(n, overlay[t]), session[Found(n, overlay[t])])
        BY <4>2, <3>2, <1>0, AwaitSet DEF Awaits, ClientTypes
      <4>3. CASE GoesOn(t)
        BY <4>3, <1>0, GoesOnSet
      <4>4. QED
        BY <3>1, <4>1, <4>2, <4>3
    <3>4. ClientTypes'
      BY <2>9, <1>0 DEF Ask, clients, ClientTypes
    <3>5. TurnTypes'
      BY <2>9, <1>0 DEF Ask, TurnTypes
    <3>6. CallTypes'
      <4>1. calls[t] < MaxCalls
        BY <2>9 DEF Ask
      <4>2. QED
        BY <3>1, <3>2, <4>1, <1>0 DEF CallTypes
    <3>7. Fits(t)' /\ TaskOK(t)'
      BY <2>9, <3>0, <3>3 DEF Ask, Fits, TaskOK, Awaiting
    <3>8. CallOK(t)'
      BY <2>9, <3>0 DEF Ask, CallOK
    <3>9. \A u \in Turns \ {t} :
           /\ stage'[u] = stage[u] /\ call'[u] = call[u]
           /\ shown'[u] = shown[u] /\ overlay'[u] = overlay[u]
      BY <2>9, <3>1, <1>0 DEF Ask, CallTypes
    <3>10. QED
      BY <3>3, <3>4, <3>5, <3>6, <3>7, <3>8, <3>9, KeptByOne
  <2>11. CASE Answered(t)
    <3>1. /\ task' \in Tasks
          /\ task'[t].await = "step" /\ task'[t].client = None
          /\ \A u \in Turns \ {t} : task'[u] = task[u]
      BY <2>11, <1>0, GoesOnSet DEF Answered
    <3>2. ClientTypes' /\ TurnTypes' /\ CallTypes'
      BY <2>11, <1>0 DEF Answered, clients, turns, asked, ClientTypes, TurnTypes, CallTypes
    <3>3. Fits(t)' /\ TaskOK(t)' /\ CallOK(t)'
      BY <2>11, <3>1, <1>0 DEF Answered, turns, asked, Fits, TaskOK, Awaiting, CallOK
    <3>4. QED
      BY <2>11, <3>1, <3>2, <3>3, KeptByOne DEF Answered, turns, asked
  <2>12. CASE End(t)
    <3>1. task' = task /\ task' \in Tasks /\ \A u \in Turns \ {t} : task'[u] = task[u]
      BY <2>12, <1>0 DEF End, mcp
    <3>2. ClientTypes'
      BY <2>12, <3>1, <1>0, EmptyBox DEF End, Leaves, clients, mcp, turns, asked, ClientTypes
    <3>3. TurnTypes'
      BY <2>12, <3>1, <1>0, EmptyBox DEF End, Leaves, clients, mcp, turns, asked, TurnTypes
    <3>4. CallTypes'
      BY <2>12, <3>1, <1>0, EmptyBox DEF End, Leaves, clients, mcp, turns, asked, CallTypes,
         NoCall
    <3>5. Fits(t)' /\ TaskOK(t)'
      BY <2>12, <3>1, <1>0 DEF End, Leaves, clients, mcp, turns, asked, Fits, TaskOK,
         Awaiting, TurnTypes
    <3>6. CallOK(t)'
      BY <2>12, <3>1, <1>0, EmptyBox DEF End, Leaves, clients, mcp, turns, asked, CallOK,
         TurnTypes, CallTypes
    <3>7. \A u \in Turns \ {t} :
           /\ stage'[u] = stage[u] /\ call'[u] = call[u]
           /\ shown'[u] = shown[u] /\ overlay'[u] = overlay[u]
      BY <2>12, <1>0 DEF End, Leaves, clients, mcp, turns, asked, TurnTypes, CallTypes
    <3>8. QED
      BY <3>1, <3>2, <3>3, <3>4, <3>5, <3>6, <3>7, KeptByOne
  <2>13. CASE Clean(t)
    <3>1. /\ Head(cleanups[t]) \in Clients /\ Tail(cleanups[t]) \in Seq(Clients)
          /\ stage[t] = "drain"
      BY <2>13, <1>0, TailSet DEF Clean, TurnTypes
    <3>2. /\ task' \in Tasks /\ task'[t].await \in {"step", "close"}
          /\ task'[t].await = "step" => task'[t].client = None
          /\ task'[t].await = "close" => task'[t].client \in Clients /\ task'[t].on \in Connects
          /\ \A u \in Turns \ {t} : task'[u] = task[u]
      <4>1. stack[Head(cleanups[t])] \in Connects \cup {None}
        BY <3>1, <1>0 DEF ClientTypes
      <4>2. CASE stack[Head(cleanups[t])] = None
        BY <2>13, <4>2, <1>0, GoesOnSet DEF Clean, Close
      <4>3. CASE stack[Head(cleanups[t])] # None
        BY <2>13, <3>1, <4>1, <4>3, <1>0, AwaitSet DEF Clean, Close, Awaits
      <4>4. QED
        BY <4>2, <4>3
    <3>3. ClientTypes'
      BY <2>13, <3>1, <1>0 DEF Clean, Close, Reset, clients, ClientTypes
    <3>4. TurnTypes'
      BY <2>13, <3>1, <1>0 DEF Clean, TurnTypes
    <3>5. CallTypes'
      BY <2>13, <1>0 DEF Clean, asked, CallTypes
    <3>6. Fits(t)' /\ TaskOK(t)'
      BY <2>13, <3>1, <3>2 DEF Clean, Fits, TaskOK, Awaiting
    <3>7. CallOK(t)'
      BY <2>13, <1>0 DEF Clean, asked, CallOK
    <3>8. \A u \in Turns \ {t} :
           /\ stage'[u] = stage[u] /\ call'[u] = call[u]
           /\ shown'[u] = shown[u] /\ overlay'[u] = overlay[u]
      BY <2>13 DEF Clean, asked
    <3>9. QED
      BY <3>2, <3>3, <3>4, <3>5, <3>6, <3>7, <3>8, KeptByOne
  <2>14. CASE Cleaned(t)
    <3>1. task[t].client \in Clients
      BY <2>14, <1>0 DEF Cleaned, ClosesDown, Awaiting, TaskOK
    <3>2. /\ task' \in Tasks
          /\ task'[t].await = "step" /\ task'[t].client = None /\ task'[t].on = None
          /\ \A u \in Turns \ {t} : task'[u] = task[u]
      BY <2>14, <1>0, GoesOnSet DEF Cleaned, ClosesDown
    <3>3. ClientTypes'
      BY <2>14, <3>1, <3>2, <1>0 DEF Cleaned, ClosesDown, Closed, Reset, clients, mcp, turns,
         asked, ClientTypes
    <3>4. TurnTypes'
      BY <2>14, <3>1, <3>2, <1>0 DEF Cleaned, ClosesDown, Closed, Reset, clients, mcp, turns,
         asked, TurnTypes
    <3>5. CallTypes'
      BY <2>14, <3>1, <3>2, <1>0 DEF Cleaned, ClosesDown, Closed, Reset, clients, mcp, turns,
         asked, CallTypes, NoCall
    <3>6. Fits(t)' /\ TaskOK(t)'
      BY <2>14, <3>1, <3>2, <1>0 DEF Cleaned, ClosesDown, Closed, Reset, clients, mcp, turns,
         asked, Fits, TaskOK, Awaiting, TurnTypes
    <3>7. CallOK(t)'
      BY <2>14, <3>1, <3>2, <1>0 DEF Cleaned, ClosesDown, Closed, Reset, clients, mcp, turns,
         asked, CallOK, TurnTypes, CallTypes
    <3>8. \A u \in Turns \ {t} :
           /\ stage'[u] = stage[u] /\ call'[u] = call[u]
           /\ shown'[u] = shown[u] /\ overlay'[u] = overlay[u]
      BY <2>14, <1>0 DEF Cleaned, ClosesDown, Closed, Reset, clients, mcp, turns, asked,
         TurnTypes, CallTypes
    <3>9. QED
      BY <3>1, <3>2, <3>3, <3>4, <3>5, <3>6, <3>7, <3>8, KeptByOne
  <2>15. CASE Done(t)
    <3>1. task' = task /\ task' \in Tasks /\ \A u \in Turns \ {t} : task'[u] = task[u]
      BY <2>15, <1>0 DEF Done, mcp
    <3>2. ClientTypes'
      BY <2>15, <3>1, <1>0 DEF Done, clients, mcp, turns, asked, ClientTypes
    <3>3. TurnTypes'
      BY <2>15, <3>1, <1>0 DEF Done, clients, mcp, turns, asked, TurnTypes
    <3>4. CallTypes'
      BY <2>15, <3>1, <1>0 DEF Done, clients, mcp, turns, asked, CallTypes, NoCall
    <3>5. Fits(t)' /\ TaskOK(t)'
      BY <2>15, <3>1, <1>0 DEF Done, clients, mcp, turns, asked, Fits, TaskOK, Awaiting,
         TurnTypes
    <3>6. CallOK(t)'
      BY <2>15, <3>1, <1>0 DEF Done, clients, mcp, turns, asked, CallOK, TurnTypes, CallTypes
    <3>7. \A u \in Turns \ {t} :
           /\ stage'[u] = stage[u] /\ call'[u] = call[u]
           /\ shown'[u] = shown[u] /\ overlay'[u] = overlay[u]
      BY <2>15, <1>0 DEF Done, clients, mcp, turns, asked, TurnTypes, CallTypes
    <3>8. QED
      BY <3>1, <3>2, <3>3, <3>4, <3>5, <3>6, <3>7, KeptByOne
  <2>16. CASE CancelTurn(t)
    <3>1. task[t].await \in {"undo", "close"} => task[t].client \in Clients
      BY <1>0 DEF TaskOK
    <3>2. /\ task' \in Tasks
          /\ task'[t].await = "step" /\ task'[t].client = None /\ task'[t].on = None
          /\ \A u \in Turns \ {t} : task'[u] = task[u]
      BY <2>16, <1>0, GoesOnSet DEF CancelTurn, Cut
    <3>3. ClientTypes'
      BY <2>16, <1>0, CutTypes DEF CancelTurn
    <3>4. TurnTypes'
      BY <2>16, <3>1, <3>2, <1>0, EmptyBox DEF CancelTurn, Cut, Unstacked, Leaves,
         clients, mcp, turns, asked, TurnTypes
    <3>5. CallTypes'
      BY <2>16, <3>1, <3>2, <1>0, EmptyBox DEF CancelTurn, Cut, Unstacked, Leaves,
         clients, mcp, turns, asked, CallTypes, NoCall
    <3>6. Fits(t)' /\ TaskOK(t)'
      BY <2>16, <3>1, <3>2, <1>0 DEF CancelTurn, Cut, Unstacked, Leaves, clients, mcp,
         turns, asked, Fits, TaskOK, Awaiting, TurnTypes
    <3>7. CallOK(t)'
      BY <2>16, <3>1, <3>2, <1>0, EmptyBox DEF CancelTurn, Cut, Unstacked, Leaves,
         clients, mcp, turns, asked, CallOK, TurnTypes, CallTypes
    <3>8. \A u \in Turns \ {t} :
           /\ stage'[u] = stage[u] /\ call'[u] = call[u]
           /\ shown'[u] = shown[u] /\ overlay'[u] = overlay[u]
      BY <2>16, <1>0 DEF CancelTurn, Cut, Unstacked, Leaves, clients, mcp, turns,
         asked, TurnTypes, CallTypes
    <3>9. QED
      BY <3>1, <3>2, <3>3, <3>4, <3>5, <3>6, <3>7, <3>8, KeptByOne
  <2>17. CASE Recancel(t)
    <3>1. task[t].await \in {"undo", "close"} => task[t].client \in Clients
      BY <1>0 DEF TaskOK
    <3>2. /\ task' \in Tasks
          /\ task'[t].await = "step" /\ task'[t].client = None /\ task'[t].on = None
          /\ \A u \in Turns \ {t} : task'[u] = task[u]
      BY <2>17, <1>0, GoesOnSet DEF Recancel, Cut
    <3>3. ClientTypes'
      BY <2>17, <1>0, CutTypes DEF Recancel
    <3>4. TurnTypes'
      BY <2>17, <3>1, <3>2, <1>0, EmptyBox DEF Recancel, Cut, Unstacked, clients, mcp,
         turns, asked, TurnTypes
    <3>5. CallTypes'
      BY <2>17, <3>1, <3>2, <1>0, EmptyBox DEF Recancel, Cut, Unstacked, clients, mcp,
         turns, asked, CallTypes, NoCall
    <3>6. Fits(t)' /\ TaskOK(t)'
      BY <2>17, <3>1, <3>2, <1>0 DEF Recancel, Cut, Unstacked, clients, mcp, turns,
         asked, Fits, TaskOK, Awaiting, TurnTypes
    <3>7. CallOK(t)'
      BY <2>17, <3>1, <3>2, <1>0, EmptyBox DEF Recancel, Cut, Unstacked, clients, mcp,
         turns, asked, CallOK, TurnTypes, CallTypes
    <3>8. \A u \in Turns \ {t} :
           /\ stage'[u] = stage[u] /\ call'[u] = call[u]
           /\ shown'[u] = shown[u] /\ overlay'[u] = overlay[u]
      BY <2>17, <1>0 DEF Recancel, Cut, Unstacked, clients, mcp, turns, asked,
         TurnTypes, CallTypes
    <3>9. QED
      BY <3>1, <3>2, <3>3, <3>4, <3>5, <3>6, <3>7, <3>8, KeptByOne
  <2>18. QED
    BY <1>1, <2>1, <2>2, <2>3, <2>4, <2>5, <2>6, <2>7, <2>8, <2>9, <2>11, <2>12,
       <2>13, <2>14, <2>15, <2>16, <2>17 DEF Step, Connecting
<1>2. CASE UNCHANGED vars
  BY <1>2 DEF vars, turns, mcp, clients, asked, TInv, TypeOK, McpTypeOK, TaskOK, CallOK, Fits,
     Awaiting
<1>3. QED
  BY <1>1, <1>2 DEF Next

\* The types of TurnTools, for every set of turns and clients.
THEOREM TypesHold == Spec => []TypeOK
<1>1. Init => TInv
  BY TypeInit
<1>2. TInv /\ [Next]_vars => TInv'
  BY TypeStep
<1>3. TInv => TypeOK
  BY DEF TInv
<1>4. QED
  BY <1>1, <1>2, <1>3, PTL DEF Spec

-----------------------------------------------------------------------------
(* What the model is shown and told *)

\* A step of turn t leaves the calls of the others alone.
LEMMA OtherCalls ==
  ASSUME TInv, NEW t \in Turns, Step(t), NEW u \in Turns \ {t}
  PROVE  call'[u] = call[u] /\ shown'[u] = shown[u]
<1>0. TurnTypes /\ CallTypes
  BY TInvParts DEF Types
<1>1. CASE Start(t) \/ Provide(t) \/ Connecting(t) \/ Listed(t)
  BY <1>1 DEF Start, Provide, Connecting, Listed, turns, asked
<1>2. CASE Unavailable(t) \/ End(t) \/ CancelTurn(t)
  BY <1>0, <1>2 DEF Unavailable, GivesUp, End, CancelTurn, Leaves, turns, asked, TurnTypes,
     CallTypes
<1>3. CASE Provided(t)
  BY <1>0, <1>3 DEF Provided, asked, TurnTypes
<1>4. CASE Ask(t)
  BY <1>0, <1>4 DEF Ask, CallTypes
<1>5. CASE Answered(t) \/ Clean(t) \/ Cleaned(t) \/ Done(t) \/ Recancel(t)
  BY <1>5 DEF Answered, Clean, Cleaned, Done, Recancel, turns, asked
<1>6. QED
  BY <1>1, <1>2, <1>3, <1>4, <1>5 DEF Step

CallShown(t) == call[t].name # None => call[t].tool = shown[t][call[t].name]

LEMMA ShownStep == TInv /\ ShownIsRun /\ [Next]_vars => ShownIsRun'
<1> USE ToolsAssumption
<1> SUFFICES ASSUME TInv, ShownIsRun, [Next]_vars PROVE ShownIsRun'
  OBVIOUS
<1>0. /\ TurnTypes /\ CallTypes
      /\ \A u \in Turns : CallOK(u) /\ CallShown(u)
  BY TInvParts DEF Types, ShownIsRun, CallShown
<1>1. ASSUME NEW t \in Turns, Step(t) PROVE CallShown(t)'
  <2>1. CASE UNCHANGED <<call, shown>>
    BY <2>1, <1>0 DEF CallShown
  <2>2. CASE Leaves(t)
    BY <2>2, <1>0 DEF Leaves, NoCall, CallShown, CallTypes
  <2>3. CASE Provided(t)
    BY <2>3, <1>0 DEF Provided, asked, NoCall, CallOK, CallShown
  <2>4. CASE Ask(t)
    <3>1. PICK n \in DOMAIN shown[t] :
            call' = [call EXCEPT ![t] = [name |-> n, tool |-> Found(n, overlay[t])]]
      BY <2>4 DEF Ask
    <3>2. Found(n, overlay[t]) = shown[t][n]
      BY <2>4, <3>1, <1>0, VisibleType DEF Ask, CallOK, TurnTypes
    <3>3. shown' = shown
      BY <2>4 DEF Ask
    <3>4. QED
      BY <3>1, <3>2, <3>3, <1>0 DEF CallShown, CallTypes
  <2>5. QED
    BY <1>1, <2>1, <2>2, <2>3, <2>4 DEF Step, Start, Provide, Connecting, Listed, Unavailable,
       GivesUp, Answered, End, Clean, Cleaned, Done, CancelTurn, Recancel, turns, asked
<1>2. ASSUME NEW t \in Turns, Step(t), NEW u \in Turns \ {t} PROVE CallShown(u)'
  BY <1>2, <1>0, OtherCalls DEF CallShown
<1>3. CASE UNCHANGED vars
  BY <1>3, <1>0 DEF vars, turns, asked, ShownIsRun
<1>4. QED
  BY <1>1, <1>2, <1>3 DEF Next, ShownIsRun, CallShown

\* Whatever names the servers and the builtin tools share, the tool that runs is
\* the one the model was shown under that name.
THEOREM ShownRuns == Spec => []ShownIsRun
<1>1. Init => TInv /\ ShownIsRun
  BY TypeInit DEF Init, ShownIsRun, NoCall
<1>2. TInv /\ ShownIsRun /\ [Next]_vars => (TInv /\ ShownIsRun)'
  BY TypeStep, ShownStep
<1>3. QED
  BY <1>1, <1>2, PTL DEF Spec

-----------------------------------------------------------------------------
(* Nothing leaks.  The invariant follows a client that one turn at a time uses:
   what the turn that connects it awaits (Own), what it has open and on which
   stack (Kept), and what its flag promises (Live). *)

\* The provider wants each client once, and what a turn has to do with a client it
\* has wanted.
Knows(t) ==
  /\ ToSet(cleanups[t]) \subseteq Wanted[t] \ left[t]
  /\ left[t] \subseteq Wanted[t]
  /\ \A n \in DOMAIN overlay[t] : overlay[t][n] \in ToSet(cleanups[t])
  /\ stage[t] \notin {"provider", "on"} => DOMAIN overlay[t] = {}
  /\ task[t].client # None => task[t].client \in Wanted[t] \ left[t]
  /\ stage[t] \in {"provider", "on"} /\ task[t].client # None =>
       task[t].client \in ToSet(cleanups[t])
  /\ stage[t] = "done" => task[t].client = None
  /\ task[t].await \in {"stream", "session", "undo", "close"} =>
       task[t].on[2] = task[t].client

Known ==
  /\ \A t \in Turns : Knows(t)
  /\ \A c \in Clients : stack[c] # None => stack[c][2] = c
  /\ \A x \in open : /\ x.on # None => x.on[2] = x.by[2]
                     /\ x.by[2] \in Wanted[x.by[1]] \ left[x.by[1]]

OneUser(c) == \A t, u \in Turns : Uses(t, c) /\ Uses(u, c) => t = u

\* What the turn that awaits something of client c knows about c.
Own(t, c) ==
  task[t].client = c =>
    /\ task[t].await \in {"stream", "session"} =>
         ~connected[c] /\ stack[c] = <<t, c>> /\ task[t].on = <<t, c>>
    /\ Awaiting(t, "initialize") =>
         /\ ~connected[c] /\ stack[c] = <<t, c>> /\ session[c] = <<t, c>>
         /\ Context("session", <<t, c>>, <<t, c>>) \in open
    /\ Awaiting(t, "undo") => ~connected[c] /\ task[t].on = stack[c]
    /\ Awaiting(t, "close") => task[t].on = stack[c]

\* What client c has open is on its stack, and some turn still uses it.
Kept(c) ==
  \A x \in Of(c) :
    x.on # None /\ x.by[1] \notin struck => x.on = stack[c] /\ Uses(x.by[1], c)

\* A connected client has its session on its stack.
Live(c) ==
  connected[c] /\ ~Struck(c) =>
    \E x \in open : /\ x.kind = "session" /\ x.by = session[c]
                   /\ x.on = stack[c] /\ x.on # None

LInv ==
  /\ TInv /\ Known
  /\ \A c \in Unshared : /\ OneUser(c) /\ Kept(c) /\ Live(c)
                         /\ \A t \in Turns : Own(t, c)
-----------------------------------------------------------------------------
(* What a step of turn t is to the other turns *)

OthersSame(t) ==
  \A u \in Turns \ {t} :
    /\ task'[u] = task[u] /\ stage'[u] = stage[u] /\ cleanups'[u] = cleanups[u]
    /\ left'[u] = left[u] /\ overlay'[u] = overlay[u]

LEMMA OtherTurns ==
  ASSUME TInv, NEW t \in Turns, Step(t)
  PROVE  OthersSame(t)
<1>0. TurnTypes /\ task \in Tasks
  BY TInvParts DEF Types
<1>1. \A u \in Turns \ {t} : task'[u] = task[u]
  <2>1. \A a, c, s : Await(t, a, c, s) => \A u \in Turns \ {t} : task'[u] = task[u]
    BY <1>0 DEF Await, Tasks
  <2>2. GoesOn(t) => \A u \in Turns \ {t} : task'[u] = task[u]
    BY <1>0 DEF GoesOn, Tasks
  <2>3. task' = task => \A u \in Turns \ {t} : task'[u] = task[u]
    OBVIOUS
  <2>4. QED
    BY <2>1, <2>2, <2>3 DEF Step, Start, Provide, Connect, Connecting, OpenStream, OpenSession,
       Initialized, Listed, Unavailable, ConnectFails, Undone, ConnectFailsBare, Provided, Ask,
       Answered, End, Clean, Close, Cleaned, ClosesDown, Done, CancelTurn, Recancel, Cut,
       mcp
<1>2. \A u \in Turns \ {t} : stage'[u] = stage[u]
  BY <1>0 DEF TurnTypes, Step, Start, Provide, Connecting, Listed, Unavailable, GivesUp,
     Provided, Ask, Answered, End, Clean, Cleaned, Done, CancelTurn, Recancel, turns
<1>3. \A u \in Turns \ {t} : cleanups'[u] = cleanups[u] /\ left'[u] = left[u]
  BY <1>0 DEF TurnTypes, Step, Start, Provide, Connecting, Listed, Unavailable, GivesUp,
     Provided, Ask, Answered, End, Clean, Cleaned, Done, CancelTurn, Recancel, turns
<1>4. \A u \in Turns \ {t} : overlay'[u] = overlay[u]
  BY <1>0 DEF TurnTypes, Step, Start, Provide, Connecting, Listed, Unavailable, GivesUp,
     Provided, Ask, Answered, End, Leaves, Clean, Cleaned, Done, CancelTurn, Recancel,
     turns
<1>5. QED
  BY <1>1, <1>2, <1>3, <1>4 DEF OthersSame

\* Only what a turn wants becomes known of it, and it is known for good.
LEMMA KnowsInit == Init => Known
  BY ToolsAssumption DEF Init, McpInit, Known, Knows, ToSet, Going

LEMMA AwaitIs ==
  ASSUME task \in Tasks, NEW t \in Turns, NEW a, NEW c, NEW s, Await(t, a, c, s)
  PROVE  task'[t].await = a /\ task'[t].client = c /\ task'[t].on = s
BY DEF Await, Tasks

\* What turn t knows after a step that leaves its wants and cleanups as they are.
LEMMA KnowsOn ==
  ASSUME NEW t \in Turns, Knows(t),
         cleanups'[t] = cleanups[t], left'[t] = left[t], overlay'[t] = overlay[t],
         \/ stage'[t] = stage[t]
         \/ stage'[t] = "provider" /\ task'[t].client = None,
         \/ task'[t].client = task[t].client
         \/ task'[t].client = None,
         task'[t].await \in {"stream", "session", "undo", "close"} =>
           task'[t].on[2] = task'[t].client
  PROVE  Knows(t)'
BY DEF Knows

LEMMA KnowsStep == TInv /\ Known /\ [Next]_vars => Known'
<1> USE ToolsAssumption
<1> SUFFICES ASSUME TInv, Known, [Next]_vars PROVE Known'
  OBVIOUS
<1>0. /\ ClientTypes /\ task \in Tasks /\ TurnTypes
      /\ \A u \in Turns : Fits(u) /\ TaskOK(u) /\ CallOK(u) /\ Knows(u)
  BY TInvParts DEF Types, Known
<1>1. ASSUME NEW t \in Turns, Step(t) PROVE Knows(t)'
  <2>1. CASE Start(t)
    <3>1. task[t].client = None /\ task' = task
      BY <2>1, <1>0 DEF Start, mcp, Fits, TaskOK, Awaiting, Tasks, Awaits
    <3>2. QED
      <4>1. /\ stage'[t] = "provider" /\ cleanups'[t] = cleanups[t] /\ left'[t] = left[t]
            /\ overlay'[t] = overlay[t] /\ task'[t] = task[t]
        BY <2>1, <3>1, <1>0 DEF Start, TurnTypes
      <4>2. QED
        BY <3>1, <4>1, <1>0 DEF Knows
  <2>2. CASE Provide(t)
    <3>1. PICK c \in left[t] :
           /\ cleanups' = [cleanups EXCEPT ![t] = Append(@, c)]
           /\ \/ Await(t, "list", c, session[c])
              \/ Await(t, "stream", c, <<t, c>>)
           /\ left' = [left EXCEPT ![t] = @ \ {c}]
           /\ UNCHANGED <<stage, overlay>>
      BY <2>2 DEF Provide, Connect
    <3>2. c \in Clients /\ c \in Wanted[t] /\ <<t, c>> \in Connects
      BY <3>1, <1>0 DEF TurnTypes, Knows, Connects
    <3>3. /\ task'[t].client = c
          /\ task'[t].await = "list" \/ (task'[t].await = "stream" /\ task'[t].on = <<t, c>>)
      <4>1. session[c] \in Connects \cup {None}
        BY <3>2, <1>0 DEF ClientTypes
      <4>2. CASE Await(t, "list", c, session[c])
        BY <3>2, <4>1, <4>2, <1>0, AwaitIs
      <4>3. CASE Await(t, "stream", c, <<t, c>>)
        BY <3>2, <4>3, <1>0, AwaitIs
      <4>4. QED
        BY <3>1, <4>2, <4>3
    <3>4. /\ ToSet(cleanups'[t]) = ToSet(cleanups[t]) \cup {c}
          /\ left'[t] = left[t] \ {c} /\ overlay'[t] = overlay[t] /\ stage'[t] = stage[t]
      BY <3>1, <3>2, <1>0, AppendSet DEF TurnTypes
    <3>5. stage[t] # "done"
      BY <2>2 DEF Provide
    <3>6. QED
      BY <3>1, <3>2, <3>3, <3>4, <3>5, <1>0 DEF Knows
  <2>3. CASE Connecting(t)
    <3>1. /\ task'[t].client = task[t].client
          /\ task'[t].await \in {"initialize", "list"}
             \/ (task'[t].await = "session" /\ task'[t].on = stack[task[t].client])
      <4>1. /\ task[t].client \in Clients
            /\ stack[task[t].client] \in Connects \cup {None}
            /\ session[task[t].client] \in Connects \cup {None}
        BY <2>3, <1>0 DEF Connecting, OpenStream, OpenSession, Initialized, TaskOK, Awaiting,
           ClientTypes
      <4>2. CASE OpenStream(t)
        BY <4>1, <4>2, <1>0, AwaitIs DEF OpenStream, Awaits
      <4>3. CASE OpenSession(t)
        BY <4>1, <4>3, <1>0, AwaitIs DEF OpenSession, Awaits
      <4>4. CASE Initialized(t)
        BY <4>1, <4>4, <1>0, AwaitIs DEF Initialized, Awaits
      <4>5. QED
        BY <2>3, <4>2, <4>3, <4>4 DEF Connecting
    <3>2. task'[t].await = "session" => task'[t].on[2] = task'[t].client
      <4>1. CASE OpenStream(t)
        <5>1. task[t].client \in Clients /\ stack[task[t].client] # None
          BY <4>1, <1>0 DEF OpenStream, TaskOK, Awaiting
        <5>2. QED
          BY <3>1, <5>1 DEF Known
      <4>2. CASE OpenSession(t) \/ Initialized(t)
        BY <4>2, <1>0, AwaitIs DEF OpenSession, Initialized, TaskOK, Awaiting, Awaits,
           ClientTypes
      <4>3. QED
        BY <2>3, <4>1, <4>2 DEF Connecting
    <3>3. QED
      BY <2>3, <3>1, <3>2, <1>0, KnowsOn DEF Connecting, turns
  <2>4. CASE Listed(t)
    <3>1. /\ task'[t].await = "step" /\ task'[t].client = None
          /\ task[t].client \in ToSet(cleanups[t]) /\ stage[t] = "provider"
      BY <2>4, <1>0, GoesOnSet DEF Listed, Awaiting, Fits, TaskOK, Knows
    <3>2. \A n \in DOMAIN overlay'[t] :
            overlay'[t][n] \in {task[t].client} \cup {overlay[t][m] : m \in DOMAIN overlay[t]}
      BY <2>4, <1>0 DEF Listed, Overlaid, TurnTypes
    <3>3. QED
      <4>1. \A n \in DOMAIN overlay'[t] : overlay'[t][n] \in ToSet(cleanups[t])
        BY <3>1, <3>2, <1>0 DEF Knows
      <4>2. stage'[t] = stage[t] /\ left'[t] = left[t] /\ cleanups'[t] = cleanups[t]
        BY <2>4 DEF Listed
      <4>3. QED
        BY <3>1, <4>1, <4>2, <1>0 DEF Knows
  <2>5. CASE Unavailable(t)
    <3>1. CASE ConnectFails(t) /\ UNCHANGED turns
      <4>1. task[t].client \in Clients /\ stack[task[t].client] # None
        BY <3>1, <1>0 DEF ConnectFails, TaskOK
      <4>2. /\ task'[t].client = task[t].client
            /\ task'[t].on = stack[task[t].client]
        BY <3>1, <4>1, <1>0, AwaitIs DEF ConnectFails, Awaits, ClientTypes
      <4>3. QED
        BY <3>1, <4>1, <4>2, <1>0, KnowsOn DEF turns, Known
    <3>2. CASE GoesOn(t) /\ GivesUp(t)
      <4>1. task'[t].await = "step" /\ task'[t].client = None
        BY <3>2, <1>0, GoesOnSet
      <4>2. /\ left'[t] = left[t] /\ cleanups'[t] = cleanups[t]
            /\ \/ stage'[t] = stage[t] /\ overlay'[t] = overlay[t]
               \/ stage'[t] = "drain" /\ overlay'[t] = <<>>
        BY <3>2, <1>0 DEF GivesUp, Leaves, TurnTypes
      <4>3. QED
        BY <4>1, <4>2, <1>0 DEF Knows
    <3>3. QED
      BY <2>5, <3>1, <3>2 DEF Unavailable, Undone, ConnectFailsBare
  <2>6. CASE Provided(t)
    BY <2>6, <1>0 DEF Provided, mcp, Knows, TurnTypes
  <2>7. CASE Ask(t)
    <3>1. /\ stage[t] = "on" /\ shown[t] = Visible(overlay[t])
          /\ overlay[t] \in Toolboxes(Clients)
      BY <2>7, <1>0 DEF Ask, CallOK, TurnTypes
    <3>2. PICK n \in DOMAIN shown[t] :
           \/ Await(t, "http", None, None)
           \/ /\ Found(n, overlay[t]) # "builtin"
              /\ Await(t, "invoke", Found(n, overlay[t]), session[Found(n, overlay[t])])
           \/ GoesOn(t)
      BY <2>7 DEF Ask
    <3>3. Found(n, overlay[t]) # "builtin" =>
            Found(n, overlay[t]) \in Clients /\ Found(n, overlay[t]) \in ToSet(cleanups[t])
      BY <3>1, <3>2, <1>0, VisibleType DEF Knows, Found, Builtin
    <3>4. CASE Await(t, "http", None, None)
      <4>1. task'[t].client = None /\ task'[t].await = "http"
        BY <3>4, <1>0, AwaitIs
      <4>2. QED
        BY <2>7, <4>1, <1>0, KnowsOn DEF Ask
    <3>5. CASE /\ Found(n, overlay[t]) # "builtin"
               /\ Await(t, "invoke", Found(n, overlay[t]), session[Found(n, overlay[t])])
      <4>1. /\ task'[t].client \in ToSet(cleanups[t]) /\ task'[t].client \in Clients
            /\ task'[t].await = "invoke"
        BY <3>3, <3>5, <1>0, AwaitIs DEF Awaits, ClientTypes
      <4>2. QED
        BY <2>7, <3>1, <4>1, <1>0 DEF Ask, Knows
    <3>6. CASE GoesOn(t)
      <4>1. task'[t].client = None /\ task'[t].await = "step"
        BY <3>6, <1>0, GoesOnSet
      <4>2. QED
        BY <2>7, <4>1, <1>0, KnowsOn DEF Ask
    <3>7. QED
      BY <3>2, <3>4, <3>5, <3>6
  <2>9. CASE Answered(t)
    <3>1. task'[t].await = "step" /\ task'[t].client = None
      BY <2>9, <1>0, GoesOnSet DEF Answered
    <3>2. QED
      BY <2>9, <3>1, <1>0, KnowsOn DEF Answered, turns
  <2>10. CASE End(t)
    BY <2>10, <1>0 DEF End, Leaves, mcp, Knows, TurnTypes
  <2>11. CASE Clean(t)
    <3>1. /\ Head(cleanups[t]) \in Clients /\ stage'[t] = "drain"
          /\ ToSet(cleanups[t]) = {Head(cleanups[t])} \cup ToSet(Tail(cleanups[t]))
          /\ cleanups'[t] = Tail(cleanups[t]) /\ left'[t] = left[t] /\ overlay'[t] = overlay[t]
      BY <2>11, <1>0, TailSet DEF Clean, TurnTypes
    <3>2. DOMAIN overlay[t] = {}
      BY <2>11, <1>0 DEF Clean, Knows
    <3>3. \/ task'[t].await = "step" /\ task'[t].client = None
          \/ /\ task'[t].await = "close" /\ task'[t].client = Head(cleanups[t])
             /\ task'[t].on = stack[Head(cleanups[t])] /\ task'[t].on # None
      BY <2>11, <3>1, <1>0, GoesOnSet, AwaitIs DEF Clean, Close, Awaits, ClientTypes
    <3>4. task'[t].await = "close" => task'[t].on[2] = task'[t].client
      BY <3>1, <3>3 DEF Known
    <3>5. QED
      BY <3>1, <3>2, <3>3, <3>4, <1>0 DEF Knows
  <2>12. CASE Cleaned(t)
    <3>1. task'[t].await = "step" /\ task'[t].client = None
      BY <2>12, <1>0, GoesOnSet DEF Cleaned, ClosesDown
    <3>2. QED
      BY <2>12, <3>1, <1>0, KnowsOn DEF Cleaned, turns
  <2>13. CASE Done(t)
    BY <2>13, <1>0 DEF Done, mcp, Awaiting, TaskOK, Knows, TurnTypes
  <2>14. CASE CancelTurn(t) \/ Recancel(t)
    <3>1. task'[t].await = "step" /\ task'[t].client = None
      BY <2>14, <1>0, GoesOnSet DEF CancelTurn, Recancel, Cut
    <3>2. left'[t] = left[t] /\ cleanups'[t] = cleanups[t] /\ DOMAIN overlay'[t] = {}
      <4>1. CASE CancelTurn(t)
        BY <4>1, <1>0 DEF CancelTurn, Leaves, TurnTypes
      <4>2. CASE Recancel(t)
        BY <4>2, <1>0 DEF Recancel, Knows
      <4>3. QED
        BY <2>14, <4>1, <4>2
    <3>3. QED
      BY <3>1, <3>2, <1>0 DEF Knows
  <2>15. QED
    BY <1>1, <2>1, <2>2, <2>3, <2>4, <2>5, <2>6, <2>7, <2>9, <2>10, <2>11, <2>12, <2>13,
       <2>14 DEF Step
<1>2. ASSUME NEW t \in Turns, Step(t), NEW u \in Turns \ {t} PROVE Knows(u)'
  BY <1>2, <1>0, OtherTurns DEF OthersSame, Knows
<1>3. ASSUME NEW t \in Turns, Step(t)
      PROVE  \A c \in Clients : stack'[c] # None => stack'[c][2] = c
  <2>1. \/ stack' = stack
        \/ \E c : stack' = [stack EXCEPT ![c] = None]
        \/ \E c : stack' = [stack EXCEPT ![c] = <<t, c>>]
    BY <1>3 DEF Step, Start, Provide, Connect, Connecting, OpenStream,
       OpenSession, Initialized, Listed, Unavailable, ConnectFails, Undone, Unstacked,
       ConnectFailsBare, Provided, Ask, Answered, End, Clean, Close, Reset, Cleaned,
       ClosesDown, Done, CancelTurn, Recancel, Cut, mcp, clients
  <2>2. \A c \in Clients : stack'[c] \in {stack[c], None, <<t, c>>}
    BY <2>1, <1>0 DEF ClientTypes
  <2>3. QED
    BY <2>2 DEF Known
<1>4. ASSUME NEW t \in Turns, Step(t)
      PROVE  \A x \in open' : /\ x.on # None => x.on[2] = x.by[2]
                              /\ x.by[2] \in Wanted[x.by[1]] \ left'[x.by[1]]
  <2>1. \A u \in Turns : left'[u] \subseteq left[u]
    BY ZenonT(30), <1>0, <1>4
    DEF TurnTypes, Step, Start, Provide, Connecting, Listed, Unavailable, GivesUp,
       Provided, Ask, Answered, End, Clean, Cleaned, Done, CancelTurn, Recancel, turns
  <2>2. \/ open' \subseteq open
        \/ /\ task[t].await \in {"stream", "session"}
           /\ \E k \in {"stream", "session"} :
                open' = open \cup {Context(k, <<t, task[t].client>>, task[t].on)}
        \/ /\ task[t].await \in {"undo", "close"}
           /\ \E kinds : Abandoned(task[t].on, kinds)
    BY <1>4 DEF Step, Start, Provide, Connect, Connecting, OpenStream,
       OpenSession, Initialized, Listed, Unavailable, ConnectFails, Undone,
       ConnectFailsBare, Provided, Ask, Answered, End, Clean, Close, Closed, Cleaned,
       ClosesDown, Done, CancelTurn, Recancel, Cut, mcp, Awaiting
  <2>3. CASE open' \subseteq open
    BY <2>1, <2>3, <1>0 DEF Known, ClientTypes, Contexts, Connects
  <2>4. ASSUME NEW k \in {"stream", "session"}, task[t].await \in {"stream", "session"},
               open' = open \cup {Context(k, <<t, task[t].client>>, task[t].on)}
        PROVE  \A x \in open' : /\ x.on # None => x.on[2] = x.by[2]
                                /\ x.by[2] \in Wanted[x.by[1]] \ left'[x.by[1]]
    <3>1. /\ task[t].on[2] = task[t].client
          /\ task[t].client \in Wanted[t] \ left[t]
      BY <2>4, <1>0 DEF TaskOK, Knows
    <3>2. \A x \in open : /\ x.on # None => x.on[2] = x.by[2]
                          /\ x.by[2] \in Wanted[x.by[1]] \ left'[x.by[1]]
      BY <2>1, <1>0 DEF Known, ClientTypes, Contexts, Connects
    <3>3. PICK new : new = Context(k, <<t, task[t].client>>, task[t].on)
      OBVIOUS
    <3>4. new.on[2] = new.by[2] /\ new.by[2] \in Wanted[new.by[1]] \ left'[new.by[1]]
      BY <3>1, <3>3, <2>1 DEF Context
    <3>5. \A x \in open' : x \in open \/ x = new
      BY <2>4, <3>3
    <3>6. QED
      BY <3>2, <3>4, <3>5
  <2>5. ASSUME NEW kinds, task[t].await \in {"undo", "close"}, Abandoned(task[t].on, kinds)
        PROVE  \A x \in open' : /\ x.on # None => x.on[2] = x.by[2]
                                /\ x.by[2] \in Wanted[x.by[1]] \ left'[x.by[1]]
    <3>1. \A x \in open' : \/ x \in open
                           \/ x.on = None /\ \E y \in open : x.by = y.by
      BY <1>0, <2>5, AbandonedSet DEF TaskOK
    <3>2. QED
      BY <2>1, <3>1, <1>0 DEF Known, ClientTypes, Contexts, Connects
  <2>6. QED
    BY <2>2, <2>3, <2>4, <2>5
<1>5. CASE UNCHANGED vars
  BY <1>5, <1>0 DEF vars, turns, mcp, clients, Known, Knows
<1>6. QED
  BY <1>1, <1>2, <1>3, <1>4, <1>5 DEF Next, Known

-----------------------------------------------------------------------------
(* One client *)

Good(c) == OneUser(c) /\ Kept(c) /\ Live(c) /\ \A u \in Turns : Own(u, c)

\* A step leaves client c and what it has open as they are.
ClientSame(c) ==
  /\ connected'[c] = connected[c] /\ session'[c] = session[c] /\ stack'[c] = stack[c]
  /\ \A x : x.by[2] = c => (x \in open' <=> x \in open)

\* Turn t takes client c when no other has it, and leaves nothing open in it.
UsesMove(t, c) ==
  /\ Uses(t, c)' => Uses(t, c) \/ \A u \in Turns \ {t} : ~Uses(u, c)
  /\ Uses(t, c) => \/ Uses(t, c)' \/ t \in struck'
                   \/ \A x \in Of(c)' : x.by[1] = t => x.on = None

LEMMA AwaitingUses ==
  ASSUME Known, NEW u \in Turns, NEW c \in Clients, task[u].client = c
  PROVE  Uses(u, c)
BY ToolsAssumption DEF Known, Knows, Uses

LEMMA UsesOthers ==
  ASSUME NEW t \in Turns, OthersSame(t), NEW u \in Turns \ {t}, NEW c
  PROVE  Uses(u, c)' <=> Uses(u, c)
BY DEF OthersSame, Uses

LEMMA OneUserStep ==
  ASSUME NEW t \in Turns, NEW c, OthersSame(t), OneUser(c), UsesMove(t, c)
  PROVE  OneUser(c)'
<1>1. \A u \in Turns \ {t} : Uses(u, c)' <=> Uses(u, c)
  BY UsesOthers
<1>2. QED
  BY <1>1 DEF OneUser, UsesMove

\* While t uses c nobody else awaits something of c.
LEMMA OwnAlone ==
  ASSUME Known, NEW t \in Turns, NEW c \in Clients, OthersSame(t), OneUser(c),
         Uses(t, c) \/ \A u \in Turns \ {t} : ~Uses(u, c),
         Own(t, c)'
  PROVE  \A u \in Turns : Own(u, c)'
<1>1. \A u \in Turns \ {t} : task'[u].client # c
  BY AwaitingUses DEF OthersSame, OneUser
<1>2. QED
  BY <1>1 DEF Own

LEMMA Untouched ==
  ASSUME TInv, Known, NEW t \in Turns, NEW c \in Clients, Good(c),
         OthersSame(t), ClientSame(c), UsesMove(t, c), Own(t, c)', struck \subseteq struck'
  PROVE  Good(c)'
<1>0. ClientTypes
  BY TInvParts DEF Types
<1>1. OneUser(c)'
  BY OneUserStep DEF Good
<1>2. \A x \in Of(c)' : x \in Of(c)
  BY DEF Of, ClientSame
<1>3. \A x \in Of(c) : x.by[1] \in Turns
  BY <1>0 DEF Of, ClientTypes, Contexts, Connects
<1>4. ASSUME NEW x \in Of(c)', x.on # None, x.by[1] \notin struck'
      PROVE  x.on = stack'[c] /\ Uses(x.by[1], c)'
  <2>1. x \in Of(c) /\ x.by[1] \notin struck /\ x.by[1] \in Turns
    BY <1>2, <1>3, <1>4
  <2>2. x.on = stack[c] /\ Uses(x.by[1], c)
    BY <1>4, <2>1 DEF Good, Kept
  <2>3. CASE x.by[1] = t
    BY <2>2, <2>3, <1>4 DEF UsesMove, ClientSame
  <2>4. CASE x.by[1] # t
    BY <2>1, <2>2, <2>4, UsesOthers DEF ClientSame
  <2>5. QED
    BY <2>3, <2>4
<1>5. Kept(c)'
  BY <1>4 DEF Kept
<1>6. Live(c)'
  <2>1. SUFFICES ASSUME connected'[c], ~Struck(c)' PROVE
          \E x \in open' : /\ x.kind = "session" /\ x.by = session'[c]
                          /\ x.on = stack'[c] /\ x.on # None
    BY DEF Live
  <2>2. connected[c] /\ ~Struck(c)
    BY <2>1 DEF ClientSame, Struck
  <2>3. PICK x \in open : /\ x.kind = "session" /\ x.by = session[c]
                          /\ x.on = stack[c] /\ x.on # None
    BY <2>2 DEF Good, Live
  <2>4. x.by[2] = c
    <3>1. x.on = stack[c] /\ x.on \in Connects
      BY <2>3, <1>0 DEF ClientTypes, Contexts
    <3>2. QED
      BY <2>3, <3>1, ToolsAssumption DEF Known
  <2>5. QED
    BY <2>3, <2>4 DEF ClientSame
<1>7. \A u \in Turns \ {t} : Own(u, c)'
  <2>1. SUFFICES ASSUME NEW u \in Turns \ {t} PROVE Own(u, c)'
    OBVIOUS
  <2>2. Own(u, c) /\ task'[u] = task[u]
    BY DEF Good, OthersSame
  <2>3. Context("session", <<u, c>>, <<u, c>>) \in open =>
        Context("session", <<u, c>>, <<u, c>>) \in open'
    BY DEF ClientSame, Context
  <2>4. QED
    BY <2>2, <2>3 DEF Own, Awaiting, ClientSame
<1>8. QED
  BY <1>1, <1>5, <1>6, <1>7 DEF Good

\* Turns that only go on: no client changes, nothing is opened or closed.
LEMMA Quiet ==
  ASSUME TInv, Known, Known', NEW t \in Turns, NEW c \in Clients, Good(c), OthersSame(t),
         UNCHANGED <<clients, open>>, struck \subseteq struck',
         stage[t] # "done",
         stage'[t] # "done" \/ t \in struck' \/ ~Uses(t, c),
         cleanups'[t] = cleanups[t],
         task'[t].client = task[t].client \/ stage[t] \in {"provider", "on"},
         task'[t].client \in {task[t].client, None} \/ stage'[t] \in {"provider", "on"},
         Own(t, c)'
  PROVE  Good(c)'
<1>1. ClientSame(c)
  BY DEF ClientSame, clients
<1>2. Knows(t) /\ Knows(t)'
  BY DEF Known
<1>3. Uses(t, c)' => Uses(t, c)
  BY <1>2, ToolsAssumption DEF Knows, Uses
<1>4. Uses(t, c) => Uses(t, c)' \/ t \in struck'
  BY <1>2, ToolsAssumption DEF Knows, Uses
<1>5. QED
  BY <1>1, <1>3, <1>4, Untouched DEF UsesMove

\* The same, when the turn awaits nothing of a client afterwards.
LEMMA QuietFree ==
  ASSUME TInv, Known, Known', NEW t \in Turns, NEW c \in Clients, Good(c), OthersSame(t),
         UNCHANGED <<clients, open>>, struck \subseteq struck',
         stage[t] # "done",
         stage'[t] # "done" \/ t \in struck' \/ ~Uses(t, c),
         cleanups'[t] = cleanups[t],
         task'[t].client = task[t].client \/ stage[t] \in {"provider", "on"},
         task'[t].client = None
  PROVE  Good(c)'
<1>1. Own(t, c)'
  BY ToolsAssumption DEF Own
<1>2. QED
  BY <1>1, Quiet

\* Or the same as before.
LEMMA QuietSame ==
  ASSUME TInv, Known, Known', NEW t \in Turns, NEW c \in Clients, Good(c), OthersSame(t),
         UNCHANGED <<clients, open>>, struck \subseteq struck',
         stage[t] # "done", stage'[t] # "done", cleanups'[t] = cleanups[t],
         task'[t] = task[t]
  PROVE  Good(c)'
<1>1. Own(t, c)'
  BY DEF Good, Own, clients, Awaiting
<1>2. QED
  BY <1>1, Quiet

LEMMA GoodStep ==
  ASSUME TInv, Known, Known', NEW t \in Turns, Step(t), NEW c \in Unshared', Good(c)
  PROVE  Good(c)'
<1> USE ToolsAssumption
<1>0. /\ ClientTypes /\ task \in Tasks /\ TurnTypes
      /\ Fits(t) /\ TaskOK(t) /\ CallOK(t) /\ Knows(t) /\ Knows(t)'
      /\ c \in Clients /\ OthersSame(t)
  BY TInvParts, OtherTurns DEF Types, Known, Unshared
<1>1. CASE Start(t)
  BY <1>0, <1>1, QuietSame DEF Start, mcp, TurnTypes
<1>2. CASE Provide(t)
  <2>1. PICK k \in left[t] :
         /\ cleanups' = [cleanups EXCEPT ![t] = Append(@, k)]
         /\ shared' = IF \E u \in Turns \ {t} : Uses(u, k) THEN shared \cup {k} ELSE shared
         /\ \/ Await(t, "list", k, session[k]) /\ UNCHANGED <<clients, open>>
            \/ ~connected[k] /\ Connect(t, k)
         /\ UNCHANGED <<stage, struck>>
    BY <1>2 DEF Provide
  <2>2. /\ k \in Clients /\ stage[t] = "provider" /\ task[t].client = None
        /\ ToSet(cleanups'[t]) = ToSet(cleanups[t]) \cup {k}
    BY <1>0, <1>2, <2>1, AppendSet DEF Provide, Awaiting, TaskOK, TurnTypes
  <2>3. task'[t].client = k
    BY <1>0, <2>1, AwaitIs DEF Connect
  <2>4. c = k => \A u \in Turns \ {t} : ~Uses(u, c)
    BY <2>1 DEF Unshared
  <2>5. UsesMove(t, c)
    <3>1. Uses(t, c)' <=> stage[t] # "done" /\ (c \in ToSet(cleanups'[t]) \/ k = c)
      BY <2>1, <2>3 DEF Uses
    <3>2. Uses(t, c) <=> stage[t] # "done" /\ (c \in ToSet(cleanups[t]) \/ None = c)
      BY <2>2 DEF Uses
    <3>3. c # None
      BY <1>0
    <3>4. Uses(t, c)' <=> Uses(t, c) \/ c = k
      BY <2>2, <3>1, <3>2, <3>3
    <3>5. QED
      BY <2>4, <3>4 DEF UsesMove
  <2>6. CASE c # k \/ UNCHANGED <<clients, open>>
    <3>1. ClientSame(c)
      BY <1>0, <2>1, <2>2, <2>6 DEF ClientSame, Connect, clients, ClientTypes
    <3>2. Own(t, c)'
      <4>1. CASE c # k
        BY <2>3, <4>1 DEF Own
      <4>2. CASE c = k
        <5>1. UNCHANGED <<clients, open>>
          BY <2>6, <4>2
        <5>2. task'[t].await = "list" \/ Connect(t, k)
          BY <1>0, <2>1, AwaitIs
        <5>3. CASE task'[t].await = "list"
          BY <5>3 DEF Own, Awaiting
        <5>4. CASE Connect(t, k) /\ ~connected[k]
          <6>1. task'[t].await = "stream" /\ task'[t].on = <<t, k>> /\ stack'[k] = <<t, k>>
            BY <1>0, <2>2, <5>4, AwaitIs DEF Connect, ClientTypes
          <6>2. connected' = connected
            BY <5>4 DEF Connect
          <6>3. QED
            BY <4>2, <5>4, <6>1, <6>2 DEF Own, Awaiting
        <5>5. QED
          BY <1>0, <2>1, <5>3, <5>4, AwaitIs
      <4>3. QED
        BY <4>1, <4>2
    <3>3. QED
      BY <1>0, <2>1, <2>5, <3>1, <3>2, Untouched
  <2>7. CASE c = k /\ ~connected[k] /\ Connect(t, k)
    <3>1. /\ task'[t].await = "stream" /\ task'[t].on = <<t, c>> /\ stack'[c] = <<t, c>>
          /\ ~connected'[c] /\ open' = open
      BY <1>0, <2>2, <2>7, AwaitIs DEF Connect, ClientTypes
    <3>2. Own(t, c)'
      BY <3>1 DEF Own, Awaiting
    <3>3. OneUser(c)' /\ \A u \in Turns : Own(u, c)'
      BY <1>0, <2>4, <2>5, <2>7, <3>2, OneUserStep, OwnAlone DEF Good
    <3>4. ASSUME NEW x \in Of(c), x.on # None, x.by[1] \notin struck PROVE FALSE
      <4>1. Uses(x.by[1], c) /\ x.by[1] \in Turns
        BY <1>0, <3>4 DEF Good, Kept, Of, ClientTypes, Contexts, Connects
      <4>2. x.by[1] = t
        BY <2>4, <2>7, <4>1
      <4>3. c \notin left[t]
        BY <3>4, <4>2 DEF Known, Of
      <4>4. QED
        BY <2>1, <2>7, <4>3
    <3>5. Kept(c)'
      BY <2>1, <3>1, <3>4 DEF Kept, Of
    <3>6. QED
      BY <3>1, <3>3, <3>5 DEF Good, Live
  <2>8. QED
    BY <2>1, <2>6, <2>7
<1>3. CASE OpenStream(t) /\ UNCHANGED turns
  <2> DEFINE k == task[t].client
             new == Context("stream", <<t, k>>, task[t].on)
  <2>1. /\ k \in Clients /\ stage[t] = "provider" /\ stage' = stage /\ cleanups' = cleanups
        /\ open' = open \cup {new} /\ UNCHANGED <<clients, struck>>
    BY <1>0, <1>3 DEF OpenStream, Awaiting, TaskOK, Fits, turns
  <2>2. task'[t].client = k /\ task'[t].await = "session" /\ task'[t].on = stack[k]
    BY <1>0, <1>3, AwaitIs DEF OpenStream
  <2>3. UsesMove(t, c)
    BY <2>1, <2>2 DEF UsesMove, Uses
  <2>4. new.by[2] = k /\ new.by[1] = t /\ new.on = task[t].on /\ new.kind = "stream"
    BY DEF Context
  <2>5. CASE c # k
    <3>1. ClientSame(c) /\ Own(t, c)'
      BY <2>1, <2>2, <2>4, <2>5 DEF ClientSame, Own, clients
    <3>2. QED
      BY <1>0, <2>1, <2>3, <3>1, Untouched
  <2>6. CASE c = k
    <3>1. ~connected[c] /\ stack[c] = <<t, c>> /\ task[t].on = <<t, c>>
      BY <1>3, <2>6 DEF Good, Own, OpenStream, Awaiting
    <3>2. Uses(t, c)' /\ Uses(t, c)
      BY <2>1, <2>2, <2>6 DEF Uses
    <3>3. Own(t, c)'
      BY <2>1, <2>2, <2>6, <3>1 DEF Own, Awaiting, clients
    <3>4. OneUser(c)' /\ \A u \in Turns : Own(u, c)'
      BY <1>0, <2>3, <3>2, <3>3, OneUserStep, OwnAlone DEF Good
    <3>5. Kept(c)'
      <4>1. ASSUME NEW x \in Of(c), x.on # None, x.by[1] \notin struck
            PROVE  x.on = stack'[c] /\ Uses(x.by[1], c)'
        <5>1. Uses(x.by[1], c) /\ x.on = stack[c] /\ x.by[1] \in Turns
          BY <1>0, <4>1 DEF Good, Kept, Of, ClientTypes, Contexts, Connects
        <5>2. QED
          BY <1>0, <2>1, <3>2, <5>1, UsesOthers DEF clients
      <4>2. QED
        BY <2>1, <2>4, <3>1, <3>2, <4>1 DEF Kept, Of, clients
    <3>6. QED
      BY <2>1, <3>1, <3>4, <3>5 DEF Good, Live, clients
  <2>7. QED
    BY <2>5, <2>6
<1>4. CASE OpenSession(t) /\ UNCHANGED turns
  <2> DEFINE k == task[t].client
             new == Context("session", <<t, k>>, task[t].on)
  <2>1. /\ k \in Clients /\ stage[t] = "provider" /\ stage' = stage /\ cleanups' = cleanups
        /\ open' = open \cup {new} /\ UNCHANGED <<connected, stack, struck>>
        /\ session' = [session EXCEPT ![k] = <<t, k>>]
    BY <1>0, <1>4 DEF OpenSession, Awaiting, TaskOK, Fits, turns
  <2>2. task'[t].client = k /\ task'[t].await = "initialize"
    BY <1>0, <1>4, AwaitIs DEF OpenSession
  <2>3. UsesMove(t, c)
    BY <2>1, <2>2 DEF UsesMove, Uses
  <2>4. new.by[2] = k /\ new.by[1] = t /\ new.on = task[t].on /\ new.kind = "session"
    BY DEF Context
  <2>5. CASE c # k
    <3>1. ClientSame(c) /\ Own(t, c)'
      BY <1>0, <2>1, <2>2, <2>4, <2>5 DEF ClientSame, Own, ClientTypes
    <3>2. QED
      BY <1>0, <2>1, <2>3, <3>1, Untouched
  <2>6. CASE c = k
    <3>1. ~connected[c] /\ stack[c] = <<t, c>> /\ task[t].on = <<t, c>>
      BY <1>4, <2>6 DEF Good, Own, OpenSession, Awaiting
    <3>2. Uses(t, c)' /\ Uses(t, c)
      BY <2>1, <2>2, <2>6 DEF Uses
    <3>3. Own(t, c)'
      <4>1. session'[c] = <<t, c>> /\ ~connected'[c] /\ stack'[c] = <<t, c>>
        BY <1>0, <2>1, <2>6, <3>1 DEF ClientTypes
      <4>2. Context("session", <<t, c>>, <<t, c>>) \in open'
        BY <2>1, <2>6, <3>1
      <4>3. QED
        BY <2>2, <4>1, <4>2 DEF Own, Awaiting
    <3>4. OneUser(c)' /\ \A u \in Turns : Own(u, c)'
      BY <1>0, <2>3, <3>2, <3>3, OneUserStep, OwnAlone DEF Good
    <3>5. Kept(c)'
      <4>1. ASSUME NEW x \in Of(c), x.on # None, x.by[1] \notin struck
            PROVE  x.on = stack'[c] /\ Uses(x.by[1], c)'
        <5>1. Uses(x.by[1], c) /\ x.on = stack[c] /\ x.by[1] \in Turns
          BY <1>0, <4>1 DEF Good, Kept, Of, ClientTypes, Contexts, Connects
        <5>2. QED
          BY <1>0, <2>1, <3>2, <5>1, UsesOthers
      <4>2. QED
        BY <2>1, <2>4, <3>1, <3>2, <4>1 DEF Kept, Of
    <3>6. QED
      BY <2>1, <3>1, <3>4, <3>5 DEF Good, Live
  <2>7. QED
    BY <2>5, <2>6
<1>5. CASE Initialized(t) /\ UNCHANGED turns
  <2> DEFINE k == task[t].client
  <2>1. /\ k \in Clients /\ stage[t] = "provider" /\ stage' = stage /\ cleanups' = cleanups
        /\ connected' = [connected EXCEPT ![k] = TRUE]
        /\ UNCHANGED <<session, stack, open, struck>>
    BY <1>0, <1>5 DEF Initialized, Awaiting, TaskOK, Fits, turns
  <2>2. task'[t].client = k /\ task'[t].await = "list"
    BY <1>0, <1>5, AwaitIs DEF Initialized
  <2>3. UsesMove(t, c)
    BY <2>1, <2>2 DEF UsesMove, Uses
  <2>4. Own(t, c)'
    BY <2>2 DEF Own, Awaiting
  <2>5. CASE c # k
    <3>1. ClientSame(c)
      BY <1>0, <2>1, <2>5 DEF ClientSame, ClientTypes
    <3>2. QED
      BY <1>0, <2>1, <2>3, <2>4, <3>1, Untouched
  <2>6. CASE c = k
    <3>1. /\ stack[c] = <<t, c>> /\ session[c] = <<t, c>>
          /\ Context("session", <<t, c>>, <<t, c>>) \in open
      BY <1>5, <2>6 DEF Good, Own, Initialized, Awaiting
    <3>2. Uses(t, c)' /\ Uses(t, c)
      BY <2>1, <2>2, <2>6 DEF Uses
    <3>3. OneUser(c)' /\ \A u \in Turns : Own(u, c)'
      BY <1>0, <2>3, <2>4, <3>2, OneUserStep, OwnAlone DEF Good
    <3>4. Kept(c)'
      <4>1. ASSUME NEW x \in Of(c), x.on # None, x.by[1] \notin struck
            PROVE  x.on = stack'[c] /\ Uses(x.by[1], c)'
        <5>1. Uses(x.by[1], c) /\ x.on = stack[c] /\ x.by[1] \in Turns
          BY <1>0, <4>1 DEF Good, Kept, Of, ClientTypes, Contexts, Connects
        <5>2. QED
          BY <1>0, <2>1, <3>2, <5>1, UsesOthers
      <4>2. QED
        BY <2>1, <4>1 DEF Kept, Of
    <3>5. Live(c)'
      <4>1. <<t, c>> # None
        BY <1>0 DEF Connects
      <4>2. QED
        BY <2>1, <3>1, <4>1 DEF Live, Context
    <3>6. QED
      BY <3>3, <3>4, <3>5 DEF Good
  <2>7. QED
    BY <2>5, <2>6
<1>6. CASE Listed(t)
  <2>1. task'[t].client = None /\ stage[t] = "provider"
    BY <1>0, <1>6, GoesOnSet DEF Listed, Awaiting, Fits
  <2>2. QED
    BY <1>0, <1>6, <2>1, QuietFree DEF Listed
<1>7. CASE ConnectFails(t) /\ UNCHANGED turns
  <2> DEFINE k == task[t].client
  <2>1. task'[t].client = k /\ task'[t].await = "undo" /\ task'[t].on = stack[k]
    BY <1>0, <1>7, AwaitIs DEF ConnectFails
  <2>2. k \in Clients /\ stage[t] = "provider" /\ stack[k] # None
    BY <1>0, <1>7 DEF ConnectFails, TaskOK, Fits
  <2>3. Own(t, c)'
    <3>1. CASE c # k
      BY <2>1, <3>1 DEF Own
    <3>2. CASE c = k
      <4>1. ~connected[c]
        BY <1>7, <3>2 DEF Good, Own, ConnectFails, Awaiting
      <4>2. QED
        BY <1>7, <2>1, <3>2, <4>1 DEF Own, Awaiting, ConnectFails, clients
    <3>3. QED
      BY <3>1, <3>2
  <2>4. QED
    BY <1>0, <1>7, <2>1, <2>2, <2>3, Quiet DEF ConnectFails, turns
<1>8. CASE Undone(t) /\ GivesUp(t)
  <2> DEFINE k == task[t].client
  <2>1. /\ k \in Clients /\ stage[t] = "provider" /\ k \in ToSet(cleanups[t])
        /\ task[t].on \in Connects /\ task[t].on[2] = k
    BY <1>0, <1>8 DEF Undone, Awaiting, TaskOK, Fits, Knows
  <2>2. /\ open' = {x \in open : x.on # task[t].on} /\ stack' = [stack EXCEPT ![k] = None]
        /\ UNCHANGED <<connected, session, cleanups, struck>>
        /\ stage'[t] # "done" /\ task'[t].client = None
    BY <1>0, <1>8, <2>1, GoesOnSet DEF Undone, Closed, Unstacked, GivesUp, TurnTypes
  <2>3. UsesMove(t, c)
    <3>1. Uses(t, c) <=> c \in ToSet(cleanups[t])
      BY <2>1 DEF Uses
    <3>2. Uses(t, c)' <=> c \in ToSet(cleanups[t])
      BY <1>0, <2>2 DEF Uses
    <3>3. QED
      BY <3>1, <3>2 DEF UsesMove
  <2>4. Own(t, c)'
    BY <1>0, <2>2 DEF Own
  <2>5. CASE c # k
    <3>1. \A x \in open : x.by[2] = c => x.on # task[t].on
      BY <2>1, <2>5 DEF Known
    <3>2. ClientSame(c)
      BY <1>0, <2>2, <2>5, <3>1 DEF ClientSame, ClientTypes
    <3>3. QED
      BY <1>0, <2>2, <2>3, <2>4, <3>2, Untouched
  <2>6. CASE c = k
    <3>1. ~connected[c] /\ task[t].on = stack[c] /\ Uses(t, c)
      BY <1>0, <1>8, <2>1, <2>6, AwaitingUses DEF Good, Own, Undone, Awaiting
    <3>2. OneUser(c)' /\ \A u \in Turns : Own(u, c)'
      BY <1>0, <2>3, <2>4, <3>1, OneUserStep, OwnAlone DEF Good
    <3>3. Kept(c)'
      BY <2>2, <3>1 DEF Good, Kept, Of
    <3>4. QED
      BY <2>2, <3>1, <3>2, <3>3 DEF Good, Live
  <2>7. QED
    BY <2>5, <2>6
<1>9. CASE ConnectFailsBare(t) /\ GivesUp(t)
  <2> DEFINE k == task[t].client
  <2>1. /\ k \in Clients /\ stage[t] = "provider" /\ k \in ToSet(cleanups[t])
    BY <1>0, <1>9 DEF ConnectFailsBare, TaskOK, Fits, Knows
  <2>2. /\ UNCHANGED <<clients, cleanups, struck>>
        /\ stage'[t] # "done" /\ task'[t].client = None
    BY <1>0, <1>9, <2>1, GoesOnSet DEF ConnectFailsBare, GivesUp, TurnTypes
  <2>3. c # k
    <3>1. <<t, k>> # None
      BY <2>1 DEF Connects
    <3>2. QED
      BY <1>9, <2>1, <3>1 DEF ConnectFailsBare, Good, Own, Awaiting
  <2>4. \A x : x.by[2] = c => (x \in open' <=> x \in open)
    BY <1>9, <2>3 DEF ConnectFailsBare, Context
  <2>5. ClientSame(c)
    BY <2>2, <2>4 DEF ClientSame, clients
  <2>6. UsesMove(t, c) /\ Own(t, c)'
    BY <1>0, <2>1, <2>2 DEF UsesMove, Uses, Own
  <2>7. QED
    BY <1>0, <2>2, <2>5, <2>6, Untouched
<1>10. CASE Awaiting(t, "list") /\ GoesOn(t) /\ UNCHANGED <<clients, open>> /\ GivesUp(t)
  <2>1. task'[t].client = None /\ stage[t] = "provider"
    BY <1>0, <1>10, GoesOnSet DEF Awaiting, Fits
  <2>2. stage'[t] # "done" /\ struck' = struck /\ cleanups' = cleanups
    BY <1>0, <1>10, <2>1 DEF GivesUp, TurnTypes
  <2>3. QED
    BY <1>0, <1>10, <2>1, <2>2, QuietFree
<1>11. CASE Provided(t)
  BY <1>0, <1>11, QuietSame DEF Provided, mcp, TurnTypes
<1>12. CASE Ask(t)
  <2>1. /\ stage[t] = "on" /\ stage' = stage /\ cleanups' = cleanups /\ struck' = struck
        /\ UNCHANGED <<clients, open>>
    BY <1>12 DEF Ask
  <2>2. task'[t].await \in {"http", "invoke", "step"}
    BY <1>0, <1>12, AwaitIs, GoesOnSet DEF Ask
  <2>3. Own(t, c)'
    BY <2>2 DEF Own, Awaiting
  <2>4. QED
    BY <1>0, <2>1, <2>3, Quiet
<1>14. CASE Answered(t)
  <2>1. task'[t].client = None /\ stage[t] = "on"
    BY <1>0, <1>14, GoesOnSet DEF Answered, Awaiting, Fits
  <2>2. QED
    BY <1>0, <1>14, <2>1, QuietFree DEF Answered, turns
<1>15. CASE End(t)
  BY <1>0, <1>15, QuietSame DEF End, mcp, TurnTypes
<1>16. CASE Clean(t)
  <2> DEFINE k == Head(cleanups[t])
  <2>1. /\ k \in Clients /\ stage[t] = "drain" /\ task[t].client = None
        /\ ToSet(cleanups[t]) = {k} \cup ToSet(Tail(cleanups[t]))
        /\ cleanups'[t] = Tail(cleanups[t]) /\ UNCHANGED <<stage, struck, open>>
    BY <1>0, <1>16, TailSet DEF Clean, Close, Awaiting, TaskOK, TurnTypes
  <2>2. CASE stack[k] # None
    <3>1. /\ task'[t].await = "close" /\ task'[t].client = k /\ task'[t].on = stack[k]
          /\ UNCHANGED clients
      BY <1>0, <1>16, <2>2, AwaitIs DEF Clean, Close
    <3>2. ClientSame(c) /\ Own(t, c)'
      BY <2>1, <3>1 DEF ClientSame, clients, Own, Awaiting
    <3>3. UsesMove(t, c)
      <4>1. c # None
        BY <1>0
      <4>2. Uses(t, c) <=> c = k \/ c \in ToSet(Tail(cleanups[t]))
        BY <2>1, <4>1 DEF Uses
      <4>3. Uses(t, c)' <=> c = k \/ c \in ToSet(Tail(cleanups[t]))
        BY <2>1, <3>1 DEF Uses
      <4>4. QED
        BY <4>2, <4>3 DEF UsesMove
    <3>4. QED
      BY <1>0, <2>1, <3>2, <3>3, Untouched
  <2>3. CASE stack[k] = None
    <3>1. Reset(k) /\ task'[t].client = None
      BY <1>0, <1>16, <2>3, GoesOnSet DEF Clean, Close
    <3>2. Own(t, c)'
      BY <1>0, <3>1 DEF Own
    <3>3. CASE c # k
      <4>1. ClientSame(c)
        BY <1>0, <2>1, <3>1, <3>3 DEF ClientSame, Reset, ClientTypes
      <4>2. UsesMove(t, c)
        BY <1>0, <2>1, <3>1, <3>3 DEF UsesMove, Uses
      <4>3. QED
        BY <1>0, <2>1, <3>2, <4>1, <4>2, Untouched
    <3>4. CASE c = k
      <4>1. ASSUME NEW x \in Of(c), x.on # None, x.by[1] \notin struck PROVE FALSE
        BY <1>0, <2>3, <3>4, <4>1 DEF Good, Kept, Of, ClientTypes, Contexts
      <4>2. Uses(t, c)
        BY <2>1, <3>4 DEF Uses
      <4>3. OneUser(c)'
        <5>1. \A u \in Turns \ {t} : ~Uses(u, c)'
          BY <1>0, <4>2, UsesOthers DEF Good, OneUser
        <5>2. QED
          BY <5>1 DEF OneUser
      <4>4. \A u \in Turns : Own(u, c)'
        BY <1>0, <3>2, <4>2, OwnAlone DEF Good
      <4>5. Kept(c)'
        BY <2>1, <4>1 DEF Kept, Of
      <4>6. ~connected'[c]
        BY <1>0, <2>1, <3>1, <3>4 DEF Reset, ClientTypes
      <4>7. QED
        BY <4>3, <4>4, <4>5, <4>6 DEF Good, Live
    <3>5. QED
      BY <3>3, <3>4
  <2>4. QED
    BY <2>2, <2>3
<1>17. CASE Cleaned(t)
  <2> DEFINE k == task[t].client
  <2>1. /\ k \in Clients /\ stage[t] = "drain"
        /\ task[t].on \in Connects /\ task[t].on[2] = k
    BY <1>0, <1>17 DEF Cleaned, ClosesDown, Awaiting, TaskOK, Fits, Knows
  <2>2. /\ open' = {x \in open : x.on # task[t].on} /\ Reset(k)
        /\ UNCHANGED <<cleanups, struck, stage>> /\ task'[t].client = None
    BY <1>0, <1>17, <2>1, GoesOnSet DEF Cleaned, ClosesDown, Closed, turns
  <2>3. Own(t, c)'
    BY <1>0, <2>2 DEF Own
  <2>4. CASE c # k
    <3>1. \A x \in open : x.by[2] = c => x.on # task[t].on
      BY <2>1, <2>4 DEF Known
    <3>2. ClientSame(c)
      BY <1>0, <2>2, <2>4, <3>1 DEF ClientSame, ClientTypes, Reset
    <3>3. UsesMove(t, c)
      BY <1>0, <2>1, <2>2, <2>4 DEF UsesMove, Uses
    <3>4. QED
      BY <1>0, <2>2, <2>3, <3>2, <3>3, Untouched
  <2>5. CASE c = k
    <3>1. task[t].on = stack[c] /\ Uses(t, c)
      BY <1>0, <1>17, <2>1, <2>5, AwaitingUses DEF Good, Own, Cleaned, ClosesDown, Awaiting
    <3>2. OneUser(c)'
      <4>1. \A u \in Turns \ {t} : ~Uses(u, c)'
        BY <1>0, <3>1, UsesOthers DEF Good, OneUser
      <4>2. QED
        BY <4>1 DEF OneUser
    <3>3. \A u \in Turns : Own(u, c)'
      BY <1>0, <2>3, <3>1, OwnAlone DEF Good
    <3>4. Kept(c)'
      BY <2>2, <3>1 DEF Good, Kept, Of
    <3>5. ~connected'[c]
      BY <1>0, <2>1, <2>2, <2>5 DEF Reset, ClientTypes
    <3>6. QED
      BY <3>2, <3>3, <3>4, <3>5 DEF Good, Live
  <2>6. QED
    BY <2>4, <2>5
<1>18. CASE Done(t)
  <2>1. stage[t] = "drain" /\ task[t].client = None /\ cleanups[t] = <<>> /\ task' = task
    BY <1>0, <1>18 DEF Done, Awaiting, TaskOK, mcp
  <2>2. ~Uses(t, c)
    BY <1>0, <2>1 DEF Uses, ToSet
  <2>3. QED
    BY <1>0, <1>18, <2>1, <2>2, QuietFree DEF Done, mcp
<1>19. CASE CancelTurn(t) \/ Recancel(t)
  <2> DEFINE k == task[t].client
  <2>1. /\ Cut(t) /\ cleanups' = cleanups /\ struck \subseteq struck'
        /\ stage[t] # "done" /\ stage'[t] \in {"drain", "done"}
        /\ stage'[t] = "done" \/ Awaiting(t, "close") => t \in struck'
        /\ stage[t] \in {"provider", "on"} \/ t \in struck'
    BY <1>0, <1>19 DEF CancelTurn, Recancel, TurnTypes, Awaiting, Fits
  <2>2. task'[t].client = None
    BY <1>0, <2>1, GoesOnSet DEF Cut
  <2>3. Own(t, c)'
    BY <1>0, <2>2 DEF Own
  <2>4. UsesMove(t, c)
    BY <1>0, <2>1, <2>2 DEF UsesMove, Uses, Knows
  <2>5. CASE task[t].await \notin {"undo", "close"}
    <3>1. ClientSame(c)
      BY <2>1, <2>5 DEF Cut, ClientSame, clients
    <3>2. QED
      BY <1>0, <2>1, <2>3, <2>4, <3>1, Untouched
  <2>6. CASE task[t].await \in {"undo", "close"}
    <3>1. /\ k \in Clients /\ k \in Wanted[t]
          /\ task[t].on \in Connects /\ task[t].on[2] = k
      BY <1>0, <2>6 DEF TaskOK, Knows
    <3>2. PICK kinds : Abandoned(task[t].on, kinds)
      BY <2>1, <2>6 DEF Cut
    <3>3. stack' = [stack EXCEPT ![k] = None] /\ UNCHANGED <<connected, session>>
      BY <2>1, <2>6 DEF Cut, Unstacked
    <3>4. /\ \A x \in open' : \/ x \in open /\ x.on # task[t].on
                            \/ /\ x.on = None
                               /\ \E y \in open : y.on = task[t].on /\ x.by = y.by
          /\ \A x \in open : x.on # task[t].on => x \in open'
      BY Zenon, <1>0, <3>1, <3>2, AbandonedSet
    <3>5. CASE c # k
      <4>1. \A y \in open : y.on = task[t].on => y.by[2] = k
        BY <1>0, <3>1, ToolsAssumption DEF Known
      <4>2. \A x : x.by[2] = c => (x \in open' <=> x \in open)
        BY <3>4, <3>5, <4>1
      <4>3. ClientSame(c)
        BY <1>0, <3>1, <3>3, <3>5, <4>2 DEF ClientSame, ClientTypes
      <4>4. QED
        BY <1>0, <2>1, <2>3, <2>4, <4>3, Untouched
    <3>6. CASE c = k
      <4>1. Uses(t, c) /\ task[t].on = stack[c] /\ (Awaiting(t, "undo") => ~connected[c])
        BY <1>0, <2>6, <3>1, <3>6, AwaitingUses DEF Good, Own, Awaiting
      <4>2. OneUser(c)' /\ \A u \in Turns : Own(u, c)'
        BY <1>0, <2>3, <2>4, <4>1, OneUserStep, OwnAlone DEF Good
      <4>3. ASSUME NEW x \in Of(c)', x.on # None, x.by[1] \notin struck' PROVE FALSE
        <5>1. x \in Of(c) /\ x.on # stack[c] /\ x.by[1] \notin struck
          BY <2>1, <3>4, <4>1, <4>3 DEF Of
        <5>2. QED
          BY <4>3, <5>1 DEF Good, Kept
      <4>4. Kept(c)'
        BY <4>3 DEF Kept
      <4>5. Live(c)'
        <5>1. CASE Awaiting(t, "undo")
          BY <3>3, <4>1, <5>1 DEF Live
        <5>2. CASE Awaiting(t, "close")
          BY <2>1, <3>1, <3>6, <5>2 DEF Live, Struck
        <5>3. QED
          BY <2>6, <5>1, <5>2 DEF Awaiting
      <4>6. QED
        BY <4>2, <4>4, <4>5 DEF Good
    <3>7. QED
      BY <3>5, <3>6
  <2>7. QED
    BY <2>5, <2>6
<1>20. QED
  BY <1>1, <1>2, <1>3, <1>4, <1>5, <1>6, <1>7, <1>8, <1>9, <1>10, <1>11, <1>12, <1>14,
     <1>15, <1>16, <1>17, <1>18, <1>19 DEF Step, Connecting, Unavailable

-----------------------------------------------------------------------------
(* Theorems *)

LEMMA LeakInit == Init => LInv
<1> SUFFICES ASSUME Init PROVE LInv
  OBVIOUS
<1> USE ToolsAssumption
<1>1. TInv /\ Known
  BY TypeInit, KnowsInit
<1>2. ASSUME NEW t \in Turns, NEW c \in Clients PROVE ~Uses(t, c)
  BY DEF Init, McpInit, Going, Uses, ToSet
<1>3. ASSUME NEW c \in Clients PROVE Good(c)
  <2>1. OneUser(c)
    BY <1>2 DEF OneUser
  <2>2. Kept(c) /\ Live(c)
    BY DEF Init, McpInit, Kept, Of, Live
  <2>3. \A u \in Turns : Own(u, c)
    BY DEF Init, McpInit, Going, Own
  <2>4. QED
    BY <2>1, <2>2, <2>3 DEF Good
<1>4. QED
  BY <1>1, <1>3 DEF LInv, Good, Unshared

LEMMA LeakStep == LInv /\ [Next]_vars => LInv'
<1> SUFFICES ASSUME LInv, [Next]_vars PROVE LInv'
  OBVIOUS
<1>1. TInv /\ Known /\ TInv' /\ Known'
  BY TypeStep, KnowsStep DEF LInv
<1>2. \A c \in Unshared : Good(c)
  BY DEF LInv, Good
<1>3. ASSUME NEW t \in Turns, Step(t) PROVE \A c \in Unshared' : Good(c)'
  <2>1. shared \subseteq shared'
    BY <1>3 DEF Step, Start, Provide, Connecting, Listed, Unavailable, GivesUp, Provided, Ask,
       Answered, End, Clean, Cleaned, Done, CancelTurn, Recancel, turns
  <2>2. \A c \in Unshared' : c \in Unshared
    BY <2>1 DEF Unshared
  <2>3. QED
    BY <1>1, <1>2, <1>3, <2>2, GoodStep
<1>4. ASSUME UNCHANGED vars, NEW c \in Unshared' PROVE Good(c)'
  <2>1. /\ UNCHANGED <<connected, session, stack, open, task, stage, cleanups, struck, shared>>
    BY <1>4 DEF vars, turns, mcp, clients
  <2>2. Good(c)
    BY <1>2, <1>4, <2>1 DEF Unshared
  <2>3. OneUser(c)'
    BY <2>1, <2>2 DEF Good, OneUser, Uses
  <2>4. Kept(c)'
    BY <2>1, <2>2 DEF Good, Kept, Uses, Of
  <2>5. Live(c)'
    BY <2>1, <2>2 DEF Good, Live, Struck
  <2>6. \A u \in Turns : Own(u, c)'
    BY <2>1, <2>2 DEF Good, Own, Awaiting
  <2>7. QED
    BY <2>3, <2>4, <2>5, <2>6 DEF Good
<1>5. \A c \in Unshared' : Good(c)'
  <2>1. CASE Next
    <3>1. PICK t \in Turns : Step(t)
      BY <2>1 DEF Next
    <3>2. QED
      BY <1>3, <3>1
  <2>2. CASE UNCHANGED vars
    BY <1>4, <2>2
  <2>3. QED
    BY <2>1, <2>2
<1>6. QED
  BY <1>1, <1>5 DEF LInv, Good

LEMMA LeakFacts == LInv => Held /\ NothingLeaks /\ ConnectedIsOpen
<1> SUFFICES ASSUME LInv PROVE Held /\ NothingLeaks /\ ConnectedIsOpen
  OBVIOUS
<1>1. \A c \in Unshared : c \in Clients /\ Good(c)
  BY DEF LInv, Good, Unshared
<1>2. Known /\ ClientTypes
  BY TInvParts DEF LInv, Types
<1>3. ASSUME NEW c \in Unshared, ~Struck(c), NEW x \in Of(c)
      PROVE  x.on \in {stack[c], None}
  <2>1. x.by[1] \notin struck
    BY <1>2, <1>3 DEF Known, Of, Struck
  <2>2. QED
    BY <1>1, <2>1 DEF Good, Kept
<1>4. ASSUME NEW t \in Turns \ struck, stage[t] = "done", NEW c \in Unshared, NEW x \in Of(c)
      PROVE  x.by[1] = t => x.on = None
  BY <1>1, <1>4 DEF Good, Kept, Uses
<1>5. ASSUME NEW c \in Unshared, connected[c], ~Struck(c)
      PROVE  \E x \in Of(c) : x.kind = "session" /\ x.by = session[c]
  <2>1. PICK x \in open : /\ x.kind = "session" /\ x.by = session[c]
                          /\ x.on = stack[c] /\ x.on # None
    BY <1>1, <1>5 DEF Good, Live
  <2>2. x.by[2] = c
    BY <1>1, <1>2, <2>1 DEF Known
  <2>3. QED
    BY <2>1, <2>2 DEF Of
<1>6. QED
  BY <1>3, <1>4, <1>5 DEF Held, NothingLeaks, ConnectedIsOpen

\* What a client has opened is on the stack that its close will close, through
\* every failed and cancelled connect, but for what an interrupted close was at.
THEOREM OpenIsHeld == Spec => []Held
<1>1. LInv => Held
  BY LeakFacts
<1>2. QED
  BY <1>1, LeakInit, LeakStep, PTL DEF Spec

\* A turn that is over, and whose cleanups were not cut short, has left nothing open
\* but what a cancel met while a failed connect was being undone.
THEOREM NoLeaks == Spec => []NothingLeaks
<1>1. LInv => NothingLeaks
  BY LeakFacts
<1>2. QED
  BY <1>1, LeakInit, LeakStep, PTL DEF Spec

\* A client that says it is connected has an open session.
THEOREM ConnectedOpen == Spec => []ConnectedIsOpen
<1>1. LInv => ConnectedIsOpen
  BY LeakFacts
<1>2. QED
  BY <1>1, LeakInit, LeakStep, PTL DEF Spec

-----------------------------------------------------------------------------
(* The tools of a turn are ready.  A client that a turn's overlay shows was
   connected, with its session open, when its tools were listed (Listing), and
   nobody else uses it since. *)

Shows(t, c) == \E n \in DOMAIN overlay[t] : overlay[t][n] = c

Ready(t, c) ==
  stage[t] \in {"provider", "on"} /\ Shows(t, c) => connected[c] /\ Alive(session[c])

Listing(t, c) ==
  Awaiting(t, "list") /\ task[t].client = c => connected[c] /\ task[t].on = session[c]

Sessions == \A c \in Clients : session[c] # None => session[c][2] = c

RInv ==
  /\ LInv /\ Sessions
  /\ \A c \in Unshared, t \in Turns : Ready(t, c) /\ Listing(t, c)

LEMMA SessionsStep ==
  ASSUME TInv, Sessions, NEW t \in Turns, Step(t)
  PROVE  Sessions'
<1> USE ToolsAssumption
<1>0. ClientTypes /\ TaskOK(t)
  BY TInvParts DEF Types
<1>1. \/ session' = session
      \/ \E c : session' = [session EXCEPT ![c] = None]
      \/ \E c : session' = [session EXCEPT ![c] = <<t, c>>]
  BY DEF Step, Start, Provide, Connect, Connecting, OpenStream, OpenSession, Initialized,
     Listed, Unavailable, ConnectFails, Undone, Unstacked, ConnectFailsBare, Provided, Ask,
     Answered, End, Clean, Close, Reset, Cleaned, ClosesDown, Done, CancelTurn, Recancel, Cut,
     mcp, clients, turns
<1>2. \A c \in Clients : session'[c] \in {session[c], None, <<t, c>>}
  BY <1>0, <1>1 DEF ClientTypes
<1>3. QED
  BY <1>2 DEF Sessions

\* A task that lists or calls leaves the clients as they are.
LEMMA ListingQuiet ==
  ASSUME NEW u \in Turns, Step(u), task[u].await \in {"list", "invoke"}
  PROVE  UNCHANGED <<clients, open>>
BY DEF Step, Start, Provide, Connecting, OpenStream, OpenSession, Initialized, Listed,
   Unavailable, ConnectFails, Undone, ConnectFailsBare, Provided, Ask, Answered, End, Clean,
   Cleaned, ClosesDown, Done, CancelTurn, Recancel, Cut, mcp, Awaiting

\* A step of turn u that is not about client c leaves it as it is.
LEMMA ClientKept ==
  ASSUME TInv, Known, NEW u \in Turns, Step(u), NEW c \in Clients,
         task[u].client # c, task'[u].client # c,
         stage[u] = "drain" => c \notin ToSet(cleanups[u])
  PROVE  ClientSame(c)
<1> USE ToolsAssumption
<1>0. /\ ClientTypes /\ task \in Tasks /\ TurnTypes
      /\ Fits(u) /\ TaskOK(u) /\ CallOK(u) /\ Knows(u)
  BY TInvParts DEF Types, Known
<1> DEFINE k == task[u].client
<1>1. ASSUME task[u].await \in {"stream", "session", "undo", "close"}
      PROVE  \A x \in open : x.by[2] = c => x.on # task[u].on
  BY <1>0, <1>1 DEF Known, TaskOK, Knows
<1>2. CASE UNCHANGED <<clients, open>>
  BY <1>2 DEF ClientSame, clients
<1>3. CASE Provide(u)
  <2>1. PICK j \in left[u] :
          UNCHANGED <<clients, open>> \/ (Connect(u, j) /\ open' = open)
    BY <1>3 DEF Provide, Connect
  <2>2. CASE Connect(u, j) /\ open' = open
    <3>1. task'[u].client = j
      BY <1>0, <2>2, AwaitIs DEF Connect
    <3>2. QED
      BY <1>0, <2>2, <3>1 DEF Connect, ClientSame, ClientTypes
  <2>3. QED
    BY <1>2, <2>1, <2>2
<1>4. CASE OpenStream(u)
  <2>1. PICK x : x = Context("stream", <<u, k>>, task[u].on)
    OBVIOUS
  <2>2. open' = open \cup {x} /\ x.by[2] = k /\ UNCHANGED clients
    BY <1>4, <2>1 DEF OpenStream, Context
  <2>3. QED
    BY <2>2 DEF ClientSame, clients
<1>5. CASE OpenSession(u)
  <2>1. PICK x : x = Context("session", <<u, k>>, task[u].on)
    OBVIOUS
  <2>2. /\ open' = open \cup {x} /\ x.by[2] = k /\ UNCHANGED <<connected, stack>>
        /\ session' = [session EXCEPT ![k] = <<u, k>>]
    BY <1>5, <2>1 DEF OpenSession, Context
  <2>3. QED
    BY <1>0, <2>2 DEF ClientSame, ClientTypes
<1>6. CASE Initialized(u)
  BY <1>0, <1>6 DEF Initialized, ClientSame, ClientTypes
<1>7. CASE Undone(u)
  <2>1. /\ open' = {x \in open : x.on # task[u].on} /\ stack' = [stack EXCEPT ![k] = None]
        /\ UNCHANGED <<connected, session>> /\ task[u].await = "undo"
    BY <1>7 DEF Undone, Closed, Unstacked, Awaiting
  <2>2. QED
    BY <1>0, <1>1, <2>1 DEF ClientSame, ClientTypes
<1>8. CASE ConnectFailsBare(u)
  <2>1. PICK x : x = Context("stream", <<u, k>>, task[u].on)
    OBVIOUS
  <2>2. open' \in {open, open \cup {x}} /\ x.by[2] = k /\ UNCHANGED clients
    BY <1>8, <2>1 DEF ConnectFailsBare, Context
  <2>3. QED
    BY <2>2 DEF ClientSame, clients
<1>9. CASE Clean(u)
  <2>1. /\ Head(cleanups[u]) # c /\ open' = open
        /\ Reset(Head(cleanups[u])) \/ UNCHANGED clients
    BY <1>0, <1>9, TailSet DEF Clean, Close, TurnTypes
  <2>2. QED
    BY <1>0, <2>1 DEF ClientSame, Reset, clients, ClientTypes
<1>10. CASE Cleaned(u)
  <2>1. /\ open' = {x \in open : x.on # task[u].on} /\ Reset(k) /\ task[u].await = "close"
    BY <1>10 DEF Cleaned, ClosesDown, Closed, Awaiting
  <2>2. QED
    BY <1>0, <1>1, <2>1 DEF ClientSame, Reset, ClientTypes
<1>11. CASE Cut(u) /\ task[u].await \in {"undo", "close"}
  <2>1. PICK kinds : Abandoned(task[u].on, kinds)
    BY <1>11 DEF Cut
  <2>2. task[u].on \in Connects /\ task[u].on[2] = k
    BY <1>0, <1>11 DEF TaskOK, Knows
  <2>3. stack' = [stack EXCEPT ![k] = None] /\ UNCHANGED <<connected, session>>
    BY <1>11 DEF Cut, Unstacked
  <2>4. /\ \A x \in open' : \/ x \in open /\ x.on # task[u].on
                          \/ /\ x.on = None
                             /\ \E y \in open : y.on = task[u].on /\ x.by = y.by
        /\ \A x \in open : x.on # task[u].on => x \in open'
    BY Zenon, <1>0, <2>1, <2>2, AbandonedSet
  <2>5. \A x : x.by[2] = c => (x \in open' <=> x \in open)
    BY <1>1, <1>11, <2>4
  <2>6. QED
    BY <1>0, <2>3, <2>5 DEF ClientSame, ClientTypes
<1>12. QED
  BY <1>2, <1>3, <1>4, <1>5, <1>6, <1>7, <1>8, <1>9, <1>10, <1>11
  DEF Step, Start, Connecting, Listed, Unavailable, ConnectFails, Provided, Ask, Answered,
      End, Done, CancelTurn, Recancel, Cut, mcp

\* A session that is open stays open in a client that a step leaves alone.
LEMMA StillOpen ==
  ASSUME ClientTypes, Sessions, NEW c \in Clients, ClientSame(c), Alive(session[c])
  PROVE  Alive(session[c])'
<1> USE ToolsAssumption
<1>1. PICK x \in open : x.kind = "session" /\ x.by = session[c]
  BY DEF Alive
<1>2. x.by \in Connects
  BY <1>1 DEF ClientTypes, Contexts
<1>3. session[c] # None /\ x.by[2] = c
  BY <1>1, <1>2 DEF Sessions
<1>4. QED
  BY <1>1, <1>3 DEF ClientSame, Alive

\* The other turns' tools stay ready: nobody but their turn uses the clients.
LEMMA ReadyOthers ==
  ASSUME TInv, Known, Known', NEW u \in Turns, Step(u), NEW c \in Clients,
         Good(c), OneUser(c)', Sessions, NEW t \in Turns \ {u}, Ready(t, c), Listing(t, c)
  PROVE  Ready(t, c)' /\ Listing(t, c)'
<1> USE ToolsAssumption
<1>0. /\ ClientTypes /\ OthersSame(u) /\ Knows(u) /\ Knows(u)' /\ Knows(t)
      /\ TaskOK(u)
  BY TInvParts, OtherTurns DEF Types, Known
<1>1. /\ task'[t] = task[t] /\ stage'[t] = stage[t] /\ overlay'[t] = overlay[t]
  BY <1>0 DEF OthersSame
<1>2. CASE ~Uses(t, c)
  <2>1. task[t].client # c /\ (stage[t] \in {"provider", "on"} => ~Shows(t, c))
    BY <1>0, <1>2, AwaitingUses DEF Knows, Uses, Shows
  <2>2. QED
    BY <1>1, <2>1 DEF Ready, Listing, Shows
<1>3. CASE Uses(t, c)
  <2>1. Uses(t, c)' /\ ~Uses(u, c) /\ ~Uses(u, c)'
    BY <1>0, <1>3, UsesOthers DEF Good, OneUser
  <2>2. task[u].client # c
    BY <2>1, AwaitingUses
  <2>3. task'[u].client # c
    BY <1>0, <2>1 DEF Knows, Uses
  <2>4. stage[u] = "drain" => c \notin ToSet(cleanups[u])
    BY <2>1 DEF Uses
  <2>5. ClientSame(c)
    BY <2>2, <2>3, <2>4, ClientKept
  <2>6. Alive(session[c]) => Alive(session[c])'
    BY <1>0, <2>5, StillOpen
  <2>7. connected'[c] = connected[c] /\ session'[c] = session[c]
    BY <2>5 DEF ClientSame
  <2>8. QED
    BY <1>1, <2>6, <2>7 DEF Ready, Listing, Shows, Awaiting
<1>4. QED
  BY <1>2, <1>3

\* A turn's own steps: a client is shown when it was listed, and is let go of only
\* when the turn drains.
LEMMA ReadyOwn ==
  ASSUME TInv, Known, NEW t \in Turns, Step(t), NEW c \in Clients,
         Good(c), Sessions, Ready(t, c), Listing(t, c)
  PROVE  Ready(t, c)'
<1> USE ToolsAssumption
<1> SUFFICES ASSUME stage'[t] \in {"provider", "on"}, Shows(t, c)'
             PROVE  connected'[c] /\ Alive(session[c])'
  BY DEF Ready
<1>0. /\ ClientTypes /\ task \in Tasks /\ TurnTypes /\ Fits(t) /\ TaskOK(t) /\ Knows(t)
  BY TInvParts DEF Types, Known
<1>1. CASE Listed(t) /\ task[t].client = c
  <2>1. UNCHANGED <<clients, open>> /\ Awaiting(t, "list") /\ Alive(task[t].on)
    BY <1>1 DEF Listed
  <2>2. connected[c] /\ Alive(session[c])
    BY <1>1, <2>1 DEF Listing
  <2>3. QED
    BY <2>1, <2>2 DEF clients, Alive
<1>2. CASE ~(Listed(t) /\ task[t].client = c)
  <2>1. Shows(t, c) /\ stage[t] \in {"provider", "on"}
    <3>1. CASE Listed(t)
      <4>1. /\ overlay'[t] = Overlaid(overlay[t], task[t].client) /\ stage' = stage
            /\ task[t].client \in Clients /\ task[t].client # c
        BY <1>0, <1>2, <3>1 DEF Listed, Awaiting, TaskOK, TurnTypes
      <4>2. QED
        BY <4>1 DEF Shows, Overlaid
    <3>2. CASE ~Listed(t)
      <4>1. overlay'[t] = overlay[t] \/ overlay'[t] = <<>>
        BY <1>0, <3>2 DEF TurnTypes, Step, Start, Provide, Connecting, Unavailable, GivesUp,
           Provided, Ask, Answered, End, Leaves, Clean, Cleaned, Done, CancelTurn, Recancel,
           turns
      <4>2. overlay'[t] = overlay[t] /\ Shows(t, c)
        BY <4>1 DEF Shows
      <4>3. QED
        BY <1>0, <4>2 DEF Knows, Shows
    <3>3. QED
      BY <3>1, <3>2
  <2>2. connected[c] /\ Alive(session[c]) /\ c \in ToSet(cleanups[t]) /\ c \notin left[t]
    BY <1>0, <2>1 DEF Ready, Knows, Shows
  <2>3. CASE UNCHANGED <<clients, open>>
    BY <2>2, <2>3 DEF clients, Alive
  <2>4. CASE ~UNCHANGED <<clients, open>>
    <3>1. task[t].client # c
      <4>1. task[t].client = c => task[t].await \in {"list", "invoke"}
        BY <1>0, <2>1, <2>2 DEF Good, Own, Fits, TaskOK, Awaiting, Tasks, Awaits
      <4>2. QED
        BY <2>4, <4>1, ListingQuiet
    <3>2. task'[t].client # c
      <4>1. CASE Provide(t)
        <5>1. PICK j \in left[t] : Await(t, "list", j, session[j]) \/ Connect(t, j)
          BY <4>1 DEF Provide
        <5>2. task'[t].client = j
          BY <1>0, <5>1, AwaitIs DEF Connect
        <5>3. QED
          BY <2>2, <5>2
      <4>2. CASE Connecting(t)
        BY <1>0, <3>1, <4>2, AwaitIs DEF Connecting, OpenStream, OpenSession, Initialized
      <4>3. CASE Unavailable(t)
        BY <1>0, <3>1, <4>3, AwaitIs, GoesOnSet
        DEF Unavailable, ConnectFails, Undone, ConnectFailsBare
      <4>4. CASE Cut(t)
        BY <1>0, <4>4, GoesOnSet DEF Cut
      <4>5. CASE Cleaned(t) \/ Clean(t)
        BY <1>0, <2>1, <4>5 DEF Cleaned, ClosesDown, Clean, Fits, Awaiting
      <4>6. QED
        BY <2>4, <4>1, <4>2, <4>3, <4>4, <4>5
        DEF Step, Start, Listed, Provided, Ask, Answered, End, Done, CancelTurn, Recancel, mcp
    <3>3. ClientSame(c)
      BY <2>1, <3>1, <3>2, ClientKept
    <3>4. QED
      BY <1>0, <2>2, <3>3, StillOpen DEF ClientSame
  <2>5. QED
    BY <2>3, <2>4
<1>3. QED
  BY <1>1, <1>2

LEMMA ListingOwn ==
  ASSUME TInv, NEW t \in Turns, Step(t), NEW c \in Clients, Listing(t, c)
  PROVE  Listing(t, c)'
<1> USE ToolsAssumption
<1> SUFFICES ASSUME task'[t].await = "list", task'[t].client = c
             PROVE  connected'[c] /\ task'[t].on = session'[c]
  BY DEF Listing, Awaiting
<1>0. ClientTypes /\ task \in Tasks /\ TaskOK(t)
  BY TInvParts DEF Types
<1>1. CASE Provide(t)
  <2>1. PICK j \in left[t] :
          \/ connected[j] /\ Await(t, "list", j, session[j]) /\ UNCHANGED clients
          \/ Await(t, "stream", j, <<t, j>>)
    BY <1>1 DEF Provide, Connect
  <2>2. QED
    BY <1>0, <2>1, AwaitIs DEF clients
<1>2. CASE Initialized(t)
  BY <1>0, <1>2, AwaitIs DEF Initialized, ClientTypes, TaskOK, Awaiting
<1>3. CASE UNCHANGED mcp
  BY <1>3 DEF mcp, clients, Listing, Awaiting
<1>4. CASE \/ OpenStream(t) \/ OpenSession(t) \/ ConnectFails(t)
  BY <1>0, <1>4, AwaitIs DEF OpenStream, OpenSession, ConnectFails
<1>5. CASE Ask(t)
  BY <1>0, <1>5, AwaitIs, GoesOnSet DEF Ask
<1>6. CASE Clean(t)
  BY <1>0, <1>6, AwaitIs, GoesOnSet DEF Clean, Close
<1>7. CASE GoesOn(t)
  BY <1>0, <1>7, GoesOnSet
<1>8. QED
  BY <1>1, <1>2, <1>3, <1>4, <1>5, <1>6, <1>7
  DEF Step, Start, Connecting, Listed, Unavailable, Undone, ConnectFailsBare, Provided,
      Answered, End, Cleaned, ClosesDown, Done, CancelTurn, Recancel, Cut

LEMMA ReadyInit == Init => RInv
<1> SUFFICES ASSUME Init PROVE RInv
  OBVIOUS
<1>1. LInv
  BY LeakInit
<1>2. Sessions
  BY DEF Init, McpInit, Sessions
<1>3. ASSUME NEW t \in Turns, NEW c PROVE Ready(t, c) /\ Listing(t, c)
  BY DEF Init, McpInit, Going, Ready, Listing, Awaiting
<1>4. QED
  BY <1>1, <1>2, <1>3 DEF RInv

LEMMA ReadyStep == RInv /\ [Next]_vars => RInv'
<1> SUFFICES ASSUME RInv, [Next]_vars PROVE RInv'
  OBVIOUS
<1>1. LInv /\ LInv' /\ TInv /\ Known /\ Known' /\ Sessions
  BY LeakStep DEF RInv, LInv
<1>2. CASE UNCHANGED vars
  <2>1. UNCHANGED <<connected, session, open, task, stage, overlay, shared>>
    BY <1>2 DEF vars, turns, mcp, clients
  <2>2. Sessions'
    BY <1>1, <2>1 DEF Sessions
  <2>3. ASSUME NEW c \in Unshared', NEW t \in Turns PROVE Ready(t, c)' /\ Listing(t, c)'
    <3>1. Ready(t, c) /\ Listing(t, c)
      BY <2>1, <2>3 DEF RInv, Unshared
    <3>2. QED
      BY <2>1, <3>1 DEF Ready, Listing, Shows, Alive, Awaiting
  <2>4. QED
    BY <1>1, <2>2, <2>3 DEF RInv
<1>3. ASSUME NEW u \in Turns, Step(u) PROVE RInv'
  <2>1. shared \subseteq shared'
    BY <1>3 DEF Step, Start, Provide, Connecting, Listed, Unavailable, GivesUp, Provided, Ask,
       Answered, End, Clean, Cleaned, Done, CancelTurn, Recancel, turns
  <2>2. ASSUME NEW c \in Unshared', NEW t \in Turns PROVE Ready(t, c)' /\ Listing(t, c)'
    <3>1. c \in Clients /\ c \in Unshared /\ Ready(t, c) /\ Listing(t, c)
      BY <2>1, <2>2 DEF RInv, Unshared
    <3>2. Good(c) /\ OneUser(c)'
      BY <1>1, <2>2, <3>1 DEF LInv, Good
    <3>3. CASE t = u
      BY <1>1, <1>3, <3>1, <3>2, <3>3, ReadyOwn, ListingOwn
    <3>4. CASE t # u
      BY <1>1, <1>3, <3>1, <3>2, <3>4, ReadyOthers
    <3>5. QED
      BY <3>3, <3>4
  <2>3. Sessions'
    BY <1>1, <1>3, SessionsStep
  <2>4. QED
    BY <1>1, <2>2, <2>3 DEF RInv
<1>4. QED
  BY <1>2, <1>3 DEF Next

\* A turn that makes calls finds every client whose tools the model was shown with
\* its session open, whatever becomes of the other clients and turns.
THEOREM ShownReady == Spec => []ShownIsReady
<1>1. RInv => ShownIsReady
  <2> USE ToolsAssumption
  <2> SUFFICES ASSUME RInv, NEW t \in Turns, stage[t] = "on", NEW n \in DOMAIN shown[t],
                      shown[t][n] \in Unshared
               PROVE  Usable(shown[t][n]) /\ Alive(session[shown[t][n]])
    BY DEF ShownIsReady
  <2>1. /\ shown[t] = Visible(overlay[t]) /\ overlay[t] \in Toolboxes(Clients) /\ ClientTypes
    BY TInvParts DEF RInv, LInv, CallOK, Types, TurnTypes
  <2>2. PICK c : c = shown[t][n]
    OBVIOUS
  <2>3. c \in Unshared /\ c \in Clients /\ c # "builtin"
    BY <2>2 DEF Unshared
  <2>4. n \notin Builtins
    BY <2>1, <2>2, <2>3 DEF Visible, Builtin
  <2>5. Shows(t, c)
    BY <2>1, <2>2, <2>4, VisibleType DEF Shows
  <2>6. connected[c] /\ Alive(session[c])
    BY <2>3, <2>5 DEF RInv, Ready
  <2>7. session[c] # None
    BY <2>1, <2>6 DEF Alive, ClientTypes, Contexts
  <2>8. QED
    BY <2>2, <2>6, <2>7 DEF Usable
<1>2. QED
  BY <1>1, ReadyInit, ReadyStep, PTL DEF Spec

=============================================================================
