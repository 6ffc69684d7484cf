--------------------------- MODULE AtomicDocument ---------------------------
(***************************************************************************)
(* What the conversation store promises its callers: an operation takes    *)
(* effect at one instant between its call and its return, on the document  *)
(* as it is at that instant; an operation whose check fails there changes  *)
(* nothing, and neither does one that raises.  No update is ever lost and  *)
(* no half-written document is ever seen.                                  *)
(***************************************************************************)
EXTENDS ConversationDocument

CONSTANT Procs   \* the coroutines that call the store

Create == [kind |-> "create"]
Done   == [kind |-> "done"]

VARIABLES doc,     \* the document, None before create() took effect
          pending  \* pending[p]: p's request, Create, Done or None

avars == <<doc, pending>>

AInit == doc \in Docs \cup {None} /\ pending = [p \in Procs |-> None]

ACallCreate(p) ==
  /\ pending[p] = None
  /\ doc = None
  /\ pending' = [pending EXCEPT ![p] = Create]
  /\ UNCHANGED doc

ACall(p) ==
  /\ pending[p] = None
  /\ doc # None
  /\ pending'[p] \in Requests
  /\ pending' = [pending EXCEPT ![p] = pending'[p]]
  /\ UNCHANGED doc

ACreate(p) ==
  /\ pending[p] = Create /\ doc = None
  /\ doc' \in Docs
  /\ doc' = NewDoc(doc'.org, doc'.stamp)
  /\ pending' = [pending EXCEPT ![p] = Done]

\* The time the operation takes, if it takes one, is any.
ACommit(p) ==
  /\ pending[p] \in Requests
  /\ Accepts(pending[p], doc)
  /\ doc' \in Docs
  /\ doc' = Edited(pending[p], doc, doc'.stamp)
  /\ pending' = [pending EXCEPT ![p] = Done]

ARefuse(p) ==
  /\ pending[p] \in Requests
  /\ ~Accepts(pending[p], doc)
  /\ pending' = [pending EXCEPT ![p] = None]
  /\ UNCHANGED doc

\* A call returns after its effect, or raises without one.
AReturn(p) ==
  /\ pending[p] # None
  /\ pending' = [pending EXCEPT ![p] = None]
  /\ UNCHANGED doc

\* The process dies: the calls are gone, the document stays.
ACrash ==
  /\ pending' = [p \in Procs |-> None]
  /\ UNCHANGED doc

ANext ==
  \/ ACrash
  \/ \E p \in Procs : \/ ACallCreate(p) \/ ACall(p) \/ ACreate(p)
                      \/ ACommit(p) \/ ARefuse(p) \/ AReturn(p)

ASpec == AInit /\ [][ANext]_avars

=============================================================================
