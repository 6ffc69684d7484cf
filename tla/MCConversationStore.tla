------------------------- MODULE MCConversationStore -------------------------
(* Small instances of ConversationStore: which coroutine calls what. *)
EXTENDS ConversationStore, TLC

CONSTANTS p1, p2, p3, a

\* A turn that creates, saves and sets the status; a sender; the title task and
\* another sender.
TurnAndSenders == p1 :> {"create", "save", "status"} @@ p2 :> {"get", "claim"}
                    @@ p3 :> {"title", "get", "claim"}

\* A turn that saves, the cancel handler's update_status, a title in flight.
TurnAndCanceller == p1 :> {"create", "save"} @@ p2 :> {"status"}
                      @@ p3 :> {"title", "get"}

\* The server starts on a conversation left idle by an earlier turn.
IdleConversation ==
  {[org |-> o, status |-> "idle", ctx |-> a, stamp |-> 0, title |-> None] : o \in Orgs}

=============================================================================
