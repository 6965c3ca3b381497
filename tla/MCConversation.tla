--------------------------- MODULE MCConversation ---------------------------
(* Instances of ConversationTurn for TLC. *)
EXTENDS ConversationTurn, TLC

CONSTANTS user, system

\* The user stops or deletes the conversation while any other call is under way.
EveryCall == user :> {"cancel", "delete"} @@ system :> CallKinds

\* A conversation that is deleted while a turn or a warm-up may be building its agent.
DeleteCalls == user :> {"delete"} @@ system :> {"warmup"}
=============================================================================
