------------------------------ MODULE MCMember ------------------------------
(* An instance of MemberRuntime for TLC. *)
EXTENDS MemberRuntime, TLC

CONSTANTS x, y

\* Any call, while a message, a removal or a context reset may be under way.
TwoCalls == x :> CallKinds @@ y :> {"send", "remove", "reset"}
=============================================================================
