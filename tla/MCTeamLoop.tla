----------------------------- MODULE MCTeamLoop -----------------------------
(* Instances of TeamLoop for TLC. *)
EXTENDS TeamLoop, TLC

Symmetry == Permutations(Callers)

Kind(k, src) == [kind |-> k, source |-> src]

\* Messages, interruptions, pauses and cancelled runs against one another.
ControlCalls == {Kind("send", "UserMessage"),
                 Kind("interrupt", "LeadIntervention"), Kind("discard", "LeadIntervention"),
                 Kind("pause", "UserMessage"), Kind("cancel", "UserMessage")}

\* Notices and signals, with everything that can fail.
FaultyCalls == {Kind("send", "McpSendMessage"), Kind("notice", "InterruptedNotification"),
                Kind("signal", "IdleNotification"), Kind("interrupt", "LeadIntervention"),
                Kind("child", "UserMessage"), Kind("cancel", "UserMessage")}

\* Ordinary traffic and pauses, for liveness.
DeliveryCalls == {Kind("send", "UserMessage"), Kind("pause", "UserMessage")}
NoticeCalls   == {Kind("notice", "InterruptedNotification")}

\* A call that has begun is carried on; nobody has to begin one.
CallGoesOn(c) == ~At(c, "idle") /\ CallStep(c)

Fairness == /\ \A c \in Callers : WF_vars(CallGoesOn(c))
            /\ \A s \in Slots : WF_vars(LoopStep(s))
FairSpec == LoopSpec /\ Fairness
=============================================================================
