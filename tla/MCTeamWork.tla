----------------------------- MODULE MCTeamWork -----------------------------
(* Instances of TeamWork for TLC: every method on two intents of one slot, the
   methods that move work between lanes and batch on three, and the methods
   that several slots feel on two slots.                                   *)
EXTENDS TeamWork, TLC

\* Messages are interchangeable: no operator orders or names them.
Symmetry == Permutations(Msgs)
SharedSymmetry == Symmetry \cup Permutations(Slots)

Sending == \/ \E c \in Callers, s \in Slots, src \in Sources, r \in Runs \cup {NoRun} :
                AcquireEnqueue(c, s, src, r)
           \/ \E l \in leases, m \in Msgs \cup {NoMsg} : CommitEnqueue(l, m)

Moving(s) == \/ Claim(s) \/ RetryStart(s, active[s]) \/ MarkStarted(s, active[s])
             \/ CompleteBatch(s, active[s]) \/ InterruptBatch(s, active[s])
             \/ SetConstraint(s, Ready) \/ SetConstraint(s, [kind |-> "Failed", op |-> 0])

OrderNext == Sending \/ (\E s \in Slots : Moving(s)) \/ (\E r \in Runs : CancelRun(r))

OrderSpec == Init /\ [][OrderNext]_cvars

\* Two slots that share a run, its cancellation and the end of the session.
Ending(s) == \/ RemoveSlot(s)
             \/ \E unread \in Rows(Msgs) : ReconcileMailbox(s, unread, QueuedIn(s))

SharedSpec == Init /\ [][OrderNext \/ (\E s \in Slots : Ending(s)) \/ Stop]_cvars
=============================================================================
