----------------------------- MODULE Reservations -----------------------------
(***************************************************************************)
(* What the registry of a member's runtime promises to those who reserve   *)
(* an operation and to those who wait for one, with the entry's states,    *)
(* the attach task, the coordinator and the agent left out.  Operations    *)
(* are numbered as they are handed out.  At most one is under way; a       *)
(* removal may take an attach's place, nothing takes a removal's.  Each    *)
(* is answered once, when it ends and not before, with an answer of its    *)
(* kind; an attach that was superseded learns that the member is removed.  *)
(***************************************************************************)
EXTENDS Naturals

CONSTANT MaxOps

VARIABLES
  handed,    \* operations handed out so far
  running,   \* the operation under way, and its kind
  told,      \* [operation -> its answer, or "open"]
  closed     \* the registry is closed

rvars == <<handed, running, told, closed>>

Idle   == [kind |-> "none", o |-> 0]
Fresh(kind) == handed < MaxOps /\ handed' = handed + 1 /\ running' = [kind |-> kind, o |-> handed + 1]

ResInit ==
  /\ handed = 0 /\ running = Idle
  /\ told = [o \in 1..MaxOps |-> "open"] /\ closed = FALSE

Tell(a) == told[running.o] = "open" /\ told' = [told EXCEPT ![running.o] = a]

Attach ==
  /\ ~closed /\ running = Idle
  /\ Fresh("attach") /\ UNCHANGED <<told, closed>>

Remove ==
  /\ ~closed /\ Fresh("remove")
  /\ \/ running = Idle /\ UNCHANGED told
     \/ running.kind = "attach" /\ Tell("Removed")
  /\ UNCHANGED closed

\* A removal fails when the roster cannot be saved.
Finish ==
  /\ ~closed /\ running # Idle /\ running' = Idle
  /\ \/ running.kind = "attach" /\ Tell("Ready")
     \/ running.kind = "remove" /\ Tell("Removed")
     \/ Tell("Failed")
  /\ UNCHANGED <<handed, closed>>

Close ==
  /\ closed' = TRUE /\ running' = Idle
  /\ \/ running = Idle /\ UNCHANGED told
     \/ running # Idle /\ Tell("Stopped")
  /\ UNCHANGED handed

ResNext == Attach \/ Remove \/ Finish \/ Close

ResSpec == ResInit /\ [][ResNext]_rvars
=============================================================================
