------------------------------ MODULE WorkPool ------------------------------
(***************************************************************************)
(* What the work coordinator promises to the rest of a team session, with  *)
(* lanes, leases, runs, constraints and counters left out.  Every piece of *)
(* admitted work is pending in its slot, held by the slot's one batch, or  *)
(* ended.  A batch is taken whole from pending work and let go whole; work *)
(* moves to no other slot, is never forgotten and never comes back.        *)
(***************************************************************************)
CONSTANTS Slots, Work

VARIABLES
  pending,  \* [slot -> work waiting for it]
  held,     \* [slot -> work of its active batch]
  ended     \* work that completed, failed or was cancelled

pvars == <<pending, held, ended>>

PoolInit ==
  /\ pending = [s \in Slots |-> {}]
  /\ held = [s \in Slots |-> {}]
  /\ ended = {}

Known == ended \cup UNION {pending[s] \cup held[s] : s \in Slots}

\* New work arrives in a slot; pending work that it makes obsolete may end.
Admit(s) ==
  \E new \in SUBSET (Work \ Known), gone \in SUBSET pending[s] :
    /\ pending' = [pending EXCEPT ![s] = (@ \ gone) \cup new]
    /\ ended' = ended \cup gone
    /\ UNCHANGED held

\* A slot that holds nothing takes some of its pending work.
Take(s) ==
  \E batch \in (SUBSET pending[s]) \ {{}} :
    /\ held[s] = {}
    /\ held' = [held EXCEPT ![s] = batch]
    /\ pending' = [pending EXCEPT ![s] = @ \ batch]
    /\ UNCHANGED ended

\* Some slots let go of what they hold; of that and of the pending work, part
\* ends and the rest is pending.
Release(open, gone) ==
  LET let(s) == IF s \in open THEN held[s] ELSE {}
  IN /\ gone \subseteq UNION {pending[s] \cup let(s) : s \in Slots}
     /\ held' = [s \in Slots |-> held[s] \ let(s)]
     /\ pending' = [s \in Slots |-> (pending[s] \cup let(s)) \ gone]
     /\ ended' = ended \cup gone

PoolNext ==
  \/ \E s \in Slots : Admit(s) \/ Take(s)
  \/ \E open \in SUBSET Slots, gone \in SUBSET Work : Release(open, gone)

PoolSpec == PoolInit /\ [][PoolNext]_pvars
=============================================================================
