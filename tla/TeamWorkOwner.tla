---------------------------- MODULE TeamWorkOwner ----------------------------
(***************************************************************************)
(* Every live intent has exactly one owner, for every value of the         *)
(* constants.  The invariant OneOwner is restated as two equations between *)
(* sets, one per place an intent can live in: a lane holds exactly the     *)
(* queued intents of its slot and priority, the active batch exactly the   *)
(* intents of its slot in flight.  In that form it is inductive, because   *)
(* every method changes the two sides of an equation together.             *)
(*                                                                         *)
(* From it follow the order in which rows are claimed, whose inductive     *)
(* form also says that a batch comes before the rest of its lane, and that *)
(* isolated messages are delivered alone.                                  *)
(***************************************************************************)
EXTENDS TeamWorkProofs

WaitingIn(s, p) == {i \in Ids : intents[i].slot = s /\ Prio(intents[i].source) = p
                                /\ intents[i].state = "queued"}
InTurn(s)     == {i \in Ids : intents[i].slot = s /\ intents[i].state \in InFlight}

LanesExact == \A s \in Slots, p \in Lanes :
  IsInjective(lane[s][p]) /\ Range(lane[s][p]) = WaitingIn(s, p)

BatchesExact == \A s \in Slots :
  /\ IsInjective(active[s].ids) /\ Range(active[s].ids) = InTurn(s)
  /\ Idle(s) => InTurn(s) = {}
  /\ \A i \in InTurn(s) : Prio(intents[i].source) = active[s].prio /\ intents[i].msg # NoMsg

OwnedExactly == LanesExact /\ BatchesExact

\* The typed parts that the steps below use again and again.
LEMMA OwnerTypes ==
  ASSUME TypeOK
  PROVE  /\ \A i \in Ids : intents[i] \in Intent
         /\ \A s \in Slots, p \in Lanes : lane[s][p] \in Seq(Nat)
         /\ \A s \in Slots : active[s] \in Batch /\ active[s].ids \in Seq(Nat) /\ active[s].prio \in Lanes
BY DEF TypeOK, Ids, Batch

\* Only the empty queue has no elements.
LEMMA RangeEmpty ==
  ASSUME NEW T, NEW q \in Seq(T)
  PROVE  Range(q) = {} <=> q = <<>>
<1>1. DOMAIN q = 1..Len(q) /\ Len(q) \in Nat
  BY LenProperties
<1>2. Range(q) = {} <=> Len(q) = 0
  <2>1. CASE Len(q) = 0  BY <1>1, <2>1 DEF Range
  <2>2. CASE Len(q) # 0
    <3>1. 1 \in DOMAIN q  BY <1>1, <2>2
    <3> QED BY <3>1, <2>2 DEF Range
  <2> QED BY <2>1, <2>2
<1> QED BY <1>2, EmptySeq

\* The inductive form of the ownership invariant implies the one the runs check.
LEMMA ExactlyIsOneOwner ==
  ASSUME TypeOK, OwnedExactly
  PROVE  OneOwner
<1>1. LanesHoldQueued /\ LanesDistinct
  BY DEF OwnedExactly, LanesExact, LanesHoldQueued, LanesDistinct, WaitingIn, Range, PrioOf
<1>2. QueuedIsInLane
  <2> SUFFICES ASSUME NEW i \in Ids, intents[i].state = "queued"
               PROVE  i \in Range(lane[intents[i].slot][Prio(intents[i].source)])
    BY DEF QueuedIsInLane, PrioOf
  <2>1. intents[i].slot \in Slots /\ Prio(intents[i].source) \in Lanes
    BY OwnerTypes, PrioType DEF Intent
  <2>2. i \in WaitingIn(intents[i].slot, Prio(intents[i].source))
    BY DEF WaitingIn
  <2> QED BY <2>1, <2>2 DEF OwnedExactly, LanesExact
<1>3. ActiveOwnsBatch
  <2> SUFFICES ASSUME NEW s \in Slots
               PROVE  /\ \A k \in DOMAIN active[s].ids :
                           /\ active[s].ids[k] \in Ids
                           /\ intents[active[s].ids[k]].slot = s /\ PrioOf(active[s].ids[k]) = active[s].prio
                           /\ intents[active[s].ids[k]].msg # NoMsg
                           /\ intents[active[s].ids[k]].state \in InFlight
                      /\ IsInjective(active[s].ids)
                      /\ Idle(s) => active[s].ids = <<>>
    BY DEF ActiveOwnsBatch
  <2>1. \A k \in DOMAIN active[s].ids : active[s].ids[k] \in InTurn(s)
    BY DEF OwnedExactly, BatchesExact, Range
  <2>2. Idle(s) => active[s].ids = <<>>
    BY OwnerTypes, RangeEmpty DEF OwnedExactly, BatchesExact
  <2> QED BY <2>1, <2>2 DEF OwnedExactly, BatchesExact, InTurn, PrioOf
<1>4. InFlightIsActive
  <2> SUFFICES ASSUME NEW i \in Ids, intents[i].state \in InFlight
               PROVE  i \in Range(active[intents[i].slot].ids)
    BY DEF InFlightIsActive
  <2>1. intents[i].slot \in Slots /\ i \in InTurn(intents[i].slot)
    BY OwnerTypes DEF Intent, InTurn
  <2> QED BY <2>1 DEF OwnedExactly, BatchesExact
<1> QED BY <1>1, <1>2, <1>3, <1>4 DEF OneOwner

-----------------------------------------------------------------------------
(* Steps *)

\* What a change of state leaves alone.
LEMMA StateChange ==
  ASSUME TypeOK, NEW S, NEW st, intents' = WithState(S, st)
  PROVE  /\ Ids' = Ids
         /\ \A i \in Ids : /\ intents'[i].slot = intents[i].slot
                           /\ intents'[i].source = intents[i].source
                           /\ intents'[i].msg = intents[i].msg
                           /\ intents'[i].state = IF i \in S THEN st ELSE intents[i].state
<1>1. \A i \in Ids : intents[i] \in Intent
  BY OwnerTypes
<1> QED BY <1>1 DEF WithState, Ids, Intent

\* A step that touches no queue, no batch ownership and no intent.
LEMMA OwnerKept ==
  ASSUME TypeOK, OwnedExactly, intents' = intents, lane' = lane,
         \A s \in Slots : active'[s].op = active[s].op /\ active'[s].ids = active[s].ids
                            /\ active'[s].prio = active[s].prio
  PROVE  OwnedExactly'
<1>1. Ids' = Ids /\ \A s \in Slots : InTurn(s)' = InTurn(s) /\ \A p \in Lanes : WaitingIn(s, p)' = WaitingIn(s, p)
  BY DEF Ids, InTurn, WaitingIn
<1>2. LanesExact'
  BY <1>1 DEF OwnedExactly, LanesExact
<1>3. BatchesExact'
  BY <1>1 DEF OwnedExactly, BatchesExact, Idle, InTurn
<1> QED BY <1>2, <1>3 DEF OwnedExactly

\* Slots that let go of their batch, and keep no intent in flight.
LEMMA BatchesVacated ==
  ASSUME TypeOK, OwnedExactly, NEW T \in SUBSET Slots,
         \A i \in Ids : intents'[i].source = intents[i].source /\ intents'[i].msg = intents[i].msg,
         \A t \in Slots : active'[t] = IF t \in T THEN NoBatch ELSE active[t],
         \A t \in Slots : InTurn(t)' = IF t \in T THEN {} ELSE InTurn(t)
  PROVE  BatchesExact'
<1> SUFFICES ASSUME NEW t \in Slots
             PROVE  /\ IsInjective(active'[t].ids) /\ Range(active'[t].ids) = InTurn(t)'
                    /\ active'[t].op = 0 => InTurn(t)' = {}
                    /\ \A i \in InTurn(t)' : Prio(intents'[i].source) = active'[t].prio
                                               /\ intents'[i].msg # NoMsg
  BY DEF BatchesExact, Idle
<1>1. CASE t \in T
  <2>1. InTurn(t)' = {} /\ active'[t].ids = <<>>
    BY <1>1 DEF NoBatch
  <2>2. IsInjective(<<>>) /\ Range(<<>>) = {}
    BY DEF IsInjective, Range
  <2> QED BY <2>1, <2>2
<1>2. CASE t \notin T
  <2>1. \A i \in InTurn(t) : intents'[i].source = intents[i].source /\ intents'[i].msg = intents[i].msg
    BY DEF InTurn
  <2> QED BY <1>2, <2>1 DEF OwnedExactly, BatchesExact, Idle
<1> QED BY <1>1, <1>2

\* Intents that leave the lanes of s for a terminal state.
LEMMA OwnerDequeues ==
  ASSUME TypeOK, OwnedExactly, NEW s \in Slots, NEW S \in SUBSET Ids, NEW st \in Terminal,
         \A i \in S : intents[i].slot = s /\ intents[i].state = "queued",
         intents' = WithState(S, st), lane' = Dequeue(s, S), active' = active
  PROVE  OwnedExactly'
<1> USE StateChange
<1>1. LanesExact'
  <2> SUFFICES ASSUME NEW t \in Slots, NEW p \in Lanes
               PROVE  IsInjective(lane'[t][p]) /\ Range(lane'[t][p]) = WaitingIn(t, p)'
    BY DEF LanesExact
  <2>1. WaitingIn(t, p)' = WaitingIn(t, p) \ S
    BY DEF WaitingIn, Terminal
  <2>2. lane'[t][p] = IF t = s THEN Without(lane[t][p], S) ELSE lane[t][p]
    BY DEF Dequeue, TypeOK
  <2>3. t # s => WaitingIn(t, p) \ S = WaitingIn(t, p)
    BY DEF WaitingIn
  <2> QED BY <2>1, <2>2, <2>3, OwnerTypes, WithoutElements DEF OwnedExactly, LanesExact
<1>2. BatchesExact'
  <2>1. \A t \in Slots : InTurn(t)' = InTurn(t)
    BY DEF InTurn, Terminal, InFlight
  <2>2. \A t \in Slots : \A i \in InTurn(t) :
           intents'[i].source = intents[i].source /\ intents'[i].msg = intents[i].msg
    BY DEF InTurn
  <2> QED BY <2>1, <2>2 DEF OwnedExactly, BatchesExact, Idle
<1> QED BY <1>1, <1>2 DEF OwnedExactly

\* A batch that ends with all of its intents.
LEMMA OwnerEnds ==
  ASSUME TypeOK, OwnedExactly, NEW s \in Slots, NEW st \in Terminal,
         intents' = WithState(Range(active[s].ids), st), lane' = lane, active' = Vacate(s)
  PROVE  OwnedExactly'
<1> USE StateChange
<1> DEFINE S == Range(active[s].ids)
<1>1. S = InTurn(s)
  BY DEF OwnedExactly, BatchesExact
<1>2. \A t \in Slots : active'[t] = IF t = s THEN NoBatch ELSE active[t]
  BY DEF Vacate, TypeOK
<1> HIDE DEF S
<1>3. LanesExact'
  <2>1. \A t \in Slots, p \in Lanes : WaitingIn(t, p)' = WaitingIn(t, p)
    BY <1>1 DEF S, WaitingIn, InTurn, Terminal, InFlight
  <2> QED BY <2>1 DEF OwnedExactly, LanesExact
<1>4. BatchesExact'
  <2>1. \A t \in Slots : InTurn(t)' = IF t \in {s} THEN {} ELSE InTurn(t)
    BY <1>1 DEF S, InTurn, Terminal, InFlight
  <2>2. \A t \in Slots : active'[t] = IF t \in {s} THEN NoBatch ELSE active[t]
    BY <1>2
  <2>3. \A i \in Ids : intents'[i].source = intents[i].source /\ intents'[i].msg = intents[i].msg
    BY StateChange
  <2> HIDE StateChange
  <2> QED BY <2>1, <2>2, <2>3, BatchesVacated
<1> QED BY <1>3, <1>4 DEF OwnedExactly

\* A committed intent joins one lane, at either end.
LEMMA OwnerCommits ==
  ASSUME TypeOK, OwnedExactly, NEW l \in leases, NEW m \in Msgs \cup {NoMsg}, CommitEnqueue(l, m)
  PROVE  OwnedExactly'
<1> DEFINE n == Len(intents) + 1
           s == l.slot
           p == Prio(l.source)
<1>1. s \in Slots /\ p \in Lanes
  BY PrioType DEF TypeOK, Lease
<1>2. /\ Len(intents) \in Nat /\ Ids = 1..Len(intents)
      /\ Ids' = Ids \cup {n} /\ n \notin Ids
      /\ \A i \in Ids : intents'[i] = intents[i]
      /\ intents'[n] = NewIntent(s, l.source, m, l.run)
  <2>1. intents' = Append(intents, NewIntent(s, l.source, m, l.run))
    BY DEF CommitEnqueue
  <2>2. intents \in Seq(Intent) /\ NewIntent(s, l.source, m, l.run) \in Intent
    BY NewIntentType, SourcesAssumption DEF TypeOK, Lease
  <2> QED BY <2>1, <2>2, IdsType, LenProperties DEF Ids
<1>3. intents'[n].slot = s /\ Prio(intents'[n].source) = p /\ intents'[n].state = "queued"
  BY <1>2 DEF NewIntent
<1>4. lane' = [lane EXCEPT ![s][p] = IF l.source = "LeadIntervention"
                                     THEN <<n>> \o lane[s][p] ELSE Append(lane[s][p], n)]
  BY DEF CommitEnqueue
<1>5. active' = active
  BY DEF CommitEnqueue
<1> HIDE DEF n, s, p
<1>6. LanesExact'
  <2> SUFFICES ASSUME NEW t \in Slots, NEW o \in Lanes
               PROVE  IsInjective(lane'[t][o]) /\ Range(lane'[t][o]) = WaitingIn(t, o)'
    BY DEF LanesExact
  <2>1. CASE t = s /\ o = p
    <3> DEFINE q == lane[s][p]
    <3>1. q \in Seq(Nat) /\ n \in Nat /\ n \notin Range(q)
      BY <1>1, <1>2, OwnerTypes DEF n, OwnedExactly, LanesExact, WaitingIn
    <3>2. WaitingIn(t, o)' = WaitingIn(t, o) \cup {n}
      BY <1>2, <1>3, <2>1 DEF WaitingIn
    <3>3. IsInjective(q) /\ Range(q) = WaitingIn(t, o)
      BY <2>1 DEF OwnedExactly, LanesExact
    <3> DEFINE u == <<n>>
    <3>4. lane'[t][o] = u \o q \/ lane'[t][o] = q \o u
      BY <1>1, <1>4, <2>1, <3>1, OwnerTypes DEF TypeOK
    <3>5. u \in Seq(Nat) /\ IsInjective(u) /\ Range(u) = {n}
      BY <3>1 DEF IsInjective, Range
    <3> HIDE DEF q, u
    <3>6. Range(u) \cap Range(q) = {} /\ Range(q) \cap Range(u) = {}
      BY <3>1, <3>5
    <3>7. IsInjective(u \o q) /\ Range(u \o q) = {n} \cup Range(q)
      BY <3>1, <3>3, <3>5, <3>6, JoinElements
    <3>8. IsInjective(q \o u) /\ Range(q \o u) = Range(q) \cup {n}
      BY <3>1, <3>3, <3>5, <3>6, JoinElements
    <3> QED BY <3>2, <3>3, <3>4, <3>7, <3>8
  <2>2. CASE ~(t = s /\ o = p)
    <3>1. lane'[t][o] = lane[t][o]
      BY <1>1, <1>4, <2>2 DEF TypeOK
    <3>2. WaitingIn(t, o)' = WaitingIn(t, o)
      BY <1>2, <1>3, <2>2 DEF WaitingIn
    <3> QED BY <3>1, <3>2 DEF OwnedExactly, LanesExact
  <2> QED BY <2>1, <2>2
<1>7. BatchesExact'
  <2>1. \A t \in Slots : InTurn(t)' = InTurn(t)
    BY <1>2, <1>3 DEF InTurn, InFlight
  <2>2. \A t \in Slots : \A i \in InTurn(t) : intents'[i] = intents[i]
    BY <1>2 DEF InTurn
  <2> QED BY <1>5, <2>1, <2>2 DEF OwnedExactly, BatchesExact, Idle
<1> QED BY <1>6, <1>7 DEF OwnedExactly

\* A claim moves the head of one lane into the batch.
LEMMA OwnerClaims ==
  ASSUME TypeOK, OwnedExactly, NEW s \in Slots, Claim(s)
  PROVE  OwnedExactly'
<1>1. PICK p \in Lanes :
        LET q   == lane[s][p]
            ids == Pick(q, BatchAt(q))
        IN /\ active' = [active EXCEPT ![s] = [op |-> opId + 1, ids |-> ids, prio |-> p,
                                               turn |-> FALSE, observed |-> {}]]
           /\ intents' = WithState(Range(ids), "starting")
           /\ lane' = Dequeue(s, Range(ids))
  BY DEF Claim
<1> DEFINE q   == lane[s][p]
           K   == BatchAt(q)
           ids == Pick(q, K)
           S   == Range(ids)
<1>2. q \in Seq(Nat) /\ IsInjective(q) /\ Range(q) = WaitingIn(s, p)
  BY OwnerTypes DEF OwnedExactly, LanesExact
<1>3. K \in SUBSET DOMAIN q /\ \A k \in K : intents[q[k]].msg # NoMsg
  BY DEF BatchAt, MessageAt, HeadOf
<1>4. /\ intents' = WithState(S, "starting") /\ lane' = Dequeue(s, S)
      /\ active' = [active EXCEPT ![s] = [op |-> opId + 1, ids |-> ids, prio |-> p,
                                          turn |-> FALSE, observed |-> {}]]
  BY <1>1
<1> HIDE DEF q, K
<1>5. S = {q[k] : k \in K} /\ IsInjective(ids)
  BY <1>2, <1>3, PickRange, PickInjective
<1>6. S \subseteq WaitingIn(s, p) /\ \A i \in S : intents[i].msg # NoMsg
  BY <1>2, <1>3, <1>5 DEF Range
<1> HIDE DEF ids, S
<1>7. /\ Ids' = Ids
      /\ \A i \in Ids : /\ intents'[i].slot = intents[i].slot
                        /\ intents'[i].source = intents[i].source
                        /\ intents'[i].msg = intents[i].msg
                        /\ intents'[i].state = IF i \in S THEN "starting" ELSE intents[i].state
  BY <1>4, StateChange
<1>8. LanesExact'
  <2> SUFFICES ASSUME NEW t \in Slots, NEW o \in Lanes
               PROVE  IsInjective(lane'[t][o]) /\ Range(lane'[t][o]) = WaitingIn(t, o)'
    BY DEF LanesExact
  <2>1. WaitingIn(t, o)' = WaitingIn(t, o) \ S
    BY <1>7 DEF WaitingIn
  <2>2. lane'[t][o] = IF t = s THEN Without(lane[t][o], S) ELSE lane[t][o]
    BY <1>4 DEF Dequeue, TypeOK
  <2>3. t # s => WaitingIn(t, o) \ S = WaitingIn(t, o)
    BY <1>6 DEF WaitingIn
  <2> QED BY <2>1, <2>2, <2>3, OwnerTypes, WithoutElements DEF OwnedExactly, LanesExact
<1>9. BatchesExact'
  <2> SUFFICES ASSUME NEW t \in Slots
               PROVE  /\ IsInjective(active'[t].ids) /\ Range(active'[t].ids) = InTurn(t)'
                      /\ active'[t].op = 0 => InTurn(t)' = {}
                      /\ \A i \in InTurn(t)' : Prio(intents'[i].source) = active'[t].prio
                                                 /\ intents'[i].msg # NoMsg
    BY DEF BatchesExact, Idle
  <2>1. InTurn(t)' = InTurn(t) \cup (IF t = s THEN S ELSE {})
    BY <1>6, <1>7 DEF InTurn, InFlight, WaitingIn
  <2>2. CASE t = s
    <3>1. InTurn(s) = {}
      BY DEF Claim, CanClaim, OwnedExactly, BatchesExact
    <3>2. active'[t].ids = ids /\ active'[t].prio = p /\ active'[t].op # 0
      BY <1>4, <2>2 DEF TypeOK
    <3>3. \A i \in S : Prio(intents'[i].source) = p /\ intents'[i].msg # NoMsg
      BY <1>6, <1>7 DEF WaitingIn
    <3> QED BY <1>5, <2>1, <2>2, <3>1, <3>2, <3>3 DEF S
  <2>3. CASE t # s
    <3>1. InTurn(t)' = InTurn(t)
      BY <2>1, <2>3
    <3>2. active'[t] = active[t]
      BY <1>4, <2>3 DEF TypeOK
    <3>3. \A i \in InTurn(t) : intents'[i].source = intents[i].source /\ intents'[i].msg = intents[i].msg
      BY <1>7 DEF InTurn
    <3> QED BY <3>1, <3>2, <3>3 DEF OwnedExactly, BatchesExact, Idle
  <2> QED BY <2>2, <2>3
<1> QED BY <1>8, <1>9 DEF OwnedExactly

\* A started batch stays in flight.
LEMMA OwnerStarts ==
  ASSUME TypeOK, OwnedExactly, NEW s \in Slots, MarkStarted(s, active[s])
  PROVE  OwnedExactly'
<1> DEFINE S == Range(active[s].ids)
<1>1. intents' = WithState(S, "running") /\ lane' = lane
  BY DEF MarkStarted
<1>2. \A t \in Slots : active'[t].op = active[t].op /\ active'[t].ids = active[t].ids
                         /\ active'[t].prio = active[t].prio
  BY OwnerTypes DEF MarkStarted, TypeOK, Batch
<1>3. S = InTurn(s)
  BY DEF OwnedExactly, BatchesExact
<1> HIDE DEF S
<1>4. /\ Ids' = Ids
      /\ \A i \in Ids : /\ intents'[i].slot = intents[i].slot
                        /\ intents'[i].source = intents[i].source
                        /\ intents'[i].msg = intents[i].msg
                        /\ intents'[i].state = IF i \in S THEN "running" ELSE intents[i].state
  BY <1>1, StateChange
<1>5. LanesExact'
  <2>1. \A t \in Slots, p \in Lanes : WaitingIn(t, p)' = WaitingIn(t, p)
    BY <1>3, <1>4 DEF WaitingIn, InTurn, InFlight
  <2> QED BY <1>1, <2>1 DEF OwnedExactly, LanesExact
<1>6. BatchesExact'
  <2>1. \A t \in Slots : InTurn(t)' = InTurn(t)
    BY <1>3, <1>4 DEF InTurn, InFlight
  <2>2. \A t \in Slots : \A i \in InTurn(t) :
           intents'[i].source = intents[i].source /\ intents'[i].msg = intents[i].msg
    BY <1>4 DEF InTurn
  <2> QED BY <1>2, <2>1, <2>2 DEF OwnedExactly, BatchesExact, Idle
<1> QED BY <1>5, <1>6 DEF OwnedExactly

\* A batch that is given back waits again at the front of its lane.
LEMMA OwnerRetries ==
  ASSUME TypeOK, OwnedExactly, NEW s \in Slots, RetryStart(s, active[s])
  PROVE  OwnedExactly'
<1> DEFINE ids == active[s].ids
           S   == Range(ids)
           p   == active[s].prio
<1>1. /\ intents' = WithState(S, "queued") /\ active' = Vacate(s)
      /\ lane' = [lane EXCEPT ![s][p] = ids \o @]
  BY DEF RetryStart
<1>2. S = InTurn(s) /\ IsInjective(ids) /\ ids \in Seq(Nat) /\ p \in Lanes
  BY OwnerTypes DEF OwnedExactly, BatchesExact
<1>3. \A i \in InTurn(s) : Prio(intents[i].source) = p
  BY DEF OwnedExactly, BatchesExact
<1>4. \A t \in Slots : active'[t] = IF t = s THEN NoBatch ELSE active[t]
  BY <1>1 DEF Vacate, TypeOK
<1>5. \A t \in Slots, o \in Lanes :
        lane'[t][o] = IF t = s /\ o = p THEN ids \o lane[t][o] ELSE lane[t][o]
  BY <1>1, <1>2 DEF TypeOK
<1> HIDE DEF S
<1>6. /\ Ids' = Ids
      /\ \A i \in Ids : /\ intents'[i].slot = intents[i].slot
                        /\ intents'[i].source = intents[i].source
                        /\ intents'[i].msg = intents[i].msg
                        /\ intents'[i].state = IF i \in S THEN "queued" ELSE intents[i].state
  BY <1>1, StateChange
<1>7. LanesExact'
  <2> SUFFICES ASSUME NEW t \in Slots, NEW o \in Lanes
               PROVE  IsInjective(lane'[t][o]) /\ Range(lane'[t][o]) = WaitingIn(t, o)'
    BY DEF LanesExact
  <2>1. IsInjective(lane[t][o]) /\ Range(lane[t][o]) = WaitingIn(t, o) /\ lane[t][o] \in Seq(Nat)
    BY OwnerTypes DEF OwnedExactly, LanesExact
  <2>2. CASE t = s /\ o = p
    <3>1. WaitingIn(t, o)' = S \cup WaitingIn(t, o)
      BY <1>2, <1>3, <1>6, <2>2 DEF WaitingIn, InTurn
    <3>2. S \cap WaitingIn(t, o) = {}
      BY <1>2 DEF WaitingIn, InTurn, InFlight
    <3> QED BY <1>2, <1>5, <2>1, <2>2, <3>1, <3>2, JoinElements DEF S
  <2>3. CASE ~(t = s /\ o = p)
    <3>1. WaitingIn(t, o)' = WaitingIn(t, o)
      BY <1>2, <1>3, <1>6, <2>3 DEF WaitingIn, InTurn
    <3> QED BY <1>5, <2>1, <2>3, <3>1
  <2> QED BY <2>2, <2>3
<1>8. BatchesExact'
  <2>1. \A t \in Slots : InTurn(t)' = IF t \in {s} THEN {} ELSE InTurn(t)
    BY <1>2, <1>6 DEF InTurn, InFlight
  <2>2. \A t \in Slots : active'[t] = IF t \in {s} THEN NoBatch ELSE active[t]
    BY <1>4
  <2> QED BY <1>6, <2>1, <2>2, BatchesVacated
<1> QED BY <1>7, <1>8 DEF OwnedExactly

\* A successful batch takes along what the agent observed during the turn.
LEMMA OwnerCompletes ==
  ASSUME TypeOK, OwnedExactly, NEW s \in Slots, CompleteBatch(s, active[s])
  PROVE  OwnedExactly'
<1> DEFINE done == Range(active[s].ids)
                     \cup {i \in Ids : intents[i].slot = s /\ intents[i].msg \in active[s].observed /\ Live(i)}
<1>1. intents' = WithState(done, "completed") /\ lane' = Dequeue(s, done) /\ active' = Vacate(s)
  BY DEF CompleteBatch
<1>2. InTurn(s) \subseteq done /\ \A i \in done : i \in Ids /\ intents[i].slot = s
  BY DEF OwnedExactly, BatchesExact, InTurn
<1> HIDE DEF done
<1>3. \A t \in Slots : active'[t] = IF t = s THEN NoBatch ELSE active[t]
  BY <1>1 DEF Vacate, TypeOK
<1>4. /\ Ids' = Ids
      /\ \A i \in Ids : /\ intents'[i].slot = intents[i].slot
                        /\ intents'[i].source = intents[i].source
                        /\ intents'[i].msg = intents[i].msg
                        /\ intents'[i].state = IF i \in done THEN "completed" ELSE intents[i].state
  BY <1>1, StateChange
<1>5. LanesExact'
  <2> SUFFICES ASSUME NEW t \in Slots, NEW p \in Lanes
               PROVE  IsInjective(lane'[t][p]) /\ Range(lane'[t][p]) = WaitingIn(t, p)'
    BY DEF LanesExact
  <2>1. WaitingIn(t, p)' = WaitingIn(t, p) \ done
    BY <1>4 DEF WaitingIn
  <2>2. lane'[t][p] = IF t = s THEN Without(lane[t][p], done) ELSE lane[t][p]
    BY <1>1 DEF Dequeue, TypeOK
  <2>3. t # s => WaitingIn(t, p) \ done = WaitingIn(t, p)
    BY <1>2 DEF WaitingIn
  <2> QED BY <2>1, <2>2, <2>3, OwnerTypes, WithoutElements DEF OwnedExactly, LanesExact
<1>6. BatchesExact'
  <2>1. \A t \in Slots : InTurn(t)' = IF t \in {s} THEN {} ELSE InTurn(t)
    BY <1>2, <1>4 DEF InTurn, InFlight
  <2>2. \A t \in Slots : active'[t] = IF t \in {s} THEN NoBatch ELSE active[t]
    BY <1>3
  <2> QED BY <1>4, <2>1, <2>2, BatchesVacated
<1> QED BY <1>5, <1>6 DEF OwnedExactly

\* Reconciliation ends stale intents and queues one drain for each unowned row.
LEMMA OwnerReconciles ==
  ASSUME TypeOK, OwnedExactly, NEW s \in Slots, NEW unread \in Rows(Msgs), NEW cand,
         ReconcileMailbox(s, unread, cand)
  PROVE  OwnedExactly'
<1> DEFINE S     == StaleIntents(s, unread, cand)
           fresh == Pick(unread, {k \in DOMAIN unread : ~Owned(s, unread[k])})
           n     == Len(intents)
           m     == Len(fresh)
           new   == [j \in 1..m |-> NewIntent(s, "RecoveryDrain", fresh[j], NoRun)]
           ids   == [j \in 1..m |-> n + j]
           old   == WithState(S, "completed")
           kept  == Dequeue(s, S)
<1>1. intents' = old \o new /\ active' = active /\ lane' = [kept EXCEPT ![s]["Background"] = @ \o ids]
  BY DEF ReconcileMailbox
<1>2. S \subseteq Ids /\ \A i \in S : intents[i].slot = s /\ intents[i].state = "queued"
  <2>1. \A p \in Lanes : Range(lane[s][p]) \subseteq WaitingIn(s, p)
    BY DEF OwnedExactly, LanesExact
  <2> QED BY <2>1 DEF StaleIntents, QueuedIn, WaitingIn
<1>3. n \in Nat /\ m \in Nat /\ Ids = 1..n /\ old \in Seq(Intent) /\ DOMAIN old = Ids
  <2>1. fresh \in Seq(Msgs)
    BY RowsType, PickElements
  <2> QED BY <2>1, IdsType, WithStateType, LenProperties DEF Terminal
<1>4. new \in Seq(Intent) /\ Len(new) = m
  <2>1. fresh \in Seq(Msgs) /\ \A j \in 1..m : fresh[j] \in Msgs
    <3>1. fresh \in Seq(Msgs)
      BY RowsType, PickElements
    <3> HIDE DEF fresh
    <3> QED BY <3>1, ElementOfSeq
  <2>2. \A j \in 1..m : NewIntent(s, "RecoveryDrain", fresh[j], NoRun) \in Intent
    BY <2>1, NewIntentType DEF AllSources
  <2>3. new \in [1..m -> Intent]
    BY <2>2
  <2> HIDE DEF new, m
  <2> QED BY <1>3, <2>3
<1> HIDE DEF S, fresh, n, m, old, kept
<1>5. /\ Ids' = Ids \cup {n + j : j \in 1..m}
      /\ \A i \in Ids : intents'[i] = old[i]
      /\ \A j \in 1..m : intents'[n + j] = new[j] /\ n + j \notin Ids
  <2> HIDE DEF new
  <2>1. Len(old) = n
    BY <1>3, LenProperties
  <2>2. Ids' = 1..(n + m)
    BY <1>1, <1>3, <1>4, <2>1, ConcatProperties, LenProperties DEF Ids
  <2>3. \A i \in 1..(n + m) : intents'[i] = IF i <= n THEN old[i] ELSE new[i - n]
    BY <1>1, <1>3, <1>4, <2>1, ConcatProperties
  <2>4. 1..(n + m) = (1..n) \cup {n + j : j \in 1..m}
    <3>1. \A i \in 1..(n + m) : i \in 1..n \/ (i - n \in 1..m /\ i = n + (i - n))
      BY <1>3
    <3>2. \A j \in 1..m : n + j \in 1..(n + m)
      BY <1>3
    <3>3. 1..n \subseteq 1..(n + m)
      BY <1>3
    <3> QED BY <3>1, <3>2, <3>3
  <2>5. \A j \in 1..m : n + j \in 1..(n + m) /\ ~(n + j <= n) /\ (n + j) - n = j
    BY <1>3
  <2>6. \A i \in Ids : i \in 1..(n + m) /\ i <= n
    BY <1>3
  <2>7. \A j \in 1..m : n + j \notin Ids
    BY <1>3, <2>5
  <2> QED BY <1>3, <2>2, <2>3, <2>4, <2>5, <2>6, <2>7
<1>6. \A i \in Ids : /\ intents'[i].slot = intents[i].slot
                     /\ intents'[i].source = intents[i].source
                     /\ intents'[i].msg = intents[i].msg
                     /\ intents'[i].state = IF i \in S THEN "completed" ELSE intents[i].state
  <2>1. \A i \in Ids : intents[i] \in Intent
    BY OwnerTypes
  <2> QED BY <1>5, <2>1 DEF old, WithState, Ids, Intent
<1>7. \A j \in 1..m : /\ intents'[n + j].slot = s
                      /\ Prio(intents'[n + j].source) = "Background"
                      /\ intents'[n + j].state = "queued"
  <2>1. Prio("RecoveryDrain") = "Background"
    BY DEF Prio, Resuming
  <2>2. \A j \in 1..m : intents'[n + j] = NewIntent(s, "RecoveryDrain", fresh[j], NoRun)
    BY <1>5
  <2>3. \A x : LET i == NewIntent(s, "RecoveryDrain", x, NoRun)
               IN i.slot = s /\ i.source = "RecoveryDrain" /\ i.state = "queued"
    BY DEF NewIntent
  <2> QED BY <2>1, <2>2, <2>3
<1>8. ids \in Seq(Nat) /\ IsInjective(ids) /\ Range(ids) = {n + j : j \in 1..m}
  <2>1. ids \in [1..m -> Nat] /\ DOMAIN ids = 1..m
    BY <1>3
  <2>2. ids \in Seq(Nat)
    <3> HIDE DEF ids
    <3> QED BY <1>3, <2>1
  <2>3. IsInjective(ids)
    BY <1>3 DEF IsInjective
  <2>4. Range(ids) = {n + j : j \in 1..m}
    BY DEF Range
  <2> QED BY <2>2, <2>3, <2>4
<1> HIDE DEF new, ids
<1>9. \A t \in Slots, p \in Lanes :
        /\ kept[t][p] \in Seq(Nat) /\ IsInjective(kept[t][p]) /\ Range(kept[t][p]) = WaitingIn(t, p) \ S
        /\ lane'[t][p] = IF t = s /\ p = "Background" THEN kept[t][p] \o ids ELSE kept[t][p]
  <2> TAKE t \in Slots, p \in Lanes
  <2>1. kept[t][p] = IF t = s THEN Without(lane[t][p], S) ELSE lane[t][p]
    BY DEF kept, Dequeue, TypeOK
  <2>2. t # s => WaitingIn(t, p) \ S = WaitingIn(t, p)
    BY <1>2 DEF WaitingIn
  <2>3. kept \in [Slots -> [Lanes -> Seq(Nat)]]
    BY DequeueType DEF kept
  <2>4. lane'[t][p] = IF t = s /\ p = "Background" THEN kept[t][p] \o ids ELSE kept[t][p]
    BY <1>1, <2>3 DEF Lanes
  <2>5. lane[t][p] \in Seq(Nat) /\ IsInjective(lane[t][p]) /\ Range(lane[t][p]) = WaitingIn(t, p)
    BY OwnerTypes DEF OwnedExactly, LanesExact
  <2> QED BY <2>1, <2>2, <2>4, <2>5, WithoutElements
<1>10. LanesExact'
  <2> SUFFICES ASSUME NEW t \in Slots, NEW p \in Lanes
               PROVE  IsInjective(lane'[t][p]) /\ Range(lane'[t][p]) = WaitingIn(t, p)'
    BY DEF LanesExact
  <2>1. WaitingIn(t, p)' = (WaitingIn(t, p) \ S)
                           \cup (IF t = s /\ p = "Background" THEN {n + j : j \in 1..m} ELSE {})
    BY <1>5, <1>6, <1>7 DEF WaitingIn
  <2>2. Range(kept[t][p]) \cap Range(ids) = {}
    BY <1>5, <1>8, <1>9 DEF WaitingIn
  <2>3. CASE t = s /\ p = "Background"
    BY <1>8, <1>9, <2>1, <2>2, <2>3, JoinElements
  <2>4. CASE ~(t = s /\ p = "Background")
    BY <1>9, <2>1, <2>4
  <2> QED BY <2>3, <2>4
<1>11. BatchesExact'
  <2>1. \A t \in Slots : InTurn(t)' = InTurn(t)
    BY <1>2, <1>5, <1>6, <1>7 DEF InTurn, InFlight
  <2>2. \A t \in Slots : \A i \in InTurn(t) :
           intents'[i].source = intents[i].source /\ intents'[i].msg = intents[i].msg
    BY <1>6 DEF InTurn
  <2>3. active' = active
    BY <1>1
  <2> QED BY <2>1, <2>2, <2>3 DEF OwnedExactly, BatchesExact, Idle
<1> QED BY <1>10, <1>11 DEF OwnedExactly

\* Slots that lose all of their work.
LEMMA OwnerEmpties ==
  ASSUME TypeOK, OwnedExactly, NEW T \in SUBSET Slots,
         intents' = WithState({i \in Ids : intents[i].slot \in T /\ Live(i)}, "cancelled"),
         \A t \in Slots : active'[t] = IF t \in T THEN NoBatch ELSE active[t],
         \A t \in Slots : lane'[t] = IF t \in T THEN Empty ELSE lane[t]
  PROVE  OwnedExactly'
<1> DEFINE S == {i \in Ids : intents[i].slot \in T /\ Live(i)}
<1>1. /\ Ids' = Ids
      /\ \A i \in Ids : /\ intents'[i].slot = intents[i].slot
                        /\ intents'[i].source = intents[i].source
                        /\ intents'[i].msg = intents[i].msg
                        /\ intents'[i].state = IF i \in S THEN "cancelled" ELSE intents[i].state
  BY StateChange
<1>2. LanesExact'
  <2> SUFFICES ASSUME NEW t \in Slots, NEW p \in Lanes
               PROVE  IsInjective(lane'[t][p]) /\ Range(lane'[t][p]) = WaitingIn(t, p)'
    BY DEF LanesExact
  <2>1. CASE t \in T
    <3>1. WaitingIn(t, p)' = {} /\ lane'[t][p] = <<>>
      BY <1>1, <2>1 DEF WaitingIn, Live, Terminal, Empty
    <3>2. IsInjective(<<>>) /\ Range(<<>>) = {}
      BY DEF IsInjective, Range
    <3> QED BY <3>1, <3>2
  <2>2. CASE t \notin T
    <3>1. WaitingIn(t, p)' = WaitingIn(t, p)
      BY <1>1, <2>2 DEF WaitingIn
    <3> QED BY <2>2, <3>1 DEF OwnedExactly, LanesExact
  <2> QED BY <2>1, <2>2
<1>3. BatchesExact'
  <2>1. \A t \in Slots : InTurn(t)' = IF t \in T THEN {} ELSE InTurn(t)
    BY <1>1 DEF InTurn, InFlight, Live, Terminal
  <2> QED BY <1>1, <2>1, BatchesVacated
<1> QED BY <1>2, <1>3 DEF OwnedExactly

\* A failed or stopped runtime ends what has a run and puts the rest back in its lanes.
LEMMA OwnerConstrains ==
  ASSUME TypeOK, OwnedExactly, NEW s \in Slots, NEW c, SetConstraint(s, c)
  PROVE  OwnedExactly'
<1>1. CASE c.kind \notin {"Failed", "SessionStopped"}
  BY <1>1, OwnerKept DEF SetConstraint
<1>2. CASE c.kind \in {"Failed", "SessionStopped"}
  <2> DEFINE back == {i \in LiveOf(s) : c.kind = "Failed" /\ intents[i].run = NoRun}
             end  == IF c.kind = "Failed" THEN "failed" ELSE "cancelled"
  <2>1. /\ intents' = [i \in Ids |->
              IF i \in back THEN [intents[i] EXCEPT !.state = "queued"]
              ELSE IF i \in LiveOf(s) THEN [intents[i] EXCEPT !.state = end] ELSE intents[i]]
        /\ active' = Vacate(s)
    BY <1>2 DEF SetConstraint
  <2>2. PICK f \in Orders(back) :
          lane' = [lane EXCEPT ![s] = [p \in Lanes |->
                     Pick(f, {j \in DOMAIN f : PrioOf(f[j]) = p})]]
    BY <1>2 DEF SetConstraint
  <2>3. back \subseteq LiveOf(s) /\ end \in Terminal
    BY DEF Terminal
  <2>4. f \in Seq(Nat) /\ Range(f) = back /\ IsInjective(f)
    <3>1. back \in SUBSET Ids
      BY DEF LiveOf
    <3> HIDE DEF back
    <3> QED BY <3>1, IdsFinite, OrdersType
  <2> HIDE DEF back, end
  <2>5. /\ Ids' = Ids
        /\ \A i \in Ids : /\ intents'[i].slot = intents[i].slot
                          /\ intents'[i].source = intents[i].source
                          /\ intents'[i].msg = intents[i].msg
                          /\ intents'[i].state = IF i \in back THEN "queued"
                                                 ELSE IF i \in LiveOf(s) THEN end ELSE intents[i].state
    <3>1. \A i \in Ids : intents[i] \in Intent
      BY OwnerTypes
    <3> QED BY <2>1, <3>1 DEF Ids, Intent
  <2>6. \A i \in Ids : (i \in LiveOf(s)) <=> (intents[i].slot = s /\ intents[i].state \notin Terminal)
    BY DEF LiveOf, Live
  <2>7. LanesExact'
    <3> SUFFICES ASSUME NEW t \in Slots, NEW p \in Lanes
                 PROVE  IsInjective(lane'[t][p]) /\ Range(lane'[t][p]) = WaitingIn(t, p)'
      BY DEF LanesExact
    <3>1. CASE t = s
      <4> DEFINE K == {j \in DOMAIN f : PrioOf(f[j]) = p}
      <4>1. lane'[t][p] = Pick(f, K)
        BY <2>2, <3>1 DEF TypeOK
      <4>2. IsInjective(Pick(f, K)) /\ Range(Pick(f, K)) = {f[j] : j \in K}
        BY <2>4, PickInjective, PickRange
      <4>3. {f[j] : j \in K} = {i \in back : Prio(intents[i].source) = p}
        BY <2>4 DEF Range, PrioOf
      <4>4. WaitingIn(t, p)' = {i \in back : Prio(intents[i].source) = p}
        BY <2>3, <2>5, <2>6, <3>1 DEF WaitingIn, Terminal, LiveOf
      <4> QED BY <4>1, <4>2, <4>3, <4>4
    <3>2. CASE t # s
      <4>1. WaitingIn(t, p)' = WaitingIn(t, p)
        BY <2>3, <2>5, <2>6, <3>2 DEF WaitingIn
      <4>2. lane'[t] = lane[t]
        BY <2>2, <3>2 DEF TypeOK
      <4> QED BY <4>1, <4>2 DEF OwnedExactly, LanesExact
    <3> QED BY <3>1, <3>2
  <2>8. BatchesExact'
    <3>1. \A t \in Slots : InTurn(t)' = IF t \in {s} THEN {} ELSE InTurn(t)
      BY <2>3, <2>5, <2>6 DEF InTurn, InFlight, Terminal
    <3>2. \A t \in Slots : active'[t] = IF t \in {s} THEN NoBatch ELSE active[t]
      BY <2>1 DEF Vacate, TypeOK
    <3> QED BY <2>5, <3>1, <3>2, BatchesVacated
  <2> QED BY <2>7, <2>8 DEF OwnedExactly
<1> QED BY <1>1, <1>2

\* A cancelled run takes its intents out of every lane and batch; the other
\* intents of a batch it hits go back to the front of their lane.
LEMMA OwnerCancelsRun ==
  ASSUME TypeOK, OwnedExactly, NEW r \in Runs, CancelRun(r)
  PROVE  OwnedExactly'
<1> DEFINE T == HitBy(r)
           E == EndedBy(r)
           B == Returned(r)
           back(s, p) == IF s \in T THEN {k \in DOMAIN active[s].ids :
                             intents[active[s].ids[k]].run # r /\ PrioOf(active[s].ids[k]) = p}
                         ELSE {}
<1>1. /\ intents' = [i \in Ids |-> IF i \in E THEN [intents[i] EXCEPT !.state = "cancelled"]
                              ELSE IF i \in B THEN [intents[i] EXCEPT !.state = "queued"]
                              ELSE intents[i]]
      /\ active' = [s \in Slots |-> IF s \in T THEN NoBatch ELSE active[s]]
      /\ lane' = [s \in Slots |-> [p \in Lanes |->
                    Pick(active[s].ids, back(s, p)) \o Without(lane[s][p], E)]]
  BY DEF CancelRun
<1>2. \A s \in Slots : Range(active[s].ids) = InTurn(s)
  BY DEF OwnedExactly, BatchesExact
<1>3. \A i \in Ids : (i \in E) <=>
        intents[i].run = r /\ (intents[i].state = "queued" \/ \E s \in T : i \in InTurn(s))
  BY <1>2 DEF EndedBy, HitBy
<1>4. \A i \in Ids : (i \in B) <=> intents[i].run # r /\ \E s \in T : i \in InTurn(s)
  BY <1>2 DEF Returned, HitBy
<1>5. \A s \in Slots : \A i \in InTurn(s) : intents[i].run = r => s \in T
  BY <1>2 DEF HitBy, Range
<1>6. T \in SUBSET Slots /\ \A s \in Slots, p \in Lanes : back(s, p) \in SUBSET DOMAIN active[s].ids
  BY DEF HitBy
<1>7. \A s \in Slots, p \in Lanes :
        Range(Pick(active[s].ids, back(s, p))) =
          {i \in InTurn(s) : s \in T /\ intents[i].run # r /\ Prio(intents[i].source) = p}
  <2> TAKE s \in Slots, p \in Lanes
  <2> DEFINE K == back(s, p)
  <2>1. Range(Pick(active[s].ids, K)) = {active[s].ids[k] : k \in K}
    BY <1>6, OwnerTypes, PickRange
  <2>2. {active[s].ids[k] : k \in K} =
          {i \in Range(active[s].ids) : s \in T /\ intents[i].run # r /\ Prio(intents[i].source) = p}
    BY DEF Range, PrioOf
  <2> QED BY <1>2, <2>1, <2>2
<1> HIDE DEF T, E, B, back
<1>8. /\ Ids' = Ids
      /\ \A i \in Ids : /\ intents'[i].slot = intents[i].slot
                        /\ intents'[i].source = intents[i].source
                        /\ intents'[i].msg = intents[i].msg
                        /\ intents'[i].state = IF i \in E THEN "cancelled"
                                               ELSE IF i \in B THEN "queued" ELSE intents[i].state
  <2>1. \A i \in Ids : intents[i] \in Intent
    BY OwnerTypes
  <2> QED BY <1>1, <2>1 DEF Ids, Intent
<1>9. LanesExact'
  <2> SUFFICES ASSUME NEW s \in Slots, NEW p \in Lanes
               PROVE  IsInjective(lane'[s][p]) /\ Range(lane'[s][p]) = WaitingIn(s, p)'
    BY DEF LanesExact
  <2> DEFINE u == Pick(active[s].ids, back(s, p))
             v == Without(lane[s][p], E)
  <2>1. lane'[s][p] = u \o v
    BY <1>1
  <2>2. /\ u \in Seq(Nat) /\ IsInjective(u)
        /\ Range(u) = {i \in InTurn(s) : s \in T /\ intents[i].run # r /\ Prio(intents[i].source) = p}
    BY <1>6, <1>7, OwnerTypes, PickElements, PickInjective DEF OwnedExactly, BatchesExact
  <2>3. v \in Seq(Nat) /\ IsInjective(v) /\ Range(v) = WaitingIn(s, p) \ E
    BY OwnerTypes, WithoutElements DEF OwnedExactly, LanesExact
  <2> HIDE DEF u, v
  <2>4. Range(u) \cap Range(v) = {}
    BY <2>2, <2>3 DEF InTurn, WaitingIn, InFlight
  <2>5. IsInjective(u \o v) /\ Range(u \o v) = Range(u) \cup Range(v)
    BY <2>2, <2>3, <2>4, JoinElements
  <2>6. WaitingIn(s, p)' = Range(u) \cup Range(v)
    <3>1. \A i \in Ids : i \in B /\ intents[i].slot = s => s \in T /\ i \in InTurn(s)
      BY <1>4 DEF InTurn
    <3>2. \A i \in InTurn(s) : s \in T /\ intents[i].run # r => i \in B /\ i \notin E
      BY <1>3, <1>4 DEF InTurn
    <3>3. \A i \in WaitingIn(s, p) : i \notin B
      BY <1>4 DEF InTurn, WaitingIn, InFlight
    <3>4. \A i \in B : i \in Ids => intents[i].run # r
      BY <1>4
    <3> QED BY <1>8, <2>2, <2>3, <3>1, <3>2, <3>3, <3>4 DEF WaitingIn, InTurn
  <2> QED BY <2>1, <2>5, <2>6
<1>10. BatchesExact'
  <2>1. \A s \in Slots : InTurn(s)' = IF s \in T THEN {} ELSE InTurn(s)
    <3> TAKE s \in Slots
    <3>1. \A i \in InTurn(s) : s \in T => i \in E \/ i \in B
      BY <1>3, <1>4 DEF InTurn
    <3>2. \A i \in InTurn(s) : s \notin T => i \notin E /\ i \notin B
      BY <1>3, <1>4, <1>5 DEF InTurn, InFlight
    <3> QED BY <1>8, <3>1, <3>2 DEF InTurn, InFlight
  <2>2. \A s \in Slots : active'[s] = IF s \in T THEN NoBatch ELSE active[s]
    BY <1>1
  <2> QED BY <1>6, <1>8, <2>1, <2>2, BatchesVacated
<1> QED BY <1>9, <1>10 DEF OwnedExactly

-----------------------------------------------------------------------------
(* The invariant *)

\* A fresh coordinator owns nothing.
LEMMA OwnerInit == Init => OwnedExactly
<1> SUFFICES ASSUME Init  PROVE OwnedExactly
  OBVIOUS
<1>1. Ids = {}
  BY DEF Init, Ids
<1>2. \A s \in Slots : InTurn(s) = {} /\ active[s].ids = <<>> /\ \A p \in Lanes :
                         WaitingIn(s, p) = {} /\ lane[s][p] = <<>>
  BY <1>1 DEF Init, InTurn, WaitingIn, NoBatch
<1>3. IsInjective(<<>>) /\ Range(<<>>) = {}
  BY DEF IsInjective, Range
<1> QED BY <1>2, <1>3 DEF OwnedExactly, LanesExact, BatchesExact

\* The methods of the event loop move every intent from one owner to one owner.
LEMMA OwnerDraining ==
  ASSUME TypeOK, OwnedExactly, NEW s \in Slots, Draining(s)
  PROVE  OwnedExactly'
<1>1. ASSUME NEW unread \in Rows(Msgs), NEW cand \in SUBSET QueuedIn(s), ReconcileMailbox(s, unread, cand)
      PROVE  OwnedExactly'
  BY <1>1, OwnerReconciles
<1>2. CASE Claim(s)
  BY <1>2, OwnerClaims
<1>3. ASSUME NEW S \in SUBSET QueuedIn(s), CompleteSignals(s, S)
      PROVE  OwnedExactly'
  <2>1. \A i \in S : i \in Ids
    BY DEF OwnedExactly, LanesExact, QueuedIn, WaitingIn
  <2>2. "completed" \in Terminal
    BY DEF Terminal
  <2> QED BY <1>3, <2>1, <2>2, OwnerDequeues DEF CompleteSignals
<1>4. CASE MarkStarted(s, active[s])
  BY <1>4, OwnerStarts
<1>5. CASE RetryStart(s, active[s])
  BY <1>5, OwnerRetries
<1>6. CASE CompleteBatch(s, active[s])
  BY <1>6, OwnerCompletes
<1>7. CASE FailBatch(s, active[s])
  BY <1>7, OwnerEnds DEF FailBatch, Terminal
<1>8. ASSUME NEW M \in SUBSET Msgs, ObserveMessages(s, active[s], M)
      PROVE  OwnedExactly'
  <2>1. \A t \in Slots : active'[t].op = active[t].op /\ active'[t].ids = active[t].ids
                           /\ active'[t].prio = active[t].prio
    BY <1>8, OwnerTypes DEF ObserveMessages, TypeOK, Batch
  <2> QED BY <1>8, <2>1, OwnerKept DEF ObserveMessages
<1> QED BY <1>1, <1>2, <1>3, <1>4, <1>5, <1>6, <1>7, <1>8 DEF Draining

\* So do cancellation, interruption, pause, runtime constraints and removal.
LEMMA OwnerControlling ==
  ASSUME TypeOK, OwnedExactly, NEW s \in Slots, Controlling(s)
  PROVE  OwnedExactly'
<1>1. CASE CancelBatch(s, active[s])
  BY <1>1, OwnerEnds DEF CancelBatch, Terminal
<1>2. CASE InterruptBatch(s, active[s])
  BY <1>2, OwnerEnds DEF InterruptBatch, Terminal
<1>3. ASSUME NEW m \in Msgs, DiscardQueuedExcept(s, m)
      PROVE  OwnedExactly'
  <2>1. \A p \in Lanes : Range(lane[s][p]) = WaitingIn(s, p)
    BY DEF OwnedExactly, LanesExact
  <2>2. \A i \in Discardable(s, m) : i \in Ids /\ intents[i].slot = s /\ intents[i].state = "queued"
    BY <2>1 DEF Discardable, QueuedIn, WaitingIn
  <2> QED BY <1>3, <2>2, OwnerDequeues DEF DiscardQueuedExcept, Terminal
<1>4. CASE PauseSlot(s)
  BY <1>4, OwnerKept DEF PauseSlot
<1>5. ASSUME NEW k \in Kinds, SetConstraint(s, [kind |-> k, op |-> 0])
      PROVE  OwnedExactly'
  BY <1>5, OwnerConstrains
<1>6. ASSUME NEW allowQueued \in BOOLEAN, BeginRestart(s, allowQueued)
      PROVE  OwnedExactly'
  BY <1>6, OwnerKept DEF BeginRestart
<1>7. ASSUME NEW op \in 1..opId, NEW k \in {"Ready", "Starting", "Failed"},
             AbortRestart(s, op, [kind |-> k, op |-> 0])
      PROVE  OwnedExactly'
  BY <1>7, OwnerKept DEF AbortRestart
<1>8. CASE RemoveSlot(s)
  <2>1. LiveOf(s) = {i \in Ids : intents[i].slot \in {s} /\ Live(i)}
    BY DEF LiveOf
  <2>2. \A t \in Slots : active'[t] = IF t \in {s} THEN NoBatch ELSE active[t]
    BY <1>8 DEF RemoveSlot, Vacate, TypeOK
  <2>3. \A t \in Slots : lane'[t] = IF t \in {s} THEN Empty ELSE lane[t]
    BY <1>8 DEF RemoveSlot, TypeOK
  <2> QED BY <1>8, <2>1, <2>2, <2>3, OwnerEmpties DEF RemoveSlot
<1> QED BY <1>1, <1>2, <1>3, <1>4, <1>5, <1>6, <1>7, <1>8 DEF Controlling

\* Every method of the coordinator preserves exact ownership.
LEMMA OwnerNext == TypeOK /\ OwnedExactly /\ [Next]_cvars => OwnedExactly'
<1> SUFFICES ASSUME TypeOK, OwnedExactly, [Next]_cvars  PROVE OwnedExactly'
  OBVIOUS
<1>1. CASE Enqueueing
  <2>1. ASSUME NEW c \in Callers, NEW s \in Slots, NEW src \in Sources, NEW r \in Runs \cup {NoRun},
               AcquireEnqueue(c, s, src, r)
        PROVE  OwnedExactly'
    BY <2>1, OwnerKept DEF AcquireEnqueue
  <2>2. ASSUME NEW l \in leases, NEW m \in Msgs \cup {NoMsg}, CommitEnqueue(l, m)
        PROVE  OwnedExactly'
    BY <2>2, OwnerCommits
  <2>3. ASSUME NEW l \in leases, AbortEnqueue(l)
        PROVE  OwnedExactly'
    BY <2>3, OwnerKept DEF AbortEnqueue
  <2> QED BY <1>1, <2>1, <2>2, <2>3 DEF Enqueueing
<1>2. ASSUME NEW s \in Slots, Draining(s)  PROVE OwnedExactly'
  BY <1>2, OwnerDraining
<1>3. ASSUME NEW s \in Slots, Controlling(s)  PROVE OwnedExactly'
  BY <1>3, OwnerControlling
<1>4. ASSUME NEW o \in interrupted, TakeInterruptMetadata([NoBatch EXCEPT !.op = o])  PROVE OwnedExactly'
  BY <1>4, OwnerKept DEF TakeInterruptMetadata
<1>5. ASSUME NEW r \in Runs, CancelRun(r)  PROVE OwnedExactly'
  BY <1>5, OwnerCancelsRun
<1>6. CASE Stop
  <2>1. {i \in Ids : Live(i)} = {i \in Ids : intents[i].slot \in Slots /\ Live(i)}
    BY OwnerTypes DEF Intent
  <2> QED BY <1>6, <2>1, OwnerEmpties DEF Stop
<1>7. CASE UNCHANGED cvars
  BY <1>7, OwnerKept DEF cvars
<1> QED BY <1>1, <1>2, <1>3, <1>4, <1>5, <1>6, <1>7 DEF Next

\* Work is neither lost nor duplicated: in every reachable state of a coordinator
\* of any size, a live intent has exactly one owner, one position of one lane or
\* the active batch of its slot.
THEOREM OneOwnerAlways == Spec => []OneOwner
<1>1. Init => TypeOK /\ OwnedExactly
  BY InitType, OwnerInit
<1>2. TypeOK /\ OwnedExactly /\ [Next]_cvars => (TypeOK /\ OwnedExactly)'
  BY NextType, OwnerNext
<1>3. TypeOK /\ OwnedExactly => OneOwner
  BY ExactlyIsOneOwner
<1> QED BY <1>1, <1>2, <1>3, PTL DEF Spec

-----------------------------------------------------------------------------
(* Order *)

\* The slot, the source, the row and the run of an intent never change.
Fixed == \A i \in Ids : /\ i \in Ids'
                        /\ intents'[i].slot = intents[i].slot /\ intents'[i].source = intents[i].source
                        /\ intents'[i].msg = intents[i].msg /\ intents'[i].run = intents[i].run

LEMMA FixedByState ==
  ASSUME TypeOK, NEW S, NEW st, intents' = WithState(S, st)
  PROVE  Fixed
<1>1. \A i \in Ids : intents[i] \in Intent
  BY OwnerTypes
<1> QED BY <1>1 DEF WithState, Ids, Fixed, Intent

\* Every method of the coordinator only adds intents and rewrites states.
LEMMA IntentsFixed ==
  ASSUME TypeOK, [Next]_cvars
  PROVE  Fixed
<1>a. \A i \in Ids : intents[i] \in Intent
  BY OwnerTypes
<1>b. ASSUME intents' = intents  PROVE Fixed
  BY <1>b DEF Fixed, Ids
<1>1. CASE Enqueueing
  <2>1. ASSUME NEW l \in leases, NEW m \in Msgs \cup {NoMsg}, CommitEnqueue(l, m)  PROVE Fixed
    <3>1. l.slot \in Slots /\ l.source \in AllSources /\ l.run \in Runs \cup {NoRun}
      BY SourcesAssumption DEF TypeOK, Lease
    <3>2. intents' = Append(intents, NewIntent(l.slot, l.source, m, l.run))
      BY <2>1 DEF CommitEnqueue
    <3>3. NewIntent(l.slot, l.source, m, l.run) \in Intent /\ intents \in Seq(Intent)
      BY <3>1, NewIntentType DEF TypeOK
    <3>4. Len(intents) \in Nat /\ Ids = 1..Len(intents) /\ DOMAIN intents' = 1..(Len(intents) + 1)
            /\ \A i \in Ids : intents'[i] = intents[i]
      BY <3>2, <3>3, AppendProperties, IdsType
    <3> QED BY <3>4 DEF Fixed, Ids
  <2> QED BY <1>1, <1>b, <2>1 DEF Enqueueing, AcquireEnqueue, AbortEnqueue
<1>2. ASSUME NEW s \in Slots, Draining(s)  PROVE Fixed
  <2>1. ASSUME NEW unread \in Rows(Msgs), NEW cand, ReconcileMailbox(s, unread, cand)
        PROVE  Fixed
    <3> DEFINE fresh == Pick(unread, {k \in DOMAIN unread : ~Owned(s, unread[k])})
               new   == [j \in 1..Len(fresh) |-> NewIntent(s, "RecoveryDrain", fresh[j], NoRun)]
               base  == WithState(StaleIntents(s, unread, cand), "completed")
    <3>1. fresh \in Seq(Msgs)
      BY RowsType, PickElements
    <3>2. \A j \in 1..Len(fresh) : fresh[j] \in Msgs
      <4> HIDE DEF fresh
      <4> QED BY <3>1, LenProperties
    <3>3. new \in Seq(Intent)
      <4>1. Len(fresh) \in Nat
        <5> HIDE DEF fresh
        <5> QED BY <3>1, LenProperties
      <4> QED BY <3>2, <4>1, NewIntentType DEF AllSources
    <3>4. base \in Seq(Intent) /\ DOMAIN base = Ids /\ intents' = base \o new
      BY <2>1, WithStateType DEF ReconcileMailbox, Terminal
    <3> HIDE DEF new, base
    <3>5. Len(base) \in Nat /\ Ids = 1..Len(base) /\ Len(new) \in Nat
      BY <3>3, <3>4, LenProperties
    <3>6. DOMAIN intents' = 1..(Len(base) + Len(new)) /\ \A i \in Ids : intents'[i] = base[i]
      BY <3>3, <3>4, <3>5, ConcatProperties
    <3>7. \A i \in Ids : /\ base[i].slot = intents[i].slot /\ base[i].source = intents[i].source
                         /\ base[i].msg = intents[i].msg /\ base[i].run = intents[i].run
      BY <1>a DEF base, WithState, Intent
    <3> QED BY <3>5, <3>6, <3>7 DEF Fixed, Ids
  <2> QED BY <1>2, <1>b, <2>1, FixedByState
          DEF Draining, Claim, CompleteSignals, MarkStarted, RetryStart, CompleteBatch, FailBatch, ObserveMessages
<1>3. ASSUME NEW s \in Slots, Controlling(s)  PROVE Fixed
  <2>1. ASSUME NEW k \in Kinds, SetConstraint(s, [kind |-> k, op |-> 0])  PROVE Fixed
    BY <1>a, <1>b, <2>1 DEF SetConstraint, Fixed, Ids, Intent
  <2> QED BY <1>3, <1>b, <2>1, FixedByState
          DEF Controlling, CancelBatch, InterruptBatch, DiscardQueuedExcept, PauseSlot,
              BeginRestart, AbortRestart, RemoveSlot
<1>4. ASSUME NEW o \in interrupted, TakeInterruptMetadata([NoBatch EXCEPT !.op = o])  PROVE Fixed
  BY <1>4, <1>b DEF TakeInterruptMetadata
<1>5. ASSUME NEW r \in Runs, CancelRun(r)  PROVE Fixed
  BY <1>a, <1>5 DEF CancelRun, Fixed, Ids, Intent
<1>6. CASE Stop
  BY <1>6, FixedByState DEF Stop
<1>7. CASE UNCHANGED cvars
  BY <1>7, <1>b DEF cvars
<1> QED BY <1>1, <1>2, <1>3, <1>4, <1>5, <1>6, <1>7 DEF Next

\* The intents whose commit order the claims follow, and the inductive form of that
\* order: each lane and each batch lists them in it, and a batch comes before the rest
\* of its lane.
CommitOrdered == {i \in Ids : InCommitOrder(i)}

OrderedAt(s, p) ==
  /\ Sorted(CommitOrdered, lane[s][p])
  /\ Sorted(CommitOrdered, active[s].ids)
  /\ active[s].prio = p => Before(CommitOrdered, Range(active[s].ids), Range(lane[s][p]))
Ordered == \A s \in Slots, p \in Lanes : OrderedAt(s, p)

\* Old intents keep their part in the order, whatever becomes of them.
LEMMA OrderFixed ==
  ASSUME Fixed
  PROVE  \A i \in Ids : i \in CommitOrdered' <=> i \in CommitOrdered
BY DEF Fixed, CommitOrdered, InCommitOrder

\* What lanes and batches hold are intents.
LEMMA PlacesHoldIds ==
  ASSUME OwnedExactly
  PROVE  \A s \in Slots : Range(active[s].ids) \subseteq Ids /\ \A p \in Lanes : Range(lane[s][p]) \subseteq Ids
BY DEF OwnedExactly, LanesExact, BatchesExact, WaitingIn, InTurn

\* An order of old intents is their order after a step.
LEMMA StillSorted ==
  ASSUME Fixed, NEW q, Range(q) \subseteq Ids, Sorted(CommitOrdered, q)
  PROVE  Sorted(CommitOrdered', q)
<1>1. \A k \in DOMAIN q : q[k] \in Ids
  BY DEF Range
<1> QED BY <1>1, OrderFixed DEF Sorted

LEMMA StillBefore ==
  ASSUME Fixed, NEW P \in SUBSET Ids, NEW Q \in SUBSET Ids, Before(CommitOrdered, P, Q)
  PROVE  Before(CommitOrdered', P, Q)
BY OrderFixed DEF Before

\* A batch that stays or goes, and a lane that loses intents or nothing, keep the order.
LEMMA OrderThins ==
  ASSUME TypeOK, OwnedExactly, Fixed, NEW s \in Slots, NEW p \in Lanes, OrderedAt(s, p),
         \/ active'[s].ids = <<>>
         \/ active'[s].ids = active[s].ids /\ active'[s].prio = active[s].prio,
         \/ lane'[s][p] = lane[s][p]
         \/ lane'[s][p] = <<>>
         \/ \E S : lane'[s][p] = Without(lane[s][p], S)
  PROVE  OrderedAt(s, p)'
<1> DEFINE q == lane[s][p]
           r == lane'[s][p]
           a == active[s].ids
           b == active'[s].ids
<1>1. q \in Seq(Nat) /\ a \in Seq(Nat) /\ Range(q) \subseteq Ids /\ Range(a) \subseteq Ids
  BY OwnerTypes, PlacesHoldIds
<1>2. Range(<<>>) = {} /\ \A C : Sorted(C, <<>>)
  BY DEF Range, Sorted
<1>3. Sorted(CommitOrdered, r) /\ Range(r) \subseteq Range(q)
  <2>1. ASSUME NEW S, r = Without(q, S)  PROVE Sorted(CommitOrdered, r) /\ Range(r) \subseteq Range(q)
    <3> HIDE DEF q, r
    <3> QED BY <1>1, <2>1, SortedWithout, WithoutElements DEF OrderedAt, q
  <2> QED BY <1>2, <2>1 DEF OrderedAt
<1>4. Sorted(CommitOrdered, b) /\ Range(b) \subseteq Range(a)
  BY <1>2 DEF OrderedAt
<1>5. active'[s].prio = p => Before(CommitOrdered, Range(b), Range(r))
  <2>1. CASE b = <<>>
    BY <1>2, <2>1 DEF Before
  <2>2. CASE b = a /\ active'[s].prio = active[s].prio
    BY <1>3, <2>2 DEF OrderedAt, Before
  <2> QED BY <2>1, <2>2
<1> HIDE DEF q, r, a, b
<1>6. Sorted(CommitOrdered', r) /\ Sorted(CommitOrdered', b)
  BY <1>1, <1>3, <1>4, StillSorted
<1>7. active'[s].prio = p => Before(CommitOrdered', Range(b), Range(r))
  BY <1>1, <1>3, <1>4, <1>5, StillBefore
<1> QED BY <1>6, <1>7 DEF OrderedAt, q, r, a, b

\* A new intent is the last of its lane, or jumps the queue.
LEMMA CommitKeepsOrder ==
  ASSUME TypeOK, OwnedExactly, Ordered, Fixed, NEW l \in leases, NEW m \in Msgs \cup {NoMsg}, CommitEnqueue(l, m)
  PROVE  Ordered'
<1> DEFINE n == Len(intents) + 1
           s == l.slot
           p == Prio(l.source)
           u == <<n>>
           q == lane[s][p]
<1>1. s \in Slots /\ p \in Lanes /\ l \in Lease
  BY PrioType DEF TypeOK, Lease
<1>2. /\ Len(intents) \in Nat /\ Ids = 1..Len(intents)
      /\ intents'[n] = NewIntent(s, l.source, m, l.run)
  <2>1. intents' = Append(intents, NewIntent(s, l.source, m, l.run))
    BY DEF CommitEnqueue
  <2>2. intents \in Seq(Intent) /\ NewIntent(s, l.source, m, l.run) \in Intent
    BY NewIntentType, SourcesAssumption DEF TypeOK, Lease
  <2> QED BY <2>1, <2>2, IdsType, LenProperties DEF Ids
<1>3. lane' = [lane EXCEPT ![s][p] = IF l.source = "LeadIntervention" THEN u \o q ELSE Append(q, n)] /\ active' = active
  BY DEF CommitEnqueue
<1>4. l.source = "LeadIntervention" => n \notin CommitOrdered'
  BY <1>2 DEF CommitOrdered, InCommitOrder, NewIntent
<1>5. n \in Nat /\ \A i \in Ids : i \in Nat /\ i < n
  BY <1>2
<1> HIDE DEF n, s, p
<1> SUFFICES ASSUME NEW t \in Slots, NEW o \in Lanes  PROVE OrderedAt(t, o)'
  BY DEF Ordered
<1>6. CASE ~(t = s /\ o = p)
  <2>1. lane'[t][o] = lane[t][o]
    BY <1>1, <1>3, <1>6 DEF TypeOK
  <2> QED BY <1>3, <2>1, OrderThins DEF Ordered
<1>7. CASE t = s /\ o = p
  <2>1. q \in Seq(Nat) /\ u \in Seq(Nat) /\ Range(q) \subseteq Ids /\ Range(active[s].ids) \subseteq Ids
    BY <1>1, <1>5, OwnerTypes, PlacesHoldIds
  <2>2. /\ Sorted(CommitOrdered', q) /\ Sorted(CommitOrdered', active[s].ids)
        /\ active[s].prio = p => Before(CommitOrdered', Range(active[s].ids), Range(q))
    BY <1>1, <2>1, StillSorted, StillBefore DEF Ordered, OrderedAt
  <2>3. Range(u) = {n} /\ Sorted(CommitOrdered', u)
    BY <1>5 DEF Range, Sorted
  <2>4. lane'[t][o] = IF l.source = "LeadIntervention" THEN u \o q ELSE Append(q, n)
    BY <1>1, <1>3, <1>7 DEF TypeOK
  <2>4a. q \in Seq(Nat) /\ n \in Nat => Append(q, n) = q \o u
    <3> HIDE DEF q
    <3> QED OBVIOUS
  <2> HIDE DEF q, u
  <2>5. CASE l.source = "LeadIntervention"
    <3>1. Before(CommitOrdered', Range(u), Range(q))
      BY <1>4, <2>3, <2>5 DEF Before
    <3>2. Range(u \o q) = Range(u) \cup Range(q)
      BY <2>1, JoinElements
    <3>2a. Sorted(CommitOrdered', u \o q)
      BY <2>1, <2>2, <2>3, <3>1, SortedJoin
    <3>3. active[s].prio = p => Before(CommitOrdered', Range(active[s].ids), Range(u \o q))
      BY <1>4, <2>2, <2>3, <2>5, <3>2 DEF Before
    <3> QED BY <1>3, <1>7, <2>2, <2>4, <2>5, <3>2a, <3>3 DEF OrderedAt
  <2>6. CASE l.source # "LeadIntervention"
    <3>1. Before(CommitOrdered', Range(q), Range(u)) /\ Before(CommitOrdered', Range(active[s].ids), Range(u))
      BY <1>5, <2>1, <2>3 DEF Before
    <3>2. Sorted(CommitOrdered', q \o u) /\ Range(q \o u) = Range(q) \cup Range(u)
      BY <2>1, <2>2, <2>3, <3>1, SortedJoin, JoinElements, ZenonT(60)
    <3>3. active[s].prio = p => Before(CommitOrdered', Range(active[s].ids), Range(q \o u))
      BY <2>2, <3>1, <3>2 DEF Before
    <3> QED BY <1>3, <1>7, <2>1, <1>5, <2>2, <2>4, <2>4a, <2>6, <3>2, <3>3 DEF OrderedAt
  <2> QED BY <2>5, <2>6
<1> QED BY <1>6, <1>7

\* A step that only thins lanes and vacates batches keeps the order.
LEMMA ThinningKeepsOrder ==
  ASSUME TypeOK, OwnedExactly, Ordered, Fixed,
         \A s \in Slots : \/ active'[s].ids = <<>>
                          \/ active'[s].ids = active[s].ids /\ active'[s].prio = active[s].prio,
         \A s \in Slots, p \in Lanes : \/ lane'[s][p] = lane[s][p]
                                       \/ lane'[s][p] = <<>>
                                       \/ \E S : lane'[s][p] = Without(lane[s][p], S)
  PROVE  Ordered'
<1> SUFFICES ASSUME NEW s \in Slots, NEW p \in Lanes  PROVE OrderedAt(s, p)'
  BY DEF Ordered
<1> QED BY OrderThins DEF Ordered

\* Taking intents out of a slot's lanes thins them.
LEMMA DequeueThins ==
  ASSUME TypeOK, NEW s \in Slots, NEW S, lane' = Dequeue(s, S)
  PROVE  \A t \in Slots, p \in Lanes : \/ lane'[t][p] = lane[t][p]
                                       \/ lane'[t][p] = <<>>
                                       \/ \E U : lane'[t][p] = Without(lane[t][p], U)
<1> TAKE t \in Slots, p \in Lanes
<1>1. lane'[t][p] = IF t = s THEN Without(lane[t][p], S) ELSE lane[t][p]
  BY DEF Dequeue, TypeOK
<1> QED BY <1>1

\* Letting go of a slot's batch leaves every other batch alone.
LEMMA VacateThins ==
  ASSUME TypeOK, NEW s \in Slots, active' = Vacate(s)
  PROVE  \A t \in Slots : \/ active'[t].ids = <<>>
                          \/ active'[t].ids = active[t].ids /\ active'[t].prio = active[t].prio
BY DEF Vacate, TypeOK, NoBatch

\* Intents of the batch that go back to the front of their lane keep the order.
LEMMA OrderReturns ==
  ASSUME TypeOK, OwnedExactly, Fixed, NEW s \in Slots, NEW p \in Lanes, OrderedAt(s, p),
         NEW u \in Seq(Nat), Sorted(CommitOrdered, u), Range(u) \subseteq Range(active[s].ids),
         NEW v \in Seq(Nat), Sorted(CommitOrdered, v), Range(v) \subseteq Range(lane[s][p]),
         Range(u) # {} => active[s].prio = p,
         lane'[s][p] = u \o v, active'[s].ids = <<>>
  PROVE  OrderedAt(s, p)'
<1>1. Range(active[s].ids) \subseteq Ids /\ Range(lane[s][p]) \subseteq Ids
  BY PlacesHoldIds
<1>2. Before(CommitOrdered, Range(u), Range(v))
  BY DEF OrderedAt, Before
<1>3. Sorted(CommitOrdered', u) /\ Sorted(CommitOrdered', v)
  BY <1>1, StillSorted
<1>4. Before(CommitOrdered', Range(u), Range(v))
  BY <1>1, <1>2, StillBefore
<1>5. Sorted(CommitOrdered', u \o v)
  BY <1>3, <1>4, SortedJoin
<1>6. Range(<<>>) = {} /\ Sorted(CommitOrdered', <<>>)
  BY DEF Range, Sorted
<1> QED BY <1>5, <1>6 DEF OrderedAt, Before

\* A batch that is given back was claimed before everything it waits in front of.
LEMMA RetryKeepsOrder ==
  ASSUME TypeOK, OwnedExactly, Ordered, Fixed, NEW s \in Slots, RetryStart(s, active[s])
  PROVE  Ordered'
<1> SUFFICES ASSUME NEW t \in Slots, NEW o \in Lanes  PROVE OrderedAt(t, o)'
  BY DEF Ordered
<1> DEFINE p == active[s].prio
<1>1. /\ active' = Vacate(s) /\ lane' = [lane EXCEPT ![s][p] = active[s].ids \o @]
      /\ p \in Lanes /\ active[s].ids \in Seq(Nat) /\ lane[s][p] \in Seq(Nat)
  BY OwnerTypes DEF RetryStart
<1>2. CASE t = s /\ o = p
  <2>1. lane'[t][o] = active[s].ids \o lane[s][p] /\ active'[s].ids = <<>>
    BY <1>1, <1>2 DEF TypeOK, Vacate, NoBatch
  <2>2. Sorted(CommitOrdered, active[s].ids) /\ Sorted(CommitOrdered, lane[s][p]) /\ OrderedAt(s, p)
    BY <1>1 DEF Ordered, OrderedAt
  <2> HIDE DEF p
  <2> QED BY <1>1, <1>2, <2>1, <2>2, OrderReturns DEF p
<1>3. CASE ~(t = s /\ o = p)
  <2>1. lane'[t][o] = lane[t][o]
    BY <1>1, <1>3 DEF TypeOK
  <2>2. \/ active'[t].ids = <<>>
        \/ active'[t].ids = active[t].ids /\ active'[t].prio = active[t].prio
    BY <1>1, VacateThins
  <2> QED BY <2>1, <2>2, OrderThins DEF Ordered
<1> QED BY <1>2, <1>3

\* What a cancelled run leaves of a batch goes back to the front of the batch's lane.
LEMMA CancelRunKeepsOrder ==
  ASSUME TypeOK, OwnedExactly, Ordered, Fixed, NEW r \in Runs, CancelRun(r)
  PROVE  Ordered'
<1> SUFFICES ASSUME NEW s \in Slots, NEW p \in Lanes  PROVE OrderedAt(s, p)'
  BY DEF Ordered
<1> DEFINE ids  == active[s].ids
           back == IF s \in HitBy(r)
                   THEN {k \in DOMAIN ids : intents[ids[k]].run # r /\ PrioOf(ids[k]) = p} ELSE {}
           u    == Pick(ids, back)
           v    == Without(lane[s][p], EndedBy(r))
<1>1. lane'[s][p] = u \o v /\ active'[s] = IF s \in HitBy(r) THEN NoBatch ELSE active[s]
  BY DEF CancelRun
<1>2. ids \in Seq(Nat) /\ lane[s][p] \in Seq(Nat) /\ back \in SUBSET DOMAIN ids /\ OrderedAt(s, p)
  BY OwnerTypes DEF Ordered
<1>3. \A k \in back : s \in HitBy(r) /\ active[s].prio = p
  <2>1. \A k \in DOMAIN ids : PrioOf(ids[k]) = active[s].prio
    BY DEF OwnedExactly, BatchesExact, Range, PrioOf
  <2> QED BY <2>1
<1>4. CASE s \notin HitBy(r)
  <2>1. u = <<>>
    <3>1. back = {}
      BY <1>4
    <3> HIDE DEF ids, back
    <3>2. u \in Seq(Nat)
      BY <1>2, PickElements
    <3>3. Range(u) = {ids[k] : k \in back}
      BY <1>2, PickRange
    <3> HIDE DEF u
    <3> QED BY <3>1, <3>2, <3>3, RangeEmpty
  <2>2. v \in Seq(Nat)
    BY <1>2, WithoutElements
  <2> HIDE DEF u, v
  <2>3. lane'[s][p] = v
    BY <1>1, <2>1, <2>2
  <2> QED BY <1>1, <1>2, <1>4, <2>3, OrderThins DEF v
<1>5. CASE s \in HitBy(r)
  <2> HIDE DEF back
  <2>1. /\ u \in Seq(Nat) /\ Range(u) = {ids[k] : k \in back}
        /\ Sorted(CommitOrdered, u)
    <3>1. Sorted(CommitOrdered, ids)
      BY <1>2 DEF OrderedAt
    <3> HIDE DEF ids
    <3>2. u \in Seq(Nat)
      BY <1>2, PickElements
    <3>3. Range(u) = {ids[k] : k \in back}
      BY <1>2, PickRange
    <3>4. Sorted(CommitOrdered, u)
      BY <1>2, <3>1, SortedPick
    <3> QED BY <3>2, <3>3, <3>4
  <2>2. /\ v \in Seq(Nat) /\ Range(v) \subseteq Range(lane[s][p])
        /\ Sorted(CommitOrdered, v)
    <3>1. Sorted(CommitOrdered, lane[s][p])
      BY <1>2 DEF OrderedAt
    <3>2. v \in Seq(Nat) /\ Range(v) \subseteq Range(lane[s][p])
      BY <1>2, WithoutElements
    <3>3. Sorted(CommitOrdered, v)
      BY <1>2, <3>1, SortedWithout
    <3> QED BY <3>2, <3>3
  <2>3. Range(u) \subseteq Range(ids) /\ (Range(u) # {} => active[s].prio = p)
    BY <1>2, <1>3, <2>1 DEF Range
  <2>4. active'[s].ids = <<>>
    BY <1>1, <1>5 DEF NoBatch
  <2> HIDE DEF u, v
  <2> QED BY <1>1, <1>2, <2>1, <2>2, <2>3, <2>4, OrderReturns
<1> QED BY <1>4, <1>5


\* The drains that reconciliation queues carry no run, so they join the back of a lane freely.
LEMMA ReconcileKeepsOrder ==
  ASSUME TypeOK, OwnedExactly, Ordered, Fixed, NEW s \in Slots, NEW unread \in Rows(Msgs), NEW cand,
         ReconcileMailbox(s, unread, cand)
  PROVE  Ordered'
<1> DEFINE S     == StaleIntents(s, unread, cand)
           fresh == Pick(unread, {k \in DOMAIN unread : ~Owned(s, unread[k])})
           n     == Len(intents)
           m     == Len(fresh)
           new   == [j \in 1..m |-> NewIntent(s, "RecoveryDrain", fresh[j], NoRun)]
           ids   == [j \in 1..m |-> n + j]
           old   == WithState(S, "completed")
           kept  == Dequeue(s, S)
<1>1. intents' = old \o new /\ active' = active /\ lane' = [kept EXCEPT ![s]["Background"] = @ \o ids]
  BY DEF ReconcileMailbox
<1>2. fresh \in Seq(Msgs)
  BY RowsType, PickElements
<1> HIDE DEF fresh
<1>3. m \in Nat /\ n \in Nat /\ Ids = 1..n /\ ids \in Seq(Nat) /\ Range(ids) = {n + j : j \in 1..m}
  BY <1>2, IdsType, LenProperties DEF Range
<1>4. \A i \in Range(ids) : i \notin CommitOrdered'
  <2>1. \A j \in 1..m : fresh[j] \in Msgs
    BY <1>2, LenProperties
  <2>2. new \in Seq(Intent) /\ Len(new) = m /\ \A j \in 1..m : new[j].run = NoRun
    BY <1>3, <2>1, NewIntentType DEF NewIntent, AllSources
  <2>3. old \in Seq(Intent) /\ Len(old) = n
    <3>1. old \in Seq(Intent) /\ DOMAIN old = Ids
      BY WithStateType DEF Terminal
    <3> HIDE DEF old
    <3> QED BY <1>3, <3>1, LenProperties
  <2> HIDE DEF old, new
  <2>4. \A j \in 1..m : intents'[n + j] = new[j]
    BY <1>1, <1>3, <2>2, <2>3, ConcatProperties
  <2> QED BY <1>3, <2>2, <2>4 DEF CommitOrdered, InCommitOrder
<1>5. kept \in [Slots -> [Lanes -> Seq(Nat)]]
  BY DequeueType
<1>6. \A t \in Slots, o \in Lanes : Sorted(CommitOrdered', kept[t][o])
                                      /\ Range(kept[t][o]) \subseteq Range(lane[t][o])
  <2> TAKE t \in Slots, o \in Lanes
  <2>1. kept[t][o] = IF t = s THEN Without(lane[t][o], S) ELSE lane[t][o]
    BY DEF Dequeue, TypeOK
  <2>2. lane[t][o] \in Seq(Nat) /\ Range(lane[t][o]) \subseteq Ids /\ Sorted(CommitOrdered, lane[t][o])
    BY OwnerTypes, PlacesHoldIds DEF Ordered, OrderedAt
  <2> HIDE DEF kept, S
  <2>3. Range(kept[t][o]) \subseteq Range(lane[t][o])
    BY <2>1, <2>2, WithoutElements
  <2>4. Sorted(CommitOrdered, kept[t][o])
    BY <2>1, <2>2, SortedWithout
  <2> QED BY <2>2, <2>3, <2>4, StillSorted
<1> SUFFICES ASSUME NEW t \in Slots, NEW o \in Lanes  PROVE OrderedAt(t, o)'
  BY DEF Ordered
<1>7. /\ Sorted(CommitOrdered', active'[t].ids)
      /\ active[t].prio = o => Before(CommitOrdered', Range(active[t].ids), Range(lane[t][o]))
  BY <1>1, OwnerTypes, PlacesHoldIds, StillSorted, StillBefore DEF Ordered, OrderedAt
<1> HIDE DEF kept, ids
<1>8. CASE t = s /\ o = "Background"
  <2>1. lane'[t][o] = kept[t][o] \o ids
    BY <1>1, <1>5, <1>8
  <2>2. kept[t][o] \in Seq(Nat)
    BY <1>5
  <2>3. Range(kept[t][o] \o ids) = Range(kept[t][o]) \cup Range(ids)
    BY <1>3, <2>2, JoinElements
  <2>4. Sorted(CommitOrdered', ids) /\ Before(CommitOrdered', Range(kept[t][o]), Range(ids))
    BY <1>4 DEF Sorted, Before, Range
  <2>5. Sorted(CommitOrdered', kept[t][o] \o ids)
    BY <1>3, <1>6, <2>2, <2>4, SortedJoin
  <2>6. active[t].prio = o => Before(CommitOrdered', Range(active[t].ids), Range(kept[t][o] \o ids))
    BY <1>4, <1>6, <1>7, <2>3 DEF Before
  <2> QED BY <1>1, <1>7, <2>1, <2>5, <2>6 DEF OrderedAt
<1>9. CASE ~(t = s /\ o = "Background")
  <2>1. lane'[t][o] = kept[t][o]
    BY <1>1, <1>5, <1>9
  <2> QED BY <1>1, <1>6, <1>7, <2>1 DEF OrderedAt, Before
<1> QED BY <1>8, <1>9

\* The head of a lane that makes one batch: whatever message it leaves waits behind it.
LEMMA BatchIsHead ==
  ASSUME NEW q \in Seq(Nat), NEW k \in BatchAt(q), NEW l \in MessageAt(q), l \notin BatchAt(q)
  PROVE  k < l
<1>1. k \in MessageAt(q) /\ k \in Nat /\ l \in Nat
  BY DEF BatchAt, MessageAt, HeadOf
<1>2. k # l
  OBVIOUS
<1>3. CASE k \in HeadOf(MessageAt(q))
  BY <1>1, <1>2, <1>3 DEF HeadOf
<1>4. CASE k \notin HeadOf(MessageAt(q))
  <2>1. \A j \in MessageAt(q) : j <= k => intents[q[j]].source \notin Isolated
    BY <1>4 DEF BatchAt
  <2>2. \E j \in MessageAt(q) : j <= l /\ intents[q[j]].source \in Isolated
    BY DEF BatchAt
  <2>3. \A j \in MessageAt(q) : j \in Nat
    BY DEF MessageAt
  <2> QED BY <1>1, <1>2, <2>1, <2>2, <2>3
<1> QED BY <1>3, <1>4

\* A claim takes the head of a lane, so the new batch comes before the rest of it.
LEMMA ClaimKeepsOrder ==
  ASSUME TypeOK, OwnedExactly, Ordered, Fixed, NEW s \in Slots, Claim(s)
  PROVE  Ordered'
<1>1. PICK p \in Lanes :
        LET q   == lane[s][p]
            ids == Pick(q, BatchAt(q))
        IN /\ active' = [active EXCEPT ![s] = [op |-> opId + 1, ids |-> ids, prio |-> p,
                                               turn |-> FALSE, observed |-> {}]]
           /\ lane' = Dequeue(s, Range(ids))
  BY DEF Claim
<1> DEFINE q   == lane[s][p]
           K   == BatchAt(q)
           ids == Pick(q, K)
           r   == Without(q, Range(ids))
<1>2. lane' = Dequeue(s, Range(ids)) /\ active'[s].ids = ids /\ active'[s].prio = p
        /\ \A t \in Slots : t # s => active'[t] = active[t]
  BY <1>1 DEF TypeOK
<1>3. /\ q \in Seq(Nat) /\ Range(q) \subseteq Ids /\ Sorted(CommitOrdered, q)
      /\ K \in SUBSET DOMAIN q /\ K \subseteq MessageAt(q)
  BY OwnerTypes, PlacesHoldIds DEF Ordered, OrderedAt, BatchAt, MessageAt, HeadOf
<1>4. \A k \in K : \A l \in MessageAt(q) : l \notin K => k < l
  BY <1>3, BatchIsHead
<1>5. \A l \in DOMAIN q : q[l] \in CommitOrdered => l \in MessageAt(q)
  BY DEF MessageAt, CommitOrdered, InCommitOrder
<1> HIDE DEF q, K
<1>6. Range(ids) = {q[k] : k \in K} /\ Sorted(CommitOrdered, ids)
  BY <1>3, PickRange, SortedPick
<1>7. Range(ids) \subseteq Ids
  BY <1>3, <1>6 DEF Range
<1>8. Range(r) = Range(q) \ Range(ids) /\ Sorted(CommitOrdered, r)
  BY <1>3, WithoutElements, SortedWithout
<1> HIDE DEF ids
<1>9. Before(CommitOrdered, Range(ids), Range(r))
  <2> SUFFICES ASSUME NEW i \in Range(ids), i \in CommitOrdered, NEW j \in Range(r), j \in CommitOrdered
               PROVE  i < j
    BY DEF Before
  <2>1. PICK k \in K : i = q[k]
    BY <1>6
  <2>2. PICK l \in DOMAIN q : j = q[l]
    BY <1>8 DEF Range
  <2>3. l \notin K
    BY <1>6, <1>8, <2>2
  <2>4. k \in DOMAIN q /\ k < l
    BY <1>3, <1>4, <1>5, <2>1, <2>2, <2>3
  <2> QED BY <1>3, <2>1, <2>2, <2>4 DEF Sorted
<1> HIDE DEF r
<1>10. /\ Sorted(CommitOrdered', ids) /\ Sorted(CommitOrdered', r)
       /\ Before(CommitOrdered', Range(ids), Range(r))
  BY <1>3, <1>6, <1>7, <1>8, <1>9, StillSorted, StillBefore
<1> SUFFICES ASSUME NEW t \in Slots, NEW o \in Lanes  PROVE OrderedAt(t, o)'
  BY DEF Ordered
<1>11. CASE t = s /\ o = p
  <2>1. lane'[t][o] = r
    BY <1>2, <1>11 DEF Dequeue, TypeOK, q, r
  <2> QED BY <1>2, <1>10, <1>11, <2>1 DEF OrderedAt
<1>12. CASE t = s /\ o # p
  <2>1. lane'[t][o] = Without(lane[t][o], Range(ids))
    BY <1>2, <1>12 DEF Dequeue, TypeOK
  <2>2. lane[t][o] \in Seq(Nat) /\ Range(lane[t][o]) \subseteq Ids /\ Sorted(CommitOrdered, lane[t][o])
    BY OwnerTypes, PlacesHoldIds DEF Ordered, OrderedAt
  <2>3. Range(lane'[t][o]) \subseteq Range(lane[t][o])
    BY <2>1, <2>2, WithoutElements
  <2>4. Sorted(CommitOrdered, lane'[t][o])
    BY <2>1, <2>2, SortedWithout
  <2>5. Sorted(CommitOrdered', lane'[t][o])
    BY <2>2, <2>3, <2>4, StillSorted
  <2> QED BY <1>2, <1>10, <1>12, <2>5 DEF OrderedAt
<1>13. CASE t # s
  <2>1. lane'[t][o] = lane[t][o] /\ active'[t] = active[t]
    BY <1>2, <1>13 DEF Dequeue, TypeOK
  <2> QED BY <2>1, OrderThins DEF Ordered
<1> QED BY <1>11, <1>12, <1>13

\* A failed runtime requeues, in any order, intents that carry no run.
LEMMA ConstraintKeepsOrder ==
  ASSUME TypeOK, OwnedExactly, Ordered, Fixed, NEW s \in Slots, NEW c, SetConstraint(s, c)
  PROVE  Ordered'
<1>1. CASE c.kind \notin {"Failed", "SessionStopped"}
  BY <1>1, ThinningKeepsOrder DEF SetConstraint
<1>2. CASE c.kind \in {"Failed", "SessionStopped"}
  <2> DEFINE back == {i \in LiveOf(s) : c.kind = "Failed" /\ intents[i].run = NoRun}
  <2>1. active' = Vacate(s)
    BY <1>2 DEF SetConstraint
  <2>2. PICK f \in Orders(back) :
          lane' = [lane EXCEPT ![s] = [p \in Lanes |-> Pick(f, {k \in DOMAIN f : PrioOf(f[k]) = p})]]
    BY <1>2 DEF SetConstraint
  <2>3. back \subseteq Ids /\ IsFiniteSet(back)
    <3>1. back \in SUBSET Ids
      BY DEF LiveOf
    <3> QED BY <3>1, IdsFinite
  <2>4. f \in Seq(Ids) /\ Range(f) = back
    BY <2>2, <2>3, OrdersType
  <2>5. \A i \in back : i \notin CommitOrdered'
    BY <2>3, OrderFixed DEF CommitOrdered, InCommitOrder
  <2> HIDE DEF back
  <2> SUFFICES ASSUME NEW t \in Slots, NEW p \in Lanes  PROVE OrderedAt(t, p)'
    BY DEF Ordered
  <2>6. CASE t = s
    <3> DEFINE K == {k \in DOMAIN f : PrioOf(f[k]) = p}
    <3>1. lane'[t][p] = Pick(f, K) /\ active'[t].ids = <<>>
      BY <2>1, <2>2, <2>6 DEF TypeOK, Vacate, NoBatch
    <3>2. K \in SUBSET DOMAIN f
      OBVIOUS
    <3> HIDE DEF K
    <3>3. \A k \in DOMAIN Pick(f, K) : Pick(f, K)[k] \in back
      BY <2>4, <3>2, PickRange DEF Range
    <3>4. Range(<<>>) = {} /\ Sorted(CommitOrdered', <<>>)
      BY DEF Range, Sorted
    <3>5. Sorted(CommitOrdered', Pick(f, K))
      BY <2>5, <3>3 DEF Sorted
    <3> QED BY <3>1, <3>4, <3>5 DEF OrderedAt, Before
  <2>7. CASE t # s
    <3>1. lane'[t][p] = lane[t][p] /\ active'[t] = active[t]
      BY <2>1, <2>2, <2>7 DEF TypeOK, Vacate
    <3> QED BY <3>1, OrderThins DEF Ordered
  <2> QED BY <2>6, <2>7
<1> QED BY <1>1, <1>2


\* The methods of the event loop keep the order.
LEMMA DrainingKeepsOrder ==
  ASSUME TypeOK, OwnedExactly, Ordered, Fixed, NEW s \in Slots, Draining(s)
  PROVE  Ordered'
<1> DEFINE Stays == \A t \in Slots : active'[t].ids = active[t].ids /\ active'[t].prio = active[t].prio
<1>1. ASSUME NEW unread \in Rows(Msgs), NEW cand \in SUBSET QueuedIn(s), ReconcileMailbox(s, unread, cand)
      PROVE  Ordered'
  BY <1>1, ReconcileKeepsOrder
<1>2. CASE Claim(s)
  BY <1>2, ClaimKeepsOrder
<1>3. ASSUME NEW S \in SUBSET QueuedIn(s), CompleteSignals(s, S)
      PROVE  Ordered'
  BY <1>3, DequeueThins, ThinningKeepsOrder DEF CompleteSignals
<1>4. CASE MarkStarted(s, active[s])
  <2>1. Stays
    BY <1>4, OwnerTypes DEF MarkStarted, TypeOK, Batch
  <2> QED BY <1>4, <2>1, ThinningKeepsOrder DEF MarkStarted
<1>5. CASE RetryStart(s, active[s])
  BY <1>5, RetryKeepsOrder
<1>6. CASE CompleteBatch(s, active[s])
  <2>1. active' = Vacate(s) /\ \E S : lane' = Dequeue(s, S)
    BY <1>6 DEF CompleteBatch
  <2> QED BY <2>1, VacateThins, DequeueThins, ThinningKeepsOrder
<1>7. CASE FailBatch(s, active[s])
  BY <1>7, VacateThins, ThinningKeepsOrder DEF FailBatch
<1>8. ASSUME NEW M \in SUBSET Msgs, ObserveMessages(s, active[s], M)
      PROVE  Ordered'
  <2>1. Stays
    BY <1>8, OwnerTypes DEF ObserveMessages, TypeOK, Batch
  <2> QED BY <1>8, <2>1, ThinningKeepsOrder DEF ObserveMessages
<1> QED BY <1>1, <1>2, <1>3, <1>4, <1>5, <1>6, <1>7, <1>8 DEF Draining

\* So do the control operations.
LEMMA ControllingKeepsOrder ==
  ASSUME TypeOK, OwnedExactly, Ordered, Fixed, NEW s \in Slots, Controlling(s)
  PROVE  Ordered'
<1>1. CASE CancelBatch(s, active[s])
  BY <1>1, VacateThins, ThinningKeepsOrder DEF CancelBatch
<1>2. CASE InterruptBatch(s, active[s])
  BY <1>2, VacateThins, ThinningKeepsOrder DEF InterruptBatch
<1>3. ASSUME NEW m \in Msgs, DiscardQueuedExcept(s, m)
      PROVE  Ordered'
  BY <1>3, DequeueThins, ThinningKeepsOrder DEF DiscardQueuedExcept
<1>4. CASE PauseSlot(s)
  BY <1>4, ThinningKeepsOrder DEF PauseSlot
<1>5. ASSUME NEW k \in Kinds, SetConstraint(s, [kind |-> k, op |-> 0])
      PROVE  Ordered'
  BY <1>5, ConstraintKeepsOrder
<1>6. ASSUME NEW allowQueued \in BOOLEAN, BeginRestart(s, allowQueued)
      PROVE  Ordered'
  BY <1>6, ThinningKeepsOrder DEF BeginRestart
<1>7. ASSUME NEW op \in 1..opId, NEW k \in {"Ready", "Starting", "Failed"},
             AbortRestart(s, op, [kind |-> k, op |-> 0])
      PROVE  Ordered'
  BY <1>7, ThinningKeepsOrder DEF AbortRestart
<1>8. CASE RemoveSlot(s)
  <2>1. active' = Vacate(s) /\ \A t \in Slots, p \in Lanes : lane'[t][p] = lane[t][p] \/ lane'[t][p] = <<>>
    BY <1>8 DEF RemoveSlot, TypeOK, Empty
  <2> QED BY <2>1, VacateThins, ThinningKeepsOrder
<1> QED BY <1>1, <1>2, <1>3, <1>4, <1>5, <1>6, <1>7, <1>8 DEF Controlling

\* Every method of the coordinator keeps the order.
LEMMA OrderNext == TypeOK /\ OwnedExactly /\ Ordered /\ [Next]_cvars => Ordered'
<1> SUFFICES ASSUME TypeOK, OwnedExactly, Ordered, [Next]_cvars  PROVE Ordered'
  OBVIOUS
<1>0. Fixed
  BY IntentsFixed
<1>1. CASE Enqueueing
  <2>1. ASSUME NEW l \in leases, NEW m \in Msgs \cup {NoMsg}, CommitEnqueue(l, m)
        PROVE  Ordered'
    BY <1>0, <2>1, CommitKeepsOrder
  <2>2. CASE lane' = lane /\ active' = active
    BY <1>0, <2>2, ThinningKeepsOrder
  <2> QED BY <1>1, <2>1, <2>2 DEF Enqueueing, AcquireEnqueue, AbortEnqueue
<1>2. ASSUME NEW s \in Slots, Draining(s)  PROVE Ordered'
  BY <1>0, <1>2, DrainingKeepsOrder
<1>3. ASSUME NEW s \in Slots, Controlling(s)  PROVE Ordered'
  BY <1>0, <1>3, ControllingKeepsOrder
<1>4. ASSUME NEW o \in interrupted, TakeInterruptMetadata([NoBatch EXCEPT !.op = o])  PROVE Ordered'
  BY <1>0, <1>4, ThinningKeepsOrder DEF TakeInterruptMetadata
<1>5. ASSUME NEW r \in Runs, CancelRun(r)  PROVE Ordered'
  BY <1>0, <1>5, CancelRunKeepsOrder
<1>6. CASE Stop
  <2>1. \A s \in Slots : active'[s].ids = <<>> /\ \A p \in Lanes : lane'[s][p] = <<>>
    BY <1>6 DEF Stop, NoBatch, Empty
  <2> QED BY <1>0, <2>1, ThinningKeepsOrder
<1>7. CASE UNCHANGED cvars
  BY <1>0, <1>7, ThinningKeepsOrder DEF cvars
<1> QED BY <1>1, <1>2, <1>3, <1>4, <1>5, <1>6, <1>7 DEF Next

\* The inductive form of the order implies the one the runs check.
LEMMA OrderedKeepsCommitOrder ==
  ASSUME TypeOK, OwnedExactly, Ordered
  PROVE  LanesKeepCommitOrder
<1> SUFFICES ASSUME NEW s \in Slots, NEW p \in Lanes
             PROVE  LET q == (IF active[s].prio = p THEN active[s].ids ELSE <<>>) \o lane[s][p]
                    IN \A k, l \in DOMAIN q :
                         k < l /\ InCommitOrder(q[k]) /\ InCommitOrder(q[l]) => q[k] < q[l]
  BY DEF LanesKeepCommitOrder
<1> DEFINE u == IF active[s].prio = p THEN active[s].ids ELSE <<>>
           q == u \o lane[s][p]
<1>1. u \in Seq(Nat) /\ lane[s][p] \in Seq(Nat) /\ Range(u) \subseteq Ids /\ Range(lane[s][p]) \subseteq Ids
  <2>1. Range(<<>>) = {} /\ <<>> \in Seq(Nat)
    BY DEF Range
  <2> QED BY <2>1, OwnerTypes, PlacesHoldIds
<1>2. Sorted(CommitOrdered, u) /\ Sorted(CommitOrdered, lane[s][p]) /\ Before(CommitOrdered, Range(u), Range(lane[s][p]))
  <2>1. Range(<<>>) = {} /\ Sorted(CommitOrdered, <<>>)
    BY DEF Range, Sorted
  <2> QED BY <2>1 DEF Ordered, OrderedAt, Before
<1> HIDE DEF u
<1>3. Sorted(CommitOrdered, q)
  BY <1>1, <1>2, SortedJoin
<1>4. \A k \in DOMAIN q : q[k] \in Ids
  <2>1. Range(q) \subseteq Ids
    BY <1>1, JoinElements
  <2> QED BY <2>1 DEF Range
<1>5. \A k, l \in DOMAIN q : k < l /\ InCommitOrder(q[k]) /\ InCommitOrder(q[l]) => q[k] < q[l]
  BY <1>3, <1>4 DEF Sorted, CommitOrdered
<1> QED BY <1>5 DEF u

\* Rows are claimed in the order they were committed: in every reachable state, whatever
\* was retried, requeued, cancelled or interrupted before, the batch in flight and then
\* each lane list the messages that carry a run in that order.
THEOREM CommitOrderKept == Spec => []LanesKeepCommitOrder
<1>1. Init => TypeOK /\ OwnedExactly /\ Ordered
  <2>1. ASSUME Init  PROVE Ordered
    <3>1. \A s \in Slots : active[s].ids = <<>> /\ \A p \in Lanes : lane[s][p] = <<>>
      BY <2>1 DEF Init, NoBatch
    <3>2. Range(<<>>) = {} /\ Sorted(CommitOrdered, <<>>)
      BY DEF Range, Sorted
    <3> QED BY <3>1, <3>2 DEF Ordered, OrderedAt, Before
  <2> QED BY <2>1, InitType, OwnerInit
<1>2. TypeOK /\ OwnedExactly /\ Ordered /\ [Next]_cvars => (TypeOK /\ OwnedExactly /\ Ordered)'
  BY NextType, OwnerNext, OrderNext
<1>3. TypeOK /\ OwnedExactly /\ Ordered => LanesKeepCommitOrder
  BY OrderedKeepsCommitOrder
<1> QED BY <1>1, <1>2, <1>3, PTL DEF Spec


-----------------------------------------------------------------------------
(* Isolation *)

\* A slot's batch stays, goes, or is claimed.
LEMMA BatchesComeFromClaims ==
  ASSUME TypeOK, [Next]_cvars, NEW s \in Slots
  PROVE  active'[s].ids = active[s].ids \/ active'[s].ids = <<>> \/ Claim(s)
<1> DEFINE Goal == active'[s].ids = active[s].ids \/ active'[s].ids = <<>> \/ Claim(s)
<1>a. ASSUME active' = active  PROVE Goal
  BY <1>a
<1>b. ASSUME NEW t \in Slots, active' = Vacate(t)  PROVE Goal
  BY <1>b, VacateThins
<1>1. CASE Enqueueing
  BY <1>1, <1>a DEF Enqueueing, AcquireEnqueue, AbortEnqueue, CommitEnqueue
<1>2. ASSUME NEW t \in Slots, Draining(t)  PROVE Goal
  <2>1. CASE Claim(t)
    BY <2>1 DEF Claim, TypeOK
  <2>2. CASE MarkStarted(t, active[t])
    BY <2>2, OwnerTypes DEF MarkStarted, TypeOK, Batch
  <2>3. ASSUME NEW M \in SUBSET Msgs, ObserveMessages(t, active[t], M)  PROVE Goal
    BY <2>3, OwnerTypes DEF ObserveMessages, TypeOK, Batch
  <2>4. CASE CompleteBatch(t, active[t])
    <3>1. active' = Vacate(t)
      BY <2>4 DEF CompleteBatch
    <3> QED BY <1>b, <3>1
  <2> QED BY <1>2, <1>a, <1>b, <2>1, <2>2, <2>3, <2>4
          DEF Draining, ReconcileMailbox, CompleteSignals, RetryStart, FailBatch
<1>3. ASSUME NEW t \in Slots, Controlling(t)  PROVE Goal
  BY <1>3, <1>a, <1>b
     DEF Controlling, CancelBatch, InterruptBatch, DiscardQueuedExcept, PauseSlot, SetConstraint,
         BeginRestart, AbortRestart, RemoveSlot
<1>4. ASSUME NEW o \in interrupted, TakeInterruptMetadata([NoBatch EXCEPT !.op = o])  PROVE Goal
  BY <1>4, <1>a DEF TakeInterruptMetadata
<1>5. ASSUME NEW r \in Runs, CancelRun(r)  PROVE Goal
  BY <1>5 DEF CancelRun, NoBatch
<1>6. CASE Stop
  BY <1>6 DEF Stop, NoBatch
<1>7. CASE UNCHANGED cvars
  BY <1>7, <1>a DEF cvars
<1> QED BY <1>1, <1>2, <1>3, <1>4, <1>5, <1>6, <1>7 DEF Next

\* An isolated message that a batch takes is the whole batch.
LEMMA IsolatedBatch ==
  ASSUME NEW q \in Seq(Nat), NEW k \in BatchAt(q), intents[q[k]].source \in Isolated
  PROVE  BatchAt(q) = {k}
<1>1. k \in MessageAt(q) /\ \A j \in MessageAt(q) : j \in Nat
  BY DEF BatchAt, MessageAt, HeadOf
<1>2. k \in HeadOf(MessageAt(q))
  BY <1>1 DEF BatchAt
<1>3. ASSUME NEW j \in BatchAt(q)  PROVE j = k
  <2>1. j \in MessageAt(q) /\ k <= j
    BY <1>2 DEF BatchAt, HeadOf
  <2>2. j \in HeadOf(MessageAt(q))
    BY <1>1, <2>1 DEF BatchAt
  <2>3. j <= k
    BY <1>1, <2>2 DEF HeadOf
  <2> QED BY <1>1, <2>1, <2>3
<1> QED BY <1>3

\* A slash command or a lead intervention is never folded into a larger batch, in any
\* reachable state of a coordinator of any size.
THEOREM IsolatedAlone == Spec => []IsolatedRunsAlone
<1>1. Init => IsolatedRunsAlone
  BY DEF Init, IsolatedRunsAlone, NoBatch
<1>2. TypeOK /\ OwnedExactly /\ IsolatedRunsAlone /\ [Next]_cvars => IsolatedRunsAlone'
  <2> SUFFICES ASSUME TypeOK, OwnedExactly, IsolatedRunsAlone, [Next]_cvars,
                      NEW s \in Slots, NEW k \in DOMAIN active'[s].ids,
                      intents'[active'[s].ids[k]].source \in Isolated
               PROVE  Len(active'[s].ids) = 1
    BY DEF IsolatedRunsAlone
  <2>1. Fixed
    BY IntentsFixed
  <2>2. CASE active'[s].ids = <<>>
    BY <2>2
  <2>3. CASE active'[s].ids = active[s].ids
    <3>1. active[s].ids[k] \in Ids
      BY <2>3, PlacesHoldIds DEF Range
    <3>2. intents[active[s].ids[k]].source \in Isolated
      BY <2>1, <2>3, <3>1 DEF Fixed
    <3> QED BY <2>3, <3>2 DEF IsolatedRunsAlone
  <2>4. CASE Claim(s)
    <3>1. PICK p \in Lanes : active'[s].ids = Pick(lane[s][p], BatchAt(lane[s][p]))
      BY <2>4 DEF Claim, TypeOK
    <3> DEFINE q == lane[s][p]
               K == BatchAt(q)
    <3>2. q \in Seq(Nat) /\ Range(q) \subseteq Ids /\ K \in SUBSET DOMAIN q
      BY OwnerTypes, PlacesHoldIds DEF BatchAt, MessageAt, HeadOf
    <3>3. active'[s].ids = Pick(q, K)
      BY <3>1
    <3> HIDE DEF K
    <3>4. /\ active'[s].ids \in Seq(Nat) /\ DOMAIN active'[s].ids = 1..Cardinality(K)
          /\ IndexAt(K, k) \in K /\ active'[s].ids[k] = q[IndexAt(K, k)]
      BY <3>2, <3>3, PickElements
    <3> DEFINE j == IndexAt(K, k)
    <3>5. j \in K /\ q[j] \in Ids /\ intents'[q[j]].source \in Isolated
      BY <3>2, <3>4 DEF Range
    <3> HIDE DEF j, q
    <3>6. intents[q[j]].source \in Isolated
      BY <2>1, <3>5 DEF Fixed
    <3>7. K = {j}
      BY <3>2, <3>5, <3>6, IsolatedBatch DEF K
    <3>8. Cardinality(K) = 1
      BY <3>7, FS_Singleton
    <3>9. DOMAIN active'[s].ids = 1..Len(active'[s].ids) /\ Len(active'[s].ids) \in Nat
      BY <3>4, LenProperties
    <3>10. 1..Len(active'[s].ids) = 1..1
      BY <3>4, <3>8, <3>9
    <3>11. \A n \in Nat : 1..n = 1..1 => n = 1
      <4>1. \A n \in Nat : n \in 1..n \/ n = 0
        OBVIOUS
      <4>2. 1 \in 1..1 /\ 1..0 = {}
        OBVIOUS
      <4>3. \A n \in Nat : n \in 1..1 => n = 1
        OBVIOUS
      <4> QED BY <4>1, <4>2, <4>3
    <3> QED BY <3>9, <3>10, <3>11
  <2> QED BY <2>2, <2>3, <2>4, BatchesComeFromClaims
<1>3. Init => TypeOK /\ OwnedExactly
  BY InitType, OwnerInit
<1>4. TypeOK /\ OwnedExactly /\ [Next]_cvars => (TypeOK /\ OwnedExactly)'
  BY NextType, OwnerNext
<1> QED BY <1>1, <1>2, <1>3, <1>4, PTL DEF Spec
=============================================================================
