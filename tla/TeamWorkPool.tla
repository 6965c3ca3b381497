---------------------------- MODULE TeamWorkPool ----------------------------
(***************************************************************************)
(* What a step of the coordinator may never do, and that the coordinator   *)
(* implements the work pool, for every value of the constants.             *)
(*                                                                         *)
(* The pool sees intents through the places they live in.  By exact        *)
(* ownership these are determined by the states of the intents alone, so   *)
(* each method is reduced to what it does to those states: it admits,      *)
(* takes or releases.                                                      *)
(***************************************************************************)
EXTENDS TeamWorkOwner

InLanes(s) == {i \in Ids : intents[i].slot = s /\ intents[i].state = "queued"}
Over       == {i \in Ids : ~Live(i)}

\* MaxIntents really bounds the intents: the guards of commit and reconciliation
\* are the only ones needed.
Bounded == Ids \subseteq 1..MaxIntents

\* What the lanes and the batch of a slot hold, read off the states of intents.
ReadOff == \A s \in Slots : QueuedIn(s) = InLanes(s) /\ Range(active[s].ids) = InTurn(s)

\* Exact ownership determines the queues and the batch of a slot by the states of
\* its intents.
LEMMA Views == TypeOK /\ OwnedExactly => ReadOff
<1> SUFFICES ASSUME TypeOK, OwnedExactly, NEW s \in Slots
             PROVE  QueuedIn(s) = InLanes(s) /\ Range(active[s].ids) = InTurn(s)
  BY DEF ReadOff
<1>1. Range(active[s].ids) = InTurn(s)
  BY DEF OwnedExactly, BatchesExact
<1>2. \A p \in Lanes : Range(lane[s][p]) = WaitingIn(s, p)
  BY DEF OwnedExactly, LanesExact
<1>3. \A i \in Ids : Prio(intents[i].source) \in Lanes
  BY PrioType
<1>4. QueuedIn(s) = InLanes(s)
  BY <1>2, <1>3 DEF QueuedIn, InLanes, WaitingIn
<1> QED BY <1>1, <1>4

-----------------------------------------------------------------------------
(* What each method does to the intents that exist *)

\* A step that only changes the states of intents, and of ended ones not even that.
Steady == /\ Ids' = Ids
          /\ \A i \in Ids : /\ intents'[i].slot = intents[i].slot
                            /\ ~Live(i) => intents'[i] = intents[i]

\* The states a step may give, when it lets go of the batches of the slots in open.
Releasing(open) ==
  \A i \in Ids :
    /\ intents[i].state = "queued" => intents'[i].state \in Terminal \cup {"queued"}
    /\ intents[i].state \in InFlight =>
         IF intents[i].slot \in open THEN intents'[i].state \in Terminal \cup {"queued"}
                                     ELSE intents'[i].state \in InFlight

\* Giving some live intents of a slot one state.
LEMMA ReleasedTogether ==
  ASSUME TypeOK, NEW S, NEW st \in Terminal \cup {"queued"}, NEW open \in SUBSET Slots,
         intents' = WithState(S, st),
         \A i \in S \cap Ids : Live(i),
         \A i \in Ids : intents[i].state \in InFlight => (i \in S <=> intents[i].slot \in open)
  PROVE  Steady /\ Releasing(open)
<1>1. /\ Ids' = Ids
      /\ \A i \in Ids : /\ intents'[i].slot = intents[i].slot
                        /\ intents'[i].state = IF i \in S THEN st ELSE intents[i].state
  BY StateChange
<1>2. \A i \in Ids : i \notin S => intents'[i] = intents[i]
  BY DEF WithState
<1>3. Steady
  BY <1>1, <1>2 DEF Steady
<1>4. Releasing(open)
  BY <1>1 DEF Releasing
<1> QED BY <1>3, <1>4

\* A step that leaves the intents alone.
LEMMA ReleasedNothing ==
  ASSUME TypeOK, intents' = intents
  PROVE  Steady /\ Releasing({})
BY DEF Steady, Releasing, Ids

\* An intent in flight belongs to the batch of its slot, and only it does.
LEMMA InFlightOf ==
  ASSUME TypeOK, OwnedExactly, NEW s \in Slots
  PROVE  /\ \A i \in Ids : intents[i].state \in InFlight =>
              (i \in Range(active[s].ids) <=> intents[i].slot \in {s})
         /\ \A i \in Range(active[s].ids) : i \in Ids /\ Live(i)
<1>1. Range(active[s].ids) = InTurn(s)
  BY Views DEF ReadOff
<1> QED BY <1>1 DEF InTurn, Live, Terminal, InFlight

\* The methods of the event loop on a batch and on signals release work.
LEMMA DrainingReleases ==
  ASSUME TypeOK, OwnedExactly, NEW s \in Slots, Draining(s)
  PROVE  \/ Claim(s)
         \/ \E unread \in Rows(Msgs), cand \in SUBSET QueuedIn(s) : ReconcileMailbox(s, unread, cand)
         \/ \E open \in SUBSET Slots : Steady /\ Releasing(open)
<1> DEFINE Goal == \E open \in SUBSET Slots : Steady /\ Releasing(open)
<1>a. {} \in SUBSET Slots /\ {s} \in SUBSET Slots
  OBVIOUS
<1>3. ASSUME NEW S \in SUBSET QueuedIn(s), CompleteSignals(s, S)
      PROVE  Goal
  <2>1. \A i \in S : i \in Ids /\ Live(i) /\ intents[i].state \notin InFlight
    BY Views DEF ReadOff, InLanes, Live, Terminal, InFlight
  <2>2. intents' = WithState(S, "completed")
    BY <1>3 DEF CompleteSignals
  <2>3. \A i \in Ids : intents[i].state \in InFlight => (i \in S <=> intents[i].slot \in {})
    BY <2>1
  <2>4. Steady /\ Releasing({})
    BY <1>a, <2>1, <2>2, <2>3, ReleasedTogether DEF Terminal
  <2> QED BY <1>a, <2>4
<1>4. CASE MarkStarted(s, active[s])
  <2> DEFINE S == Range(active[s].ids)
  <2>1. \A i \in S : i \in Ids /\ intents[i].state \in InFlight
    BY Views DEF ReadOff, InTurn
  <2>2. intents' = WithState(S, "running")
    BY <1>4 DEF MarkStarted
  <2> HIDE DEF S
  <2>3. /\ Ids' = Ids
        /\ \A i \in Ids : /\ intents'[i].slot = intents[i].slot
                          /\ intents'[i].state = IF i \in S THEN "running" ELSE intents[i].state
    BY <2>2, StateChange
  <2>4. \A i \in Ids : i \notin S => intents'[i] = intents[i]
    BY <2>2 DEF WithState
  <2>5. Steady /\ Releasing({})
    BY <2>1, <2>3, <2>4 DEF Steady, Releasing, Live, Terminal, InFlight
  <2> QED BY <1>a, <2>5
<1>5. CASE RetryStart(s, active[s])
  <2>1. intents' = WithState(Range(active[s].ids), "queued")
    BY <1>5 DEF RetryStart
  <2>2. Steady /\ Releasing({s})
    BY <1>a, <2>1, InFlightOf, ReleasedTogether
  <2> QED BY <1>a, <2>2
<1>6. CASE CompleteBatch(s, active[s])
  <2> DEFINE S == Range(active[s].ids)
                     \cup {i \in Ids : intents[i].slot = s /\ intents[i].msg \in active[s].observed /\ Live(i)}
  <2>1. intents' = WithState(S, "completed")
    BY <1>6 DEF CompleteBatch
  <2>2. \A i \in S : i \in Ids /\ Live(i)
    BY InFlightOf
  <2>3. \A i \in Ids : intents[i].state \in InFlight => (i \in S <=> intents[i].slot \in {s})
    BY InFlightOf
  <2> HIDE DEF S
  <2>4. Steady /\ Releasing({s})
    BY <1>a, <2>1, <2>2, <2>3, ReleasedTogether DEF Terminal
  <2> QED BY <1>a, <2>4
<1>7. CASE FailBatch(s, active[s])
  <2>1. intents' = WithState(Range(active[s].ids), "failed")
    BY <1>7 DEF FailBatch
  <2>2. Steady /\ Releasing({s})
    BY <1>a, <2>1, InFlightOf, ReleasedTogether DEF Terminal
  <2> QED BY <1>a, <2>2
<1>8. ASSUME NEW M \in SUBSET Msgs, ObserveMessages(s, active[s], M)
      PROVE  Goal
  BY <1>a, <1>8, ReleasedNothing DEF ObserveMessages
<1> QED BY <1>3, <1>4, <1>5, <1>6, <1>7, <1>8 DEF Draining

\* So do cancellation, interruption, discard, runtime constraints and removal.
LEMMA ControllingReleases ==
  ASSUME TypeOK, OwnedExactly, NEW s \in Slots, Controlling(s)
  PROVE  \E open \in SUBSET Slots : Steady /\ Releasing(open)
<1> DEFINE Goal == \E open \in SUBSET Slots : Steady /\ Releasing(open)
<1>a. {} \in SUBSET Slots /\ {s} \in SUBSET Slots
  OBVIOUS
<1>b. CASE intents' = intents
  BY <1>a, <1>b, ReleasedNothing
<1>1. CASE CancelBatch(s, active[s]) \/ InterruptBatch(s, active[s])
  <2>1. intents' = WithState(Range(active[s].ids), "cancelled")
    BY <1>1 DEF CancelBatch, InterruptBatch
  <2>2. Steady /\ Releasing({s})
    BY <1>a, <2>1, InFlightOf, ReleasedTogether DEF Terminal
  <2> QED BY <1>a, <2>2
<1>2. ASSUME NEW m \in Msgs, DiscardQueuedExcept(s, m)
      PROVE  Goal
  <2> DEFINE S == Discardable(s, m)
  <2>1. \A i \in S : i \in Ids /\ Live(i) /\ intents[i].state \notin InFlight
    BY Views DEF ReadOff, Discardable, InLanes, Live, Terminal, InFlight
  <2>2. intents' = WithState(S, "cancelled")
    BY <1>2 DEF DiscardQueuedExcept
  <2> HIDE DEF S
  <2>3. \A i \in Ids : intents[i].state \in InFlight => (i \in S <=> intents[i].slot \in {})
    BY <2>1
  <2>4. Steady /\ Releasing({})
    BY <1>a, <2>1, <2>2, <2>3, ReleasedTogether DEF Terminal
  <2> QED BY <1>a, <2>4
<1>3. CASE PauseSlot(s)
  BY <1>3, <1>b DEF PauseSlot
<1>4. ASSUME NEW k \in Kinds, SetConstraint(s, [kind |-> k, op |-> 0])
      PROVE  Goal
  <2>1. CASE k \notin {"Failed", "SessionStopped"}
    BY <1>4, <1>b, <2>1 DEF SetConstraint
  <2>2. CASE k \in {"Failed", "SessionStopped"}
    <3> DEFINE back == {i \in LiveOf(s) : k = "Failed" /\ intents[i].run = NoRun}
               end  == IF k = "Failed" THEN "failed" ELSE "cancelled"
    <3>1. intents' = [i \in Ids |->
              IF i \in back THEN [intents[i] EXCEPT !.state = "queued"]
              ELSE IF i \in LiveOf(s) THEN [intents[i] EXCEPT !.state = end] ELSE intents[i]]
      BY <1>4, <2>2 DEF SetConstraint
    <3>2. back \subseteq LiveOf(s) /\ end \in Terminal
      BY DEF Terminal
    <3> HIDE DEF back, end
    <3>3. /\ Ids' = Ids
          /\ \A i \in Ids : /\ intents'[i].slot = intents[i].slot
                            /\ i \in LiveOf(s) => intents'[i].state \in Terminal \cup {"queued"}
                            /\ i \notin LiveOf(s) => intents'[i] = intents[i]
      <4>1. \A i \in Ids : intents[i] \in Intent
        BY OwnerTypes
      <4> QED BY <3>1, <3>2, <4>1 DEF Ids, Intent
    <3>4. \A i \in Ids : i \in LiveOf(s) <=> intents[i].slot = s /\ Live(i)
      BY DEF LiveOf
    <3>5. Steady
      BY <3>3, <3>4 DEF Steady
    <3>6. Releasing({s})
      BY <3>3, <3>4 DEF Releasing, Live, Terminal, InFlight
    <3> QED BY <1>a, <3>5, <3>6
  <2> QED BY <2>1, <2>2
<1>5. ASSUME NEW allowQueued \in BOOLEAN, BeginRestart(s, allowQueued)
      PROVE  Goal
  BY <1>5, <1>b DEF BeginRestart
<1>6. ASSUME NEW op \in 1..opId, NEW k \in {"Ready", "Starting", "Failed"},
             AbortRestart(s, op, [kind |-> k, op |-> 0])
      PROVE  Goal
  BY <1>6, <1>b DEF AbortRestart
<1>7. CASE RemoveSlot(s)
  <2>1. intents' = WithState(LiveOf(s), "cancelled")
    BY <1>7 DEF RemoveSlot
  <2>2. \A i \in LiveOf(s) \cap Ids : Live(i)
    BY DEF LiveOf
  <2>3. \A i \in Ids : intents[i].state \in InFlight => (i \in LiveOf(s) <=> intents[i].slot \in {s})
    BY DEF LiveOf, Live, Terminal, InFlight
  <2>4. Steady /\ Releasing({s})
    BY <1>a, <2>1, <2>2, <2>3, ReleasedTogether DEF Terminal
  <2> QED BY <1>a, <2>4
<1> QED BY <1>1, <1>2, <1>3, <1>4, <1>5, <1>6, <1>7 DEF Controlling

\* The slots whose batch holds an intent of the run let go of it; every queued intent
\* of the run ends.
LEMMA CancelReleases ==
  ASSUME TypeOK, OwnedExactly, NEW r \in Runs, CancelRun(r)
  PROVE  Steady /\ Releasing(HitBy(r))
<1> DEFINE T == HitBy(r)
           E == EndedBy(r)
           B == Returned(r)
<1>1. intents' = [i \in Ids |-> IF i \in E THEN [intents[i] EXCEPT !.state = "cancelled"]
                           ELSE IF i \in B THEN [intents[i] EXCEPT !.state = "queued"]
                           ELSE intents[i]]
  BY DEF CancelRun
<1>2. \A s \in Slots : Range(active[s].ids) = InTurn(s)
  BY Views DEF ReadOff
<1>3. \A i \in Ids : (i \in E) <=>
        intents[i].run = r /\ (intents[i].state = "queued" \/ \E s \in T : i \in InTurn(s))
  BY <1>2 DEF EndedBy, HitBy
<1>4. \A i \in Ids : (i \in B) <=> intents[i].run # r /\ \E s \in T : i \in InTurn(s)
  BY <1>2 DEF Returned, HitBy
<1>5. \A s \in Slots : \A i \in InTurn(s) : intents[i].run = r => s \in T
  BY <1>2 DEF HitBy, Range
<1>6. \A i \in Ids : intents[i].slot \in Slots
  BY OwnerTypes DEF Intent
<1> HIDE DEF T, E, B
<1>7. /\ Ids' = Ids
      /\ \A i \in Ids : /\ intents'[i].slot = intents[i].slot
                        /\ i \notin E \cup B => intents'[i] = intents[i]
                        /\ intents'[i].state = IF i \in E THEN "cancelled"
                                               ELSE IF i \in B THEN "queued" ELSE intents[i].state
  <2>1. \A i \in Ids : intents[i] \in Intent
    BY OwnerTypes
  <2> QED BY <1>1, <2>1 DEF Ids, Intent
<1>8. \A i \in Ids : i \in E \cup B => Live(i)
  BY <1>3, <1>4 DEF InTurn, Live, Terminal, InFlight
<1>9. Steady
  BY <1>7, <1>8 DEF Steady
<1>10. Releasing(T)
  <2> SUFFICES ASSUME NEW i \in Ids
               PROVE  /\ intents[i].state = "queued" => intents'[i].state \in Terminal \cup {"queued"}
                      /\ intents[i].state \in InFlight =>
                           IF intents[i].slot \in T THEN intents'[i].state \in Terminal \cup {"queued"}
                                                    ELSE intents'[i].state \in InFlight
    BY DEF Releasing
  <2>1. CASE intents[i].state = "queued"
    BY <1>7, <2>1 DEF Terminal, InFlight
  <2>2. CASE intents[i].state \in InFlight
    <3>1. i \in InTurn(intents[i].slot) /\ \A s \in Slots : i \in InTurn(s) => s = intents[i].slot
      BY <2>2 DEF InTurn
    <3>2. CASE intents[i].slot \in T
      <4>1. i \in E \/ i \in B
        BY <1>3, <1>4, <3>1, <3>2
      <4> QED BY <1>7, <3>2, <4>1, <2>2 DEF Terminal, InFlight
    <3>3. CASE intents[i].slot \notin T
      <4>1. i \notin E
        BY <1>3, <1>5, <1>6, <2>2, <3>1, <3>3 DEF InFlight
      <4>2. T \subseteq Slots
        BY DEF T, HitBy
      <4>3. i \notin B
        BY <1>4, <3>1, <3>3, <4>2
      <4> QED BY <1>7, <2>2, <3>3, <4>1, <4>3 DEF InFlight
    <3> QED BY <3>2, <3>3
  <2>3. CASE intents[i].state \in Terminal
    BY <2>3 DEF Terminal, InFlight
  <2>4. intents[i].state \in Terminal \cup InFlight \cup {"queued"}
    BY OwnerTypes DEF Intent
  <2> QED BY <2>1, <2>2, <2>3, <2>4
<1> QED BY <1>9, <1>10 DEF T

\* The end of the session releases everything.
LEMMA StopReleases ==
  ASSUME TypeOK, OwnedExactly, Stop
  PROVE  Steady /\ Releasing(Slots)
<1> DEFINE S == {i \in Ids : Live(i)}
<1>1. intents' = WithState(S, "cancelled")
  BY DEF Stop
<1>2. \A i \in S \cap Ids : Live(i)
  OBVIOUS
<1>3. \A i \in Ids : intents[i].slot \in Slots
  BY OwnerTypes DEF Intent
<1>4. \A i \in Ids : intents[i].state \in InFlight => (i \in S <=> intents[i].slot \in Slots)
  BY <1>3 DEF Live, Terminal, InFlight
<1> HIDE DEF S
<1> QED BY <1>1, <1>2, <1>4, ReleasedTogether DEF Terminal

-----------------------------------------------------------------------------
(* Methods that create intents, and the one that takes them *)

\* A step that adds queued intents to s, all of them from the sources src, and may end
\* queued ones.
Admitting(s, src) ==
  /\ Ids \subseteq Ids' /\ Bounded'
  /\ \A i \in Ids : /\ intents'[i].slot = intents[i].slot
                    /\ ~Live(i) => intents'[i] = intents[i]
                    /\ \/ intents'[i].state = intents[i].state
                       \/ /\ intents[i].state = "queued" /\ intents[i].slot = s
                          /\ intents'[i].state \in Terminal
  /\ \A i \in Ids' \ Ids : /\ intents'[i].slot = s /\ intents'[i].state = "queued"
                           /\ intents'[i].source \in src

\* A step that takes some queued intents of s, which had no batch.
Taking(s) ==
  /\ Ids' = Ids /\ InTurn(s) = {}
  /\ \E S \in (SUBSET InLanes(s)) \ {{}} :
       \A i \in Ids : IF i \in S THEN /\ intents'[i].slot = intents[i].slot
                                      /\ intents'[i].state = "starting"
                                 ELSE intents'[i] = intents[i]

\* A committed lease adds one intent of the lease's source to the lease's slot.
LEMMA CommitAdmits ==
  ASSUME TypeOK, NEW l \in leases, NEW m \in Msgs \cup {NoMsg}, CommitEnqueue(l, m)
  PROVE  l.slot \in Slots /\ ~removed[l.slot] /\ Admitting(l.slot, {l.source})
<1> DEFINE n == Len(intents) + 1
           x == NewIntent(l.slot, l.source, m, l.run)
<1>1. intents' = Append(intents, x) /\ ~removed[l.slot]
  BY DEF CommitEnqueue, CanCommit, Accepts
<1>2. l.slot \in Slots
  BY DEF TypeOK, Lease
<1>3. x.slot = l.slot /\ x.source = l.source /\ x.state = "queued"
  BY DEF NewIntent
<1> HIDE DEF x
<1>4. Ids = 1..Len(intents) /\ Len(intents) \in Nat
  BY IdsType
<1>5. Ids' = Ids \cup {n} /\ (\A i \in Ids : intents'[i] = intents[i]) /\ intents'[n] = x
  <2>1. intents \in Seq(Intent)
    BY DEF TypeOK
  <2>2. Len(intents') = n /\ \A i \in 1..n : intents'[i] = IF i <= Len(intents) THEN intents[i] ELSE x
    BY <1>1, <2>1, <1>4
  <2>3. Ids' = 1..n
    BY <1>1, <2>1, <2>2 DEF Ids
  <2> QED BY <1>4, <2>2, <2>3
<1>6. Bounded'
  <2>1. n <= MaxIntents /\ Ids' \subseteq 1..n
    BY <1>4, <1>5, BoundsAssumption DEF CommitEnqueue
  <2> QED BY <1>4, <2>1, BoundsAssumption DEF Bounded
<1> QED BY <1>1, <1>2, <1>3, <1>5, <1>6 DEF Admitting

\* An element of a concatenation is one of the first part or, after it, of the second.
LEMMA JoinedElements ==
  ASSUME NEW D, NEW a \in Seq(D), NEW b \in Seq(D)
  PROVE  /\ DOMAIN (a \o b) = 1..(Len(a) + Len(b))
         /\ DOMAIN a \subseteq DOMAIN (a \o b)
         /\ \A i \in DOMAIN a : (a \o b)[i] = a[i]
         /\ \A i \in DOMAIN (a \o b) \ DOMAIN a : \E j \in DOMAIN b : (a \o b)[i] = b[j]
<1>1. /\ Len(a) \in Nat /\ Len(b) \in Nat
      /\ DOMAIN a = 1..Len(a) /\ DOMAIN b = 1..Len(b)
  BY LenProperties
<1>2. /\ a \o b \in Seq(D) /\ Len(a \o b) = Len(a) + Len(b)
      /\ \A i \in 1..(Len(a) + Len(b)) : (a \o b)[i] = IF i <= Len(a) THEN a[i] ELSE b[i - Len(a)]
  BY ConcatProperties
<1>3. DOMAIN (a \o b) = 1..(Len(a) + Len(b))
  BY <1>2, LenProperties
<1>4. \A i \in 1..(Len(a) + Len(b)) : i \notin 1..Len(a) => i - Len(a) \in 1..Len(b) /\ ~(i <= Len(a))
  BY <1>1
<1>5. \A i \in 1..Len(a) : i \in 1..(Len(a) + Len(b)) /\ i <= Len(a)
  BY <1>1
<1> QED BY <1>1, <1>2, <1>3, <1>4, <1>5

\* Reconciliation adds recovery drains and ends stale intents.
LEMMA ReconcileAdmits ==
  ASSUME TypeOK, OwnedExactly, NEW s \in Slots, NEW unread \in Rows(Msgs), NEW cand,
         ReconcileMailbox(s, unread, cand)
  PROVE  Admitting(s, {"RecoveryDrain"})
<1> DEFINE S     == StaleIntents(s, unread, cand)
           fresh == Pick(unread, {k \in DOMAIN unread : ~Owned(s, unread[k])})
           new   == [j \in 1..Len(fresh) |-> NewIntent(s, "RecoveryDrain", fresh[j], NoRun)]
           old   == WithState(S, "completed")
<1>1. intents' = old \o new /\ Len(intents) + Len(fresh) <= MaxIntents
  BY DEF ReconcileMailbox
<1>2. \A i \in S : i \in Ids /\ intents[i].slot = s /\ intents[i].state = "queued"
  BY Views DEF ReadOff, StaleIntents, InLanes
<1>3. fresh \in Seq(Msgs)
  BY RowsType, PickElements
<1> HIDE DEF S, fresh
<1>4. old \in Seq(Intent) /\ DOMAIN old = Ids
  BY WithStateType DEF Terminal
<1>5. Len(fresh) \in Nat /\ \A j \in 1..Len(fresh) : fresh[j] \in Msgs
  BY <1>3
<1>6. new \in Seq(Intent) /\ DOMAIN new = 1..Len(fresh)
  <2>1. \A j \in 1..Len(fresh) : NewIntent(s, "RecoveryDrain", fresh[j], NoRun) \in Intent
    BY <1>5, NewIntentType DEF AllSources
  <2>2. new \in [1..Len(fresh) -> Intent]
    BY <2>1
  <2> QED BY <1>5, <2>2
<1>7. \A j \in DOMAIN new : new[j].slot = s /\ new[j].source = "RecoveryDrain" /\ new[j].state = "queued"
  BY <1>6 DEF NewIntent
<1>8. \A i \in Ids : /\ old[i].slot = intents[i].slot
                     /\ old[i].state = IF i \in S THEN "completed" ELSE intents[i].state
                     /\ i \notin S => old[i] = intents[i]
  BY OwnerTypes DEF WithState, Intent
<1> HIDE DEF new, old
<1>9. /\ Ids \subseteq Ids'
      /\ \A i \in Ids : intents'[i] = old[i]
      /\ \A i \in Ids' \ Ids : \E j \in DOMAIN new : intents'[i] = new[j]
  <2>1. /\ DOMAIN old \subseteq DOMAIN (old \o new)
        /\ \A i \in DOMAIN old : (old \o new)[i] = old[i]
        /\ \A i \in DOMAIN (old \o new) \ DOMAIN old : \E j \in DOMAIN new : (old \o new)[i] = new[j]
    BY <1>4, <1>6, JoinedElements
  <2>2. Ids' = DOMAIN (old \o new)
    BY <1>1 DEF Ids
  <2> QED BY <1>1, <1>4, <2>1, <2>2
<1>10. \A i \in Ids :
         /\ intents'[i].slot = intents[i].slot
         /\ intents'[i].state = IF i \in S THEN "completed" ELSE intents[i].state
         /\ ~Live(i) => intents'[i] = intents[i]
  <2>1. \A i \in S : Live(i)
    BY <1>2 DEF Live, Terminal
  <2>2. \A i \in Ids : intents'[i] = old[i]
    BY <1>9
  <2> QED BY <1>8, <2>1, <2>2
<1>11. \A i \in Ids' \ Ids :
         intents'[i].slot = s /\ intents'[i].state = "queued" /\ intents'[i].source = "RecoveryDrain"
  BY <1>7, <1>9
<1>12. Ids \subseteq Ids'
  BY <1>9
<1>13. \A i \in Ids :
         \/ intents'[i].state = intents[i].state
         \/ /\ intents[i].state = "queued" /\ intents[i].slot = s
            /\ intents'[i].state \in Terminal
  BY <1>2, <1>10 DEF Terminal
<1>14. Bounded'
  <2>1. Len(intents) \in Nat /\ Ids = 1..Len(intents)
    BY IdsType
  <2>2. Len(old) = Len(intents) /\ Len(new) = Len(fresh)
    BY <1>4, <1>5, <1>6, <2>1, LenProperties
  <2>3. DOMAIN (old \o new) = 1..(Len(old) + Len(new))
    BY <1>4, <1>6, JoinedElements
  <2>4. Ids' = 1..(Len(intents) + Len(fresh))
    BY <1>1, <2>2, <2>3 DEF Ids
  <2> QED BY <1>1, <1>5, <2>1, <2>4, BoundsAssumption DEF Bounded
<1> QED BY <1>10, <1>11, <1>12, <1>13, <1>14 DEF Admitting

\* The first message of a lane is claimed, so a claim never takes nothing.
LEMMA ClaimTakes ==
  ASSUME TypeOK, OwnedExactly, NEW s \in Slots, Claim(s)
  PROVE  Taking(s)
<1>1. PICK p \in Lanes :
        /\ MessageAt(lane[s][p]) # {}
        /\ intents' = WithState(Range(Pick(lane[s][p], BatchAt(lane[s][p]))), "starting")
  BY DEF Claim
<1> DEFINE q == lane[s][p]
           K == BatchAt(q)
           S == Range(Pick(q, K))
<1>2. q \in Seq(Nat) /\ Range(q) = WaitingIn(s, p)
  BY OwnerTypes DEF OwnedExactly, LanesExact
<1>3. K \in SUBSET DOMAIN q
  BY DEF BatchAt, MessageAt, HeadOf
<1>4. \E h \in MessageAt(q) : \A l \in MessageAt(q) : h <= l
  <2> DEFINE N == MessageAt(q)
  <2>1. N \in SUBSET DOMAIN q /\ N # {}
    BY <1>1 DEF MessageAt
  <2> HIDE DEF N
  <2>2. IsFiniteSet(N) /\ N \in SUBSET Nat
    BY <1>2, <2>1, IndicesFinite
  <2>3. Cardinality(N) \in Nat /\ Cardinality(N) # 0
    BY <2>1, <2>2, FS_CardinalityType, FS_EmptySet
  <2>4. PICK h \in N : RankIn(N, h) = 1
    BY <2>2, <2>3, RankOnto
  <2>5. \A l \in N : ~(l < h)
    <3> SUFFICES ASSUME NEW l \in N, l < h  PROVE FALSE
      OBVIOUS
    <3>1. RankIn(N, l) < RankIn(N, h)
      BY <2>2, RankGrows
    <3>2. RankIn(N, l) \in 1..Cardinality(N)
      BY <2>2, RankBounds
    <3> QED BY <2>3, <2>4, <3>1, <3>2
  <2>6. \A l \in N : h <= l
    BY <2>2, <2>5
  <2> QED BY <2>6 DEF N
<1>5. K # {}
  BY <1>4 DEF BatchAt, HeadOf
<1>6. S = {q[k] : k \in K}
  BY <1>2, <1>3, PickRange
<1> HIDE DEF q, K, S
<1>7. S # {} /\ S \subseteq WaitingIn(s, p)
  BY <1>2, <1>3, <1>5, <1>6 DEF Range
<1>8. intents' = WithState(S, "starting")
  BY <1>1 DEF q, K, S
<1>9. S \in (SUBSET InLanes(s)) \ {{}}
  BY <1>7 DEF WaitingIn, InLanes
<1>10. Ids' = Ids /\ \A i \in Ids :
         IF i \in S THEN intents'[i].slot = intents[i].slot /\ intents'[i].state = "starting"
                    ELSE intents'[i] = intents[i]
  <2>1. Ids' = Ids /\ \A i \in Ids : /\ intents'[i].slot = intents[i].slot
                                     /\ intents'[i].state = IF i \in S THEN "starting" ELSE intents[i].state
    BY <1>8, StateChange
  <2>2. \A i \in Ids : i \notin S => intents'[i] = intents[i]
    BY <1>8 DEF WithState
  <2> QED BY <2>1, <2>2
<1>11. InTurn(s) = {}
  BY DEF Claim, CanClaim, OwnedExactly, BatchesExact
<1> QED BY <1>9, <1>10, <1>11 DEF Taking

-----------------------------------------------------------------------------
(* Every step is one of the three kinds *)

ReleaseStep == \E open \in SUBSET Slots : Steady /\ Releasing(open)
TakeStep    == \E s \in Slots : Taking(s)
AdmitStep   == \E s \in Slots, src \in SUBSET AllSources :
                 Admitting(s, src) /\ (removed[s] => src = {"RecoveryDrain"})

\* Every method, and a step of another component, releases, takes or admits work.
LEMMA StepKinds ==
  ASSUME TypeOK, OwnedExactly, [Next]_cvars
  PROVE  ReleaseStep \/ TakeStep \/ AdmitStep
<1>b. ASSUME intents' = intents  PROVE ReleaseStep
  BY <1>b, ReleasedNothing DEF ReleaseStep
<1>1. CASE Enqueueing
  <2>1. ASSUME NEW l \in leases, NEW m \in Msgs \cup {NoMsg}, CommitEnqueue(l, m)
        PROVE  AdmitStep
    <3>1. l.slot \in Slots /\ ~removed[l.slot] /\ Admitting(l.slot, {l.source})
      BY <2>1, CommitAdmits
    <3>2. {l.source} \in SUBSET AllSources
      BY SourcesAssumption DEF TypeOK, Lease
    <3> QED BY <3>1, <3>2 DEF AdmitStep
  <2>2. (\E l \in leases, m \in Msgs \cup {NoMsg} : CommitEnqueue(l, m)) \/ intents' = intents
    BY <1>1 DEF Enqueueing, AcquireEnqueue, AbortEnqueue
  <2> QED BY <1>b, <2>1, <2>2
<1>2. ASSUME NEW s \in Slots, Draining(s)  PROVE ReleaseStep \/ TakeStep \/ AdmitStep
  <2>1. ASSUME NEW unread \in Rows(Msgs), NEW cand, ReconcileMailbox(s, unread, cand)
        PROVE  AdmitStep
    <3>1. Admitting(s, {"RecoveryDrain"})
      BY <2>1, ReconcileAdmits
    <3> QED BY <3>1 DEF AdmitStep, AllSources
  <2>2. Claim(s) => TakeStep
    BY ClaimTakes DEF TakeStep
  <2> QED BY <1>2, <2>1, <2>2, DrainingReleases DEF ReleaseStep
<1>3. ASSUME NEW s \in Slots, Controlling(s)  PROVE ReleaseStep
  BY <1>3, ControllingReleases DEF ReleaseStep
<1>4. ASSUME NEW o \in interrupted, TakeInterruptMetadata([NoBatch EXCEPT !.op = o])  PROVE ReleaseStep
  BY <1>4, <1>b DEF TakeInterruptMetadata
<1>5. ASSUME NEW r \in Runs, CancelRun(r)  PROVE ReleaseStep
  <2>1. HitBy(r) \in SUBSET Slots
    BY DEF HitBy
  <2> QED BY <1>5, <2>1, CancelReleases DEF ReleaseStep
<1>6. CASE Stop
  BY <1>6, StopReleases DEF ReleaseStep
<1>7. CASE UNCHANGED cvars
  BY <1>7, <1>b DEF cvars
<1> QED BY <1>1, <1>2, <1>3, <1>4, <1>5, <1>6, <1>7 DEF Next

\* The bound is kept.
LEMMA BoundKept ==
  ASSUME TypeOK, OwnedExactly, Bounded, [Next]_cvars
  PROVE  Bounded'
<1>1. ReleaseStep \/ TakeStep => Ids' = Ids
  BY DEF ReleaseStep, TakeStep, Steady, Taking
<1>2. AdmitStep => Bounded'
  BY DEF AdmitStep, Admitting
<1> QED BY <1>1, <1>2, StepKinds DEF Bounded

\* The intents of a coordinator never seen are none.
LEMMA BoundAtInit == Init => Bounded
BY DEF Init, Bounded, Ids

\* What the theorems below rest on.
Whole == TypeOK /\ OwnedExactly /\ Bounded

\* It holds at all times.
LEMMA WholeAlways == Spec => []Whole
<1>1. Init => Whole
  BY InitType, OwnerInit, BoundAtInit DEF Whole
<1>2. Whole /\ [Next]_cvars => Whole'
  BY NextType, OwnerNext, BoundKept DEF Whole
<1> QED BY <1>1, <1>2, PTL DEF Spec

\* An intent that has ended keeps the state it ended in, whatever is completed,
\* failed or cancelled late.
THEOREM EndedStaysEnded == Spec => TerminalIsFinal
<1>1. Whole /\ [Next]_cvars =>
        [\A i \in Ids : ~Live(i) => i \in Ids' /\ intents[i]' = intents[i]]_cvars
  <2> SUFFICES ASSUME Whole, [Next]_cvars, NEW i \in Ids, ~Live(i)
               PROVE  i \in Ids' /\ intents'[i] = intents[i]
    OBVIOUS
  <2>1. ReleaseStep \/ TakeStep \/ AdmitStep
    BY StepKinds DEF Whole
  <2>2. CASE ReleaseStep
    BY <2>2 DEF ReleaseStep, Steady
  <2>3. CASE TakeStep
    BY <2>3 DEF TakeStep, Taking, InLanes, Live, Terminal
  <2>4. CASE AdmitStep
    BY <2>4 DEF AdmitStep, Admitting
  <2> QED BY <2>1, <2>2, <2>3, <2>4
<1> QED BY <1>1, WholeAlways, PTL DEF Spec, TerminalIsFinal

\* A removed slot takes on no work from a sender, however an enqueue it had
\* accepted before the removal goes on: it can gain recovery drains only.
THEOREM RemovedGainsNothing == Spec => RemovedTakesNoSend
<1>1. Whole /\ [Next]_cvars =>
        [\A s \in Slots : removed[s] =>
           \A i \in Ids' \ Ids : intents'[i].slot = s => intents'[i].source = "RecoveryDrain"]_cvars
  <2> SUFFICES ASSUME Whole, [Next]_cvars, NEW s \in Slots, removed[s],
                      NEW i \in Ids' \ Ids, intents'[i].slot = s
               PROVE  intents'[i].source = "RecoveryDrain"
    OBVIOUS
  <2>1. AdmitStep
    BY StepKinds DEF Whole, ReleaseStep, Steady, TakeStep, Taking
  <2> QED BY <2>1 DEF AdmitStep, Admitting
<1> QED BY <1>1, WholeAlways, PTL DEF Spec, RemovedTakesNoSend

-----------------------------------------------------------------------------
(* The coordinator implements the work pool *)

\* The pool of a coordinator that owns its work exactly.
LEMMA PoolAtInit == Init => Pool!PoolInit
<1> SUFFICES ASSUME Init  PROVE Pool!PoolInit
  OBVIOUS
<1>1. Whole
  BY InitType, OwnerInit, BoundAtInit DEF Whole
<1>2. Ids = {}
  BY DEF Init, Ids
<1>3. \A s \in Slots : QueuedIn(s) = {} /\ Range(active[s].ids) = {}
  BY <1>1, <1>2, Views DEF Whole, ReadOff, InLanes, InTurn
<1> QED BY <1>2, <1>3 DEF Pool!PoolInit

\* Exact ownership in one name.
LEMMA WholeReads == Whole => ReadOff
BY Views DEF Whole

\* The places of work after a step, read off the states of intents.
LEMMA After ==
  ASSUME Whole'
  PROVE  \A s \in Slots : /\ QueuedIn(s)' = {i \in Ids' : intents'[i].slot = s /\ intents'[i].state = "queued"}
                          /\ Range(active[s].ids)' = {i \in Ids' : intents'[i].slot = s /\ intents'[i].state \in InFlight}
<1>1. ReadOff'
  BY WholeReads, PTL
<1> QED BY <1>1 DEF ReadOff, InLanes, InTurn

\* Letting go of batches is a release of the work that ends by it.
LEMMA PoolReleases ==
  ASSUME Whole, Whole', ReleaseStep
  PROVE  Pool!PoolNext
<1>1. PICK open \in SUBSET Slots : Steady /\ Releasing(open)
  BY DEF ReleaseStep
<1> DEFINE gone   == {i \in Ids : Live(i) /\ intents'[i].state \in Terminal}
           let(s) == IF s \in open THEN Range(active[s].ids) ELSE {}
<1>2. /\ \A s \in Slots : QueuedIn(s) = InLanes(s) /\ Range(active[s].ids) = InTurn(s)
      /\ \A i \in Ids : intents[i].slot \in Slots
      /\ \A i \in Ids : intents[i].state \in Terminal \cup InFlight \cup {"queued"}
  BY WholeReads, OwnerTypes DEF Whole, ReadOff, Intent
<1>3. Ids' = Ids /\ \A i \in Ids : intents'[i].slot = intents[i].slot
  BY <1>1 DEF Steady
<1>4. \A i \in Ids :
        /\ intents[i].state = "queued" => intents'[i].state \in Terminal \cup {"queued"}
        /\ intents[i].state \in InFlight /\ intents[i].slot \in open => intents'[i].state \in Terminal \cup {"queued"}
        /\ intents[i].state \in InFlight /\ intents[i].slot \notin open => intents'[i].state \in InFlight
        /\ intents[i].state \in Terminal => intents'[i].state = intents[i].state
  BY <1>1 DEF Steady, Releasing, Live
<1>5. gone \subseteq UNION {QueuedIn(s) \cup let(s) : s \in Slots}
  <2> SUFFICES ASSUME NEW i \in gone  PROVE i \in QueuedIn(intents[i].slot) \cup let(intents[i].slot)
    BY <1>2
  <2>1. i \in Ids /\ (intents[i].state = "queued" \/ (intents[i].state \in InFlight /\ intents[i].slot \in open))
    BY <1>2, <1>4 DEF Live, Terminal, InFlight
  <2> QED BY <1>2, <2>1 DEF InLanes, InTurn
<1>6. ASSUME NEW s \in Slots
      PROVE  /\ Range(active[s].ids)' = Range(active[s].ids) \ let(s)
             /\ QueuedIn(s)' = (QueuedIn(s) \cup let(s)) \ gone
  <2>1. \A i \in Ids : /\ intents'[i].state \in InFlight <=>
                             intents[i].state \in InFlight /\ intents[i].slot \notin open
                       /\ intents'[i].state = "queued" <=>
                             /\ \/ intents[i].state = "queued"
                                \/ intents[i].state \in InFlight /\ intents[i].slot \in open
                             /\ intents'[i].state \notin Terminal
    BY <1>2, <1>4 DEF Terminal, InFlight
  <2>2. Range(active[s].ids)' = {i \in Ids : intents[i].slot = s /\ intents'[i].state \in InFlight}
    BY <1>3, After
  <2>3. QueuedIn(s)' = {i \in Ids : intents[i].slot = s /\ intents'[i].state = "queued"}
    BY <1>3, After
  <2>4. let(s) = {i \in Ids : intents[i].slot = s /\ intents[i].state \in InFlight /\ intents[i].slot \in open}
    BY <1>2 DEF InTurn
  <2>5. Range(active[s].ids) = {i \in Ids : intents[i].slot = s /\ intents[i].state \in InFlight}
    BY <1>2 DEF InTurn
  <2>6. QueuedIn(s) = {i \in Ids : intents[i].slot = s /\ intents[i].state = "queued"}
    BY <1>2 DEF InLanes
  <2>7. \A i \in Ids : i \in gone <=> intents[i].state \notin Terminal /\ intents'[i].state \in Terminal
    BY DEF Live
  <2> HIDE DEF let, gone
  <2>8. Range(active[s].ids)' = Range(active[s].ids) \ let(s)
    BY <2>1, <2>2, <2>4, <2>5
  <2>9. QueuedIn(s)' = (QueuedIn(s) \cup let(s)) \ gone
    BY <2>1, <2>3, <2>4, <2>6, <2>7 DEF Terminal, InFlight
  <2> QED BY <2>8, <2>9
<1>7. {i \in Ids : ~Live(i)}' = {i \in Ids : ~Live(i)} \cup gone
  BY <1>3, <1>4 DEF Live
<1>8. gone \in SUBSET (1..MaxIntents)
  BY DEF Whole, Bounded
<1>9. Pool!Release(open, gone)
  BY <1>5, <1>6, <1>7 DEF Pool!Release
<1> QED BY <1>1, <1>8, <1>9 DEF Pool!PoolNext

\* A claim takes pending work of an empty slot.
LEMMA PoolTakes ==
  ASSUME Whole, Whole', TakeStep
  PROVE  Pool!PoolNext
<1>0. PICK s \in Slots : Taking(s)
  BY DEF TakeStep
<1>1. PICK S \in (SUBSET InLanes(s)) \ {{}} :
        /\ Ids' = Ids /\ InTurn(s) = {}
        /\ \A i \in S : intents'[i].slot = intents[i].slot /\ intents'[i].state = "starting"
        /\ \A i \in Ids : i \notin S => intents'[i] = intents[i]
  BY <1>0 DEF Taking, InLanes
<1>2. \A t \in Slots : QueuedIn(t) = InLanes(t) /\ Range(active[t].ids) = InTurn(t)
  BY WholeReads DEF Whole, ReadOff
<1>3. \A i \in S : i \in Ids /\ intents[i].slot = s /\ intents[i].state = "queued"
  BY <1>1 DEF InLanes
<1>4. ASSUME NEW t \in Slots
      PROVE  /\ Range(active[t].ids)' = IF t = s THEN S ELSE Range(active[t].ids)
             /\ QueuedIn(t)' = IF t = s THEN QueuedIn(t) \ S ELSE QueuedIn(t)
  <2>1. Range(active[t].ids)' = {i \in Ids : intents'[i].slot = t /\ intents'[i].state \in InFlight}
    BY <1>1, After
  <2>2. QueuedIn(t)' = {i \in Ids : intents'[i].slot = t /\ intents'[i].state = "queued"}
    BY <1>1, After
  <2> QED BY <1>1, <1>2, <1>3, <2>1, <2>2 DEF InLanes, InTurn, InFlight
<1>5. {i \in Ids : ~Live(i)}' = {i \in Ids : ~Live(i)}
  BY <1>1, <1>3 DEF Live, Terminal
<1>6. S \in (SUBSET QueuedIn(s)) \ {{}} /\ Range(active[s].ids) = {}
  BY <1>1, <1>2
<1>7. Pool!Take(s)
  BY <1>4, <1>5, <1>6 DEF Pool!Take
<1> QED BY <1>7 DEF Pool!PoolNext

\* A commit or a reconciliation admits new work to one slot.
LEMMA PoolAdmits ==
  ASSUME Whole, Whole', AdmitStep
  PROVE  Pool!PoolNext
<1>1. PICK s \in Slots, src \in SUBSET AllSources : Admitting(s, src)
  BY DEF AdmitStep
<1> DEFINE gone == {i \in Ids : Live(i) /\ intents'[i].state \in Terminal}
           new  == Ids' \ Ids
<1>2. /\ \A t \in Slots : QueuedIn(t) = InLanes(t) /\ Range(active[t].ids) = InTurn(t)
      /\ \A i \in Ids : intents[i].state \in Terminal \cup InFlight \cup {"queued"}
  BY WholeReads, OwnerTypes DEF Whole, ReadOff, Intent
<1>3. /\ Ids \subseteq Ids'
      /\ \A i \in Ids : /\ intents'[i].slot = intents[i].slot
                        /\ i \in gone => intents[i].slot = s /\ intents[i].state = "queued"
                        /\ i \notin gone => intents'[i].state = intents[i].state
      /\ \A i \in new : intents'[i].slot = s /\ intents'[i].state = "queued"
  BY <1>1 DEF Admitting, Live
<1>4. \A i \in gone : i \in Ids /\ intents[i].state \notin Terminal /\ intents'[i].state \in Terminal
  BY DEF Live
<1>5. new \in SUBSET ((1..MaxIntents) \ Pool!Known)
  <2>1. new \subseteq 1..MaxIntents
    BY DEF Whole, Bounded
  <2>2. Pool!Known \subseteq Ids
    BY <1>2 DEF Pool!Known, InLanes, InTurn
  <2> QED BY <2>1, <2>2
<1>6. gone \in SUBSET QueuedIn(s)
  BY <1>2, <1>3 DEF InLanes
<1> HIDE DEF gone
<1>7. ASSUME NEW t \in Slots
      PROVE  /\ Range(active[t].ids)' = Range(active[t].ids)
             /\ QueuedIn(t)' = IF t = s THEN (QueuedIn(t) \ gone) \cup new ELSE QueuedIn(t)
  <2>1. Range(active[t].ids)' = {i \in Ids' : intents'[i].slot = t /\ intents'[i].state \in InFlight}
    BY After
  <2>2. QueuedIn(t)' = {i \in Ids' : intents'[i].slot = t /\ intents'[i].state = "queued"}
    BY After
  <2>3. Range(active[t].ids)' = Range(active[t].ids)
    BY <1>2, <1>3, <1>4, <2>1 DEF InTurn, Terminal, InFlight
  <2>4. QueuedIn(t)' = IF t = s THEN (QueuedIn(t) \ gone) \cup new ELSE QueuedIn(t)
    BY <1>2, <1>3, <1>4, <2>2 DEF InLanes, Terminal
  <2> QED BY <2>3, <2>4
<1>8. {i \in Ids : ~Live(i)}' = {i \in Ids : ~Live(i)} \cup gone
  BY <1>2, <1>3, <1>4 DEF Live, Terminal
<1>9. Pool!Admit(s)
  BY <1>5, <1>6, <1>7, <1>8 DEF Pool!Admit
<1> QED BY <1>9 DEF Pool!PoolNext

\* The coordinator implements the work pool: no interleaving of its methods, on
\* any number of slots, runs and callers, loses work, moves it to another slot,
\* claims into an occupied slot or takes ended work up again.
THEOREM ImplementsPool == Spec => KeepsPool
<1>1. Init => Pool!PoolInit
  BY PoolAtInit
<1>2. Whole /\ Whole' /\ [Next]_cvars => [Pool!PoolNext]_(Pool!pvars)
  BY StepKinds, PoolReleases, PoolTakes, PoolAdmits DEF Whole
<1> QED BY <1>1, <1>2, WholeAlways, PTL DEF Spec, KeepsPool, Pool!PoolSpec
=============================================================================
