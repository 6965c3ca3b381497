--------------------------- MODULE TeamWorkProofs ---------------------------
(***************************************************************************)
(* Theorems about the work coordinator, for every number of slots, rows,   *)
(* runs, callers, intents and operations.                                  *)
(***************************************************************************)
EXTENDS TeamWork, SubsequenceLemmas

-----------------------------------------------------------------------------
(* Types of the building blocks *)

\* Every source has one of the four lanes (WorkSource::priority).
LEMMA PrioType ==
  ASSUME NEW src
  PROVE  Prio(src) \in Lanes
BY DEF Prio, Lanes

\* A new intent is an intent.
LEMMA NewIntentType ==
  ASSUME NEW s \in Slots, NEW src \in AllSources, NEW m \in Msgs \cup {NoMsg}, NEW r \in Runs \cup {NoRun}
  PROVE  NewIntent(s, src, m, r) \in Intent
BY DEF NewIntent, Intent

\* The absence of a batch is a value of the type of batches.
LEMMA NoBatchType == NoBatch \in Batch
BY DEF NoBatch, Batch, Lanes

\* Intent ids are the numbers up to the number of intents.
LEMMA IdsType ==
  ASSUME TypeOK
  PROVE  Len(intents) \in Nat /\ Ids = 1..Len(intents)
BY LenProperties DEF TypeOK, Ids

\* Only finitely many intents exist, and any set of them is finite.
LEMMA IdsFinite ==
  ASSUME TypeOK, NEW S \in SUBSET Ids
  PROVE  IsFiniteSet(S) /\ S \subseteq Nat
<1>1. IsFiniteSet(Ids)
  BY IdsType, FS_Interval
<1>2. IsFiniteSet(S)
  BY <1>1, FS_Subset
<1>3. Ids \subseteq Nat
  BY IdsType
<1> QED BY <1>2, <1>3

\* Rewriting the state of some intents keeps the intent table well formed.
LEMMA WithStateType ==
  ASSUME TypeOK, NEW S, NEW st \in Terminal \cup InFlight \cup {"queued"}
  PROVE  /\ WithState(S, st) \in Seq(Intent)
         /\ DOMAIN WithState(S, st) = Ids
<1>1. \A i \in Ids : intents[i] \in Intent
  BY DEF TypeOK, Ids
<1>2. \A i \in Ids : [intents[i] EXCEPT !.state = st] \in Intent
  BY <1>1 DEF Intent
<1>3. WithState(S, st) \in [1..Len(intents) -> Intent]
  BY <1>1, <1>2, IdsType DEF WithState
<1> QED BY <1>3, IdsType DEF WithState

\* Taking intents out of the lanes of a slot leaves queues of ids (remove_queued).
LEMMA DequeueType ==
  ASSUME TypeOK, NEW s \in Slots, NEW S
  PROVE  Dequeue(s, S) \in [Slots -> [Lanes -> Seq(Nat)]]
<1>1. \A p \in Lanes : Without(lane[s][p], S) \in Seq(Nat)
  BY WithoutElements DEF TypeOK
<1> QED BY <1>1 DEF TypeOK, Dequeue

\* Dropping failure counts keeps them within the limit.
LEMMA ForgetType ==
  ASSUME TypeOK, NEW s \in Slots, NEW M
  PROVE  Forget(s, M) \in [Slots -> [Msgs -> 0..MaxFailures]]
BY DEF TypeOK, Forget, MaxFailures

\* A slot may always be left without a batch.
LEMMA VacateType ==
  ASSUME TypeOK, NEW s \in Slots
  PROVE  Vacate(s) \in [Slots -> Batch]
BY NoBatchType DEF TypeOK, Vacate

\* An order of a finite set lists its members.
LEMMA OrdersType ==
  ASSUME NEW S, IsFiniteSet(S), NEW f \in Orders(S), NEW T, S \subseteq T
  PROVE  f \in Seq(T) /\ Range(f) = S /\ IsInjective(f)
<1>1. Cardinality(S) \in Nat
  BY FS_CardinalityType
<1>2. f \in [1..Cardinality(S) -> S] /\ IsInjective(f)
         /\ \A x \in S : \E j \in 1..Cardinality(S) : f[j] = x
  BY DEF Orders, Bijection, Injection, Surjection
<1>3. f \in [1..Cardinality(S) -> T]
  BY <1>2
<1>4. f \in Seq(T)
  BY <1>1, <1>3
<1>5. Range(f) = S
  BY <1>2 DEF Range
<1> QED BY <1>2, <1>4, <1>5

\* A row order is a sequence of rows.
LEMMA RowsType ==
  ASSUME NEW M, NEW q \in Rows(M)
  PROVE  q \in Seq(M)
<1>1. PICK S \in SUBSET M : IsFiniteSet(S) /\ q \in Orders(S)
  BY DEF Rows
<1> QED BY <1>1, OrdersType

-----------------------------------------------------------------------------
(* Type correctness *)

\* acquire_enqueue, commit_enqueue and abort_enqueue keep every type.
LEMMA EnqueueingType ==
  ASSUME TypeOK, Enqueueing
  PROVE  TypeOK'
<1>1. ASSUME NEW c \in Callers, NEW s \in Slots, NEW src \in Sources, NEW r \in Runs \cup {NoRun},
             AcquireEnqueue(c, s, src, r)
      PROVE  TypeOK'
  <2>1. [owner |-> c, slot |-> s, source |-> src, run |-> r] \in Lease
    BY DEF Lease
  <2> QED BY <1>1, <2>1 DEF AcquireEnqueue, TypeOK
<1>2. ASSUME NEW l \in leases, NEW m \in Msgs \cup {NoMsg}, CommitEnqueue(l, m)
      PROVE  TypeOK'
  <2> DEFINE i == Len(intents) + 1
             p == Prio(l.source)
  <2>1. l.slot \in Slots /\ l.source \in AllSources /\ l.run \in Runs \cup {NoRun}
    BY SourcesAssumption DEF TypeOK, Lease
  <2>2. intents' \in Seq(Intent)
    <3>1. NewIntent(l.slot, l.source, m, l.run) \in Intent
      BY <2>1, NewIntentType
    <3> QED BY <1>2, <3>1 DEF CommitEnqueue, TypeOK
  <2>3. i \in Nat /\ p \in Lanes
    BY IdsType, PrioType
  <2> HIDE DEF p, i
  <2>4. Append(lane[l.slot][p], i) \in Seq(Nat) /\ <<i>> \o lane[l.slot][p] \in Seq(Nat)
    BY <2>1, <2>3 DEF TypeOK
  <2>5. lane' = [lane EXCEPT ![l.slot][p] = IF l.source = "LeadIntervention"
                   THEN <<i>> \o lane[l.slot][p] ELSE Append(lane[l.slot][p], i)]
    BY <1>2 DEF CommitEnqueue, p, i
  <2>6. lane' \in [Slots -> [Lanes -> Seq(Nat)]]
    BY <2>1, <2>3, <2>4, <2>5 DEF TypeOK
  <2> QED BY <1>2, <2>2, <2>6 DEF CommitEnqueue, TypeOK
<1>3. ASSUME NEW l \in leases, AbortEnqueue(l)
      PROVE  TypeOK'
  BY <1>3 DEF AbortEnqueue, TypeOK
<1> QED BY <1>1, <1>2, <1>3 DEF Enqueueing

\* reconcile_mailbox_snapshot keeps every type.
LEMMA ReconcileType ==
  ASSUME TypeOK, NEW s \in Slots, NEW unread \in Rows(Msgs), NEW cand, ReconcileMailbox(s, unread, cand)
  PROVE  TypeOK'
<1> DEFINE stale == StaleIntents(s, unread, cand)
           K     == {k \in DOMAIN unread : ~Owned(s, unread[k])}
           fresh == Pick(unread, K)
           new   == [j \in 1..Len(fresh) |-> NewIntent(s, "RecoveryDrain", fresh[j], NoRun)]
           ids   == [j \in 1..Len(fresh) |-> Len(intents) + j]
           kept  == Dequeue(s, stale)
<1>1. fresh \in Seq(Msgs)
  BY RowsType, PickElements
<1>2. Len(fresh) \in Nat /\ \A j \in 1..Len(fresh) : fresh[j] \in Msgs
  <2> HIDE DEF fresh
  <2> QED BY <1>1
<1>3. new \in Seq(Intent)
  <2>1. \A j \in 1..Len(fresh) : NewIntent(s, "RecoveryDrain", fresh[j], NoRun) \in Intent
    BY <1>2, NewIntentType DEF AllSources
  <2> QED BY <1>2, <2>1
<1>4. ids \in Seq(Nat)
  BY <1>2, IdsType
<1>5. WithState(stale, "completed") \in Seq(Intent)
  BY WithStateType DEF Terminal
<1>6. kept \in [Slots -> [Lanes -> Seq(Nat)]]
  BY DequeueType
<1>7. /\ intents' = WithState(stale, "completed") \o new
      /\ lane' = [kept EXCEPT ![s]["Background"] = @ \o ids]
      /\ fails' = Forget(s, Msgs \ Range(unread))
      /\ UNCHANGED <<active, paused, removed, rt, leases, interrupted, opId>>
  BY DEF ReconcileMailbox
<1> HIDE DEF stale, K, fresh, new, ids, kept
<1>8. intents' \in Seq(Intent)
  BY <1>3, <1>5, <1>7
<1>9. lane' \in [Slots -> [Lanes -> Seq(Nat)]]
  <2>1. kept[s]["Background"] \o ids \in Seq(Nat)
    BY <1>4, <1>6 DEF Lanes
  <2> QED BY <1>6, <1>7, <2>1 DEF Lanes
<1> QED BY <1>7, <1>8, <1>9, ForgetType DEF TypeOK

\* next() hands out a well-formed batch and keeps every type.
LEMMA ClaimType ==
  ASSUME TypeOK, NEW s \in Slots, Claim(s)
  PROVE  TypeOK'
<1>1. PICK p \in Lanes :
        LET q   == lane[s][p]
            ids == Pick(q, BatchAt(q))
        IN /\ active' = [active EXCEPT ![s] = [op |-> opId + 1, ids |-> ids, prio |-> p,
                                               turn |-> FALSE, observed |-> {}]]
           /\ intents' = WithState(Range(ids), "starting")
           /\ lane' = Dequeue(s, Range(ids))
  BY DEF Claim
<1> DEFINE ids == Pick(lane[s][p], BatchAt(lane[s][p]))
<1>2. ids \in Seq(Nat)
  <2>1. BatchAt(lane[s][p]) \in SUBSET DOMAIN lane[s][p]
    BY DEF BatchAt, MessageAt, HeadOf
  <2> QED BY <2>1, PickElements DEF TypeOK
<1>3. intents' \in Seq(Intent) /\ lane' \in [Slots -> [Lanes -> Seq(Nat)]]
  BY <1>1, WithStateType, DequeueType DEF InFlight
<1> HIDE DEF ids
<1>4. [op |-> opId + 1, ids |-> ids, prio |-> p, turn |-> FALSE, observed |-> {}] \in Batch
  BY <1>2 DEF Batch, TypeOK
<1>5. active' \in [Slots -> Batch]
  BY <1>1, <1>4 DEF TypeOK, ids
<1> QED BY <1>3, <1>5 DEF Claim, TypeOK

\* The states that the methods below give to intents.
LEMMA States == {"queued", "starting", "running", "completed", "failed", "cancelled"}
                  = Terminal \cup InFlight \cup {"queued"}
BY DEF Terminal, InFlight

\* The methods of the event loop keep every type; a failing batch caps the failure
\* counts at the limit.
LEMMA DrainingType ==
  ASSUME TypeOK, NEW s \in Slots, Draining(s)
  PROVE  TypeOK'
<1> USE WithStateType, DequeueType, VacateType, ForgetType, States
<1>1. ASSUME NEW unread \in Rows(Msgs), NEW cand \in SUBSET QueuedIn(s), ReconcileMailbox(s, unread, cand)
      PROVE  TypeOK'
  BY <1>1, ReconcileType
<1>2. CASE Claim(s)
  BY <1>2, ClaimType
<1>3. ASSUME NEW S \in SUBSET QueuedIn(s), CompleteSignals(s, S)
      PROVE  TypeOK'
  BY <1>3 DEF CompleteSignals, TypeOK
<1>4. CASE MarkStarted(s, active[s])
  <2>1. active[s] \in Batch /\ active \in [Slots -> Batch]
    BY DEF TypeOK
  <2>2. [active[s] EXCEPT !.turn = TRUE] \in Batch
    BY <2>1 DEF Batch
  <2>3. active' = [active EXCEPT ![s] = [active[s] EXCEPT !.turn = TRUE]]
    BY <1>4, <2>1 DEF MarkStarted
  <2>4. active' \in [Slots -> Batch]
    BY <2>1, <2>2, <2>3
  <2> QED BY <1>4, <2>4 DEF MarkStarted, TypeOK
<1>5. CASE RetryStart(s, active[s])
  <2>1. active[s].ids \in Seq(Nat) /\ active[s].prio \in Lanes
    BY DEF TypeOK, Batch
  <2>2. lane' \in [Slots -> [Lanes -> Seq(Nat)]]
    BY <1>5, <2>1 DEF RetryStart, TypeOK
  <2> QED BY <1>5, <2>2 DEF RetryStart, TypeOK
<1>6. CASE CompleteBatch(s, active[s])
  BY <1>6 DEF CompleteBatch, TypeOK
<1>7. CASE FailBatch(s, active[s])
  <2>1. \A m \in Msgs : Charged(s, active[s], m) \in Nat
    <3> TAKE m \in Msgs
    <3> DEFINE K == {k \in DOMAIN active[s].ids : intents[active[s].ids[k]].msg = m}
    <3>1. active[s].ids \in Seq(Nat)
      BY DEF TypeOK, Batch
    <3>2. Cardinality(K) \in Nat
      BY <3>1, IndicesFinite
    <3> HIDE DEF K
    <3>3. fails[s] \in [Msgs -> 0..3]
      BY DEF TypeOK, MaxFailures
    <3>4. fails[s][m] \in Nat
      BY <3>3
    <3> QED BY <3>2, <3>4 DEF Charged, K
  <2>2. fails' \in [Slots -> [Msgs -> 0..MaxFailures]]
    <3> DEFINE charged == [m \in Msgs |-> IF Charged(s, active[s], m) < MaxFailures
                                          THEN Charged(s, active[s], m) ELSE MaxFailures]
    <3>1. charged \in [Msgs -> 0..MaxFailures]
      BY <2>1 DEF MaxFailures
    <3>2. fails' = [fails EXCEPT ![s] = charged]
      BY <1>7 DEF FailBatch
    <3> HIDE DEF charged
    <3> QED BY <3>1, <3>2 DEF TypeOK
  <2>3. paused' \in [Slots -> BOOLEAN]
    BY <1>7 DEF FailBatch, TypeOK
  <2> QED BY <1>7, <2>2, <2>3 DEF FailBatch, TypeOK
<1>8. ASSUME NEW M \in SUBSET Msgs, ObserveMessages(s, active[s], M)
      PROVE  TypeOK'
  <2> DEFINE seen == active[s].observed \cup (M \ BatchMsgs(active[s]))
  <2>1. active' = [active EXCEPT ![s].observed = seen]
    BY <1>8 DEF ObserveMessages
  <2>2. seen \in SUBSET Msgs
    BY DEF TypeOK, Batch
  <2> HIDE DEF seen
  <2>3. active[s] \in Batch
    BY DEF TypeOK
  <2>4. [active[s] EXCEPT !.observed = seen] \in Batch
    BY <2>2, <2>3 DEF Batch
  <2>5. active' = [active EXCEPT ![s] = [active[s] EXCEPT !.observed = seen]]
    BY <2>1, <2>3
  <2>6. active' \in [Slots -> Batch]
    BY <2>4, <2>5 DEF TypeOK
  <2> QED BY <1>8, <2>6 DEF ObserveMessages, TypeOK
<1> QED BY <1>1, <1>2, <1>3, <1>4, <1>5, <1>6, <1>7, <1>8 DEF Draining

\* Cancellation, interruption, pause, runtime constraints, the restart gate and
\* removal keep every type.
LEMMA ControllingType ==
  ASSUME TypeOK, NEW s \in Slots, Controlling(s)
  PROVE  TypeOK'
<1> USE WithStateType, DequeueType, VacateType, ForgetType, States
<1>1. CASE CancelBatch(s, active[s])
  BY <1>1 DEF CancelBatch, TypeOK
<1>2. CASE InterruptBatch(s, active[s])
  <2>1. active[s].op \in Nat
    BY DEF TypeOK, Batch
  <2> QED BY <1>2, <2>1 DEF InterruptBatch, TypeOK
<1>3. ASSUME NEW m \in Msgs, DiscardQueuedExcept(s, m)
      PROVE  TypeOK'
  BY <1>3 DEF DiscardQueuedExcept, TypeOK
<1>4. CASE PauseSlot(s)
  BY <1>4 DEF PauseSlot, TypeOK
<1>5. ASSUME NEW k \in Kinds, SetConstraint(s, [kind |-> k, op |-> 0])
      PROVE  TypeOK'
  <2> DEFINE c == [kind |-> k, op |-> 0]
             back == {i \in LiveOf(s) : c.kind = "Failed" /\ intents[i].run = NoRun}
  <2>1. rt' \in [Slots -> Constraint]
    BY <1>5 DEF SetConstraint, TypeOK, Constraint
  <2>2. CASE c.kind \in {"Failed", "SessionStopped"}
    <3>1. intents' \in Seq(Intent)
      <4>1. \A i \in Ids : intents[i] \in Intent
        BY DEF TypeOK, Ids
      <4>2. intents' = [i \in Ids |->
              IF i \in back THEN [intents[i] EXCEPT !.state = "queued"]
              ELSE IF i \in LiveOf(s)
                   THEN [intents[i] EXCEPT !.state = IF c.kind = "Failed" THEN "failed" ELSE "cancelled"]
                   ELSE intents[i]]
        BY <1>5, <2>2 DEF SetConstraint
      <4>3. \A i \in Ids : /\ [intents[i] EXCEPT !.state = "queued"] \in Intent
                           /\ [intents[i] EXCEPT !.state = "failed"] \in Intent
                           /\ [intents[i] EXCEPT !.state = "cancelled"] \in Intent
        BY <4>1 DEF Intent, Terminal
      <4> HIDE DEF back
      <4>4. intents' \in [Ids -> Intent]
        BY <4>1, <4>2, <4>3
      <4> QED BY <4>4, IdsType
    <3>2. PICK f \in Orders(back) :
            lane' = [lane EXCEPT ![s] = [p \in Lanes |->
                       Pick(f, {j \in DOMAIN f : PrioOf(f[j]) = p})]]
      BY <1>5, <2>2 DEF SetConstraint
    <3>3. f \in Seq(Nat)
      <4>1. back \in SUBSET Ids
        BY DEF LiveOf
      <4> HIDE DEF back
      <4> QED BY <4>1, IdsFinite, OrdersType
    <3>4. \A p \in Lanes : Pick(f, {j \in DOMAIN f : PrioOf(f[j]) = p}) \in Seq(Nat)
      BY <3>3, PickElements
    <3>5. lane' \in [Slots -> [Lanes -> Seq(Nat)]]
      BY <3>2, <3>4 DEF TypeOK
    <3>6. active' \in [Slots -> Batch]
      BY <1>5, <2>2 DEF SetConstraint
    <3> QED BY <1>5, <2>1, <3>1, <3>5, <3>6 DEF SetConstraint, TypeOK
  <2>3. CASE c.kind \notin {"Failed", "SessionStopped"}
    BY <1>5, <2>1, <2>3 DEF SetConstraint, TypeOK
  <2> QED BY <2>2, <2>3
<1>6. ASSUME NEW allowQueued \in BOOLEAN, BeginRestart(s, allowQueued)
      PROVE  TypeOK'
  BY <1>6 DEF BeginRestart, TypeOK, Constraint, Kinds
<1>7. ASSUME NEW op \in 1..opId, NEW k \in {"Ready", "Starting", "Failed"},
             AbortRestart(s, op, [kind |-> k, op |-> 0])
      PROVE  TypeOK'
  <2>1. [kind |-> k, op |-> 0] \in Constraint
    BY DEF Constraint, Kinds
  <2> QED BY <1>7, <2>1 DEF AbortRestart, TypeOK
<1>8. CASE RemoveSlot(s)
  <2>1. Empty \in [Lanes -> Seq(Nat)]
    BY DEF Empty
  <2>2. lane' \in [Slots -> [Lanes -> Seq(Nat)]]
    BY <1>8, <2>1 DEF RemoveSlot, TypeOK
  <2> QED BY <1>8, <2>2 DEF RemoveSlot, TypeOK
<1> QED BY <1>1, <1>2, <1>3, <1>4, <1>5, <1>6, <1>7, <1>8 DEF Controlling

\* cancel_run, over all slots at once, keeps every type.
LEMMA CancelRunType ==
  ASSUME TypeOK, NEW r \in Runs, CancelRun(r)
  PROVE  TypeOK'
<1>1. intents' \in Seq(Intent)
  <2>1. \A i \in Ids : intents[i] \in Intent
    BY DEF TypeOK, Ids
  <2>2. \A i \in Ids : /\ [intents[i] EXCEPT !.state = "queued"] \in Intent
                       /\ [intents[i] EXCEPT !.state = "cancelled"] \in Intent
    BY <2>1 DEF Intent, Terminal
  <2>3. intents' \in [Ids -> Intent]
    BY <2>1, <2>2 DEF CancelRun
  <2> QED BY <2>3, IdsType
<1>2. active' \in [Slots -> Batch]
  BY NoBatchType DEF CancelRun, TypeOK
<1>3. lane' \in [Slots -> [Lanes -> Seq(Nat)]]
  <2> DEFINE back(s, p) == IF s \in HitBy(r)
               THEN {k \in DOMAIN active[s].ids : intents[active[s].ids[k]].run # r
                                                    /\ PrioOf(active[s].ids[k]) = p}
               ELSE {}
  <2>1. lane' = [s \in Slots |-> [p \in Lanes |->
                   Pick(active[s].ids, back(s, p)) \o Without(lane[s][p], EndedBy(r))]]
    BY DEF CancelRun
  <2>2. ASSUME NEW s \in Slots, NEW p \in Lanes
        PROVE  Pick(active[s].ids, back(s, p)) \o Without(lane[s][p], EndedBy(r)) \in Seq(Nat)
    <3>1. active[s].ids \in Seq(Nat) /\ lane[s][p] \in Seq(Nat)
      BY DEF TypeOK, Batch
    <3>2. back(s, p) \in SUBSET DOMAIN active[s].ids
      OBVIOUS
    <3>3. Pick(active[s].ids, back(s, p)) \in Seq(Nat)
      BY <3>1, <3>2, PickElements
    <3>4. Without(lane[s][p], EndedBy(r)) \in Seq(Nat)
      BY <3>1, WithoutElements
    <3> HIDE DEF back
    <3> QED BY <3>3, <3>4
  <2> HIDE DEF back
  <2> QED BY <2>1, <2>2
<1> QED BY <1>1, <1>2, <1>3 DEF CancelRun, TypeOK

\* stop() keeps every type.
LEMMA StopType ==
  ASSUME TypeOK, Stop
  PROVE  TypeOK'
<1>1. intents' \in Seq(Intent)
  BY WithStateType, States DEF Stop
<1>2. lane' \in [Slots -> [Lanes -> Seq(Nat)]]
  BY DEF Stop, Empty
<1>3. active' \in [Slots -> Batch] /\ rt' \in [Slots -> Constraint]
  BY NoBatchType DEF Stop, Constraint, Kinds
<1> QED BY <1>1, <1>2, <1>3 DEF Stop, TypeOK

\* A fresh coordinator is well typed.
LEMMA InitType == Init => TypeOK
<1> SUFFICES ASSUME Init  PROVE TypeOK
  OBVIOUS
<1>1. intents \in Seq(Intent) /\ lane \in [Slots -> [Lanes -> Seq(Nat)]]
  BY DEF Init
<1>2. active \in [Slots -> Batch] /\ rt \in [Slots -> Constraint]
  BY NoBatchType DEF Init, Constraint, Kinds
<1>3. fails \in [Slots -> [Msgs -> 0..MaxFailures]]
  BY DEF Init, MaxFailures
<1> QED BY <1>1, <1>2, <1>3 DEF Init, TypeOK

\* Every method of the coordinator keeps every type.
LEMMA NextType == TypeOK /\ [Next]_cvars => TypeOK'
<1> SUFFICES ASSUME TypeOK, [Next]_cvars  PROVE TypeOK'
  OBVIOUS
<1>1. CASE Enqueueing
  BY <1>1, EnqueueingType
<1>2. ASSUME NEW s \in Slots, Draining(s)  PROVE TypeOK'
  BY <1>2, DrainingType
<1>3. ASSUME NEW s \in Slots, Controlling(s)  PROVE TypeOK'
  BY <1>3, ControllingType
<1>4. ASSUME NEW o \in interrupted, TakeInterruptMetadata([NoBatch EXCEPT !.op = o])  PROVE TypeOK'
  BY <1>4 DEF TakeInterruptMetadata, TypeOK
<1>5. ASSUME NEW r \in Runs, CancelRun(r)  PROVE TypeOK'
  BY <1>5, CancelRunType
<1>6. CASE Stop
  BY <1>6, StopType
<1>7. CASE UNCHANGED cvars
  BY <1>7 DEF cvars, TypeOK
<1> QED BY <1>1, <1>2, <1>3, <1>4, <1>5, <1>6, <1>7 DEF Next

\* Whatever methods the rest of the session calls, in any order and from any
\* number of threads, the coordinator's state keeps its shape; in particular no
\* failure count passes the limit at which its row is given up.
THEOREM TypeCorrect == Spec => []TypeOK
BY InitType, NextType, PTL DEF Spec
=============================================================================
