---------------------------- MODULE TeamLoopProofs ----------------------------
(***************************************************************************)
(* Theorems about the event loops, the callers and the coordinator between *)
(* them, for any number of slots, callers and rows and any set of faults.  *)
(*                                                                         *)
(* First, the calls that loops and callers make are calls the coordinator  *)
(* was proved correct for: LoopSpec implements TeamWork's Spec, although   *)
(* an actor hands in a copy of a batch, a snapshot of the unread rows or a *)
(* set of ids that it took several steps earlier.  What makes the copies   *)
(* harmless is the invariant Copies: while the op of a copy still owns the *)
(* slot, the ids and the priority in the copy are those of the owner.      *)
(***************************************************************************)
EXTENDS TeamLoop, TeamWorkPool

-----------------------------------------------------------------------------
(* What any method of the coordinator leaves alone *)

\* Op ids only grow, and a slot's batch keeps its ids and its lane until it is
\* gone; a batch that takes its place has an op id never issued before.
Ebb == /\ opId <= opId'
       /\ \A s \in Slots :
            /\ active'[s].op <= opId'
            /\ \/ active'[s].op = 0
               \/ /\ active'[s].op = active[s].op
                  /\ active'[s].ids = active[s].ids /\ active'[s].prio = active[s].prio
               \/ active'[s].op > opId

OpsIssued == \A s \in Slots : active[s].op <= opId

\* A step that leaves each batch alone, but for its turn and its observed rows, or ends it.
LEMMA EbbsByEnding ==
  ASSUME TypeOK, OpsIssued, opId <= opId', opId' \in Nat,
         \A s \in Slots : \/ active'[s] = NoBatch
                          \/ /\ active'[s].op = active[s].op
                             /\ active'[s].ids = active[s].ids /\ active'[s].prio = active[s].prio
  PROVE  Ebb
<1>1. \A s \in Slots : active[s].op \in Nat /\ opId \in Nat
  BY DEF TypeOK, Batch
<1> QED BY <1>1 DEF Ebb, OpsIssued, NoBatch

\* The same when the batches are exactly the old ones but for one slot's.
LEMMA EbbsIfVacated ==
  ASSUME TypeOK, OpsIssued, opId' = opId, NEW s \in Slots, active' = Vacate(s)
  PROVE  Ebb
<1>1. \A t \in Slots : active'[t] = IF t = s THEN NoBatch ELSE active[t]
  BY DEF TypeOK, Vacate
<1>2. opId \in Nat
  BY DEF TypeOK
<1> QED BY <1>1, <1>2, EbbsByEnding

LEMMA EbbsIfKept ==
  ASSUME TypeOK, OpsIssued, opId <= opId', opId' \in Nat, active' = active
  PROVE  Ebb
BY EbbsByEnding

\* Every method of the coordinator ebbs.
LEMMA Ebbs ==
  ASSUME TypeOK, OpsIssued, [Next]_cvars
  PROVE  Ebb
<1>a. opId \in Nat /\ \A s \in Slots : active[s] \in Batch
  BY DEF TypeOK
<1>b. ASSUME UNCHANGED <<active, opId>>  PROVE Ebb
  BY <1>a, <1>b, EbbsIfKept
<1>1. CASE Enqueueing
  BY <1>1, <1>b DEF Enqueueing, AcquireEnqueue, CommitEnqueue, AbortEnqueue
<1>2. ASSUME NEW s \in Slots, Draining(s)  PROVE Ebb
  <2>1. CASE UNCHANGED <<active, opId>>
    BY <2>1, <1>b
  <2>2. CASE Claim(s)
    <3>1. opId' = opId + 1 /\ \E ids, p : active' = [active EXCEPT ![s] = [op |-> opId + 1, ids |-> ids, prio |-> p,
                                               turn |-> FALSE, observed |-> {}]]
      BY <2>2 DEF Claim
    <3>2. active'[s].op = opId + 1 /\ \A t \in Slots : t # s => active'[t] = active[t]
      BY <3>1 DEF TypeOK
    <3> QED BY <1>a, <3>1, <3>2 DEF Ebb, OpsIssued, Batch
  <2>3. CASE MarkStarted(s, active[s])
    <3>1. opId' = opId /\ \A t \in Slots : /\ active'[t].op = active[t].op /\ active'[t].ids = active[t].ids
                                           /\ active'[t].prio = active[t].prio
      BY <2>3 DEF MarkStarted, TypeOK, Batch
    <3> QED BY <1>a, <3>1, EbbsByEnding
  <2>4. CASE \E M \in SUBSET Msgs : ObserveMessages(s, active[s], M)
    <3>1. opId' = opId /\ \A t \in Slots : /\ active'[t].op = active[t].op /\ active'[t].ids = active[t].ids
                                           /\ active'[t].prio = active[t].prio
      BY <2>4 DEF ObserveMessages, TypeOK, Batch
    <3> QED BY <1>a, <3>1, EbbsByEnding
  <2>5. CASE opId' = opId /\ active' = Vacate(s)
    BY <2>5, EbbsIfVacated
  <2> QED BY <1>2, <2>1, <2>2, <2>3, <2>4, <2>5
          DEF Draining, ReconcileMailbox, CompleteSignals, RetryStart, CompleteBatch, FailBatch
<1>3. ASSUME NEW s \in Slots, Controlling(s)  PROVE Ebb
  <2>1. CASE active' = active /\ opId' \in {opId, opId + 1}
    BY <1>a, <2>1, EbbsIfKept
  <2>2. CASE opId' = opId /\ active' = Vacate(s)
    BY <2>2, EbbsIfVacated
  <2> QED BY <1>3, <2>1, <2>2
          DEF Controlling, CancelBatch, InterruptBatch, DiscardQueuedExcept, PauseSlot, SetConstraint,
              BeginRestart, AbortRestart, RemoveSlot
<1>4. ASSUME NEW o \in interrupted, TakeInterruptMetadata([NoBatch EXCEPT !.op = o])  PROVE Ebb
  BY <1>4, <1>b DEF TakeInterruptMetadata
<1>5. ASSUME NEW r \in Runs, CancelRun(r)  PROVE Ebb
  <2>1. opId' = opId /\ \A s \in Slots : active'[s] \in {NoBatch, active[s]}
    BY <1>5 DEF CancelRun
  <2> QED BY <1>a, <2>1, EbbsByEnding
<1>6. CASE Stop
  <2>1. opId' = opId /\ \A s \in Slots : active'[s] = NoBatch
    BY <1>6 DEF Stop
  <2> QED BY <1>a, <2>1, EbbsByEnding
<1>7. CASE UNCHANGED cvars
  BY <1>7, <1>b DEF cvars
<1> QED BY <1>1, <1>2, <1>3, <1>4, <1>5, <1>6, <1>7 DEF Next

-----------------------------------------------------------------------------
(* Callers and loops call the coordinator as its general client may *)

\* What the holder of b, a copy of a batch of slot s, knows about it.
Copy(s, b) == b.op <= opId /\ (IsCurrent(s, b) => b.ids = active[s].ids /\ b.prio = active[s].prio)

Copies == /\ \A s \in Slots : Copy(s, loop[s].batch)
          /\ \A c \in Callers : Copy(call[c].slot, call[c].before)

\* The snapshot of a loop lists no row twice, and the signals it found exist.
Snapshots == \A s \in Slots : IsInjective(loop[s].unread) /\ loop[s].ids \subseteq Ids

\* A call that has yet to take its lease has a source its instance uses.
Sourced == \A c \in Callers : call[c].pc \in {"captured", "posted", "found"} => call[c].source \in Sources

\* A copy that is current does what the batch itself would do.
LEMMA CopyActs ==
  ASSUME NEW s, NEW b, Copy(s, b), IsCurrent(s, b)
  PROVE  /\ IsCurrent(s, active[s])
         /\ MarkStarted(s, b) => MarkStarted(s, active[s])
         /\ RetryStart(s, b) => RetryStart(s, active[s])
         /\ CompleteBatch(s, b) => CompleteBatch(s, active[s])
         /\ FailBatch(s, b) => FailBatch(s, active[s])
         /\ CancelBatch(s, b) => CancelBatch(s, active[s])
         /\ InterruptBatch(s, b) => InterruptBatch(s, active[s])
         /\ BatchMsgs(b) = BatchMsgs(active[s]) /\ Exhausted(s, b) = Exhausted(s, active[s])
<1>1. b.op = active[s].op /\ b.ids = active[s].ids /\ b.prio = active[s].prio /\ b.op # 0
  BY DEF Copy, IsCurrent
<1>2. IsCurrent(s, active[s]) /\ BatchMsgs(b) = BatchMsgs(active[s])
  BY <1>1 DEF IsCurrent, BatchMsgs
<1>3. \A m : Charged(s, b, m) = Charged(s, active[s], m)
  BY <1>1 DEF Charged
<1>4. Exhausted(s, b) = Exhausted(s, active[s])
  BY <1>2, <1>3 DEF Exhausted
<1>5. FailBatch(s, b) => FailBatch(s, active[s])
  <2>1. [m \in Msgs |-> IF Charged(s, b, m) < MaxFailures THEN Charged(s, b, m) ELSE MaxFailures]
          = [m \in Msgs |-> IF Charged(s, active[s], m) < MaxFailures THEN Charged(s, active[s], m) ELSE MaxFailures]
    BY <1>3
  <2> QED BY <1>1, <1>2, <1>4, <2>1 DEF FailBatch
<1>6. /\ MarkStarted(s, b) => MarkStarted(s, active[s])
      /\ RetryStart(s, b) => RetryStart(s, active[s])
      /\ CompleteBatch(s, b) => CompleteBatch(s, active[s])
  BY <1>1, <1>2 DEF MarkStarted, RetryStart, CompleteBatch
<1>7. CancelBatch(s, b) => CancelBatch(s, active[s])
  BY <1>1, <1>2 DEF CancelBatch
<1>8. InterruptBatch(s, b) => InterruptBatch(s, active[s])
  BY <1>1, <1>2 DEF InterruptBatch
<1> QED BY <1>2, <1>4, <1>5, <1>6, <1>7, <1>8

\* Giving a lease back, if it is still there.
LEMMA ReleaseRefines ==
  ASSUME NEW c, ReleaseLease(c)
  PROVE  [Next]_cvars
BY DEF ReleaseLease, Next, Enqueueing

\* A caller takes leases with its own source, and cancels copies that are current.
LEMMA CallRefines ==
  ASSUME TypeOK, call \in [Callers -> CallRec], Copies, Sourced, NEW c \in Callers, CallStep(c)
  PROVE  [Next]_cvars
<1>a. c \in Msgs /\ \A x \in Calls : x.source \in Sources /\ x.kind \in CallKinds
  BY CallersAssumption, CallsAssumption
<1>b. call[c].slot \in Slots /\ Copy(call[c].slot, call[c].before)
  BY DEF CallRec, Copies
<1>c. ASSUME UNCHANGED cvars  PROVE [Next]_cvars
  BY <1>c
<1>d. \A s \in Slots, src \in Sources, r \in Runs : AcquireEnqueue(c, s, src, r) => Next
  BY DEF Next, Enqueueing
<1>e. \A l \in leases, m \in Msgs \cup {NoMsg} : CommitEnqueue(l, m) => Next
  BY DEF Next, Enqueueing
<1>1. CASE CallAcquire(c)
  BY <1>1, <1>a, <1>d DEF CallAcquire
<1>2. CASE CallAcquireReplacement(c)
  BY <1>2, <1>b, <1>d DEF CallAcquireReplacement, At, Sourced
<1>3. CASE CallAcquireForRow(c)
  BY <1>3, <1>b, <1>c, <1>d DEF CallAcquireForRow, At, Sourced
<1>4. CASE CallCommit(c)
  BY <1>4, <1>a, <1>e DEF CallCommit
<1>5. CASE CallCommitSignal(c)
  BY <1>5, <1>e, ReleaseRefines DEF CallCommitSignal
<1>6. CASE CallWriteFails(c) \/ CallRejected(c)
  BY <1>6, ReleaseRefines DEF CallWriteFails, CallRejected
<1>7. CASE CallRetire(c)
  <2> DEFINE s == call[c].slot
             b == call[c].before
  <2>1. CASE ~IsCurrent(s, b)
    BY <1>7, <2>1, <1>c DEF CallRetire
  <2>2. CASE IsCurrent(s, b)
    <3>1. CancelBatch(s, b) \/ InterruptBatch(s, b)
      BY <1>7, <2>2 DEF CallRetire
    <3>2. CancelBatch(s, active[s]) \/ InterruptBatch(s, active[s])
      BY <1>b, <2>2, <3>1, CopyActs
    <3> QED BY <1>b, <3>2 DEF Next, Controlling
  <2> QED BY <2>1, <2>2
<1>8. CASE CallTakeMetadata(c)
  <2>1. ASSUME TakeInterruptMetadata(call[c].before)  PROVE Next
    <3>1. call[c].before.op \in interrupted /\ TakeInterruptMetadata([NoBatch EXCEPT !.op = call[c].before.op])
      BY <2>1 DEF TakeInterruptMetadata, NoBatch
    <3> QED BY <3>1 DEF Next
  <2> QED BY <1>8, <1>c, <2>1 DEF CallTakeMetadata
<1>9. CASE CallSupersede(c)
  BY <1>9, <1>a, <1>b, <1>c DEF CallSupersede, Next, Controlling
<1>10. CASE CallRetireActive(c)
  BY <1>10, <1>c DEF CallRetireActive, Next, Controlling
<1>11. CASE CallCancelRun(c)
  BY <1>11 DEF CallCancelRun, Next
<1>12. CASE \/ CallCapture(c) \/ CallPost(c) \/ CallFindRow(c) \/ CallWriteRow(c) \/ CallSenderGone(c)
            \/ CallSettleRow(c) \/ CallNotify(c) \/ CallCheckActive(c) \/ CallCancelTurn(c) \/ CallCancelFails(c)
            \/ CallMarkRead(c) \/ CallMarkReadFails(c) \/ CallMarkDiscarded(c) \/ CallCancelRunTurns(c)
  BY <1>12, <1>c DEF CallCapture, CallPost, CallFindRow, CallWriteRow, CallSenderGone,
       CallSettleRow, CallNotify, CallCheckActive, CallCancelTurn, CallCancelFails,
       CallMarkRead, CallMarkReadFails, CallMarkDiscarded, CallCancelRunTurns
<1> QED BY <1>1, <1>2, <1>3, <1>4, <1>5, <1>6, <1>7, <1>8, <1>9, <1>10, <1>11, <1>12 DEF CallStep

\* A snapshot of distinct rows is one of the orders reconciliation may be given.
LEMMA SnapshotIsRows ==
  ASSUME NEW q \in Seq(Msgs), IsInjective(q)
  PROVE  q \in Rows(Msgs)
<1> DEFINE n == Len(q)
<1>1. IsFiniteSet(Range(q)) /\ Cardinality(Range(q)) = n /\ n \in Nat /\ DOMAIN q = 1..n
  BY LengthCounts, LenProperties
<1>a. q \in [1..n -> Msgs]
  BY <1>1
<1> HIDE DEF n
<1>2. Range(q) \in SUBSET Msgs
  BY <1>a DEF Range
<1>3. q \in [1..n -> Range(q)] /\ q \in Surjection(1..n, Range(q))
  BY <1>a DEF Surjection, Range
<1>4. q \in Bijection(1..n, Range(q))
  BY <1>a, <1>3 DEF Bijection, Injection, IsInjective
<1> QED BY <1>1, <1>2, <1>4 DEF Rows, Orders

\* A loop reconciles with a snapshot of distinct rows, settles signals it found queued,
\* and uses the batch it claimed only while that is current.
LEMMA LoopRefines ==
  ASSUME Whole, loop \in [Slots -> LoopRec], Copies, Snapshots, NEW s \in Slots, LoopStep(s)
  PROVE  [Next]_cvars
<1> DEFINE b == loop[s].batch
<1>a. Copy(s, b)
  BY DEF Copies
<1>b. ASSUME UNCHANGED cvars  PROVE [Next]_cvars
  BY <1>b
<1>c. ASSUME TakeInterruptMetadata(b)  PROVE Next
  <2>1. b.op \in interrupted /\ TakeInterruptMetadata([NoBatch EXCEPT !.op = b.op])
    BY <1>c DEF TakeInterruptMetadata, NoBatch
  <2> QED BY <2>1 DEF Next
<1>d. ASSUME Draining(s) \/ Controlling(s)  PROVE Next
  BY <1>d DEF Next
<1>1. CASE LoopPublish(s)
  BY <1>1, <1>d DEF LoopPublish, Controlling, Kinds, Ready
<1>2. CASE LoopReconcile(s)
  <2>1. loop[s].unread \in Rows(Msgs)
    BY SnapshotIsRows DEF Snapshots, LoopRec
  <2>2. ReconcileMailbox(s, loop[s].unread, loop[s].cand \cap QueuedIn(s))
    <3>1. StaleIntents(s, loop[s].unread, loop[s].cand \cap QueuedIn(s))
            = StaleIntents(s, loop[s].unread, loop[s].cand)
      BY DEF StaleIntents
    <3> QED BY <1>2, <3>1 DEF LoopReconcile, ReconcileMailbox
  <2> QED BY <1>d, <2>1, <2>2 DEF Draining
<1>3. CASE LoopClaim(s)
  BY <1>3, <1>d DEF LoopClaim, Draining
<1>4. CASE LoopSettlesSignals(s)
  <2>1. ASSUME CompleteSignals(s, loop[s].ids)  PROVE loop[s].ids \in SUBSET QueuedIn(s)
    BY <2>1, WholeReads DEF CompleteSignals, Snapshots, ReadOff, InLanes
  <2> QED BY <1>4, <1>b, <1>d, <2>1 DEF LoopSettlesSignals, Draining
<1>5. CASE LoopReread(s) \/ TurnSkipped(s)
  <2>1. CASE RetryStart(s, b)
    BY <2>1, <1>a, <1>d, CopyActs DEF Draining, RetryStart
  <2> QED BY <1>5, <1>b, <2>1 DEF LoopReread, TurnSkipped
<1>6. CASE TurnStarts(s)
  <2>1. CASE MarkStarted(s, b)
    BY <2>1, <1>a, <1>d, CopyActs DEF Draining, MarkStarted
  <2> QED BY <1>6, <1>b, <2>1 DEF TurnStarts
<1>7. CASE LateCancelTurn(s) \/ TurnErrs(s)
  BY <1>7, <1>b, <1>c DEF LateCancelTurn, TurnErrs
<1>8. CASE LateCancelBatch(s)
  <2>1. CASE CancelBatch(s, b)
    BY <2>1, <1>a, <1>d, CopyActs DEF Controlling, CancelBatch
  <2> QED BY <1>8, <1>b, <2>1 DEF LateCancelBatch
<1>9. CASE LoopCompletes(s)
  <2>1. CASE CompleteBatch(s, b)
    BY <2>1, <1>a, <1>d, CopyActs DEF Draining, CompleteBatch
  <2> QED BY <1>9, <1>b, <2>1 DEF LoopCompletes
<1>10. CASE LoopFails(s)
  <2>1. CASE FailBatch(s, b)
    BY <2>1, <1>a, <1>d, CopyActs DEF Draining, FailBatch
  <2> QED BY <1>10, <1>b, <2>1 DEF LoopFails
<1>11. CASE \/ LoopWake(s) \/ LoopCandidates(s) \/ LoopPeek(s) \/ LoopFindsSignals(s) \/ LoopRests(s)
            \/ LoopPromptFails(s) \/ TurnEnds(s) \/ LoopMarksRead(s)
  BY <1>11, <1>b DEF LoopWake, LoopCandidates, LoopPeek, LoopFindsSignals, LoopRests, LoopPromptFails,
                     TurnEnds, LoopMarksRead
<1> QED BY <1>1, <1>2, <1>3, <1>4, <1>5, <1>6, <1>7, <1>8, <1>9, <1>10, <1>11 DEF LoopStep

\* What the agent read is bound to the batch it read for, or to none.
LEMMA AgentRefines ==
  ASSUME peeked \in [Slots -> PeekRec], NEW s \in Slots, AgentReads(s)
  PROVE  [Next]_cvars
<1>1. CASE AgentCaptures(s) \/ AgentPeeks(s)
  BY <1>1 DEF AgentCaptures, AgentPeeks
<1>2. CASE AgentObserves(s)
  <2> DEFINE b == [NoBatch EXCEPT !.op = peeked[s].op]
  <2>1. ASSUME ObserveMessages(s, b, peeked[s].rows)  PROVE Next
    <3>1. ObserveMessages(s, active[s], peeked[s].rows)
      BY <2>1 DEF ObserveMessages, IsCurrent
    <3>2. peeked[s].rows \in SUBSET Msgs
      BY DEF PeekRec
    <3> QED BY <3>1, <3>2 DEF Next, Draining
  <2> QED BY <1>2, <2>1 DEF AgentObserves
<1> QED BY <1>1, <1>2 DEF AgentReads

-----------------------------------------------------------------------------
(* The shapes of the actors' own state *)

Locals ==
  /\ inbox \in [Slots -> Seq(Msgs)] /\ readRows \subseteq Msgs
  /\ permit \in [Slots -> BOOLEAN]
  /\ loop \in [Slots -> LoopRec]
  /\ turn \in [Slots -> {"none", "running", "cancelled"}]
  /\ peeked \in [Slots -> PeekRec]
  /\ call \in [Callers -> CallRec]
  /\ acked \subseteq Msgs /\ tries \in [Msgs -> Nat] /\ orphaned \subseteq Nat

\* What every step of caller c leaves alone.
CallFrame(c) ==
  /\ call' \in [Callers -> CallRec]
  /\ \A d \in Callers : d # c => call'[d] = call[d]
  /\ call[c].pc # "idle" => /\ call'[c].kind = call[c].kind /\ call'[c].source = call[c].source
                            /\ call'[c].slot = call[c].slot /\ call'[c].before = call[c].before

\* Moving on to another await point.
LEMMA GotoFrame ==
  ASSUME call \in [Callers -> CallRec], NEW c \in Callers, NEW pc \in CallPcs, Goto(c, pc)
  PROVE  /\ CallFrame(c) /\ call'[c].pc = pc /\ call'[c].rows = call[c].rows
         /\ call'[c].kind = call[c].kind /\ call'[c].source = call[c].source
         /\ call'[c].slot = call[c].slot /\ call'[c].before = call[c].before
<1>1. call[c] \in CallRec
  OBVIOUS
<1>2. [call[c] EXCEPT !.pc = pc] \in CallRec
  BY <1>1 DEF CallRec
<1>3. call' = [call EXCEPT ![c] = [call[c] EXCEPT !.pc = pc]]
  BY DEF Goto
<1> QED BY <1>1, <1>2, <1>3 DEF CallFrame, CallRec

\* Moving on with a set of rows to settle.
LEMMA GotoRows ==
  ASSUME call \in [Callers -> CallRec], NEW c \in Callers, NEW pc \in CallPcs, NEW R \in SUBSET Msgs,
         call' = [call EXCEPT ![c].pc = pc, ![c].rows = R]
  PROVE  /\ CallFrame(c) /\ call'[c].pc = pc /\ call'[c].rows = R
<1>1. call[c] \in CallRec
  OBVIOUS
<1>2. [call[c] EXCEPT !.pc = pc, !.rows = R] \in CallRec
  BY <1>1 DEF CallRec
<1>3. call' = [call EXCEPT ![c] = [call[c] EXCEPT !.pc = pc, !.rows = R]]
  BY <1>1 DEF CallRec
<1> QED BY <1>1, <1>2, <1>3 DEF CallFrame, CallRec

\* Beginning a call.
LEMMA StartFrame ==
  ASSUME call \in [Callers -> CallRec], NEW c \in Callers, NEW x \in Calls, NEW s \in Slots,
         NEW pc \in CallPcs, NEW b \in Batch, call[c].pc = "idle", Start(c, x, s, pc, b)
  PROVE  /\ CallFrame(c) /\ call'[c].pc = pc /\ call'[c].rows = {}
         /\ call'[c].kind = x.kind /\ call'[c].source = x.source
         /\ call'[c].slot = s /\ call'[c].before = b
<1>1. x.kind \in CallKinds /\ x.source \in AllSources /\ NoHits \in [Slots -> Nat]
  BY CallsAssumption, SourcesAssumption DEF NoHits
<1>2. [pc |-> pc, kind |-> x.kind, source |-> x.source, slot |-> s,
       before |-> b, rows |-> {}, hits |-> NoHits] \in CallRec
  BY <1>1 DEF CallRec
<1> QED BY <1>2 DEF Start, CallFrame

\* The rows of the intents of the batch that owns a slot, and of any intents, are rows.
LEMMA RowsOfIntents ==
  ASSUME Whole
  PROVE  /\ \A s \in Slots : BatchMsgs(active[s]) \subseteq Msgs
         /\ \A S \in SUBSET Ids : {intents[i].msg : i \in S} \ {NoMsg} \subseteq Msgs
<1>1. \A i \in Ids : intents[i].msg \in Msgs \cup {NoMsg}
  BY OwnerTypes DEF Whole, Intent
<1>2. ASSUME NEW s \in Slots, NEW k \in DOMAIN active[s].ids
      PROVE  intents[active[s].ids[k]].msg \in Msgs
  <2>1. active[s].ids[k] \in InTurn(s)
    BY DEF Whole, OwnedExactly, BatchesExact, Range
  <2>2. active[s].ids[k] \in Ids /\ intents[active[s].ids[k]].msg # NoMsg
    BY <2>1 DEF Whole, OwnedExactly, BatchesExact, InTurn
  <2> QED BY <1>1, <2>2
<1> QED BY <1>1, <1>2 DEF BatchMsgs

\* Every step of a caller keeps the shapes, and what belongs to the others.
LEMMA CallShapes ==
  ASSUME Whole, Locals, Copies, NEW c \in Callers, CallStep(c)
  PROVE  Locals' /\ CallFrame(c) /\ UNCHANGED <<loop, peeked, acked, orphaned>> /\ readRows \subseteq readRows'
<1>a. c \in Msgs /\ call[c] \in CallRec /\ call \in [Callers -> CallRec]
  BY CallersAssumption DEF Locals
<1>b. call[c].slot \in Slots /\ call[c].rows \subseteq Msgs
  BY <1>a DEF CallRec
<1>c. NoBatch \in Batch /\ \A s \in Slots : active[s] \in Batch
  BY NoBatchType DEF Whole, TypeOK
<1> SUFFICES CallFrame(c) /\ /\ UNCHANGED <<loop, peeked, acked, orphaned>>
                             /\ inbox' \in [Slots -> Seq(Msgs)] /\ readRows' \subseteq Msgs /\ readRows \subseteq readRows'
                             /\ permit' \in [Slots -> BOOLEAN] /\ tries' \in [Msgs -> Nat]
                             /\ turn' \in [Slots -> {"none", "running", "cancelled"}]
  BY DEF Locals, CallFrame
<1>1. UNCHANGED <<loop, peeked, acked, orphaned>>
  BY DEF CallStep, CallAcquire, CallCapture, CallAcquireReplacement, CallPost, CallFindRow,
       CallAcquireForRow, CallCommitSignal, CallWriteRow, CallWriteFails, CallSenderGone, CallCommit, CallRejected,
       CallSettleRow, CallNotify, CallCheckActive, CallCancelTurn, CallCancelFails,
       CallRetire, CallMarkRead, CallMarkReadFails, CallTakeMetadata, CallSupersede, CallMarkDiscarded,
       CallRetireActive, CallCancelRun, CallCancelRunTurns
<1>2. inbox' \in [Slots -> Seq(Msgs)]
  <2>1. \A s \in Slots : inbox' = [inbox EXCEPT ![s] = Append(@, c)] => inbox' \in [Slots -> Seq(Msgs)]
    BY <1>a DEF Locals
  <2>2. inbox' = inbox \/ \E s \in Slots : inbox' = [inbox EXCEPT ![s] = Append(@, c)]
    BY <1>b DEF CallStep, CallAcquire, CallCapture, CallAcquireReplacement, CallPost, CallFindRow,
       CallAcquireForRow, CallCommitSignal, CallWriteRow, CallWriteFails, CallSenderGone, CallCommit, CallRejected,
       CallSettleRow, CallNotify, CallCheckActive, CallCancelTurn, CallCancelFails,
       CallRetire, CallMarkRead, CallMarkReadFails, CallTakeMetadata, CallSupersede, CallMarkDiscarded,
       CallRetireActive, CallCancelRun, CallCancelRunTurns
  <2> QED BY <2>1, <2>2 DEF Locals
<1>3. readRows' \subseteq Msgs /\ readRows \subseteq readRows'
  <2>1. readRows' \in {readRows, readRows \cup {c}, readRows \cup call[c].rows}
    BY DEF CallStep, CallAcquire, CallCapture, CallAcquireReplacement, CallPost, CallFindRow,
       CallAcquireForRow, CallCommitSignal, CallWriteRow, CallWriteFails, CallSenderGone, CallCommit, CallRejected,
       CallSettleRow, CallNotify, CallCheckActive, CallCancelTurn, CallCancelFails,
       CallRetire, CallMarkRead, CallMarkReadFails, CallTakeMetadata, CallSupersede, CallMarkDiscarded,
       CallRetireActive, CallCancelRun, CallCancelRunTurns, MarkRead, MarkFails, MarkReadOrFail
  <2> QED BY <2>1, <1>a, <1>b DEF Locals
<1>4. permit' \in [Slots -> BOOLEAN]
  BY <1>b DEF Locals, CallStep, CallAcquire, CallCapture, CallAcquireReplacement, CallPost, CallFindRow,
       CallAcquireForRow, CallCommitSignal, CallWriteRow, CallWriteFails, CallSenderGone, CallCommit, CallRejected,
       CallSettleRow, CallNotify, CallCheckActive, CallCancelTurn, CallCancelFails,
       CallRetire, CallMarkRead, CallMarkReadFails, CallTakeMetadata, CallSupersede, CallMarkDiscarded,
       CallRetireActive, CallCancelRun, CallCancelRunTurns, Notify
<1>5. tries' \in [Msgs -> Nat]
  <2>1. tries' \in {tries, [m \in Msgs |-> IF m \in BatchMsgs(call[c].before) THEN 0 ELSE tries[m]]}
    BY DEF CallStep, CallAcquire, CallCapture, CallAcquireReplacement, CallPost, CallFindRow,
         CallAcquireForRow, CallCommitSignal, CallWriteRow, CallWriteFails, CallSenderGone, CallCommit, CallRejected,
         CallSettleRow, CallNotify, CallCheckActive, CallCancelTurn, CallCancelFails,
         CallRetire, CallMarkRead, CallMarkReadFails, CallTakeMetadata, CallSupersede, CallMarkDiscarded,
         CallRetireActive, CallCancelRun, CallCancelRunTurns
  <2>2. tries \in [Msgs -> Nat]
    BY DEF Locals
  <2> DEFINE f == [m \in Msgs |-> IF m \in BatchMsgs(call[c].before) THEN 0 ELSE tries[m]]
  <2>3. f \in [Msgs -> Nat]
    BY <2>2
  <2> QED BY <2>1, <2>2, <2>3
<1>6. turn' \in [Slots -> {"none", "running", "cancelled"}]
  BY <1>b DEF Locals, CallStep, CallAcquire, CallCapture, CallAcquireReplacement, CallPost, CallFindRow,
       CallAcquireForRow, CallCommitSignal, CallWriteRow, CallWriteFails, CallSenderGone, CallCommit, CallRejected,
       CallSettleRow, CallNotify, CallCheckActive, CallCancelTurn, CancelTurn, CallCancelFails,
       CallRetire, CallMarkRead, CallMarkReadFails, CallTakeMetadata, CallSupersede, CallMarkDiscarded,
       CallRetireActive, CallCancelRun, CallCancelRunTurns
<1>7. CallFrame(c)
  <2>a. ASSUME NEW pc \in CallPcs, Goto(c, pc)  PROVE CallFrame(c)
    BY <1>a, <2>a, GotoFrame
  <2>b. ASSUME NEW x \in Calls, NEW s \in Slots, NEW pc \in CallPcs, NEW b \in Batch,
               At(c, "idle"), Start(c, x, s, pc, b)
        PROVE  CallFrame(c)
    BY <1>a, <2>b, StartFrame DEF At
  <2>c. ASSUME NEW pc \in CallPcs, NEW R \in SUBSET Msgs, call' = [call EXCEPT ![c].pc = pc, ![c].rows = R]
        PROVE  CallFrame(c)
    BY <1>a, <2>c, GotoRows
  <2>d. {"idle", "captured", "posted", "found", "leased", "written", "rejected", "committed",
         "cancelturn", "cancelturns", "retire", "markread", "take", "supersede",
         "markdiscarded", "notify", "abandoned", "done"} = CallPcs
    BY DEF CallPcs
  <2>1. CASE CallAcquire(c)
    BY <2>1, <1>c, <2>b, <2>d DEF CallAcquire
  <2>2. CASE CallCapture(c)
    BY <2>2, <1>c, <2>b, <2>d DEF CallCapture
  <2>3. CASE CallPost(c)
    BY <2>3, <1>c, <2>b, <2>d DEF CallPost
  <2>4. CASE CallRetireActive(c)
    BY <2>4, <1>c, <2>b, <2>d DEF CallRetireActive
  <2>5. CASE CallAcquireReplacement(c) \/ CallFindRow(c) \/ CallAcquireForRow(c) \/ CallCommitSignal(c) \/ CallWriteRow(c)
    BY <2>5, <2>a, <2>d DEF CallAcquireReplacement, CallFindRow, CallAcquireForRow, CallCommitSignal, CallWriteRow
  <2>6. CASE CallWriteFails(c) \/ CallSenderGone(c) \/ CallCommit(c) \/ CallRejected(c) \/ CallSettleRow(c) \/ CallNotify(c)
    BY <2>6, <2>a, <2>d DEF CallWriteFails, CallSenderGone, CallCommit, CallRejected, CallSettleRow, CallNotify
  <2>7. CASE CallCheckActive(c) \/ CallCancelTurn(c) \/ CallCancelFails(c) \/ CallTakeMetadata(c) \/ CallCancelRunTurns(c)
    BY <2>7, <2>a, <2>d DEF CallCheckActive, CallCancelTurn, CallCancelFails, CallTakeMetadata, CallCancelRunTurns
  <2>8. CASE CallRetire(c)
    <3> DEFINE s == call[c].slot
               b == call[c].before
               R == IF IsCurrent(s, b) THEN BatchMsgs(b) ELSE {}
               p == IF call[c].kind \in Retiring THEN "done" ELSE IF IsCurrent(s, b) THEN "markread" ELSE "supersede"
    <3>1. R \in SUBSET Msgs
      BY <1>b, CopyActs, RowsOfIntents DEF Copies
    <3>2. p \in CallPcs /\ call' = [call EXCEPT ![c].pc = p, ![c].rows = R]
      BY <2>8, <2>d DEF CallRetire
    <3> HIDE DEF R, p
    <3> QED BY <2>c, <3>1, <3>2
  <2>9. CASE CallMarkRead(c)
    <3> DEFINE p == IF call[c].kind = "cancel" THEN "cancelturns"
                    ELSE IF call[c].before.turn THEN "take" ELSE "supersede"
    <3>1. p \in CallPcs
      BY <2>d
    <3>2. call' = [call EXCEPT ![c].rows = {}, ![c].pc = p]
      BY <2>9 DEF CallMarkRead
    <3> HIDE DEF p
    <3>3. call' = [call EXCEPT ![c].pc = p, ![c].rows = {}]
      BY <1>a, <3>2 DEF CallRec
    <3> QED BY <2>c, <3>1, <3>3
  <2>10. CASE CallMarkReadFails(c) \/ CallMarkDiscarded(c)
    BY <2>10, <2>c, <2>d DEF CallMarkReadFails, CallMarkDiscarded
  <2>11. CASE CallSupersede(c)
    <3>1. {intents[i].msg : i \in Discardable(call[c].slot, c)} \ {NoMsg} \in SUBSET Msgs
      <4>1. Discardable(call[c].slot, c) \in SUBSET Ids
        BY <1>b, WholeReads DEF Discardable, ReadOff, InLanes
      <4> QED BY <4>1, RowsOfIntents
    <3> QED BY <2>11, <2>a, <2>c, <2>d, <3>1 DEF CallSupersede
  <2>12. CASE CallCancelRun(c)
    <3>1. PICK x \in Calls, r \in Runs :
            call' = [call EXCEPT ![c].pc = "markread", ![c].kind = "cancel", ![c].source = x.source,
                     ![c].rows = {intents[i].msg : i \in EndedBy(r)} \ {NoMsg},
                     ![c].hits = [s \in Slots |-> IF s \in HitBy(r) /\ active[s].turn
                                                  THEN active[s].op ELSE 0]]
      BY <2>12 DEF CallCancelRun
    <3> DEFINE R == {intents[i].msg : i \in EndedBy(r)} \ {NoMsg}
               H == [s \in Slots |-> IF s \in HitBy(r) /\ active[s].turn THEN active[s].op ELSE 0]
    <3>2. R \in SUBSET Msgs /\ H \in [Slots -> Nat] /\ x.source \in AllSources
      <4>1. EndedBy(r) \in SUBSET Ids
        BY DEF EndedBy
      <4> QED BY <1>c, <4>1, RowsOfIntents, CallsAssumption, SourcesAssumption DEF Batch
    <3>3. call' = [call EXCEPT ![c].pc = "markread", ![c].kind = "cancel", ![c].source = x.source,
                               ![c].rows = R, ![c].hits = H]
      BY <3>1
    <3> HIDE DEF R, H
    <3>4. [call[c] EXCEPT !.pc = "markread", !.kind = "cancel", !.source = x.source, !.rows = R, !.hits = H] \in CallRec
      BY <1>a, <2>d, <3>2 DEF CallRec, CallKinds
    <3>5. call' = [call EXCEPT ![c] = [call[c] EXCEPT !.pc = "markread", !.kind = "cancel", !.source = x.source,
                                                      !.rows = R, !.hits = H]]
      BY <1>a, <3>3 DEF CallRec
    <3>6. call[c].pc = "idle"
      BY <2>12 DEF CallCancelRun, At
    <3> QED BY <1>a, <3>4, <3>5, <3>6 DEF CallFrame
  <2> QED BY <2>1, <2>2, <2>3, <2>4, <2>5, <2>6, <2>7, <2>8, <2>9, <2>10, <2>11, <2>12 DEF CallStep
<1> QED BY <1>1, <1>2, <1>3, <1>4, <1>5, <1>6, <1>7

\* What every step of the loop of slot s leaves alone.
LoopFrame(s) ==
  /\ loop' \in [Slots -> LoopRec]
  /\ \A t \in Slots : t # s => loop'[t] = loop[t]

\* Replacing the program counter of a loop.
LEMMA AnotherPc ==
  ASSUME NEW W \in LoopRec, NEW pc \in LoopPcs
  PROVE  /\ [W EXCEPT !.pc = pc] \in LoopRec
         /\ W.pc = pc => [W EXCEPT !.pc = pc] = W
BY DEF LoopRec

\* The local state of a loop that waits is well formed.
LEMMA WaitingType ==
  /\ Waiting \in LoopRec /\ Waiting = [Waiting EXCEPT !.pc = "wait"]
  /\ \A pc \in LoopPcs : [Waiting EXCEPT !.pc = pc] \in LoopRec
<1>1. <<>> \in Seq(Msgs) /\ "wait" \in LoopPcs
  BY DEF LoopPcs
<1>2. Waiting \in LoopRec /\ Waiting.pc = "wait"
  BY <1>1, NoBatchType DEF Waiting, LoopRec
<1> QED BY <1>1, <1>2, AnotherPc

\* Moving on to another await point.
LEMMA LGotoFrame ==
  ASSUME loop \in [Slots -> LoopRec], NEW s \in Slots, NEW pc \in LoopPcs, LGoto(s, pc)
  PROVE  /\ LoopFrame(s) /\ loop'[s].pc = pc /\ loop'[s].batch = loop[s].batch
         /\ loop'[s].cand = loop[s].cand /\ loop'[s].unread = loop[s].unread
         /\ loop'[s].ids = loop[s].ids /\ loop'[s].rows = loop[s].rows
         /\ loop'[s].refused = loop[s].refused
<1>1. loop[s] \in LoopRec
  OBVIOUS
<1>2. [loop[s] EXCEPT !.pc = pc] \in LoopRec
  BY <1>1 DEF LoopRec
<1>3. loop' = [loop EXCEPT ![s] = [loop[s] EXCEPT !.pc = pc]]
  BY DEF LGoto
<1> QED BY <1>1, <1>2, <1>3 DEF LoopFrame, LoopRec

\* Beginning another round, from the wait, the publication or the claim.
LEMMA FreshFrame ==
  ASSUME loop \in [Slots -> LoopRec], NEW s \in Slots,
         \/ Sleep(s)
         \/ Again(s)
         \/ loop' = [loop EXCEPT ![s] = [Waiting EXCEPT !.pc = "next"]]
  PROVE  /\ LoopFrame(s)
         /\ Sleep(s) => loop'[s].pc = "wait"
         /\ Again(s) => loop'[s].pc = "publish"
         /\ \E pc \in {"wait", "publish", "next"} : loop'[s] = [Waiting EXCEPT !.pc = pc]
<1>1. PICK pc \in {"wait", "publish", "next"} : loop' = [loop EXCEPT ![s] = [Waiting EXCEPT !.pc = pc]]
  <2>1. Waiting = [Waiting EXCEPT !.pc = "wait"]
    BY WaitingType
  <2>2. Sleep(s) => loop' = [loop EXCEPT ![s] = [Waiting EXCEPT !.pc = "wait"]]
    BY <2>1 DEF Sleep
  <2>3. Again(s) => loop' = [loop EXCEPT ![s] = [Waiting EXCEPT !.pc = "publish"]]
    BY DEF Again
  <2> QED BY <2>2, <2>3
<1>2. loop'[s] = [Waiting EXCEPT !.pc = pc] /\ \A t \in Slots : t # s => loop'[t] = loop[t]
  BY <1>1
<1>3. [Waiting EXCEPT !.pc = pc] \in LoopRec
  BY WaitingType DEF LoopPcs
<1>4. LoopFrame(s)
  BY <1>1, <1>2, <1>3 DEF LoopFrame
<1>5. (Sleep(s) => loop'[s].pc = "wait") /\ (Again(s) => loop'[s].pc = "publish")
  BY DEF Sleep, Again, Waiting
<1> QED BY <1>2, <1>4, <1>5

\* Going to wait because the reread refused the batch.
LEMMA RefusedFrame ==
  ASSUME loop \in [Slots -> LoopRec], NEW s \in Slots, SleepRefused(s)
  PROVE  /\ LoopFrame(s)
         /\ loop'[s].pc = "wait" /\ loop'[s].refused
         /\ loop'[s].batch = NoBatch /\ loop'[s].unread = <<>> /\ loop'[s].ids = {}
         /\ loop'[s].cand = {} /\ loop'[s].rows = {}
<1>1. Waiting \in LoopRec
  BY WaitingType
<1>2. [Waiting EXCEPT !.refused = TRUE] \in LoopRec
  BY <1>1 DEF LoopRec
<1>3. loop'[s] = [Waiting EXCEPT !.refused = TRUE] /\ \A t \in Slots : t # s => loop'[t] = loop[t]
  BY DEF SleepRefused
<1>4. loop'[s].pc = Waiting.pc /\ loop'[s].batch = Waiting.batch /\ loop'[s].unread = Waiting.unread
        /\ loop'[s].ids = Waiting.ids /\ loop'[s].cand = Waiting.cand /\ loop'[s].rows = Waiting.rows
        /\ loop'[s].refused
  BY <1>1, <1>3 DEF LoopRec
<1>5. LoopFrame(s)
  BY <1>2, <1>3 DEF LoopFrame, SleepRefused
<1> QED BY <1>4, <1>5 DEF Waiting

\* The rows an unread snapshot lists.
LEMMA UnreadRows ==
  ASSUME Locals, NEW s \in Slots
  PROVE  /\ UnreadOf(s) \in Seq(Msgs)
         /\ Range(UnreadOf(s)) = Range(inbox[s]) \ readRows
         /\ IsInjective(inbox[s]) => IsInjective(UnreadOf(s))
<1> DEFINE q == inbox[s]
           K == {k \in DOMAIN q : q[k] \notin readRows}
<1>1. q \in Seq(Msgs) /\ K \in SUBSET DOMAIN q
  BY DEF Locals
<1>2. UnreadOf(s) = Pick(q, K)
  BY DEF UnreadOf
<1>3. Range(Pick(q, K)) = {q[k] : k \in K}
  BY <1>1, PickRange
<1>4. {q[k] : k \in K} = Range(q) \ readRows
  BY DEF Range
<1> QED BY <1>1, <1>2, <1>3, <1>4, PickElements, PickInjective

\* The rows a batch acknowledges are rows.
LEMMA AckedRows ==
  ASSUME Whole, NEW s \in Slots
  PROVE  Acked(s) \subseteq Msgs
<1>1. active[s].observed \subseteq Msgs
  BY DEF Whole, TypeOK, Batch
<1> QED BY <1>1, RowsOfIntents DEF Acked

\* Every step of a loop keeps the shapes, and what belongs to the others.
LEMMA LoopShapes ==
  ASSUME Whole, TypeOK', Locals, Copies, NEW s \in Slots, LoopStep(s)
  PROVE  Locals' /\ LoopFrame(s) /\ UNCHANGED <<call, inbox, peeked>> /\ readRows \subseteq readRows'
<1> DEFINE b == loop[s].batch
<1>a. loop \in [Slots -> LoopRec] /\ loop[s] \in LoopRec /\ readRows \subseteq Msgs /\ permit \in [Slots -> BOOLEAN]
       /\ turn \in [Slots -> {"none", "running", "cancelled"}]
       /\ acked \subseteq Msgs /\ tries \in [Msgs -> Nat] /\ orphaned \subseteq Nat
  BY DEF Locals
<1>b. b \in Batch /\ b.op \in Nat /\ loop[s].rows \subseteq Msgs /\ Copy(s, b)
  BY <1>a DEF LoopRec, Batch, Copies
<1>c. Acked(s) \subseteq Msgs
  BY AckedRows
<1>1. UNCHANGED <<call, inbox, peeked>>
  BY DEF LoopStep, LoopWake, LoopPublish, LoopCandidates, LoopPeek, LoopReconcile, LoopClaim, LoopFindsSignals,
       LoopRests, LoopSettlesSignals, LoopReread, LoopPromptFails, TurnSkipped, TurnStarts, LateCancelTurn,
       LateCancelBatch, TurnErrs, TurnEnds, LoopCompletes, LoopFails, LoopMarksRead
<1>2. readRows' \subseteq Msgs /\ readRows \subseteq readRows'
  <2>1. readRows' \in {readRows, readRows \cup loop[s].rows}
    BY DEF LoopStep, LoopWake, LoopPublish, LoopCandidates, LoopPeek, LoopReconcile, LoopClaim, LoopFindsSignals,
       LoopRests, LoopSettlesSignals, LoopReread, LoopPromptFails, TurnSkipped, TurnStarts, LateCancelTurn,
       LateCancelBatch, TurnErrs, TurnEnds, LoopCompletes, LoopFails, LoopMarksRead, MarkReadOrFail, MarkRead, MarkFails
  <2> QED BY <2>1, <1>a, <1>b
<1>3. permit' \in [Slots -> BOOLEAN]
  BY <1>a DEF LoopStep, LoopWake, LoopPublish, LoopCandidates, LoopPeek, LoopReconcile, LoopClaim, LoopFindsSignals,
       LoopRests, LoopSettlesSignals, LoopReread, LoopPromptFails, TurnSkipped, TurnStarts, LateCancelTurn,
       LateCancelBatch, TurnErrs, TurnEnds, LoopCompletes, LoopFails, LoopMarksRead
<1>4. turn' \in [Slots -> {"none", "running", "cancelled"}]
  BY <1>a DEF LoopStep, LoopWake, LoopPublish, LoopCandidates, LoopPeek, LoopReconcile, LoopClaim, LoopFindsSignals,
       LoopRests, LoopSettlesSignals, LoopReread, LoopPromptFails, TurnSkipped, TurnStarts, LateCancelTurn,
       LateCancelBatch, TurnErrs, TurnEnds, LoopCompletes, LoopFails, LoopMarksRead
<1>5. acked' \subseteq Msgs /\ orphaned' \subseteq Nat
  <2>1. acked' \in {acked, acked \cup Acked(s)} /\ orphaned' \in {orphaned, orphaned \cup {b.op}}
    BY DEF LoopStep, LoopWake, LoopPublish, LoopCandidates, LoopPeek, LoopReconcile, LoopClaim, LoopFindsSignals,
       LoopRests, LoopSettlesSignals, LoopReread, LoopPromptFails, TurnSkipped, TurnStarts, LateCancelTurn,
       LateCancelBatch, TurnErrs, TurnEnds, LoopCompletes, LoopFails, LoopMarksRead
  <2> QED BY <2>1, <1>a, <1>b, <1>c
<1>6. tries' \in [Msgs -> Nat]
  <2>a. ASSUME NEW S  PROVE /\ [m \in Msgs |-> IF m \in S THEN 0 ELSE tries[m]] \in [Msgs -> Nat]
                            /\ [m \in Msgs |-> IF m \in S THEN tries[m] + 1 ELSE tries[m]] \in [Msgs -> Nat]
    BY <1>a
  <2>1. CASE LateCancelBatch(s) \/ LoopCompletes(s) \/ LoopFails(s)
    BY <2>1, <2>a, <1>a DEF LateCancelBatch, LoopCompletes, LoopFails
  <2>2. LateCancelBatch(s) \/ LoopCompletes(s) \/ LoopFails(s) \/ tries' = tries
    BY DEF LoopStep, LoopWake, LoopPublish, LoopCandidates, LoopPeek, LoopReconcile, LoopClaim, LoopFindsSignals,
       LoopRests, LoopSettlesSignals, LoopReread, LoopPromptFails, TurnSkipped, TurnStarts, LateCancelTurn,
       TurnErrs, TurnEnds, LoopMarksRead
  <2> QED BY <1>a, <2>1, <2>2
<1>7. LoopFrame(s)
  <2>a. ASSUME NEW pc \in LoopPcs, LGoto(s, pc)  PROVE LoopFrame(s)
    BY <1>a, <2>a, LGotoFrame
  <2>b. Sleep(s) \/ Again(s) => LoopFrame(s)
    BY <1>a, FreshFrame
  <2>c. {"wait", "publish", "candidates", "peek", "reconcile", "next", "settle", "reread",
         "start", "late", "latecancel", "turn", "complete", "fail", "markread"} = LoopPcs
    BY DEF LoopPcs
  <2>d. ASSUME NEW n \in LoopRec, loop' = [loop EXCEPT ![s] = n]  PROVE LoopFrame(s)
    BY <1>a, <2>d DEF LoopFrame
  <2>e. QueuedIn(s) \subseteq Nat
    BY WholeReads, IdsFinite DEF Whole, ReadOff, InLanes
  <2>1. CASE LoopCandidates(s)
    <3> DEFINE C == {i \in QueuedIn(s) : intents[i].msg # NoMsg}
    <3>1. loop' = [loop EXCEPT ![s] = [loop[s] EXCEPT !.pc = "peek", !.cand = C]]
      BY <2>1, <1>a DEF LoopCandidates, LoopRec
    <3>2. [loop[s] EXCEPT !.pc = "peek", !.cand = C] \in LoopRec
      BY <1>a, <2>c, <2>e DEF LoopRec
    <3> QED BY <2>d, <3>1, <3>2
  <2>2. CASE LoopPeek(s)
    <3>1. [loop[s] EXCEPT !.pc = "reconcile", !.unread = UnreadOf(s)] \in LoopRec
      BY <1>a, <2>c, UnreadRows DEF LoopRec
    <3>2. \/ Sleep(s)
          \/ loop' = [loop EXCEPT ![s] = [loop[s] EXCEPT !.pc = "reconcile", !.unread = UnreadOf(s)]]
      BY <2>2, <1>a DEF LoopPeek, LoopRec
    <3> QED BY <2>b, <2>d, <3>1, <3>2
  <2>3. CASE LoopClaim(s)
    <3>1. active'[s] \in Batch
      BY DEF TypeOK
    <3>2. [loop[s] EXCEPT !.pc = "reread", !.batch = active'[s]] \in LoopRec
      BY <1>a, <2>c, <3>1 DEF LoopRec
    <3>3. loop' = [loop EXCEPT ![s] = [loop[s] EXCEPT !.pc = "reread", !.batch = active'[s]]]
      BY <2>3, <1>a DEF LoopClaim, LoopRec
    <3> QED BY <2>d, <3>2, <3>3
  <2>4. CASE LoopFindsSignals(s)
    <3>1. SignalsToSettle(s) \subseteq Nat
      BY <2>e DEF SignalsToSettle, QueuedIn
    <3>2. [loop[s] EXCEPT !.pc = "settle", !.ids = SignalsToSettle(s)] \in LoopRec
      BY <1>a, <2>c, <3>1 DEF LoopRec
    <3>3. loop' = [loop EXCEPT ![s] = [loop[s] EXCEPT !.pc = "settle", !.ids = SignalsToSettle(s)]]
      BY <2>4, <1>a DEF LoopFindsSignals, LoopRec
    <3> QED BY <2>d, <3>2, <3>3
  <2>5. CASE LoopCompletes(s) \/ LoopFails(s)
    <3>1. ASSUME NEW R \in SUBSET Msgs, loop' = [loop EXCEPT ![s].pc = "markread", ![s].rows = R]
          PROVE  LoopFrame(s)
      <4>1. [loop[s] EXCEPT !.pc = "markread", !.rows = R] \in LoopRec
        BY <1>a, <2>c DEF LoopRec
      <4>2. loop' = [loop EXCEPT ![s] = [loop[s] EXCEPT !.pc = "markread", !.rows = R]]
        BY <1>a, <3>1 DEF LoopRec
      <4> QED BY <2>d, <4>1, <4>2
    <3>2. IsCurrent(s, b) => Exhausted(s, b) \subseteq Msgs
      BY <1>b, CopyActs, RowsOfIntents DEF Exhausted
    <3> QED BY <2>5, <1>c, <2>b, <3>1, <3>2 DEF LoopCompletes, LoopFails
  <2>6. CASE LoopReconcile(s)
    BY <2>6, <1>a, FreshFrame DEF LoopReconcile
  <2>7. CASE \/ LoopWake(s) \/ LoopPublish(s) \/ LoopRests(s) \/ LoopSettlesSignals(s)
             \/ LoopPromptFails(s) \/ TurnSkipped(s) \/ LateCancelTurn(s)
             \/ LateCancelBatch(s) \/ TurnErrs(s) \/ LoopMarksRead(s)
    BY <2>7, <2>a, <2>b, <2>c DEF LoopWake, LoopPublish, LoopRests, LoopSettlesSignals, LoopPromptFails,
       TurnSkipped, LateCancelTurn, LateCancelBatch, TurnErrs, LoopMarksRead
  <2>8. CASE TurnStarts(s) \/ TurnEnds(s)
    <3>1. \E pc \in LoopPcs : LGoto(s, pc) \/ Again(s)
      BY <2>8, <2>c DEF TurnStarts, TurnEnds
    <3> QED BY <2>a, <2>b, <3>1
  <2>9. CASE LoopReread(s)
    BY <2>9, <1>a, <2>a, <2>c, RefusedFrame DEF LoopReread
  <2> QED BY <2>1, <2>2, <2>3, <2>4, <2>5, <2>6, <2>7, <2>8, <2>9 DEF LoopStep
<1> QED BY <1>1, <1>2, <1>3, <1>4, <1>5, <1>6, <1>7 DEF Locals, LoopFrame

\* An agent's reads change what it has peeked, and nothing else of the actors.
LEMMA AgentShapes ==
  ASSUME Locals, NEW s \in Slots, AgentReads(s), TypeOK
  PROVE  Locals' /\ UNCHANGED <<call, inbox, loop, readRows, permit, turn, acked, tries, orphaned>>
<1>1. UNCHANGED <<call, inbox, loop, readRows, permit, turn, acked, tries, orphaned>>
  BY DEF AgentReads, AgentCaptures, AgentPeeks, AgentObserves
<1>2. peeked[s] \in PeekRec /\ active[s].op \in Nat /\ peeked \in [Slots -> PeekRec]
  BY DEF Locals, TypeOK, Batch
<1>3. peeked' \in [Slots -> PeekRec]
  <2>1. Range(UnreadOf(s)) \subseteq Msgs
    BY UnreadRows DEF Range, Locals
  <2>2. CASE AgentCaptures(s)
    <3>1. peeked' = [peeked EXCEPT ![s] = [peeked[s] EXCEPT !.op = active[s].op]]
      BY <2>2 DEF AgentCaptures
    <3>2. [peeked[s] EXCEPT !.op = active[s].op] \in PeekRec
      BY <1>2 DEF PeekRec
    <3> QED BY <1>2, <3>1, <3>2
  <2>3. CASE AgentPeeks(s)
    <3>1. peeked' = [peeked EXCEPT ![s] = [peeked[s] EXCEPT !.read = TRUE, !.rows = Range(UnreadOf(s))]]
      BY <2>3, <1>2 DEF AgentPeeks, PeekRec
    <3>2. [peeked[s] EXCEPT !.read = TRUE, !.rows = Range(UnreadOf(s))] \in PeekRec
      BY <1>2, <2>1 DEF PeekRec
    <3> QED BY <1>2, <3>1, <3>2
  <2>4. CASE AgentObserves(s)
    BY <1>2, <2>4 DEF AgentObserves, PeekRec, NotPeeking
  <2> QED BY <2>2, <2>3, <2>4 DEF AgentReads
<1> QED BY <1>1, <1>3 DEF Locals

-----------------------------------------------------------------------------
(* Every actor's copies stay good *)

\* A row of a mailbox was written by its caller, once, and to the slot of its call.
Early   == {"idle", "captured", "leased"}
Inboxes == \A s \in Slots :
  /\ IsInjective(inbox[s])
  /\ \A m \in Range(inbox[s]) : m \in Callers /\ call[m].slot = s /\ call[m].pc \notin Early

Grounded == Whole /\ Locals /\ OpsIssued /\ Copies /\ Snapshots /\ Sourced /\ Inboxes

\* A good copy stays good, whatever method of the coordinator is called.
LEMMA CopyKept ==
  ASSUME OpsIssued, Ebb, TypeOK, TypeOK', NEW s \in Slots, NEW b \in Batch, Copy(s, b)
  PROVE  b.op <= opId' /\ (b.op # 0 /\ active'[s].op = b.op => b.ids = active'[s].ids /\ b.prio = active'[s].prio)
<1>1. opId \in Nat /\ opId' \in Nat /\ b.op \in Nat /\ active[s].op \in Nat /\ active'[s].op \in Nat
  BY DEF TypeOK, Batch
<1> QED BY <1>1 DEF Ebb, Copy, IsCurrent

\* The batch that owns a slot is a good copy of itself, and so is none.
LEMMA CopyOfOwner ==
  ASSUME TypeOK, OpsIssued, NEW s \in Slots
  PROVE  Copy(s, active[s]) /\ Copy(s, NoBatch)
BY DEF TypeOK, OpsIssued, Copy, IsCurrent, NoBatch

\* How a caller's step moves its call, and what it writes to the mailbox.
CallMove(c) ==
  /\ call[c].pc \notin Early => call'[c].pc \notin Early
  /\ \/ inbox' = inbox
     \/ /\ call[c].pc \in {"idle", "leased"} /\ call'[c].pc \notin Early
        /\ inbox' = [inbox EXCEPT ![call'[c].slot] = Append(@, c)]
  /\ Copy(call'[c].slot, call'[c].before)
  /\ call'[c].pc \in {"captured", "posted", "found"} => call'[c].source \in Sources

LEMMA CallMoves ==
  ASSUME Grounded, NEW c \in Callers, CallStep(c)
  PROVE  CallMove(c)
<1>a. call \in [Callers -> CallRec] /\ call[c] \in CallRec /\ call[c].slot \in Slots
  BY DEF Grounded, Locals, CallRec
<1>b. Copy(call[c].slot, call[c].before) /\ (call[c].pc \in {"captured", "posted", "found"} => call[c].source \in Sources)
  BY DEF Grounded, Copies, Sourced
<1>c. \A s \in Slots : Copy(s, active[s]) /\ Copy(s, NoBatch) /\ active[s] \in Batch /\ NoBatch \in Batch
  BY CopyOfOwner, NoBatchType DEF Grounded, Whole, TypeOK
<1>d. {"idle", "captured", "posted", "found", "leased", "written", "rejected", "committed",
         "cancelturn", "cancelturns", "retire", "markread", "take", "supersede",
         "markdiscarded", "notify", "abandoned", "done"} = CallPcs
  BY DEF CallPcs
<1>e. CallFrame(c)
  BY CallShapes DEF Grounded
<1>f. ASSUME NEW pc \in CallPcs, Goto(c, pc), pc \notin Early, inbox' = inbox, pc = "found" => call[c].pc = "posted",
             pc # "posted"
      PROVE  CallMove(c)
  BY <1>a, <1>b, <1>f, GotoFrame DEF CallMove, Early
<1>g. ASSUME NEW x \in Calls, NEW s \in Slots, NEW pc \in CallPcs, NEW b \in Batch,
             At(c, "idle"), Start(c, x, s, pc, b), Copy(s, b),
             inbox' = inbox \/ (pc \notin Early /\ inbox' = [inbox EXCEPT ![s] = Append(@, c)])
      PROVE  CallMove(c)
  <2>1. call'[c].pc = pc /\ call'[c].slot = s /\ call'[c].before = b /\ call'[c].source = x.source
    BY <1>a, <1>g, StartFrame DEF At
  <2>2. x.source \in Sources
    BY CallsAssumption
  <2> QED BY <1>g, <2>1, <2>2 DEF CallMove, At, Early
<1>h. ASSUME call'[c].pc \in CallPcs \ Early, call'[c].pc \notin {"posted", "found"}, inbox' = inbox,
             call[c].pc # "idle"
      PROVE  CallMove(c)
  BY <1>a, <1>b, <1>e, <1>h DEF CallMove, CallFrame, Early
<1>1. CASE CallAcquire(c)
  BY <1>1, <1>c, <1>d, <1>g DEF CallAcquire
<1>2. CASE CallCapture(c)
  BY <1>2, <1>c, <1>d, <1>g DEF CallCapture
<1>3. CASE CallPost(c)
  <2>1. PICK x \in Calls, s \in Slots : inbox' = [inbox EXCEPT ![s] = Append(@, c)] /\ Start(c, x, s, "posted", NoBatch)
    BY <1>3 DEF CallPost
  <2> QED BY <1>3, <2>1, <1>c, <1>d, <1>g DEF CallPost, Early
<1>4. CASE CallRetireActive(c)
  BY <1>4, <1>c, <1>d, <1>g DEF CallRetireActive
<1>5. CASE CallAcquireReplacement(c)
  <2>1. Goto(c, "leased") /\ inbox' = inbox /\ call[c].pc = "captured"
    BY <1>5 DEF CallAcquireReplacement, At
  <2>2. call'[c].pc = "leased" /\ call'[c].slot = call[c].slot /\ call'[c].before = call[c].before
    BY <1>a, <1>d, <2>1, GotoFrame
  <2> QED BY <1>b, <2>1, <2>2 DEF CallMove, Early
<1>6. CASE CallWriteRow(c)
  <2>1. Goto(c, "written") /\ inbox' = [inbox EXCEPT ![call[c].slot] = Append(@, c)] /\ call[c].pc = "leased"
    BY <1>6 DEF CallWriteRow, At
  <2>2. call'[c].pc = "written" /\ call'[c].slot = call[c].slot /\ call'[c].before = call[c].before
    BY <1>a, <1>d, <2>1, GotoFrame
  <2> QED BY <1>b, <2>1, <2>2 DEF CallMove, Early
<1>7. CASE \/ CallFindRow(c) \/ CallAcquireForRow(c) \/ CallCommitSignal(c) \/ CallWriteFails(c)
           \/ CallSenderGone(c) \/ CallCommit(c) \/ CallRejected(c) \/ CallSettleRow(c) \/ CallNotify(c)
  BY <1>7, <1>d, <1>f DEF CallFindRow, CallAcquireForRow, CallCommitSignal, CallWriteFails,
       CallSenderGone, CallCommit, CallRejected, CallSettleRow, CallNotify, At, Early
<1>8. CASE \/ CallCheckActive(c) \/ CallCancelTurn(c) \/ CallCancelFails(c) \/ CallTakeMetadata(c)
           \/ CallCancelRunTurns(c)
  BY <1>8, <1>d, <1>f DEF CallCheckActive, CallCancelTurn, CallCancelFails, CallTakeMetadata, CallCancelRunTurns, Early
<1>9. CASE CallRetire(c)
  <2>1. call'[c].pc \in {"done", "markread", "supersede"} /\ inbox' = inbox /\ call[c].pc = "retire"
    BY <1>9, <1>a DEF CallRetire, CallRec, At
  <2> QED BY <1>d, <1>h, <2>1 DEF Early
<1>10. CASE CallMarkRead(c)
  <2>1. call'[c].pc \in {"cancelturns", "take", "supersede"} /\ inbox' = inbox /\ call[c].pc = "markread"
    BY <1>10, <1>a DEF CallMarkRead, CallRec, At
  <2> QED BY <1>d, <1>h, <2>1 DEF Early
<1>11. CASE CallMarkReadFails(c) \/ CallMarkDiscarded(c)
  <2>1. call'[c].pc \in {"done", "notify"} /\ inbox' = inbox /\ call[c].pc \in {"markread", "markdiscarded"}
    BY <1>11, <1>a DEF CallMarkReadFails, CallMarkDiscarded, CallRec, At
  <2> QED BY <1>d, <1>h, <2>1 DEF Early
<1>12. CASE CallSupersede(c)
  <2>1. call'[c].pc \in {"markdiscarded", "notify"} /\ inbox' = inbox /\ call[c].pc = "supersede"
    BY <1>12, <1>a DEF CallSupersede, CallRec, At, Goto
  <2> QED BY <1>d, <1>h, <2>1 DEF Early
<1>13. CASE CallCancelRun(c)
  <2>1. call'[c].pc = "markread" /\ call'[c].slot = call[c].slot /\ call'[c].before = call[c].before
    <3>1. \E src, R, H : call' = [call EXCEPT ![c].pc = "markread", ![c].kind = "cancel", ![c].source = src,
                                             ![c].rows = R, ![c].hits = H]
      BY <1>13 DEF CallCancelRun
    <3> QED BY <1>a, <3>1 DEF CallRec
  <2>2. inbox' = inbox
    BY <1>13 DEF CallCancelRun
  <2> QED BY <1>b, <2>1, <2>2 DEF CallMove, Early
<1> QED BY <1>1, <1>2, <1>3, <1>4, <1>5, <1>6, <1>7, <1>8, <1>9, <1>10, <1>11, <1>12, <1>13 DEF CallStep

\* What a step of the loop of slot s holds afterwards: the copy it had, the batch it
\* has just claimed, or none, and a snapshot taken from the mailbox.
LoopMove(s) ==
  /\ Copy(s, loop'[s].batch) \/ loop'[s].batch = active'[s]
  /\ IsInjective(loop'[s].unread) /\ loop'[s].ids \subseteq Ids

LEMMA LoopMoves ==
  ASSUME Grounded, NEW s \in Slots, LoopStep(s)
  PROVE  LoopMove(s)
<1>a. loop \in [Slots -> LoopRec] /\ loop[s] \in LoopRec
  BY DEF Grounded, Locals
<1>b. Copy(s, loop[s].batch) /\ IsInjective(loop[s].unread) /\ loop[s].ids \subseteq Ids
  BY DEF Grounded, Copies, Snapshots
<1>c. ASSUME NEW pc \in {"wait", "publish", "next"}, loop'[s] = [Waiting EXCEPT !.pc = pc]
      PROVE  LoopMove(s)
  <2>1. loop'[s].batch = NoBatch /\ loop'[s].unread = <<>> /\ loop'[s].ids = {}
    BY <1>c DEF Waiting
  <2>2. Copy(s, NoBatch)
    BY CopyOfOwner DEF Grounded, Whole
  <2>3. IsInjective(<<>>)
    BY DEF IsInjective
  <2> QED BY <2>1, <2>2, <2>3 DEF LoopMove
<1>d. \/ Sleep(s)
      \/ Again(s)
      \/ loop' = [loop EXCEPT ![s] = [Waiting EXCEPT !.pc = "next"]]
      => LoopMove(s)
  BY <1>a, <1>c, FreshFrame
<1>e. ASSUME loop'[s].batch = loop[s].batch, loop'[s].unread = loop[s].unread, loop'[s].ids = loop[s].ids
      PROVE  LoopMove(s)
  BY <1>b, <1>e DEF LoopMove
<1>f. ASSUME NEW pc \in LoopPcs, LGoto(s, pc)  PROVE LoopMove(s)
  BY <1>a, <1>e, <1>f, LGotoFrame
<1>g. {"wait", "publish", "candidates", "peek", "reconcile", "next", "settle", "reread",
         "start", "late", "latecancel", "turn", "complete", "fail", "markread"} = LoopPcs
  BY DEF LoopPcs
<1>1. CASE LoopCandidates(s)
  BY <1>1, <1>a, <1>e DEF LoopCandidates, LoopRec
<1>2. CASE LoopPeek(s)
  <2>1. CASE loop' = [loop EXCEPT ![s].pc = "reconcile", ![s].unread = UnreadOf(s)]
    <3>1. loop'[s].batch = loop[s].batch /\ loop'[s].unread = UnreadOf(s) /\ loop'[s].ids = loop[s].ids
      BY <2>1, <1>a DEF LoopRec
    <3>2. IsInjective(UnreadOf(s))
      BY UnreadRows DEF Grounded, Inboxes
    <3> QED BY <1>b, <3>1, <3>2 DEF LoopMove
  <2> QED BY <1>2, <1>d, <2>1 DEF LoopPeek
<1>3. CASE LoopClaim(s)
  <2>1. loop' = [loop EXCEPT ![s].pc = "reread", ![s].batch = active'[s]]
    BY <1>3 DEF LoopClaim
  <2>2. loop'[s].batch = active'[s] /\ loop'[s].unread = loop[s].unread /\ loop'[s].ids = loop[s].ids
    BY <2>1, <1>a DEF LoopRec
  <2> QED BY <1>b, <2>2 DEF LoopMove
<1>4. CASE LoopFindsSignals(s)
  <2>1. loop' = [loop EXCEPT ![s].pc = "settle", ![s].ids = SignalsToSettle(s)]
    BY <1>4 DEF LoopFindsSignals
  <2>2. loop'[s].batch = loop[s].batch /\ loop'[s].unread = loop[s].unread /\ loop'[s].ids = SignalsToSettle(s)
    BY <2>1, <1>a DEF LoopRec
  <2>3. SignalsToSettle(s) \subseteq Ids
    <3>1. SignalsToSettle(s) \subseteq QueuedIn(s)
      BY DEF SignalsToSettle, QueuedIn
    <3> QED BY <3>1, WholeReads DEF Grounded, ReadOff, InLanes
  <2> QED BY <1>b, <2>2, <2>3 DEF LoopMove
<1>5. CASE LoopCompletes(s) \/ LoopFails(s)
  <2>1. ASSUME NEW R, loop' = [loop EXCEPT ![s].pc = "markread", ![s].rows = R]
        PROVE  LoopMove(s)
    BY <2>1, <1>a, <1>e DEF LoopRec
  <2> QED BY <1>5, <1>d, <2>1 DEF LoopCompletes, LoopFails
<1>6. CASE \/ LoopWake(s) \/ LoopPublish(s) \/ LoopReconcile(s) \/ LoopRests(s) \/ LoopSettlesSignals(s)
           \/ LoopPromptFails(s) \/ TurnSkipped(s) \/ LateCancelTurn(s)
           \/ LateCancelBatch(s) \/ TurnErrs(s) \/ LoopMarksRead(s)
  BY <1>6, <1>d, <1>f, <1>g DEF LoopWake, LoopPublish, LoopReconcile, LoopRests, LoopSettlesSignals, LoopPromptFails,
     TurnSkipped, LateCancelTurn, LateCancelBatch, TurnErrs, LoopMarksRead
<1>7. CASE TurnStarts(s) \/ TurnEnds(s)
  <2>1. \E pc \in LoopPcs : LGoto(s, pc) \/ Again(s)
    BY <1>7, <1>g DEF TurnStarts, TurnEnds
  <2> QED BY <1>d, <1>f, <2>1
<1>8. CASE LoopReread(s)
  <2>1. SleepRefused(s) => LoopMove(s)
    <3>1. Copy(s, NoBatch)
      BY CopyOfOwner DEF Grounded, Whole
    <3>2. IsInjective(<<>>)
      BY DEF IsInjective
    <3> QED BY <1>a, <3>1, <3>2, RefusedFrame DEF LoopMove
  <2> QED BY <1>8, <1>f, <1>g, <2>1 DEF LoopReread
<1> QED BY <1>1, <1>2, <1>3, <1>4, <1>5, <1>6, <1>7, <1>8 DEF LoopStep

\* Every step of the system is a call of the coordinator's general client, or none.
LEMMA StepRefines ==
  ASSUME Grounded, [LoopNext]_vars
  PROVE  [Next]_cvars
<1>a. TypeOK /\ call \in [Callers -> CallRec] /\ loop \in [Slots -> LoopRec] /\ peeked \in [Slots -> PeekRec]
  BY DEF Grounded, Whole, Locals
<1>1. ASSUME NEW c \in Callers, CallStep(c)  PROVE [Next]_cvars
  BY <1>1, <1>a, CallRefines DEF Grounded
<1>2. ASSUME NEW s \in Slots, LoopStep(s)  PROVE [Next]_cvars
  BY <1>2, <1>a, LoopRefines DEF Grounded
<1>3. ASSUME NEW s \in Slots, AgentReads(s)  PROVE [Next]_cvars
  BY <1>3, <1>a, AgentRefines
<1>4. CASE UNCHANGED vars
  BY <1>4 DEF vars
<1> QED BY <1>1, <1>2, <1>3, <1>4 DEF LoopNext

\* So a step keeps what the coordinator keeps.
LEMMA CoordinatorKept ==
  ASSUME Grounded, [LoopNext]_vars
  PROVE  Whole' /\ OpsIssued' /\ Ebb /\ Fixed
<1>1. [Next]_cvars
  BY StepRefines
<1>2. Ebb /\ Fixed
  BY <1>1, Ebbs, IntentsFixed DEF Grounded, Whole
<1>3. Whole'
  BY <1>1, NextType, OwnerNext, BoundKept DEF Grounded, Whole
<1> QED BY <1>2, <1>3 DEF Ebb, OpsIssued

\* At the start nobody holds anything.
LEMMA GroundedInit == LInit => Grounded
<1> SUFFICES ASSUME LInit  PROVE Grounded
  OBVIOUS
<1>1. Whole /\ Init
  BY InitType, OwnerInit, BoundAtInit DEF LInit, Whole
<1>2. Locals
  <2> DEFINE none == [pc |-> "idle", kind |-> "send", source |-> "UserMessage",
                      slot |-> CHOOSE s \in Slots : TRUE, before |-> NoBatch, rows |-> {}, hits |-> NoHits]
  <2>2. none \in CallRec
    BY SlotsAssumption, NoBatchType DEF CallRec, CallPcs, CallKinds, AllSources, NoHits
  <2>3. call \in [Callers -> CallRec]
    BY <2>2 DEF LInit
  <2>4. NotPeeking \in PeekRec
    BY DEF NotPeeking, PeekRec
  <2>5. inbox \in [Slots -> Seq(Msgs)]
    BY DEF LInit
  <2> QED BY <2>3, <2>4, <2>5, WaitingType DEF LInit, Locals
<1>3. OpsIssued /\ \A s \in Slots : Copy(s, NoBatch)
  BY <1>1, CopyOfOwner DEF Init, OpsIssued, NoBatch, Whole
<1>4. Copies
  <2>1. \A s \in Slots : loop[s].batch = NoBatch
    BY DEF LInit, Waiting
  <2>2. \A c \in Callers : call[c].before = NoBatch /\ call[c].slot \in Slots
    BY SlotsAssumption DEF LInit
  <2> QED BY <1>3, <2>1, <2>2 DEF Copies
<1>5. Snapshots
  BY DEF LInit, Waiting, Snapshots, IsInjective
<1>6. Sourced /\ Inboxes
  BY DEF LInit, Sourced, Inboxes, IsInjective, Range
<1> QED BY <1>1, <1>2, <1>3, <1>4, <1>5, <1>6 DEF Grounded

\* Good copies and snapshots stay good.
LEMMA GroundedStep ==
  ASSUME Grounded, [LoopNext]_vars
  PROVE  Grounded'
<1>a. Whole' /\ OpsIssued' /\ Ebb /\ Fixed /\ TypeOK /\ TypeOK' /\ OpsIssued
  BY CoordinatorKept DEF Whole, Grounded
<1>b. /\ loop \in [Slots -> LoopRec] /\ call \in [Callers -> CallRec] /\ inbox \in [Slots -> Seq(Msgs)]
      /\ Copies /\ Snapshots /\ Inboxes /\ Sourced
  BY DEF Grounded, Locals
<1>c. Ids \subseteq Ids'
  BY <1>a DEF Fixed
<1>d. /\ \A s \in Slots : loop[s].batch \in Batch
      /\ \A c \in Callers : call[c].before \in Batch /\ call[c].slot \in Slots
  BY <1>b DEF LoopRec, CallRec
<1>e. /\ \A s \in Slots : loop'[s] = loop[s] => Copy(s, loop[s].batch)' /\ IsInjective(loop'[s].unread) /\ loop'[s].ids \subseteq Ids'
      /\ \A c \in Callers : call'[c] = call[c] => Copy(call[c].slot, call[c].before)'
  <2>1. ASSUME NEW s \in Slots, loop'[s] = loop[s]
        PROVE  Copy(s, loop[s].batch)' /\ IsInjective(loop'[s].unread) /\ loop'[s].ids \subseteq Ids'
    <3>1. Copy(s, loop[s].batch) /\ loop[s].batch \in Batch
      BY <1>b, <1>d DEF Copies
    <3> DEFINE b == loop[s].batch
    <3>2. b.op <= opId' /\ (b.op # 0 /\ active'[s].op = b.op => b.ids = active'[s].ids /\ b.prio = active'[s].prio)
      BY <1>a, <3>1, CopyKept
    <3> QED BY <1>b, <1>c, <2>1, <3>2 DEF Copy, IsCurrent, Snapshots
  <2>2. ASSUME NEW c \in Callers, call'[c] = call[c]
        PROVE  Copy(call[c].slot, call[c].before)'
    <3> DEFINE b == call[c].before
               s == call[c].slot
    <3>1. Copy(s, b) /\ b \in Batch /\ s \in Slots
      BY <1>b, <1>d DEF Copies
    <3>2. b.op <= opId' /\ (b.op # 0 /\ active'[s].op = b.op => b.ids = active'[s].ids /\ b.prio = active'[s].prio)
      BY <1>a, <3>1, CopyKept
    <3> QED BY <2>2, <3>2 DEF Copy, IsCurrent
  <2> QED BY <2>1, <2>2
<1>1. ASSUME NEW c \in Callers, CallStep(c)  PROVE Grounded'
  <2>1. Locals' /\ CallFrame(c) /\ loop' = loop
    BY <1>1, CallShapes DEF Grounded
  <2>2. CallMove(c)
    BY <1>1, CallMoves
  <2>3. call'[c] \in CallRec /\ call'[c].before \in Batch /\ call'[c].slot \in Slots
    BY <2>1 DEF CallFrame, CallRec
  <2>4. Copy(call[c].slot, call[c].before)'
    BY <1>a, <2>2, <2>3, CopyKept DEF CallMove, Copy, IsCurrent
  <2>5. Copies'
    BY <1>e, <2>1, <2>4 DEF Copies, CallFrame
  <2>6. Snapshots' /\ Sourced'
    BY <1>b, <1>e, <2>1, <2>2 DEF Snapshots, Sourced, CallFrame, CallMove
  <2>7. Inboxes'
    <3> SUFFICES ASSUME NEW s \in Slots
                 PROVE  /\ IsInjective(inbox'[s])
                        /\ \A m \in Range(inbox'[s]) : m \in Callers /\ call'[m].slot = s /\ call'[m].pc \notin Early
      BY DEF Inboxes
    <3>1. \A m \in Range(inbox[s]) : m \in Callers /\ call'[m].slot = s /\ call'[m].pc \notin Early
      BY <1>b, <2>1, <2>2 DEF Inboxes, CallFrame, CallMove, Early
    <3>2. CASE inbox'[s] = inbox[s]
      BY <1>b, <3>1, <3>2 DEF Inboxes
    <3>3. CASE inbox'[s] # inbox[s]
      <4>1. call[c].pc \in {"idle", "leased"} /\ call'[c].pc \notin Early
              /\ inbox' = [inbox EXCEPT ![call'[c].slot] = Append(@, c)]
        BY <2>2, <3>3 DEF CallMove
      <4>2. call'[c].slot = s /\ inbox'[s] = Append(inbox[s], c)
        BY <1>b, <3>3, <4>1
      <4>3. c \notin Range(inbox[s])
        BY <1>b, <4>1 DEF Inboxes, Early
      <4>4. c \in Msgs /\ inbox[s] \in Seq(Msgs) /\ IsInjective(inbox[s])
        BY <1>b, CallersAssumption DEF Inboxes
      <4>5. /\ DOMAIN inbox[s] = 1..Len(inbox[s]) /\ Len(inbox[s]) \in Nat
            /\ DOMAIN inbox'[s] = 1..(Len(inbox[s]) + 1)
            /\ \A k \in DOMAIN inbox'[s] : inbox'[s][k] = IF k <= Len(inbox[s]) THEN inbox[s][k] ELSE c
        BY <4>2, <4>4, AppendProperties, LenProperties
      <4>6. Range(inbox'[s]) = Range(inbox[s]) \cup {c}
        <5>1. \A k \in DOMAIN inbox[s] : k \in DOMAIN inbox'[s] /\ inbox'[s][k] = inbox[s][k]
          BY <4>5
        <5>2. Len(inbox[s]) + 1 \in DOMAIN inbox'[s] /\ inbox'[s][Len(inbox[s]) + 1] = c
          BY <4>5
        <5>3. \A k \in DOMAIN inbox'[s] : inbox'[s][k] = c \/ (k \in DOMAIN inbox[s] /\ inbox'[s][k] = inbox[s][k])
          BY <4>5
        <5> QED BY <5>1, <5>2, <5>3 DEF Range
      <4>7. IsInjective(inbox'[s])
        BY <4>3, <4>4, <4>5 DEF IsInjective, Range
      <4> QED BY <3>1, <4>1, <4>2, <4>6, <4>7
    <3> QED BY <3>2, <3>3
  <2> QED BY <1>a, <2>1, <2>5, <2>6, <2>7 DEF Grounded
<1>2. ASSUME NEW s \in Slots, LoopStep(s)  PROVE Grounded'
  <2>1. Locals' /\ LoopFrame(s) /\ call' = call /\ inbox' = inbox
    BY <1>2, <1>a, LoopShapes DEF Grounded
  <2>2. LoopMove(s)
    BY <1>2, LoopMoves
  <2>3. loop'[s] \in LoopRec /\ loop'[s].batch \in Batch
    BY <2>1 DEF LoopFrame, LoopRec
  <2>4. Copy(s, loop[s].batch)'
    <3>1. CASE Copy(s, loop'[s].batch)
      BY <1>a, <2>3, <3>1, CopyKept DEF Copy, IsCurrent
    <3>2. CASE loop'[s].batch = active'[s]
      BY <1>a, <3>2 DEF OpsIssued, Copy, IsCurrent
    <3> QED BY <2>2, <3>1, <3>2 DEF LoopMove
  <2>5. Copies'
    BY <1>e, <2>1, <2>4 DEF Copies, LoopFrame
  <2>6. Snapshots' /\ Sourced' /\ Inboxes'
    BY <1>b, <1>c, <1>e, <2>1, <2>2 DEF Snapshots, Sourced, Inboxes, LoopFrame, LoopMove
  <2> QED BY <1>a, <2>1, <2>5, <2>6 DEF Grounded
<1>3. ASSUME Locals', UNCHANGED <<call, inbox, loop>>  PROVE Grounded'
  <2>1. Copies' /\ Snapshots' /\ Sourced' /\ Inboxes'
    BY <1>b, <1>e, <1>3 DEF Copies, Snapshots, Sourced, Inboxes
  <2> QED BY <1>a, <1>3, <2>1 DEF Grounded
<1>4. ASSUME NEW s \in Slots, AgentReads(s)  PROVE Grounded'
  BY <1>3, <1>4, <1>a, AgentShapes DEF Grounded
<1>5. CASE UNCHANGED vars
  BY <1>3, <1>5 DEF vars, lvars, Grounded, Locals
<1> QED BY <1>1, <1>2, <1>4, <1>5 DEF LoopNext

\* It holds at all times.
LEMMA GroundedAlways == LoopSpec => []Grounded
BY GroundedInit, GroundedStep, PTL DEF LoopSpec

\* Everything the actors hold keeps its shape, whatever fails and whoever interferes.
THEOREM LoopTypes == LoopSpec => []LTypeOK
<1>1. Grounded => LTypeOK
  BY DEF Grounded, Whole, Locals, LTypeOK
<1> QED BY <1>1, GroundedAlways, PTL

\* The event loops and callers use the coordinator only as the client it was proved
\* correct for: no stale copy of a batch, mailbox snapshot or set of signals that an
\* actor hands in can do what a fresh one could not.
THEOREM ImplementsCoordinator == LoopSpec => Spec
<1>1. LInit => Init
  BY DEF LInit
<1>2. Grounded /\ [LoopNext]_vars => [Next]_cvars
  BY StepRefines
<1> QED BY <1>1, <1>2, GroundedAlways, PTL DEF LoopSpec, Spec

\* In the running system, too, every live intent has exactly one owner: through failed
\* reads, late cancellations, interrupts of replaced batches and retries.
THEOREM OneOwnerInLoop == LoopSpec => []OneOwner
BY ImplementsCoordinator, OneOwnerAlways, PTL

\* And the session with all its calls and loops keeps the coordinator's promise: work is admitted,
\* taken whole, let go whole and ended as the pool allows, and in no other way.
THEOREM PoolInLoop == LoopSpec => KeepsPool
BY ImplementsCoordinator, ImplementsPool, PTL

\* In the running system, too, a slot's messages stay in the order of their commits: through failed
\* and refused turns, interrupts, rereads that find too little and reconciliations.
THEOREM OrderInLoop == LoopSpec => []LanesKeepCommitOrder
BY ImplementsCoordinator, CommitOrderKept, PTL

-----------------------------------------------------------------------------
(* Leases and batches are given back *)

Holding == {"leased", "written", "abandoned"}

\* A caller holds at most one lease, for the slot of its call, and only while it is
\* between taking it and giving it back.
Leased == /\ \A l, k \in leases : l.owner = k.owner => l = k
          /\ \A l \in leases : call[l.owner].pc \in Holding /\ call[l.owner].slot = l.slot

\* How a caller's step changes the leases: it takes one when it has none, or takes
\* none and does not leave its own behind.
LeaseMove(c) ==
  \/ /\ \A l \in leases : l.owner # c
     /\ \E l \in Lease : l.owner = c /\ l.slot = call'[c].slot /\ leases' = leases \cup {l}
     /\ call'[c].pc \in Holding
  \/ /\ leases' \subseteq leases
     /\ call[c].pc \in Holding => call'[c].pc \in Holding \/ \A l \in leases' : l.owner # c

\* Giving back the lease leaves none.
LEMMA Released ==
  ASSUME Leased, NEW c, ReleaseLease(c)
  PROVE  leases' \subseteq leases /\ \A l \in leases' : l.owner # c
BY DEF Leased, ReleaseLease, AbortEnqueue, cvars

LEMMA CallLeases ==
  ASSUME Grounded, Leased, Whole', NEW c \in Callers, CallStep(c)
  PROVE  LeaseMove(c)
<1>a. call \in [Callers -> CallRec] /\ call[c] \in CallRec /\ call[c].slot \in Slots
  BY DEF Grounded, Locals, CallRec
<1>b. leases \subseteq Lease /\ leases' \subseteq Lease
  BY DEF Grounded, Whole, TypeOK
<1>c. ASSUME leases' \subseteq leases, call[c].pc \notin Holding  PROVE LeaseMove(c)
  BY <1>c DEF LeaseMove
<1>d. ASSUME leases' \subseteq leases, \A l \in leases' : l.owner # c  PROVE LeaseMove(c)
  BY <1>d DEF LeaseMove
<1>e. ASSUME NEW s \in Slots, NEW src, NEW r, AcquireEnqueue(c, s, src, r), call'[c].pc \in Holding, call'[c].slot = s
      PROVE  LeaseMove(c)
  <2> DEFINE l == [owner |-> c, slot |-> s, source |-> src, run |-> r]
  <2>1. leases' = leases \cup {l} /\ \A k \in leases : k.owner # c
    BY <1>e DEF AcquireEnqueue
  <2>2. l \in Lease /\ l.owner = c /\ l.slot = s
    BY <1>b, <2>1
  <2> QED BY <1>e, <2>1, <2>2 DEF LeaseMove
<1>f. ASSUME NEW l \in leases, l.owner = c, leases' = leases \ {l}  PROVE LeaseMove(c)
  BY <1>d, <1>f DEF Leased
<1>g. {"leased", "written", "abandoned", "done", "notify", "rejected"} \subseteq CallPcs
  BY DEF CallPcs
<1>1. CASE CallAcquire(c)
  <2>1. PICK x \in Calls, s \in Slots, r \in Runs :
          AcquireEnqueue(c, s, x.source, r) /\ Start(c, x, s, "leased", NoBatch)
    BY <1>1 DEF CallAcquire
  <2>2. call'[c].pc = "leased" /\ call'[c].slot = s
    BY <2>1, <1>a DEF Start
  <2> QED BY <1>e, <2>1, <2>2 DEF Holding
<1>2. CASE CallAcquireReplacement(c)
  <2>1. call'[c].pc = "leased" /\ call'[c].slot = call[c].slot
    BY <1>2, <1>a, <1>g, GotoFrame DEF CallAcquireReplacement
  <2> QED BY <1>2, <1>a, <1>e, <2>1 DEF CallAcquireReplacement, Holding
<1>3. CASE CallAcquireForRow(c)
  <2>1. CASE Accepts(call[c].slot)
    <3>1. call'[c].pc = "written" /\ call'[c].slot = call[c].slot
      BY <1>3, <2>1, <1>a, <1>g, GotoFrame DEF CallAcquireForRow
    <3> QED BY <1>3, <1>a, <1>e, <2>1, <3>1 DEF CallAcquireForRow, Holding
  <2>2. CASE ~Accepts(call[c].slot)
    BY <1>3, <1>c, <2>2 DEF CallAcquireForRow, At, Holding, cvars
  <2> QED BY <2>1, <2>2
<1>4. CASE CallWriteRow(c) \/ CallSenderGone(c)
  <2>1. call'[c].pc \in {"written", "abandoned"}
    BY <1>4, <1>a, <1>g, GotoFrame DEF CallWriteRow, CallSenderGone
  <2>2. leases' = leases
    BY <1>4 DEF CallWriteRow, CallSenderGone, cvars
  <2> QED BY <2>1, <2>2 DEF LeaseMove, Holding
<1>5. CASE CallWriteFails(c) \/ CallRejected(c)
  BY <1>5, <1>d, Released DEF CallWriteFails, CallRejected
<1>6. CASE CallCommit(c)
  BY <1>6, <1>f DEF CallCommit, CommitEnqueue
<1>7. CASE CallCommitSignal(c)
  BY <1>7, <1>d, <1>f, Released DEF CallCommitSignal, CommitEnqueue
<1>8. CASE CallRetire(c)
  BY <1>8, <1>c DEF CallRetire, At, Holding, cvars, CancelBatch, InterruptBatch
<1>9. CASE CallTakeMetadata(c) \/ CallSupersede(c)
  BY <1>9, <1>c DEF CallTakeMetadata, CallSupersede, At, Holding, cvars, TakeInterruptMetadata, DiscardQueuedExcept
<1>10. CASE CallRetireActive(c) \/ CallCancelRun(c)
  <2>1. leases' \subseteq leases
    BY <1>10 DEF CallRetireActive, CallCancelRun, cvars, PauseSlot, CancelRun
  <2> QED BY <1>10, <1>c, <2>1 DEF CallRetireActive, CallCancelRun, At, Holding
<1>11. CASE \/ CallCapture(c) \/ CallPost(c) \/ CallFindRow(c) \/ CallSettleRow(c) \/ CallNotify(c)
            \/ CallCheckActive(c) \/ CallCancelTurn(c) \/ CallCancelFails(c)
            \/ CallMarkRead(c) \/ CallMarkReadFails(c) \/ CallMarkDiscarded(c) \/ CallCancelRunTurns(c)
  BY <1>11, <1>c DEF CallCapture, CallPost, CallFindRow, CallSettleRow, CallNotify, CallCheckActive,
       CallCancelTurn, CallCancelFails, CallMarkRead, CallMarkReadFails, CallMarkDiscarded, CallCancelRunTurns,
       At, Holding, cvars
<1> QED BY <1>1, <1>2, <1>3, <1>4, <1>5, <1>6, <1>7, <1>8, <1>9, <1>10, <1>11 DEF CallStep

\* A loop and its agent take and give no leases.
LEMMA LoopLeases ==
  ASSUME NEW s \in Slots, LoopStep(s) \/ AgentReads(s)
  PROVE  leases' = leases
<1>1. CASE AgentReads(s)
  BY <1>1 DEF AgentReads, AgentCaptures, AgentPeeks, AgentObserves, ObserveMessages, cvars
<1>2. CASE LoopPublish(s) \/ LoopReconcile(s) \/ LoopClaim(s) \/ LoopSettlesSignals(s)
  BY <1>2 DEF LoopPublish, LoopReconcile, LoopClaim, LoopSettlesSignals, SetConstraint, ReconcileMailbox,
       Claim, CompleteSignals, cvars
<1>3. CASE \/ LoopReread(s) \/ TurnSkipped(s) \/ TurnStarts(s) \/ LateCancelTurn(s) \/ LateCancelBatch(s)
           \/ TurnErrs(s) \/ LoopCompletes(s) \/ LoopFails(s)
  BY <1>3 DEF LoopReread, TurnSkipped, TurnStarts, LateCancelTurn, LateCancelBatch, TurnErrs, LoopCompletes,
       LoopFails, RetryStart, MarkStarted, TakeInterruptMetadata, CancelBatch, CompleteBatch, FailBatch, cvars
<1>4. CASE \/ LoopWake(s) \/ LoopCandidates(s) \/ LoopPeek(s) \/ LoopFindsSignals(s) \/ LoopRests(s)
           \/ LoopPromptFails(s) \/ TurnEnds(s) \/ LoopMarksRead(s)
  BY <1>4 DEF LoopWake, LoopCandidates, LoopPeek, LoopFindsSignals, LoopRests, LoopPromptFails, TurnEnds,
       LoopMarksRead, cvars
<1> QED BY <1>1, <1>2, <1>3, <1>4 DEF LoopStep

\* Leases stay with calls in progress.
LEMMA LeasedStep ==
  ASSUME Grounded, Leased, [LoopNext]_vars
  PROVE  Leased'
<1>a. Whole' /\ leases \subseteq Lease
  BY CoordinatorKept DEF Grounded, Whole, TypeOK
<1>1. ASSUME NEW c \in Callers, CallStep(c)  PROVE Leased'
  <2>1. LeaseMove(c) /\ CallFrame(c)
    BY <1>1, <1>a, CallLeases, CallShapes DEF Grounded
  <2>2. \A l \in leases : l.owner \in Callers
    BY <1>a DEF Lease
  <2>3. \A l \in leases : l.owner # c => call'[l.owner].pc \in Holding /\ call'[l.owner].slot = l.slot
    BY <2>1, <2>2 DEF CallFrame, Leased
  <2>4. \A l \in leases : l.owner = c => call'[c].slot = l.slot /\ call[c].pc \in Holding
    BY <2>1 DEF CallFrame, Leased, Holding
  <2>5. CASE leases' \subseteq leases /\ (call[c].pc \in Holding => call'[c].pc \in Holding \/ \A l \in leases' : l.owner # c)
    BY <2>3, <2>4, <2>5 DEF Leased
  <2>6. CASE leases' \subseteq leases => ~(call[c].pc \in Holding => call'[c].pc \in Holding \/ \A l \in leases' : l.owner # c)
    <3>1. PICK k \in Lease : k.owner = c /\ k.slot = call'[c].slot /\ leases' = leases \cup {k}
      BY <2>1, <2>6 DEF LeaseMove
    <3>2. call'[c].pc \in Holding /\ \A l \in leases : l.owner # c
      BY <2>1, <2>6 DEF LeaseMove
    <3> QED BY <2>3, <3>1, <3>2 DEF Leased
  <2> QED BY <2>5, <2>6
<1>2. ASSUME NEW s \in Slots, LoopStep(s) \/ AgentReads(s)  PROVE Leased'
  <2>1. leases' = leases
    BY <1>2, LoopLeases
  <2>2. call' = call
    BY <1>2, <1>a, LoopShapes, AgentShapes DEF Grounded, Whole
  <2> QED BY <2>1, <2>2 DEF Leased
<1>3. CASE UNCHANGED vars
  BY <1>3 DEF vars, cvars, lvars, Leased
<1> QED BY <1>1, <1>2, <1>3 DEF LoopNext

LEMMA LeasedAlways == LoopSpec => []Leased
<1>1. LInit => Leased
  BY DEF LInit, Init, Leased
<1> QED BY <1>1, GroundedAlways, LeasedStep, PTL DEF LoopSpec

\* A lease belongs to a call in progress, whatever failed in it and whoever cancelled
\* its run, settled its slot or took its message away; only the failing sender lookup
\* keeps one.
THEOREM LeasesComeBack == LoopSpec => []LeasesReturned
<1>1. Leased => LeasesReturned
  BY DEF Leased, LeasesReturned, Holding
<1> QED BY <1>1, LeasedAlways, PTL

InHandPcs == {"reread", "start", "late", "latecancel", "turn", "complete", "fail"}

\* A batch that owns a slot has rows, and is in the hands of the slot's loop unless a
\* failed preparation orphaned it.
InHand(s) == loop[s].batch.op = active[s].op /\ loop[s].pc \in InHandPcs
Filled    == \A s \in Slots : Idle(s) \/ active[s].ids # <<>>
Claimed   == \A s \in Slots : Idle(s) \/ active[s].op \in orphaned \/ InHand(s)

\* Without a claim no batch appears.
Wanes == \A s \in Slots : active'[s].op = 0 \/ (active'[s].op = active[s].op /\ active'[s].ids = active[s].ids)

LEMMA WanesUnlessIssued ==
  ASSUME TypeOK, TypeOK', Ebb, opId' = opId
  PROVE  Wanes
<1>1. \A s \in Slots : active'[s].op \in Nat /\ opId \in Nat
  BY DEF TypeOK, Batch
<1> QED BY <1>1 DEF Ebb, Wanes

\* No call of a caller claims a batch, and none but the claim of a loop.
LEMMA CallersClaimNothing ==
  ASSUME NEW c \in Callers, CallStep(c)
  PROVE  opId' = opId
<1>1. CASE \/ CallAcquire(c) \/ CallAcquireReplacement(c) \/ CallAcquireForRow(c) \/ CallCommitSignal(c)
           \/ CallWriteFails(c) \/ CallCommit(c) \/ CallRejected(c)
  BY <1>1 DEF CallAcquire, CallAcquireReplacement, CallAcquireForRow, CallCommitSignal, CallWriteFails,
       CallCommit, CallRejected, ReleaseLease, AcquireEnqueue, CommitEnqueue, AbortEnqueue, cvars
<1>2. CASE \/ CallRetire(c) \/ CallTakeMetadata(c) \/ CallSupersede(c) \/ CallRetireActive(c) \/ CallCancelRun(c)
  BY <1>2 DEF CallRetire, CallTakeMetadata, CallSupersede, CallRetireActive, CallCancelRun,
       CancelBatch, InterruptBatch, TakeInterruptMetadata, DiscardQueuedExcept, PauseSlot, CancelRun, cvars
<1>3. CASE \/ CallCapture(c) \/ CallPost(c) \/ CallFindRow(c) \/ CallWriteRow(c) \/ CallSenderGone(c)
           \/ CallSettleRow(c) \/ CallNotify(c) \/ CallCheckActive(c) \/ CallCancelTurn(c) \/ CallCancelFails(c)
           \/ CallMarkRead(c) \/ CallMarkReadFails(c) \/ CallMarkDiscarded(c) \/ CallCancelRunTurns(c)
  BY <1>3 DEF CallCapture, CallPost, CallFindRow, CallWriteRow, CallSenderGone,
       CallSettleRow, CallNotify, CallCheckActive, CallCancelTurn, CallCancelFails,
       CallMarkRead, CallMarkReadFails, CallMarkDiscarded, CallCancelRunTurns, cvars
<1> QED BY <1>1, <1>2, <1>3 DEF CallStep

LEMMA LoopsClaimOnly ==
  ASSUME NEW s \in Slots, LoopStep(s), ~LoopClaim(s)
  PROVE  opId' = opId
<1>1. CASE LoopPublish(s) \/ LoopReconcile(s) \/ LoopSettlesSignals(s)
  BY <1>1 DEF LoopPublish, LoopReconcile, LoopSettlesSignals, SetConstraint, ReconcileMailbox,
       CompleteSignals, cvars
<1>2. CASE \/ LoopReread(s) \/ TurnSkipped(s) \/ TurnStarts(s) \/ LateCancelTurn(s) \/ LateCancelBatch(s)
           \/ TurnErrs(s) \/ LoopCompletes(s) \/ LoopFails(s)
  BY <1>2 DEF LoopReread, TurnSkipped, TurnStarts, LateCancelTurn, LateCancelBatch, TurnErrs, LoopCompletes,
       LoopFails, RetryStart, MarkStarted, TakeInterruptMetadata, CancelBatch, CompleteBatch, FailBatch, cvars
<1>3. CASE \/ LoopWake(s) \/ LoopCandidates(s) \/ LoopPeek(s) \/ LoopFindsSignals(s) \/ LoopRests(s)
           \/ LoopPromptFails(s) \/ TurnEnds(s) \/ LoopMarksRead(s)
  BY <1>3 DEF LoopWake, LoopCandidates, LoopPeek, LoopFindsSignals, LoopRests, LoopPromptFails, TurnEnds,
       LoopMarksRead, cvars
<1> QED BY <1>1, <1>2, <1>3 DEF LoopStep

\* What a claim puts in the hands of the loop: a batch with rows.
LEMMA ClaimFills ==
  ASSUME Grounded, Whole', NEW s \in Slots, LoopClaim(s)
  PROVE  /\ active'[s].ids # <<>>
         /\ \A t \in Slots : t # s => active'[t] = active[t]
         /\ loop'[s].batch = active'[s] /\ loop'[s].pc = "reread"
<1>1. Claim(s) /\ loop' = [loop EXCEPT ![s].pc = "reread", ![s].batch = active'[s]]
  BY DEF LoopClaim
<1>2. PICK S \in (SUBSET InLanes(s)) \ {{}} :
        Ids' = Ids /\ \A i \in S : intents'[i].slot = intents[i].slot /\ intents'[i].state = "starting"
  BY <1>1, ClaimTakes DEF Taking, InLanes, Grounded, Whole
<1>3. PICK i \in S : i \in Ids' /\ intents'[i].slot = s /\ intents'[i].state = "starting"
  BY <1>2 DEF InLanes
<1>4. i \in Range(active'[s].ids)
  BY <1>3, After DEF InFlight
<1>5. active'[s].ids # <<>>
  BY <1>4 DEF Range
<1>6. \A t \in Slots : t # s => active'[t] = active[t]
  BY <1>1 DEF Claim, Grounded, Whole, TypeOK
<1>7. loop'[s].batch = active'[s] /\ loop'[s].pc = "reread"
  <2>1. loop \in [Slots -> LoopRec] /\ loop[s] \in LoopRec
    BY DEF Grounded, Locals
  <2> QED BY <1>1, <2>1 DEF LoopRec
<1> QED BY <1>5, <1>6, <1>7

\* A batch that still owns its slot was not cancelled under its loop.
LEMMA CurrentNotCancelled ==
  ASSUME Whole, Filled, NEW s \in Slots, NEW b, Copy(s, b), IsCurrent(s, b)
  PROVE  ~IsBatchCancelled(b)
<1>1. b.ids = active[s].ids /\ active[s].ids # <<>> /\ active[s].ids \in Seq(Nat)
  BY OwnerTypes DEF Copy, Filled, IsCurrent, Idle, Whole
<1>2. 1 \in DOMAIN active[s].ids
  BY <1>1
<1>3. active[s].ids[1] \in InTurn(s)
  BY <1>2 DEF Whole, OwnedExactly, BatchesExact, Range
<1>4. intents[b.ids[1]].state \in InFlight
  BY <1>1, <1>3 DEF InTurn
<1> QED BY <1>1, <1>2, <1>4 DEF IsBatchCancelled, InFlight

\* A loop lets go of its batch only when the batch is gone or orphaned.
LEMMA HandKept ==
  ASSUME Grounded, Filled, Claimed, Wanes, NEW s \in Slots, LoopStep(s), ~LoopClaim(s)
  PROVE  active'[s].op = 0 \/ active'[s].op \in orphaned' \/ InHand(s)'
<1> DEFINE b == loop[s].batch
<1>a. loop \in [Slots -> LoopRec] /\ loop[s] \in LoopRec /\ Copy(s, b)
        /\ \A t \in Slots : active[t].op \in Nat
  BY DEF Grounded, Locals, Copies, Whole, TypeOK, Batch
<1>b. orphaned \subseteq orphaned'
  BY DEF LoopStep, LoopWake, LoopPublish, LoopCandidates, LoopPeek, LoopReconcile, LoopClaim, LoopFindsSignals,
       LoopRests, LoopSettlesSignals, LoopReread, LoopPromptFails, TurnSkipped, TurnStarts, LateCancelTurn,
       LateCancelBatch, TurnErrs, TurnEnds, LoopCompletes, LoopFails, LoopMarksRead
<1> SUFFICES ASSUME active'[s].op # 0, active[s].op \notin orphaned
             PROVE  active'[s].op \in orphaned' \/ InHand(s)'
  BY <1>b DEF Wanes
<1>c. active'[s].op = active[s].op /\ b.op = active[s].op /\ loop[s].pc \in InHandPcs /\ IsCurrent(s, b)
  BY DEF Wanes, Claimed, Idle, InHand, IsCurrent
<1>d. ASSUME NEW pc \in LoopPcs, LGoto(s, pc), pc \in InHandPcs  PROVE InHand(s)'
  BY <1>a, <1>c, <1>d, LGotoFrame DEF InHand
<1>e. active' # Vacate(s)
  <2>1. ASSUME active' = Vacate(s)  PROVE active'[s].op = 0
    BY <2>1 DEF Vacate, NoBatch, Grounded, Whole, TypeOK
  <2> QED BY <2>1
<1>f. InHandPcs \subseteq LoopPcs
  BY DEF InHandPcs, LoopPcs
<1>g. ~IsBatchCancelled(b)
  BY <1>a, <1>c, CurrentNotCancelled DEF Grounded
<1>1. CASE LoopPromptFails(s)
  BY <1>1, <1>c DEF LoopPromptFails
<1>2. CASE LoopReread(s)
  <2>1. LGoto(s, "start")
    BY <1>2, <1>c, <1>e DEF LoopReread, RetryStart
  <2> QED BY <1>d, <1>f, <2>1 DEF InHandPcs
<1>3. CASE TurnSkipped(s)
  BY <1>3, <1>c, <1>e DEF TurnSkipped, RetryStart
<1>4. CASE TurnStarts(s)
  BY <1>4, <1>d, <1>f DEF TurnStarts, InHandPcs
<1>5. CASE LateCancelTurn(s) \/ LateCancelBatch(s)
  BY <1>5, <1>d, <1>f DEF LateCancelTurn, LateCancelBatch, InHandPcs
<1>6. CASE TurnErrs(s)
  BY <1>6, <1>d, <1>f, <1>g DEF TurnErrs, InHandPcs
<1>7. CASE TurnEnds(s)
  BY <1>7, <1>d, <1>f, <1>g DEF TurnEnds, InHandPcs
<1>8. CASE LoopCompletes(s) \/ LoopFails(s)
  BY <1>8, <1>c, <1>e DEF LoopCompletes, LoopFails, CompleteBatch, FailBatch
<1>9. CASE \/ LoopWake(s) \/ LoopPublish(s) \/ LoopCandidates(s) \/ LoopPeek(s) \/ LoopReconcile(s)
           \/ LoopFindsSignals(s) \/ LoopRests(s) \/ LoopSettlesSignals(s) \/ LoopMarksRead(s)
  BY <1>9, <1>c DEF LoopWake, LoopPublish, LoopCandidates, LoopPeek, LoopReconcile, LoopFindsSignals, LoopRests,
       LoopSettlesSignals, LoopMarksRead, LAt, InHandPcs
<1> QED BY <1>1, <1>2, <1>3, <1>4, <1>5, <1>6, <1>7, <1>8, <1>9 DEF LoopStep

LEMMA ClaimedStep ==
  ASSUME Grounded, Filled, Claimed, [LoopNext]_vars
  PROVE  Filled' /\ Claimed'
<1>a. Whole' /\ Ebb /\ TypeOK /\ TypeOK'
  BY CoordinatorKept DEF Grounded, Whole
<1>b. Wanes => Filled'
  BY DEF Wanes, Filled, Idle
<1>c. ASSUME Wanes, NEW t \in Slots, loop'[t] = loop[t], orphaned \subseteq orphaned'
      PROVE  active'[t].op = 0 \/ active'[t].op \in orphaned' \/ InHand(t)'
  BY <1>c DEF Wanes, Claimed, Idle, InHand
<1>1. ASSUME NEW c \in Callers, CallStep(c)  PROVE Filled' /\ Claimed'
  <2>1. Wanes
    BY <1>1, <1>a, CallersClaimNothing, WanesUnlessIssued
  <2>2. loop' = loop /\ orphaned' = orphaned
    BY <1>1, CallShapes DEF Grounded
  <2> QED BY <1>b, <1>c, <2>1, <2>2 DEF Claimed, Idle
<1>2. ASSUME NEW s \in Slots, LoopStep(s), ~LoopClaim(s)  PROVE Filled' /\ Claimed'
  <2>1. Wanes
    BY <1>2, <1>a, LoopsClaimOnly, WanesUnlessIssued
  <2>2. LoopFrame(s)
    BY <1>2, <1>a, LoopShapes DEF Grounded
  <2>3. orphaned \subseteq orphaned'
    BY <1>2 DEF LoopStep, LoopWake, LoopPublish, LoopCandidates, LoopPeek, LoopReconcile, LoopClaim, LoopFindsSignals,
       LoopRests, LoopSettlesSignals, LoopReread, LoopPromptFails, TurnSkipped, TurnStarts, LateCancelTurn,
       LateCancelBatch, TurnErrs, TurnEnds, LoopCompletes, LoopFails, LoopMarksRead
  <2>4. active'[s].op = 0 \/ active'[s].op \in orphaned' \/ InHand(s)'
    BY <1>2, <2>1, HandKept
  <2> QED BY <1>b, <1>c, <2>1, <2>2, <2>3, <2>4 DEF Claimed, Idle, LoopFrame
<1>3. ASSUME NEW s \in Slots, LoopClaim(s)  PROVE Filled' /\ Claimed'
  <2>1. /\ active'[s].ids # <<>>
        /\ \A t \in Slots : t # s => active'[t] = active[t]
        /\ loop'[s].batch = active'[s] /\ loop'[s].pc = "reread"
    BY <1>3, <1>a, ClaimFills
  <2>2. LoopFrame(s) /\ orphaned' = orphaned
    BY <1>3, <1>a, LoopShapes DEF Grounded, LoopStep, LoopClaim
  <2>3. InHand(s)'
    BY <2>1 DEF InHand, InHandPcs
  <2>4. Filled'
    BY <2>1 DEF Filled, Idle
  <2>5. Claimed'
    BY <2>1, <2>2, <2>3 DEF Claimed, Idle, InHand, LoopFrame
  <2> QED BY <2>4, <2>5
<1>4. ASSUME NEW s \in Slots, AgentReads(s)  PROVE Filled' /\ Claimed'
  <2>1. Wanes
    <3>1. opId' = opId
      BY <1>4 DEF AgentReads, AgentCaptures, AgentPeeks, AgentObserves, ObserveMessages, cvars
    <3> QED BY <1>a, <3>1, WanesUnlessIssued
  <2>2. loop' = loop /\ orphaned' = orphaned
    BY <1>4, <1>a, AgentShapes DEF Grounded
  <2> QED BY <1>b, <1>c, <2>1, <2>2 DEF Claimed, Idle
<1>5. CASE UNCHANGED vars
  BY <1>5 DEF vars, cvars, lvars, Filled, Claimed, Idle, InHand
<1> QED BY <1>1, <1>2, <1>3, <1>4, <1>5 DEF LoopNext

LEMMA ClaimedAlways == LoopSpec => [](Filled /\ Claimed)
<1>1. LInit => Filled /\ Claimed
  BY DEF LInit, Init, Filled, Claimed, Idle, NoBatch
<1> QED BY <1>1, GroundedAlways, ClaimedStep, PTL DEF LoopSpec

\* A loop that waits has given back or settled whatever it claimed, on every path out
\* of preparing and running a turn, whoever cancelled or replaced its batch meanwhile.
THEOREM WaitingLoopIsFree == LoopSpec => []WaitingLoopOwnsNothing
<1>1. Claimed => WaitingLoopOwnsNothing
  BY DEF Claimed, InHand, InHandPcs, WaitingLoopOwnsNothing, LAt
<1> QED BY <1>1, ClaimedAlways, PTL


-----------------------------------------------------------------------------
(* Rows and the intents that carry them *)

Box(s) == Range(inbox[s])

\* What a caller adds to the intents: one for the row it wrote, or a signal.  What it
\* ends it cancels; what it gives back is queued.
LEMMA CallAdds ==
  ASSUME Grounded, Leased, NEW c \in Callers, CallStep(c)
  PROVE  /\ \A i \in Ids' \ Ids : \/ intents'[i].msg = NoMsg
                                  \/ /\ intents'[i].msg = c /\ intents'[i].slot = call[c].slot
                                     /\ call[c].pc = "written"
         /\ \A i \in Ids : intents'[i].state \in {intents[i].state, "cancelled", "queued"}
<1>a. TypeOK /\ (\A i \in Ids : intents[i] \in Intent) /\ intents \in Seq(Intent)
  BY OwnerTypes DEF Grounded, Whole, TypeOK
<1>b. ASSUME intents' = intents
      PROVE  /\ Ids' = Ids
             /\ \A i \in Ids : intents'[i].state \in {intents[i].state, "cancelled", "queued"}
  BY <1>b DEF Ids
<1>c. ASSUME NEW S, intents' = WithState(S, "cancelled")
      PROVE  /\ Ids' = Ids
             /\ \A i \in Ids : intents'[i].state \in {intents[i].state, "cancelled", "queued"}
  BY <1>a, <1>c, StateChange
<1>d. ASSUME NEW x, x.msg = NoMsg \/ (x.msg = c /\ x.slot = call[c].slot /\ call[c].pc = "written"),
             intents' = Append(intents, x)
      PROVE  /\ \A i \in Ids' \ Ids : \/ intents'[i].msg = NoMsg
                                      \/ /\ intents'[i].msg = c /\ intents'[i].slot = call[c].slot
                                         /\ call[c].pc = "written"
             /\ \A i \in Ids : intents'[i] = intents[i]
  <2>1. Ids = 1..Len(intents) /\ Len(intents) \in Nat
    BY <1>a, IdsType
  <2>2. /\ Ids' = 1..(Len(intents) + 1)
        /\ \A i \in Ids' : intents'[i] = IF i <= Len(intents) THEN intents[i] ELSE x
    BY <1>a, <1>d, <2>1 DEF Ids
  <2> QED BY <1>d, <2>1, <2>2
<1>1. CASE CallCommit(c)
  <2>1. PICK l \in leases : l.owner = c /\ CommitEnqueue(l, c)
    BY <1>1 DEF CallCommit
  <2>2. intents' = Append(intents, NewIntent(l.slot, l.source, c, l.run)) /\ call[c].pc = "written"
    BY <1>1, <2>1 DEF CommitEnqueue, CallCommit, At
  <2>3. l.slot = call[c].slot
    BY <2>1 DEF Leased
  <2> QED BY <1>d, <2>2, <2>3 DEF NewIntent
<1>2. CASE CallCommitSignal(c)
  <2>1. ASSUME NEW l \in leases, CommitEnqueue(l, NoMsg)
        PROVE  intents' = Append(intents, NewIntent(l.slot, l.source, NoMsg, l.run))
    BY <2>1 DEF CommitEnqueue
  <2>2. intents' = intents \/ \E x : x.msg = NoMsg /\ intents' = Append(intents, x)
    BY <1>2, <2>1 DEF CallCommitSignal, ReleaseLease, AbortEnqueue, cvars, NewIntent
  <2> QED BY <1>b, <1>d, <2>2
<1>3. CASE CallRetire(c)
  BY <1>3, <1>b, <1>c DEF CallRetire, CancelBatch, InterruptBatch, cvars
<1>4. CASE CallSupersede(c)
  BY <1>4, <1>b, <1>c DEF CallSupersede, DiscardQueuedExcept, cvars
<1>5. CASE CallCancelRun(c)
  <2>1. PICK r \in Runs : CancelRun(r)
    BY <1>5 DEF CallCancelRun
  <2>2. intents' = [i \in Ids |-> IF i \in EndedBy(r)  THEN [intents[i] EXCEPT !.state = "cancelled"]
                          ELSE IF i \in Returned(r) THEN [intents[i] EXCEPT !.state = "queued"]
                          ELSE intents[i]]
    BY <2>1 DEF CancelRun
  <2> QED BY <1>a, <2>2 DEF Ids, Intent
<1>6. CASE \/ CallAcquire(c) \/ CallAcquireReplacement(c) \/ CallAcquireForRow(c) \/ CallWriteFails(c) \/ CallRejected(c)
           \/ CallRetireActive(c) \/ CallTakeMetadata(c)
  BY <1>6, <1>b DEF CallAcquire, CallAcquireReplacement, CallAcquireForRow, CallWriteFails, CallRejected,
       CallRetireActive, CallTakeMetadata, ReleaseLease, AcquireEnqueue, AbortEnqueue, PauseSlot, TakeInterruptMetadata, cvars
<1>7. CASE \/ CallCapture(c) \/ CallPost(c) \/ CallFindRow(c) \/ CallWriteRow(c) \/ CallSenderGone(c)
           \/ CallSettleRow(c) \/ CallNotify(c) \/ CallCheckActive(c) \/ CallCancelTurn(c) \/ CallCancelFails(c)
           \/ CallMarkRead(c) \/ CallMarkReadFails(c) \/ CallMarkDiscarded(c) \/ CallCancelRunTurns(c)
  BY <1>7, <1>b DEF CallCapture, CallPost, CallFindRow, CallWriteRow, CallSenderGone,
       CallSettleRow, CallNotify, CallCheckActive, CallCancelTurn, CallCancelFails,
       CallMarkRead, CallMarkReadFails, CallMarkDiscarded, CallCancelRunTurns, cvars
<1> QED BY <1>1, <1>2, <1>3, <1>4, <1>5, <1>6, <1>7 DEF CallStep

\* What reconciliation does to the intents: it completes the stale ones and adds one
\* for each unread row nobody owns.
LEMMA ReconciledIntents ==
  ASSUME Whole, NEW s \in Slots, NEW unread \in Seq(Msgs), NEW cand, ReconcileMailbox(s, unread, cand)
  PROVE  /\ \A i \in Ids' \ Ids : /\ intents'[i].slot = s /\ intents'[i].msg \in Range(unread)
                                  /\ intents'[i].state = "queued"
         /\ \A i \in Ids : /\ i \in Ids'
                           /\ intents'[i].slot = intents[i].slot /\ intents'[i].msg = intents[i].msg
                           /\ intents'[i].state = IF i \in StaleIntents(s, unread, cand) THEN "completed"
                                                  ELSE intents[i].state
         /\ \A m \in Range(unread) : Owned(s, m) \/ \E i \in Ids' \ Ids : intents'[i].msg = m
<1> DEFINE S     == StaleIntents(s, unread, cand)
           K     == {k \in DOMAIN unread : ~Owned(s, unread[k])}
           fresh == Pick(unread, K)
           new   == [j \in 1..Len(fresh) |-> NewIntent(s, "RecoveryDrain", fresh[j], NoRun)]
           old   == WithState(S, "completed")
<1>1. intents' = old \o new
  BY DEF ReconcileMailbox
<1>2. fresh \in Seq(Msgs) /\ Range(fresh) = {unread[k] : k \in K}
  BY PickElements, PickRange
<1>3. Range(fresh) \subseteq Range(unread) /\ \A m \in Range(unread) : Owned(s, m) \/ m \in Range(fresh)
  BY <1>2 DEF Range
<1> HIDE DEF S, fresh
<1>4. old \in Seq(Intent) /\ DOMAIN old = Ids
  BY WithStateType DEF Terminal, Whole
<1>5. Len(fresh) \in Nat /\ DOMAIN fresh = 1..Len(fresh) /\ \A j \in 1..Len(fresh) : fresh[j] \in Msgs
  BY <1>2
<1>6. new \in Seq(Intent) /\ DOMAIN new = 1..Len(fresh)
  <2>1. \A j \in 1..Len(fresh) : NewIntent(s, "RecoveryDrain", fresh[j], NoRun) \in Intent
    BY <1>5, NewIntentType DEF AllSources
  <2>2. new \in [1..Len(fresh) -> Intent]
    BY <2>1
  <2> QED BY <1>5, <2>2
<1>7. \A j \in DOMAIN new : new[j].slot = s /\ new[j].msg = fresh[j] /\ new[j].state = "queued"
  BY <1>6 DEF NewIntent
<1>8. \A i \in Ids : /\ old[i].slot = intents[i].slot /\ old[i].msg = intents[i].msg
                     /\ old[i].state = IF i \in S THEN "completed" ELSE intents[i].state
  BY OwnerTypes DEF WithState, Intent, Whole
<1> HIDE DEF new, old
<1>9. /\ DOMAIN (old \o new) = 1..(Len(old) + Len(new))
      /\ DOMAIN old \subseteq DOMAIN (old \o new)
      /\ \A i \in DOMAIN old : (old \o new)[i] = old[i]
      /\ \A i \in DOMAIN (old \o new) \ DOMAIN old : \E j \in DOMAIN new : (old \o new)[i] = new[j]
  BY <1>4, <1>6, JoinedElements
<1>10. Ids' = DOMAIN (old \o new)
  BY <1>1 DEF Ids
<1>11. \A i \in Ids' \ Ids : \E j \in DOMAIN new : intents'[i] = new[j]
  BY <1>1, <1>4, <1>9, <1>10
<1>12. \A i \in Ids : i \in Ids' /\ intents'[i] = old[i]
  BY <1>1, <1>4, <1>9, <1>10
<1>13. \A j \in DOMAIN new : \E i \in Ids' \ Ids : intents'[i] = new[j]
  <2>1. Len(old) \in Nat /\ DOMAIN old = 1..Len(old) /\ Len(new) \in Nat /\ DOMAIN new = 1..Len(new)
    BY <1>4, <1>6, LenProperties
  <2>2. ASSUME NEW j \in DOMAIN new
        PROVE  /\ Len(old) + j \in 1..(Len(old) + Len(new)) /\ Len(old) + j \notin 1..Len(old)
               /\ (old \o new)[Len(old) + j] = new[j]
    <3>1. Len(old) + j \in 1..(Len(old) + Len(new)) /\ Len(old) + j \notin 1..Len(old)
            /\ ~(Len(old) + j <= Len(old)) /\ (Len(old) + j) - Len(old) = j
      BY <2>1
    <3> QED BY <1>4, <1>6, <3>1, ConcatProperties
  <2> QED BY <1>1, <1>4, <1>9, <1>10, <2>1, <2>2
<1>14. \A m \in Range(fresh) : \E i \in Ids' \ Ids : intents'[i].msg = m
  BY <1>5, <1>6, <1>7, <1>13 DEF Range
<1>15. \A i \in Ids' \ Ids : intents'[i].slot = s /\ intents'[i].msg \in Range(unread) /\ intents'[i].state = "queued"
  <2> SUFFICES ASSUME NEW i \in Ids' \ Ids
               PROVE  intents'[i].slot = s /\ intents'[i].msg \in Range(unread) /\ intents'[i].state = "queued"
    OBVIOUS
  <2>1. PICK j \in DOMAIN new : intents'[i] = new[j]
    BY <1>11
  <2>2. fresh[j] \in Range(fresh)
    BY <1>5, <1>6, <2>1 DEF Range
  <2> QED BY <1>3, <1>7, <2>1, <2>2
<1> QED BY <1>3, <1>8, <1>12, <1>14, <1>15 DEF S

\* A loop adds intents when it reconciles, and only for rows of its snapshot.
LEMMA LoopAdds ==
  ASSUME Grounded, NEW s \in Slots, LoopStep(s)
  PROVE  \/ LoopReconcile(s)
         \/ Ids' = Ids
<1>a. TypeOK /\ \A i \in Ids : intents[i] \in Intent
  BY OwnerTypes DEF Grounded, Whole
<1>b. ASSUME intents' = intents  PROVE Ids' = Ids
  BY <1>b DEF Ids
<1>c. ASSUME NEW S, NEW st, intents' = WithState(S, st)  PROVE Ids' = Ids
  BY <1>a, <1>c, StateChange
<1>1. CASE LoopPublish(s)
  BY <1>1, <1>b DEF LoopPublish, SetConstraint, Ready
<1>2. CASE LoopClaim(s)
  BY <1>2, <1>c DEF LoopClaim, Claim
<1>3. CASE LoopSettlesSignals(s)
  BY <1>3, <1>b, <1>c DEF LoopSettlesSignals, CompleteSignals, cvars
<1>4. CASE LoopReread(s) \/ TurnSkipped(s)
  BY <1>4, <1>b, <1>c DEF LoopReread, TurnSkipped, RetryStart, cvars
<1>5. CASE TurnStarts(s) \/ LateCancelTurn(s) \/ LateCancelBatch(s) \/ TurnErrs(s)
  BY <1>5, <1>b, <1>c DEF TurnStarts, LateCancelTurn, LateCancelBatch, TurnErrs, MarkStarted,
       TakeInterruptMetadata, CancelBatch, cvars
<1>6. CASE LoopCompletes(s) \/ LoopFails(s)
  BY <1>6, <1>b, <1>c DEF LoopCompletes, LoopFails, CompleteBatch, FailBatch, cvars
<1>7. CASE \/ LoopWake(s) \/ LoopCandidates(s) \/ LoopPeek(s) \/ LoopFindsSignals(s) \/ LoopRests(s)
           \/ LoopPromptFails(s) \/ TurnEnds(s) \/ LoopMarksRead(s)
  BY <1>7, <1>b DEF LoopWake, LoopCandidates, LoopPeek, LoopFindsSignals, LoopRests, LoopPromptFails, TurnEnds,
       LoopMarksRead, cvars
<1> QED BY <1>1, <1>2, <1>3, <1>4, <1>5, <1>6, <1>7 DEF LoopStep

\* An agent's reads leave the intents alone.
LEMMA AgentAdds ==
  ASSUME NEW s \in Slots, AgentReads(s)
  PROVE  intents' = intents
BY DEF AgentReads, AgentCaptures, AgentPeeks, AgentObserves, ObserveMessages, cvars

\* A caller's row enters one mailbox, once; rows never leave.
LEMMA BoxMoves ==
  ASSUME Grounded, NEW c \in Callers, CallMove(c), CallFrame(c)
  PROVE  /\ \A s \in Slots : Box(s) \subseteq Range(inbox'[s]) /\ Range(inbox'[s]) \subseteq Box(s) \cup {c}
         /\ inbox' = inbox \/ /\ inbox' # inbox
                              /\ \A s \in Slots : c \notin Box(s)
                              /\ \A s \in Slots : Range(inbox'[s]) = IF s = call'[c].slot THEN Box(s) \cup {c} ELSE Box(s)
<1>1. CASE inbox' = inbox
  BY <1>1 DEF Box
<1>2. CASE inbox' # inbox
  <2>1. /\ call[c].pc \in {"idle", "leased"}
        /\ inbox' = [inbox EXCEPT ![call'[c].slot] = Append(@, c)]
    BY <1>2 DEF CallMove
  <2>2. inbox \in [Slots -> Seq(Msgs)] /\ c \in Msgs
    BY CallersAssumption DEF Grounded, Locals
  <2>3. \A s \in Slots : c \notin Box(s)
    BY <2>1 DEF Grounded, Inboxes, Early, Box
  <2>4. ASSUME NEW s \in Slots, s = call'[c].slot  PROVE Range(inbox'[s]) = Box(s) \cup {c}
    <3>1. inbox'[s] = Append(inbox[s], c) /\ inbox[s] \in Seq(Msgs)
      BY <2>1, <2>2, <2>4
    <3>2. /\ DOMAIN inbox[s] = 1..Len(inbox[s]) /\ Len(inbox[s]) \in Nat
          /\ DOMAIN inbox'[s] = 1..(Len(inbox[s]) + 1)
          /\ \A k \in DOMAIN inbox'[s] : inbox'[s][k] = IF k <= Len(inbox[s]) THEN inbox[s][k] ELSE c
      BY <2>2, <3>1, AppendProperties, LenProperties
    <3>3. \A k \in DOMAIN inbox[s] : k \in DOMAIN inbox'[s] /\ inbox'[s][k] = inbox[s][k]
      BY <3>2
    <3>4. Len(inbox[s]) + 1 \in DOMAIN inbox'[s] /\ inbox'[s][Len(inbox[s]) + 1] = c
      BY <3>2
    <3>5. \A k \in DOMAIN inbox'[s] : inbox'[s][k] = c \/ (k \in DOMAIN inbox[s] /\ inbox'[s][k] = inbox[s][k])
      BY <3>2
    <3> QED BY <3>3, <3>4, <3>5 DEF Box, Range
  <2>5. \A s \in Slots : s # call'[c].slot => Range(inbox'[s]) = Box(s)
    BY <2>1, <2>2 DEF Box
  <2> QED BY <1>2, <2>3, <2>4, <2>5
<1> QED BY <1>1, <1>2

\* How a caller comes to have written its row.
LEMMA CallWrites ==
  ASSUME Grounded, NEW c \in Callers, CallStep(c)
  PROVE  call'[c].pc \in {"posted", "found", "written"} =>
           \/ /\ inbox' = inbox /\ call[c].pc \in {"posted", "found"} /\ call'[c].slot = call[c].slot
           \/ /\ inbox' # inbox
              /\ inbox' = [inbox EXCEPT ![call'[c].slot] = Append(@, c)]
<1>a. call \in [Callers -> CallRec] /\ call[c] \in CallRec /\ call[c].slot \in Slots
        /\ inbox \in [Slots -> Seq(Msgs)] /\ c \in Msgs
  BY CallersAssumption DEF Grounded, Locals, CallRec
<1>b. \A s \in Slots : inbox' = [inbox EXCEPT ![s] = Append(@, c)] => inbox' # inbox
  <2> SUFFICES ASSUME NEW s \in Slots, inbox' = [inbox EXCEPT ![s] = Append(@, c)], inbox' = inbox  PROVE FALSE
    OBVIOUS
  <2>1. inbox[s] = Append(inbox[s], c) /\ inbox[s] \in Seq(Msgs)
    BY <1>a
  <2>2. Len(Append(inbox[s], c)) = Len(inbox[s]) + 1 /\ Len(inbox[s]) \in Nat
    BY <1>a, <2>1
  <2> QED BY <2>1, <2>2
<1>c. {"posted", "found", "leased", "done", "notify", "rejected", "abandoned", "committed", "written", "captured",
       "supersede", "cancelturn", "retire", "take", "markread", "markdiscarded", "cancelturns"} \subseteq CallPcs
  BY DEF CallPcs
<1>d. ASSUME NEW pc \in CallPcs, Goto(c, pc)  PROVE call'[c].pc = pc /\ call'[c].slot = call[c].slot
  BY <1>a, <1>d, GotoFrame
<1>e. ASSUME NEW x, NEW s, NEW pc, NEW b, Start(c, x, s, pc, b)  PROVE call'[c].pc = pc /\ call'[c].slot = s
  BY <1>a, <1>e DEF Start
<1>1. CASE CallPost(c)
  BY <1>1, <1>b, <1>e DEF CallPost
<1>2. CASE CallFindRow(c) \/ CallAcquireForRow(c)
  BY <1>2, <1>c, <1>d DEF CallFindRow, CallAcquireForRow, At
<1>3. CASE CallWriteRow(c)
  BY <1>3, <1>a, <1>b, <1>c, <1>d DEF CallWriteRow
<1>4. CASE CallAcquire(c) \/ CallCapture(c) \/ CallRetireActive(c)
  <2>1. CASE CallAcquire(c)
    BY <1>e, <2>1 DEF CallAcquire
  <2>2. CASE CallCapture(c)
    BY <1>e, <2>2 DEF CallCapture
  <2>3. CASE CallRetireActive(c)
    <3>1. PICK x \in Calls, s \in Slots :
            Start(c, x, s, IF Idle(s) THEN "done" ELSE IF active[s].turn THEN "cancelturn" ELSE "retire", active[s])
      BY <2>3 DEF CallRetireActive
    <3> QED BY <1>e, <3>1
  <2> QED BY <1>4, <2>1, <2>2, <2>3
<1>5. CASE \/ CallAcquireReplacement(c) \/ CallCommitSignal(c) \/ CallWriteFails(c) \/ CallSenderGone(c)
           \/ CallCommit(c) \/ CallRejected(c) \/ CallSettleRow(c) \/ CallNotify(c) \/ CallCheckActive(c)
           \/ CallCancelTurn(c) \/ CallCancelFails(c) \/ CallTakeMetadata(c) \/ CallCancelRunTurns(c)
  <2>1. \E pc \in {"leased", "done", "notify", "rejected", "abandoned", "committed", "supersede", "cancelturn",
                   "retire"} : Goto(c, pc)
    BY <1>5 DEF CallAcquireReplacement, CallCommitSignal, CallWriteFails, CallSenderGone, CallCommit, CallRejected,
         CallSettleRow, CallNotify, CallCheckActive, CallCancelTurn, CallCancelFails, CallTakeMetadata,
         CallCancelRunTurns
  <2> QED BY <1>c, <1>d, <2>1
<1>6. CASE CallRetire(c) \/ CallMarkRead(c) \/ CallMarkReadFails(c) \/ CallSupersede(c) \/ CallMarkDiscarded(c) \/ CallCancelRun(c)
  <2>1. call'[c].pc \in {"done", "markread", "supersede", "cancelturns", "take", "notify", "markdiscarded"}
    <3>1. CASE CallRetire(c)
      BY <3>1, <1>a DEF CallRetire, CallRec
    <3>2. CASE CallMarkRead(c)
      BY <3>2, <1>a DEF CallMarkRead, CallRec
    <3>3. CASE CallMarkReadFails(c) \/ CallMarkDiscarded(c)
      BY <3>3, <1>a DEF CallMarkReadFails, CallMarkDiscarded, CallRec
    <3>4. CASE CallSupersede(c)
      BY <3>4, <1>a DEF CallSupersede, CallRec, Goto
    <3>5. CASE CallCancelRun(c)
      <4>1. \E src, R, H : call' = [call EXCEPT ![c].pc = "markread", ![c].kind = "cancel", ![c].source = src,
                                               ![c].rows = R, ![c].hits = H]
        BY <3>5 DEF CallCancelRun
      <4> QED BY <1>a, <4>1 DEF CallRec
    <3> QED BY <1>6, <3>1, <3>2, <3>3, <3>4, <3>5
  <2> QED BY <2>1
<1> QED BY <1>1, <1>2, <1>3, <1>4, <1>5, <1>6 DEF CallStep

\* Where a loop's step leads, and what it then remembers: the candidates it listed
\* before it reads the mailbox, what it read, and the batch it has claimed.
LoopGoes(s) ==
  /\ \/ loop'[s].unread = <<>> /\ loop'[s].pc # "reconcile"
     \/ loop'[s].unread = loop[s].unread /\ loop'[s].pc # "reconcile"
     \/ /\ loop[s].pc = "peek" /\ loop'[s].pc = "reconcile"
        /\ loop'[s].unread = UnreadOf(s) /\ loop'[s].cand = loop[s].cand
        /\ UNCHANGED <<cvars, readRows, tries>>
  /\ loop'[s].pc = "peek" => LoopCandidates(s) /\ loop'[s].cand = {i \in QueuedIn(s) : intents[i].msg # NoMsg}
  /\ loop'[s].batch \in {NoBatch, loop[s].batch} \/ (LoopClaim(s) /\ loop'[s].batch = active'[s])
  /\ loop'[s].pc = "start" => /\ loop[s].pc = "reread" /\ loop'[s].batch = loop[s].batch
                              /\ RereadComplete(s) /\ UNCHANGED <<cvars, readRows, acked, tries>>
  /\ loop'[s].pc \in {"late", "latecancel", "turn", "complete", "fail"} =>
       /\ loop[s].pc \in {"start", "late", "latecancel", "turn"} /\ loop'[s].batch = loop[s].batch
       /\ loop'[s].pc = "late" => TurnStarts(s)
  /\ loop'[s].pc = "markread" => LoopCompletes(s) \/ LoopFails(s)
  /\ loop'[s].pc = "next" => LoopReconcile(s)

LEMMA LoopsGo ==
  ASSUME Grounded, NEW s \in Slots, LoopStep(s)
  PROVE  LoopGoes(s)
<1>a. loop \in [Slots -> LoopRec] /\ loop[s] \in LoopRec
  BY DEF Grounded, Locals
<1>b. ASSUME NEW pc \in {"wait", "publish", "next"}, loop'[s] = [Waiting EXCEPT !.pc = pc], pc = "next" => LoopReconcile(s)
      PROVE  LoopGoes(s)
  <2>1. loop'[s].batch = NoBatch /\ loop'[s].unread = <<>> /\ loop'[s].pc = pc
    BY <1>b DEF Waiting
  <2> QED BY <1>b, <2>1 DEF LoopGoes
<1>c. Sleep(s) \/ Again(s) => LoopGoes(s)
  <2>1. ASSUME Sleep(s) \/ Again(s)  PROVE LoopGoes(s)
    <3>1. \E pc \in {"wait", "publish", "next"} : loop'[s] = [Waiting EXCEPT !.pc = pc]
      BY <1>a, <2>1, FreshFrame
    <3>2. loop'[s].pc # "next"
      BY <1>a, <2>1, FreshFrame
    <3>3. \A pc \in {"wait", "publish", "next"} : [Waiting EXCEPT !.pc = pc].pc = pc
      BY DEF Waiting
    <3> QED BY <1>b, <3>1, <3>2, <3>3
  <2> QED BY <2>1
<1>d. ASSUME NEW pc \in LoopPcs, LGoto(s, pc)
      PROVE  loop'[s].pc = pc /\ loop'[s].batch = loop[s].batch /\ loop'[s].unread = loop[s].unread
  BY <1>a, <1>d, LGotoFrame
<1>e. {"candidates", "start", "late", "latecancel", "turn", "complete", "fail"} \subseteq LoopPcs
  BY DEF LoopPcs
<1>1. CASE LoopCandidates(s)
  <2>1. loop' = [loop EXCEPT ![s].pc = "peek", ![s].cand = {i \in QueuedIn(s) : intents[i].msg # NoMsg}]
    BY <1>1 DEF LoopCandidates
  <2>2. loop'[s].pc = "peek" /\ loop'[s].cand = {i \in QueuedIn(s) : intents[i].msg # NoMsg}
          /\ loop'[s].batch = loop[s].batch /\ loop'[s].unread = loop[s].unread
    BY <1>a, <2>1 DEF LoopRec
  <2> QED BY <1>1, <2>2 DEF LoopGoes
<1>2. CASE LoopPeek(s)
  <2>1. CASE loop' = [loop EXCEPT ![s].pc = "reconcile", ![s].unread = UnreadOf(s)]
    <3>1. loop'[s].pc = "reconcile" /\ loop'[s].cand = loop[s].cand
          /\ loop'[s].batch = loop[s].batch /\ loop'[s].unread = UnreadOf(s)
      BY <1>a, <2>1 DEF LoopRec
    <3> QED BY <1>2, <3>1 DEF LoopGoes, LoopPeek, LAt
  <2> QED BY <1>2, <1>c, <2>1 DEF LoopPeek
<1>3. CASE LoopReconcile(s)
  <2>1. loop' = [loop EXCEPT ![s] = [Waiting EXCEPT !.pc = "next"]]
    BY <1>3 DEF LoopReconcile
  <2>2. loop'[s] = [Waiting EXCEPT !.pc = "next"]
    BY <1>a, <2>1
  <2> QED BY <1>b, <1>3, <2>2
<1>4. CASE LoopClaim(s)
  <2>1. loop' = [loop EXCEPT ![s].pc = "reread", ![s].batch = active'[s]]
    BY <1>4 DEF LoopClaim
  <2>2. loop'[s].pc = "reread" /\ loop'[s].batch = active'[s] /\ loop'[s].unread = loop[s].unread
    BY <1>a, <2>1 DEF LoopRec
  <2> QED BY <1>4, <2>2 DEF LoopGoes
<1>5. CASE LoopFindsSignals(s)
  <2>1. loop' = [loop EXCEPT ![s].pc = "settle", ![s].ids = SignalsToSettle(s)]
    BY <1>5 DEF LoopFindsSignals
  <2>2. loop'[s].pc = "settle" /\ loop'[s].batch = loop[s].batch /\ loop'[s].unread = loop[s].unread
    BY <1>a, <2>1 DEF LoopRec
  <2> QED BY <2>2 DEF LoopGoes
<1>6. CASE LoopReread(s)
  <2>1. CASE LGoto(s, "start") /\ RereadComplete(s) /\ UNCHANGED cvars
    BY <1>6, <1>d, <1>e, <2>1 DEF LoopReread, LAt, LoopGoes
  <2>2. CASE SleepRefused(s)
    BY <1>a, <2>2, RefusedFrame DEF LoopGoes
  <2> QED BY <1>6, <2>1, <2>2 DEF LoopReread
<1>7. CASE LoopCompletes(s) \/ LoopFails(s)
  <2>1. ASSUME NEW R, loop' = [loop EXCEPT ![s].pc = "markread", ![s].rows = R]
        PROVE  LoopGoes(s)
    <3>1. loop'[s].pc = "markread" /\ loop'[s].batch = loop[s].batch /\ loop'[s].unread = loop[s].unread
      BY <1>a, <2>1 DEF LoopRec
    <3> QED BY <1>7, <3>1 DEF LoopGoes
  <2> QED BY <1>7, <1>c, <2>1 DEF LoopCompletes, LoopFails
<1>8. CASE LoopWake(s) \/ LoopRests(s) \/ LoopSettlesSignals(s) \/ LoopPromptFails(s) \/ TurnSkipped(s) \/ LoopMarksRead(s)
  BY <1>8, <1>c DEF LoopWake, LoopRests, LoopSettlesSignals, LoopPromptFails, TurnSkipped, LoopMarksRead
<1>9. CASE LoopPublish(s)
  BY <1>9, <1>d, <1>e DEF LoopPublish, LoopGoes
<1>10. CASE TurnStarts(s)
  <2>1. \E pc \in {"late", "turn"} : LGoto(s, pc)
    BY <1>10 DEF TurnStarts
  <2> QED BY <1>10, <1>d, <1>e, <2>1 DEF LoopGoes, TurnStarts, LAt
<1>11. CASE LateCancelTurn(s) \/ LateCancelBatch(s)
  BY <1>11, <1>d, <1>e DEF LateCancelTurn, LateCancelBatch, LAt, LoopGoes
<1>12. CASE TurnErrs(s) \/ TurnEnds(s)
  <2>1. Again(s) \/ \E pc \in {"complete", "fail"} : LGoto(s, pc) /\ loop[s].pc \in {"start", "turn"}
    BY <1>12 DEF TurnErrs, TurnEnds, LAt
  <2>2. ASSUME NEW pc \in {"complete", "fail"}, LGoto(s, pc), loop[s].pc \in {"start", "turn"}
        PROVE  LoopGoes(s)
    BY <1>d, <1>e, <2>2 DEF LoopGoes
  <2> QED BY <1>c, <2>1, <2>2
<1> QED BY <1>1, <1>2, <1>3, <1>4, <1>5, <1>6, <1>7, <1>8, <1>9, <1>10, <1>11, <1>12 DEF LoopStep

\* Every intent with a row was made for a row of its slot's mailbox, and a caller
\* that is about to commit has written one; a snapshot lists rows of the mailbox.
Written ==
  /\ \A i \in Ids : intents[i].msg # NoMsg => intents[i].msg \in Box(intents[i].slot)
  /\ \A c \in Callers : call[c].pc \in {"posted", "found", "written"} => c \in Box(call[c].slot)
  /\ \A s \in Slots : Range(loop[s].unread) \subseteq Box(s)

LEMMA WrittenStep ==
  ASSUME Grounded, Leased, Written, [LoopNext]_vars
  PROVE  Written' /\ \A s \in Slots : Box(s) \subseteq Range(inbox'[s])
<1>a. Whole' /\ Fixed /\ TypeOK'
  BY CoordinatorKept DEF Whole
<1>b. \A i \in Ids : intents[i].slot \in Slots /\ intents[i] \in Intent
  BY OwnerTypes DEF Grounded, Whole, Intent
<1>c. call \in [Callers -> CallRec] /\ \A c \in Callers : call[c].slot \in Slots
  BY DEF Grounded, Locals, CallRec
<1>1. ASSUME NEW c \in Callers, CallStep(c)  PROVE Written' /\ \A s \in Slots : Box(s) \subseteq Range(inbox'[s])
  <2>1. Locals' /\ CallFrame(c) /\ loop' = loop /\ CallMove(c)
    BY <1>1, CallShapes, CallMoves DEF Grounded
  <2>2. /\ \A s \in Slots : Box(s) \subseteq Range(inbox'[s])
        /\ inbox' = inbox \/ /\ inbox' # inbox
                             /\ \A s \in Slots : Range(inbox'[s]) = IF s = call'[c].slot THEN Box(s) \cup {c} ELSE Box(s)
    BY <2>1, BoxMoves
  <2>3. \A i \in Ids' : intents'[i].msg # NoMsg => intents'[i].msg \in Range(inbox'[intents'[i].slot])
    <3>1. ASSUME NEW i \in Ids, intents'[i].msg # NoMsg  PROVE intents'[i].msg \in Range(inbox'[intents'[i].slot])
      BY <1>a, <1>b, <2>2, <3>1 DEF Fixed, Written, Box
    <3>2. ASSUME NEW i \in Ids' \ Ids, intents'[i].msg # NoMsg  PROVE intents'[i].msg \in Range(inbox'[intents'[i].slot])
      <4>1. intents'[i].msg = c /\ intents'[i].slot = call[c].slot /\ call[c].pc = "written"
        BY <1>1, <3>2, CallAdds
      <4> QED BY <1>c, <2>2, <4>1 DEF Written, Box
    <3> QED BY <3>1, <3>2
  <2>4. ASSUME NEW d \in Callers, call'[d].pc \in {"posted", "found", "written"}  PROVE d \in Range(inbox'[call'[d].slot])
    <3>1. CASE d # c
      BY <1>c, <2>1, <2>2, <2>4, <3>1 DEF CallFrame, Written, Box
    <3>2. CASE d = c
      <4>1. \/ inbox' = inbox /\ call[c].pc \in {"posted", "found"} /\ call'[c].slot = call[c].slot
            \/ inbox' # inbox
        BY <1>1, <2>4, <3>2, CallWrites
      <4>2. call'[c].slot \in Slots
        BY <2>1 DEF CallFrame, CallRec
      <4> QED BY <1>c, <2>2, <3>2, <4>1, <4>2 DEF Written, Box
    <3> QED BY <3>1, <3>2
  <2>5. \A s \in Slots : Range(loop'[s].unread) \subseteq Range(inbox'[s])
    BY <2>1, <2>2 DEF Written, Box
  <2> QED BY <2>2, <2>3, <2>4, <2>5 DEF Written, Box
<1>2. ASSUME NEW s \in Slots, LoopStep(s)  PROVE Written' /\ \A t \in Slots : Box(t) \subseteq Range(inbox'[t])
  <2>1. LoopFrame(s) /\ call' = call /\ inbox' = inbox
    BY <1>2, <1>a, LoopShapes DEF Grounded
  <2>2. \A t \in Slots : Range(inbox'[t]) = Box(t)
    BY <2>1 DEF Box
  <2>3. \A i \in Ids' : intents'[i].msg # NoMsg => intents'[i].msg \in Range(inbox'[intents'[i].slot])
    <3>1. ASSUME NEW i \in Ids, intents'[i].msg # NoMsg  PROVE intents'[i].msg \in Range(inbox'[intents'[i].slot])
      BY <1>a, <1>b, <2>2, <3>1 DEF Fixed, Written, Box
    <3>2. ASSUME NEW i \in Ids' \ Ids  PROVE intents'[i].msg \in Range(inbox'[intents'[i].slot])
      <4>1. LoopReconcile(s)
        BY <1>2, <3>2, LoopAdds
      <4>2. loop[s].unread \in Seq(Msgs)
        BY DEF Grounded, Locals, LoopRec
      <4>3. intents'[i].slot = s /\ intents'[i].msg \in Range(loop[s].unread)
        BY <3>2, <4>1, <4>2, ReconciledIntents DEF LoopReconcile, Grounded
      <4> QED BY <2>2, <4>3 DEF Written, Box
    <3> QED BY <3>1, <3>2
  <2>4. Range(loop'[s].unread) \subseteq Box(s)
    <3>1. Range(UnreadOf(s)) \subseteq Box(s)
      BY UnreadRows DEF Grounded, Box
    <3>2. Range(<<>>) = {}
      BY DEF Range
    <3> QED BY <1>2, <3>1, <3>2, LoopsGo DEF LoopGoes, Written, Box
  <2> QED BY <1>c, <2>1, <2>2, <2>3, <2>4 DEF Written, LoopFrame, Box
<1>3. ASSUME UNCHANGED <<intents, call, inbox, loop>>  PROVE Written' /\ \A s \in Slots : Box(s) \subseteq Range(inbox'[s])
  BY <1>3 DEF Written, Ids, Box
<1>4. ASSUME NEW s \in Slots, AgentReads(s)  PROVE Written' /\ \A t \in Slots : Box(t) \subseteq Range(inbox'[t])
  BY <1>3, <1>4, AgentShapes, AgentAdds DEF Grounded, Whole
<1>5. CASE UNCHANGED vars
  BY <1>3, <1>5 DEF vars, cvars, lvars
<1> QED BY <1>1, <1>2, <1>4, <1>5 DEF LoopNext

\* From the start, when nothing has been written.
LEMMA WrittenAlways == LoopSpec => []Written
<1>1. LInit => Written
  BY DEF LInit, Init, Written, Waiting, Ids, Range
<1> QED BY <1>1, GroundedAlways, LeasedAlways, WrittenStep, PTL DEF LoopSpec


\* The candidates for staleness that a loop lists carry rows of its mailbox; once it
\* has read the mailbox, each of these rows is in the snapshot or was read already.
Candidates == \A s \in Slots :
  /\ loop[s].pc \in {"peek", "reconcile"} =>
       \A i \in loop[s].cand : i \in Ids /\ intents[i].slot = s /\ intents[i].msg # NoMsg
  /\ loop[s].pc = "reconcile" =>
       \A i \in loop[s].cand : intents[i].msg \in Range(loop[s].unread) \cup readRows

LEMMA CandidatesStep ==
  ASSUME Grounded, Written, Candidates, [LoopNext]_vars
  PROVE  Candidates'
<1>a. Whole' /\ Fixed /\ TypeOK'
  BY CoordinatorKept DEF Whole
<1>b. ASSUME readRows \subseteq readRows', NEW t \in Slots, loop'[t] = loop[t]
      PROVE  /\ loop'[t].pc \in {"peek", "reconcile"} =>
                  \A i \in loop'[t].cand : i \in Ids' /\ intents'[i].slot = t /\ intents'[i].msg # NoMsg
             /\ loop'[t].pc = "reconcile" =>
                  \A i \in loop'[t].cand : intents'[i].msg \in Range(loop'[t].unread) \cup readRows'
  BY <1>a, <1>b DEF Fixed, Candidates
<1>1. ASSUME NEW c \in Callers, CallStep(c)  PROVE Candidates'
  <2>1. loop' = loop /\ readRows \subseteq readRows'
    BY <1>1, CallShapes DEF Grounded
  <2> QED BY <1>b, <2>1 DEF Candidates
<1>2. ASSUME NEW s \in Slots, LoopStep(s)  PROVE Candidates'
  <2>1. LoopFrame(s) /\ readRows \subseteq readRows'
    BY <1>2, <1>a, LoopShapes DEF Grounded
  <2>2. LoopGoes(s)
    BY <1>2, LoopsGo
  <2>3. CASE loop'[s].pc = "peek"
    <3>1. LoopCandidates(s) /\ loop'[s].cand = {i \in QueuedIn(s) : intents[i].msg # NoMsg}
      BY <2>2, <2>3 DEF LoopGoes
    <3>2. intents' = intents
      BY <3>1 DEF LoopCandidates, cvars
    <3>3. \A i \in QueuedIn(s) : i \in Ids /\ intents[i].slot = s
      BY WholeReads DEF Grounded, ReadOff, InLanes
    <3> QED BY <1>b, <2>1, <2>3, <3>1, <3>2, <3>3 DEF Candidates, LoopFrame, Ids
  <2>4. CASE loop'[s].pc = "reconcile"
    <3>1. /\ loop[s].pc = "peek" /\ loop'[s].unread = UnreadOf(s) /\ loop'[s].cand = loop[s].cand
          /\ intents' = intents /\ readRows' = readRows
      BY <2>2, <2>4 DEF LoopGoes, cvars
    <3>2. \A i \in loop[s].cand : i \in Ids /\ intents[i].slot = s /\ intents[i].msg # NoMsg
      BY <3>1 DEF Candidates
    <3>3. \A i \in loop[s].cand : intents[i].msg \in Box(s)
      BY <3>2 DEF Written
    <3>4. Range(UnreadOf(s)) = Box(s) \ readRows
      BY UnreadRows DEF Grounded, Box
    <3> QED BY <1>b, <2>1, <2>4, <3>1, <3>2, <3>3, <3>4 DEF Candidates, LoopFrame, Ids
  <2>5. CASE loop'[s].pc \notin {"peek", "reconcile"}
    BY <1>b, <2>1, <2>5 DEF Candidates, LoopFrame
  <2> QED BY <2>3, <2>4, <2>5
<1>3. ASSUME NEW s \in Slots, AgentReads(s)  PROVE Candidates'
  <2>1. loop' = loop /\ readRows' = readRows
    BY <1>3, AgentShapes DEF Grounded, Whole
  <2> QED BY <1>b, <2>1 DEF Candidates
<1>4. CASE UNCHANGED vars
  BY <1>b, <1>4 DEF vars, lvars, Candidates
<1> QED BY <1>1, <1>2, <1>3, <1>4 DEF LoopNext

LEMMA CandidatesAlways == LoopSpec => []Candidates
<1>1. LInit => Candidates
  BY DEF LInit, Candidates, Waiting
<1> QED BY <1>1, GroundedAlways, WrittenAlways, CandidatesStep, PTL DEF LoopSpec

\* A queued intent that a loop completes carried a row the loop found read, or one it
\* acknowledges.
LEMMA CompletedIsRead ==
  ASSUME Grounded, Candidates, NEW s \in Slots, LoopStep(s),
         NEW i \in Ids, intents[i].state = "queued", intents'[i].state = "completed", intents[i].msg # NoMsg
  PROVE  intents[i].msg \in readRows \cup acked'
<1>a. TypeOK /\ (\A j \in Ids : intents[j] \in Intent) /\ Whole
  BY OwnerTypes DEF Grounded, Whole
<1>b. ASSUME intents' = intents  PROVE FALSE
  BY <1>b
<1>c. ASSUME NEW S, NEW st, intents' = WithState(S, st)  PROVE st = "completed" /\ i \in S
  BY <1>a, <1>c, StateChange
<1>1. CASE LoopReconcile(s)
  <2>1. loop[s].unread \in Seq(Msgs)
    BY DEF Grounded, Locals, LoopRec
  <2>2. intents'[i].state = IF i \in StaleIntents(s, loop[s].unread, loop[s].cand) THEN "completed"
                            ELSE intents[i].state
    BY <1>1, <1>a, <2>1, ReconciledIntents DEF LoopReconcile
  <2>3. i \in loop[s].cand /\ intents[i].msg \notin Range(loop[s].unread) /\ loop[s].pc = "reconcile"
    BY <1>1, <2>2 DEF StaleIntents, LoopReconcile, LAt
  <2> QED BY <2>3 DEF Candidates
<1>2. CASE LoopSettlesSignals(s)
  <2>1. CompleteSignals(s, loop[s].ids)
    BY <1>2, <1>b DEF LoopSettlesSignals, cvars
  <2>2. i \in loop[s].ids
    BY <2>1, <1>c DEF CompleteSignals
  <2> QED BY <2>1, <2>2 DEF CompleteSignals
<1>3. CASE LoopCompletes(s)
  <2> DEFINE done == Range(active[s].ids)
                \cup {j \in Ids : intents[j].slot = s /\ intents[j].msg \in active[s].observed /\ Live(j)}
  <2>1. intents' = WithState(done, "completed") /\ acked' = acked \cup Acked(s)
    BY <1>3, <1>b DEF LoopCompletes, CompleteBatch, cvars
  <2>2. i \in done
    BY <2>1, <1>c
  <2>3. i \notin Range(active[s].ids)
    BY <1>a DEF Whole, OwnedExactly, BatchesExact, InTurn, InFlight
  <2> QED BY <2>1, <2>2, <2>3 DEF Acked
<1>4. CASE LoopPublish(s)
  BY <1>4, <1>b DEF LoopPublish, SetConstraint, Ready
<1>5. CASE LoopClaim(s)
  BY <1>5, <1>c DEF LoopClaim, Claim
<1>6. CASE LoopReread(s) \/ TurnSkipped(s)
  BY <1>6, <1>b, <1>c DEF LoopReread, TurnSkipped, RetryStart, cvars
<1>7. CASE TurnStarts(s) \/ LateCancelTurn(s) \/ LateCancelBatch(s) \/ TurnErrs(s)
  BY <1>7, <1>b, <1>c DEF TurnStarts, LateCancelTurn, LateCancelBatch, TurnErrs, MarkStarted,
       TakeInterruptMetadata, CancelBatch, cvars
<1>8. CASE LoopFails(s)
  BY <1>8, <1>b, <1>c DEF LoopFails, FailBatch, cvars
<1>9. CASE \/ LoopWake(s) \/ LoopCandidates(s) \/ LoopPeek(s) \/ LoopFindsSignals(s) \/ LoopRests(s)
           \/ LoopPromptFails(s) \/ TurnEnds(s) \/ LoopMarksRead(s)
  BY <1>9, <1>b DEF LoopWake, LoopCandidates, LoopPeek, LoopFindsSignals, LoopRests, LoopPromptFails, TurnEnds,
       LoopMarksRead, cvars
<1> QED BY <1>1, <1>2, <1>3, <1>4, <1>5, <1>6, <1>7, <1>8, <1>9 DEF LoopStep

\* Reconciliation writes off no intent whose row is still unread, although callers
\* commit intents and mark rows read between the listing of the candidates, the
\* reading of the mailbox and the reconciliation.
THEOREM StaleIsRead == LoopSpec => UnreadNeverStale
<1> DEFINE A == \A i \in Ids : intents[i].state = "queued" /\ intents'[i].state = "completed"
                      /\ intents[i].msg # NoMsg
                    => intents[i].msg \in readRows \cup acked'
<1>1. ASSUME Grounded, Leased, Candidates, [LoopNext]_vars  PROVE A
  <2>1. ASSUME NEW c \in Callers, CallStep(c)  PROVE A
    BY <1>1, <2>1, CallAdds
  <2>2. ASSUME NEW s \in Slots, LoopStep(s)  PROVE A
    BY <1>1, <2>2, CompletedIsRead
  <2>3. ASSUME NEW s \in Slots, AgentReads(s)  PROVE A
    BY <2>3, AgentAdds
  <2>4. CASE UNCHANGED vars
    BY <2>4 DEF vars, cvars
  <2> QED BY <1>1, <2>1, <2>2, <2>3, <2>4 DEF LoopNext
<1> QED BY <1>1, GroundedAlways, LeasedAlways, CandidatesAlways, PTL DEF LoopSpec, UnreadNeverStale


-----------------------------------------------------------------------------
(* Acknowledged rows *)

\* What an agent has read and what its batch has observed are rows of the slot's
\* mailbox, and so are the rows of the batch its loop holds.
Observing == \A s \in Slots : active[s].observed \subseteq Box(s) /\ peeked[s].rows \subseteq Box(s)
Handed    == \A s \in Slots : \A k \in DOMAIN loop[s].batch.ids :
               loop[s].batch.ids[k] \in Ids /\ intents[loop[s].batch.ids[k]].slot = s

\* Only an agent's read adds to what a batch has observed.
LEMMA CallObserved ==
  ASSUME TypeOK, NEW c \in Callers, CallStep(c)
  PROVE  \A t \in Slots : active'[t].observed \subseteq active[t].observed
<1>a. \A t \in Slots : active[t] \in Batch /\ active \in [Slots -> Batch]
  BY DEF TypeOK
<1>b. ASSUME active' = active  PROVE \A t \in Slots : active'[t].observed \subseteq active[t].observed
  BY <1>b
<1>c. ASSUME NEW u, active' = Vacate(u)  PROVE \A t \in Slots : active'[t].observed \subseteq active[t].observed
  <2>1. \A t \in Slots : active'[t] = active[t] \/ active'[t] = NoBatch
    BY <1>a, <1>c DEF Vacate
  <2> QED BY <2>1 DEF NoBatch
<1>1. CASE CallCancelRun(c)
  <2>1. \A t \in Slots : active'[t] = active[t] \/ active'[t] = NoBatch
    BY <1>1 DEF CallCancelRun, CancelRun
  <2> QED BY <2>1 DEF NoBatch
<1>2. CASE CallRetire(c)
  BY <1>2, <1>b, <1>c DEF CallRetire, CancelBatch, InterruptBatch, cvars
<1>3. CASE \/ CallAcquire(c) \/ CallAcquireReplacement(c) \/ CallAcquireForRow(c) \/ CallCommitSignal(c)
           \/ CallWriteFails(c) \/ CallCommit(c) \/ CallRejected(c)
           \/ CallTakeMetadata(c) \/ CallSupersede(c) \/ CallRetireActive(c)
  BY <1>3, <1>b DEF CallAcquire, CallAcquireReplacement, CallAcquireForRow, CallCommitSignal, CallWriteFails,
     CallCommit, CallRejected, ReleaseLease, AcquireEnqueue, CommitEnqueue, AbortEnqueue, cvars,
     CallTakeMetadata, CallSupersede, CallRetireActive, TakeInterruptMetadata, DiscardQueuedExcept, PauseSlot
<1>4. CASE \/ CallCapture(c) \/ CallPost(c) \/ CallFindRow(c) \/ CallWriteRow(c) \/ CallSenderGone(c)
           \/ CallSettleRow(c) \/ CallNotify(c) \/ CallCheckActive(c) \/ CallCancelTurn(c) \/ CallCancelFails(c)
           \/ CallMarkRead(c) \/ CallMarkReadFails(c) \/ CallMarkDiscarded(c) \/ CallCancelRunTurns(c)
  BY <1>4, <1>b DEF CallCapture, CallPost, CallFindRow, CallWriteRow, CallSenderGone,
     CallSettleRow, CallNotify, CallCheckActive, CallCancelTurn, CallCancelFails,
     CallMarkRead, CallMarkReadFails, CallMarkDiscarded, CallCancelRunTurns, cvars
<1> QED BY <1>1, <1>2, <1>3, <1>4 DEF CallStep

LEMMA LoopObserved ==
  ASSUME TypeOK, NEW s \in Slots, LoopStep(s)
  PROVE  \A t \in Slots : active'[t].observed \subseteq active[t].observed
<1>a. \A t \in Slots : active[t] \in Batch /\ active \in [Slots -> Batch]
  BY DEF TypeOK
<1>b. ASSUME active' = active  PROVE \A t \in Slots : active'[t].observed \subseteq active[t].observed
  BY <1>b
<1>c. ASSUME NEW u, active' = Vacate(u)  PROVE \A t \in Slots : active'[t].observed \subseteq active[t].observed
  <2>1. \A t \in Slots : active'[t] = active[t] \/ active'[t] = NoBatch
    BY <1>a, <1>c DEF Vacate
  <2> QED BY <2>1 DEF NoBatch
<1>1. CASE LoopClaim(s)
  <2>1. \E ids, p : active' = [active EXCEPT ![s] = [op |-> opId + 1, ids |-> ids, prio |-> p,
                                                     turn |-> FALSE, observed |-> {}]]
    BY <1>1 DEF LoopClaim, Claim
  <2>2. \A t \in Slots : active'[t] = active[t] \/ active'[t].observed = {}
    BY <1>a, <2>1
  <2> QED BY <2>2
<1>2. CASE TurnStarts(s)
  <2>1. active' = active \/ active' = [active EXCEPT ![s] = [active[s] EXCEPT !.turn = TRUE]]
    BY <1>2 DEF TurnStarts, MarkStarted, cvars
  <2>2. [active[s] EXCEPT !.turn = TRUE].observed = active[s].observed
    BY <1>a DEF Batch
  <2>3. \A t \in Slots : active'[t].observed = active[t].observed
    BY <1>a, <2>1, <2>2
  <2> QED BY <2>3
<1>3. CASE \/ LoopReread(s) \/ TurnSkipped(s) \/ LateCancelTurn(s) \/ LateCancelBatch(s)
           \/ TurnErrs(s) \/ LoopCompletes(s) \/ LoopFails(s)
  BY <1>3, <1>b, <1>c DEF LoopReread, TurnSkipped, LateCancelTurn, LateCancelBatch, TurnErrs, LoopCompletes,
     LoopFails, RetryStart, TakeInterruptMetadata, CancelBatch, CompleteBatch, FailBatch, cvars
<1>4. CASE \/ LoopWake(s) \/ LoopCandidates(s) \/ LoopPeek(s) \/ LoopFindsSignals(s) \/ LoopRests(s)
           \/ LoopPromptFails(s) \/ TurnEnds(s) \/ LoopMarksRead(s)
           \/ LoopPublish(s) \/ LoopReconcile(s) \/ LoopSettlesSignals(s)
  BY <1>4, <1>b DEF LoopWake, LoopCandidates, LoopPeek, LoopFindsSignals, LoopRests, LoopPromptFails, TurnEnds,
     LoopMarksRead, cvars, LoopPublish, LoopReconcile, LoopSettlesSignals, SetConstraint, Ready,
     ReconcileMailbox, CompleteSignals
<1> QED BY <1>1, <1>2, <1>3, <1>4 DEF LoopStep

\* What an agent's read adds are rows it has read from the mailbox.
LEMMA AgentSees ==
  ASSUME Grounded, NEW s \in Slots, AgentReads(s)
  PROVE  \A t \in Slots : /\ active'[t].observed \subseteq active[t].observed \cup peeked[t].rows
                          /\ peeked'[t].rows \subseteq peeked[t].rows \cup Box(t)
<1>a. active \in [Slots -> Batch] /\ peeked \in [Slots -> PeekRec]
  BY DEF Grounded, Locals, Whole, TypeOK
<1>1. CASE AgentCaptures(s)
  BY <1>1, <1>a DEF AgentCaptures, cvars, PeekRec
<1>2. CASE AgentPeeks(s)
  <2>1. Range(UnreadOf(s)) \subseteq Box(s)
    BY UnreadRows DEF Grounded, Box
  <2>2. peeked' = [peeked EXCEPT ![s].read = TRUE, ![s].rows = Range(UnreadOf(s))] /\ active' = active
    BY <1>2 DEF AgentPeeks, cvars
  <2>3. \A t \in Slots : peeked'[t].rows = IF t = s THEN Range(UnreadOf(s)) ELSE peeked[t].rows
    BY <1>a, <2>2 DEF PeekRec
  <2> QED BY <2>1, <2>2, <2>3
<1>3. CASE AgentObserves(s)
  <2>1. \A t \in Slots : peeked'[t].rows \subseteq peeked[t].rows
    BY <1>3, <1>a DEF AgentObserves, NotPeeking
  <2> DEFINE seen == active[s].observed \cup (peeked[s].rows \ BatchMsgs(active[s]))
  <2>2. active' = active \/ active' = [active EXCEPT ![s] = [active[s] EXCEPT !.observed = seen]]
    BY <1>3 DEF AgentObserves, ObserveMessages, cvars
  <2>4. [active[s] EXCEPT !.observed = seen].observed = seen
    BY <1>a DEF Batch
  <2>5. seen \subseteq active[s].observed \cup peeked[s].rows
    OBVIOUS
  <2>3. \A t \in Slots : active'[t].observed \subseteq active[t].observed \cup peeked[t].rows
    <3> HIDE DEF seen
    <3> QED BY <1>a, <2>2, <2>4, <2>5
  <2> QED BY <2>1, <2>3
<1> QED BY <1>1, <1>2, <1>3 DEF AgentReads

LEMMA ObservingStep ==
  ASSUME Grounded, Leased, Written, Observing, Handed, [LoopNext]_vars
  PROVE  Observing' /\ Handed'
<1>a. Whole' /\ Fixed /\ TypeOK'
  BY CoordinatorKept DEF Whole
<1>b. \A s \in Slots : Box(s) \subseteq Range(inbox'[s])
  BY WrittenStep
<1>c. ASSUME NEW t \in Slots, loop'[t].batch \in {NoBatch, loop[t].batch}
      PROVE  \A k \in DOMAIN loop'[t].batch.ids :
               loop'[t].batch.ids[k] \in Ids' /\ intents'[loop'[t].batch.ids[k]].slot = t
  BY <1>a, <1>c DEF NoBatch, Handed, Fixed
<1>1. ASSUME NEW c \in Callers, CallStep(c)  PROVE Observing' /\ Handed'
  <2>1. UNCHANGED <<loop, peeked>>
    BY <1>1, CallShapes DEF Grounded
  <2>2. \A t \in Slots : active'[t].observed \subseteq active[t].observed
    BY <1>1, CallObserved DEF Grounded, Whole
  <2> QED BY <1>b, <1>c, <2>1, <2>2 DEF Observing, Handed, Box
<1>2. ASSUME NEW s \in Slots, LoopStep(s)  PROVE Observing' /\ Handed'
  <2>1. LoopFrame(s) /\ peeked' = peeked
    BY <1>2, <1>a, LoopShapes DEF Grounded
  <2>2. \A t \in Slots : active'[t].observed \subseteq active[t].observed
    BY <1>2, LoopObserved DEF Grounded, Whole
  <2>3. Observing'
    BY <1>b, <2>1, <2>2 DEF Observing, Box
  <2>4. CASE loop'[s].batch \in {NoBatch, loop[s].batch}
    BY <1>c, <2>1, <2>3, <2>4 DEF Handed, LoopFrame
  <2>5. CASE loop'[s].batch = active'[s]
    <3>1. Range(active'[s].ids) = {i \in Ids' : intents'[i].slot = s /\ intents'[i].state \in InFlight}
      BY <1>a, After
    <3>2. \A k \in DOMAIN active'[s].ids : active'[s].ids[k] \in Range(active'[s].ids)
      BY DEF Range
    <3> QED BY <1>c, <2>1, <2>3, <2>5, <3>1, <3>2 DEF Handed, LoopFrame
  <2> QED BY <1>2, <2>4, <2>5, LoopsGo DEF LoopGoes
<1>3. ASSUME NEW s \in Slots, AgentReads(s)  PROVE Observing' /\ Handed'
  <2>1. loop' = loop /\ inbox' = inbox
    BY <1>3, AgentShapes DEF Grounded, Whole
  <2> QED BY <1>3, <1>c, <2>1, AgentSees DEF Observing, Handed, Box
<1>4. CASE UNCHANGED vars
  BY <1>b, <1>c, <1>4 DEF vars, cvars, lvars, Observing, Handed, Box
<1> QED BY <1>1, <1>2, <1>3, <1>4 DEF LoopNext

LEMMA ObservingAlways == LoopSpec => [](Observing /\ Handed)
<1>1. LInit => Observing /\ Handed
  BY DEF LInit, Init, Observing, Handed, Waiting, NoBatch, NotPeeking
<1> QED BY <1>1, GroundedAlways, LeasedAlways, WrittenAlways, ObservingStep, PTL DEF LoopSpec


\* Whom a step tells of a turn: only a loop starts one, and only its own; it starts
\* none but where it holds a batch it has just read back, or a turn that started late.
LEMMA TurnMoves ==
  ASSUME Grounded
  PROVE  /\ \A c \in Callers : CallStep(c) => \A t \in Slots : turn'[t] = "none" <=> turn[t] = "none"
         /\ \A s \in Slots : LoopStep(s) =>
              /\ \A t \in Slots : t # s => turn'[t] = turn[t]
              /\ turn[s] = "none" /\ turn'[s] # "none" => loop[s].pc \in {"start", "late"}
              /\ TurnStarts(s) => turn'[s] # "none"
<1>a. turn \in [Slots -> {"none", "running", "cancelled"}]
  BY DEF Grounded, Locals
<1>1. ASSUME NEW c \in Callers, CallStep(c)  PROVE \A t \in Slots : turn'[t] = "none" <=> turn[t] = "none"
  <2>1. CASE CallCancelTurn(c) \/ CallCancelRunTurns(c)
    BY <1>a, <2>1 DEF CallCancelTurn, CallCancelRunTurns, CancelTurn
  <2>2. CASE turn' = turn
    BY <2>2
  <2> QED BY <1>1, <2>1, <2>2 DEF CallStep, CallAcquire, CallCapture, CallAcquireReplacement, CallPost, CallFindRow,
        CallAcquireForRow, CallCommitSignal, CallWriteRow, CallWriteFails, CallSenderGone, CallCommit, CallRejected,
        CallSettleRow, CallNotify, CallCheckActive, CallCancelFails, CallRetire, CallMarkRead, CallMarkReadFails,
        CallTakeMetadata, CallSupersede, CallMarkDiscarded, CallRetireActive, CallCancelRun
<1>2. ASSUME NEW s \in Slots, LoopStep(s)
      PROVE  /\ \A t \in Slots : t # s => turn'[t] = turn[t]
             /\ turn[s] = "none" /\ turn'[s] # "none" => loop[s].pc \in {"start", "late"}
             /\ TurnStarts(s) => turn'[s] # "none"
  <2>1. CASE TurnStarts(s) \/ LateCancelTurn(s) \/ TurnErrs(s) \/ TurnEnds(s)
    BY <1>a, <2>1 DEF TurnStarts, LateCancelTurn, TurnErrs, TurnEnds, LAt
  <2>2. CASE turn' = turn /\ ~TurnStarts(s)
    BY <2>2
  <2> QED BY <1>2, <2>1, <2>2 DEF LoopStep, LoopWake, LoopPublish, LoopCandidates, LoopPeek, LoopReconcile, LoopClaim,
        LoopFindsSignals, LoopRests, LoopSettlesSignals, LoopReread, LoopPromptFails, TurnSkipped,
        LateCancelBatch, LoopCompletes, LoopFails, LoopMarksRead
<1> QED BY <1>1, <1>2

\* A loop acknowledges rows only when it completes the batch that owns its slot, and
\* keeps them in hand until it has marked them read.
LEMMA LoopAcks ==
  ASSUME Grounded, NEW s \in Slots, LoopStep(s)
  PROVE  /\ acked' = acked \/ /\ loop[s].pc = "complete" /\ acked' = acked \cup Acked(s)
                              /\ loop'[s].pc = "markread" /\ loop'[s].rows = Acked(s)
         /\ "db" \notin Faults /\ loop[s].pc = "markread" => readRows' = readRows \cup loop[s].rows
<1>a. loop \in [Slots -> LoopRec] /\ loop[s] \in LoopRec
  BY DEF Grounded, Locals
<1>1. CASE LoopCompletes(s)
  <2>1. CASE acked' = acked
    BY <1>1, <2>1 DEF LoopCompletes, LAt
  <2>2. CASE acked' # acked
    <3>1. acked' = acked \cup Acked(s) /\ loop' = [loop EXCEPT ![s].pc = "markread", ![s].rows = Acked(s)]
      BY <1>1, <2>2 DEF LoopCompletes
    <3>2. loop'[s].pc = "markread" /\ loop'[s].rows = Acked(s)
      BY <1>a, <3>1 DEF LoopRec
    <3> QED BY <1>1, <3>1, <3>2 DEF LoopCompletes, LAt
  <2> QED BY <2>1, <2>2
<1>2. CASE LoopMarksRead(s)
  BY <1>2 DEF LoopMarksRead, MarkReadOrFail, MarkRead, MarkFails
<1>3. CASE ~LoopCompletes(s) /\ ~LoopMarksRead(s)
  BY <1>3 DEF LoopStep, LoopWake, LoopPublish, LoopCandidates, LoopPeek, LoopReconcile, LoopClaim,
     LoopFindsSignals, LoopRests, LoopSettlesSignals, LoopReread, LoopPromptFails, TurnSkipped, TurnStarts,
     LateCancelTurn, LateCancelBatch, TurnErrs, TurnEnds, LoopFails, LAt
<1> QED BY <1>1, <1>2, <1>3

\* An acknowledged row is in a mailbox; it has been marked read, or its loop is about
\* to; and the batch a loop is about to run carries none.
Settled ==
  /\ \A m \in acked : \E s \in Slots : m \in Box(s)
  /\ \A s \in Slots : \A m \in Box(s) \cap acked : m \in readRows \/ (loop[s].pc = "markread" /\ m \in loop[s].rows)
  /\ \A s \in Slots : /\ loop[s].pc = "start" => BatchMsgs(loop[s].batch) \cap acked = {}
                      /\ loop[s].pc = "late" => turn[s] # "none"

\* The rows of the batch a loop holds stay the same, and they are rows of its mailbox.
LEMMA HandedRows ==
  ASSUME Grounded, Written, Handed, NEW s \in Slots
  PROVE  /\ BatchMsgs(loop[s].batch) \subseteq Box(s) \cup {NoMsg}
         /\ Fixed => {intents'[loop[s].batch.ids[k]].msg : k \in DOMAIN loop[s].batch.ids} = BatchMsgs(loop[s].batch)
<1>1. \A k \in DOMAIN loop[s].batch.ids : intents[loop[s].batch.ids[k]].msg \in Box(s) \cup {NoMsg}
  BY DEF Handed, Written
<1> QED BY <1>1 DEF BatchMsgs, Fixed, Handed

\* Two mailboxes have no row in common.
LEMMA BoxesDisjoint ==
  ASSUME Grounded, NEW s \in Slots, NEW t \in Slots, s # t
  PROVE  Box(s) \cap Box(t) = {}
BY DEF Grounded, Inboxes, Box

LEMMA SettledStep ==
  ASSUME "db" \notin Faults, Grounded, Leased, Written, Observing, Handed, Settled, [LoopNext]_vars
  PROVE  Settled'
<1>a. Whole' /\ Fixed /\ TypeOK'
  BY CoordinatorKept DEF Whole
<1>b. \A s \in Slots : Box(s) \subseteq Range(inbox'[s])
  BY WrittenStep
<1>c. \A s \in Slots : BatchMsgs(loop[s].batch) \subseteq Box(s) \cup {NoMsg}
  BY HandedRows
<1>d. ASSUME NEW s \in Slots, loop'[s].batch = loop[s].batch
      PROVE  BatchMsgs(loop[s].batch)' = BatchMsgs(loop[s].batch)
  <2>1. BatchMsgs(loop[s].batch)' = {intents'[loop[s].batch.ids[k]].msg : k \in DOMAIN loop[s].batch.ids}
    BY <1>d DEF BatchMsgs
  <2> QED BY <1>a, <2>1, HandedRows
<1>e. NoMsg \notin acked /\ acked \subseteq Msgs
  BY NoneAssumption DEF Grounded, Locals
<1>1. ASSUME NEW c \in Callers, CallStep(c)  PROVE Settled'
  <2>1. loop' = loop /\ acked' = acked /\ readRows \subseteq readRows' /\ CallFrame(c) /\ CallMove(c)
    BY <1>1, CallShapes, CallMoves DEF Grounded
  <2>2. \A s \in Slots : Range(inbox'[s]) \cap acked = Box(s) \cap acked
    <3>1. \/ inbox' = inbox
          \/ /\ \A s \in Slots : c \notin Box(s)
             /\ \A s \in Slots : Range(inbox'[s]) \subseteq Box(s) \cup {c}
      BY <2>1, BoxMoves
    <3>2. (\A s \in Slots : c \notin Box(s)) => c \notin acked
      BY DEF Settled
    <3> QED BY <1>b, <3>1, <3>2 DEF Box
  <2>3. \A s \in Slots : BatchMsgs(loop[s].batch)' = BatchMsgs(loop[s].batch)
    BY <1>d, <2>1
  <2>4. \A s \in Slots : turn'[s] = "none" <=> turn[s] = "none"
    BY <1>1, TurnMoves
  <2>5. \A m \in acked' : \E s \in Slots : m \in Range(inbox'[s])
    BY <1>b, <2>1 DEF Settled
  <2>6. \A s \in Slots : \A m \in Range(inbox'[s]) \cap acked' :
           m \in readRows' \/ (loop'[s].pc = "markread" /\ m \in loop'[s].rows)
    BY <2>1, <2>2 DEF Settled
  <2> QED BY <2>1, <2>3, <2>4, <2>5, <2>6 DEF Settled, Box
<1>2. ASSUME NEW s \in Slots, LoopStep(s)  PROVE Settled'
  <2>1. LoopFrame(s) /\ inbox' = inbox /\ readRows \subseteq readRows'
    BY <1>2, <1>a, LoopShapes DEF Grounded
  <2>2. Acked(s) \subseteq Box(s) \cup {NoMsg} /\ (acked' = acked \/ NoMsg \notin Acked(s))
    <3>1. \A k \in DOMAIN active[s].ids : active[s].ids[k] \in Ids /\ intents[active[s].ids[k]].slot = s
                                          /\ intents[active[s].ids[k]].msg # NoMsg
      BY DEF Grounded, Whole, OwnedExactly, BatchesExact, InTurn, Range
    <3>2. BatchMsgs(active[s]) \subseteq Box(s)
      BY <3>1 DEF BatchMsgs, Written
    <3>3. Box(s) \subseteq Msgs
      BY DEF Grounded, Locals, Box, Range
    <3> QED BY <3>2, <3>3, NoneAssumption DEF Acked, Observing
  <2>3. /\ acked' = acked \/ /\ loop[s].pc = "complete" /\ acked' = acked \cup Acked(s)
                             /\ loop'[s].pc = "markread" /\ loop'[s].rows = Acked(s)
        /\ loop[s].pc = "markread" => readRows' = readRows \cup loop[s].rows
    BY <1>2, LoopAcks
  <2>4. \A t \in Slots : t # s => Box(t) \cap acked' = Box(t) \cap acked
    <3>1. \A t \in Slots : t # s => Box(t) \cap Box(s) = {}
      BY BoxesDisjoint
    <3> QED BY <2>2, <2>3, <3>1
  <2>5. \A m \in acked' : \E t \in Slots : m \in Range(inbox'[t])
    BY <2>1, <2>2, <2>3 DEF Settled, Box
  <2>6. \A t \in Slots : \A m \in Range(inbox'[t]) \cap acked' :
           m \in readRows' \/ (loop'[t].pc = "markread" /\ m \in loop'[t].rows)
    <3>1. ASSUME NEW t \in Slots, t # s, NEW m \in Range(inbox'[t]) \cap acked'
          PROVE  m \in readRows' \/ (loop'[t].pc = "markread" /\ m \in loop'[t].rows)
      BY <2>1, <2>4, <3>1 DEF Settled, LoopFrame, Box
    <3>2. ASSUME NEW m \in Range(inbox'[s]) \cap acked'
          PROVE  m \in readRows' \/ (loop'[s].pc = "markread" /\ m \in loop'[s].rows)
      BY <2>1, <2>3, <3>2 DEF Settled, Box
    <3> QED BY <3>1, <3>2
  <2>7. ASSUME NEW t \in Slots, loop'[t].pc = "start"  PROVE BatchMsgs(loop[t].batch)' \cap acked' = {}
    <3>1. CASE t # s
      <4>1. loop'[t] = loop[t]
        BY <2>1, <3>1 DEF LoopFrame
      <4>2. BatchMsgs(loop[t].batch)' = BatchMsgs(loop[t].batch) /\ BatchMsgs(loop[t].batch) \cap acked = {}
        BY <1>d, <2>7, <4>1 DEF Settled
      <4>3. NoMsg \notin acked'
        BY <1>e, <2>2, <2>3
      <4> QED BY <1>c, <2>4, <3>1, <4>2, <4>3
    <3>2. CASE t = s
      <4>1. loop[s].pc = "reread" /\ loop'[s].batch = loop[s].batch /\ RereadComplete(s) /\ acked' = acked
        BY <1>2, <2>7, <3>2, LoopsGo DEF LoopGoes
      <4>2. BatchMsgs(loop[s].batch)' = BatchMsgs(loop[s].batch)
        BY <1>d, <4>1
      <4>3. Box(s) \cap acked \subseteq readRows
        BY <4>1 DEF Settled
      <4> QED BY <1>c, <1>e, <3>2, <4>1, <4>2, <4>3 DEF RereadComplete
    <3> QED BY <3>1, <3>2
  <2>8. ASSUME NEW t \in Slots, loop'[t].pc = "late"  PROVE turn'[t] # "none"
    <3>1. CASE t # s
      BY <1>2, <2>1, <2>8, <3>1, TurnMoves DEF LoopFrame, Settled
    <3>2. CASE t = s
      BY <1>2, <2>8, <3>2, LoopsGo, TurnMoves DEF LoopGoes
    <3> QED BY <3>1, <3>2
  <2> QED BY <2>5, <2>6, <2>7, <2>8 DEF Settled, Box
<1>3. ASSUME Fixed, UNCHANGED <<inbox, acked, readRows, loop, turn>>  PROVE Settled'
  <2>1. \A s \in Slots : BatchMsgs(loop[s].batch)' = BatchMsgs(loop[s].batch)
    BY <1>3, <1>d
  <2> QED BY <1>3, <2>1 DEF Settled, Box
<1>4. ASSUME NEW s \in Slots, AgentReads(s)  PROVE Settled'
  BY <1>3, <1>4, <1>a, AgentShapes DEF Grounded, Whole
<1>5. CASE UNCHANGED vars
  BY <1>3, <1>5, <1>a DEF vars, lvars
<1> QED BY <1>1, <1>2, <1>4, <1>5 DEF LoopNext

\* A row acknowledged by a successful turn is never put in front of the agent again,
\* as long as marking it read does not fail: not by a later claim, by an intent a caller
\* committed meanwhile, or by a recovery drain.
THEOREM AckedOnce == ASSUME "db" \notin Faults  PROVE LoopSpec => AckedNeverRedelivered
<1> DEFINE A == \A s \in Slots : turn[s] = "none" /\ turn'[s] # "none" =>
                                   BatchMsgs(loop[s].batch) \cap acked = {}
<1>1. LInit => Settled
  BY DEF LInit, Settled, Waiting
<1>2. ASSUME Grounded, Settled, [LoopNext]_vars  PROVE A
  <2>1. ASSUME NEW c \in Callers, CallStep(c)  PROVE A
    BY <1>2, <2>1, TurnMoves
  <2>2. ASSUME NEW s \in Slots, LoopStep(s)  PROVE A
    BY <1>2, <2>2, TurnMoves DEF Settled
  <2>3. ASSUME NEW s \in Slots, AgentReads(s)  PROVE A
    BY <1>2, <2>3, AgentShapes DEF Grounded, Whole
  <2>4. CASE UNCHANGED vars
    BY <2>4 DEF vars, lvars
  <2> QED BY <1>2, <2>1, <2>2, <2>3, <2>4 DEF LoopNext
<1>3. Grounded /\ Leased /\ Written /\ Observing /\ Handed /\ Settled /\ [LoopNext]_vars => Settled'
  BY SettledStep
<1> QED BY <1>1, <1>2, <1>3, GroundedAlways, LeasedAlways, WrittenAlways, ObservingAlways, PTL
        DEF LoopSpec, AckedNeverRedelivered


-----------------------------------------------------------------------------
(* The retry budget of a row *)

Turning == {"start", "late", "latecancel", "turn", "complete", "fail"}

\* In slot s, the failures charged to a row that is still unread are at least those it
\* suffered, and leave room for another unless its loop is about to mark it read; so it
\* is for the rows of a batch that may still fail.  What a snapshot does not list was
\* read or never charged, and no row is charged in a slot whose mailbox it is not in.
SlotBudget(s) ==
  /\ \A m \in Box(s) \ readRows :
       /\ tries[m] <= fails[s][m]
       /\ fails[s][m] < MaxFailures \/ (loop[s].pc = "markread" /\ m \in loop[s].rows)
  /\ loop[s].pc \in Turning /\ IsCurrent(s, loop[s].batch) =>
       \A m \in BatchMsgs(loop[s].batch) : tries[m] <= fails[s][m] /\ fails[s][m] < MaxFailures
  /\ loop[s].pc = "reconcile" =>
       \A m \in Box(s) \ Range(loop[s].unread) : m \in readRows \/ tries[m] = 0
  /\ \A m \in Msgs \ Box(s) : fails[s][m] = 0

Budget ==
  /\ \A s \in Slots : SlotBudget(s)
  /\ \A m \in Msgs : /\ tries[m] <= MaxFailures
                     /\ (\A s \in Slots : m \notin Box(s)) => tries[m] = 0

\* A failing batch charges each of its rows at least once, and no other.
LEMMA Charges ==
  ASSUME TypeOK, NEW s \in Slots, NEW b, b.ids \in Seq(Nat)
  PROVE  \A m \in Msgs : /\ Charged(s, b, m) \in Nat
                         /\ m \in BatchMsgs(b) => Charged(s, b, m) >= fails[s][m] + 1
                         /\ m \notin BatchMsgs(b) => Charged(s, b, m) = fails[s][m]
<1> SUFFICES ASSUME NEW m \in Msgs
             PROVE  /\ Charged(s, b, m) \in Nat
                    /\ m \in BatchMsgs(b) => Charged(s, b, m) >= fails[s][m] + 1
                    /\ m \notin BatchMsgs(b) => Charged(s, b, m) = fails[s][m]
  OBVIOUS
<1> DEFINE K == {k \in DOMAIN b.ids : intents[b.ids[k]].msg = m}
<1>1. IsFiniteSet(K) /\ Cardinality(K) \in Nat
  BY IndicesFinite
<1>2. Cardinality(K) = 0 <=> K = {}
  BY <1>1, FS_EmptySet
<1>3. m \in BatchMsgs(b) <=> K # {}
  BY DEF BatchMsgs
<1>4. fails[s][m] \in Nat
  <2>1. fails[s] \in [Msgs -> 0..MaxFailures]
    BY DEF TypeOK
  <2> QED BY <2>1 DEF MaxFailures
<1>5. Charged(s, b, m) = fails[s][m] + Cardinality(K)
  BY DEF Charged
<1> HIDE DEF K
<1> QED BY <1>1, <1>2, <1>3, <1>4, <1>5

\* The rows of the batch that owns a slot are rows of its mailbox, and a good copy of
\* the batch names the same rows.
LEMMA OwnerRows ==
  ASSUME Grounded, Written, NEW s \in Slots
  PROVE  /\ BatchMsgs(active[s]) \subseteq Box(s)
         /\ \A b : Copy(s, b) /\ IsCurrent(s, b) => BatchMsgs(b) = BatchMsgs(active[s])
<1>1. \A k \in DOMAIN active[s].ids : active[s].ids[k] \in Ids /\ intents[active[s].ids[k]].slot = s
                                      /\ intents[active[s].ids[k]].msg # NoMsg
  BY DEF Grounded, Whole, OwnedExactly, BatchesExact, InTurn, Range
<1>2. BatchMsgs(active[s]) \subseteq Box(s)
  BY <1>1 DEF BatchMsgs, Written
<1>3. \A b : Copy(s, b) /\ IsCurrent(s, b) => b.ids = active[s].ids
  BY DEF Copy, IsCurrent
<1> QED BY <1>2, <1>3 DEF BatchMsgs

\* Forgetting the failures of rows of one mailbox.
Forgives(s) == \E M \in SUBSET Box(s) :
  /\ fails' = Forget(s, M)
  /\ tries' = [m \in Msgs |-> IF m \in M THEN 0 ELSE tries[m]]

\* How callers change what rows are charged with.
LEMMA CallCharges ==
  ASSUME Grounded, Written, NEW c \in Callers, CallStep(c)
  PROVE  UNCHANGED <<fails, tries>> \/ \E s \in Slots : Forgives(s)
<1>1. CASE CallRetire(c)
  <2> DEFINE s == call[c].slot
             b == call[c].before
  <2>1. s \in Slots /\ Copy(s, b)
    BY DEF Grounded, Locals, CallRec, Copies
  <2>2. CASE ~IsCurrent(s, b)
    BY <1>1, <2>2 DEF CallRetire, cvars
  <2>3. CASE IsCurrent(s, b)
    <3>1. fails' = Forget(s, BatchMsgs(b)) /\ tries' = [m \in Msgs |-> IF m \in BatchMsgs(b) THEN 0 ELSE tries[m]]
      BY <1>1, <2>3 DEF CallRetire, CancelBatch, InterruptBatch
    <3>2. BatchMsgs(b) \subseteq Box(s)
      BY <2>1, <2>3, OwnerRows
    <3> QED BY <2>1, <3>1, <3>2 DEF Forgives
  <2> QED BY <2>2, <2>3
<1>2. CASE \/ CallAcquire(c) \/ CallAcquireReplacement(c) \/ CallAcquireForRow(c) \/ CallCommitSignal(c)
           \/ CallWriteFails(c) \/ CallCommit(c) \/ CallRejected(c)
           \/ CallTakeMetadata(c) \/ CallSupersede(c) \/ CallRetireActive(c) \/ CallCancelRun(c)
  BY <1>2 DEF CallAcquire, CallAcquireReplacement, CallAcquireForRow, CallCommitSignal, CallWriteFails,
     CallCommit, CallRejected, ReleaseLease, AcquireEnqueue, CommitEnqueue, AbortEnqueue, cvars, CallTakeMetadata,
     CallSupersede, CallRetireActive, CallCancelRun, TakeInterruptMetadata, DiscardQueuedExcept, PauseSlot, CancelRun
<1>3. CASE \/ CallCapture(c) \/ CallPost(c) \/ CallFindRow(c) \/ CallWriteRow(c) \/ CallSenderGone(c)
           \/ CallSettleRow(c) \/ CallNotify(c) \/ CallCheckActive(c) \/ CallCancelTurn(c) \/ CallCancelFails(c)
           \/ CallMarkRead(c) \/ CallMarkReadFails(c) \/ CallMarkDiscarded(c) \/ CallCancelRunTurns(c)
  BY <1>3 DEF CallCapture, CallPost, CallFindRow, CallWriteRow, CallSenderGone,
     CallSettleRow, CallNotify, CallCheckActive, CallCancelTurn, CallCancelFails,
     CallMarkRead, CallMarkReadFails, CallMarkDiscarded, CallCancelRunTurns, cvars
<1> QED BY <1>1, <1>2, <1>3 DEF CallStep

\* How loops do: besides, reconciliation forgets the rows its snapshot does not list,
\* and a failing batch charges its own.
LoopFailsNow(s) ==
  /\ LoopFails(s) /\ IsCurrent(s, loop[s].batch)
  /\ \/ loop'[s].pc = "publish" /\ Exhausted(s, loop[s].batch) = {}
     \/ loop'[s].pc = "markread" /\ loop'[s].rows = Exhausted(s, loop[s].batch)

LEMMA LoopCharges ==
  ASSUME Grounded, Written, Observing, NEW s \in Slots, LoopStep(s)
  PROVE  \/ UNCHANGED <<fails, tries>>
         \/ Forgives(s)
         \/ /\ LoopReconcile(s) /\ loop'[s].pc = "next" /\ tries' = tries
            /\ fails' = Forget(s, Msgs \ Range(loop[s].unread))
         \/ LoopFailsNow(s)
<1> DEFINE b == loop[s].batch
<1>a. loop \in [Slots -> LoopRec] /\ loop[s] \in LoopRec /\ Copy(s, b)
  BY DEF Grounded, Locals, Copies
<1>b. BatchMsgs(active[s]) \subseteq Box(s) /\ (IsCurrent(s, b) => BatchMsgs(b) \subseteq Box(s))
  BY <1>a, OwnerRows
<1>1. CASE LoopCompletes(s)
  <2>1. Acked(s) \subseteq Box(s)
    BY <1>b DEF Acked, Observing
  <2>2. CASE ~IsCurrent(s, b)
    BY <1>1, <2>2 DEF LoopCompletes, cvars
  <2>3. CASE IsCurrent(s, b)
    BY <1>1, <2>1, <2>3 DEF LoopCompletes, CompleteBatch, Forgives
  <2> QED BY <2>2, <2>3
<1>2. CASE LateCancelBatch(s)
  <2>2. CASE ~IsCurrent(s, b)
    BY <1>2, <2>2 DEF LateCancelBatch, cvars
  <2>3. CASE IsCurrent(s, b)
    BY <1>2, <1>b, <2>3 DEF LateCancelBatch, CancelBatch, Forgives
  <2> QED BY <2>2, <2>3
<1>3. CASE LoopFails(s)
  <2>2. CASE ~IsCurrent(s, b)
    BY <1>3, <2>2 DEF LoopFails, cvars
  <2>3. CASE IsCurrent(s, b)
    <3>1. CASE Exhausted(s, b) = {} /\ Again(s)
      BY <1>3, <1>a, <2>3, <3>1, FreshFrame DEF LoopFailsNow
    <3>2. CASE loop' = [loop EXCEPT ![s].pc = "markread", ![s].rows = Exhausted(s, b)]
      <4>1. loop'[s].pc = "markread" /\ loop'[s].rows = Exhausted(s, b)
        BY <1>a, <3>2 DEF LoopRec
      <4> QED BY <1>3, <2>3, <4>1 DEF LoopFailsNow
    <3> QED BY <1>3, <2>3, <3>1, <3>2 DEF LoopFails
  <2> QED BY <2>2, <2>3
<1>4. CASE LoopReconcile(s)
  <2>1. loop' = [loop EXCEPT ![s] = [Waiting EXCEPT !.pc = "next"]]
    BY <1>4 DEF LoopReconcile
  <2>2. loop'[s].pc = "next"
    BY <1>a, <2>1 DEF Waiting
  <2> QED BY <1>4, <2>2 DEF LoopReconcile, ReconcileMailbox
<1>5. CASE LoopReread(s) \/ TurnSkipped(s) \/ TurnStarts(s) \/ LateCancelTurn(s) \/ TurnErrs(s) \/ LoopClaim(s)
  BY <1>5 DEF LoopReread, TurnSkipped, TurnStarts, LateCancelTurn, TurnErrs, LoopClaim, Claim, RetryStart,
     MarkStarted, TakeInterruptMetadata, cvars
<1>6. CASE \/ LoopWake(s) \/ LoopCandidates(s) \/ LoopPeek(s) \/ LoopFindsSignals(s) \/ LoopRests(s)
           \/ LoopPromptFails(s) \/ TurnEnds(s) \/ LoopMarksRead(s) \/ LoopPublish(s) \/ LoopSettlesSignals(s)
  BY <1>6 DEF LoopWake, LoopCandidates, LoopPeek, LoopFindsSignals, LoopRests, LoopPromptFails, TurnEnds,
     LoopMarksRead, LoopPublish, LoopSettlesSignals, SetConstraint, CompleteSignals, cvars
<1> QED BY <1>1, <1>2, <1>3, <1>4, <1>5, <1>6 DEF LoopStep

\* A copy that owns its slot after a step owned it before.
LEMMA StillCurrent ==
  ASSUME TypeOK, TypeOK', Ebb, NEW s \in Slots, NEW b \in Batch, Copy(s, b), b.op # 0, active'[s].op = b.op
  PROVE  IsCurrent(s, b)
<1>1. opId \in Nat /\ opId' \in Nat /\ b.op \in Nat /\ active'[s].op \in Nat
  BY DEF TypeOK, Batch
<1> QED BY <1>1 DEF Ebb, Copy, IsCurrent


\* Rows that come to the mailbox of t were in none, those charged are of another, and
\* the charges of all others stay or are forgotten.
Mild(t) ==
  /\ \A m \in Range(inbox'[t]) : m \in Box(t) \/ \A u \in Slots : m \notin Box(u)
  /\ \A m \in Msgs : \/ tries'[m] = tries[m] /\ fails'[t][m] = fails[t][m]
                     \/ tries'[m] = 0 /\ fails'[t][m] = 0
                     \/ m \notin Range(inbox'[t]) /\ fails'[t][m] = 0

\* Then a slot whose loop does nothing keeps its budget.
LEMMA MildKeeps ==
  ASSUME Grounded, Written, Handed, Budget, Fixed, Ebb, TypeOK', readRows \subseteq readRows',
         \A s \in Slots : Box(s) \subseteq Range(inbox'[s]) /\ Range(inbox'[s]) \subseteq Msgs,
         NEW t \in Slots, Mild(t), loop'[t] = loop[t]
  PROVE  SlotBudget(t)'
<1> DEFINE b == loop[t].batch
<1>a. SlotBudget(t) /\ TypeOK /\ b \in Batch /\ Copy(t, b)
  BY DEF Budget, Grounded, Locals, Whole, Copies, LoopRec
<1>b. \A m \in Msgs : tries[m] \in Nat /\ fails[t][m] \in Nat
  <2>1. fails[t] \in [Msgs -> 0..MaxFailures] /\ tries \in [Msgs -> Nat]
    BY <1>a DEF TypeOK, Grounded, Locals
  <2> QED BY <2>1 DEF MaxFailures
<1>1. ASSUME NEW m \in Range(inbox'[t]) \ readRows'
      PROVE  /\ tries'[m] <= fails'[t][m]
             /\ fails'[t][m] < MaxFailures \/ (loop'[t].pc = "markread" /\ m \in loop'[t].rows)
  <2>1. CASE m \in Box(t)
    BY <1>1, <1>a, <1>b, <2>1 DEF SlotBudget, Mild, MaxFailures
  <2>2. CASE m \notin Box(t)
    <3>1. tries[m] = 0 /\ fails[t][m] = 0
      BY <1>1, <1>a, <2>2 DEF SlotBudget, Mild, Budget
    <3> QED BY <1>1, <3>1 DEF Mild, MaxFailures
  <2> QED BY <2>1, <2>2
<1>2. ASSUME loop'[t].pc \in Turning, b.op # 0, active'[t].op = b.op, NEW m \in BatchMsgs(b)
      PROVE  tries'[m] <= fails'[t][m] /\ fails'[t][m] < MaxFailures
  <2>1. IsCurrent(t, b)
    BY <1>2, <1>a, StillCurrent
  <2>2. m \in Box(t)
    BY <1>a, <2>1, OwnerRows, <1>2
  <2>3. tries[m] <= fails[t][m] /\ fails[t][m] < MaxFailures
    BY <1>2, <1>a, <2>1 DEF SlotBudget
  <2> QED BY <1>b, <2>2, <2>3 DEF Mild, MaxFailures
<1>3. ASSUME loop'[t].pc = "reconcile", NEW m \in Range(inbox'[t]) \ Range(loop'[t].unread)
      PROVE  m \in readRows' \/ tries'[m] = 0
  <2>1. CASE m \in Box(t)
    BY <1>3, <1>a, <2>1 DEF SlotBudget, Mild
  <2>2. CASE m \notin Box(t)
    BY <1>3, <2>2 DEF Mild, Budget
  <2> QED BY <2>1, <2>2
<1>4. \A m \in Msgs \ Range(inbox'[t]) : fails'[t][m] = 0
  BY <1>a DEF SlotBudget, Mild
<1>5. {intents'[b.ids[k]].msg : k \in DOMAIN b.ids} = BatchMsgs(b)
  BY HandedRows
<1> QED BY <1>1, <1>2, <1>3, <1>4, <1>5 DEF SlotBudget, Box, IsCurrent, BatchMsgs

\* Forgetting is mild for every slot.
LEMMA ForgivingIsMild ==
  ASSUME Grounded, Budget, NEW s \in Slots, Forgives(s),
         \A u \in Slots : Range(inbox'[u]) \subseteq Msgs,
         \A u \in Slots : \A m \in Range(inbox'[u]) : m \in Box(u) \/ \A v \in Slots : m \notin Box(v)
  PROVE  \A t \in Slots : Mild(t)
<1>1. PICK M \in SUBSET Box(s) :
        fails' = Forget(s, M) /\ tries' = [m \in Msgs |-> IF m \in M THEN 0 ELSE tries[m]]
  BY DEF Forgives
<1>2. fails \in [Slots -> [Msgs -> 0..MaxFailures]]
  BY DEF Grounded, Whole, TypeOK
<1>3. ASSUME NEW t \in Slots, NEW m \in Msgs
      PROVE  \/ tries'[m] = tries[m] /\ fails'[t][m] = fails[t][m]
             \/ tries'[m] = 0 /\ fails'[t][m] = 0
  <2>1. fails'[t][m] = IF t = s /\ m \in M THEN 0 ELSE fails[t][m]
    BY <1>1, <1>2 DEF Forget
  <2>2. CASE t # s /\ m \in M
    <3>1. m \notin Box(t)
      BY <1>1, <2>2, BoxesDisjoint
    <3>2. fails[t][m] = 0
      BY <3>1 DEF Budget, SlotBudget
    <3> QED BY <1>1, <2>1, <2>2, <3>2
  <2>3. CASE t = s \/ m \notin M
    BY <1>1, <2>1, <2>3
  <2> QED BY <2>2, <2>3
<1> QED BY <1>3 DEF Mild

\* A row's budget, as the slot's own loop goes on.
LEMMA LoopBudget ==
  ASSUME "db" \notin Faults, Grounded, Leased, Written, Observing, Handed, Budget, [LoopNext]_vars,
         NEW s \in Slots, LoopStep(s)
  PROVE  SlotBudget(s)'
<1> DEFINE b == loop[s].batch
<1>a. Whole' /\ Fixed /\ Ebb /\ TypeOK /\ TypeOK'
  BY CoordinatorKept DEF Whole, Grounded
<1>b. LoopFrame(s) /\ inbox' = inbox /\ readRows \subseteq readRows' /\ LoopGoes(s)
  BY <1>a, LoopShapes, LoopsGo DEF Grounded
<1>c. SlotBudget(s) /\ b \in Batch /\ Copy(s, b) /\ Box(s) \subseteq Msgs /\ Range(inbox'[s]) = Box(s)
  BY <1>b DEF Budget, Grounded, Locals, Copies, LoopRec, Box, Range
<1>d. \A m \in Msgs : tries[m] \in Nat /\ fails[s][m] \in Nat /\ fails'[s][m] \in Nat
  <2>1. fails[s] \in [Msgs -> 0..MaxFailures] /\ fails'[s] \in [Msgs -> 0..MaxFailures] /\ tries \in [Msgs -> Nat]
    BY <1>a DEF TypeOK, Grounded, Locals
  <2> QED BY <2>1 DEF MaxFailures
<1>e. /\ BatchMsgs(b) \subseteq Box(s) \cup {NoMsg}
      /\ {intents'[b.ids[k]].msg : k \in DOMAIN b.ids} = BatchMsgs(b)
      /\ IsCurrent(s, b) => BatchMsgs(b) \subseteq Box(s)
  BY <1>a, <1>c, HandedRows, OwnerRows
<1>f. loop[s].pc = "markread" => readRows' = readRows \cup loop[s].rows
  BY LoopAcks
<1>1. ASSUME \A m \in Msgs : \/ tries'[m] = tries[m] /\ fails'[s][m] = fails[s][m]
                             \/ tries'[m] = 0 /\ fails'[s][m] = 0
      PROVE  SlotBudget(s)'
  <2>1. ASSUME NEW m \in Box(s) \ readRows'
        PROVE  tries'[m] <= fails'[s][m] /\ fails'[s][m] < MaxFailures
    BY <1>1, <1>b, <1>c, <1>d, <1>f, <2>1 DEF SlotBudget, MaxFailures
  <2>2. ASSUME loop'[s].pc \in Turning, loop'[s].batch.op # 0, active'[s].op = loop'[s].batch.op, NEW m \in BatchMsgs(b)
        PROVE  loop'[s].batch = b /\ tries'[m] <= fails'[s][m] /\ fails'[s][m] < MaxFailures
    <3>1. loop'[s].batch = b /\ ((loop[s].pc = "reread" /\ loop'[s].pc = "start") \/ loop[s].pc \in Turning)
      BY <1>b, <2>2 DEF LoopGoes, Turning
    <3>2. IsCurrent(s, b)
      BY <1>a, <1>c, <2>2, <3>1, StillCurrent
    <3>3. CASE loop[s].pc \in Turning
      BY <1>1, <1>c, <1>d, <1>e, <2>2, <3>1, <3>2, <3>3 DEF SlotBudget, MaxFailures
    <3>4. CASE loop[s].pc = "reread" /\ loop'[s].pc = "start"
      <4>1. RereadComplete(s)
        BY <1>b, <3>4 DEF LoopGoes
      <4>2. m \in Box(s) \ readRows
        BY <1>e, <2>2, <3>2, <4>1 DEF RereadComplete
      <4> QED BY <1>1, <1>c, <1>d, <3>1, <3>4, <4>2 DEF SlotBudget, MaxFailures
    <3> QED BY <3>1, <3>3, <3>4
  <2>3. ASSUME loop'[s].pc = "reconcile", NEW m \in Box(s) \ Range(loop'[s].unread)
        PROVE  m \in readRows' \/ tries'[m] = 0
    <3>1. loop'[s].unread = UnreadOf(s)
      BY <1>b, <2>3 DEF LoopGoes
    <3>2. Range(UnreadOf(s)) = Box(s) \ readRows
      BY UnreadRows DEF Grounded, Box
    <3> QED BY <1>b, <2>3, <3>1, <3>2
  <2>4. \A m \in Msgs \ Box(s) : fails'[s][m] = 0
    BY <1>1, <1>c DEF SlotBudget
  <2>5. loop'[s].pc \in Turning => loop'[s].batch = b
    BY <1>b DEF LoopGoes, Turning
  <2>6. loop'[s].pc \in Turning /\ IsCurrent(s, loop[s].batch)' =>
          \A m \in BatchMsgs(loop[s].batch)' : tries'[m] <= fails'[s][m] /\ fails'[s][m] < MaxFailures
    BY <1>e, <2>2, <2>5 DEF IsCurrent, BatchMsgs
  <2> QED BY <1>c, <2>1, <2>3, <2>4, <2>6 DEF SlotBudget, Box
<1>2. CASE UNCHANGED <<fails, tries>>
  BY <1>1, <1>2
<1>3. CASE Forgives(s)
  <2>1. PICK M \in SUBSET Box(s) :
          fails' = Forget(s, M) /\ tries' = [m \in Msgs |-> IF m \in M THEN 0 ELSE tries[m]]
    BY <1>3 DEF Forgives
  <2>2. \A m \in Msgs : fails'[s][m] = IF m \in M THEN 0 ELSE fails[s][m]
    BY <1>a, <2>1 DEF Forget, TypeOK
  <2> QED BY <1>1, <2>1, <2>2
<1>4. CASE LoopReconcile(s) /\ loop'[s].pc = "next" /\ tries' = tries
             /\ fails' = Forget(s, Msgs \ Range(loop[s].unread))
  <2>1. \A m \in Msgs : fails'[s][m] = IF m \in Range(loop[s].unread) THEN fails[s][m] ELSE 0
    BY <1>4, <1>a DEF Forget, TypeOK
  <2>2. loop[s].pc = "reconcile" /\ Range(loop[s].unread) \subseteq Box(s)
    BY <1>4 DEF LoopReconcile, LAt, Written
  <2>3. ASSUME NEW m \in Box(s) \ readRows'
        PROVE  tries'[m] <= fails'[s][m] /\ fails'[s][m] < MaxFailures
    <3>1. m \in Msgs /\ m \notin readRows
      BY <1>b, <1>c, <2>3
    <3>2. tries[m] <= fails[s][m] /\ fails[s][m] < MaxFailures
      BY <1>c, <2>2, <2>3, <3>1 DEF SlotBudget
    <3>3. CASE m \in Range(loop[s].unread)
      BY <1>4, <2>1, <3>1, <3>2, <3>3
    <3>4. CASE m \notin Range(loop[s].unread)
      <4>1. tries[m] = 0
        BY <1>c, <2>2, <2>3, <3>1, <3>4 DEF SlotBudget
      <4> QED BY <1>4, <2>1, <3>1, <3>4, <4>1 DEF MaxFailures
    <3> QED BY <3>3, <3>4
  <2>4. \A m \in Msgs \ Box(s) : fails'[s][m] = 0
    BY <2>1, <2>2
  <2> QED BY <1>4, <1>c, <2>3, <2>4 DEF SlotBudget, Box, Turning
<1>5. CASE LoopFailsNow(s)
  <2>1. /\ IsCurrent(s, b) /\ loop[s].pc = "fail" /\ FailBatch(s, b)
        /\ tries' = [m \in Msgs |-> IF m \in BatchMsgs(b) THEN tries[m] + 1 ELSE tries[m]]
        /\ readRows' = readRows
    BY <1>5 DEF LoopFailsNow, LoopFails, LAt
  <2>2. \A m \in Msgs : fails'[s][m] = IF Charged(s, b, m) < MaxFailures THEN Charged(s, b, m) ELSE MaxFailures
    BY <1>a, <2>1 DEF FailBatch, TypeOK
  <2>3. \A m \in Msgs : /\ Charged(s, b, m) \in Nat
                        /\ m \in BatchMsgs(b) => Charged(s, b, m) >= fails[s][m] + 1
                        /\ m \notin BatchMsgs(b) => Charged(s, b, m) = fails[s][m]
    BY <1>a, <1>c, Charges DEF Batch
  <2>4. ASSUME NEW m \in Box(s) \ readRows'
        PROVE  /\ tries'[m] <= fails'[s][m]
               /\ fails'[s][m] < MaxFailures \/ (loop'[s].pc = "markread" /\ m \in loop'[s].rows)
    <3>1. tries[m] <= fails[s][m] /\ fails[s][m] < MaxFailures /\ m \in Msgs
      BY <1>c, <2>1, <2>4 DEF SlotBudget
    <3>2. CASE m \notin BatchMsgs(b)
      BY <1>d, <2>1, <2>2, <2>3, <3>1, <3>2 DEF MaxFailures
    <3>3. CASE m \in BatchMsgs(b)
      <4>1. tries'[m] <= fails'[s][m]
        BY <1>d, <2>1, <2>2, <2>3, <3>1, <3>3 DEF MaxFailures
      <4>2. CASE Charged(s, b, m) < MaxFailures
        BY <2>2, <3>1, <4>1, <4>2
      <4>3. CASE Charged(s, b, m) >= MaxFailures
        <5>1. m \in Exhausted(s, b)
          BY <3>3, <4>3 DEF Exhausted
        <5> QED BY <1>5, <4>1, <5>1 DEF LoopFailsNow
      <4> QED BY <2>3, <3>1, <4>2, <4>3 DEF MaxFailures
    <3> QED BY <3>2, <3>3
  <2>5. \A m \in Msgs \ Box(s) : fails'[s][m] = 0
    BY <1>c, <1>e, <2>1, <2>2, <2>3 DEF SlotBudget, MaxFailures
  <2>6. loop'[s].pc \in {"publish", "markread"}
    BY <1>5 DEF LoopFailsNow
  <2> QED BY <1>c, <2>4, <2>5, <2>6 DEF SlotBudget, Box, Turning
<1> QED BY <1>2, <1>3, <1>4, <1>5, LoopCharges


LEMMA BudgetStep ==
  ASSUME "db" \notin Faults, Grounded, Leased, Written, Observing, Handed, Budget, [LoopNext]_vars
  PROVE  Budget'
<1>a. Whole' /\ Fixed /\ Ebb /\ TypeOK /\ TypeOK'
  BY CoordinatorKept DEF Whole, Grounded
<1>b. \A s \in Slots : Box(s) \subseteq Range(inbox'[s])
  BY WrittenStep
<1>c. tries \in [Msgs -> Nat]
  BY DEF Grounded, Locals
<1>d. ASSUME readRows \subseteq readRows', loop' = loop, Locals', \A t \in Slots : Mild(t),
             \A m \in Msgs : tries'[m] \in {tries[m], 0}
      PROVE  Budget'
  <2>1. \A s \in Slots : Range(inbox'[s]) \subseteq Msgs
    BY <1>d DEF Locals, Range
  <2>2. \A t \in Slots : SlotBudget(t)'
    BY <1>a, <1>b, <1>d, <2>1, MildKeeps
  <2>3. \A m \in Msgs : /\ tries'[m] <= MaxFailures
                        /\ (\A s \in Slots : m \notin Range(inbox'[s])) => tries'[m] = 0
    BY <1>b, <1>d DEF Budget, MaxFailures
  <2> QED BY <2>2, <2>3 DEF Budget, Box
<1>1. ASSUME NEW c \in Callers, CallStep(c)  PROVE Budget'
  <2>1. loop' = loop /\ Locals' /\ readRows \subseteq readRows' /\ CallFrame(c) /\ CallMove(c)
    BY <1>1, CallShapes, CallMoves DEF Grounded
  <2>2. \A t \in Slots : \A m \in Range(inbox'[t]) : m \in Box(t) \/ \A u \in Slots : m \notin Box(u)
    BY <2>1, BoxMoves DEF Box
  <2>3. \A t \in Slots : Range(inbox'[t]) \subseteq Msgs
    BY <2>1 DEF Locals, Range
  <2>4. CASE UNCHANGED <<fails, tries>>
    BY <1>d, <2>1, <2>2, <2>4 DEF Mild
  <2>5. ASSUME NEW s \in Slots, Forgives(s)  PROVE Budget'
    <3>1. \A t \in Slots : Mild(t)
      BY <2>2, <2>3, <2>5, ForgivingIsMild
    <3>2. \A m \in Msgs : tries'[m] \in {tries[m], 0}
      BY <2>5 DEF Forgives
    <3> QED BY <1>d, <2>1, <3>1, <3>2
  <2> QED BY <1>1, <2>4, <2>5, CallCharges
<1>2. ASSUME NEW s \in Slots, LoopStep(s)  PROVE Budget'
  <2>1. LoopFrame(s) /\ Locals' /\ inbox' = inbox /\ readRows \subseteq readRows'
    BY <1>2, <1>a, LoopShapes DEF Grounded
  <2>2. /\ \A t \in Slots : \A m \in Range(inbox'[t]) : m \in Box(t)
        /\ \A t \in Slots : Range(inbox'[t]) \subseteq Msgs
    BY <2>1 DEF Box, Locals, Range
  <2>3. SlotBudget(s)'
    BY <1>2, LoopBudget
  <2>4. /\ \A t \in Slots : t # s => Mild(t)
        /\ \A m \in Msgs : /\ tries'[m] <= MaxFailures
                           /\ (\A t \in Slots : m \notin Box(t)) => tries'[m] = 0
    <3>1. CASE UNCHANGED <<fails, tries>>
      BY <2>2, <3>1 DEF Mild, Budget
    <3>2. CASE Forgives(s)
      <4>1. \A m \in Msgs : tries'[m] \in {tries[m], 0}
        BY <3>2 DEF Forgives
      <4>2. \A t \in Slots : Mild(t)
        BY <2>2, <3>2, ForgivingIsMild
      <4> QED BY <4>1, <4>2 DEF Budget, MaxFailures
    <3>3. CASE tries' = tries /\ fails' = Forget(s, Msgs \ Range(loop[s].unread))
      <4>1. \A t \in Slots : t # s => fails'[t] = fails[t]
        BY <3>3, <1>a DEF Forget, TypeOK
      <4> QED BY <2>2, <3>3, <4>1 DEF Mild, Budget
    <3>4. CASE LoopFailsNow(s)
      <4> DEFINE b == loop[s].batch
      <4>1. /\ IsCurrent(s, b) /\ loop[s].pc = "fail" /\ FailBatch(s, b)
            /\ tries' = [m \in Msgs |-> IF m \in BatchMsgs(b) THEN tries[m] + 1 ELSE tries[m]]
        BY <3>4 DEF LoopFailsNow, LoopFails, LAt
      <4>2. \A t \in Slots : t # s => fails'[t] = fails[t]
        BY <4>1, <1>a DEF FailBatch, TypeOK
      <4>3. BatchMsgs(b) \subseteq Box(s)
        BY <4>1, OwnerRows DEF Grounded, Copies
      <4>4. \A m \in BatchMsgs(b) : tries[m] <= fails[s][m] /\ fails[s][m] < MaxFailures
        BY <4>1 DEF Budget, SlotBudget, Turning
      <4>5. \A t \in Slots : t # s => Box(t) \cap Box(s) = {}
        BY BoxesDisjoint
      <4>6. fails[s] \in [Msgs -> 0..MaxFailures]
        BY <1>a DEF TypeOK
      <4>7. \A m \in Msgs : /\ tries'[m] <= MaxFailures
                            /\ (\A t \in Slots : m \notin Box(t)) => tries'[m] = 0
        BY <1>c, <4>1, <4>3, <4>4, <4>6 DEF Budget, MaxFailures
      <4>8. ASSUME NEW t \in Slots, t # s, NEW m \in Msgs, m \in BatchMsgs(b)
            PROVE  m \notin Range(inbox'[t]) /\ fails'[t][m] = 0
        <5>1. m \notin Box(t)
          BY <4>3, <4>5, <4>8
        <5> QED BY <2>2, <4>2, <4>8, <5>1 DEF Budget, SlotBudget
      <4>9. \A t \in Slots : t # s => Mild(t)
        <5> HIDE DEF b
        <5> QED BY <2>2, <4>1, <4>2, <4>8 DEF Mild
      <4> QED BY <4>7, <4>9
    <3> QED BY <1>2, <3>1, <3>2, <3>3, <3>4, LoopCharges
  <2>5. \A t \in Slots : t # s => SlotBudget(t)'
    BY <1>a, <1>b, <2>1, <2>2, <2>4, MildKeeps DEF LoopFrame
  <2> QED BY <2>1, <2>3, <2>4, <2>5 DEF Budget, Box
<1>3. ASSUME UNCHANGED <<inbox, readRows, loop, tries, fails>>, Locals'  PROVE Budget'
  <2>1. \A t \in Slots : Mild(t)
    BY <1>3 DEF Mild, Box
  <2> QED BY <1>d, <1>3, <2>1
<1>4. ASSUME NEW s \in Slots, AgentReads(s)  PROVE Budget'
  <2>1. fails' = fails
    BY <1>4 DEF AgentReads, AgentCaptures, AgentPeeks, AgentObserves, ObserveMessages, cvars
  <2> QED BY <1>3, <1>4, <1>a, <2>1, AgentShapes DEF Grounded
<1>5. CASE UNCHANGED vars
  <2>1. Locals'
    BY <1>5 DEF vars, lvars, Grounded, Locals
  <2> QED BY <1>3, <1>5, <2>1 DEF vars, lvars, cvars
<1> QED BY <1>1, <1>2, <1>4, <1>5 DEF LoopNext

\* A row is charged with no more failures than it may have, as long as marking rows read
\* does not fail: a failing batch whose intents recovery drains replaced, or that a
\* caller interrupts while it fails, gets no more attempts than one that is left alone.
THEOREM AttemptsBounded == ASSUME "db" \notin Faults  PROVE LoopSpec => []RetryBudget
<1>1. LInit => Budget
  BY DEF LInit, Init, Budget, SlotBudget, Waiting, Turning, MaxFailures, Range, Box
<1>2. Budget => RetryBudget
  BY DEF Budget, RetryBudget
<1>3. Grounded /\ Leased /\ Written /\ Observing /\ Handed /\ Budget /\ [LoopNext]_vars => Budget'
  BY BudgetStep
<1> QED BY <1>1, <1>2, <1>3, GroundedAlways, LeasedAlways, WrittenAlways, ObservingAlways, PTL DEF LoopSpec


-----------------------------------------------------------------------------
(* No work is stranded *)

Promising == {"committed", "cancelturn", "retire", "markread", "take", "supersede", "markdiscarded", "notify"}
Bringing  == {"posted", "found", "written", "rejected"}
Finishing == {"markread", "markdiscarded"}
Busy      == {"publish", "candidates", "peek", "settle", "reread", "start", "late", "latecancel",
              "turn", "complete", "fail", "markread"}

\* Nothing in the life of a session without restarts and removals closes a slot, and a
\* loop past its publication runs a ready member; a call on its way to an enqueue is one
\* that notifies, and one that cancels a turn interrupts or retires; no batch is orphaned.
Undisturbed ==
  /\ \A s \in Slots : /\ ~removed[s] /\ rt[s].kind \in {"Ready", "Starting"}
                      /\ loop[s].pc \notin {"wait", "publish"} => rt[s].kind = "Ready"
  /\ \A c \in Callers : /\ call[c].pc \in {"captured", "leased"} \cup Bringing => call[c].kind \in Notifying
                        /\ call[c].pc \in {"committed", "cancelturn"} => call[c].kind \in Interrupting \cup Retiring
  /\ orphaned = {}

\* What a caller's step leaves behind of its obligations to notify the loop, to bring
\* its row to its end, and to mark rows read; and what it takes on.
CallGoesOn(c) ==
  /\ call[c].kind \in Notifying /\ call[c].pc \in Promising =>
       call'[c].pc \in Promising \/ permit'[call[c].slot] \/ loop[call[c].slot].pc \in Busy
  /\ call[c].pc \in Bringing => call'[c].pc \in Bringing \cup Promising \/ c \in readRows'
  /\ call[c].pc \in Finishing => call[c].rows \subseteq readRows'
  /\ inbox' # inbox => call'[c].pc \in Bringing
  /\ call'[c].pc \in {"captured", "leased"} \cup Bringing => call'[c].kind \in Notifying
  /\ call'[c].pc \in {"committed", "cancelturn"} => call'[c].kind \in Interrupting \cup Retiring

LEMMA CallsGoOn ==
  ASSUME Faults \subseteq {"cancel"}, Grounded, Claimed, Undisturbed, NEW c \in Callers, CallStep(c)
  PROVE  CallGoesOn(c)
<1>a. call \in [Callers -> CallRec] /\ call[c] \in CallRec /\ call[c].slot \in Slots /\ c \in Msgs
        /\ permit \in [Slots -> BOOLEAN]
  BY CallersAssumption DEF Grounded, Locals, CallRec
<1>b. CallFrame(c)
  BY CallShapes DEF Grounded
<1>c. {"posted", "found", "leased", "done", "notify", "rejected", "abandoned", "committed", "written", "captured",
       "supersede", "cancelturn", "retire", "take", "markread", "markdiscarded", "cancelturns"} \subseteq CallPcs
  BY DEF CallPcs
<1>d. ASSUME NEW pc \in CallPcs, Goto(c, pc)
      PROVE  call'[c].pc = pc /\ call'[c].kind = call[c].kind
  BY <1>a, <1>d, GotoFrame
<1>e. ASSUME NEW x, NEW s, NEW pc, NEW b, Start(c, x, s, pc, b)  PROVE call'[c].pc = pc /\ call'[c].kind = x.kind
  BY <1>a, <1>e DEF Start
<1>f. ASSUME NEW pc \in CallPcs, NEW R, call' = [call EXCEPT ![c].pc = pc, ![c].rows = R]  PROVE call'[c].pc = pc
  BY <1>a, <1>f DEF CallRec
<1>g. ASSUME NEW pc \in CallPcs, NEW R, call' = [call EXCEPT ![c].rows = R, ![c].pc = pc]  PROVE call'[c].pc = pc
  BY <1>a, <1>g DEF CallRec
<1>1. CASE CallAcquire(c) \/ CallCapture(c) \/ CallPost(c)
  <2>1. call[c].pc = "idle" /\ \E pc \in {"leased", "captured", "posted"}, x \in Calls :
          x.kind \in Notifying /\ call'[c].pc = pc /\ call'[c].kind = x.kind /\ (inbox' # inbox => pc = "posted")
    <3>1. CASE CallAcquire(c)
      <4>1. PICK x \in Calls, s \in Slots : x.kind \in {"send", "signal"} /\ Start(c, x, s, "leased", NoBatch)
        BY <3>1 DEF CallAcquire
      <4> QED BY <1>e, <3>1, <4>1 DEF CallAcquire, At, Notifying
    <3>2. CASE CallCapture(c)
      <4>1. PICK x \in Calls, s \in Slots : x.kind \in Interrupting /\ Start(c, x, s, "captured", active[s])
        BY <3>2 DEF CallCapture
      <4> QED BY <1>e, <3>2, <4>1 DEF CallCapture, At, Notifying
    <3>3. CASE CallPost(c)
      <4>1. PICK x \in Calls, s \in Slots : x.kind = "notice" /\ Start(c, x, s, "posted", NoBatch)
        BY <3>3 DEF CallPost
      <4> QED BY <1>e, <3>3, <4>1 DEF CallPost, At, Notifying
    <3> QED BY <1>1, <3>1, <3>2, <3>3
  <2> QED BY <2>1 DEF CallGoesOn, Promising, Bringing, Finishing
<1>2. CASE CallRetireActive(c)
  <2>1. /\ call[c].pc = "idle" /\ call'[c].pc \in {"done", "cancelturn", "retire"} /\ inbox' = inbox
        /\ call'[c].kind \in Retiring
    <3>1. PICK x \in Calls, s \in Slots :
            x.kind \in Retiring /\ Start(c, x, s, IF Idle(s) THEN "done" ELSE IF active[s].turn THEN "cancelturn" ELSE "retire", active[s])
      BY <1>2 DEF CallRetireActive, Retiring
    <3>2. call'[c].pc = (IF Idle(s) THEN "done" ELSE IF active[s].turn THEN "cancelturn" ELSE "retire")
            /\ call'[c].kind \in Retiring
      BY <3>1, <1>e
    <3> QED BY <1>2, <3>2 DEF CallRetireActive, At
  <2> QED BY <2>1 DEF CallGoesOn, Promising, Bringing, Finishing
<1>3. CASE CallCancelRun(c)
  <2>1. call'[c].pc = "markread"
    <3>1. PICK x, R, H : call' = [call EXCEPT ![c].pc = "markread", ![c].kind = "cancel", ![c].source = x.source,
                                              ![c].rows = R, ![c].hits = H]
      BY <1>3 DEF CallCancelRun
    <3> QED BY <1>a, <3>1 DEF CallRec
  <2>2. call[c].pc = "idle" /\ inbox' = inbox
    BY <1>3 DEF CallCancelRun, At
  <2> QED BY <2>1, <2>2 DEF CallGoesOn, Promising, Bringing, Finishing
<1>4. CASE CallAcquireReplacement(c)
  <2>1. Goto(c, "leased") /\ call[c].pc = "captured" /\ inbox' = inbox
    BY <1>4 DEF CallAcquireReplacement, At
  <2> QED BY <1>c, <1>d, <2>1 DEF CallGoesOn, Promising, Bringing, Finishing, Undisturbed
<1>5. CASE CallFindRow(c)
  <2>1. Goto(c, IF c \in readRows THEN "done" ELSE "found") /\ call[c].pc = "posted" /\ UNCHANGED <<inbox, readRows>>
    BY <1>5 DEF CallFindRow, At
  <2> QED BY <1>c, <1>d, <2>1 DEF CallGoesOn, Promising, Bringing, Finishing, Undisturbed
<1>6. CASE CallAcquireForRow(c)
  <2>1. Accepts(call[c].slot)
    BY <1>a DEF Undisturbed, Accepts
  <2>2. Goto(c, "written") /\ call[c].pc = "found" /\ inbox' = inbox
    BY <1>6, <2>1 DEF CallAcquireForRow, At
  <2> QED BY <1>c, <1>d, <2>2 DEF CallGoesOn, Promising, Bringing, Finishing, Undisturbed
<1>7. CASE CallWriteRow(c)
  <2>1. Goto(c, "written") /\ call[c].pc = "leased"
    BY <1>7 DEF CallWriteRow, At
  <2> QED BY <1>c, <1>d, <2>1 DEF CallGoesOn, Promising, Bringing, Finishing, Undisturbed
<1>8. CASE CallWriteFails(c) \/ CallSenderGone(c) \/ CallMarkReadFails(c)
  BY <1>8 DEF CallWriteFails, CallSenderGone, CallMarkReadFails, MarkFails
<1>22. CASE CallCancelFails(c)
  <2>1. \E pc \in {"retire", "done"} : Goto(c, pc) /\ call[c].pc = "cancelturn" /\ inbox' = inbox
          /\ (pc = "done" => call[c].kind \notin Interrupting \/ StillActive(c))
    BY <1>22 DEF CallCancelFails, At
  <2>2. StillActive(c) => loop[call[c].slot].pc \in Busy
    BY <1>a DEF StillActive, IsCurrent, Claimed, Undisturbed, Idle, InHand, InHandPcs, Busy
  <2>3. call[c].kind \in Notifying => call[c].kind \in Interrupting
    BY <2>1 DEF Undisturbed, Notifying, Interrupting, Retiring
  <2> QED BY <1>c, <1>d, <2>1, <2>2, <2>3 DEF CallGoesOn, Promising, Bringing, Finishing
<1>9. CASE CallCommit(c)
  <2>1. \E pc \in {"committed", "notify"} : Goto(c, pc) /\ call[c].pc = "written" /\ inbox' = inbox
          /\ (pc = "committed" => call[c].kind \in Interrupting)
    BY <1>9 DEF CallCommit, At
  <2> QED BY <1>c, <1>d, <2>1 DEF CallGoesOn, Promising, Bringing, Finishing
<1>10. CASE CallCommitSignal(c)
  <2>1. \E pc \in {"notify", "done"} : Goto(c, pc) /\ call[c].pc = "leased" /\ inbox' = inbox
    BY <1>10 DEF CallCommitSignal, At
  <2> QED BY <1>c, <1>d, <2>1 DEF CallGoesOn, Promising, Bringing, Finishing
<1>11. CASE CallRejected(c)
  <2>1. Goto(c, "rejected") /\ call[c].pc = "written" /\ inbox' = inbox
    BY <1>11 DEF CallRejected, At
  <2> QED BY <1>c, <1>d, <2>1 DEF CallGoesOn, Promising, Bringing, Finishing, Undisturbed
<1>12. CASE CallSettleRow(c)
  <2>1. Goto(c, "done") /\ call[c].pc = "rejected" /\ inbox' = inbox /\ c \in readRows'
    BY <1>12 DEF CallSettleRow, At, MarkReadOrFail, MarkRead, MarkFails
  <2> QED BY <1>c, <1>d, <2>1 DEF CallGoesOn, Promising, Bringing, Finishing
<1>13. CASE CallNotify(c)
  <2>1. Goto(c, "done") /\ call[c].pc = "notify" /\ inbox' = inbox /\ permit' = [permit EXCEPT ![call[c].slot] = TRUE]
    BY <1>13 DEF CallNotify, At, Notify
  <2> QED BY <1>a, <1>c, <1>d, <2>1 DEF CallGoesOn, Promising, Bringing, Finishing
<1>14. CASE CallCheckActive(c)
  <2>1. \E pc \in {"supersede", "cancelturn", "retire"} : Goto(c, pc) /\ call[c].pc = "committed" /\ inbox' = inbox
    BY <1>14 DEF CallCheckActive, At
  <2> QED BY <1>c, <1>d, <2>1 DEF CallGoesOn, Promising, Bringing, Finishing, Undisturbed
<1>15. CASE CallCancelTurn(c)
  <2>1. Goto(c, "retire") /\ call[c].pc = "cancelturn" /\ inbox' = inbox
    BY <1>15 DEF CallCancelTurn, At
  <2> QED BY <1>c, <1>d, <2>1 DEF CallGoesOn, Promising, Bringing, Finishing
<1>16. CASE CallRetire(c)
  <2> DEFINE goes == IF call[c].kind \in Retiring THEN "done"
                     ELSE IF IsCurrent(call[c].slot, call[c].before) THEN "markread" ELSE "supersede"
             ended == IF IsCurrent(call[c].slot, call[c].before) THEN BatchMsgs(call[c].before) ELSE {}
  <2>1. call' = [call EXCEPT ![c].pc = goes, ![c].rows = ended] /\ call[c].pc = "retire" /\ inbox' = inbox
    BY <1>16 DEF CallRetire, At
  <2>2. goes \in {"done", "markread", "supersede"} /\ (goes = "done" => call[c].kind \in Retiring)
    OBVIOUS
  <2>3. call[c].kind \in Notifying => goes # "done"
    BY <2>2 DEF Notifying, Interrupting, Retiring
  <2> HIDE DEF goes, ended
  <2> QED BY <1>c, <1>f, <2>1, <2>2, <2>3 DEF CallGoesOn, Promising, Bringing, Finishing
<1>17. CASE CallMarkRead(c)
  <2>1. PICK pc \in {"cancelturns", "take", "supersede"} :
          /\ call' = [call EXCEPT ![c].rows = {}, ![c].pc = pc] /\ call[c].pc = "markread" /\ inbox' = inbox
          /\ pc = "cancelturns" => call[c].kind = "cancel"
          /\ readRows' = readRows \cup call[c].rows
    <3>1. CASE call[c].kind = "cancel"
      <4>1. call' = [call EXCEPT ![c].rows = {}, ![c].pc = "cancelturns"]
        BY <1>17, <3>1 DEF CallMarkRead
      <4> QED BY <1>17, <3>1, <4>1 DEF CallMarkRead, At, MarkRead
    <3>2. CASE call[c].kind # "cancel" /\ call[c].before.turn
      BY <1>17, <3>2 DEF CallMarkRead, At, MarkRead
    <3>3. CASE call[c].kind # "cancel" /\ ~call[c].before.turn
      BY <1>17, <3>3 DEF CallMarkRead, At, MarkRead
    <3> QED BY <3>1, <3>2, <3>3
  <2>2. call[c].kind \in Notifying => pc # "cancelturns"
    BY <2>1 DEF Notifying, Interrupting
  <2> QED BY <1>c, <1>g, <2>1, <2>2 DEF CallGoesOn, Promising, Bringing, Finishing
<1>18. CASE CallTakeMetadata(c)
  <2>1. Goto(c, "supersede") /\ call[c].pc = "take" /\ inbox' = inbox
    BY <1>18 DEF CallTakeMetadata, At
  <2> QED BY <1>c, <1>d, <2>1 DEF CallGoesOn, Promising, Bringing, Finishing
<1>19. CASE CallSupersede(c)
  <2>1. \/ \E R : call' = [call EXCEPT ![c].pc = "markdiscarded", ![c].rows = R]
        \/ Goto(c, "notify")
    BY <1>19 DEF CallSupersede
  <2>2. call[c].pc = "supersede" /\ inbox' = inbox
    BY <1>19 DEF CallSupersede, At
  <2>3. call'[c].pc \in {"markdiscarded", "notify"}
    BY <1>c, <1>d, <1>f, <2>1
  <2> QED BY <2>2, <2>3 DEF CallGoesOn, Promising, Bringing, Finishing
<1>20. CASE CallMarkDiscarded(c)
  <2>1. /\ call' = [call EXCEPT ![c].pc = "notify", ![c].rows = {}] /\ call[c].pc = "markdiscarded" /\ inbox' = inbox
        /\ readRows' = readRows \cup call[c].rows
    BY <1>20 DEF CallMarkDiscarded, At, MarkRead
  <2> QED BY <1>c, <1>f, <2>1 DEF CallGoesOn, Promising, Bringing, Finishing
<1>21. CASE CallCancelRunTurns(c)
  <2>1. Goto(c, "done") /\ call[c].pc = "cancelturns" /\ inbox' = inbox
    BY <1>21 DEF CallCancelRunTurns, At
  <2> QED BY <1>c, <1>d, <2>1 DEF CallGoesOn, Promising, Bringing, Finishing
<1> QED BY <1>1, <1>2, <1>3, <1>4, <1>5, <1>6, <1>7, <1>8, <1>9, <1>10, <1>11, <1>12, <1>13, <1>14, <1>15, <1>16,
           <1>17, <1>18, <1>19, <1>20, <1>21, <1>22 DEF CallStep


\* What a caller's step does to the slots: a permit stays, a pause ends only for a
\* caller that goes on to notify, and a queued intent that ends was one of the rows
\* the caller goes on to mark read.
LEMMA CallLeaves ==
  ASSUME Grounded, Leased, Undisturbed, NEW c \in Callers, CallStep(c)
  PROVE  /\ removed' = removed /\ rt' = rt
         /\ \A s \in Slots : permit[s] => permit'[s]
         /\ \A s \in Slots : paused[s] => \/ paused'[s]
                                          \/ /\ call'[c].slot = s /\ call'[c].kind \in Notifying
                                             /\ call'[c].pc \in Promising
         /\ \A i \in Ids : intents[i].state = "queued" /\ intents[i].msg # NoMsg =>
              \/ i \in Ids' /\ intents'[i].state = "queued"
              \/ call'[c].pc \in Finishing /\ intents[i].msg \in call'[c].rows
<1>a. call \in [Callers -> CallRec] /\ call[c] \in CallRec /\ permit \in [Slots -> BOOLEAN] /\ paused \in [Slots -> BOOLEAN]
        /\ TypeOK /\ CallFrame(c)
  BY CallShapes DEF Grounded, Locals, Whole, TypeOK
<1>c. ASSUME NEW S, NEW st, intents' = WithState(S, st), NEW i \in Ids, intents[i].state = "queued", i \notin S
      PROVE  i \in Ids' /\ intents'[i].state = "queued"
  BY <1>a, <1>c, StateChange
<1>d. intents' = intents => \A i \in Ids : i \in Ids' /\ intents'[i].state = intents[i].state
  BY DEF Ids
<1>e. ASSUME NEW l \in leases, NEW m, l.owner = c, CommitEnqueue(l, m)
      PROVE  /\ \A i \in Ids : i \in Ids' /\ intents'[i].state = intents[i].state
             /\ \A s \in Slots : paused'[s] = paused[s] \/ s = call[c].slot
             /\ UNCHANGED <<removed, rt>>
  <2>1. l.slot = call[c].slot
    BY <1>e DEF Leased
  <2>2. intents' = Append(intents, NewIntent(l.slot, l.source, m, l.run)) /\ intents \in Seq(Intent)
        /\ paused' = [paused EXCEPT ![l.slot] = paused[l.slot] /\ l.source \notin Resuming]
    BY <1>a, <1>e DEF CommitEnqueue, TypeOK
  <2>3. Len(intents) \in Nat /\ Ids = 1..Len(intents) /\ Ids' = 1..(Len(intents) + 1)
        /\ \A i \in Ids : intents'[i] = intents[i]
    BY <2>2, <1>a, IdsType DEF Ids
  <2> QED BY <1>a, <1>e, <2>1, <2>2, <2>3 DEF CommitEnqueue
<1>1. CASE CallCommit(c)
  <2>1. PICK l \in leases : l.owner = c /\ CommitEnqueue(l, c)
    BY <1>1 DEF CallCommit
  <2>2. \E pc \in {"committed", "notify"} : Goto(c, pc)
    BY <1>1 DEF CallCommit
  <2>3. call'[c].pc \in Promising /\ call'[c].slot = call[c].slot /\ call'[c].kind = call[c].kind
    BY <1>a, <2>2, GotoFrame DEF Promising, CallPcs
  <2>4. call[c].kind \in Notifying
    BY <1>1 DEF CallCommit, At, Undisturbed, Bringing
  <2> QED BY <1>1, <1>e, <2>1, <2>3, <2>4 DEF CallCommit
<1>2. CASE CallCommitSignal(c)
  <2>1. CASE \E l \in leases : l.owner = c /\ CommitEnqueue(l, NoMsg) /\ Goto(c, "notify")
    <3>1. PICK l \in leases : l.owner = c /\ CommitEnqueue(l, NoMsg) /\ Goto(c, "notify")
      BY <2>1
    <3>2. call'[c].pc \in Promising /\ call'[c].slot = call[c].slot /\ call'[c].kind = call[c].kind
      BY <1>a, <3>1, GotoFrame DEF Promising, CallPcs
    <3>3. call[c].kind \in Notifying
      BY <1>2 DEF CallCommitSignal, Notifying
    <3> QED BY <1>2, <1>e, <3>1, <3>2, <3>3 DEF CallCommitSignal
  <2>2. CASE ReleaseLease(c)
    BY <1>2, <1>d, <2>2 DEF CallCommitSignal, ReleaseLease, AbortEnqueue, cvars
  <2> QED BY <1>2, <2>1, <2>2 DEF CallCommitSignal
<1>3. CASE CallRetire(c)
  <2> DEFINE s == call[c].slot
             b == call[c].before
  <2>1. s \in Slots /\ Copy(s, b)
    BY DEF Grounded, Locals, CallRec, Copies
  <2>2. CASE ~IsCurrent(s, b)
    BY <1>3, <1>d, <2>2 DEF CallRetire, cvars
  <2>3. CASE IsCurrent(s, b)
    <3>1. intents' = WithState(Range(b.ids), "cancelled") /\ UNCHANGED <<paused, removed, rt, permit>>
      BY <1>3, <2>3 DEF CallRetire, CancelBatch, InterruptBatch
    <3>2. Range(b.ids) = Range(active[s].ids)
      BY <2>1, <2>3 DEF Copy
    <3>3. \A i \in Range(b.ids) : intents[i].state # "queued"
      BY <2>1, <3>2 DEF Grounded, Whole, OwnedExactly, BatchesExact, InTurn, InFlight
    <3> QED BY <1>c, <3>1, <3>3
  <2> QED BY <2>2, <2>3
<1>4. CASE CallSupersede(c)
  <2> DEFINE S == Discardable(call[c].slot, c)
  <2>1. CASE UNCHANGED cvars
    BY <1>4, <1>d, <2>1 DEF CallSupersede, cvars
  <2>2. CASE ~UNCHANGED cvars
    <3>1. DiscardQueuedExcept(call[c].slot, c)
          /\ call' = [call EXCEPT ![c].pc = "markdiscarded", ![c].rows = {intents[i].msg : i \in S} \ {NoMsg}]
      BY <1>4, <2>2 DEF CallSupersede
    <3> DEFINE R == {intents[i].msg : i \in S} \ {NoMsg}
    <3>2. call' = [call EXCEPT ![c].pc = "markdiscarded", ![c].rows = R]
      BY <3>1
    <3>3. call'[c].pc = "markdiscarded" /\ call'[c].rows = R
      <4> HIDE DEF R
      <4> QED BY <1>a, <3>2 DEF CallRec
    <3>4. \A i \in Ids : intents[i].msg # NoMsg /\ i \in S => intents[i].msg \in R
      OBVIOUS
    <3> HIDE DEF S, R
    <3>5. intents' = WithState(S, "cancelled") /\ UNCHANGED <<paused, removed, rt, permit>>
      BY <1>4, <3>1 DEF CallSupersede, DiscardQueuedExcept, S
    <3> QED BY <1>c, <3>3, <3>4, <3>5 DEF Finishing
  <2> QED BY <2>1, <2>2
<1>5. CASE CallCancelRun(c)
  <2>1. PICK x \in Calls, r \in Runs :
         /\ CancelRun(r)
         /\ \E H : call' = [call EXCEPT ![c].pc = "markread", ![c].kind = "cancel", ![c].source = x.source,
                     ![c].rows = {intents[i].msg : i \in EndedBy(r)} \ {NoMsg}, ![c].hits = H]
    BY <1>5 DEF CallCancelRun
  <2> DEFINE R == {intents[i].msg : i \in EndedBy(r)} \ {NoMsg}
  <2>2. \E H : call' = [call EXCEPT ![c].pc = "markread", ![c].kind = "cancel", ![c].source = x.source,
                     ![c].rows = R, ![c].hits = H]
    BY <2>1
  <2>3. call'[c].pc = "markread" /\ call'[c].rows = R
    <3> HIDE DEF R
    <3> QED BY <1>a, <2>2 DEF CallRec
  <2>4. /\ \A i \in Ids : i \in Ids' /\ (i \notin EndedBy(r) /\ intents[i].state = "queued" => intents'[i].state = "queued")
        /\ UNCHANGED <<paused, removed, rt>>
    <3>1. intents' = [i \in Ids |-> IF i \in EndedBy(r)  THEN [intents[i] EXCEPT !.state = "cancelled"]
                            ELSE IF i \in Returned(r) THEN [intents[i] EXCEPT !.state = "queued"]
                            ELSE intents[i]]
          /\ UNCHANGED <<paused, removed, rt>>
      BY <2>1 DEF CancelRun
    <3>2. \A i \in Ids : intents[i] \in Intent
      BY <1>a, OwnerTypes
    <3> QED BY <3>1, <3>2 DEF Ids, Intent
  <2>5. \A i \in Ids : intents[i].msg # NoMsg /\ i \in EndedBy(r) => intents[i].msg \in R
    OBVIOUS
  <2> HIDE DEF R
  <2> QED BY <1>5, <2>3, <2>4, <2>5 DEF Finishing, CallCancelRun
<1>6. CASE \/ CallAcquire(c) \/ CallAcquireReplacement(c) \/ CallAcquireForRow(c) \/ CallWriteFails(c) \/ CallRejected(c)
           \/ CallTakeMetadata(c)
  BY <1>6, <1>d DEF CallAcquire, CallAcquireReplacement, CallAcquireForRow, CallWriteFails, CallRejected,
       CallTakeMetadata, ReleaseLease, AcquireEnqueue, AbortEnqueue, TakeInterruptMetadata, cvars
<1>7. CASE CallRetireActive(c)
  <2>1. \A s \in Slots : paused[s] => paused'[s]
    BY <1>7, <1>a DEF CallRetireActive, PauseSlot, cvars
  <2> QED BY <1>7, <1>d, <2>1 DEF CallRetireActive, PauseSlot, cvars
<1>8. CASE \/ CallCapture(c) \/ CallPost(c) \/ CallFindRow(c) \/ CallWriteRow(c) \/ CallSenderGone(c)
           \/ CallSettleRow(c) \/ CallNotify(c) \/ CallCheckActive(c) \/ CallCancelTurn(c) \/ CallCancelFails(c)
           \/ CallMarkRead(c) \/ CallMarkReadFails(c) \/ CallMarkDiscarded(c) \/ CallCancelRunTurns(c)
  BY <1>8, <1>a, <1>d DEF CallCapture, CallPost, CallFindRow, CallWriteRow, CallSenderGone,
       CallSettleRow, CallNotify, CallCheckActive, CallCancelTurn, CallCancelFails, Notify,
       CallMarkRead, CallMarkReadFails, CallMarkDiscarded, CallCancelRunTurns, cvars
<1> QED BY <1>1, <1>2, <1>3, <1>4, <1>5, <1>6, <1>7, <1>8 DEF CallStep

\* What a loop's step leaves behind: the pauses and the permits of all, the live
\* intents of the others, a member that is ready once it has published so; and the
\* loop rests without an error only where it found nothing it may claim.
LEMMA LoopLeaves ==
  ASSUME Faults \subseteq {"cancel"}, Grounded, NEW s \in Slots, LoopStep(s)
  PROVE  /\ removed' = removed /\ orphaned' = orphaned
         /\ rt' = rt \/ (LoopPublish(s) /\ rt' = [rt EXCEPT ![s] = Ready])
         /\ permit' = permit \/ (permit' = [permit EXCEPT ![s] = FALSE] /\ loop'[s].pc = "publish")
         /\ \A t \in Slots : paused[t] => paused'[t]
         /\ \A i \in Ids : Live(i) /\ intents[i].slot # s => i \in Ids' /\ intents'[i].state \notin Terminal
         /\ loop'[s].pc = "wait" => LoopRests(s) \/ loop'[s].refused
         /\ loop'[s].pc \notin {"wait", "publish"} => LoopPublish(s) \/ loop[s].pc \notin {"wait", "publish"}
<1>a. loop \in [Slots -> LoopRec] /\ loop[s] \in LoopRec /\ paused \in [Slots -> BOOLEAN] /\ Whole /\ TypeOK
        /\ Copy(s, loop[s].batch)
  BY DEF Grounded, Locals, Whole, TypeOK, Copies
<1>b. ASSUME NEW S, NEW st, intents' = WithState(S, st), st \in Terminal => \A i \in S : i \in Ids => intents[i].slot = s
      PROVE  \A i \in Ids : Live(i) /\ intents[i].slot # s => i \in Ids' /\ intents'[i].state \notin Terminal
  <2>1. \A i \in Ids : i \in Ids' /\ intents'[i].state = IF i \in S THEN st ELSE intents[i].state
    BY <1>a, <1>b, StateChange
  <2> QED BY <1>b, <2>1 DEF Live
<1>c. intents' = intents => \A i \in Ids : Live(i) => i \in Ids' /\ intents'[i].state \notin Terminal
  BY DEF Ids, Live
<1>d. IsCurrent(s, loop[s].batch) =>
        \A i \in Range(loop[s].batch.ids) : i \in Ids => intents[i].slot = s
  BY <1>a DEF Copy, Whole, OwnedExactly, BatchesExact, InTurn
<1>e. Again(s) => loop'[s].pc = "publish"
  BY <1>a, FreshFrame
<1>f. \A pc \in LoopPcs : LGoto(s, pc) => loop'[s].pc = pc
  BY <1>a, LGotoFrame
<1>g. {"candidates", "start", "late", "latecancel", "turn", "complete", "fail"} \subseteq LoopPcs
  BY DEF LoopPcs
<1>h. ASSUME NEW pc, NEW x, \/ loop' = [loop EXCEPT ![s].pc = pc, ![s].cand = x]
                            \/ loop' = [loop EXCEPT ![s].pc = pc, ![s].unread = x]
                            \/ loop' = [loop EXCEPT ![s].pc = pc, ![s].batch = x]
                            \/ loop' = [loop EXCEPT ![s].pc = pc, ![s].ids = x]
                            \/ loop' = [loop EXCEPT ![s].pc = pc, ![s].rows = x]
      PROVE  loop'[s].pc = pc
  BY <1>a, <1>h DEF LoopRec
<1>1. CASE LoopWake(s)
  BY <1>1, <1>c, <1>e DEF LoopWake, cvars
<1>2. CASE LoopPublish(s)
  BY <1>2, <1>c, <1>f, <1>g DEF LoopPublish, SetConstraint, Ready
<1>3. CASE LoopCandidates(s) \/ LoopPeek(s) \/ LoopFindsSignals(s)
  <2>1. loop'[s].pc \in {"peek", "reconcile", "settle"} /\ loop[s].pc \notin {"wait", "publish"}
    BY <1>3, <1>h DEF LoopCandidates, LoopPeek, LoopFindsSignals, LAt
  <2> QED BY <1>3, <1>c, <2>1 DEF LoopCandidates, LoopPeek, LoopFindsSignals, cvars
<1>4. CASE LoopReconcile(s)
  <2>1. loop[s].unread \in Seq(Msgs)
    BY <1>a DEF LoopRec
  <2>2. \A i \in Ids : i \in Ids' /\ (i \notin StaleIntents(s, loop[s].unread, loop[s].cand) => intents'[i].state = intents[i].state)
    BY <1>4, <1>a, <2>1, ReconciledIntents DEF LoopReconcile
  <2>3. \A i \in StaleIntents(s, loop[s].unread, loop[s].cand) : intents[i].slot = s
    BY <1>a, WholeReads DEF StaleIntents, ReadOff, InLanes
  <2>4. loop'[s].pc # "wait" /\ loop[s].pc = "reconcile"
    <3>1. loop'[s] = [Waiting EXCEPT !.pc = "next"]
      BY <1>4, <1>a DEF LoopReconcile
    <3> QED BY <1>4, <3>1 DEF LoopReconcile, LAt, Waiting
  <2> QED BY <1>4, <2>2, <2>3, <2>4 DEF LoopReconcile, ReconcileMailbox, Live
<1>5. CASE LoopClaim(s)
  <2>1. loop'[s].pc = "reread" /\ loop[s].pc = "next"
    BY <1>5, <1>h DEF LoopClaim, LAt
  <2>2. \E S : intents' = WithState(S, "starting")
    BY <1>5 DEF LoopClaim, Claim
  <2> QED BY <1>5, <1>b, <2>1, <2>2 DEF LoopClaim, Claim, Terminal
<1>6. CASE LoopRests(s)
  BY <1>6, <1>c DEF LoopRests, LAt, cvars
<1>7. CASE LoopSettlesSignals(s)
  BY <1>7, <1>b, <1>c, <1>e DEF LoopSettlesSignals, CompleteSignals, cvars
<1>8. CASE LoopReread(s)
  <2>1. CASE LGoto(s, "start") /\ UNCHANGED cvars
    BY <1>8, <1>c, <1>f, <1>g, <2>1 DEF LoopReread, LAt, cvars
  <2>2. CASE SleepRefused(s)
    BY <1>8, <1>a, <1>b, <1>c, <2>2, RefusedFrame DEF LoopReread, RetryStart, Terminal, cvars
  <2> QED BY <1>8, <2>1, <2>2 DEF LoopReread
<1>9. CASE LoopPromptFails(s) \/ TurnSkipped(s)
  BY <1>9 DEF LoopPromptFails, TurnSkipped
<1>10. CASE TurnStarts(s)
  <2>1. loop'[s].pc \in {"late", "turn"} /\ loop[s].pc = "start"
    BY <1>10, <1>f, <1>g DEF TurnStarts, LAt
  <2> QED BY <1>10, <1>b, <1>c, <2>1 DEF TurnStarts, MarkStarted, Terminal, cvars
<1>11. CASE LateCancelTurn(s) \/ LateCancelBatch(s)
  <2>1. loop'[s].pc \in {"latecancel", "turn"} /\ loop[s].pc \in {"late", "latecancel"}
    BY <1>11, <1>f, <1>g DEF LateCancelTurn, LateCancelBatch, LAt
  <2> QED BY <1>11, <1>b, <1>c, <1>d, <2>1 DEF LateCancelTurn, LateCancelBatch, TakeInterruptMetadata, CancelBatch, cvars
<1>12. CASE TurnErrs(s) \/ TurnEnds(s)
  <2>1. loop'[s].pc \in {"publish", "complete", "fail"} /\ loop[s].pc \in {"start", "turn"}
    BY <1>12, <1>e, <1>f, <1>g DEF TurnErrs, TurnEnds, LAt
  <2> QED BY <1>12, <1>c, <2>1 DEF TurnErrs, TurnEnds, TakeInterruptMetadata, cvars
<1>13. CASE LoopCompletes(s)
  <2>1. loop'[s].pc \in {"publish", "markread"} /\ loop[s].pc = "complete"
    BY <1>13, <1>e, <1>h DEF LoopCompletes, LAt
  <2>2. CASE UNCHANGED cvars
    BY <1>13, <1>c, <2>1, <2>2 DEF LoopCompletes, cvars
  <2>3. CASE CompleteBatch(s, loop[s].batch)
    <3> DEFINE done == Range(active[s].ids)
                \cup {i \in Ids : intents[i].slot = s /\ intents[i].msg \in active[s].observed /\ Live(i)}
    <3>1. \A i \in done : i \in Ids => intents[i].slot = s
      BY <1>a DEF Whole, OwnedExactly, BatchesExact, InTurn
    <3>2. intents' = WithState(done, "completed") /\ UNCHANGED <<paused, removed, rt>>
      BY <2>3 DEF CompleteBatch
    <3> HIDE DEF done
    <3> QED BY <1>13, <1>b, <2>1, <3>1, <3>2 DEF LoopCompletes
  <2> QED BY <1>13, <2>2, <2>3 DEF LoopCompletes
<1>14. CASE LoopFails(s)
  <2>1. loop'[s].pc \in {"publish", "markread"} /\ loop[s].pc = "fail"
    BY <1>14, <1>e, <1>h DEF LoopFails, LAt
  <2>2. CASE UNCHANGED cvars
    BY <1>14, <1>c, <2>1, <2>2 DEF LoopFails, cvars
  <2>3. CASE FailBatch(s, loop[s].batch)
    <3>1. \A t \in Slots : paused[t] => paused'[t]
      BY <1>a, <2>3 DEF FailBatch
    <3> QED BY <1>14, <1>b, <1>d, <2>1, <2>3, <3>1 DEF LoopFails, FailBatch
  <2> QED BY <1>14, <2>2, <2>3 DEF LoopFails
<1>15. CASE LoopMarksRead(s)
  BY <1>15, <1>c, <1>e DEF LoopMarksRead, cvars
<1> QED BY <1>1, <1>2, <1>3, <1>4, <1>5, <1>6, <1>7, <1>8, <1>9, <1>10, <1>11, <1>12, <1>13, <1>14, <1>15 DEF LoopStep

LEMMA UndisturbedStep ==
  ASSUME Faults \subseteq {"cancel"}, Grounded, Leased, Claimed, Undisturbed, [LoopNext]_vars
  PROVE  Undisturbed'
<1>a. rt \in [Slots -> Constraint] /\ TypeOK'
  BY CoordinatorKept DEF Grounded, Whole, TypeOK
<1>1. ASSUME NEW c \in Callers, CallStep(c)  PROVE Undisturbed'
  <2>1. removed' = removed /\ rt' = rt
    BY <1>1, CallLeaves
  <2>2. CallFrame(c) /\ loop' = loop /\ orphaned' = orphaned
    BY <1>1, CallShapes DEF Grounded
  <2>3. CallGoesOn(c)
    BY <1>1, CallsGoOn
  <2> QED BY <2>1, <2>2, <2>3 DEF Undisturbed, CallFrame, CallGoesOn
<1>2. ASSUME NEW s \in Slots, LoopStep(s)  PROVE Undisturbed'
  <2>1. LoopFrame(s) /\ call' = call
    BY <1>2, <1>a, LoopShapes DEF Grounded
  <2>2. /\ removed' = removed /\ orphaned' = orphaned
        /\ rt' = rt \/ (LoopPublish(s) /\ rt' = [rt EXCEPT ![s] = Ready])
        /\ loop'[s].pc \notin {"wait", "publish"} => LoopPublish(s) \/ loop[s].pc \notin {"wait", "publish"}
    BY <1>2, LoopLeaves
  <2>3. LoopPublish(s) => rt' = [rt EXCEPT ![s] = Ready]
    BY DEF LoopPublish, SetConstraint
  <2>4. Ready.kind = "Ready"
    BY DEF Ready
  <2> QED BY <1>a, <2>1, <2>2, <2>3, <2>4 DEF Undisturbed, LoopFrame
<1>3. ASSUME NEW s \in Slots, AgentReads(s)  PROVE Undisturbed'
  <2>1. UNCHANGED <<removed, rt, loop, call, orphaned>>
    BY <1>3 DEF AgentReads, AgentCaptures, AgentPeeks, AgentObserves, ObserveMessages, cvars
  <2> QED BY <2>1 DEF Undisturbed
<1>4. CASE UNCHANGED vars
  BY <1>4 DEF vars, cvars, lvars, Undisturbed
<1> QED BY <1>1, <1>2, <1>3, <1>4 DEF LoopNext

LEMMA UndisturbedAlways == ASSUME Faults \subseteq {"cancel"}  PROVE LoopSpec => []Undisturbed
<1>1. LInit => Undisturbed
  BY DEF LInit, Init, Waiting, Undisturbed, Bringing
<1>2. Grounded /\ Leased /\ Claimed /\ Undisturbed /\ [LoopNext]_vars => Undisturbed'
  BY UndisturbedStep
<1> QED BY <1>1, <1>2, GroundedAlways, LeasedAlways, ClaimedAlways, PTL DEF LoopSpec

\* Why an unread row m of slot s is not stranded: a caller has yet to notify the slot's
\* loop, m's caller has yet to enqueue it or to give it up, a caller has ended it and
\* has yet to mark it read, or the loop is at work and has m in sight: it will read the
\* mailbox again, has m in its snapshot, or has a live intent for it.
Promise(s)   == \E c \in Callers : call[c].slot = s /\ call[c].kind \in Notifying /\ call[c].pc \in Promising
Coming(s, m) == m \in Callers /\ call[m].slot = s /\ call[m].pc \in Bringing
Ending(m)    == \E c \in Callers : call[c].pc \in Finishing /\ m \in call[c].rows
InSight(s, m) ==
  \/ loop[s].pc \in Busy
  \/ loop[s].pc = "reconcile" /\ m \in Range(loop[s].unread)
  \/ loop[s].pc = "next" /\ Owned(s, m)
  \/ loop[s].pc = "wait" /\ loop[s].refused

CoveredAt(s, m) == paused[s] \/ permit[s] \/ Promise(s) \/ Coming(s, m) \/ Ending(m) \/ InSight(s, m)
Covered == \A s \in Slots : \A m \in Box(s) \ readRows : CoveredAt(s, m)

\* At the claim a live intent of the slot is still queued.
LEMMA OwnedIsQueued ==
  ASSUME Grounded, Claimed, Undisturbed, NEW s \in Slots, loop[s].pc = "next", NEW m, Owned(s, m)
  PROVE  \E i \in Ids : i \in QueuedIn(s) /\ intents[i].slot = s /\ intents[i].msg = m /\ intents[i].state = "queued"
<1>1. Idle(s)
  BY DEF Claimed, InHand, InHandPcs, Undisturbed
<1>2. PICK i \in Ids : intents[i].slot = s /\ intents[i].msg = m /\ Live(i)
  BY DEF Owned
<1>3. i \notin InTurn(s)
  BY <1>1 DEF Grounded, Whole, OwnedExactly, BatchesExact
<1>4. intents[i] \in Intent
  BY OwnerTypes DEF Grounded, Whole
<1>5. intents[i].state = "queued"
  BY <1>2, <1>3, <1>4 DEF InTurn, Live, Intent
<1> QED BY <1>2, <1>5, WholeReads DEF Grounded, ReadOff, InLanes

\* A caller's step strands no row.
LEMMA CallerCovers ==
  ASSUME Faults \subseteq {"cancel"}, Grounded, Leased, Claimed, Undisturbed, Covered, NEW c \in Callers, CallStep(c)
  PROVE  Covered'
<1>a. Locals' /\ CallFrame(c) /\ loop' = loop /\ readRows \subseteq readRows' /\ CallMove(c)
  BY CallShapes, CallMoves DEF Grounded
<1>b. CallGoesOn(c)
  BY CallsGoOn
<1>c. Fixed
  <2>1. LoopNext
    BY DEF LoopNext
  <2> QED BY <2>1, CoordinatorKept
<1>d. /\ \A s \in Slots : permit[s] => permit'[s]
      /\ \A s \in Slots : paused[s] => \/ paused'[s]
                                       \/ /\ call'[c].slot = s /\ call'[c].kind \in Notifying
                                          /\ call'[c].pc \in Promising
      /\ \A i \in Ids : intents[i].state = "queued" /\ intents[i].msg # NoMsg =>
           \/ i \in Ids' /\ intents'[i].state = "queued"
           \/ call'[c].pc \in Finishing /\ intents[i].msg \in call'[c].rows
  BY CallLeaves
<1>e. call'[c].slot \in Slots /\ call[c].slot \in Slots
  BY <1>a DEF CallFrame, CallRec, Grounded, Locals
<1>f. "idle" \notin Promising \cup Bringing \cup Finishing
  BY DEF Promising, Bringing, Finishing
<1> SUFFICES ASSUME NEW s \in Slots, NEW m \in Range(inbox'[s]) \ readRows'
             PROVE  CoveredAt(s, m)'
  BY DEF Covered, Box
<1>1. CASE m \notin Box(s)
  <2>1. inbox' # inbox /\ m = c /\ call'[c].slot = s
    BY <1>1, <1>a, BoxMoves DEF Box
  <2> QED BY <1>b, <2>1 DEF CallGoesOn, CoveredAt, Coming
<1>2. CASE m \in Box(s)
  <2>0. CoveredAt(s, m) /\ m \in Msgs
    <3>1. m \in Msgs
      BY <1>2 DEF Grounded, Locals, Box, Range
    <3> QED BY <1>2, <1>a, <3>1 DEF Covered
  <2>1. CASE paused[s] \/ permit[s]
    BY <1>d, <2>1 DEF CoveredAt, Promise
  <2>2. CASE Promise(s)
    <3>1. PICK d \in Callers : call[d].slot = s /\ call[d].kind \in Notifying /\ call[d].pc \in Promising
      BY <2>2 DEF Promise
    <3> QED BY <1>a, <1>b, <1>f, <3>1 DEF CallFrame, CallGoesOn, CoveredAt, Promise, InSight
  <2>3. CASE Coming(s, m)
    <3>1. call[m].kind \in Notifying
      BY <2>3 DEF Coming, Undisturbed
    <3> QED BY <1>a, <1>b, <1>f, <2>3, <3>1 DEF CallFrame, CallGoesOn, CoveredAt, Coming, Promise
  <2>4. CASE Ending(m)
    BY <1>a, <1>b, <2>4 DEF CallFrame, CallGoesOn, CoveredAt, Ending
  <2>5. CASE loop[s].pc = "next" /\ Owned(s, m)
    <3>1. PICK i \in Ids : intents[i].slot = s /\ intents[i].msg = m /\ intents[i].state = "queued"
      BY <2>5, OwnedIsQueued
    <3>2. m # NoMsg
      BY <2>0, NoneAssumption
    <3>3. CASE i \in Ids' /\ intents'[i].state = "queued"
      BY <1>a, <1>c, <2>5, <3>1, <3>3 DEF Fixed, CoveredAt, InSight, Owned, Live, Terminal
    <3>4. CASE call'[c].pc \in Finishing /\ m \in call'[c].rows
      BY <3>4 DEF CoveredAt, Ending
    <3> QED BY <1>d, <3>1, <3>2, <3>3, <3>4
  <2>6. CASE InSight(s, m) /\ loop[s].pc # "next"
    BY <1>a, <2>6 DEF CoveredAt, InSight
  <2> QED BY <2>0, <2>1, <2>2, <2>3, <2>4, <2>5, <2>6 DEF CoveredAt, InSight, Busy
<1> QED BY <1>1, <1>2

\* Nor does a step of a loop: it rests only when its slot is paused or nothing is queued,
\* and what it has read it turns into live intents.
LEMMA LoopCovers ==
  ASSUME Faults \subseteq {"cancel"}, Grounded, Claimed, Undisturbed, Covered, NEW s \in Slots, LoopStep(s)
  PROVE  Covered'
<1>a. LoopFrame(s) /\ call' = call /\ inbox' = inbox /\ readRows \subseteq readRows'
  <2>1. LoopNext
    BY DEF LoopNext
  <2> QED BY <2>1, CoordinatorKept, LoopShapes DEF Grounded, Whole
<1>b. Fixed
  <2>1. LoopNext
    BY DEF LoopNext
  <2> QED BY <2>1, CoordinatorKept
<1>c. LoopGoes(s)
  BY LoopsGo
<1>d. /\ permit' = permit \/ (permit' = [permit EXCEPT ![s] = FALSE] /\ loop'[s].pc = "publish")
      /\ \A t \in Slots : paused[t] => paused'[t]
      /\ \A i \in Ids : Live(i) /\ intents[i].slot # s => i \in Ids' /\ intents'[i].state \notin Terminal
      /\ loop'[s].pc = "wait" => LoopRests(s) \/ loop'[s].refused
  BY LoopLeaves
<1>e. permit \in [Slots -> BOOLEAN] /\ loop'[s].pc \in LoopPcs
  BY <1>a DEF Grounded, Locals, LoopFrame, LoopRec
<1> SUFFICES ASSUME NEW t \in Slots, NEW m \in Box(t), m \notin readRows'
             PROVE  CoveredAt(t, m)'
  BY <1>a DEF Covered, Box
<1>1. CoveredAt(t, m) /\ m \notin readRows
  BY <1>a DEF Covered
<1>2. CASE Promise(t) \/ Coming(t, m) \/ Ending(m) \/ paused[t]
  BY <1>2, <1>a, <1>d DEF CoveredAt, Promise, Coming, Ending
<1>3. CASE t # s
  <2>1. loop'[t] = loop[t] /\ permit'[t] = permit[t]
    BY <1>3, <1>a, <1>d, <1>e DEF LoopFrame
  <2>2. Owned(t, m) => Owned(t, m)'
    BY <1>3, <1>b, <1>d DEF Owned, Fixed, Live
  <2> QED BY <1>1, <1>2, <2>1, <2>2 DEF CoveredAt, InSight
<1>4. CASE t = s /\ loop'[s].pc \in Busy
  BY <1>4 DEF CoveredAt, InSight
<1>5. CASE t = s /\ loop'[s].pc = "reconcile"
  <2>1. loop'[s].unread = UnreadOf(s)
    BY <1>5, <1>c DEF LoopGoes
  <2>2. m \in Range(UnreadOf(s))
    BY <1>1, <1>5, UnreadRows DEF Grounded, Box
  <2> QED BY <1>5, <2>1, <2>2 DEF CoveredAt, InSight
<1>6. CASE t = s /\ loop'[s].pc = "next" /\ ~(Promise(t) \/ Coming(t, m) \/ Ending(m) \/ paused[t])
  <2>1. LoopReconcile(s) /\ loop[s].pc = "reconcile"
    BY <1>6, <1>c DEF LoopGoes, LoopReconcile, LAt
  <2>2. permit' = permit
    BY <2>1 DEF LoopReconcile
  <2>3. CASE permit[s]
    BY <1>6, <2>2, <2>3 DEF CoveredAt
  <2>4. CASE ~permit[s]
    <3>1. m \in Range(loop[s].unread)
      BY <1>1, <1>6, <2>1, <2>4 DEF CoveredAt, InSight, Busy
    <3>2. loop[s].unread \in Seq(Msgs) /\ ReconcileMailbox(s, loop[s].unread, loop[s].cand) /\ Whole
      BY <2>1 DEF LoopReconcile, Grounded, Locals, LoopRec
    <3> DEFINE stale == StaleIntents(s, loop[s].unread, loop[s].cand)
    <3>3. /\ \A i \in Ids' \ Ids : intents'[i].slot = s /\ intents'[i].state = "queued"
          /\ \A i \in Ids : /\ i \in Ids'
                            /\ intents'[i].slot = intents[i].slot /\ intents'[i].msg = intents[i].msg
                            /\ intents'[i].state = IF i \in stale THEN "completed" ELSE intents[i].state
          /\ Owned(s, m) \/ \E i \in Ids' \ Ids : intents'[i].msg = m
      BY <3>1, <3>2, ReconciledIntents
    <3>4. \A i \in stale : intents[i].msg # m
      BY <3>1 DEF StaleIntents
    <3> HIDE DEF stale
    <3>5. Owned(s, m)'
      BY <3>3, <3>4 DEF Owned, Live, Terminal
    <3> QED BY <1>6, <3>5 DEF CoveredAt, InSight
  <2> QED BY <2>3, <2>4
<1>7. CASE t = s /\ loop'[s].pc = "wait" /\ ~(Promise(t) \/ Coming(t, m) \/ Ending(m) \/ paused[t])
  <2>1. CASE loop'[s].refused
    BY <1>7, <2>1 DEF CoveredAt, InSight
  <2>2. CASE LoopRests(s)
    <3>1. loop[s].pc = "next" /\ permit' = permit /\ (~CanClaim(s) \/ QueuedIn(s) = {})
      BY <2>2 DEF LoopRests, LAt
    <3>2. CanClaim(s)
      BY <1>7, <3>1 DEF CanClaim, Claimed, InHand, InHandPcs, Undisturbed
    <3>3. ~Owned(s, m)
      BY <3>1, <3>2, OwnedIsQueued
    <3>4. permit[s]
      BY <1>1, <1>7, <3>1, <3>3 DEF CoveredAt, InSight, Busy
    <3> QED BY <1>7, <3>1, <3>4 DEF CoveredAt
  <2> QED BY <1>7, <1>d, <2>1, <2>2
<1> QED BY <1>2, <1>3, <1>4, <1>5, <1>6, <1>7, <1>e DEF LoopPcs, Busy

LEMMA CoveredStep ==
  ASSUME Faults \subseteq {"cancel"}, Grounded, Leased, Claimed, Undisturbed, Covered, [LoopNext]_vars
  PROVE  Covered'
<1>1. ASSUME NEW c \in Callers, CallStep(c)  PROVE Covered'
  BY <1>1, CallerCovers
<1>2. ASSUME NEW s \in Slots, LoopStep(s)  PROVE Covered'
  BY <1>2, LoopCovers
<1>3. ASSUME UNCHANGED <<intents, paused, permit, inbox, readRows, loop, call>>  PROVE Covered'
  BY <1>3 DEF Covered, Box, CoveredAt, Promise, Coming, Ending, InSight, Owned, Live, Ids
<1>4. ASSUME NEW s \in Slots, AgentReads(s)  PROVE Covered'
  BY <1>3, <1>4 DEF AgentReads, AgentCaptures, AgentPeeks, AgentObserves, ObserveMessages, cvars
<1>5. CASE UNCHANGED vars
  BY <1>3, <1>5 DEF vars, cvars, lvars
<1> QED BY <1>1, <1>2, <1>4, <1>5 DEF LoopNext

\* No wake-up is lost while nothing fails but cancellations of turns: through every interleaving of the calls that
\* enqueue, interrupt, discard, pause and cancel with the rounds of the loop, an unread
\* row of a slot whose loop waits without a permit is on somebody's way, unless the
\* slot is paused or the loop's last batch was refused.
THEOREM NothingStranded == ASSUME Faults \subseteq {"cancel"}  PROVE LoopSpec => []NoStrandedWork
<1>1. LInit => Covered
  BY DEF LInit, Covered, Box, Range
<1>2. Grounded /\ Leased /\ Claimed /\ Undisturbed /\ Covered /\ [LoopNext]_vars => Covered'
  BY CoveredStep
<1>3. Undisturbed /\ Covered => NoStrandedWork
  <2> SUFFICES ASSUME Undisturbed, Covered, NEW s \in Slots, LAt(s, "wait"), ~loop[s].refused, ~permit[s], ~paused[s],
                      NEW m \in Range(inbox[s]) \ readRows
               PROVE  WillFollowUp(s, m)
    BY DEF NoStrandedWork
  <2>1. Promise(s) \/ Coming(s, m) \/ Ending(m)
    BY DEF Covered, CoveredAt, Box, InSight, Busy, LAt
  <2>2. \A pc \in Promising \cup Bringing : pc \notin {"idle", "abandoned", "done"}
    BY DEF Promising, Bringing
  <2>3. Coming(s, m) => call[m].kind \in Notifying
    BY DEF Coming, Undisturbed
  <2> QED BY <2>1, <2>2, <2>3 DEF Promise, Coming, Ending, Finishing, WillFollowUp
<1> QED BY <1>1, <1>2, <1>3, GroundedAlways, LeasedAlways, ClaimedAlways, UndisturbedAlways, PTL DEF LoopSpec
=============================================================================
