------------------------------ MODULE TeamWork ------------------------------
(***************************************************************************)
(* The slot work coordinator of a team session                             *)
(* (aionui-team/src/work_coordinator).  One mutex guards everything below,  *)
(* so every public method is one atomic step; publication of summaries and *)
(* snapshots happens after the unlock and is left out here.                *)
(*                                                                         *)
(* A work intent is the promise that one mailbox row (or one content-free  *)
(* signal) will be put in front of a slot's agent.  It waits in one of the *)
(* four lanes of its slot, is claimed into the slot's single active batch  *)
(* and ends completed, failed or cancelled.                                *)
(*                                                                         *)
(* The operators below are the methods; Next is the most general client:   *)
(* any caller may call any method with any argument it could hold.  A call *)
(* that the code rejects changes nothing and is therefore no step here.    *)
(***************************************************************************)
EXTENDS Naturals, Sequences, FiniteSets, Functions, Subsequences

CONSTANTS
  Slots,        \* the agents of the team (slot ids)
  Msgs,         \* mailbox message ids
  Runs,         \* team run ids
  Callers,      \* concurrent enqueuers, each holding at most one lease
  Sources,      \* the work sources this instance uses
  NoMsg, NoRun, \* None of mailbox_message_id and of team_run_id
  MaxIntents,   \* bound: intents ever created
  MaxOps        \* bound: operation ids ever issued

AllSources ==
  {"UserMessage", "UserCommand", "UserIntervention", "LeadIntervention",
   "McpSendMessage", "McpShutdownRequest", "SpawnWelcome",
   "TeamMembershipChanged", "SpawnAttachFailure",
   "DeliveryFailureNotification", "IdleNotification",
   "InterruptedNotification", "ShutdownRejected", "RecoveryDrain"}

ASSUME SourcesAssumption == Sources \subseteq AllSources
ASSUME NoneAssumption    == NoMsg \notin Msgs /\ NoRun \notin Runs
ASSUME BoundsAssumption  == MaxIntents \in Nat /\ MaxOps \in Nat

Lanes == {"Foreground", "Control", "Directed", "Background"}

\* Claim order of the lanes.
Rank == [p \in Lanes |-> CASE p = "Foreground" -> 1 [] p = "Control"    -> 2
                           [] p = "Directed"   -> 3 [] p = "Background" -> 4]

Resuming == {"UserMessage", "UserCommand", "UserIntervention", "LeadIntervention"}

Prio(src) == CASE src \in Resuming -> "Foreground"
               [] src \in {"McpShutdownRequest", "ShutdownRejected"} -> "Control"
               [] src = "McpSendMessage" -> "Directed"
               [] OTHER -> "Background"

NeedsMessage(src) == src \notin {"TeamMembershipChanged", "IdleNotification"}

\* Sources that are delivered alone.
Isolated == {"UserCommand", "LeadIntervention"}

MaxFailures == 3

(* Data.  An intent's id is its index in `intents`.  A batch with op = 0 is no
   batch; its turn field says whether the turn id is known.                *)
Terminal   == {"completed", "failed", "cancelled"}
InFlight   == {"starting", "running"}
Intent     == [slot : Slots, source : AllSources, msg : Msgs \cup {NoMsg},
               run : Runs \cup {NoRun}, state : Terminal \cup InFlight \cup {"queued"}]
Lease      == [owner : Callers, slot : Slots, source : Sources, run : Runs \cup {NoRun}]
Batch      == [op : Nat, ids : Seq(Nat), prio : Lanes, turn : BOOLEAN, observed : SUBSET Msgs]
NoBatch    == [op |-> 0, ids |-> <<>>, prio |-> "Background", turn |-> FALSE, observed |-> {}]
Kinds      == {"Ready", "Starting", "Failed", "Removing", "SessionStopped"}
Constraint == [kind : Kinds, op : Nat]
Ready      == [kind |-> "Ready", op |-> 0]

VARIABLES
  intents,      \* every intent ever created, oldest first
  lane,         \* [slot -> [lane -> queue of intent ids]]
  active,       \* [slot -> the batch that owns the slot's turn]
  paused, removed, rt,
  fails,        \* delivery_failure_counts; saturates at MaxFailures, the only value tested
  leases,       \* enqueue_leases
  interrupted,  \* ops of batches with pending interrupt metadata
  opId          \* next_operation_id

cvars == <<intents, lane, active, paused, removed, rt, fails, leases, interrupted, opId>>

Init ==
  /\ intents = <<>>
  /\ lane = [s \in Slots |-> [p \in Lanes |-> <<>>]]
  /\ active = [s \in Slots |-> NoBatch]
  /\ paused = [s \in Slots |-> FALSE]
  /\ removed = [s \in Slots |-> FALSE]
  /\ rt = [s \in Slots |-> [kind |-> "Starting", op |-> 0]]
  /\ fails = [s \in Slots |-> [m \in Msgs |-> 0]]
  /\ leases = {} /\ interrupted = {} /\ opId = 0

-----------------------------------------------------------------------------
(* Helpers *)

Ids           == DOMAIN intents
Live(i)       == intents[i].state \notin Terminal
PrioOf(i)     == Prio(intents[i].source)
QueuedIn(s)   == UNION {Range(lane[s][p]) : p \in Lanes}
Idle(s)       == active[s].op = 0
BatchMsgs(b)  == {intents[b.ids[k]].msg : k \in DOMAIN b.ids}

IsOccupied(s, b) == b.op # 0 /\ ~Idle(s)
IsCurrent(s, b) == b.op # 0 /\ active[s].op = b.op

WithState(S, st) == [i \in Ids |-> IF i \in S THEN [intents[i] EXCEPT !.state = st] ELSE intents[i]]

NewIntent(s, src, m, r) == [slot |-> s, source |-> src, msg |-> m, run |-> r, state |-> "queued"]

Dequeue(s, S)  == [lane EXCEPT ![s] = [p \in Lanes |-> Without(lane[s][p], S)]]
Empty          == [p \in Lanes |-> <<>>]
ForgetOne(s, M) == [fails EXCEPT ![s] = [m \in Msgs |-> IF m \in M THEN fails[s][m] - 1 ELSE fails[s][m]]]
Forget(s, M)   == [fails EXCEPT ![s] = [m \in Msgs |-> IF m \in M THEN 0 ELSE fails[s][m]]]
Vacate(s)      == [active EXCEPT ![s] = NoBatch]

AcceptsRemoved(s) == rt[s].kind \in {"Ready", "Starting"}
Accepts(s) == ~removed[s] /\ rt[s].kind \in {"Ready", "Starting"}

\* Whether batch b's intents were all cancelled under it.
IsBatchCancelled(b) == \A k \in DOMAIN b.ids : intents[b.ids[k]].state = "cancelled"

-----------------------------------------------------------------------------
(* Enqueueing *)

AcquireEnqueue(c, s, src, r) ==
  /\ \A l \in leases : l.owner # c
  /\ Accepts(s)
  /\ leases' = leases \cup {[owner |-> c, slot |-> s, source |-> src, run |-> r]}
  /\ UNCHANGED <<intents, lane, active, paused, removed, rt, fails, interrupted, opId>>

CanCommit(l, m) == (NeedsMessage(l.source) => m # NoMsg) /\ Accepts(l.slot)

CommitEnqueue(l, m) ==
  /\ l \in leases /\ CanCommit(l, m) /\ Len(intents) < MaxIntents
  /\ LET i == Len(intents) + 1
         s == l.slot
         p == Prio(l.source)
         q == lane[s][p]
     IN /\ intents' = Append(intents, NewIntent(s, l.source, m, l.run))
        /\ lane' = [lane EXCEPT ![s][p] =
                      IF l.source = "LeadIntervention" THEN <<i>> \o q ELSE Append(q, i)]
        /\ paused' = [paused EXCEPT ![s] = paused[s] /\ l.source \notin Resuming]
  /\ leases' = leases \ {l}
  /\ UNCHANGED <<active, removed, rt, fails, interrupted, opId>>

AbortEnqueue(l) ==
  /\ l \in leases
  /\ leases' = leases \ {l}
  /\ UNCHANGED <<intents, lane, active, paused, removed, rt, fails, interrupted, opId>>

(* Reconciliation with the unread rows of the slot, oldest first.  Only the
   intents in cand, queued before the rows were read, may be found stale.  *)
Owned(s, m) == \E i \in Ids : intents[i].slot = s /\ intents[i].msg = m /\ Live(i)

StaleAnytime(s, unread, cand) ==
  {i \in QueuedIn(s) : intents[i].msg # NoMsg /\ intents[i].msg \notin Range(unread)}

StaleIntents(s, unread, cand) ==
  {i \in QueuedIn(s) \cap cand : intents[i].msg # NoMsg /\ intents[i].msg \notin Range(unread)}

ReconcileMailbox(s, unread, cand) ==
  LET stale == StaleIntents(s, unread, cand)
      fresh == Pick(unread, {k \in DOMAIN unread : ~Owned(s, unread[k])})
      n     == Len(intents)
      kept  == Dequeue(s, stale)
  IN /\ n + Len(fresh) <= MaxIntents
     /\ intents' = WithState(stale, "completed")
                     \o [j \in 1..Len(fresh) |-> NewIntent(s, "RecoveryDrain", fresh[j], NoRun)]
     /\ lane' = [kept EXCEPT ![s]["Background"] = @ \o [j \in 1..Len(fresh) |-> n + j]]
     /\ fails' = Forget(s, Msgs \ Range(unread))
     /\ UNCHANGED <<active, paused, removed, rt, leases, interrupted, opId>>

-----------------------------------------------------------------------------
(* Claiming *)

TopLane(s, p) == /\ lane[s][p] # <<>>
                 /\ \A o \in Lanes : Rank[o] < Rank[p] => lane[s][o] = <<>>

\* Indices of the queue's message intents, and of the leading ones that make one batch.
MessageAt(q) == {k \in DOMAIN q : intents[q[k]].msg # NoMsg}
HeadOf(K)    == {k \in K : \A l \in K : k <= l}
BatchAll(q)  == MessageAt(q)
BatchAt(q)   == LET K == MessageAt(q)
                    Plain(k) == \A l \in K : l <= k => intents[q[l]].source \notin Isolated
                IN HeadOf(K) \cup {k \in K : Plain(k)}

CanClaim(s) == Idle(s) /\ rt[s].kind = "Ready" /\ ~paused[s]

Claim(s) ==
  /\ CanClaim(s) /\ opId < MaxOps
  /\ \E p \in Lanes :
       LET q   == lane[s][p]
           ids == Pick(q, BatchAt(q))
       IN /\ TopLane(s, p) /\ MessageAt(q) # {}
          /\ active' = [active EXCEPT ![s] = [op |-> opId + 1, ids |-> ids, prio |-> p,
                                              turn |-> FALSE, observed |-> {}]]
          /\ intents' = WithState(Range(ids), "starting")
          /\ lane' = Dequeue(s, Range(ids))
  /\ opId' = opId + 1
  /\ UNCHANGED <<paused, removed, rt, fails, leases, interrupted>>

\* next() found only signals in the first nonempty lane: these ids it hands back.
SignalsToSettle(s) ==
  UNION {IF TopLane(s, p) /\ MessageAt(lane[s][p]) = {} THEN Range(lane[s][p]) ELSE {} : p \in Lanes}

CompleteSignals(s, S) ==
  /\ S # {}
  /\ \A i \in S : intents[i].slot = s /\ intents[i].msg = NoMsg /\ intents[i].state = "queued"
  /\ intents' = WithState(S, "completed")
  /\ lane' = Dequeue(s, S)
  /\ UNCHANGED <<active, paused, removed, rt, fails, leases, interrupted, opId>>

-----------------------------------------------------------------------------
(* The life of a batch.  Each takes the batch its caller holds and does
   nothing when that batch no longer owns the slot.                        *)

MarkStarted(s, b) ==
  /\ IsCurrent(s, b)
  /\ intents' = WithState(Range(b.ids), "running")
  /\ active' = [active EXCEPT ![s].turn = TRUE]
  /\ UNCHANGED <<lane, paused, removed, rt, fails, leases, interrupted, opId>>

\* What mark_started tells the loop, read in the state before it.
StartResult(s, b) ==
  IF IsCurrent(s, b)
  THEN IF paused[s] \/ rt[s].kind # "Ready" THEN "CancelImmediately" ELSE "Accepted"
  ELSE IF IsBatchCancelled(b) THEN "CancelImmediately" ELSE "StaleOwner"

RetryStartKeepsSlot(s, b) ==
  /\ IsCurrent(s, b)
  /\ intents' = WithState(Range(b.ids), "queued")
  /\ lane' = [lane EXCEPT ![s][b.prio] = b.ids \o @]
  /\ UNCHANGED <<active, paused, removed, rt, fails, leases, interrupted, opId>>

RetryStartAtBack(s, b) ==
  /\ IsCurrent(s, b)
  /\ intents' = WithState(Range(b.ids), "queued")
  /\ active' = Vacate(s)
  /\ lane' = [lane EXCEPT ![s][b.prio] = @ \o b.ids]
  /\ UNCHANGED <<paused, removed, rt, fails, leases, interrupted, opId>>

RetryStart(s, b) ==
  /\ IsCurrent(s, b)
  /\ intents' = WithState(Range(b.ids), "queued")
  /\ active' = Vacate(s)
  /\ lane' = [lane EXCEPT ![s][b.prio] = b.ids \o @]
  /\ UNCHANGED <<paused, removed, rt, fails, leases, interrupted, opId>>

\* The messages a successful batch acknowledges.
Acked(s) == BatchMsgs(active[s]) \cup active[s].observed

CompleteBatchAll(s, b) ==
  LET done == Range(active[s].ids)
                \cup {i \in Ids : intents[i].slot = s /\ intents[i].msg \in active[s].observed}
  IN /\ IsCurrent(s, b)
     /\ intents' = WithState(done, "completed")
     /\ lane' = Dequeue(s, done)
     /\ active' = Vacate(s)
     /\ fails' = Forget(s, Acked(s))
     /\ UNCHANGED <<paused, removed, rt, leases, interrupted, opId>>

CompleteBatch(s, b) ==
  LET done == Range(active[s].ids)
                \cup {i \in Ids : intents[i].slot = s /\ intents[i].msg \in active[s].observed /\ Live(i)}
  IN /\ IsCurrent(s, b)
     /\ intents' = WithState(done, "completed")
     /\ lane' = Dequeue(s, done)
     /\ active' = Vacate(s)
     /\ fails' = Forget(s, Acked(s))
     /\ UNCHANGED <<paused, removed, rt, leases, interrupted, opId>>

\* A failure charges a row once for each intent of the batch that carries it.
Charged(s, b, m) ==
  fails[s][m] + Cardinality({k \in DOMAIN b.ids : intents[b.ids[k]].msg = m})

ExhaustedLate(s, b) == {m \in BatchMsgs(b) : Charged(s, b, m) > MaxFailures}

\* Rows whose failure count reaches the limit when b fails now.
Exhausted(s, b) == {m \in BatchMsgs(b) : Charged(s, b, m) >= MaxFailures}

FailBatch(s, b) ==
  /\ IsCurrent(s, b)
  /\ intents' = WithState(Range(b.ids), "failed")
  /\ active' = Vacate(s)
  /\ fails' = [fails EXCEPT ![s] =
                 [m \in Msgs |-> IF Charged(s, b, m) < MaxFailures THEN Charged(s, b, m)
                                 ELSE MaxFailures]]
  /\ paused' = [paused EXCEPT ![s] = paused[s] \/ Exhausted(s, b) # {}]
  /\ UNCHANGED <<lane, removed, rt, leases, interrupted, opId>>

CancelBatch(s, b) ==
  /\ IsCurrent(s, b)
  /\ intents' = WithState(Range(b.ids), "cancelled")
  /\ active' = Vacate(s)
  /\ fails' = Forget(s, BatchMsgs(b))
  /\ UNCHANGED <<lane, paused, removed, rt, leases, interrupted, opId>>

InterruptBatchForgets(s, b) ==
  /\ IsCurrent(s, b)
  /\ active' = Vacate(s)
  /\ fails' = Forget(s, BatchMsgs(b))
  /\ interrupted' = interrupted \cup {b.op}
  /\ UNCHANGED <<intents, lane, paused, removed, rt, leases, opId>>

InterruptBatch(s, b) ==
  /\ IsCurrent(s, b)
  /\ intents' = WithState(Range(b.ids), "cancelled")
  /\ active' = Vacate(s)
  /\ fails' = Forget(s, BatchMsgs(b))
  /\ interrupted' = interrupted \cup {b.op}
  /\ UNCHANGED <<lane, paused, removed, rt, leases, opId>>

TakeInterruptMetadata(b) ==
  /\ b.op \in interrupted
  /\ interrupted' = interrupted \ {b.op}
  /\ UNCHANGED <<intents, lane, active, paused, removed, rt, fails, leases, opId>>

ObserveMessages(s, b, M) ==
  /\ IsCurrent(s, b)
  /\ active' = [active EXCEPT ![s].observed = @ \cup (M \ BatchMsgs(active[s]))]
  /\ UNCHANGED <<intents, lane, paused, removed, rt, fails, leases, interrupted, opId>>

-----------------------------------------------------------------------------
(* Control operations *)

\* Queued intents superseded by the message m; the Control lane is exempt.
Discardable(s, m) == {i \in QueuedIn(s) : intents[i].msg # m /\ PrioOf(i) # "Control"}

DiscardQueuedExcept(s, m) ==
  /\ intents' = WithState(Discardable(s, m), "cancelled")
  /\ lane' = Dequeue(s, Discardable(s, m))
  /\ UNCHANGED <<active, paused, removed, rt, fails, leases, interrupted, opId>>

\* The slots whose active batch holds an intent of run r, and what the run's cancellation ends.
HitBy(r)     == {s \in Slots : \E i \in Range(active[s].ids) : intents[i].run = r}
EndedQueued(r) == {i \in Ids : intents[i].run = r /\ intents[i].state = "queued"}
EndedBy(r)   == {i \in Ids : intents[i].run = r /\ (\/ intents[i].state = "queued"
                                                    \/ \E s \in HitBy(r) : i \in Range(active[s].ids))}
ReturnedNone(r) == {}
Returned(r)  == {i \in Ids : intents[i].run # r /\ \E s \in HitBy(r) : i \in Range(active[s].ids)}

CancelRun(r) ==
  /\ intents' = [i \in Ids |-> IF i \in EndedBy(r)  THEN [intents[i] EXCEPT !.state = "cancelled"]
                          ELSE IF i \in Returned(r) THEN [intents[i] EXCEPT !.state = "queued"]
                          ELSE intents[i]]
  /\ active' = [s \in Slots |-> IF s \in HitBy(r) THEN NoBatch ELSE active[s]]
  /\ lane' = [s \in Slots |-> [p \in Lanes |->
       LET ids  == active[s].ids
           back == IF s \in HitBy(r)
                   THEN {k \in DOMAIN ids : intents[ids[k]].run # r /\ PrioOf(ids[k]) = p} ELSE {}
       IN Pick(ids, back) \o Without(lane[s][p], EndedBy(r))]]
  /\ leases' = {l \in leases : l.run # r}
  /\ UNCHANGED <<paused, removed, rt, fails, interrupted, opId>>

PauseSlot(s) ==
  /\ paused' = [paused EXCEPT ![s] = TRUE]
  /\ UNCHANGED <<intents, lane, active, removed, rt, fails, leases, interrupted, opId>>

-----------------------------------------------------------------------------
(* Runtime constraint, restart gate, removal, stop *)

LiveOf(s) == {i \in Ids : intents[i].slot = s /\ Live(i)}

\* The orders in which a hash map may hand back the members of S.
Orders(S) == Bijection(1..Cardinality(S), S)

SetConstraint(s, c) ==
  /\ rt' = [rt EXCEPT ![s] = c]
  /\ IF c.kind \in {"Failed", "SessionStopped"}
     THEN LET back == {i \in LiveOf(s) : c.kind = "Failed" /\ intents[i].run = NoRun}
          IN /\ intents' = [i \in Ids |->
                   IF i \in back THEN [intents[i] EXCEPT !.state = "queued"]
                   ELSE IF i \in LiveOf(s)
                        THEN [intents[i] EXCEPT !.state = IF c.kind = "Failed" THEN "failed" ELSE "cancelled"]
                        ELSE intents[i]]
             /\ \E f \in Orders(back) :
                  lane' = [lane EXCEPT ![s] = [p \in Lanes |->
                             Pick(f, {k \in DOMAIN f : PrioOf(f[k]) = p})]]
             /\ active' = Vacate(s)
     ELSE UNCHANGED <<intents, lane, active>>
  /\ UNCHANGED <<paused, removed, fails, leases, interrupted, opId>>

BeginRestart(s, allowQueued) ==
  /\ Idle(s) /\ (allowQueued \/ QueuedIn(s) = {})
  /\ rt[s].kind \notin {"Removing", "SessionStopped"}
  /\ opId < MaxOps
  /\ opId' = opId + 1
  /\ rt' = [rt EXCEPT ![s] = [kind |-> "Starting", op |-> opId + 1]]
  /\ UNCHANGED <<intents, lane, active, paused, removed, fails, leases, interrupted>>

\* The gate (its op and the constraint it replaced) is in the hands of the caller.
AbortRestart(s, op, prev) ==
  /\ rt[s] = [kind |-> "Starting", op |-> op]
  /\ rt' = [rt EXCEPT ![s] = prev]
  /\ UNCHANGED <<intents, lane, active, paused, removed, fails, leases, interrupted, opId>>

RemoveSlot(s) ==
  /\ intents' = WithState(LiveOf(s), "cancelled")
  /\ lane' = [lane EXCEPT ![s] = Empty]
  /\ active' = Vacate(s)
  /\ removed' = [removed EXCEPT ![s] = TRUE]
  /\ UNCHANGED <<paused, rt, fails, leases, interrupted, opId>>

Stop ==
  /\ intents' = WithState({i \in Ids : Live(i)}, "cancelled")
  /\ lane' = [s \in Slots |-> Empty]
  /\ active' = [s \in Slots |-> NoBatch]
  /\ rt' = [s \in Slots |-> [kind |-> "SessionStopped", op |-> 0]]
  /\ leases' = {}
  /\ UNCHANGED <<paused, removed, fails, interrupted, opId>>

-----------------------------------------------------------------------------
(* The most general client *)

\* Every order of every finite set of rows.
Rows(M) == UNION {Orders(S) : S \in {T \in SUBSET M : IsFiniteSet(T)}}

Enqueueing ==
  \/ \E c \in Callers, s \in Slots, src \in Sources, r \in Runs \cup {NoRun} :
       AcquireEnqueue(c, s, src, r)
  \/ \E l \in leases, m \in Msgs \cup {NoMsg} : CommitEnqueue(l, m)
  \/ \E l \in leases : AbortEnqueue(l)

Draining(s) ==
  \/ \E unread \in Rows(Msgs), cand \in SUBSET QueuedIn(s) : ReconcileMailbox(s, unread, cand)
  \/ Claim(s)
  \/ \E S \in SUBSET QueuedIn(s) : CompleteSignals(s, S)
  \/ MarkStarted(s, active[s])
  \/ RetryStart(s, active[s])
  \/ CompleteBatch(s, active[s])
  \/ FailBatch(s, active[s])
  \/ \E M \in SUBSET Msgs : ObserveMessages(s, active[s], M)

Controlling(s) ==
  \/ CancelBatch(s, active[s])
  \/ InterruptBatch(s, active[s])
  \/ \E m \in Msgs : DiscardQueuedExcept(s, m)
  \/ PauseSlot(s)
  \/ \E k \in Kinds : SetConstraint(s, [kind |-> k, op |-> 0])
  \/ \E allowQueued \in BOOLEAN : BeginRestart(s, allowQueued)
  \/ \E op \in 1..opId, k \in {"Ready", "Starting", "Failed"} : AbortRestart(s, op, [kind |-> k, op |-> 0])
  \/ RemoveSlot(s)

Next ==
  \/ Enqueueing
  \/ \E s \in Slots : Draining(s) \/ Controlling(s)
  \/ \E o \in interrupted : TakeInterruptMetadata([NoBatch EXCEPT !.op = o])
  \/ \E r \in Runs : CancelRun(r)
  \/ Stop

Spec == Init /\ [][Next]_cvars
-----------------------------------------------------------------------------
(* Properties *)

\* Every variable has the shape the methods rely on.
TypeOK ==
  /\ intents \in Seq(Intent)
  /\ lane \in [Slots -> [Lanes -> Seq(Nat)]]
  /\ active \in [Slots -> Batch]
  /\ paused \in [Slots -> BOOLEAN] /\ removed \in [Slots -> BOOLEAN]
  /\ rt \in [Slots -> Constraint]
  /\ fails \in [Slots -> [Msgs -> 0..MaxFailures]]
  /\ leases \subseteq Lease
  /\ interrupted \subseteq Nat /\ opId \in Nat

\* A lane holds only queued intents of its own slot and priority.
LanesHoldQueued ==
  \A s \in Slots, p \in Lanes : \A k \in DOMAIN lane[s][p] :
    LET i == lane[s][p][k]
    IN i \in Ids /\ intents[i].slot = s /\ PrioOf(i) = p /\ intents[i].state = "queued"

\* No intent is queued twice.
LanesDistinct == \A s \in Slots, p \in Lanes : IsInjective(lane[s][p])

\* No queued intent has dropped out of its lane.
QueuedIsInLane ==
  \A i \in Ids : intents[i].state = "queued" => i \in Range(lane[intents[i].slot][PrioOf(i)])

\* The active batch owns distinct intents of its slot and lane, all of them in
\* flight, all with a mailbox row.
ActiveOwnsBatch ==
  \A s \in Slots : LET ids == active[s].ids IN
    /\ \A k \in DOMAIN ids :
         /\ ids[k] \in Ids
         /\ intents[ids[k]].slot = s /\ PrioOf(ids[k]) = active[s].prio
         /\ intents[ids[k]].msg # NoMsg /\ intents[ids[k]].state \in InFlight
    /\ IsInjective(ids)
    /\ Idle(s) => ids = <<>>

\* An intent in flight belongs to the active batch of its slot.
InFlightIsActive ==
  \A i \in Ids : intents[i].state \in InFlight => i \in Range(active[intents[i].slot].ids)

\* Work is neither lost nor duplicated: through every interleaving of retry,
\* cancellation, interruption, constraint change and removal, a live intent has
\* exactly one owner, one lane position or the active batch (coordinator.rs,
\* every method that moves an intent).
OneOwner ==
  /\ LanesHoldQueued /\ LanesDistinct /\ QueuedIsInLane
  /\ ActiveOwnsBatch /\ InFlightIsActive

\* The coordinator is a work pool: whatever a method does to several lanes and
\* batches at once, it admits, takes or releases work as WorkPool allows, and in
\* particular loses none and gives none back after it has ended.
Pool == INSTANCE WorkPool WITH
  Work    <- 1..MaxIntents,
  pending <- [s \in Slots |-> QueuedIn(s)],
  held    <- [s \in Slots |-> Range(active[s].ids)],
  ended   <- {i \in Ids : ~Live(i)}
KeepsPool == Pool!PoolSpec

\* Messages that carry a run and do not jump the queue are claimed in the order
\* they were committed, whatever was retried, requeued or cancelled in between:
\* the batch in flight and then each lane list them in that order.
InCommitOrder(i) == intents[i].msg # NoMsg /\ intents[i].run # NoRun
                      /\ intents[i].source # "LeadIntervention"
LanesKeepCommitOrder ==
  \A s \in Slots, p \in Lanes :
    LET q == (IF active[s].prio = p THEN active[s].ids ELSE <<>>) \o lane[s][p]
    IN \A k, l \in DOMAIN q :
         k < l /\ InCommitOrder(q[k]) /\ InCommitOrder(q[l]) => q[k] < q[l]

\* A slash command or a lead intervention is never folded into a larger batch.
IsolatedRunsAlone ==
  \A s \in Slots : \A k \in DOMAIN active[s].ids :
    intents[active[s].ids[k]].source \in Isolated => Len(active[s].ids) = 1

\* An intent that has ended keeps the state it ended in: no late completion,
\* failure or cancellation of a replaced batch rewrites it.
TerminalIsFinal ==
  [][\A i \in Ids : ~Live(i) => i \in Ids' /\ intents[i]' = intents[i]]_cvars

\* A removed slot takes on no work from a sender: the only intents it can
\* still gain come from reconciliation of rows left unread.
RemovedTakesNoSend ==
  [][\A s \in Slots : removed[s] =>
       \A i \in Ids' \ Ids : intents'[i].slot = s => intents'[i].source = "RecoveryDrain"]_cvars

=============================================================================
