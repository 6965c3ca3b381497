------------------------------ MODULE TeamLoop ------------------------------
(***************************************************************************)
(* The life of a mailbox message in a running team session: callers that   *)
(* persist a row and enqueue work for it (session.rs), the event loop of   *)
(* each slot that turns queued work into agent turns (event_loop.rs,       *)
(* prepare_next_batch), the calls that interrupt, discard, pause or cancel *)
(* that work, and the mailbox table they all share.                        *)
(*                                                                         *)
(* Every `.await` and every coordinator lock is a step boundary, so all of *)
(* this interleaves.  The coordinator is module TeamWork, operation by     *)
(* operation.  Each caller makes one call and writes at most one row,      *)
(* which is named after it.  The member runtimes stay ready; the turn port *)
(* and the notifier are modelled from how the loop uses them.              *)
(***************************************************************************)
EXTENDS TeamWork

CONSTANTS
  Calls,   \* the calls callers may make: [kind : CallKinds, source : Sources]
  Faults   \* which failures may happen, a subset of FaultKinds

CallKinds    == {"send", "notice", "signal", "interrupt", "discard", "pause", "child", "cancel"}
Interrupting == {"interrupt", "discard"}
Retiring     == {"pause", "child"}
Notifying    == {"send", "notice", "signal"} \cup Interrupting

ASSUME SlotsAssumption   == Slots # {}
ASSUME CallersAssumption == Callers \subseteq Msgs
ASSUME CallsAssumption   == /\ Calls \subseteq [kind : CallKinds, source : Sources]
                            /\ \A x \in Calls : x.kind \in Notifying =>
                                 (x.kind = "signal" <=> ~NeedsMessage(x.source))

\* A database call, the port (turn already running), a cancellation, the tool
\* transport, or the lookup of a sender that has just been removed.
FaultKinds == {"db", "busy", "cancel", "transport", "sender"}
ASSUME FaultsAssumption == Faults \subseteq FaultKinds

VARIABLES
  inbox,     \* [slot -> rows of the mailbox table addressed to it, oldest first]
  readRows,  \* rows marked read
  permit,    \* [slot -> the Notify of its loop holds a permit]
  loop,      \* [slot -> the event loop's program counter and locals]
  turn,      \* [slot -> the agent turn the port runs for its loop]
  peeked,    \* [slot -> what team_read_messages read and has not yet bound]
  call,      \* [caller -> its program counter and locals]
  acked,     \* history: rows acknowledged by a successful turn
  tries,     \* history: failures charged to a row since it last was not failed
  orphaned   \* history: ops of batches that a failed preparation left claimed

lvars == <<inbox, readRows, permit, loop, turn, peeked, call, acked, tries, orphaned>>
vars  == <<cvars, lvars>>

LoopPcs == {"wait", "publish", "candidates", "peek", "reconcile", "next", "settle", "reread",
            "start", "late", "latecancel", "turn", "complete", "fail", "markread"}
CallPcs == {"idle", "captured", "posted", "found", "leased", "written", "rejected", "committed",
            "cancelturn", "cancelturns", "retire", "markread", "take", "supersede",
            "markdiscarded", "notify", "abandoned", "done"}

LoopRec == [pc : LoopPcs, cand : SUBSET Nat, unread : Seq(Msgs), ids : SUBSET Nat,
            batch : Batch, rows : SUBSET Msgs, refused : BOOLEAN]
CallRec == [pc : CallPcs, kind : CallKinds, source : AllSources, slot : Slots,
            before : Batch, rows : SUBSET Msgs, hits : [Slots -> Nat]]
PeekRec == [op : Nat, read : BOOLEAN, rows : SUBSET Msgs]
NotPeeking == [op |-> 0, read |-> FALSE, rows |-> {}]
NoHits  == [s \in Slots |-> 0]

Waiting == [pc |-> "wait", cand |-> {}, unread |-> <<>>, ids |-> {},
            batch |-> NoBatch, rows |-> {}, refused |-> FALSE]

UnreadOf(s) == Pick(inbox[s], {k \in DOMAIN inbox[s] : inbox[s][k] \notin readRows})

LInit ==
  /\ Init
  /\ inbox = [s \in Slots |-> <<>>] /\ readRows = {}
  /\ permit = [s \in Slots |-> FALSE]
  /\ loop = [s \in Slots |-> Waiting]
  /\ turn = [s \in Slots |-> "none"]
  /\ peeked = [s \in Slots |-> NotPeeking]
  /\ call = [c \in Callers |-> [pc |-> "idle", kind |-> "send", source |-> "UserMessage",
                                slot |-> CHOOSE s \in Slots : TRUE, before |-> NoBatch, rows |-> {},
                                hits |-> NoHits]]
  /\ acked = {} /\ tries = [m \in Msgs |-> 0] /\ orphaned = {}

-----------------------------------------------------------------------------
(* Callers *)

At(c, pc)      == call[c].pc = pc
Goto(c, pc)    == call' = [call EXCEPT ![c].pc = pc]
Notify(s)      == permit' = [permit EXCEPT ![s] = TRUE]
MarkRead(M)    == readRows' = readRows \cup M
MarkFails      == "db" \in Faults /\ UNCHANGED readRows
MarkReadOrFail(M) == MarkRead(M) \/ MarkFails

\* abort_enqueue; a lease that a cancelled run took away is not missed.
ReleaseLease(c) ==
  IF \E l \in leases : l.owner = c
  THEN \E l \in leases : l.owner = c /\ AbortEnqueue(l)
  ELSE UNCHANGED cvars

Start(c, x, s, pc, b) ==
  call' = [call EXCEPT ![c] = [pc |-> pc, kind |-> x.kind, source |-> x.source, slot |-> s,
                               before |-> b, rows |-> {}, hits |-> NoHits]]

\* publish_runtime_constraint leaves a ready member as it is.
CallAcquire(c) ==
  /\ At(c, "idle")
  /\ \E x \in Calls, s \in Slots, r \in Runs :
       /\ x.kind \in {"send", "signal"}
       /\ AcquireEnqueue(c, s, x.source, r)
       /\ Start(c, x, s, "leased", NoBatch)
  /\ UNCHANGED <<inbox, readRows, permit, loop, turn, peeked, acked, tries, orphaned>>

\* The batch an interruption aims at is captured before its replacement is enqueued.
CallCapture(c) ==
  /\ At(c, "idle")
  /\ \E x \in Calls, s \in Slots : x.kind \in Interrupting /\ Start(c, x, s, "captured", active[s])
  /\ UNCHANGED <<cvars, inbox, readRows, permit, loop, turn, peeked, acked, tries, orphaned>>

CallAcquireReplacement(c) ==
  /\ At(c, "captured")
  /\ \E r \in Runs : AcquireEnqueue(c, call[c].slot, call[c].source, r)
  /\ Goto(c, "leased")
  /\ UNCHANGED <<inbox, readRows, permit, loop, turn, peeked, acked, tries, orphaned>>

\* A notice to the lead is written first, looked up again, and only then enqueued.
CallPost(c) ==
  /\ At(c, "idle")
  /\ \E x \in Calls, s \in Slots :
       /\ x.kind = "notice"
       /\ inbox' = [inbox EXCEPT ![s] = Append(@, c)]
       /\ Start(c, x, s, "posted", NoBatch)
  /\ UNCHANGED <<cvars, readRows, permit, loop, turn, peeked, acked, tries, orphaned>>

CallFindRow(c) ==
  /\ At(c, "posted")
  /\ Goto(c, IF c \in readRows THEN "done" ELSE "found")
  /\ UNCHANGED <<cvars, inbox, readRows, permit, loop, turn, peeked, acked, tries, orphaned>>

CallAcquireForRow(c) ==
  /\ At(c, "found")
  /\ IF Accepts(call[c].slot)
     THEN /\ \E r \in Runs : AcquireEnqueue(c, call[c].slot, call[c].source, r)
          /\ Goto(c, "written")
     ELSE UNCHANGED cvars /\ Goto(c, "done")
  /\ UNCHANGED <<inbox, readRows, permit, loop, turn, peeked, acked, tries, orphaned>>

CallWriteRow(c) ==
  /\ At(c, "leased") /\ call[c].kind # "signal"
  /\ inbox' = [inbox EXCEPT ![call[c].slot] = Append(@, c)]
  /\ Goto(c, "written")
  /\ UNCHANGED <<cvars, readRows, permit, loop, turn, peeked, acked, tries, orphaned>>

CallWriteFailsKeepsLease(c) ==
  /\ At(c, "leased") /\ call[c].kind # "signal" /\ "db" \in Faults
  /\ Goto(c, "done")
  /\ UNCHANGED <<cvars, inbox, readRows, permit, loop, turn, peeked, acked, tries, orphaned>>

CallWriteFails(c) ==
  /\ At(c, "leased") /\ call[c].kind # "signal" /\ "db" \in Faults
  /\ ReleaseLease(c)
  /\ Goto(c, "done")
  /\ UNCHANGED <<inbox, readRows, permit, loop, turn, peeked, acked, tries, orphaned>>

\* Looking up the sender fails between the write and the commit: the lease stays.
CallSenderGone(c) ==
  /\ At(c, "written") /\ call[c].kind \in Interrupting /\ "sender" \in Faults
  /\ Goto(c, "abandoned")
  /\ UNCHANGED <<cvars, inbox, readRows, permit, loop, turn, peeked, acked, tries, orphaned>>

CallCommit(c) ==
  /\ At(c, "written")
  /\ \E l \in leases : l.owner = c /\ CommitEnqueue(l, c)
  /\ Goto(c, IF call[c].kind \in Interrupting THEN "committed" ELSE "notify")
  /\ UNCHANGED <<inbox, readRows, permit, loop, turn, peeked, acked, tries, orphaned>>

CallCommitSignal(c) ==
  /\ At(c, "leased") /\ call[c].kind = "signal"
  /\ \/ /\ \E l \in leases : l.owner = c /\ CommitEnqueue(l, NoMsg)
        /\ Goto(c, "notify")
     \/ /\ \A l \in leases : l.owner = c => ~CanCommit(l, NoMsg)
        /\ ReleaseLease(c)
        /\ Goto(c, "done")
  /\ UNCHANGED <<inbox, readRows, permit, loop, turn, peeked, acked, tries, orphaned>>

\* The lease is gone or the slot no longer accepts work: release it, settle the row.
CallRejected(c) ==
  /\ At(c, "written")
  /\ \A l \in leases : l.owner = c => ~CanCommit(l, c)
  /\ ReleaseLease(c)
  /\ Goto(c, "rejected")
  /\ UNCHANGED <<inbox, readRows, permit, loop, turn, peeked, acked, tries, orphaned>>

CallSettleRow(c) ==
  /\ At(c, "rejected")
  /\ MarkReadOrFail({c}) /\ Goto(c, "done")
  /\ UNCHANGED <<cvars, inbox, permit, loop, turn, peeked, acked, tries, orphaned>>

CallNotifySkipped(c) ==
  /\ At(c, "notify")
  /\ Goto(c, "done")
  /\ UNCHANGED <<cvars, inbox, readRows, permit, loop, turn, peeked, acked, tries, orphaned>>

CallNotify(c) ==
  /\ At(c, "notify")
  /\ Notify(call[c].slot) /\ Goto(c, "done")
  /\ UNCHANGED <<cvars, inbox, readRows, loop, turn, peeked, acked, tries, orphaned>>

\* is_active_batch: the captured batch still owns the slot, with the turn id captured.
StillActive(c) == LET s == call[c].slot IN
  IsCurrent(s, call[c].before) /\ active[s].turn = call[c].before.turn

CallCheckActive(c) ==
  /\ At(c, "committed")
  /\ Goto(c, IF ~StillActive(c) THEN "supersede"
             ELSE IF call[c].before.turn THEN "cancelturn" ELSE "retire")
  /\ UNCHANGED <<cvars, inbox, readRows, permit, loop, turn, peeked, acked, tries, orphaned>>

\* The port cancels the turn it was given, if that turn still runs.
CancelTurn(s, b) ==
  turn' = [turn EXCEPT ![s] = IF @ = "running" /\ loop[s].batch.op = b.op THEN "cancelled" ELSE @]

CallCancelTurn(c) ==
  /\ At(c, "cancelturn")
  /\ CancelTurn(call[c].slot, call[c].before)
  /\ Goto(c, "retire")
  /\ UNCHANGED <<cvars, inbox, readRows, permit, loop, peeked, acked, tries, orphaned>>

\* A cancellation error ends a pause or a child cancellation; it ends an interruption only while the batch stays active.
CallCancelFails(c) ==
  /\ At(c, "cancelturn") /\ "cancel" \in Faults
  /\ Goto(c, IF call[c].kind \in Interrupting /\ ~StillActive(c) THEN "retire" ELSE "done")
  /\ UNCHANGED <<cvars, inbox, readRows, permit, loop, turn, peeked, acked, tries, orphaned>>

\* interrupt_batch, or cancel_batch for a pause or a child cancellation.
CallRetire(c) ==
  LET s == call[c].slot
      b == call[c].before
      current == IsCurrent(s, b)
  IN /\ At(c, "retire")
     /\ IF ~current THEN UNCHANGED <<cvars, tries>>
        ELSE /\ IF call[c].kind \in Retiring THEN CancelBatch(s, b) ELSE InterruptBatch(s, b)
             /\ tries' = [m \in Msgs |-> IF m \in BatchMsgs(b) THEN 0 ELSE tries[m]]
     /\ call' = [call EXCEPT ![c].pc = IF call[c].kind \in Retiring THEN "done"
                                       ELSE IF current THEN "markread" ELSE "supersede",
                             ![c].rows = IF current THEN BatchMsgs(b) ELSE {}]
     /\ UNCHANGED <<inbox, readRows, permit, loop, turn, peeked, acked, orphaned>>

\* The rows of what the call ended are marked read in a step of their own.
CallMarkRead(c) ==
  /\ At(c, "markread")
  /\ MarkRead(call[c].rows)
  /\ call' = [call EXCEPT ![c].rows = {},
                          ![c].pc = IF call[c].kind = "cancel" THEN "cancelturns"
                                    ELSE IF call[c].before.turn THEN "take" ELSE "supersede"]
  /\ UNCHANGED <<cvars, inbox, permit, loop, turn, peeked, acked, tries, orphaned>>

\* An error of that update ends the call there.
CallMarkReadFails(c) ==
  /\ At(c, "markread") \/ At(c, "markdiscarded")
  /\ call[c].rows # {} /\ MarkFails
  /\ call' = [call EXCEPT ![c].pc = "done", ![c].rows = {}]
  /\ UNCHANGED <<cvars, inbox, permit, loop, turn, peeked, acked, tries, orphaned>>

\* Only a caller that knows the turn takes the metadata it left.
CallTakeMetadata(c) ==
  /\ At(c, "take")
  /\ IF call[c].before.op \in interrupted
     THEN TakeInterruptMetadata(call[c].before) ELSE UNCHANGED cvars
  /\ Goto(c, "supersede")
  /\ UNCHANGED <<inbox, readRows, permit, loop, turn, peeked, acked, tries, orphaned>>

CallSupersede(c) ==
  /\ At(c, "supersede")
  /\ IF call[c].kind = "discard"
     THEN /\ DiscardQueuedExcept(call[c].slot, c)
          /\ call' = [call EXCEPT ![c].pc = "markdiscarded", ![c].rows =
                         {intents[i].msg : i \in Discardable(call[c].slot, c)} \ {NoMsg}]
     ELSE UNCHANGED cvars /\ Goto(c, "notify")
  /\ UNCHANGED <<inbox, readRows, permit, loop, turn, peeked, acked, tries, orphaned>>

CallMarkDiscarded(c) ==
  /\ At(c, "markdiscarded")
  /\ MarkRead(call[c].rows)
  /\ call' = [call EXCEPT ![c].pc = "notify", ![c].rows = {}]
  /\ UNCHANGED <<cvars, inbox, permit, loop, turn, peeked, acked, tries, orphaned>>

\* pause_slot_work, and cancel_child_turn, which leaves the slot unpaused.
CallRetireActive(c) ==
  /\ At(c, "idle")
  /\ \E x \in Calls, s \in Slots :
       /\ \/ x.kind = "pause" /\ PauseSlot(s)
          \/ x.kind = "child" /\ ~Idle(s) /\ UNCHANGED cvars
       /\ Start(c, x, s, IF Idle(s) THEN "done"
                         ELSE IF active[s].turn THEN "cancelturn" ELSE "retire", active[s])
  /\ UNCHANGED <<inbox, readRows, permit, loop, turn, peeked, acked, tries, orphaned>>

\* Batches whose turn is known are remembered for cancellation; the others are not followed.
CallCancelRun(c) ==
  /\ At(c, "idle")
  /\ \E x \in Calls, r \in Runs :
       /\ x.kind = "cancel"
       /\ CancelRun(r)
       /\ call' = [call EXCEPT ![c].pc = "markread", ![c].kind = "cancel", ![c].source = x.source,
                     ![c].rows = {intents[i].msg : i \in EndedBy(r)} \ {NoMsg},
                     ![c].hits = [s \in Slots |-> IF s \in HitBy(r) /\ active[s].turn
                                                  THEN active[s].op ELSE 0]]
  /\ UNCHANGED <<inbox, readRows, permit, loop, turn, peeked, acked, tries, orphaned>>

CallCancelRunTurns(c) ==
  /\ At(c, "cancelturns")
  /\ \/ turn' = [s \in Slots |->
                   IF call[c].hits[s] # 0 /\ turn[s] = "running" /\ loop[s].batch.op = call[c].hits[s]
                   THEN "cancelled" ELSE turn[s]]
     \/ "cancel" \in Faults /\ UNCHANGED turn
  /\ Goto(c, "done")
  /\ UNCHANGED <<cvars, inbox, readRows, permit, loop, peeked, acked, tries, orphaned>>

CallStep(c) ==
  \/ CallAcquire(c) \/ CallCapture(c) \/ CallAcquireReplacement(c) \/ CallPost(c) \/ CallFindRow(c)
  \/ CallAcquireForRow(c) \/ CallCommitSignal(c)
  \/ CallWriteRow(c) \/ CallWriteFails(c) \/ CallSenderGone(c) \/ CallCommit(c) \/ CallRejected(c)
  \/ CallSettleRow(c) \/ CallNotify(c) \/ CallCheckActive(c) \/ CallCancelTurn(c) \/ CallCancelFails(c)
  \/ CallRetire(c) \/ CallMarkRead(c) \/ CallMarkReadFails(c) \/ CallTakeMetadata(c) \/ CallSupersede(c) \/ CallMarkDiscarded(c)
  \/ CallRetireActive(c) \/ CallCancelRun(c) \/ CallCancelRunTurns(c)

-----------------------------------------------------------------------------
(* The event loop of slot s *)

LAt(s, pc)   == loop[s].pc = pc
LGoto(s, pc) == loop' = [loop EXCEPT ![s].pc = pc]
Sleep(s)     == loop' = [loop EXCEPT ![s] = Waiting]
SleepRefused(s) == loop' = [loop EXCEPT ![s] = [Waiting EXCEPT !.refused = TRUE]]
Again(s)     == loop' = [loop EXCEPT ![s] = [Waiting EXCEPT !.pc = "publish"]]

LoopWake(s) ==
  /\ LAt(s, "wait") /\ permit[s]
  /\ permit' = [permit EXCEPT ![s] = FALSE]
  /\ Again(s)
  /\ UNCHANGED <<cvars, inbox, readRows, turn, peeked, call, acked, tries, orphaned>>

LoopPublish(s) ==
  /\ LAt(s, "publish")
  /\ SetConstraint(s, Ready)
  /\ LGoto(s, "candidates")
  /\ UNCHANGED <<inbox, readRows, permit, turn, peeked, call, acked, tries, orphaned>>

LoopCandidates(s) ==
  /\ LAt(s, "candidates")
  /\ loop' = [loop EXCEPT ![s].pc = "peek",
                          ![s].cand = {i \in QueuedIn(s) : intents[i].msg # NoMsg}]
  /\ UNCHANGED <<cvars, inbox, readRows, permit, turn, peeked, call, acked, tries, orphaned>>

LoopPeek(s) ==
  /\ LAt(s, "peek")
  /\ \/ loop' = [loop EXCEPT ![s].pc = "reconcile", ![s].unread = UnreadOf(s)]
     \/ "db" \in Faults /\ Sleep(s)
  /\ UNCHANGED <<cvars, inbox, readRows, permit, turn, peeked, call, acked, tries, orphaned>>

LoopReconcileAll(s) ==
  /\ LAt(s, "reconcile")
  /\ ReconcileMailbox(s, loop[s].unread, QueuedIn(s))
  /\ loop' = [loop EXCEPT ![s] = [Waiting EXCEPT !.pc = "next"]]
  /\ UNCHANGED <<inbox, readRows, permit, turn, peeked, call, acked, tries, orphaned>>

LoopReconcile(s) ==
  /\ LAt(s, "reconcile")
  /\ ReconcileMailbox(s, loop[s].unread, loop[s].cand)
  /\ loop' = [loop EXCEPT ![s] = [Waiting EXCEPT !.pc = "next"]]
  /\ UNCHANGED <<inbox, readRows, permit, turn, peeked, call, acked, tries, orphaned>>

LoopClaim(s) ==
  /\ LAt(s, "next")
  /\ Claim(s)
  /\ loop' = [loop EXCEPT ![s].pc = "reread", ![s].batch = active'[s]]
  /\ UNCHANGED <<inbox, readRows, permit, turn, peeked, call, acked, tries, orphaned>>

LoopFindsSignals(s) ==
  /\ LAt(s, "next") /\ CanClaim(s) /\ SignalsToSettle(s) # {}
  /\ loop' = [loop EXCEPT ![s].pc = "settle", ![s].ids = SignalsToSettle(s)]
  /\ UNCHANGED <<cvars, inbox, readRows, permit, turn, peeked, call, acked, tries, orphaned>>

LoopRests(s) ==
  /\ LAt(s, "next") /\ (~CanClaim(s) \/ QueuedIn(s) = {})
  /\ Sleep(s)
  /\ UNCHANGED <<cvars, inbox, readRows, permit, turn, peeked, call, acked, tries, orphaned>>

LoopSettlesSignals(s) ==
  /\ LAt(s, "settle")
  /\ \/ CompleteSignals(s, loop[s].ids)
     \/ /\ \E i \in loop[s].ids : intents[i].state # "queued"
        /\ UNCHANGED cvars
  /\ Again(s)
  /\ UNCHANGED <<inbox, readRows, permit, turn, peeked, call, acked, tries, orphaned>>

\* The claimed rows read back by id: a row listed twice is returned once.
RereadComplete(s) == /\ BatchMsgs(loop[s].batch) \cap readRows = {}
                     /\ Cardinality(BatchMsgs(loop[s].batch)) = Len(loop[s].batch.ids)

\* Rows gone or unreadable: the batch is given back, and the error makes the loop
\* wait for the next notification.
LoopReread(s) ==
  /\ LAt(s, "reread")
  /\ \/ /\ RereadComplete(s)
        /\ LGoto(s, "start") /\ UNCHANGED cvars
     \/ /\ ~RereadComplete(s) \/ "db" \in Faults
        /\ IF IsCurrent(s, loop[s].batch) THEN RetryStart(s, loop[s].batch) ELSE UNCHANGED cvars
        /\ SleepRefused(s)
  /\ UNCHANGED <<inbox, readRows, permit, turn, peeked, call, acked, tries, orphaned>>

\* Fetching the tool transport for the role prompt fails after the claim: the
\* error leaves the batch claimed.
LoopPromptFails(s) ==
  /\ LAt(s, "start") /\ "transport" \in Faults
  /\ orphaned' = orphaned \cup {loop[s].batch.op}
  /\ Sleep(s)
  /\ UNCHANGED <<cvars, inbox, readRows, permit, turn, peeked, call, acked, tries>>

TurnSkippedKeepsBatch(s) ==
  /\ LAt(s, "start") /\ "busy" \in Faults
  /\ Sleep(s)
  /\ UNCHANGED <<cvars, inbox, readRows, permit, turn, peeked, call, acked, tries, orphaned>>

\* The conversation was already running a turn: not started, no verdict, no self-notification.
TurnSkipped(s) ==
  /\ LAt(s, "start") /\ "busy" \in Faults
  /\ IF IsCurrent(s, loop[s].batch) THEN RetryStart(s, loop[s].batch) ELSE UNCHANGED cvars
  /\ Sleep(s)
  /\ UNCHANGED <<inbox, readRows, permit, turn, peeked, call, acked, tries, orphaned>>

\* The port's on_started callback.
TurnStarts(s) ==
  LET b == loop[s].batch
  IN /\ LAt(s, "start")
     /\ IF IsCurrent(s, b) THEN MarkStarted(s, b) ELSE UNCHANGED cvars
     /\ turn' = [turn EXCEPT ![s] = "running"]
     /\ LGoto(s, IF StartResult(s, b) = "CancelImmediately" THEN "late" ELSE "turn")
     /\ UNCHANGED <<inbox, readRows, permit, peeked, call, acked, tries, orphaned>>

\* A turn that started too late: take the metadata and cancel it ...
LateCancelTurn(s) ==
  /\ LAt(s, "late")
  /\ IF loop[s].batch.op \in interrupted
     THEN TakeInterruptMetadata(loop[s].batch) ELSE UNCHANGED cvars
  /\ \/ turn' = [turn EXCEPT ![s] = "cancelled"]
     \/ "cancel" \in Faults /\ UNCHANGED turn
  /\ LGoto(s, "latecancel")
  /\ UNCHANGED <<inbox, readRows, permit, peeked, call, acked, tries, orphaned>>

\* ... and then its batch.
LateCancelBatch(s) ==
  LET b == loop[s].batch
  IN /\ LAt(s, "latecancel")
     /\ IF IsCurrent(s, b)
        THEN /\ CancelBatch(s, b)
             /\ tries' = [m \in Msgs |-> IF m \in BatchMsgs(b) THEN 0 ELSE tries[m]]
        ELSE UNCHANGED <<cvars, tries>>
     /\ LGoto(s, "turn")
     /\ UNCHANGED <<inbox, readRows, permit, turn, peeked, call, acked, orphaned>>

(* team_read_messages, called by the agent inside its turn: the owning batch is
   captured, the rows are read, and last they are bound to that batch if it
   still owns the slot.                                                    *)
AgentCaptures(s) ==
  /\ LAt(s, "turn") /\ ~Idle(s) /\ peeked[s].op = 0
  /\ peeked' = [peeked EXCEPT ![s].op = active[s].op]
  /\ UNCHANGED <<cvars, inbox, readRows, permit, loop, turn, call, acked, tries, orphaned>>

AgentPeeks(s) ==
  /\ peeked[s].op # 0 /\ ~peeked[s].read
  /\ peeked' = [peeked EXCEPT ![s].read = TRUE, ![s].rows = Range(UnreadOf(s))]
  /\ UNCHANGED <<cvars, inbox, readRows, permit, loop, turn, call, acked, tries, orphaned>>

AgentObserves(s) ==
  LET b == [NoBatch EXCEPT !.op = peeked[s].op]
  IN /\ peeked[s].read
     /\ IF IsCurrent(s, b) THEN ObserveMessages(s, b, peeked[s].rows) ELSE UNCHANGED cvars
     /\ peeked' = [peeked EXCEPT ![s] = NotPeeking]
     /\ UNCHANGED <<inbox, readRows, permit, loop, turn, call, acked, tries, orphaned>>

AgentReads(s) == AgentCaptures(s) \/ AgentPeeks(s) \/ AgentObserves(s)

(* run_agent_turn returns.  Both outcomes first ask whether the batch was
   cancelled; only the error path drains the interrupt metadata then.      *)
TurnErrs(s) ==
  /\ LAt(s, "start") \/ LAt(s, "turn")
  /\ turn' = [turn EXCEPT ![s] = "none"]
  /\ IF IsBatchCancelled(loop[s].batch)
     THEN /\ IF loop[s].batch.op \in interrupted
             THEN TakeInterruptMetadata(loop[s].batch) ELSE UNCHANGED cvars
          /\ Again(s)
     ELSE /\ LGoto(s, "fail") /\ UNCHANGED cvars
  /\ UNCHANGED <<inbox, readRows, permit, peeked, call, acked, tries, orphaned>>

\* A cancelled turn may be reported completed or failed.
TurnEnds(s) ==
  /\ LAt(s, "turn")
  /\ turn' = [turn EXCEPT ![s] = "none"]
  /\ IF IsBatchCancelled(loop[s].batch)
     THEN Again(s)
     ELSE \E verdict \in {"complete", "fail"} : LGoto(s, verdict)
  /\ UNCHANGED <<cvars, inbox, readRows, permit, peeked, call, acked, tries, orphaned>>

LoopCompletes(s) ==
  LET b == loop[s].batch
  IN /\ LAt(s, "complete")
     /\ IF IsCurrent(s, b)
        THEN /\ CompleteBatch(s, b)
             /\ acked' = acked \cup Acked(s)
             /\ tries' = [m \in Msgs |-> IF m \in Acked(s) THEN 0 ELSE tries[m]]
             /\ loop' = [loop EXCEPT ![s].pc = "markread", ![s].rows = Acked(s)]
        ELSE Again(s) /\ UNCHANGED <<cvars, acked, tries>>
     /\ UNCHANGED <<inbox, readRows, permit, turn, peeked, call, orphaned>>

LoopFails(s) ==
  LET b == loop[s].batch
  IN /\ LAt(s, "fail")
     /\ IF IsCurrent(s, b)
        THEN /\ FailBatch(s, b)
             /\ tries' = [m \in Msgs |-> IF m \in BatchMsgs(b) THEN tries[m] + 1 ELSE tries[m]]
             /\ IF Exhausted(s, b) = {} THEN Again(s)
                ELSE loop' = [loop EXCEPT ![s].pc = "markread", ![s].rows = Exhausted(s, b)]
        ELSE Again(s) /\ UNCHANGED <<cvars, tries>>
     /\ UNCHANGED <<inbox, readRows, permit, turn, peeked, call, acked, orphaned>>

LoopMarksNothing(s) ==
  /\ LAt(s, "markread")
  /\ Again(s)
  /\ UNCHANGED <<cvars, inbox, readRows, permit, turn, peeked, call, acked, tries, orphaned>>

LoopMarksReadThenWaits(s) ==
  /\ LAt(s, "markread")
  /\ MarkReadOrFail(loop[s].rows)
  /\ Sleep(s)
  /\ UNCHANGED <<cvars, inbox, permit, turn, peeked, call, acked, tries, orphaned>>

LoopMarksRead(s) ==
  /\ LAt(s, "markread")
  /\ MarkReadOrFail(loop[s].rows)
  /\ Again(s)
  /\ UNCHANGED <<cvars, inbox, permit, turn, peeked, call, acked, tries, orphaned>>

LoopStep(s) ==
  \/ LoopWake(s) \/ LoopPublish(s) \/ LoopCandidates(s) \/ LoopPeek(s) \/ LoopReconcile(s)
  \/ LoopClaim(s) \/ LoopFindsSignals(s) \/ LoopRests(s) \/ LoopSettlesSignals(s) \/ LoopReread(s)
  \/ LoopPromptFails(s) \/ TurnSkipped(s) \/ TurnStarts(s) \/ LateCancelTurn(s) \/ LateCancelBatch(s)
  \/ TurnErrs(s) \/ TurnEnds(s) \/ LoopCompletes(s) \/ LoopFails(s) \/ LoopMarksRead(s)

LoopNext == \/ \E c \in Callers : CallStep(c)
            \/ \E s \in Slots : LoopStep(s) \/ AgentReads(s)

LoopSpec == LInit /\ [][LoopNext]_vars

-----------------------------------------------------------------------------
(* Properties *)

\* Every variable has its shape.
LTypeOK ==
  /\ TypeOK
  /\ inbox \in [Slots -> Seq(Msgs)] /\ readRows \subseteq Msgs
  /\ permit \in [Slots -> BOOLEAN]
  /\ loop \in [Slots -> LoopRec]
  /\ turn \in [Slots -> {"none", "running", "cancelled"}]
  /\ peeked \in [Slots -> PeekRec]
  /\ call \in [Callers -> CallRec]
  /\ acked \subseteq Msgs /\ tries \in [Msgs -> Nat] /\ orphaned \subseteq Nat

\* A loop that waits has given back whatever it claimed: every way out of
\* prepare_next_batch and execute_and_finalize settles or requeues the batch, the
\* failing transport lookup (LoopPromptFails) excepted.
WaitingLoopOwnsNothing ==
  \A s \in Slots : LAt(s, "wait") => Idle(s) \/ active[s].op \in orphaned

\* A lease belongs to a call in progress: every error path of the enqueueing calls
\* gives it back, the failing sender lookup (CallSenderGone) excepted.
LeasesReturned == \A l \in leases : call[l.owner].pc \notin {"idle", "done"}

\* A call that still has to notify the slot's loop, or to mark the row m read.
WillFollowUp(s, m) ==
  \E c \in Callers :
    \/ call[c].pc \in {"markread", "markdiscarded"} /\ m \in call[c].rows
    \/ call[c].slot = s /\ call[c].kind \in Notifying /\ call[c].pc \notin {"idle", "abandoned", "done"}

\* No lost wake-up: when the loop of a slot that may run waits without a permit,
\* no unread row is left that nobody will come back for (event_loop.rs
\* run_event_loop, session.rs prepare_next_batch and the enqueue paths).  A loop
\* whose last batch the reread refused is excepted: that error ends its work even
\* when rows that were not at fault are still unread.
NoStrandedWork ==
  \A s \in Slots :
    LAt(s, "wait") /\ ~loop[s].refused /\ ~permit[s] /\ ~paused[s] =>
      \A m \in Range(inbox[s]) \ readRows : WillFollowUp(s, m)

\* A row acknowledged by a successful turn, claimed or merely observed in it, is
\* never put in front of the agent again (complete_batch_with_ack, the stale
\* cleanup of reconcile_mailbox_snapshot and the reread after the claim).
AckedNeverRedelivered ==
  [][\A s \in Slots : turn[s] = "none" /\ turn'[s] # "none" =>
       BatchMsgs(loop[s].batch) \cap acked = {}]_vars

\* A row is charged with at most MAX_MESSAGE_DELIVERY_FAILURES failures, however
\* its intents were replaced by recovery drains in between (terminalize_batch,
\* finalize_failed_delivery).
RetryBudget == \A m \in Msgs : tries[m] <= MaxFailures

\* An intent whose row is still unread is never written off as stale, even when
\* it was committed while the rows were being read (prepare_next_batch).
UnreadNeverStale ==
  [][\A i \in Ids : intents[i].state = "queued" /\ intents'[i].state = "completed"
                      /\ intents[i].msg # NoMsg
       => intents[i].msg \in readRows \cup acked']_vars

\* Interrupt metadata is left behind by no batch that is over.
InterruptMetadataDrained ==
  \A o \in interrupted :
    \/ \E s \in Slots : loop[s].batch.op = o
    \/ \E c \in Callers : call[c].before.op = o /\ call[c].pc # "done"

\* When the reread turns a batch away, one of its rows really is no longer unread
\* (the error prepare_next_batch then returns says so).
RefusedRowsAreRead ==
  \A s \in Slots : LAt(s, "reread") /\ ~RereadComplete(s) =>
    BatchMsgs(loop[s].batch) \cap readRows # {}

\* A persisted message is eventually read by the agent or settled, unless its slot
\* ends up paused.
EventuallySettled ==
  \A m \in Msgs : (\E s \in Slots : m \in Range(inbox[s])) ~>
                    (m \in readRows \/ \E s \in Slots : m \in Range(inbox[s]) /\ paused[s])

=============================================================================
