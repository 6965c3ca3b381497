-------------------------- MODULE ConversationTurn --------------------------
(***************************************************************************)
(* The turns of one conversation and everything that ends them early: the  *)
(* claim that keeps turns apart (runtime_state.rs), the orchestrator that  *)
(* builds an agent, prompts it, relays its stream, replays a failed        *)
(* attempt and evicts a broken agent (turn_orchestrator.rs), and the calls *)
(* of the service that cancel, restart, delete, revoke, warm up, clean up  *)
(* an idle agent or shut down (service.rs, idle_scanner.rs).               *)
(*                                                                         *)
(* Every lock, every call of the task manager and every await is a step    *)
(* boundary.  A turn is named by its turn id.  What an agent says is left  *)
(* out: a prompt ends well, ends with an answer to be fed back, or fails.  *)
(***************************************************************************)
EXTENDS AgentTasks, FiniteSets

CONSTANTS
  MaxTurns,          \* bound: how many turns ask for the conversation
  MaxEvents,         \* bound: how many turns, calls (a restart counts twice) and failures there are
  Callers,           \* callers of the other operations, one call each
  Calls,             \* [caller -> the operations it may call]
  Faults,            \* what may fail
  MaxContinuations   \* MAX_SYSTEM_RESPONSE_CONTINUATIONS_PER_TURN

\* Turn ids, numbered in the order in which they are minted.
Turns  == 1..MaxTurns
NoTurn == 0

CallKinds == {"cancel", "restart", "revoke", "delete", "warmup", "idle", "shutdown"}

\* A database call, assembling the build options, an agent's start, its cancellation, its answer.
FaultKinds == {"db", "options", "build", "cancel", "agent"}

ASSUME ConversationAssumption ==
  /\ Calls \in [Callers -> SUBSET CallKinds] /\ Faults \subseteq FaultKinds
  /\ {MaxTurns, MaxContinuations, MaxEvents} \subseteq Nat

VARIABLES
  claim,       \* the turn that holds the conversation, or NoTurn
  deleting, cancelling, restarting, shutting,   \* flags of the runtime state
  deferred,    \* the turn whose cancellation waits for its agent, or NoTurn
  row,         \* the conversation is in the database
  events,      \* turns, calls and failures so far
  turn,        \* [turn -> the orchestrator's program counter and locals]
  call,        \* [caller -> its program counter and locals]
  watch,       \* [caller -> the watchdog its cancellation armed, if any]
  unseated,    \* history: running turns whose claim a restart or a revocation removed
  early,       \* history: running turns cancelled before they looked for a deferred cancellation
  displaced,   \* history: running turns whose deferred cancellation another one overwrote
  handed       \* history: running turns whose agent was told to cancel while it ran their prompt

flags == <<claim, deleting, cancelling, restarting, shutting, deferred>>
past  == <<unseated, early, displaced, handed>>
vars  == <<tvars, flags, row, events, turn, call, watch, past>>

TurnPcs == {"idle", "claimed", "build", "init", "building", "look", "relay", "decide", "evicting",
            "release", "done"}
CallPcs == {"idle", "check", "look", "hand", "cancel", "defer", "begin", "kill", "killing", "clear",
            "wipe", "ensure", "init", "building", "gate", "hook", "drop", "done"}
Lifecycles == {"Active", "Deleting", "Cancelling", "ShuttingDown"}
Outcomes   == {"ok", "retry", "fatal"}

TurnRec == [pc : TurnPcs, cell : Cells \cup {NoCell}, seen : Lifecycles, out : Outcomes,
            replayed : BOOLEAN, count : 0..MaxContinuations]
CallRec == [pc : CallPcs, kind : CallKinds, turn : Turns \cup {NoTurn},
            cell : Cells \cup {NoCell}, had : BOOLEAN]

WatchRec == [turn : Turns \cup {NoTurn}, firing : BOOLEAN]
NoWatch  == [turn |-> NoTurn, firing |-> FALSE]

TurnWith(pc) == [pc |-> pc, cell |-> NoCell, seen |-> "Active", out |-> "ok",
                 replayed |-> FALSE, count |-> 0]
CallWith(k, pc) == [pc |-> pc, kind |-> k, turn |-> NoTurn, cell |-> NoCell, had |-> FALSE]

TypeOK ==
  /\ TasksTypeOK
  /\ {claim, deferred} \subseteq Turns \cup {NoTurn}
  /\ {deleting, cancelling, restarting, shutting, row} \subseteq BOOLEAN
  /\ events \in 0..MaxEvents
  /\ turn \in [Turns -> TurnRec] /\ call \in [Callers -> CallRec]
  /\ watch \in [Callers -> WatchRec]
  /\ unseated \subseteq Turns /\ early \subseteq Turns
  /\ displaced \subseteq Turns /\ handed \subseteq Turns

Init ==
  /\ TasksInit
  /\ claim = NoTurn /\ deferred = NoTurn
  /\ deleting = FALSE /\ cancelling = FALSE /\ restarting = FALSE /\ shutting = FALSE
  /\ row = TRUE /\ events = 0
  /\ turn = [t \in Turns |-> TurnWith("idle")]
  /\ call = [c \in Callers |-> CallWith("cancel", "idle")]
  /\ watch = [c \in Callers |-> NoWatch]
  /\ unseated = {} /\ early = {} /\ displaced = {} /\ handed = {}

TurnAt(t, pc) == turn[t].pc = pc
CallAt(c, pc) == call[c].pc = pc
Kind(c)       == call[c].kind
Running(t)    == turn[t].pc \notin {"idle", "done"}

\* Agents and cells that a task holds on to, in the map or not.
Held == ({turn[t].cell : t \in Turns} \cup {call[c].cell : c \in Callers}) \ {NoCell}

Lifecycle == IF shutting THEN "ShuttingDown"
             ELSE IF deleting THEN "Deleting"
             ELSE IF cancelling THEN "Cancelling" ELSE "Active"

Costs(n) == events + n <= MaxEvents /\ events' = events + n
Fault(k) == k \in Faults /\ Costs(1)
NoFault  == UNCHANGED events

\* AgentType::Acp, the type of the ACP managers and of the sessions of claude and codex.
IsAcp == agent \in {"Acp", "Session"}

-----------------------------------------------------------------------------
(* The runtime state, one lock *)

MayClaim == ~shutting /\ ~deleting /\ ~restarting /\ claim = NoTurn

Claimed(t) ==
  claim' = t /\ UNCHANGED <<deleting, cancelling, restarting, shutting, deferred>>

\* Mutant: a release that does not compare turn ids.
ReleaseAnyTurn(t) ==
  IF claim # NoTurn
  THEN /\ claim' = NoTurn /\ deleting' = FALSE /\ cancelling' = FALSE
       /\ UNCHANGED <<restarting, shutting, deferred>>
  ELSE UNCHANGED flags

\* TurnClaim::release, or its drop; a deferred cancellation stays behind.
Release(t) ==
  IF claim = t
  THEN /\ claim' = NoTurn /\ deleting' = FALSE /\ cancelling' = FALSE
       /\ UNCHANGED <<restarting, shutting, deferred>>
  ELSE UNCHANGED flags

SetCancelling(b) ==
  cancelling' = b /\ UNCHANGED <<claim, deleting, restarting, shutting, deferred>>
SetDeleting(b) ==
  deleting' = b /\ UNCHANGED <<claim, cancelling, restarting, shutting, deferred>>
SetRestarting(b) ==
  restarting' = b /\ UNCHANGED <<claim, deleting, cancelling, shutting, deferred>>

\* A record of another turn is overwritten.
DeferCancel(t) ==
  deferred' = t /\ UNCHANGED <<claim, deleting, cancelling, restarting, shutting>>

TakeDeferred(t) ==
  /\ deferred' = IF deferred = t THEN NoTurn ELSE deferred
  /\ UNCHANGED <<claim, deleting, cancelling, restarting, shutting>>

Unseat == unseated' = unseated \cup ({claim} \ {NoTurn}) /\ UNCHANGED <<early, displaced, handed>>

ClearTurnState ==
  /\ claim' = NoTurn /\ cancelling' = FALSE /\ deferred' = NoTurn
  /\ UNCHANGED <<deleting, restarting, shutting>>

ClearConversation ==
  /\ claim' = NoTurn /\ cancelling' = FALSE /\ deferred' = NoTurn
  /\ deleting' = FALSE /\ restarting' = FALSE /\ UNCHANGED shutting

-----------------------------------------------------------------------------
(* A turn *)

TurnGoto(t, pc)  == turn' = [turn EXCEPT ![t].pc = pc]
TurnDrops(t, pc) == turn' = [turn EXCEPT ![t].pc = pc, ![t].cell = NoCell]

TurnEnds(t) ==
  /\ turn' = [turn EXCEPT ![t] = TurnWith("done")]
  /\ unseated' = unseated \ {t} /\ early' = early \ {t}
  /\ displaced' = displaced \ {t} /\ handed' = handed \ {t}

\* A request that has found the conversation, which may be gone by now, claims it for a turn or
\* is turned away.
TurnClaim(t) ==
  /\ TurnAt(t, "idle") /\ \A u \in Turns : u < t => ~TurnAt(u, "idle")
  /\ IF MayClaim THEN Claimed(t) /\ TurnGoto(t, "claimed")
                 ELSE UNCHANGED flags /\ TurnGoto(t, "done")
  /\ Costs(1) /\ UNCHANGED <<tvars, row, call, watch, past>>

\* The user's message is written; a team's turn goes on without one, and so does another agent's
\* turn while a cancellation is under way.
TurnAdmit(t) ==
  /\ TurnAt(t, "claimed")
  /\ TurnGoto(t, "build") /\ UNCHANGED <<tvars, flags, row, events, call, watch, past>>

\* A message sent meanwhile goes no further; nor does a turn whose message cannot be written.
TurnRefused(t) ==
  /\ TurnAt(t, "claimed")
  /\ \/ (Lifecycle = "Cancelling" \/ ~row) /\ NoFault
     \/ Lifecycle # "Cancelling" /\ Fault("db")
  /\ Release(t) /\ TurnEnds(t)
  /\ UNCHANGED <<tvars, row, call, watch>>

TurnBuild(t) ==
  /\ TurnAt(t, "build")
  /\ \/ /\ \E c \in Cells : Seat(c, Held) /\ turn' = [turn EXCEPT ![t].pc = "init", ![t].cell = c]
        /\ NoFault
     \/ ~turn[t].replayed /\ Fault("options") /\ TurnGoto(t, "release") /\ UNCHANGED tvars
  /\ UNCHANGED <<flags, row, call, watch, past>>

TurnInit(t) ==
  /\ TurnAt(t, "init")
  /\ \/ HasAgent(turn[t].cell) /\ TurnGoto(t, "look") /\ UNCHANGED tvars
     \/ BeginInit(turn[t].cell) /\ TurnGoto(t, "building")
  /\ UNCHANGED <<flags, row, events, call, watch, past>>

TurnBuilt(t) ==
  /\ TurnAt(t, "building")
  /\ \/ EndInit(turn[t].cell, TRUE) /\ TurnGoto(t, "look") /\ NoFault
     \/ EndInit(turn[t].cell, FALSE) /\ TurnDrops(t, "release") /\ Fault("build")
  /\ UNCHANGED <<flags, row, call, watch, past>>

\* The prompt goes out; the lifecycle of this moment is judged again after the stream.
Prompt(t, n) ==
  turn' = [turn EXCEPT ![t].pc = "relay", ![t].seen = Lifecycle, ![t].count = n]

\* Mutant: the deferred cancellation is taken on the first attempt only.
LookOnFirstAttempt(t) ==
  /\ TurnAt(t, "look")
  /\ \/ /\ TakeDeferred(t) /\ NoFault
        /\ IF deferred = t /\ ~turn[t].replayed THEN TurnDrops(t, "release") ELSE Prompt(t, 0)
     \/ Fault("db") /\ TurnDrops(t, "release") /\ UNCHANGED flags
  /\ UNCHANGED <<tvars, row, call, watch, past>>

\* The one place where a deferred cancellation is applied, between the agent and its prompt.
TurnLook(t) ==
  /\ TurnAt(t, "look")
  /\ \/ TakeDeferred(t) /\ NoFault /\ IF deferred = t THEN TurnDrops(t, "release") ELSE Prompt(t, 0)
     \/ Fault("db") /\ TurnDrops(t, "release") /\ UNCHANGED flags
  /\ UNCHANGED <<tvars, row, call, watch, past>>

\* Mutant: one continuation too many.
ContinueOnceMore(t) ==
  /\ TurnAt(t, "relay") /\ cell[turn[t].cell] = "live"
  /\ turn[t].seen = "Active" /\ turn[t].count <= MaxContinuations
  /\ Prompt(t, turn[t].count + 1)
  /\ UNCHANGED <<tvars, flags, row, events, call, watch, past>>

\* Answers to be fed back, judged by the lifecycle of the time of the prompt.
Continue(t) ==
  /\ TurnAt(t, "relay") /\ cell[turn[t].cell] = "live"
  /\ turn[t].seen = "Active" /\ turn[t].count < MaxContinuations
  /\ Prompt(t, turn[t].count + 1)
  /\ UNCHANGED <<tvars, flags, row, events, call, watch, past>>

StreamOver(t, out) ==
  turn' = [turn EXCEPT ![t] = [TurnWith("decide") EXCEPT !.out = out, !.replayed = turn[t].replayed]]

AgentAnswers(t) ==
  /\ TurnAt(t, "relay") /\ cell[turn[t].cell] = "live"
  /\ \/ StreamOver(t, "ok") /\ NoFault
     \/ \E out \in {"retry", "fatal"} : StreamOver(t, out) /\ Fault("agent")
  /\ UNCHANGED <<tvars, flags, row, call, watch, past>>

\* A kill ends the stream, or makes the agent refuse the prompt that follows it.
AgentGone(t) ==
  /\ TurnAt(t, "relay") /\ cell[turn[t].cell] # "live"
  /\ \E out \in Outcomes : (cell[turn[t].cell] = "dead" => out # "ok") /\ StreamOver(t, out)
  /\ UNCHANGED <<tvars, flags, row, events, call, watch, past>>

Replays(t) == IsAcp /\ turn[t].out = "retry" /\ Lifecycle = "Active" /\ ~turn[t].replayed
Evicts(t)  == IsAcp /\ turn[t].out # "ok" /\ (Replays(t) \/ Lifecycle \notin {"Deleting", "ShuttingDown"})

\* TurnRecoveryPolicy, then AgentHealthPolicy.  What is evicted is the agent the map holds now.
TurnDecide(t) ==
  LET next == IF Replays(t) THEN "build" ELSE "release" IN
  /\ TurnAt(t, "decide")
  /\ IF Evicts(t)
     THEN /\ KillAndWait("dead")
          /\ turn' = [turn EXCEPT ![t].pc = IF Awaited = NoCell THEN next ELSE "evicting",
                                  ![t].cell = Awaited, ![t].replayed = Replays(t) \/ @,
                                  ![t].out = IF next = "build" /\ Awaited # NoCell THEN @ ELSE "ok"]
     ELSE UNCHANGED tvars /\ TurnGoto(t, "release")
  /\ UNCHANGED <<flags, row, events, call, watch, past>>

TurnEvicted(t) ==
  /\ TurnAt(t, "evicting") /\ ~Reaped(turn[t].cell)
  /\ turn' = [turn EXCEPT ![t].pc = IF turn[t].out = "retry" THEN "build" ELSE "release",
                          ![t].out = "ok", ![t].cell = NoCell]
  /\ UNCHANGED <<tvars, flags, row, events, call, watch, past>>

TurnRelease(t) ==
  /\ TurnAt(t, "release")
  /\ Release(t) /\ TurnEnds(t)
  /\ UNCHANGED <<tvars, row, events, call, watch>>

\* Everything a turn does by itself; how long an agent works is up to the agent.
TurnGoesOn(t) ==
  \/ TurnAdmit(t) \/ TurnRefused(t) \/ TurnBuild(t) \/ TurnInit(t) \/ TurnBuilt(t) \/ TurnLook(t)
  \/ AgentGone(t) \/ TurnDecide(t) \/ TurnEvicted(t) \/ TurnRelease(t)

TurnStep(t) == TurnClaim(t) \/ TurnGoesOn(t) \/ AgentAnswers(t) \/ Continue(t)

-----------------------------------------------------------------------------
(* The other operations of the service *)

CallGoto(c, pc) == call' = [call EXCEPT ![c].pc = pc]
CallEnds(c)     == call' = [call EXCEPT ![c] = CallWith("cancel", "done")]
Begin(c, k, pc) == /\ k \in Calls[c] /\ Costs(IF k = "restart" THEN 2 ELSE 1)
                   /\ call' = [call EXCEPT ![c].pc = pc, ![c].kind = k]

\* Where a call goes on after its cancellation, its kill, its attempt to have an agent.
AfterCancel(c) == IF Kind(c) = "restart" THEN call' = [call EXCEPT ![c] = CallWith("restart", "kill")]
                  ELSE CallEnds(c)
AfterKill(c)   == CallWith(Kind(c), IF Kind(c) = "restart" THEN "clear"
                                    ELSE IF Kind(c) = "revoke" THEN "wipe" ELSE "done")
Returns(c)     == IF Kind(c) = "restart"
                  THEN call' = [call EXCEPT ![c].pc = "gate", ![c].cell = NoCell] ELSE CallEnds(c)

\* Mutant: a failed restart returns without opening its gate.
FailsAtOnce(c) == CallEnds(c)

\* The gate is opened whatever the result of the restart.
Fails(c) == Returns(c)

\* A cancellation names the turn it is for; one for another turn than the claim's is ignored.
CancelBegin(c) ==
  /\ CallAt(c, "idle") /\ "cancel" \in Calls[c] /\ Costs(1) /\ row /\ claim # NoTurn
  /\ call' = [call EXCEPT ![c].pc = "look", ![c].kind = "cancel", ![c].turn = claim]
  /\ UNCHANGED <<tvars, flags, row, turn, watch, past>>

CancelCheck(c) ==
  /\ CallAt(c, "check")
  /\ IF ~row THEN Fails(c)
     ELSE IF claim = call[c].turn THEN CallGoto(c, "look") ELSE AfterCancel(c)
  /\ UNCHANGED <<tvars, flags, row, events, turn, watch, past>>

CancelLook(c) ==
  /\ CallAt(c, "look")
  /\ IF Found THEN call' = [call EXCEPT ![c].pc = "hand", ![c].cell = slot]
              ELSE CallGoto(c, "defer")
  /\ UNCHANGED <<tvars, flags, row, events, turn, watch, past>>

BeforeLook == {"claimed", "build", "init", "building", "look"}

CancelDefer(c) ==
  LET t == call[c].turn IN
  /\ CallAt(c, "defer")
  /\ DeferCancel(t)
  /\ displaced' = (IF turn[t].pc \in BeforeLook THEN displaced \ {t} ELSE displaced)
                   \cup ({deferred} \cap {u \in Turns \ {t} : Running(u)})
  /\ early' = IF turn[t].pc \in BeforeLook THEN early \cup {t} ELSE early
  /\ AfterCancel(c)
  /\ UNCHANGED <<tvars, row, events, turn, watch, unseated, handed>>

CancelHand(c) ==
  /\ CallAt(c, "hand")
  /\ SetCancelling(TRUE) /\ CallGoto(c, "cancel")
  /\ UNCHANGED <<tvars, row, events, turn, watch, past>>

\* The kinds of agents whose cancellation is watched.
Watched == agent # "Aionrs"

\* agent.cancel(): without a prompt it is only noted, or lost; a failure takes the flag back.
CancelDone(c) ==
  LET t == call[c].turn IN
  /\ CallAt(c, "cancel")
  /\ \/ /\ watch' = IF Watched THEN [watch EXCEPT ![c].turn = t] ELSE watch
        /\ handed' = IF TurnAt(t, "relay") /\ turn[t].cell = call[c].cell /\ slot = call[c].cell
                     THEN handed \cup {t} ELSE handed
        /\ AfterCancel(c) /\ UNCHANGED flags /\ NoFault
     \/ /\ agent # "Aionrs" /\ Fault("cancel")
        /\ SetCancelling(FALSE) /\ Fails(c) /\ UNCHANGED <<watch, handed>>
  /\ UNCHANGED <<tvars, row, turn, unseated, early, displaced>>

\* Mutant: the watchdog asks for the lifecycle, which hides a cancellation during a shutdown.
WatchLookLifecycle(c) ==
  /\ watch[c].turn # NoTurn
  /\ watch' = [watch EXCEPT ![c] = [NoWatch EXCEPT !.firing = claim = watch[c].turn
                                                              /\ Lifecycle = "Cancelling"]]
  /\ UNCHANGED <<tvars, flags, row, events, turn, call, past>>

\* ACP_CANCEL_DRAIN_TIMEOUT has passed.
WatchLook(c) ==
  /\ watch[c].turn # NoTurn
  /\ watch' = [watch EXCEPT ![c] = [NoWatch EXCEPT !.firing = claim = watch[c].turn /\ cancelling]]
  /\ UNCHANGED <<tvars, flags, row, events, turn, call, past>>

WatchKill(c) ==
  /\ watch[c].firing /\ watch' = [watch EXCEPT ![c] = NoWatch]
  /\ KillAndWait("finished")
  /\ UNCHANGED <<flags, row, events, turn, call, past>>

RestartBegin(c) ==
  /\ CallAt(c, "idle") /\ Begin(c, "restart", "begin")
  /\ row /\ Found /\ ~restarting /\ ~shutting /\ ~deleting
  /\ SetRestarting(TRUE)
  /\ UNCHANGED <<tvars, row, turn, watch, past>>

RestartAims(c) ==
  /\ CallAt(c, "begin")
  /\ call' = [call EXCEPT ![c].pc = IF claim = NoTurn THEN "kill" ELSE "check", ![c].turn = claim]
  /\ UNCHANGED <<tvars, flags, row, events, turn, watch, past>>

\* The idle scan picks an agent that runs no prompt, a revocation any agent; both kill it later.
KillBegin(c) ==
  /\ CallAt(c, "idle") /\ Found
  /\ \/ Begin(c, "revoke", "kill") /\ row
     \/ IsAcp /\ Begin(c, "idle", "kill") /\ \A t \in Turns : ~(TurnAt(t, "relay") /\ turn[t].cell = slot)
  /\ UNCHANGED <<tvars, flags, row, turn, watch, past>>

CallKill(c) ==
  /\ CallAt(c, "kill")
  /\ KillAndWait(IF Kind(c) = "restart" THEN "finished" ELSE "dead")
  /\ call' = [call EXCEPT ![c] = IF Awaited = NoCell THEN AfterKill(c)
                                 ELSE [@ EXCEPT !.pc = "killing", !.cell = Awaited]]
  /\ UNCHANGED <<flags, row, events, turn, watch, past>>

CallKilled(c) ==
  /\ CallAt(c, "killing") /\ ~Reaped(call[c].cell)
  /\ call' = [call EXCEPT ![c] = AfterKill(c)]
  /\ UNCHANGED <<tvars, flags, row, events, turn, watch, past>>

RestartClear(c) ==
  /\ CallAt(c, "clear")
  /\ ClearTurnState /\ Unseat /\ CallGoto(c, "ensure")
  /\ UNCHANGED <<tvars, row, events, turn, watch>>

RevokeClear(c) ==
  /\ CallAt(c, "wipe")
  /\ ClearConversation /\ Unseat /\ CallEnds(c)
  /\ UNCHANGED <<tvars, row, events, turn, watch>>

WarmupBegin(c) ==
  /\ CallAt(c, "idle") /\ Begin(c, "warmup", "ensure")
  /\ UNCHANGED <<tvars, flags, row, turn, watch, past>>

\* ensure_runtime_agent
CallEnsure(c) ==
  /\ CallAt(c, "ensure")
  /\ \/ ~row /\ Fails(c) /\ UNCHANGED tvars /\ NoFault
     \/ row /\ ~Found /\ Fault("options") /\ Fails(c) /\ UNCHANGED tvars
     \/ row /\ Found /\ Returns(c) /\ UNCHANGED tvars /\ NoFault
     \/ /\ row /\ ~Found /\ NoFault
        /\ \E d \in Cells : Seat(d, Held) /\ call' = [call EXCEPT ![c].pc = "init", ![c].cell = d]
  /\ UNCHANGED <<flags, row, turn, watch, past>>

CallInit(c) ==
  /\ CallAt(c, "init")
  /\ \/ HasAgent(call[c].cell) /\ Returns(c) /\ UNCHANGED tvars
     \/ BeginInit(call[c].cell) /\ CallGoto(c, "building")
  /\ UNCHANGED <<flags, row, events, turn, watch, past>>

CallBuilt(c) ==
  /\ CallAt(c, "building")
  /\ \/ EndInit(call[c].cell, TRUE) /\ Returns(c) /\ NoFault
     \/ EndInit(call[c].cell, FALSE) /\ Fails(c) /\ Fault("build")
  /\ UNCHANGED <<flags, row, turn, watch, past>>

RestartEnds(c) ==
  /\ CallAt(c, "gate")
  /\ SetRestarting(FALSE) /\ CallEnds(c)
  /\ UNCHANGED <<tvars, row, events, turn, watch, past>>

DeleteBegin(c) ==
  /\ CallAt(c, "idle") /\ "delete" \in Calls[c] /\ Costs(1) /\ row
  /\ SetDeleting(TRUE)
  /\ call' = [call EXCEPT ![c].pc = "hook", ![c].kind = "delete", ![c].had = claim # NoTurn]
  /\ UNCHANGED <<tvars, row, turn, watch, past>>

\* on_conversation_deleted
DeleteHook(c) ==
  /\ CallAt(c, "hook")
  /\ Kill("dead") /\ CallGoto(c, "drop")
  /\ UNCHANGED <<flags, row, events, turn, watch, past>>

\* With a turn at the start, the flag is left for that turn's release to take away.
DeleteRow(c) ==
  /\ CallAt(c, "drop")
  /\ \/ row' = FALSE /\ (IF call[c].had THEN UNCHANGED flags ELSE SetDeleting(FALSE)) /\ NoFault
     \/ Fault("db") /\ SetDeleting(FALSE) /\ UNCHANGED row
  /\ CallEnds(c)
  /\ UNCHANGED <<tvars, turn, watch, past>>

Shutdown(c) ==
  /\ CallAt(c, "idle") /\ Begin(c, "shutdown", "done")
  /\ shutting' = TRUE /\ UNCHANGED <<claim, deleting, cancelling, restarting, deferred>>
  /\ UNCHANGED <<tvars, row, turn, watch, past>>

CallBegins(c) == \/ CancelBegin(c) \/ RestartBegin(c) \/ KillBegin(c) \/ WarmupBegin(c)
                 \/ DeleteBegin(c) \/ Shutdown(c)
CallGoesOn(c) == \/ CancelCheck(c) \/ CancelLook(c) \/ CancelDefer(c) \/ CancelHand(c) \/ CancelDone(c)
                 \/ RestartAims(c) \/ CallKill(c) \/ CallKilled(c) \/ RestartClear(c) \/ RevokeClear(c)
                 \/ CallEnsure(c) \/ CallInit(c) \/ CallBuilt(c) \/ RestartEnds(c)
                 \/ DeleteHook(c) \/ DeleteRow(c)
WatchStep(c)  == WatchLook(c) \/ WatchKill(c)

ReapStep(c) == Reap(c) /\ UNCHANGED <<flags, row, events, turn, call, watch, past>>

\* Every turn has ended and every call has returned.
AtRest ==
  /\ \A t \in Turns : turn[t].pc \in {"idle", "done"}
  /\ \A c \in Callers : call[c].pc \in {"idle", "done"} /\ watch[c] = NoWatch
  /\ \A c \in Cells : ~Reaped(c)
  /\ UNCHANGED vars

Next == \/ \E t \in Turns : TurnStep(t)
        \/ \E c \in Callers : CallBegins(c) \/ CallGoesOn(c) \/ WatchStep(c)
        \/ \E c \in Cells : ReapStep(c)
        \/ AtRest

Spec == Init /\ [][Next]_vars

\* Tasks are scheduled, factories return, watchdogs fire; nobody has to begin anything, and an
\* agent may work on a prompt for ever.
Fairness == /\ \A t \in Turns : WF_vars(TurnGoesOn(t))
            /\ \A c \in Callers : WF_vars(CallGoesOn(c)) /\ WF_vars(WatchStep(c))
            /\ \A c \in Cells : WF_vars(ReapStep(c))
FairSpec == Spec /\ Fairness

-----------------------------------------------------------------------------
(* Properties *)

\* From its claim to its release a turn holds the conversation, so two turns never run at
\* once (try_claim_turn, release by turn id) -- unless a restart or a revoked session cleared
\* the claim under a turn that was still running.
OnlyATeardownUnseatsATurn ==
  \A t \in Turns : Running(t) => claim = t \/ t \in unseated

\* A live agent is the one the map holds, or a kill is waiting for it (kill_and_wait of a cell
\* that is being initialised); apart from the cells a kill gave up, which only the turn or
\* call that was building them can still reach, and the agents of other kinds than an ACP manager
\* that it left to whoever holds them.
NoAgentEscapesItsKill ==
  \A c \in Cells : cell[c] = "live" => c = slot \/ Reaped(c) \/ c \in strays

\* A cancellation that finds no agent and is recorded before the turn looks for it stops the
\* turn before any prompt, whatever replays and kills happen in between (cancel, defer_cancel,
\* take_deferred_cancel).  Lost only with the turn's claim, or to the late record of a
\* cancellation that was meant for another turn.
EarlyStopHonoured ==
  \A t \in early : TurnAt(t, "relay") => t \in unseated \cup displaced

\* A turn whose agent was told to cancel while it ran the prompt ends, even if the agent never
\* reacts, for every kind of agent but Aionrs: the watchdog of cancel_with_cause kills it.  Unless a
\* second cancellation that fails takes the flag back, or a kill that leaves the agent to whoever
\* holds it has taken it out of the watchdog's reach (SessionAgentTask::kill; never an ACP manager).
CancelEndsTheTurn ==
  \A t \in Turns :
    (Watched /\ t \in handed)
      ~> (t \notin handed \/ claim # t \/ ~cancelling \/ (agent # "Acp" /\ turn[t].cell \in strays))

\* Whatever fails inside a restart, the gate that rejects turns and settings opens again.
RestartGateOpens == restarting ~> ~restarting

\* Claimed by task_manager.rs: "Wired up by `aionui-app` so deleting a conversation tears down
\* its agent process."
DeletedConversationHasNoAgent ==
  (~row /\ \A c \in Callers : call[c].pc \notin {"hook", "drop"})
    => \A c \in Cells : cell[c] = "live" => c # slot /\ c \notin Held
=============================================================================
