------------------------- MODULE ConversationProofs -------------------------
(***************************************************************************)
(* Theorems about the turns and the agents of a conversation, for any      *)
(* number of turns, callers, cells, continuations and failures.            *)
(***************************************************************************)
EXTENDS ConversationTurn, TLAPS

-----------------------------------------------------------------------------
(* The task manager *)

\* What is, or may yet become, a live agent is in the map, or is waited for by a kill, or is known
\* to have been let go.
Kept == \A c \in Cells : cell[c] \in {"empty", "building", "live"} => c = slot \/ Reaped(c) \/ c \in strays

TasksInv == TasksTypeOK /\ Kept

\* The calls of the task manager, whoever makes them.
TaskMove ==
  \/ UNCHANGED tvars
  \/ \E c \in Cells, held \in SUBSET Cells : Seat(c, held)
  \/ \E c \in Cells \cup {NoCell} : BeginInit(c) \/ EndInit(c, TRUE) \/ EndInit(c, FALSE)
  \/ \E c \in Cells : Reap(c)
  \/ \E how \in Endings : Kill(how) \/ KillAndWait(how)

\* The absence of a cell is not a cell.
LEMMA NoCellIsNone == NoCell \notin Cells
BY AgentTasksAssumption DEF NoCell, Cells

\* An agent that meets a kill is ended, or let go.
LEMMA EndAgentDoes ==
  ASSUME TasksTypeOK, NEW c \in Cells, NEW how \in Endings, EndAgent(c, how)
  PROVE  /\ cell' \in [Cells -> CellStates] /\ strays' \in SUBSET Cells /\ strays \subseteq strays'
         /\ cell'[c] \in Endings \/ c \in strays'
         /\ \A d \in Cells \ {c} : cell'[d] = cell[d]
<1>1. CASE Ends(how)
  BY <1>1 DEF EndAgent, TasksTypeOK, CellStates, Built, Endings
<1>2. CASE ~Ends(how)
  BY <1>2 DEF EndAgent, TasksTypeOK
<1> QED BY <1>1, <1>2

\* Every call of the task manager keeps its state well formed and its agents within reach.
LEMMA TaskMoveKeeps ==
  ASSUME TasksInv, TaskMove
  PROVE  TasksInv'
<1> USE NoCellIsNone DEF TasksInv, TasksTypeOK, Kept, Reaped
<1>1. CASE UNCHANGED tvars
  BY <1>1 DEF tvars
<1>2. CASE \E c \in Cells, held \in SUBSET Cells : Seat(c, held)
  BY <1>2 DEF Seat, Reusable, Reaped, CellStates, tvars
<1>3. CASE \E c \in Cells \cup {NoCell} : BeginInit(c) \/ EndInit(c, TRUE) \/ EndInit(c, FALSE)
  BY <1>3 DEF BeginInit, EndInit, CellStates, Built
<1>4. CASE \E c \in Cells : Reap(c)
  <2>1. PICK c \in Cells : Reap(c)
    BY <1>4
  <2>2. reaping[c] \in Endings /\ UNCHANGED <<agent, slot>> /\ reaping' = [reaping EXCEPT ![c] = NotReaped]
    BY <2>1 DEF Reap
  <2>3. CASE HasAgent(c)
    BY <2>1, <2>2, <2>3, EndAgentDoes DEF Reap, Endings
  <2>4. CASE ~HasAgent(c)
    BY <2>1, <2>2, <2>4 DEF Reap
  <2> QED BY <2>3, <2>4
<1>5. CASE \E how \in Endings : Kill(how)
  <2>1. PICK how \in Endings : Kill(how)
    BY <1>5
  <2>2. CASE slot = NoCell
    BY <2>1, <2>2 DEF Kill, tvars
  <2>3. CASE slot # NoCell /\ HasAgent(slot)
    BY <2>1, <2>3, EndAgentDoes DEF Kill, Endings
  <2>4. CASE slot # NoCell /\ ~HasAgent(slot)
    BY <2>1, <2>4 DEF Kill
  <2> QED BY <2>2, <2>3, <2>4
<1>6. CASE \E how \in Endings : KillAndWait(how)
  <2>1. PICK how \in Endings : KillAndWait(how)
    BY <1>6
  <2>2. CASE slot = NoCell
    BY <2>1, <2>2 DEF KillAndWait, tvars
  <2>3. CASE slot # NoCell /\ HasAgent(slot)
    BY <2>1, <2>3, EndAgentDoes DEF KillAndWait, Endings
  <2>4. CASE slot # NoCell /\ ~HasAgent(slot)
    BY <2>1, <2>4 DEF KillAndWait, Endings, NotReaped
  <2> QED BY <2>2, <2>3, <2>4
<1> QED BY TaskMove, <1>1, <1>2, <1>3, <1>4, <1>5, <1>6 DEF TaskMove

-----------------------------------------------------------------------------
(* What the steps do to the agents *)

\* A turn uses the task manager through its calls only.
LEMMA TurnMovesTasks ==
  ASSUME TypeOK, NEW t \in Turns, TurnStep(t)
  PROVE  TaskMove
<1> USE DEF TypeOK
<1>1. turn[t].cell \in Cells \cup {NoCell}
  BY DEF TurnRec
<1>2. Held \in SUBSET Cells
  BY DEF Held, TurnRec, CallRec
<1>3. "dead" \in Endings
  BY DEF Endings
<1>4. CASE TurnBuild(t)
  BY <1>4, <1>2 DEF TurnBuild, TaskMove
<1>5. CASE TurnInit(t) \/ TurnBuilt(t)
  BY <1>5, <1>1 DEF TurnInit, TurnBuilt, TaskMove
<1>6. CASE TurnDecide(t)
  BY <1>6, <1>3 DEF TurnDecide, TaskMove
<1> QED
  BY <1>4, <1>5, <1>6 DEF TurnStep, TurnGoesOn, TurnClaim, TurnAdmit, TurnRefused, TurnLook,
     AgentGone, TurnEvicted, TurnRelease, AgentAnswers, Continue, TaskMove

\* So does a call of the service.
LEMMA CallMovesTasks ==
  ASSUME TypeOK, NEW c \in Callers, CallBegins(c) \/ CallGoesOn(c)
  PROVE  TaskMove
<1> USE DEF TypeOK
<1>1. call[c].cell \in Cells \cup {NoCell}
  BY DEF CallRec
<1>2. Held \in SUBSET Cells
  BY DEF Held, TurnRec, CallRec
<1>3. {"dead", "finished"} \subseteq Endings
  BY DEF Endings
<1>4. CASE CallEnsure(c)
  BY <1>4, <1>2 DEF CallEnsure, TaskMove
<1>5. CASE CallInit(c) \/ CallBuilt(c)
  BY <1>5, <1>1 DEF CallInit, CallBuilt, TaskMove
<1>6. CASE CallKill(c) \/ DeleteHook(c)
  BY <1>6, <1>3 DEF CallKill, DeleteHook, TaskMove
<1>7. CASE CallBegins(c)
  BY <1>7 DEF CallBegins, CancelBegin, RestartBegin, KillBegin, WarmupBegin, DeleteBegin, Shutdown, TaskMove
<1> QED
  BY <1>4, <1>5, <1>6, <1>7 DEF CallGoesOn, CancelCheck, CancelLook, CancelDefer, CancelHand,
     CancelDone, RestartAims, CallKilled, RestartClear, RevokeClear, RestartEnds, DeleteRow, TaskMove

\* And so do the watchdogs and the kills that wait.
LEMMA NextMovesTasks ==
  ASSUME TypeOK, [Next]_vars
  PROVE  TaskMove
<1>1. CASE \E t \in Turns : TurnStep(t)
  BY <1>1, TurnMovesTasks
<1>2. CASE \E c \in Callers : CallBegins(c) \/ CallGoesOn(c)
  BY <1>2, CallMovesTasks
<1>3. CASE \E c \in Callers : WatchStep(c)
  BY <1>3 DEF WatchStep, WatchLook, WatchKill, Endings, TaskMove
<1>4. CASE \E c \in Cells : ReapStep(c)
  BY <1>4 DEF ReapStep, TaskMove
<1> QED BY <1>1, <1>2, <1>3, <1>4 DEF Next, AtRest, vars, TaskMove

-----------------------------------------------------------------------------
(* Claims *)

\* Turns are numbered from 1; no turn is 0.
LEMMA NoTurnIsNone == NoTurn \notin Turns
BY ConversationAssumption DEF NoTurn, Turns

\* A claim that is made or given up by its own turn leaves every other turn seated.
LEMMA TurnKeepsSeats ==
  ASSUME TypeOK, OnlyATeardownUnseatsATurn, NEW t \in Turns, TurnStep(t)
  PROVE  OnlyATeardownUnseatsATurn'
<1> USE NoTurnIsNone DEF TypeOK, OnlyATeardownUnseatsATurn, Running, TurnAt, TurnGoto, TurnDrops
<1>1. CASE TurnClaim(t)
  <2>1. CASE MayClaim
    <3>1. claim = NoTurn /\ claim' = t /\ turn' = [turn EXCEPT ![t].pc = "claimed"] /\ unseated' = unseated
      BY <1>1, <2>1 DEF TurnClaim, MayClaim, Claimed, past
    <3> QED BY <3>1
  <2>2. CASE ~MayClaim
    <3>1. claim' = claim /\ turn' = [turn EXCEPT ![t].pc = "done"] /\ unseated' = unseated
      BY <1>1, <2>2 DEF TurnClaim, flags, past
    <3> QED BY <3>1
  <2> QED BY <2>1, <2>2
<1>2. CASE TurnRefused(t) \/ TurnRelease(t)
  BY <1>2 DEF TurnRefused, TurnRelease, Release, TurnEnds, TurnWith, flags
<1>3. CASE TurnAdmit(t) \/ TurnBuild(t) \/ TurnInit(t) \/ TurnBuilt(t)
  BY <1>3 DEF TurnAdmit, TurnBuild, TurnInit, TurnBuilt, flags, past
<1>4. CASE TurnLook(t)
  BY <1>4 DEF TurnLook, TakeDeferred, Prompt, flags, past
<1>5. CASE Continue(t) \/ AgentAnswers(t) \/ AgentGone(t)
  BY <1>5 DEF Continue, Prompt, AgentAnswers, AgentGone, StreamOver, TurnWith, flags, past
<1>6. CASE TurnDecide(t) \/ TurnEvicted(t)
  BY <1>6 DEF TurnDecide, TurnEvicted, flags, past
<1> QED BY <1>1, <1>2, <1>3, <1>4, <1>5, <1>6 DEF TurnStep, TurnGoesOn

\* Of the calls of the service only two take a claim away, and they say from whom.
LEMMA CallUnseats ==
  ASSUME TypeOK, NEW c \in Callers, CallBegins(c) \/ CallGoesOn(c)
  PROVE  /\ turn' = turn
         /\ \/ claim' = claim /\ unseated' = unseated
            \/ claim' = NoTurn /\ unseated' = unseated \cup ({claim} \ {NoTurn})
<1> USE DEF flags, past
<1>1. CASE CallBegins(c)
  BY <1>1 DEF CallBegins, CancelBegin, RestartBegin, KillBegin, WarmupBegin, DeleteBegin, Shutdown,
     SetRestarting, SetDeleting
<1>2. CASE CancelCheck(c) \/ CancelLook(c) \/ CancelDefer(c) \/ CancelHand(c) \/ CancelDone(c)
  BY <1>2 DEF CancelCheck, CancelLook, CancelDefer, CancelHand, CancelDone, DeferCancel, SetCancelling
<1>3. CASE RestartAims(c) \/ CallKill(c) \/ CallKilled(c)
  BY <1>3 DEF RestartAims, CallKill, CallKilled
<1>4. CASE RestartClear(c) \/ RevokeClear(c)
  BY <1>4 DEF RestartClear, RevokeClear, ClearTurnState, ClearConversation, Unseat
<1>5. CASE CallEnsure(c) \/ CallInit(c) \/ CallBuilt(c) \/ RestartEnds(c) \/ DeleteHook(c) \/ DeleteRow(c)
  BY <1>5 DEF CallEnsure, CallInit, CallBuilt, RestartEnds, DeleteHook, DeleteRow, SetRestarting, SetDeleting
<1> QED BY <1>1, <1>2, <1>3, <1>4, <1>5 DEF CallGoesOn

\* A turn that is seated stays seated, or is known to have been unseated.
LEMMA NextKeepsSeats ==
  ASSUME TypeOK, OnlyATeardownUnseatsATurn, [Next]_vars
  PROVE  OnlyATeardownUnseatsATurn'
<1> USE DEF OnlyATeardownUnseatsATurn, Running
<1>1. CASE \E t \in Turns : TurnStep(t)
  BY <1>1, TurnKeepsSeats
<1>2. CASE \E c \in Callers : CallBegins(c) \/ CallGoesOn(c)
  BY <1>2, CallUnseats, NoTurnIsNone
<1>3. CASE UNCHANGED <<flags, turn, past>>
  BY <1>3 DEF flags, past
<1>4. CASE (\E c \in Callers : WatchStep(c)) \/ (\E c \in Cells : ReapStep(c)) \/ AtRest \/ UNCHANGED vars
  <2>1. UNCHANGED <<flags, turn, past>>
    BY <1>4 DEF WatchStep, WatchLook, WatchKill, ReapStep, AtRest, vars
  <2> QED BY <2>1, <1>3
<1> QED BY <1>1, <1>2, <1>4 DEF Next

-----------------------------------------------------------------------------
(* Types *)

\* The program counters and locals of a turn stay what they are declared to be.
LEMMA TurnKeepsTurns ==
  ASSUME TypeOK, NEW t \in Turns, TurnStep(t)
  PROVE  turn' \in [Turns -> TurnRec]
<1> USE ConversationAssumption DEF TypeOK, TurnPcs, Lifecycles, Outcomes, TurnGoto, TurnDrops
<1>1. turn \in [Turns -> TurnRec] /\ turn[t] \in TurnRec
  OBVIOUS
<1>2. ASSUME NEW pc \in TurnPcs
      PROVE  TurnWith(pc) \in TurnRec
  BY DEF TurnWith, TurnRec
<1>3. ASSUME NEW pc \in TurnPcs, TurnGoto(t, pc) \/ TurnDrops(t, pc)
      PROVE  turn' \in [Turns -> TurnRec]
  <2>1. [turn[t] EXCEPT !.pc = pc] \in TurnRec /\ [turn[t] EXCEPT !.pc = pc, !.cell = NoCell] \in TurnRec
    BY <1>1 DEF TurnRec
  <2>2. turn' = [turn EXCEPT ![t] = [turn[t] EXCEPT !.pc = pc]]
          \/ turn' = [turn EXCEPT ![t] = [turn[t] EXCEPT !.pc = pc, !.cell = NoCell]]
    BY <1>1, <1>3
  <2> QED BY <1>1, <2>1, <2>2
<1>4. ASSUME NEW n \in 0..MaxContinuations, Prompt(t, n)
      PROVE  turn' \in [Turns -> TurnRec]
  <2>1. Lifecycle \in Lifecycles
    BY DEF Lifecycle
  <2>2. turn' = [turn EXCEPT ![t] = [turn[t] EXCEPT !.pc = "relay", !.seen = Lifecycle, !.count = n]]
    BY <1>1, <1>4 DEF Prompt
  <2>3. [turn[t] EXCEPT !.pc = "relay", !.seen = Lifecycle, !.count = n] \in TurnRec
    BY <1>1, <2>1 DEF TurnRec
  <2> QED BY <1>1, <2>2, <2>3
<1>5. ASSUME NEW out \in Outcomes, StreamOver(t, out)
      PROVE  turn' \in [Turns -> TurnRec]
  <2>1. [TurnWith("decide") EXCEPT !.out = out, !.replayed = turn[t].replayed] \in TurnRec
    BY <1>1, <1>2 DEF TurnRec
  <2> QED BY <1>1, <1>5, <2>1 DEF StreamOver
<1>6. CASE TurnClaim(t) \/ TurnAdmit(t)
  BY <1>3, <1>6 DEF TurnClaim, TurnAdmit
<1>7. CASE TurnRefused(t) \/ TurnRelease(t)
  BY <1>1, <1>2, <1>7 DEF TurnRefused, TurnRelease, TurnEnds
<1>8. CASE TurnBuild(t)
  <2>1. CASE TurnGoto(t, "release")
    BY <1>3, <2>1
  <2>2. CASE \E c \in Cells : turn' = [turn EXCEPT ![t].pc = "init", ![t].cell = c]
    <3>1. PICK c \in Cells : turn' = [turn EXCEPT ![t].pc = "init", ![t].cell = c]
      BY <2>2
    <3>2. [turn[t] EXCEPT !.pc = "init", !.cell = c] \in TurnRec
      BY <1>1 DEF TurnRec
    <3> QED BY <1>1, <3>1, <3>2
  <2> QED BY <1>8, <2>1, <2>2 DEF TurnBuild
<1>9. CASE TurnInit(t) \/ TurnBuilt(t)
  BY <1>3, <1>9 DEF TurnInit, TurnBuilt
<1>10. CASE TurnLook(t)
  <2>1. 0 \in 0..MaxContinuations
    OBVIOUS
  <2> QED BY <1>3, <1>4, <1>10, <2>1 DEF TurnLook
<1>11. CASE Continue(t)
  <2>1. turn[t].count + 1 \in 0..MaxContinuations
    BY <1>1, <1>11 DEF Continue, TurnRec
  <2> QED BY <1>4, <1>11, <2>1 DEF Continue
<1>12. CASE AgentAnswers(t) \/ AgentGone(t)
  BY <1>5, <1>12 DEF AgentAnswers, AgentGone
<1>13. CASE TurnDecide(t)
  <2>1. CASE Evicts(t)
    <3> DEFINE next == IF Replays(t) THEN "build" ELSE "release"
               pc  == IF Awaited = NoCell THEN next ELSE "evicting"
               out == IF next = "build" /\ Awaited # NoCell THEN turn[t].out ELSE "ok"
               rep == Replays(t) \/ turn[t].replayed
               rec == [turn[t] EXCEPT !.pc = pc, !.cell = Awaited, !.replayed = rep, !.out = out]
    <3>1. Awaited \in Cells \cup {NoCell}
      BY DEF Awaited, TasksTypeOK
    <3>2. turn' = [turn EXCEPT ![t] = rec]
      BY <1>1, <1>13, <2>1 DEF TurnDecide
    <3>3. pc \in TurnPcs /\ out \in Outcomes /\ rep \in BOOLEAN
      BY <1>1 DEF TurnRec
    <3>4. ASSUME NEW p \in TurnPcs, NEW d \in Cells \cup {NoCell}, NEW o \in Outcomes, NEW r \in BOOLEAN
          PROVE  [turn[t] EXCEPT !.pc = p, !.cell = d, !.replayed = r, !.out = o] \in TurnRec
      BY <1>1 DEF TurnRec
    <3>5. rec \in TurnRec
      <4> HIDE DEF next, pc, out, rep, TurnPcs, Outcomes
      <4> QED BY <3>1, <3>3, <3>4
    <3> HIDE DEF rec
    <3> QED BY <1>1, <3>2, <3>5
  <2>2. CASE ~Evicts(t)
    BY <1>3, <1>13, <2>2 DEF TurnDecide
  <2> QED BY <2>1, <2>2
<1>14. CASE TurnEvicted(t)
  <2> DEFINE pc  == IF turn[t].out = "retry" THEN "build" ELSE "release"
             rec == [turn[t] EXCEPT !.pc = pc, !.out = "ok", !.cell = NoCell]
  <2>1. turn' = [turn EXCEPT ![t] = rec]
    BY <1>1, <1>14 DEF TurnEvicted
  <2>2. rec \in TurnRec
    BY <1>1 DEF TurnRec
  <2> HIDE DEF rec
  <2> QED BY <1>1, <2>1, <2>2
<1> QED BY <1>6, <1>7, <1>8, <1>9, <1>10, <1>11, <1>12, <1>13, <1>14 DEF TurnStep, TurnGoesOn

\* So do those of a call.
LEMMA CallKeepsCalls ==
  ASSUME TypeOK, NEW c \in Callers, CallBegins(c) \/ CallGoesOn(c)
  PROVE  call' \in [Callers -> CallRec]
<1> USE ConversationAssumption DEF TypeOK, CallPcs, CallKinds
<1>1. call \in [Callers -> CallRec] /\ call[c] \in CallRec
  OBVIOUS
<1>2. ASSUME NEW k \in CallKinds, NEW pc \in CallPcs
      PROVE  CallWith(k, pc) \in CallRec
  BY DEF CallWith, CallRec
<1>3. ASSUME NEW r \in CallRec, call' = [call EXCEPT ![c] = r]
      PROVE  call' \in [Callers -> CallRec]
  BY <1>1, <1>3
<1>4. ASSUME NEW pc \in CallPcs, NEW k \in CallKinds, NEW u \in Turns \cup {NoTurn},
             NEW d \in Cells \cup {NoCell}, NEW had \in BOOLEAN
      PROVE  [pc |-> pc, kind |-> k, turn |-> u, cell |-> d, had |-> had] \in CallRec
  BY DEF CallRec
<1>5. ASSUME NEW pc \in CallPcs, CallGoto(c, pc)
      PROVE  call' \in [Callers -> CallRec]
  <2>1. [call[c] EXCEPT !.pc = pc] \in CallRec
    BY <1>1 DEF CallRec
  <2> QED BY <1>1, <1>5, <2>1 DEF CallGoto
<1>6. ASSUME CallEnds(c) \/ Returns(c) \/ Fails(c) \/ AfterCancel(c)
      PROVE  call' \in [Callers -> CallRec]
  <2>1. [call[c] EXCEPT !.pc = "gate", !.cell = NoCell] \in CallRec
    BY <1>1 DEF CallRec
  <2> QED BY <1>1, <1>2, <1>6, <2>1 DEF CallEnds, Returns, Fails, AfterCancel
<1>7. ASSUME NEW k \in CallKinds, NEW pc \in CallPcs, Begin(c, k, pc)
      PROVE  call' \in [Callers -> CallRec]
  <2>1. [call[c] EXCEPT !.pc = pc, !.kind = k] \in CallRec
    BY <1>1 DEF CallRec
  <2> QED BY <1>1, <1>7, <2>1 DEF Begin
<1>8. CASE RestartBegin(c) \/ KillBegin(c) \/ WarmupBegin(c) \/ Shutdown(c)
  BY <1>7, <1>8 DEF RestartBegin, KillBegin, WarmupBegin, Shutdown
<1>9. CASE CancelBegin(c)
  <2>1. [call[c] EXCEPT !.pc = "look", !.kind = "cancel", !.turn = claim] \in CallRec
    BY <1>1 DEF CallRec
  <2> QED BY <1>1, <1>9, <2>1 DEF CancelBegin
<1>10. CASE DeleteBegin(c)
  <2>1. [call[c] EXCEPT !.pc = "hook", !.kind = "delete", !.had = claim # NoTurn] \in CallRec
    BY <1>1 DEF CallRec
  <2> QED BY <1>1, <1>10, <2>1 DEF DeleteBegin
<1>11. CASE CancelCheck(c) \/ CancelDefer(c) \/ CancelHand(c) \/ CancelDone(c)
  BY <1>5, <1>6, <1>11 DEF CancelCheck, CancelDefer, CancelHand, CancelDone
<1>12. CASE CancelLook(c)
  <2>1. [call[c] EXCEPT !.pc = "hand", !.cell = slot] \in CallRec
    BY <1>1 DEF CallRec, TasksTypeOK
  <2> QED BY <1>1, <1>5, <1>12, <2>1 DEF CancelLook
<1>13. CASE RestartAims(c)
  <2> DEFINE pc == IF claim = NoTurn THEN "kill" ELSE "check"
  <2>1. [call[c] EXCEPT !.pc = pc, !.turn = claim] \in CallRec
    BY <1>1 DEF CallRec
  <2> QED BY <1>1, <1>13, <2>1 DEF RestartAims
<1>14. AfterKill(c) \in CallRec
  BY <1>1, <1>2 DEF AfterKill, Kind, CallRec
<1>15. CASE CallKill(c)
  <2>1. [call[c] EXCEPT !.pc = "killing", !.cell = Awaited] \in CallRec
    BY <1>1 DEF CallRec, Awaited, TasksTypeOK
  <2>2. CASE Awaited = NoCell
    BY <1>1, <1>14, <1>15, <2>2 DEF CallKill
  <2>3. CASE Awaited # NoCell
    BY <1>1, <1>15, <2>1, <2>3 DEF CallKill
  <2> QED BY <2>2, <2>3
<1>16. CASE CallKilled(c)
  BY <1>1, <1>14, <1>16 DEF CallKilled
<1>17. CASE RestartClear(c) \/ RevokeClear(c) \/ RestartEnds(c) \/ DeleteHook(c) \/ DeleteRow(c)
  BY <1>5, <1>6, <1>17 DEF RestartClear, RevokeClear, RestartEnds, DeleteHook, DeleteRow
<1>18. CASE CallEnsure(c)
  <2>1. ASSUME NEW d \in Cells
        PROVE  [call[c] EXCEPT !.pc = "init", !.cell = d] \in CallRec
    BY <1>1 DEF CallRec
  <2> QED BY <1>1, <1>6, <1>18, <2>1 DEF CallEnsure
<1>19. CASE CallInit(c) \/ CallBuilt(c)
  BY <1>5, <1>6, <1>19 DEF CallInit, CallBuilt
<1> QED BY <1>8, <1>9, <1>10, <1>11, <1>12, <1>13, <1>15, <1>16, <1>17, <1>18, <1>19
        DEF CallBegins, CallGoesOn

\* A call that cancels a turn knows which.
Cancels == {"check", "look", "defer", "hand", "cancel"}
AimedAtTurns == \A c \in Callers : call[c].pc \in Cancels => call[c].turn \in Turns

\* Nobody cancels a turn there is not.
LEMMA CallKeepsAim ==
  ASSUME TypeOK, AimedAtTurns, NEW c \in Callers, CallBegins(c) \/ CallGoesOn(c)
  PROVE  AimedAtTurns'
<1>1. call \in [Callers -> CallRec] /\ call[c] \in CallRec /\ claim \in Turns \cup {NoTurn}
  BY DEF TypeOK
<1>2. ASSUME \A d \in Callers \ {c} : call'[d] = call[d],
             call'[c].pc \in Cancels => call'[c].turn \in Turns
      PROVE  AimedAtTurns'
  BY <1>2 DEF AimedAtTurns
<1>3. ASSUME NEW pc, CallGoto(c, pc), pc \in Cancels => call[c].turn \in Turns
      PROVE  AimedAtTurns'
  <2>1. call'[c] = [call[c] EXCEPT !.pc = pc] /\ \A d \in Callers \ {c} : call'[d] = call[d]
    BY <1>1, <1>3 DEF CallGoto
  <2>2. call'[c].pc = pc /\ call'[c].turn = call[c].turn
    BY <1>1, <2>1 DEF CallRec
  <2> QED BY <1>2, <1>3, <2>1, <2>2
<1>4. ASSUME NEW k, NEW pc, pc \notin Cancels, call' = [call EXCEPT ![c] = CallWith(k, pc)]
      PROVE  AimedAtTurns'
  BY <1>1, <1>2, <1>4 DEF CallWith
<1>5. ASSUME NEW pc, pc \notin Cancels, NEW r, r.pc = pc, call' = [call EXCEPT ![c] = r]
      PROVE  AimedAtTurns'
  BY <1>1, <1>2, <1>5
<1>6. ASSUME CallEnds(c) \/ Returns(c) \/ Fails(c) \/ AfterCancel(c)
      PROVE  AimedAtTurns'
  <2>1. [call[c] EXCEPT !.pc = "gate", !.cell = NoCell].pc = "gate"
    BY <1>1 DEF CallRec
  <2>2. CASE call' = [call EXCEPT ![c].pc = "gate", ![c].cell = NoCell]
    <3>1. call' = [call EXCEPT ![c] = [call[c] EXCEPT !.pc = "gate", !.cell = NoCell]]
      BY <1>1, <2>2
    <3> HIDE <2>2
    <3> QED BY <1>5, <2>1, <3>1 DEF Cancels
  <2> QED BY <1>4, <1>6, <2>2 DEF CallEnds, Returns, Fails, AfterCancel, Cancels
<1>7. ASSUME NEW k, NEW pc, pc \notin Cancels, Begin(c, k, pc)
      PROVE  AimedAtTurns'
  <2>1. call' = [call EXCEPT ![c] = [call[c] EXCEPT !.pc = pc, !.kind = k]]
    BY <1>1, <1>7 DEF Begin
  <2>2. [call[c] EXCEPT !.pc = pc, !.kind = k].pc = pc
    BY <1>1 DEF CallRec
  <2> QED BY <1>5, <1>7, <2>1, <2>2
<1>8. CASE CancelBegin(c)
  <2>1. call' = [call EXCEPT ![c] = [call[c] EXCEPT !.pc = "look", !.kind = "cancel", !.turn = claim]]
    BY <1>1, <1>8 DEF CancelBegin
  <2>2. [call[c] EXCEPT !.pc = "look", !.kind = "cancel", !.turn = claim].turn = claim
    BY <1>1 DEF CallRec
  <2>3. claim \in Turns
    BY <1>1, <1>8 DEF CancelBegin
  <2> QED BY <1>1, <1>2, <2>1, <2>2, <2>3
<1>9. CASE RestartBegin(c) \/ KillBegin(c) \/ WarmupBegin(c) \/ Shutdown(c)
  BY <1>7, <1>9 DEF RestartBegin, KillBegin, WarmupBegin, Shutdown, Cancels
<1>10. CASE DeleteBegin(c)
  <2> DEFINE r == [call[c] EXCEPT !.pc = "hook", !.kind = "delete", !.had = claim # NoTurn]
  <2>1. call' = [call EXCEPT ![c] = r] /\ r.pc = "hook"
    BY <1>1, <1>10 DEF DeleteBegin, CallRec
  <2> HIDE DEF r
  <2> QED BY <1>5, <2>1 DEF Cancels
<1>11. CASE CancelCheck(c) \/ CancelHand(c) \/ CancelDefer(c) \/ CancelDone(c)
  BY <1>3, <1>6, <1>11 DEF CancelCheck, CancelHand, CancelDefer, CancelDone, AimedAtTurns, CallAt, Cancels
<1>12. CASE CancelLook(c)
  <2>1. call[c].turn \in Turns
    BY <1>12 DEF CancelLook, AimedAtTurns, CallAt, Cancels
  <2>2. CASE CallGoto(c, "defer")
    BY <1>3, <2>1, <2>2
  <2>3. CASE call' = [call EXCEPT ![c].pc = "hand", ![c].cell = slot]
    <3>1. call' = [call EXCEPT ![c] = [call[c] EXCEPT !.pc = "hand", !.cell = slot]]
      BY <1>1, <2>3
    <3>2. [call[c] EXCEPT !.pc = "hand", !.cell = slot].turn = call[c].turn
      BY <1>1 DEF CallRec
    <3> QED BY <1>1, <1>2, <2>1, <3>1, <3>2
  <2> QED BY <1>12, <2>2, <2>3 DEF CancelLook
<1>13. CASE RestartAims(c)
  <2> DEFINE pc == IF claim = NoTurn THEN "kill" ELSE "check"
             r  == [call[c] EXCEPT !.pc = pc, !.turn = claim]
  <2>1. call' = [call EXCEPT ![c] = r] /\ r.pc = pc /\ r.turn = claim
    BY <1>1, <1>13 DEF RestartAims, CallRec
  <2>2. pc \in Cancels => claim \in Turns
    BY <1>1 DEF Cancels
  <2> HIDE DEF pc, r
  <2> QED BY <1>1, <1>2, <2>1, <2>2
<1>14. AfterKill(c).pc \notin Cancels
  BY DEF AfterKill, CallWith, Cancels
<1>15. CASE CallKill(c)
  <2> DEFINE r == IF Awaited = NoCell THEN AfterKill(c) ELSE [call[c] EXCEPT !.pc = "killing", !.cell = Awaited]
  <2>1. call' = [call EXCEPT ![c] = r]
    BY <1>1, <1>15 DEF CallKill
  <2>2. r.pc \notin Cancels
    BY <1>1, <1>14 DEF CallRec, Cancels
  <2> HIDE DEF r
  <2> QED BY <1>5, <2>1, <2>2
<1>16. CASE CallKilled(c)
  BY <1>5, <1>14, <1>16 DEF CallKilled
<1>17. CASE RestartClear(c) \/ RevokeClear(c) \/ RestartEnds(c) \/ DeleteHook(c) \/ DeleteRow(c)
  BY <1>3, <1>6, <1>17 DEF RestartClear, RevokeClear, RestartEnds, DeleteHook, DeleteRow, Cancels
<1>18. CASE CallEnsure(c)
  <2>1. ASSUME NEW d \in Cells, call' = [call EXCEPT ![c].pc = "init", ![c].cell = d]
        PROVE  AimedAtTurns'
    <3>1. call' = [call EXCEPT ![c] = [call[c] EXCEPT !.pc = "init", !.cell = d]]
      BY <1>1, <2>1
    <3>2. [call[c] EXCEPT !.pc = "init", !.cell = d].pc = "init"
      BY <1>1 DEF CallRec
    <3> QED BY <1>5, <3>1, <3>2 DEF Cancels
  <2> QED BY <1>6, <1>18, <2>1 DEF CallEnsure
<1>19. CASE CallInit(c) \/ CallBuilt(c)
  BY <1>3, <1>6, <1>19 DEF CallInit, CallBuilt, Cancels
<1> QED BY <1>8, <1>9, <1>10, <1>11, <1>12, <1>13, <1>15, <1>16, <1>17, <1>18, <1>19
        DEF CallBegins, CallGoesOn

\* The flags of the runtime state name turns or nobody, the histories turns.
FlagsType == /\ {claim, deferred} \subseteq Turns \cup {NoTurn}
             /\ {deleting, cancelling, restarting, shutting, row} \subseteq BOOLEAN
PastType  == unseated \subseteq Turns /\ early \subseteq Turns /\ displaced \subseteq Turns /\ handed \subseteq Turns

\* A turn keeps them so.
LEMMA TurnKeepsFlags ==
  ASSUME TypeOK, NEW t \in Turns, TurnStep(t)
  PROVE  FlagsType' /\ PastType' /\ call' = call /\ watch' = watch
<1> USE DEF TypeOK, FlagsType, PastType
<1>1. CASE TurnClaim(t)
  BY <1>1 DEF TurnClaim, Claimed, flags, past
<1>2. CASE TurnRefused(t) \/ TurnRelease(t)
  <2>1. Release(t) /\ TurnEnds(t) /\ UNCHANGED <<row, call, watch>>
    BY <1>2 DEF TurnRefused, TurnRelease
  <2>2. FlagsType'
    <3>1. CASE claim = t
      <4>1. /\ claim' = NoTurn /\ deferred' = deferred /\ deleting' = FALSE /\ cancelling' = FALSE
            /\ restarting' = restarting /\ shutting' = shutting /\ row' = row
        BY <2>1, <3>1 DEF Release
      <4> QED BY <4>1
    <3>2. CASE claim # t
      <4>1. UNCHANGED <<claim, deferred, deleting, cancelling, restarting, shutting, row>>
        BY <2>1, <3>2 DEF Release, flags
      <4> QED BY <4>1
    <3> QED BY <3>1, <3>2
  <2>3. PastType'
    BY <2>1 DEF TurnEnds
  <2> QED BY <2>1, <2>2, <2>3
<1>3. CASE TurnLook(t)
  BY <1>3 DEF TurnLook, TakeDeferred, flags, past
<1>4. CASE \/ TurnAdmit(t) \/ TurnBuild(t) \/ TurnInit(t) \/ TurnBuilt(t) \/ Continue(t) \/ AgentAnswers(t)
           \/ AgentGone(t) \/ TurnDecide(t) \/ TurnEvicted(t)
  BY <1>4 DEF TurnAdmit, TurnBuild, TurnInit, TurnBuilt, Continue, AgentAnswers, AgentGone, TurnDecide,
     TurnEvicted, flags, past
<1> QED BY <1>1, <1>2, <1>3, <1>4 DEF TurnStep, TurnGoesOn

\* And so does a call, which may arm its watchdog.
LEMMA CallKeepsFlags ==
  ASSUME TypeOK, AimedAtTurns, NEW c \in Callers, CallBegins(c) \/ CallGoesOn(c)
  PROVE  FlagsType' /\ PastType' /\ turn' = turn /\ watch' \in [Callers -> WatchRec]
<1> USE DEF TypeOK, FlagsType, PastType
<1>1. CASE CallBegins(c)
  BY <1>1 DEF CallBegins, CancelBegin, RestartBegin, KillBegin, WarmupBegin, DeleteBegin, Shutdown,
     SetRestarting, SetDeleting, flags, past
<1>2. CASE CancelCheck(c) \/ CancelLook(c) \/ CancelHand(c)
  BY <1>2 DEF CancelCheck, CancelLook, CancelHand, SetCancelling, flags, past
<1>3. CASE CancelDefer(c)
  <2>1. call[c].turn \in Turns
    BY <1>3 DEF CancelDefer, AimedAtTurns, CallAt, Cancels
  <2> QED BY <1>3, <2>1 DEF CancelDefer, DeferCancel
<1>4. CASE CancelDone(c)
  <2>1. call[c].turn \in Turns
    BY <1>4 DEF CancelDone, AimedAtTurns, CallAt, Cancels
  <2>2. FlagsType' /\ PastType' /\ turn' = turn
    BY <1>4, <2>1 DEF CancelDone, SetCancelling, flags
  <2>3. watch' = watch \/ watch' = [watch EXCEPT ![c].turn = call[c].turn]
    BY <1>4 DEF CancelDone
  <2>4. [watch[c] EXCEPT !.turn = call[c].turn] \in WatchRec
    BY <2>1 DEF WatchRec
  <2>5. watch' \in [Callers -> WatchRec]
    BY <2>3, <2>4
  <2> QED BY <2>2, <2>5
<1>5. CASE RestartAims(c) \/ CallKill(c) \/ CallKilled(c)
  BY <1>5 DEF RestartAims, CallKill, CallKilled, flags, past
<1>6. CASE RestartClear(c) \/ RevokeClear(c)
  BY <1>6 DEF RestartClear, RevokeClear, ClearTurnState, ClearConversation, Unseat
<1>7. CASE CallEnsure(c) \/ CallInit(c) \/ CallBuilt(c) \/ RestartEnds(c) \/ DeleteHook(c) \/ DeleteRow(c)
  BY <1>7 DEF CallEnsure, CallInit, CallBuilt, RestartEnds, DeleteHook, DeleteRow, SetRestarting,
     SetDeleting, flags, past
<1> QED BY <1>1, <1>2, <1>3, <1>4, <1>5, <1>6, <1>7 DEF CallGoesOn

\* Events are counted up to their bound, whatever happens.
LEMMA EventsBounded ==
  ASSUME TypeOK, [Next]_vars
  PROVE  events' \in 0..MaxEvents
<1>1. ASSUME NEW n \in {1, 2}, Costs(n)
      PROVE  events' \in 0..MaxEvents
  BY <1>1, ConversationAssumption DEF Costs, TypeOK
<1>2. \/ events' = events
      \/ \E n \in {1, 2} : Costs(n)
  <2> USE DEF Fault, NoFault, Begin
  <2>1. CASE \E t \in Turns : TurnStep(t)
    BY <2>1 DEF TurnStep, TurnGoesOn, TurnClaim, TurnAdmit, TurnRefused, TurnBuild, TurnInit, TurnBuilt,
       TurnLook, AgentGone, TurnDecide, TurnEvicted, TurnRelease, AgentAnswers, Continue
  <2>2. CASE \E c \in Callers : CallBegins(c)
    BY <2>2 DEF CallBegins, CancelBegin, RestartBegin, KillBegin, WarmupBegin, DeleteBegin, Shutdown
  <2>3. CASE \E c \in Callers : CallGoesOn(c)
    BY <2>3 DEF CallGoesOn, CancelCheck, CancelLook, CancelDefer, CancelHand, CancelDone, RestartAims,
       CallKill, CallKilled, RestartClear, RevokeClear, CallEnsure, CallInit, CallBuilt, RestartEnds,
       DeleteHook, DeleteRow
  <2>4. CASE (\E c \in Callers : WatchStep(c)) \/ (\E c \in Cells : ReapStep(c)) \/ AtRest \/ UNCHANGED vars
    BY <2>4 DEF WatchStep, WatchLook, WatchKill, ReapStep, AtRest, vars
  <2> QED BY <2>1, <2>2, <2>3, <2>4 DEF Next
<1>3. events \in 0..MaxEvents
  BY DEF TypeOK
<1> QED BY <1>1, <1>2, <1>3

\* Watchdogs and waiting kills touch nothing else.
LEMMA WatchKeeps ==
  ASSUME TypeOK, NEW c \in Callers, WatchStep(c)
  PROVE  UNCHANGED <<flags, row, turn, call, past>> /\ watch' \in [Callers -> WatchRec]
<1>1. watch \in [Callers -> WatchRec]
  BY DEF TypeOK
<1>2. CASE WatchLook(c)
  <2> DEFINE fires == claim = watch[c].turn /\ cancelling
  <2>1. watch' = [watch EXCEPT ![c] = [NoWatch EXCEPT !.firing = fires]]
    BY <1>2 DEF WatchLook
  <2>2. ASSUME NEW b \in BOOLEAN
        PROVE  [NoWatch EXCEPT !.firing = b] \in WatchRec
    BY DEF NoWatch, WatchRec
  <2>3. fires \in BOOLEAN
    OBVIOUS
  <2> HIDE DEF fires
  <2>4. [NoWatch EXCEPT !.firing = fires] \in WatchRec
    BY <2>2, <2>3
  <2> QED BY <1>1, <1>2, <2>1, <2>4 DEF WatchLook
<1>3. CASE WatchKill(c)
  BY <1>1, <1>3 DEF WatchKill, NoWatch, WatchRec
<1> QED BY <1>2, <1>3 DEF WatchStep

-----------------------------------------------------------------------------
(* Cancellations that came before their turn's agent *)

\* A turn that was cancelled early is still running and has the record of its cancellation, unless
\* it has taken it or it is known how the record was lost.
EarlyKept ==
  \A t \in early :
    /\ Running(t)
    /\ \/ t \in unseated \cup displaced
       \/ deferred = t /\ ~TurnAt(t, "relay")
       \/ TurnAt(t, "release")

\* Only its own turn takes a record, and it prompts no agent after that.
LEMMA TurnKeepsEarly ==
  ASSUME TypeOK, EarlyKept, NEW t \in Turns, TurnStep(t)
  PROVE  EarlyKept'
<1> USE NoTurnIsNone DEF TypeOK
<1> DEFINE Safe(u) == u \in unseated \cup displaced
<1>a. turn \in [Turns -> TurnRec] /\ turn[t] \in TurnRec /\ early \subseteq Turns
  OBVIOUS
<1>b. ASSUME NEW pc, TurnGoto(t, pc) \/ TurnDrops(t, pc)
      PROVE  turn'[t].pc = pc /\ \A u \in Turns \ {t} : turn'[u] = turn[u]
  <2>1. [turn[t] EXCEPT !.pc = pc].pc = pc /\ [turn[t] EXCEPT !.pc = pc, !.cell = NoCell].pc = pc
    BY <1>a DEF TurnRec
  <2> QED BY <1>a, <1>b, <2>1 DEF TurnGoto, TurnDrops
<1>1. ASSUME /\ \A u \in Turns \ {t} : turn'[u] = turn[u]
             /\ UNCHANGED past
             /\ \A u \in Turns \ {t} : deferred = u => deferred' = u
             /\ turn'[t].pc \notin {"idle", "done"}
             /\ t \in early => Safe(t) \/ turn'[t].pc = "release" \/ (deferred' = t /\ turn'[t].pc # "relay")
      PROVE  EarlyKept'
  BY <1>1, <1>a DEF EarlyKept, Running, TurnAt, past
<1>2. ASSUME turn[t].pc # "release", deferred' = deferred, UNCHANGED past,
             \A u \in Turns \ {t} : turn'[u] = turn[u],
             turn'[t].pc \notin {"idle", "done"}, turn'[t].pc = "relay" => turn[t].pc = "relay"
      PROVE  EarlyKept'
  <2>1. t \in early => Safe(t) \/ (deferred' = t /\ turn'[t].pc # "relay")
    BY <1>2 DEF EarlyKept, TurnAt
  <2> QED BY <1>1, <1>2, <2>1
<1>3. CASE TurnClaim(t)
  <2>1. t \notin early
    BY <1>3 DEF TurnClaim, TurnAt, EarlyKept, Running
  <2>2. /\ \A u \in Turns \ {t} : turn'[u] = turn[u]
        /\ UNCHANGED past /\ deferred' = deferred
    BY <1>3 DEF TurnClaim, Claimed, TurnGoto, flags
  <2> QED BY <2>1, <2>2, <1>a DEF EarlyKept, Running, TurnAt, past
<1>4. CASE TurnRefused(t) \/ TurnRelease(t)
  <2>1. Release(t) /\ TurnEnds(t)
    BY <1>4 DEF TurnRefused, TurnRelease
  <2>2. deferred' = deferred
    BY <2>1 DEF Release, flags
  <2>3. /\ early' = early \ {t} /\ unseated' = unseated \ {t} /\ displaced' = displaced \ {t}
        /\ \A u \in Turns \ {t} : turn'[u] = turn[u]
    BY <2>1 DEF TurnEnds
  <2> QED BY <1>a, <2>2, <2>3 DEF EarlyKept, Running, TurnAt
<1>5. CASE TurnLook(t)
  <2>1. /\ turn[t].pc = "look" /\ UNCHANGED past
        /\ \A u \in Turns \ {t} : turn'[u] = turn[u] /\ (deferred = u => deferred' = u)
        /\ \/ turn'[t].pc = "release"
           \/ turn'[t].pc = "relay" /\ deferred # t
    <3>1. CASE TurnDrops(t, "release")
      BY <1>5, <1>b, <3>1 DEF TurnLook, TurnAt, TakeDeferred, flags
    <3>2. CASE Prompt(t, 0)
      <4>1. [turn[t] EXCEPT !.pc = "relay", !.seen = Lifecycle, !.count = 0].pc = "relay"
        BY <1>a DEF TurnRec
      <4>2. turn'[t].pc = "relay" /\ \A u \in Turns \ {t} : turn'[u] = turn[u]
        BY <1>a, <3>2, <4>1 DEF Prompt
      <4>3. TakeDeferred(t) /\ turn[t].pc = "look" /\ UNCHANGED past /\ deferred # t
        BY <1>5, <3>2, <4>2, <1>b DEF TurnLook, TurnAt
      <4> QED BY <4>2, <4>3 DEF TakeDeferred
    <3> QED BY <1>5, <3>1, <3>2 DEF TurnLook
  <2>2. t \in early => Safe(t) \/ turn'[t].pc = "release"
    BY <2>1 DEF EarlyKept, TurnAt
  <2> QED BY <1>1, <2>1, <2>2
<1>6. CASE TurnAdmit(t) \/ TurnInit(t) \/ TurnBuilt(t)
  <2>1. \E pc \in {"build", "look", "building", "release"} : TurnGoto(t, pc) \/ TurnDrops(t, pc)
    BY <1>6 DEF TurnAdmit, TurnInit, TurnBuilt
  <2>2. turn[t].pc # "release" /\ deferred' = deferred /\ UNCHANGED past
    BY <1>6 DEF TurnAdmit, TurnInit, TurnBuilt, TurnAt, flags
  <2> QED BY <1>2, <1>b, <2>1, <2>2
<1>7. CASE TurnBuild(t)
  <2>1. turn[t].pc # "release" /\ deferred' = deferred /\ UNCHANGED past
    BY <1>7 DEF TurnBuild, TurnAt, flags
  <2>2. CASE TurnGoto(t, "release")
    BY <1>2, <1>b, <2>1, <2>2
  <2>3. ASSUME NEW c \in Cells, turn' = [turn EXCEPT ![t].pc = "init", ![t].cell = c]
        PROVE  EarlyKept'
    <3>1. [turn[t] EXCEPT !.pc = "init", !.cell = c].pc = "init"
      BY <1>a DEF TurnRec
    <3>2. turn'[t].pc = "init" /\ \A u \in Turns \ {t} : turn'[u] = turn[u]
      BY <1>a, <2>3, <3>1
    <3> QED BY <1>2, <2>1, <3>2
  <2> QED BY <1>7, <2>2, <2>3 DEF TurnBuild
<1>8. CASE Continue(t)
  BY <1>2, <1>8 DEF Continue, TurnAt, Prompt, flags
<1>9. CASE AgentAnswers(t) \/ AgentGone(t)
  <2>1. \E out \in Outcomes : StreamOver(t, out)
    BY <1>9 DEF AgentAnswers, AgentGone, Outcomes
  <2>2. turn[t].pc # "release" /\ deferred' = deferred /\ UNCHANGED past
    BY <1>9 DEF AgentAnswers, AgentGone, TurnAt, flags
  <2> QED BY <1>2, <2>1, <2>2 DEF StreamOver, TurnWith
<1>10. CASE TurnDecide(t) \/ TurnEvicted(t)
  <2>1. turn[t].pc # "release" /\ deferred' = deferred /\ UNCHANGED past
    BY <1>10 DEF TurnDecide, TurnEvicted, TurnAt, flags
  <2>2. CASE TurnGoto(t, "release")
    BY <1>2, <1>b, <2>1, <2>2
  <2>3. CASE TurnEvicted(t)
    <3> DEFINE pc == IF turn[t].out = "retry" THEN "build" ELSE "release"
    <3>1. [turn[t] EXCEPT !.pc = pc, !.out = "ok", !.cell = NoCell].pc = pc
      BY <1>a DEF TurnRec
    <3>2. turn' = [turn EXCEPT ![t] = [turn[t] EXCEPT !.pc = pc, !.out = "ok", !.cell = NoCell]]
      BY <1>a, <2>3 DEF TurnEvicted
    <3>3. turn'[t].pc = pc /\ \A u \in Turns \ {t} : turn'[u] = turn[u]
      BY <1>a, <3>1, <3>2
    <3> QED BY <1>2, <2>1, <3>3
  <2>4. CASE TurnDecide(t) /\ Evicts(t)
    <3> DEFINE next == IF Replays(t) THEN "build" ELSE "release"
               pc  == IF Awaited = NoCell THEN next ELSE "evicting"
               rep == Replays(t) \/ turn[t].replayed
               out == IF next = "build" /\ Awaited # NoCell THEN turn[t].out ELSE "ok"
               rec == [turn[t] EXCEPT !.pc = pc, !.cell = Awaited, !.replayed = rep, !.out = out]
    <3>1. turn' = [turn EXCEPT ![t] = rec]
      BY <1>a, <2>4 DEF TurnDecide
    <3>2. rec.pc \in {"build", "release", "evicting"}
      BY <1>a DEF TurnRec
    <3> HIDE DEF rec
    <3>3. turn'[t].pc \in {"build", "release", "evicting"} /\ \A u \in Turns \ {t} : turn'[u] = turn[u]
      BY <1>a, <3>1, <3>2
    <3> QED BY <1>2, <2>1, <3>3
  <2> QED BY <1>10, <2>2, <2>3, <2>4 DEF TurnDecide
<1> QED BY <1>3, <1>4, <1>5, <1>6, <1>7, <1>8, <1>9, <1>10 DEF TurnStep, TurnGoesOn

\* A record that is overwritten or cleared under a running turn is known to have been.
LEMMA CallKeepsEarly ==
  ASSUME TypeOK, AimedAtTurns, OnlyATeardownUnseatsATurn, EarlyKept,
         NEW c \in Callers, CallBegins(c) \/ CallGoesOn(c)
  PROVE  EarlyKept'
<1> USE NoTurnIsNone DEF TypeOK
<1>1. turn' = turn
  BY CallUnseats
<1>2. ASSUME UNCHANGED <<deferred, unseated, early, displaced>>
      PROVE  EarlyKept'
  BY <1>1, <1>2 DEF EarlyKept, Running, TurnAt
<1>3. CASE CallBegins(c)
  BY <1>2, <1>3 DEF CallBegins, CancelBegin, RestartBegin, KillBegin, WarmupBegin, DeleteBegin, Shutdown,
     SetRestarting, SetDeleting, flags, past
<1>4. CASE CancelCheck(c) \/ CancelLook(c) \/ CancelHand(c) \/ CancelDone(c)
  BY <1>2, <1>4 DEF CancelCheck, CancelLook, CancelHand, CancelDone, SetCancelling, flags, past
<1>5. CASE CancelDefer(c)
  <2> DEFINE t == call[c].turn
  <2>1. t \in Turns
    BY <1>5 DEF CancelDefer, AimedAtTurns, CallAt, Cancels
  <2>2. /\ deferred' = t /\ unseated' = unseated
        /\ early' = IF turn[t].pc \in BeforeLook THEN early \cup {t} ELSE early
        /\ displaced' = (IF turn[t].pc \in BeforeLook THEN displaced \ {t} ELSE displaced)
                        \cup ({deferred} \cap {u \in Turns \ {t} : Running(u)})
    BY <1>5 DEF CancelDefer, DeferCancel
  <2> HIDE DEF t
  <2> QED BY <1>1, <2>1, <2>2 DEF EarlyKept, Running, TurnAt, BeforeLook
<1>6. CASE RestartClear(c) \/ RevokeClear(c)
  <2>1. /\ deferred' = NoTurn /\ unseated' = unseated \cup ({claim} \ {NoTurn})
        /\ early' = early /\ displaced' = displaced
    BY <1>6 DEF RestartClear, RevokeClear, ClearTurnState, ClearConversation, Unseat
  <2>2. \A t \in early : t \in unseated'
    BY <2>1 DEF EarlyKept, OnlyATeardownUnseatsATurn
  <2> QED BY <1>1, <2>1, <2>2 DEF EarlyKept, Running, TurnAt
<1>7. CASE \/ RestartAims(c) \/ CallKill(c) \/ CallKilled(c) \/ CallEnsure(c) \/ CallInit(c) \/ CallBuilt(c)
           \/ RestartEnds(c) \/ DeleteHook(c) \/ DeleteRow(c)
  BY <1>2, <1>7 DEF RestartAims, CallKill, CallKilled, CallEnsure, CallInit, CallBuilt, RestartEnds,
     DeleteHook, DeleteRow, SetRestarting, SetDeleting, flags, past
<1> QED BY <1>3, <1>4, <1>5, <1>6, <1>7 DEF CallGoesOn

\* No step drops the record of an early cancellation unnoticed.
LEMMA NextKeepsEarly ==
  ASSUME TypeOK, AimedAtTurns, OnlyATeardownUnseatsATurn, EarlyKept, [Next]_vars
  PROVE  EarlyKept'
<1>1. CASE \E t \in Turns : TurnStep(t)
  BY <1>1, TurnKeepsEarly
<1>2. CASE \E c \in Callers : CallBegins(c) \/ CallGoesOn(c)
  BY <1>2, CallKeepsEarly
<1>3. CASE (\E c \in Callers : WatchStep(c)) \/ (\E c \in Cells : ReapStep(c)) \/ AtRest \/ UNCHANGED vars
  <2>1. UNCHANGED <<flags, turn, past>>
    BY <1>3 DEF WatchStep, WatchLook, WatchKill, ReapStep, AtRest, vars
  <2> QED BY <2>1 DEF EarlyKept, Running, TurnAt, flags, past
<1> QED BY <1>1, <1>2, <1>3 DEF Next

-----------------------------------------------------------------------------
(* The theorems *)

\* What every step preserves.
Inv == TypeOK /\ Kept /\ AimedAtTurns /\ OnlyATeardownUnseatsATurn /\ EarlyKept

\* It holds when nothing has happened yet.
LEMMA InvInit == ASSUME Init PROVE Inv
<1> USE ConversationAssumption DEF Init
<1>1. TasksTypeOK /\ Kept
  BY AgentTasksAssumption DEF TasksInit, TasksTypeOK, Kept, CellStates
<1>2. turn \in [Turns -> TurnRec]
  BY DEF TurnWith, TurnRec, TurnPcs, Lifecycles, Outcomes
<1>3. call \in [Callers -> CallRec]
  BY DEF CallWith, CallRec, CallPcs, CallKinds
<1>4. watch \in [Callers -> WatchRec]
  BY DEF NoWatch, WatchRec
<1>5. AimedAtTurns /\ OnlyATeardownUnseatsATurn /\ EarlyKept
  BY DEF AimedAtTurns, Cancels, OnlyATeardownUnseatsATurn, EarlyKept, Running, CallWith, TurnWith
<1>6. events \in 0..MaxEvents /\ {claim, deferred} \subseteq Turns \cup {NoTurn}
  OBVIOUS
<1>7. {deleting, cancelling, restarting, shutting, row} \subseteq BOOLEAN
  OBVIOUS
<1>8. unseated \subseteq Turns /\ early \subseteq Turns /\ displaced \subseteq Turns /\ handed \subseteq Turns
  OBVIOUS
<1> QED
  <2> HIDE DEF Init
  <2> QED BY <1>1, <1>2, <1>3, <1>4, <1>5, <1>6, <1>7, <1>8 DEF TypeOK, Inv

\* And after every step.
LEMMA InvNext == ASSUME Inv, [Next]_vars PROVE Inv'
<1> USE DEF Inv
<1>1. TasksTypeOK' /\ Kept'
  BY NextMovesTasks, TaskMoveKeeps DEF TasksInv, TypeOK
<1>2. OnlyATeardownUnseatsATurn' /\ EarlyKept'
  BY NextKeepsSeats, NextKeepsEarly
<1>3. events' \in 0..MaxEvents
  BY EventsBounded
<1>4. /\ FlagsType' /\ PastType' /\ AimedAtTurns'
      /\ turn' \in [Turns -> TurnRec] /\ call' \in [Callers -> CallRec] /\ watch' \in [Callers -> WatchRec]
  <2>1. CASE \E t \in Turns : TurnStep(t)
    BY <2>1, TurnKeepsTurns, TurnKeepsFlags DEF TypeOK, AimedAtTurns
  <2>2. CASE \E c \in Callers : CallBegins(c) \/ CallGoesOn(c)
    BY <2>2, CallKeepsCalls, CallKeepsFlags, CallKeepsAim DEF TypeOK
  <2>3. CASE \E c \in Callers : WatchStep(c)
    BY <2>3, WatchKeeps DEF TypeOK, FlagsType, PastType, AimedAtTurns, flags, past
  <2>4. CASE (\E c \in Cells : ReapStep(c)) \/ AtRest \/ UNCHANGED vars
    BY <2>4 DEF ReapStep, AtRest, TypeOK, FlagsType, PastType, AimedAtTurns, flags, past, vars
  <2> QED BY <2>1, <2>2, <2>3, <2>4 DEF Next
<1> QED BY <1>1, <1>2, <1>3, <1>4 DEF TypeOK, FlagsType, PastType

\* In every state every variable has its type.
THEOREM TypeCorrect == Spec => []TypeOK
<1>1. Inv => TypeOK
  BY DEF Inv
<1> QED BY <1>1, InvInit, InvNext, PTL DEF Spec

\* Two turns never run at once, however many turns, callers and failures there are, unless a
\* restart or a revocation took the claim from the one that was running.
THEOREM SeatsHold == Spec => []OnlyATeardownUnseatsATurn
<1>1. Inv => OnlyATeardownUnseatsATurn
  BY DEF Inv
<1> QED BY <1>1, InvInit, InvNext, PTL DEF Spec

\* No interleaving of builds and kills leaves a live agent outside the map that no kill waits
\* for, other than those a kill is known to have let go while they were built, or to have left, by
\* their kind, to whoever holds them.
THEOREM AgentsKept == Spec => []NoAgentEscapesItsKill
<1>1. Inv => NoAgentEscapesItsKill
  BY DEF Inv, Kept, NoAgentEscapesItsKill
<1> QED BY <1>1, InvInit, InvNext, PTL DEF Spec

\* A cancellation recorded before its turn looked for it is honoured however many replays, kills,
\* calls and other turns there are, unless the claim was taken or a late record displaced it.
THEOREM EarlyStops == Spec => []EarlyStopHonoured
<1>1. Inv => EarlyStopHonoured
  BY DEF Inv, EarlyKept, EarlyStopHonoured, TurnAt
<1> QED BY <1>1, InvInit, InvNext, PTL DEF Spec
=============================================================================
