---------------------------- MODULE SessionQueue ----------------------------
(***************************************************************************)
(* Messages from one conversation to another (aionui-session-message): a   *)
(* send delivers at once through the ordinary send path, or, while its     *)
(* target cannot take it, leaves the message in a queue in memory that one *)
(* background drainer empties.                                             *)
(*                                                                         *)
(* The queue has one lock and no call holds it across an await: every      *)
(* operation on it, every step of a delivery attempt and every step of the *)
(* operations on the target is an action.  Of the target's conversation    *)
(* only what an attempt reads is kept: who holds the turn, whether it is   *)
(* being cancelled or restarted, whether its row is there.                 *)
(***************************************************************************)
EXTENDS Naturals, Sequences, SequencesExt, FiniteSets, Subsequences

CONSTANTS
  MaxMessages,      \* bound: how many send calls there are
  Targets,          \* conversations messages are sent to
  To,               \* [message -> its target]
  Midturn,          \* targets whose agent takes a message into a running turn
  PerTargetLimit, GlobalLimit,
  Faults,           \* what may fail: "db" (a row is not written), "cancel" (of an agent),
                    \* "agent" (a running turn does not take a message, for any other reason than its end)
  Other,            \* a turn that none of the messages started
  NoTurn, NoMessage,
  MaxEvents         \* bound: turns of others, stops, restarts, deletions, toggles, failures

\* Messages, numbered in the order in which their send calls begin.
Messages == 1..MaxMessages

ASSUME SessionQueueAssumption ==
  /\ To \in [Messages -> Targets] /\ Midturn \subseteq Targets
  /\ {MaxMessages, PerTargetLimit, GlobalLimit, MaxEvents} \subseteq Nat
  /\ Other \notin Messages /\ NoTurn \notin Messages \cup {Other} /\ NoMessage \notin Messages

VARIABLES
  queue,     \* [target -> messages waiting for it]
  total,     \* the queue's own count
  permit,    \* the drainer's Notify holds a permit
  aged,      \* messages in the queue whose deadline has passed
  drain,     \* the drainer: its program counter, its message, how the attempt ended
  hand,      \* heads of the snapshot the drainer has not come to yet
  at,        \* [message -> where its delivery attempt stands]
  fallback,  \* messages a running turn turned away in this attempt, already in the transcript
  ringing,   \* messages pushed whose sender has not notified the drainer yet
  told,      \* [message -> what its sender was told]
  turn, cancelling, restarting, gone,   \* [target -> its conversation]
  op,        \* [target -> the stop or restart under way]
  disabled,  \* targets whose owner has the feature switched off
  rows,      \* [message -> how often it was written to the target's transcript, up to Often]
  events,    \* events so far
  pushed,    \* history: [target -> messages pushed, in order]
  marks      \* history: [mark -> messages]

qvars == <<queue, total, aged, pushed>>
dvars == <<drain, hand>>
mvars == <<at, fallback, rows>>
tgt   == <<turn, cancelling, restarting, gone, op, disabled>>
vars  == <<qvars, permit, dvars, mvars, ringing, told, tgt, events, marks>>

\* Reached the target or a running turn of it; expired, or its target was gone or switched off;
\* cleared by a stop; refused by a running turn, its row showing so or no row showing anything; and
\* what else may befall a message.
Marks == {"given", "ended", "stopped", "errored", "lost", "swallowed", "displaced", "bounced", "copied"}

DrainPcs    == {"check", "asleep", "snapshot", "gate", "deliver", "record"}
AttemptPcs  == {"new", "look", "steer", "claim", "write", "push", "none"}
Results     == {"delivered", "busy", "hard"}
OpPcs       == {"none", "mark", "hook", "clear", "open"}

\* Bound: how far rows are counted.
Often == 2

Queued      == UNION {ToSet(queue[t]) : t \in Targets}
InHand      == hand \cup ({drain.msg} \ {NoMessage})
Places(q)   == UNION {{t} \X DOMAIN q[t] : t \in Targets}
Size(q)     == Cardinality(Places(q))

SQTypeOK ==
  /\ \A t \in Targets : queue[t] \in Seq(Messages) /\ Len(queue[t]) <= PerTargetLimit
  /\ total = Size(queue) /\ total <= GlobalLimit /\ Cardinality(Queued) = total
  /\ drain \in [pc : DrainPcs, msg : Messages \cup {NoMessage}, res : Results]
  /\ hand \subseteq Messages /\ aged \subseteq Messages /\ disabled \subseteq Targets
  /\ at \in [Messages -> AttemptPcs] /\ told \in [Messages -> {"", "accepted", "refused"}]
  /\ turn \in [Targets -> Messages \cup {Other, NoTurn}]
  /\ op \in [Targets -> [pc : OpPcs, cause : {"user", "restart"}]]
  /\ rows \in [Messages -> 0..Often] /\ marks \in [Marks -> SUBSET Messages]

NoOp    == [pc |-> "none", cause |-> "user"]
AtCheck == [pc |-> "check", msg |-> NoMessage, res |-> "busy"]

Init ==
  /\ queue = [t \in Targets |-> <<>>] /\ total = 0 /\ pushed = queue
  /\ permit = FALSE /\ aged = {} /\ drain = AtCheck /\ hand = {}
  /\ at = [m \in Messages |-> "new"] /\ fallback = {} /\ ringing = {}
  /\ told = [m \in Messages |-> ""]
  /\ turn = [t \in Targets |-> NoTurn] /\ disabled = {}
  /\ cancelling = {} /\ restarting = {} /\ gone = {}
  /\ op = [t \in Targets |-> NoOp]
  /\ rows = [m \in Messages |-> 0] /\ events = 0
  /\ marks = [k \in Marks |-> {}]

Event    == events < MaxEvents /\ events' = events + 1
NoEvent  == UNCHANGED events
Fault(k) == k \in Faults /\ Event

Mark(k, ms) == marks' = [marks EXCEPT ![k] = @ \cup ms]

-----------------------------------------------------------------------------
(* The queue *)

Full(t) == total >= GlobalLimit \/ Len(queue[t]) >= PerTargetLimit

Push(m) ==
  /\ queue' = [queue EXCEPT ![To[m]] = Append(@, m)] /\ total' = total + 1
  /\ pushed' = [pushed EXCEPT ![To[m]] = Append(@, m)] /\ UNCHANGED aged

Forgets == aged' = {m \in aged : \E t \in Targets : m \in ToSet(queue'[t])} /\ UNCHANGED pushed

\* Whatever is at the head now goes.
RemoveHead(t) ==
  /\ IF queue[t] = <<>> THEN UNCHANGED <<queue, total>>
     ELSE queue' = [queue EXCEPT ![t] = Tail(@)] /\ total' = total - 1
  /\ Forgets

\* Mutant: the count is left alone.
KeepCountClearing(t) ==
  queue' = [queue EXCEPT ![t] = <<>>] /\ Forgets /\ UNCHANGED total

ClearFor(t) ==
  queue' = [queue EXCEPT ![t] = <<>>] /\ total' = total - Len(queue[t]) /\ Forgets

DropExpired ==
  LET kept == [t \in Targets |-> Without(queue[t], aged)] IN
  /\ queue' = kept /\ total' = total - (Size(queue) - Size(kept)) /\ Forgets
  /\ Mark("ended", Queued \cap aged)

-----------------------------------------------------------------------------
(* A delivery attempt: ConversationService::send_message for one message,  *)
(* made by its sender or by the drainer                                    *)

\* How the attempt ended reaches whoever made it.
Ends(m, r) ==
  /\ fallback' = fallback \ {m}
  /\ IF drain.msg = m
     THEN /\ drain' = [drain EXCEPT !.pc = "record", !.res = r] /\ at' = [at EXCEPT ![m] = "none"]
          /\ UNCHANGED told
     ELSE /\ at' = [at EXCEPT ![m] = IF r = "busy" THEN "push" ELSE "none"]
          /\ told' = CASE r = "delivered" -> [told EXCEPT ![m] = "accepted"]
                       [] r = "hard" -> [told EXCEPT ![m] = "refused"]
                       [] r = "busy" -> told
          /\ UNCHANGED drain

Goes(m, pc) == at' = [at EXCEPT ![m] = pc] /\ UNCHANGED <<drain, told>>
Written(m)  == rows' = [rows EXCEPT ![m] = IF @ = Often THEN @ ELSE @ + 1]
Frame       == UNCHANGED <<qvars, permit, hand, ringing, cancelling, restarting, gone, op, disabled>>

\* A running turn of a capable agent takes the message, unless a confirmation is pending; its
\* row is written first, if the conversation takes messages at all.
Look(m) ==
  LET t == To[m] IN
  /\ at[m] = "look" /\ Frame /\ UNCHANGED turn
  /\ \/ t \in gone /\ Ends(m, "hard") /\ Mark("ended", {m}) /\ NoEvent /\ UNCHANGED rows
     \/ /\ t \notin gone /\ Goes(m, "claim")
        /\ NoEvent /\ UNCHANGED <<rows, fallback, marks>>
     \/ /\ t \notin gone /\ t \in Midturn /\ turn[t] # NoTurn
        /\ IF t \in cancelling
           THEN Goes(m, "steer") /\ NoEvent /\ UNCHANGED <<rows, fallback, marks>>
           ELSE \/ /\ Goes(m, "steer") /\ Written(m) /\ fallback' = fallback \cup {m}
                   /\ NoEvent /\ UNCHANGED marks
                \/ Fault("db") /\ Ends(m, "hard") /\ Mark("ended", {m}) /\ UNCHANGED rows

\* deliver_midturn; an agent that has just finished turns the message away, and one that fails makes
\* an error of the row, if there is one: the sender is told that the message was delivered.
Steer(m) ==
  /\ at[m] = "steer" /\ Frame /\ UNCHANGED <<turn, rows>>
  /\ \/ turn[To[m]] # NoTurn /\ Ends(m, "delivered") /\ Mark("given", {m}) /\ NoEvent
     \/ Goes(m, "claim") /\ NoEvent /\ UNCHANGED <<fallback, marks>>
     \/ /\ Fault("agent") /\ Ends(m, "delivered")
        /\ Mark(IF m \in fallback THEN "errored" ELSE "lost", {m})

\* Mutant: RuntimeRestarting is a hard error.
ClaimOrGiveUp(m) ==
  LET t == To[m] IN
  /\ at[m] = "claim" /\ Frame /\ UNCHANGED <<rows, events>>
  /\ IF turn[t] = NoTurn /\ t \notin restarting
     THEN turn' = [turn EXCEPT ![t] = m] /\ Goes(m, "write") /\ UNCHANGED <<fallback, marks>>
     ELSE /\ Ends(m, IF t \in restarting THEN "hard" ELSE "busy")
          /\ Mark("bounced", {m} \cap fallback) /\ UNCHANGED turn

\* try_claim_turn, and classify_delivery_failure of what it answers.
Claim(m) ==
  LET t == To[m] IN
  /\ at[m] = "claim" /\ Frame /\ UNCHANGED <<rows, events>>
  /\ IF turn[t] = NoTurn /\ t \notin restarting
     THEN turn' = [turn EXCEPT ![t] = m] /\ Goes(m, "write") /\ UNCHANGED <<fallback, marks>>
     ELSE Ends(m, "busy") /\ Mark("bounced", {m} \cap fallback) /\ UNCHANGED turn

\* The release of a claim that this attempt made and may have lost since.
GivesBack(m) ==
  LET t == To[m] IN
  IF turn[t] = m
  THEN turn' = [turn EXCEPT ![t] = NoTurn] /\ cancelling' = cancelling \ {t}
  ELSE UNCHANGED <<turn, cancelling>>

WriteFrame == UNCHANGED <<qvars, permit, hand, ringing, restarting, gone, op, disabled>>

\* Mutant: what the running turn turned away is written like a new message.
WriteAgain(m) ==
  LET t == To[m] IN
  /\ at[m] = "write" /\ WriteFrame
  /\ \/ /\ t \in cancelling /\ GivesBack(m) /\ Ends(m, "delivered")
        /\ Mark("swallowed", {m}) /\ NoEvent /\ UNCHANGED rows
     \/ /\ t \notin cancelling /\ (t \in gone => m \in fallback)
        /\ Written(m)
        /\ Ends(m, "delivered") /\ Mark("given", {m}) /\ NoEvent /\ UNCHANGED <<turn, cancelling>>

\* The row, then the turn.  A conversation that is being cancelled takes no message, and the
\* sender is told that it did.
Write(m) ==
  LET t == To[m] IN
  /\ at[m] = "write" /\ WriteFrame
  /\ \/ /\ t \in cancelling /\ GivesBack(m) /\ Ends(m, "delivered")
        /\ Mark("swallowed", {m}) /\ NoEvent /\ UNCHANGED rows
     \/ /\ t \notin cancelling /\ m \notin fallback
        /\ \/ t \in gone /\ NoEvent
           \/ Fault("db")
        /\ GivesBack(m) /\ Ends(m, "hard") /\ Mark("ended", {m}) /\ UNCHANGED rows
     \/ /\ t \notin cancelling /\ (t \in gone => m \in fallback)
        /\ IF m \in fallback THEN UNCHANGED rows ELSE Written(m)
        /\ Ends(m, "delivered") /\ Mark("given", {m}) /\ NoEvent /\ UNCHANGED <<turn, cancelling>>

-----------------------------------------------------------------------------
(* A sender *)

\* The toggle and both conversations are looked up before the first attempt.
SendBegin(m) ==
  /\ at[m] = "new" /\ \A n \in Messages : n < m => at[n] # "new"
  /\ IF To[m] \in disabled \cup gone
     THEN at' = [at EXCEPT ![m] = "none"] /\ told' = [told EXCEPT ![m] = "refused"]
     ELSE at' = [at EXCEPT ![m] = "look"] /\ UNCHANGED told
  /\ UNCHANGED <<qvars, permit, dvars, fallback, rows, ringing, tgt, events, marks>>

SendPush(m) ==
  /\ at[m] = "push" /\ at' = [at EXCEPT ![m] = "none"]
  /\ IF Full(To[m])
     THEN told' = [told EXCEPT ![m] = "refused"] /\ UNCHANGED <<qvars, ringing>>
     ELSE Push(m) /\ ringing' = ringing \cup {m} /\ UNCHANGED told
  /\ UNCHANGED <<permit, dvars, fallback, rows, tgt, events, marks>>

\* Mutant: the drainer is not woken.
SendReturns(m) ==
  /\ m \in ringing /\ ringing' = ringing \ {m}
  /\ told' = [told EXCEPT ![m] = "accepted"]
  /\ UNCHANGED <<qvars, permit, dvars, mvars, tgt, events, marks>>

SendNotify(m) ==
  /\ m \in ringing /\ ringing' = ringing \ {m}
  /\ permit' = TRUE /\ told' = [told EXCEPT ![m] = "accepted"]
  /\ UNCHANGED <<qvars, dvars, mvars, tgt, events, marks>>

\* TTL_MS have passed; a message keeps its deadline when the drainer has taken a copy.
Age(m) ==
  /\ m \in Queued /\ m \notin aged /\ aged' = aged \cup {m}
  /\ UNCHANGED <<queue, total, pushed, permit, dvars, mvars, ringing, told, tgt, events, marks>>

-----------------------------------------------------------------------------
(* The drainer *)

DrainAt(pc) == drain.pc = pc
DrainTo(pc) == drain' = [AtCheck EXCEPT !.pc = pc]
Idle        == UNCHANGED <<permit, mvars, ringing, told, tgt, events>>

\* An empty queue puts the drainer to sleep; else a tick begins by dropping what has expired.
DrainCheck ==
  /\ DrainAt("check") /\ Idle /\ UNCHANGED hand
  /\ IF total = 0 THEN DrainTo("asleep") /\ UNCHANGED <<qvars, marks>>
                  ELSE DrainTo("snapshot") /\ DropExpired

DrainWakes ==
  /\ DrainAt("asleep") /\ permit /\ permit' = FALSE /\ DrainTo("check")
  /\ UNCHANGED <<qvars, hand, mvars, ringing, told, tgt, events, marks>>

DrainSnapshot ==
  /\ DrainAt("snapshot") /\ DrainTo("gate")
  /\ hand' = {Head(queue[t]) : t \in {u \in Targets : queue[u] # <<>>}}
  /\ Idle /\ UNCHANGED <<qvars, marks>>

\* The feature switched off costs its owner's target the backlog.
DrainGate ==
  /\ DrainAt("gate")
  /\ \E m \in hand :
       /\ hand' = hand \ {m}
       /\ IF To[m] \in disabled
          THEN /\ ClearFor(To[m]) /\ Mark("ended", ToSet(queue[To[m]]))
               /\ UNCHANGED <<drain, at>>
          ELSE /\ drain' = [drain EXCEPT !.pc = "deliver", !.msg = m]
               /\ at' = [at EXCEPT ![m] = "look"] /\ UNCHANGED <<qvars, marks>>
  /\ UNCHANGED <<permit, fallback, rows, ringing, told, tgt, events>>

\* The tick is over, or goes on with the next head.
DrainTick ==
  /\ DrainAt("gate") /\ hand = {} /\ DrainTo("check")
  /\ Idle /\ UNCHANGED <<qvars, hand, marks>>

\* Mutant: a busy target's message waits at the tail.
RecordAtTheTail ==
  LET t == To[drain.msg] IN
  /\ DrainAt("record") /\ DrainTo("gate")
  /\ IF drain.res = "busy"
     THEN /\ UNCHANGED <<total, aged, pushed, marks>>
          /\ queue' = IF queue[t] = <<>> THEN queue
                      ELSE [queue EXCEPT ![t] = Append(Tail(@), Head(@))]
     ELSE /\ RemoveHead(t)
          /\ Mark("displaced", IF drain.msg \in marks["stopped"] /\ queue[t] # <<>>
                               THEN {Head(queue[t])} ELSE {})
  /\ Idle /\ UNCHANGED hand

\* pop_head, drop_head, or another attempt next second.  When the queue was cleared while the
\* attempt was under way, the head is another message by now.
DrainRecord ==
  LET t == To[drain.msg] IN
  /\ DrainAt("record") /\ DrainTo("gate")
  /\ IF drain.res = "busy" THEN UNCHANGED <<qvars, marks>>
     ELSE /\ RemoveHead(t)
          /\ Mark("displaced", IF drain.msg \in marks["stopped"] /\ queue[t] # <<>>
                               THEN {Head(queue[t])} ELSE {})
  /\ Idle /\ UNCHANGED hand

-----------------------------------------------------------------------------
(* The target's conversation *)

Aside     == UNCHANGED <<permit, dvars, mvars, ringing, told>>
OpTo(t, pc) == op' = [op EXCEPT ![t].pc = pc]

\* Somebody else's message starts a turn.
TurnBegins(t) ==
  /\ turn[t] = NoTurn /\ t \notin restarting \cup gone /\ Event
  /\ turn' = [turn EXCEPT ![t] = Other]
  /\ Aside /\ UNCHANGED <<qvars, cancelling, restarting, gone, op, disabled, marks>>

TurnEnds(t) ==
  /\ turn[t] # NoTurn /\ \A m \in Messages : turn[t] = m => at[m] # "write"
  /\ turn' = [turn EXCEPT ![t] = NoTurn] /\ cancelling' = cancelling \ {t}
  /\ Aside /\ UNCHANGED <<qvars, restarting, gone, op, disabled, events, marks>>

\* A user stops the running turn.
StopBegin(t) ==
  /\ op[t] = NoOp /\ turn[t] # NoTurn /\ t \notin gone /\ Event
  /\ op' = [op EXCEPT ![t] = [pc |-> "mark", cause |-> "user"]]
  /\ Aside /\ UNCHANGED <<qvars, turn, cancelling, restarting, gone, disabled, marks>>

\* A restart cancels the running turn, if there is one.
RestartBegin(t) ==
  /\ op[t] = NoOp /\ t \notin gone /\ Event
  /\ restarting' = restarting \cup {t}
  /\ op' = [op EXCEPT ![t] = [pc |-> IF turn[t] = NoTurn THEN "clear" ELSE "mark", cause |-> "restart"]]
  /\ Aside /\ UNCHANGED <<qvars, turn, cancelling, gone, disabled, marks>>

\* cancel_with_cause: by now the turn may be over.  The agent is told to cancel, or is not
\* built yet, or fails to.
OpMark(t) ==
  /\ op[t].pc = "mark"
  /\ \/ cancelling' = cancelling \cup {t} /\ OpTo(t, "hook") /\ NoEvent
     \/ OpTo(t, "hook") /\ NoEvent /\ UNCHANGED cancelling
     \/ /\ Fault("cancel") /\ cancelling' = cancelling \ {t}
        /\ IF op[t].cause = "user" THEN op' = [op EXCEPT ![t] = NoOp] ELSE OpTo(t, "open")
  /\ Aside /\ UNCHANGED <<qvars, turn, restarting, gone, disabled, marks>>

\* Mutant: the hook keeps the backlog, whatever the cause.
HookKeepsAll(t) ==
  /\ op[t].pc = "hook" /\ UNCHANGED qvars
  /\ IF op[t].cause = "user"
     THEN /\ op' = [op EXCEPT ![t] = NoOp]
          /\ marks' = [marks EXCEPT !["stopped"] = @ \cup ToSet(queue[t]),
                                    !["copied"] = @ \cup {m \in InHand : To[m] = t}]
     ELSE OpTo(t, "clear") /\ UNCHANGED marks
  /\ Aside /\ UNCHANGED <<turn, cancelling, restarting, gone, disabled, events>>

\* on_turn_cancelled: a user's stop clears the backlog, a restart keeps it.
OpHook(t) ==
  /\ op[t].pc = "hook"
  /\ IF op[t].cause = "user"
     THEN /\ ClearFor(t) /\ op' = [op EXCEPT ![t] = NoOp]
          /\ marks' = [marks EXCEPT !["stopped"] = @ \cup ToSet(queue[t]),
                                    !["copied"] = @ \cup {m \in InHand : To[m] = t}]
     ELSE OpTo(t, "clear") /\ UNCHANGED <<qvars, marks>>
  /\ Aside /\ UNCHANGED <<turn, cancelling, restarting, gone, disabled, events>>

\* The agent is killed and the turn forgotten, then, with a new agent or without, the
\* conversation is open again.
OpClear(t) ==
  /\ op[t].pc = "clear" /\ OpTo(t, "open")
  /\ turn' = [turn EXCEPT ![t] = NoTurn] /\ cancelling' = cancelling \ {t}
  /\ Aside /\ UNCHANGED <<qvars, restarting, gone, disabled, events, marks>>

OpOpen(t) ==
  /\ op[t].pc = "open" /\ op' = [op EXCEPT ![t] = NoOp]
  /\ restarting' = restarting \ {t}
  /\ Aside /\ UNCHANGED <<qvars, turn, cancelling, gone, disabled, events, marks>>

\* The conversation is deleted; its queue is not told.
TargetDeleted(t) ==
  /\ t \notin gone /\ Event /\ gone' = gone \cup {t}
  /\ Aside /\ UNCHANGED <<qvars, turn, cancelling, restarting, op, disabled, marks>>

\* The owner of the target switches the feature off or on.
Toggle(t) ==
  /\ Event
  /\ disabled' = IF t \in disabled THEN disabled \ {t} ELSE disabled \cup {t}
  /\ Aside /\ UNCHANGED <<qvars, turn, cancelling, restarting, gone, op, marks>>

Attempt(m) == Look(m) \/ Steer(m) \/ Claim(m) \/ Write(m)
Sender(m)  == SendPush(m) \/ SendNotify(m)
Drainer    == DrainCheck \/ DrainWakes \/ DrainSnapshot \/ DrainGate \/ DrainTick \/ DrainRecord
OpStep(t)  == OpMark(t) \/ OpHook(t) \/ OpClear(t) \/ OpOpen(t)
Outside(t) == StopBegin(t) \/ RestartBegin(t) \/ TurnBegins(t) \/ TurnEnds(t) \/ TargetDeleted(t) \/ Toggle(t)

\* The drainer asleep, every send answered.
AtRest ==
  /\ DrainAt("asleep") /\ ~permit /\ \A m \in Messages : at[m] = "none"
  /\ \A t \in Targets : op[t] = NoOp
  /\ UNCHANGED vars

Next == \/ \E m \in Messages : SendBegin(m) \/ Attempt(m) \/ Sender(m) \/ Age(m)
        \/ Drainer
        \/ \E t \in Targets : OpStep(t) \/ Outside(t)
        \/ AtRest

Spec == Init /\ [][Next]_vars

\* Time passes and tasks are scheduled; a turn may last for ever.
Fairness == /\ \A m \in Messages : WF_vars(Attempt(m)) /\ WF_vars(Sender(m)) /\ WF_vars(Age(m))
            /\ WF_vars(Drainer)
FairSpec == Spec /\ Fairness

-----------------------------------------------------------------------------
(* Properties *)

\* What a sender was told is delivered or queued does not vanish: it is waiting, or reached the
\* target, or expired, or lost its target, or was given up with the backlog of a stopped or
\* switched-off target, or stands in the transcript as failed.  Three holes are named.  A conversation
\* marked as cancelling by a stop that came too late says yes and stores nothing.  So does one being
\* cancelled whose agent then fails to take the message into its turn (deliver_midturn_message).  And
\* a message queued while the drainer still holds a copy of one that a stop has cleared is taken off
\* in its place (remove_head goes by target).
NoMessageVanishes ==
  \A m \in Messages :
    (told[m] = "accepted" /\ m \notin Queued \cup InHand /\ at[m] = "none")
      => \/ \E k \in Marks \ {"errored", "bounced", "copied"} : m \in marks[k]
         \/ m \in marks["errored"] /\ rows[m] > 0

\* A message reaches its target once: it is written to the transcript a second time only when a
\* running turn turned it away and the claim for a turn of its own then failed.
WrittenOnce == \A m \in Messages : rows[m] > 1 => m \in marks["bounced"]

\* The messages queued for one target are delivered in the order in which they were queued.
DrainedInOrder ==
  \A t \in Targets : \A i, j \in DOMAIN pushed[t] :
    (i < j /\ pushed[t][j] \in marks["given"])
      => pushed[t][i] \notin Queued

\* What a user's stop found in the backlog does not start another turn afterwards, unless the
\* drainer had already taken a copy of it (QueueClearingCancelHook, snapshot_heads).
StopClearsTheBacklog ==
  (marks["stopped"] \cap marks["given"]) \subseteq marks["copied"]

\* Once nothing more is sent the queue empties, whatever the targets do: the drainer does not sleep
\* through a notification, and the deadline ends what cannot be delivered.
QueueDrains == total # 0 ~> total = 0
=============================================================================
