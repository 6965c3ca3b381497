# A verification project for Zaowutai's backend

The repository is a desktop application (AionUi: Electron, web and mobile
clients) over a Rust backend (AionCore) that runs AI agents as child processes,
keeps their conversations, and lets several of them work together as a *team*.
This directory holds TLA+ modules about the part of the backend where the
concurrency is:

* how a message that somebody sends to a team member reaches that member's
  agent, once, in order, through retries, interruptions, cancelled runs and
  failing members (`TeamWork`, `TeamLoop`);
* how a member's runtime comes, is rebuilt and goes while calls, attaches and
  batches race for it (`MemberRuntime`);
* how the turns of one conversation exclude each other, and how cancellations,
  restarts, deletions and kills meet a turn that is still building its agent
  (`ConversationTurn`, `AgentTasks`);
* how a message from one conversation to another waits until its target can take
  it (`SessionQueue`).

All Rust paths below are under `src/AionCore/crates/`.

## Inventory

| Component | State | Operations | Hard part | Modelled by |
|---|---|---|---|---|
| Slot work coordinator, `aionui-team/src/work_coordinator/`, `work_source.rs` | intents, four queues and one active batch per slot, enqueue leases, failure counts, runtime constraint, interrupt metadata, all under one mutex | about 25 methods | a batch is held across awaits while others take it away | `TeamWork`, `WorkPool` |
| Event loop, `event_loop.rs` | one tokio task and one `Notify` per slot | wait, prepare a batch, run a turn, settle it | lost wake-ups, late starts, verdicts about batches already gone | `TeamLoop` |
| Team session, `session.rs` | none of its own: it drives the others | enqueue, interrupt, discard, pause, cancel child, cancel run, notices | every call is several awaits; row, lease and intent change one at a time | `TeamLoop` |
| Mailbox, `mailbox.rs`, `aionui-db/.../sqlite_team.rs` | rows with a read flag | append, read unread, reread by ids, mark read | it is the durable truth the coordinator must agree with | `TeamLoop` |
| Team run manager, `team_run/manager.rs` | the one current run | bind, apply summary, cancel, roll back | summaries are applied after the lock that produced them is gone | no, see "Not modelled" |
| Member runtime registry, `member_runtime.rs`, attach in `session.rs`, restart and removal in `service.rs` | one record per member, with an operation id | reserve, commit, remove, stop | replaced attempts that finish late; two counters of operation ids | `MemberRuntime` |
| Scheduler, task board, provisioning, MCP tools | tables | CRUD, roster, prompts | little | no |
| Conversation runtime, `aionui-conversation` | turn claim and four flags per conversation, one deferred cancellation | claim, release, cancel, restart, revoke, delete, shut down; the orchestrator's replay, continuation, eviction | claims of turns that outlive their caller; a cancellation that finds no agent | `ConversationTurn` |
| Cross-session queue, `aionui-session-message` | bounded queues in memory | push, expire, drain, clear | deliver, then pop what may be another head | `SessionQueue` |
| Agent task manager, `aionui-ai-agent/src/task_manager.rs` | initialisation cell per conversation | get or build, kill, idle scan | kill while an initialisation is in flight | `AgentTasks` |
| Cron, auth, realtime, process registry | small concurrent tables | see `PROJECT.json` | timers, coalescing, restart | candidates |
| Session reducer, agent protocols, streaming, storage, other services, clients | | | data, I/O, presentation | no |

How they interact. A caller (HTTP route, MCP tool, another member's loop) calls
the **session**; the session asks the **coordinator** for a lease, writes a row to
the **mailbox**, commits the lease (an *intent* now stands for the row) and
notifies the slot's **event loop**. The loop publishes the **member runtime**'s
state to the coordinator, reconciles the queues with the unread rows, claims a
batch, rereads its rows and runs an agent turn through a port whose production
implementation is the **conversation runtime**. The port calls back when the turn
has started; inside the turn the agent may read its mailbox. When the turn
ends, the loop settles the batch and marks its rows read. A session that finds a
member without a loop reserves an attach in the member runtime's **registry**; the
attach task kills and starts the agent, registers the loop and publishes the
constraint that lets the coordinator hand out work. In the conversation runtime a
turn claims its conversation, gets an agent from the **task manager** (building it, or
sharing the initialisation somebody else has begun), prompts it and releases the
claim; the other calls of the service look at the claim, kill agents or clear the
claim beside it. The cross-session **queue** makes the ordinary send of a conversation
wait for the claim; its hook is called when a turn is cancelled. Every coordinator
method publishes a summary to the **run manager** after it has unlocked.
Interruptions, pauses and cancellations come in from the side at any time, cancel
the turn through the port and take the batch away from the loop.

What makes each of them correct:

* coordinator: an intent has one owner; no operation of an old batch touches a new
  one; ended work stays ended; order and isolation of what a turn is given;
* loop and session: no lost wake-up, every batch and lease is given back on every
  path, an acknowledged row is not delivered again, an unread one is not
  forgotten, retries are bounded, a message is eventually settled;
* run manager: a run is finished exactly when none of its work is left;
* member runtime: the result of a replaced attempt is never installed; a removed
  member stays removed; a rebuild does not kill the agent under a batch; waiters are
  answered;
* conversation runtime: one turn at a time, released by its owner only; a
  cancellation ends its turn however early or late it comes; a restart that fails
  leaves the conversation open;
* task manager: every live agent is in the map, or somebody is about to kill it;
* queue and drainer: nothing accepted vanishes, at most one delivery, in order, limits
  respected, nothing delivered that a stop has cleared.

`PROJECT.json` lists every component with its sources, and under "hazards" what in
this code is hard to test, at its line, with the property that covers it or the
reason none does yet.

## Modules

* `TeamWork` is the coordinator. A state variable per field of its locked state,
  an action per public method that changes it, parameterised by what the method is
  given. One mutex guards everything, so a method is one step. `Next` is the most
  general client: any caller, any method, any argument it could hold. A rejected
  call changes nothing and is no step.
  An intent's id is its index in `intents`; a batch is a record with the id `op`, and
  `op = 0` is no batch. `fails` saturates at the limit, the only value tested.
  A lease holds what `commit_enqueue` reads of it. Left out: roles, timestamps,
  classifications, texts, the published summaries and snapshots.
* `WorkPool` is what the coordinator promises: admitted work is pending, held by
  its slot's one batch, or ended; a batch is taken whole and let go whole, work
  does not move between slots, vanish or come back. `TeamWork` implements it
  (`KeepsPool`) with `pending` the queued intents of a slot, `held` those of its
  active batch and `ended` the terminal ones.
* `TeamLoop` EXTENDS `TeamWork` with everything around it that runs concurrently: the
  mailbox rows and their read flags, the callers (one program counter each; a step
  per await or coordinator call of the session methods), the loop of each slot,
  the turn that the port runs for it, and the agent's `team_read_messages`. A row is
  named after the caller that wrote it. `Calls` says which calls an instance
  makes and `Faults` which failures may happen in it: database calls, a turn refused
  because one is running, a failed cancellation, the tool transport, a sender that
  is gone. `acked`, `tries` and `orphaned` are history variables, and so is the field
  `refused` of a loop, which remembers that its last batch was refused: no action
  reads them.
  The turn port and `Notify` are not in this component's files; they are modelled
  by what the loop observes of them. A turn cancelled through the port may be
  reported completed or failed, as the production adapter does. The member
  runtimes stay ready here.
* `AgentTasks` is the task manager for one conversation: the cell the map holds, what
  each cell has come to, and the kills. A cell starts `empty`; whoever reaches it
  first is `building`; then it holds an agent, `live`, `finished` or `dead`. `Kill` takes
  the cell out of the map and forgets one without an agent; `KillAndWait` leaves a
  watcher (`reaping`) that kills the agent when the initialisation is over. `agent` is
  the kind of the conversation's agent, chosen at first and kept: what a kill does
  differs between an ACP manager (always ends it), the session of claude or codex and
  Antigravity (ends it for a cancellation that timed out and for a restart, otherwise
  leaves it to whoever holds it) and Aionrs (asks it to stop); `Ends` and `EndAgent` say
  so. `strays` is a history variable: cells that a kill took out of the map without
  ending their agent, now or later. A cell that nobody holds is
  reused, so `MaxCells` bounds the cells alive at one time, not how many there are.
* `ConversationTurn` EXTENDS `AgentTasks` with the rest of one conversation: the
  runtime state (`claim`, four flags, `deferred`), the turns, each with the
  orchestrator's program counter, and the callers of the service's other operations,
  one program counter each; a cancellation arms a watchdog for every kind of agent but
  Aionrs (`Watched`). Only agents that report the type ACP, which the sessions of claude
  and codex do, are replayed, evicted and scanned when idle (`IsAcp`). Every lock, call of the
  task manager and await is a step boundary. `Lifecycle` is the state a reader is
  shown; that it hides a cancellation during a shutdown is why some code reads the flag
  instead. What an agent says is left out: a prompt ends well, ends with an answer to
  be fed back (`Continue`), or fails and may be replayed once. The histories
  `unseated`, `early`, `displaced` and `handed` remember which turns lost their claim,
  were cancelled before they looked, had that cancellation overwritten, or whose agent
  was told to stop.
* `SessionQueue` is the cross-session message queue: the queue under its lock, the
  drainer, the senders, and a delivery attempt, which is the same code for both. Of the
  target's conversation it keeps what an attempt reads (who holds the turn, whether it
  is being cancelled or restarted, whether the row is there); the turn's own life is
  `ConversationTurn`'s. A running turn takes the message (`Steer`), turns it away, or its
  agent fails, which the sender is told nothing of. `marks` is the history: why a message
  is no longer anywhere.
* `MemberRuntime` is one teammate's runtime in one session: the registry's entry, the
  attach task of each operation, the coordinator's constraint and restart gate, the
  loop's registration and the agent. One program counter per caller; a step per lock
  or await. Simplified where other modules are detailed: work is one message,
  queued or claimed; writing and leasing it is one step (`TeamLoop` takes them
  apart); a kill and a warm-up are one step each (`AgentTasks` takes them apart). The
  gate's number and the registry's operation are two counters, compared with each
  other as the code does. The roster has a lock of its own: a call that looks a member up
  and then reserves takes two steps. The histories `leftover`, `abandoned`, `loose` and
  `died` mark an attach that escaped a removal, the operations whose owner returned
  without ending them, a slot opened by somebody else during a rebuild, and an agent that
  ended by itself.
* `Reservations` is what the registry in it promises: operations are numbered as they
  are handed out, at most one is under way, a removal may take an attach's place and
  nothing takes a removal's, and each is answered once, when it ends and not before.
  `MemberRuntime` implements it (`KeepsReservations`) with `running` the operation of
  an entry that is `Attaching` or `Removing`, and `told` the answers, open while an
  operation has none.
* `MCTeamWork`, `MCTeamLoop`, `MCConversation`, `MCSessionQueue`, `MCMember` hold the
  instances: symmetry, sub-relations of `Next` for the runs about order and shared
  runs, the call sets, and `TeamLoop`'s fairness.
* `Subsequences` has the two operators both queues filter with: the part of a sequence
  at some of its indices, and a sequence without some elements.
* `SubsequenceLemmas`, `TeamWorkProofs`, `TeamWorkOwner`, `TeamWorkPool`,
  `TeamLoopProofs`, `ConversationProofs`, `SessionQueueProofs` and `MemberProofs` hold the
  proofs.

Operators such as `RetryStartAtBack`, `CallNotifySkipped` or `ExhaustedLate`, each
next to the definition it resembles, are plausible mistakes in the code that the
definition models. They are no part of the specification: they are there to
show, one per property, that the property notices the mistake.

## Runs

| Run | Instance | Shows |
|---|---|---|
| `coord` | 1 slot, 2 rows, 1 run, 1 lease holder, 2 intents, 1 operation id | all methods in all orders: `TypeOK`, `OneOwner`, `TerminalIsFinal`, `RemovedTakesNoSend`, refinement of `WorkPool` |
| `order` | 1 slot, 3 intents, 2 operation ids; messages, commands and interventions | `LanesKeepCommitOrder`, `IsolatedRunsAlone` |
| `shared` | 2 slots in one run, 2 intents, 2 operation ids | `OneOwner` and the refinement where one method changes several slots |
| `loop` | 2 calls out of send, interrupt, discard, pause, cancel run; 4 intents, 3 batches | `WaitingLoopOwnsNothing`, `NoStrandedWork`, `AckedNeverRedelivered`, `UnreadNeverStale` |
| `faults` | 2 calls out of send, notice, signal, interrupt, child cancellation, cancel run, with every fault | `OneOwner`, `WaitingLoopOwnsNothing`, `LeasesReturned`, `UnreadNeverStale` on the error paths |
| `live` | 2 calls out of send and pause; 8 intents, 8 batches | `EventuallySettled` under fairness, `RetryBudget` |
| `leak` | as `loop` | violates `InterruptMetadataDrained` |
| `double` | 2 notices | violates `RefusedRowsAreRead` |
| `conversation` | an agent of each of four kinds; 2 turns; a user who cancels or deletes, a caller of any operation; every fault; 4 events | `TypeOK`, `OnlyATeardownUnseatsATurn`, `NoAgentEscapesItsKill`, `EarlyStopHonoured`; `CancelEndsTheTurn` and `RestartGateOpens` under fairness |
| `convdelete` | a warm-up, a turn and a deletion | violates `DeletedConversationHasNoAgent` |
| `queue` | 2 messages to 1 target with limits 2 and 2; every fault; 2 events | `SQTypeOK`, `NoMessageVanishes`, `WrittenOnce`, `DrainedInOrder`, `StopClearsTheBacklog`; `QueueDrains` under fairness |
| `member` | a caller of any operation, one that sends, removes or resets; 1 fault | `MTypeOK`, `ReadyMemberIsServed`, `RemovedMemberIsGone`, `OneAttachAtATime`, `RebuildSparesTheBatch`, refinement of `Reservations`; `WaitersAnswered` and `NoWorkIsStranded` under fairness |

Bounds of the coordinator and loop runs, each named in the configuration. `MaxIntents` and `MaxOps` cap the two
counters of the coordinator; a step that would pass them is not taken, which cuts
behaviours short and hides nothing before the cut. Two intents and one batch are
enough in `coord` for one intent in flight, one queued, and every method on either;
three intents let a lane have a middle; two slots are enough where a method treats
slots alike. In the loop instances one slot suffices because no step of a loop or
call reads another slot's state, `cancel_run` excepted, which `shared` covers. Two
callers give an interruption something to interrupt and a message that arrives
meanwhile; 4 intents and 3 batches allow each row an intent and a recovery drain.
In `live` no row can be charged more than three times, and 8 batches cover two
rows failing three times each: the bound is never what stops a message, or
`EventuallySettled` would fail. Symmetry permutes rows or callers (and slots in
`shared`), never in the run with a liveness property. Deadlock is not checked in
these runs: with every call made and the loop asleep the system rests, and at the
bounds it stops.

Bounds of the other runs. In `conversation` two turns exclude each other, and a third
would only repeat the second. An event is a turn, a call (a restart counts twice) or
a failure, so four allow two turns with two calls, or a turn with a call and two
failures. `MaxCells` is 4: one cell per turn and call that holds one, so that a
conversation is never short of cells. One continuation is enough to tell the limit
from the next. The kinds of agents share one run (432,629 states, about three minutes); an
execution keeps the kind it began with. Deadlock is checked: the only rest is `AtRest`,
where every turn has ended and every call returned. In `queue` (789,552 states) a second
message is what a head can be mixed up with. Two messages fill a queue of two and no push
is refused: that the limits hold is shown by the theorem `QueueTypes`, for any limits. An
event is a turn of somebody else, a stop, a
restart, a deletion, a toggle or a failure. Deadlock is checked there as well. Three
messages (to one target with one event, and to two targets) have been explored
once for the safety properties, without a difference. In `member` (357,345 states) a removal or a
reset races with any call and with the attaches that either starts. Instances with a
third caller have been explored once for safety; one of them showed the exception
described under `loose` below, which two callers do not reach. Deadlock is not checked in
`member`: when every call has returned the system rests.

Fairness of `TeamLoop`. `live` assumes weak fairness of each call that has begun and of each slot's
loop, as a whole: they are tokio tasks, whose awaits on the mutex, the database, the
turn port and a held permit all return. Nobody is obliged to begin a call, so no
message is rescued by the wake-up of a later one. A loop step is the same
for every outcome of a turn, so nothing assumes that turns succeed; the agent's
reads are not obliged at all. Two runs have a `CONSTANT` `Faults` that is empty for
a reason: after a database error the loop sleeps until it is notified again, and
marking rows read is only attempted once, so without faults is where the code
promises delivery.

Fairness of the others. In `ConversationTurn` a turn that has claimed goes on by itself, a
call that has begun goes on, a watchdog fires and a waiting kill gets its turn: tokio
tasks, whose awaits are on locks, the database and factories that return. An agent
may work on its prompt for ever, and nobody has to begin a turn or call; so
`CancelEndsTheTurn` rests on the watchdog and never on the agent. Therefore it speaks of the
kinds that have one (`service.rs:4423`). An Aionrs agent has none, and its cancellation is
a `notify_waiters` that is lost unless its prompt is waiting already
(`manager/aionrs/agent.rs:290`): nothing in the code ends such a turn, and the property
makes no claim about it. In `SessionQueue`
attempts, senders and the drainer go on and deadlines pass, but no turn of the
target has to end: the queue drains because messages expire. In `MemberRuntime` calls,
attach tasks and the loop go on.

Exceptions stated in the properties. `WaitingLoopOwnsNothing` excepts batches
orphaned by a failing tool transport lookup (`session.rs:447`, a `?` after the claim),
and `LeasesReturned` leases of a call whose sender lookup failed (`session.rs:1695`, a `?`
between write and commit). Both are real ways to keep a batch or a lease; the
runs show that they are the only ones. `NoStrandedWork` excepts a loop whose last
batch the reread refused. That error ends the loop's work until the next
notification (`session.rs:408`, `event_loop.rs:175`), although only one row of the
batch was at fault: with three calls, a row whose run is cancelled is drained again,
claimed together with an unread one, and then marked read by the cancelling call; the
other row stays unread with nobody to come back for it, against "drains its mailbox
whenever notified" (`session.rs:128`). Two calls, as in `loop`, do not reach it. The later modules keep the same custom: where
the code leaves a hole that no text of the repository promises to close, a
history variable names it, the property excepts exactly it, and the run shows that
there is no other.

* `unseated`: a restart or a revocation clears the claim under a turn that is still
  building its agent; the turn goes on beside the next one
  (`OnlyATeardownUnseatsATurn`).
* `displaced`: one deferred cancellation is kept per conversation; a second for another
  turn overwrites the first (`EarlyStopHonoured`). A turn that is cancelled once more before
  it looks leaves the history; one that has looked stays in it, because nobody will look
  again. Two callers cannot show that difference, three can: it was found when the
  property was proved.
* `strays`: the plain kill of the delete hook forgets a cell whose agent is being
  built (`NoAgentEscapesItsKill`); what follows from it is the finding below. And most
  kills of an agent that is no ACP manager only take it out of the map: it lives as long as
  somebody holds it. If that is a turn, a watchdog no longer finds its agent, which
  `CancelEndsTheTurn` excepts for the same reason.
* `swallowed`, `lost`, `displaced` of the queue: a message to a conversation that a late
  stop has marked as cancelling is acknowledged and stored nowhere; so is one to a turn
  that is being cancelled and whose agent fails to take it (`service.rs:3771`, with
  3685); and a head removed after the queue was cleared is another message
  (`NoMessageVanishes`). Without the cancellation a message that the agent failed to
  take stands in the transcript as `errored`, with its row.
  `bounced`: a row written for a running turn that turned the message away, then a
  claim that failed (`WrittenOnce`). `copied`: the head the drainer had already taken
  (`StopClearsTheBacklog`).
* `leftover`: an attach that no removal can disown (`RemovedMemberIsGone` and others). It began
  after a removal that had found no entry, or its member was removed between the look at
  the roster and the reservation of a retry, restart or context reset
  (`service.rs:2612` and 2617); or the removal could not save the roster and left attaches behind.
* `abandoned`: two exits leave an operation that nobody ends while the session lives, and those
  who join it wait as long (`WaitersAnswered`). A wake-up whose member was removed
  between its reservation and `get_agent` (`session.rs:628`), and a removal that cannot read
  or serialise the roster (`service.rs:1076` and 1078): unlike a failing save, these do not
  restore the entry.
* `loose`: a constraint that somebody derived from the registry earlier opens the slot
  during a rebuild; or the gate of a failed reset has the number of another rebuild's
  operation, because the two counters are separate, and takes its constraint back
  (`RebuildSparesTheBatch`).

## Findings

* `leak`. `coordinator.rs:920` says that interrupt metadata must eventually be taken
  by the caller or the loop and that a residue is a leak. A batch that is
  interrupted between its claim and the reread of its rows never starts a turn, and
  a caller without a turn id takes nothing: the entry stays for the session.
* `double`. A notice to the lead is persisted before its work is enqueued. A
  reconciliation in between queues a recovery drain for the row, the commit adds a
  second intent, both are claimed in one batch, and the reread, which returns the
  row once, counts as incomplete: `session.rs:412` refuses the batch because messages
  "are no longer unread" when they are. Every later attempt meets the same batch.
* `convdelete`. `task_manager.rs:368` says that deleting a conversation tears down its
  agent process through the hook at line 374. The hook runs once, before the row is
  deleted. A warm-up or a turn that read the row earlier builds its agent afterwards,
  and nothing looks again: the agent outlives the conversation.

## Proofs

TLAPS proves about `TeamWork`, for every value of its constants:

* `TypeCorrect` (`TeamWorkProofs`): `Spec => []TypeOK`. `TypeOK` is inductive alone. The
  work is in the queues: what `Pick` returns is a sequence of elements of what it is
  given (`SubsequenceLemmas`), because the indices of a finite set of numbers and their
  ranks correspond one to one.
* `OneOwnerAlways` (`TeamWorkOwner`): `Spec => []OneOwner`. `OneOwner` is a conjunction of
  seven facts about lanes, batches and states that support one another. The proof uses the
  equivalent of it in sets, `OwnedExactly`: the elements of a lane *are* the queued
  intents of its slot and priority, those of the active batch *are* the slot's
  intents in flight, without repetition. In that form each method changes the two
  sides of an equation together. There is a lemma for each kind of change
  (commit, claim, start, retry, end, complete, reconcile, empty, constrain, cancel a
  run), and the invariant follows from them method by method. `cancel_run` is the one
  that moves intents of several slots at once.

* `ImplementsPool` (`TeamWorkPool`): `Spec => KeepsPool`, the coordinator implements the
  work pool. Exact ownership determines what a slot's lanes and batch hold by the states
  of the intents alone. So each method is first reduced to what it does to those states:
  it takes (`claim_next_batch`), admits (commit and reconciliation) or releases (all
  others, `cancel_run` from several slots at once); then one lemma for each kind maps it
  to the pool's step. The invariant adds that intents stay within `MaxIntents`, because
  the pool's work is a given set.
* `EndedStaysEnded` and `RemovedGainsNothing` (`TeamWorkPool`): the action properties
  `TerminalIsFinal` and `RemovedTakesNoSend`, from the same reduction.

* `CommitOrderKept` (`TeamWorkOwner`): `Spec => []LanesKeepCommitOrder`. The property looks at
  a lane and, when the batch in flight came from it, at the batch before it. The
  invariant `Ordered` says this apart: lane and batch are each sorted, and the batch
  comes *before* the lane, which is what lets `retry_start` and `cancel_run` put its
  rows back at the front. Most methods only thin queues, and a part of a sorted queue
  is sorted (`SortedWithout`); a claim takes a head of the lane (`BatchIsHead`); what a
  failed runtime requeues in any order carries no run.
* `IsolatedAlone` (`TeamWorkOwner`): `Spec => []IsolatedRunsAlone`. Batches come from claims
  alone (`BatchesComeFromClaims`), and a claim that takes an isolated message takes
  nothing else (`IsolatedBatch`).

They rest on the assumptions in `TeamWork`: the sources used are among the code's,
"no message" and "no run" are not a message or a run, and the bounds are numbers. Nothing
bounds the number of slots, callers or rows, which may be infinite sets.

About `TeamLoop` (`TeamLoopProofs`), for any number of slots, callers and rows:

* `LoopTypes`: `LoopSpec => []LTypeOK`. A caller and a loop hold batches, ids and rows they
  read earlier; the invariant `Grounded` says what is left true of them. A copy of a batch
  agrees with the slot's batch as long as the number is the same (`Copies`), numbers
  never run backwards (`OpsIssued`, `Ebb`), ids stay ids, and an inbox lists its
  writers once.
* `ImplementsCoordinator`: `LoopSpec => Spec`. Every step is a step of the coordinator's
  most general client, or none: what a loop passes to the coordinator is an argument
  that client may pass, although it was read several steps before. So all theorems
  about `TeamWork` hold in a session. Three are stated: `OneOwnerInLoop`, `OrderInLoop`
  and `PoolInLoop`, by which a whole session implements the work pool.
* `LeasesComeBack`, `WaitingLoopIsFree`: `LeasesReturned` and `WaitingLoopOwnsNothing`, with
  every fault. `Leased` says that a lease has one caller, who is between its
  acquisition and its commit. `Claimed` says that a batch that owns a slot is in its
  loop's hands at a point that will settle it, or is orphaned.
* `StaleIsRead`: `UnreadNeverStale`. The candidates a loop lists before it reads the mailbox
  have rows in it (`Written`), and once it has read, each is in the snapshot or was read
  already (`Candidates`): a row never becomes unread again.
* `AckedOnce`: `AckedNeverRedelivered`. An acknowledged row has been marked read or its loop is about
  to mark it, and no batch about to run carries one (`Settled`).
* `AttemptsBounded`: `RetryBudget`. The coordinator forgets counts (of rows that a
  reconciliation does not list, and of cancelled batches), so `Budget` relates what a row
  suffered, `tries`, to what it is charged, while it is unread.
* `NothingStranded`: `NoStrandedWork`. `Covered` says of every unread row of a slot, not only
  of one whose loop waits, who will see to it: a pause, a permit, a call that will notify, one
  that will commit the row or mark it read, or the loop at a point from which it
  still sees it. `Undisturbed` is what holds without other faults: the member is ready
  and no batch is orphaned.

Beside `TeamWork`'s assumptions they use those of `TeamLoop`: its calls and faults are among
the known ones, a row is named by its caller, and there is a slot (`SlotsAssumption`). Two of
the theorems ask for `"db" \notin Faults`: when marking rows read fails the code logs the
error and delivers the rows again, so with that fault an acknowledged row does come back
and may be charged again. `NothingStranded` asks for
`Faults \subseteq {"cancel"}`: a database error, a refused turn, a failing transport or a lost
sender each end a loop's or a call's work with rows unread until the next notification,
as the code accepts.

About `SessionQueue` (`SessionQueueProofs`), for any finite set of messages and any targets and limits: `QueueTypes`,
`NothingVanishes`, `WritesOnce`, `DrainsInOrder` and `StopClears`, the five safety properties of
the run. One invariant, `Inv`, supports all. A queue is what is left of the history of what was pushed,
in its order (`InLine`); the drainer's copies are one per target and are the heads of their queues, or were cleared by a stop
(`Copies`), which is what makes "remove the head" remove the right message; `Staged` ties
a message's attempt to the drainer's hand; `RowsOnce` counts rows while an attempt may still fall back
on the one it wrote, and that a message marked `errored` has a row to show it.

About `ConversationTurn` (`ConversationProofs`), for any number of turns, callers, cells,
continuations and failures:

* `TypeCorrect`: `Spec => []TypeOK`. The type of a history depends on whom a
  cancellation is aimed at, so the invariant adds `AimedAtTurns`: a call that is about to
  defer or hand over a cancellation names a turn.
* `SeatsHold`: `Spec => []OnlyATeardownUnseatsATurn`. Inductive with the types: a claim
  is made only when there is none, given up by its own turn, and otherwise taken away by the
  two calls that say from whom (`CallUnseats`).
* `AgentsKept`: `Spec => []NoAgentEscapesItsKill`. The property is not inductive, since
  an initialisation under way becomes an agent; `Kept` says the same of cells that are
  empty or building. Turns, calls and watchdogs are first reduced to calls of the task
  manager (`NextMovesTasks`), then each of those keeps it (`TaskMoveKeeps`).
* `EarlyStops`: `Spec => []EarlyStopHonoured`. The property speaks of the moment at which the
  agent is prompted; `EarlyKept` follows the cancellation there: from the moment it is
  recorded the turn runs, and the record is in its place until the turn itself has taken it and
  goes to its release, or it is known who took the claim or the place.

The assumptions are `ConversationAssumption` and `AgentTasksAssumption`: the calls, faults
and kinds of agents are among the known ones, and bounds are numbers.

About `MemberRuntime` (`MemberProofs`), for any finite number of callers and any number of
failures:

* `MemberTypeCorrect`: `Spec => []MTypeOK`. Operations and gates are bounded by the
  number of callers, which holds because a caller takes at most one of each: `Numbers`
  says that there are no more operations than callers that know one, and what a program
  counter says of the numbers its caller holds. That gives a fresh operation its place
  in `Ops`, and makes it different from all that are known (`NextOpFits`).
* `GateHolds`: `Spec => []RebuildSparesTheBatch`. The property speaks of a rebuild whose
  attach is about to kill; the invariant `Closed` begins at the gate: from there on the slot is
  not open and holds no batch, or it is `loose`. Two facts support it: only a
  beginning takes an attach back to a state before its kill, and a wake-up that has
  yet to begin its attach shares no operation with a rebuild (`Apart`).
* `ReadyServed`, `RemovedGone`: `Spec => []ReadyMemberIsServed` and `Spec =>
  []RemovedMemberIsGone`. Both speak of the moments at which nothing is under way, so the
  invariant `Owed` says what is owed at all others. Who owns the entry: a removal with a
  lease, alone (`HoldPart`), or else the one attach that is at work or about to begin
  (`UniquePart`); when a failed removal is about to be taken back none is (`RestorePart`). Without a removal
  the agent is there before the attach commits, as is its loop (`ServedPart`); an operation is begun
  by the caller that got it (`GetPart`), and a member without an entry is dormant
  (`FreshPart`). What is left behind a removal: after its second look at the
  loops and its second kill, only the loop of an attach that will take it back, and only the agent
  of one that will kill it (`GonePart`, with `LoopDoomed` and `AgentDoomed`). This is where the
  second kill is needed: an attach may register and warm up between the first kill and the
  save of the roster, but one that has not committed by the second has lost its entry. Calls
  and attaches are first reduced to what they do to these parts (`CallEffects`,
  `AttEffects`), then each kind keeps each part.
* `SingleAttach`: `Spec => []OneAttachAtATime`, removals included. `UniquePart` says that at most one attach is
  at work or about to begin, and has the entry unless a removal has taken it. A removal that fails
  gives the entry to others again, and `RestorePart` says that the attach it disowned has
  stopped by then, or `leftover` names it; one that cannot read the roster gives it to nobody.
* `ReservationsKept`: `Spec => KeepsReservations`, the registry implements `Reservations`. `RegMove`
  says that a step changes the registry by one of its own methods or not at all, each
  with the guard under which its callers reach it; `RegMoveAnswers` takes them one by one. The
  invariant it needs is `Answering`: the operation under way has no answer, nor has one
  that was not handed out yet. That is why a result that comes late, from an operation that lost
  the entry, cannot answer a second time.

The assumption is `MemberAssumption`; that the callers are finite is what makes a count of
operations possible.

Every safety property that a passing run checks is proved, the refinements included. Only model-checked is all
liveness (`EventuallySettled`, `CancelEndsTheTurn`, `RestartGateOpens`, `QueueDrains`,
`WaitersAnswered`, `NoWorkIsStranded`), which under fairness is out of the prover's reach.

## Not modelled

* The run manager. It is one record behind a lock, but the coordinator publishes to it
  after its last step on a call, so each of the coordinator's actions would need a
  delayed second one, and a run of `TeamLoop` with that many pending publications is
  beyond its bounds. What can go wrong is listed as a hazard.
* Of the coordinator and the session: summaries and snapshots published after the unlock,
  prompt and projection text, and process restart (the coordinator is in memory; a
  restart begins with `Init` and the unread rows, which reconciliation picks up).
* Of the member runtime: the start of a whole session with its leader, the requests that
  decide when a tool refresh is due, the replacement of a session by a new one.
* Of the conversation runtime: turns an agent starts by itself, confirmations, stored
  settings, the one pass over turns left running by an earlier process
  (`startup_recovery.rs`, before the service opens), the rebuild of an agent whose
  capabilities changed, active leases.
* Of the queue: the rate limiter, which only refuses, and the listing of targets.
* Cron, authentication, realtime connections and the process registry: small tables with
  little concurrency of their own compared with the above.
* The session reducer, the agent protocols and managers, streaming, storage, the other
  services and the clients: data conversion, I/O and presentation. They are most of the
  repository's lines, and what they do is a matter for tests of values rather than of
  interleavings.

## Plan

What is left, most important first:

1. The run manager with delayed publication, in an instance of its own over a
   reduced coordinator: a run that is finished has no work left, and a finished run
   does not become active again.
2. `SessionQueue` over `ConversationTurn` instead of over what an attempt reads of it.
3. Cron: timers, run-now, and edits racing a firing job.
