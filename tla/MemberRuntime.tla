---------------------------- MODULE MemberRuntime ---------------------------
(***************************************************************************)
(* The runtime of one teammate in one team session: the registry that      *)
(* hands out attach and remove operations (member_runtime.rs), the attach  *)
(* task (session.rs), and the calls that reserve one -- a message to a     *)
(* dormant member, a directed retry, a reconciliation, a restart, a        *)
(* context reset, a removal, the stop of the session (service.rs).         *)
(*                                                                         *)
(* They meet in four places with a lock each: the registry's entry, the    *)
(* coordinator's runtime constraint, the registry of event loops and the   *)
(* task manager's agent.  Every use of one of them is an action.  A kill   *)
(* and a warm-up are one step each (AgentTasks has their own races), and   *)
(* so are the loop's registration and the constraint with the notification *)
(* that follows it.  Work is one message: queued, then claimed.            *)
(***************************************************************************)
EXTENDS Naturals, FiniteSets

CONSTANTS
  Callers,     \* callers, one call each
  Calls,       \* [caller -> the operations it may call]
  Faults,      \* what may fail
  MaxFaults    \* bound: failures, and agents that die by themselves

CallKinds  == {"send", "retry", "ensure", "restart", "refresh", "reset", "remove", "stop"}
\* The start of an agent, a call of the database, the agent itself.
FaultKinds == {"start", "db", "agent"}

ASSUME MemberAssumption ==
  /\ IsFiniteSet(Callers) /\ Calls \in [Callers -> SUBSET CallKinds]
  /\ Faults \subseteq FaultKinds /\ MaxFaults \in Nat

VARIABLES
  entry,      \* the registry's entry: its state and operation
  ops,        \* operations handed out so far
  answer,     \* [operation -> what its waiters are told]
  stopped,    \* the registry is stopped
  rt, gates,  \* the coordinator: runtime constraint, restart gates so far
  work,       \* "none", "queued" or "active"
  loop,       \* the member's event loop is registered, its handle running
  shut,       \* the registry of event loops is shut down
  permit,     \* the loop's Notify holds a permit
  looper,     \* the loop's program counter and the constraint it carries
  agent,      \* the agent's process: "none", "live"
  member,     \* the member is in the scheduler's roster
  published,  \* the session is the team's published one
  att,        \* [operation -> its attach task]
  call,       \* [caller -> its program counter and locals]
  faults,     \* failures so far
  leftover,   \* history: an attach escaped the removal it raced with
  abandoned,  \* history: operations whose owner returned without ending them
  loose,      \* history: somebody else opened the slot during a rebuild
  died        \* history: the agent died by itself since it was last started

reg   == <<entry, ops, answer, stopped>>
coord == <<rt, gates, work>>
loops == <<loop, shut, permit, looper>>
past  == <<leftover, abandoned, loose, died>>
vars  == <<reg, coord, loops, agent, member, published, att, call, faults, past>>

MaxOps  == Cardinality(Callers)
Ops     == 1..MaxOps
NoOp    == 0
States  == {"Absent", "Attaching", "Ready", "Failed", "Removing"}
Answers == {"none", "pending", "Ready", "Failed", "Removed", "Stopped"}
\* Constraints of the coordinator; "Gone" stands for SessionStopped.
Kinds   == {"Ready", "Starting", "Failed", "Removing", "Gone"}
AttPcs  == {"none", "wipe", "start", "kill", "warm", "spoil", "fail", "failed", "owns", "register",
            "commit", "ready", "publish", "stale", "late", "done"}
CallPcs == {"idle", "has", "wake", "get", "reserve", "read", "put", "enqueue", "await", "open", "gate", "peek", "lease",
            "rebuild", "loop", "kill", "persist", "restore", "again", "rekill", "roster", "finish",
            "coord", "reg", "shut", "done"}

Constraint(k, o) == [k |-> k, o |-> o]
Open   == Constraint("Ready", NoOp)
Starts(o) == Constraint("Starting", o)
Fails(o)  == Constraint("Failed", o)
RtRec  == [k : Kinds, o : 0..MaxOps]

AttRec  == [pc : AttPcs, bg : BOOLEAN, kills : BOOLEAN, mine : BOOLEAN]
NoAtt   == [pc |-> "none", bg |-> FALSE, kills |-> TRUE, mine |-> FALSE]
CallRec == [pc : CallPcs, kind : CallKinds, o : 0..MaxOps, gate : 0..MaxOps, rt : RtRec]
NoCall  == [pc |-> "idle", kind |-> "send", o |-> NoOp, gate |-> 0, rt |-> Open]

\* Types; and an event loop is registered exactly when its task runs.
MTypeOK ==
  /\ entry \in [st : States, o : 0..MaxOps] /\ ops \in 0..MaxOps
  /\ answer \in [Ops -> Answers] /\ rt \in RtRec /\ gates \in 0..MaxOps
  /\ work \in {"none", "queued", "active"}
  /\ looper \in [pc : {"none", "wait", "read", "put", "claim", "run"}, rt : RtRec]
  /\ agent \in {"none", "live"}
  /\ {stopped, loop, shut, permit, member, published, leftover, loose, died} \subseteq BOOLEAN
  /\ att \in [Ops -> AttRec] /\ call \in [Callers -> CallRec] /\ faults \in 0..MaxFaults
  /\ abandoned \subseteq Ops
  /\ loop <=> looper.pc # "none"

NoLooper == [pc |-> "none", rt |-> Open]

\* A teammate is dormant -- no entry, no loop, no agent -- or an earlier attach has made it ready.
Init ==
  /\ \/ entry = [st |-> "Absent", o |-> NoOp] /\ rt = Starts(NoOp) /\ loop = FALSE
        /\ looper = NoLooper /\ agent = "none"
     \/ entry = [st |-> "Ready", o |-> NoOp] /\ rt = Open /\ loop = TRUE
        /\ looper = [NoLooper EXCEPT !.pc = "wait"] /\ agent = "live"
  /\ ops = 0 /\ answer = [o \in Ops |-> "none"] /\ stopped = FALSE /\ gates = 0 /\ work = "none"
  /\ shut = FALSE /\ permit = FALSE /\ member = TRUE /\ published = TRUE
  /\ att = [o \in Ops |-> NoAtt] /\ call = [c \in Callers |-> NoCall]
  /\ faults = 0 /\ leftover = FALSE /\ abandoned = {} /\ loose = FALSE /\ died = FALSE

Fault(k) == k \in Faults /\ faults < MaxFaults /\ faults' = faults + 1
NoFault  == UNCHANGED faults

-----------------------------------------------------------------------------
(* The registry *)

EntryIs(st) == entry.st = st
NextOp      == ops + 1
Answered(o, a) == answer' = [answer EXCEPT ![o] = a]

\* A fresh operation becomes the entry; its waiters have no answer yet.
Hand(st) ==
  /\ entry' = [st |-> st, o |-> NextOp] /\ ops' = NextOp
  /\ UNCHANGED stopped

StartAttach == Hand("Attaching") /\ Answered(NextOp, "pending")

Owns(o) == ~stopped /\ EntryIs("Attaching") /\ entry.o = o

\* Mutant: any attach commits, whoever owns the entry.
CommitReadyAnyway(o) ==
  /\ entry' = [st |-> "Ready", o |-> NoOp] /\ Answered(o, "Ready") /\ UNCHANGED <<ops, stopped>>

CommitReady(o) ==
  /\ Owns(o)
  /\ entry' = [st |-> "Ready", o |-> NoOp] /\ Answered(o, "Ready") /\ UNCHANGED <<ops, stopped>>

CommitFailed(o) ==
  /\ Owns(o)
  /\ entry' = [st |-> "Failed", o |-> o] /\ Answered(o, "Failed") /\ UNCHANGED <<ops, stopped>>

\* Mutant: those who wait for the attach that a removal ends are forgotten.
BeginRemoveSilently ==
  Hand("Removing") /\ Answered(NextOp, "pending")

\* An attach under way loses the entry, and its waiters learn it.
BeginRemove ==
  /\ Hand("Removing")
  /\ answer' = [o \in Ops |-> IF EntryIs("Attaching") /\ o = entry.o THEN "Removed"
                              ELSE IF o = NextOp THEN "pending" ELSE answer[o]]

FinishRemove(o) ==
  IF ~stopped /\ EntryIs("Removing") /\ entry.o = o
  THEN entry' = [st |-> "Absent", o |-> NoOp] /\ Answered(o, "Removed") /\ UNCHANGED <<ops, stopped>>
  ELSE UNCHANGED reg

\* Mutant: whatever the entry is by now, the removal's failure becomes it.
RestoreAnyway(o) ==
  entry' = [st |-> "Failed", o |-> o] /\ Answered(o, "Failed") /\ UNCHANGED <<ops, stopped>>

\* restore_attach_required_after_remove_persist_error
RestoreAttach(o) ==
  IF ~stopped /\ EntryIs("Removing") /\ entry.o = o
  THEN entry' = [st |-> "Failed", o |-> o] /\ Answered(o, "Failed") /\ UNCHANGED <<ops, stopped>>
  ELSE UNCHANGED reg

StopRegistry ==
  /\ stopped' = TRUE /\ UNCHANGED ops
  /\ answer' = [o \in Ops |-> IF EntryIs("Attaching") \/ EntryIs("Removing")
                              THEN IF o = entry.o THEN "Stopped" ELSE answer[o] ELSE answer[o]]
  /\ entry' = [st |-> "Absent", o |-> NoOp]

\* The constraint that publish_runtime_constraint and the loop read off the registry.
Snapshot ==
  CASE stopped -> Constraint("Gone", NoOp)
    [] ~stopped /\ EntryIs("Absent") -> IF loop THEN Open ELSE Starts(NoOp)
    [] ~stopped /\ EntryIs("Attaching") -> Starts(entry.o)
    [] ~stopped /\ EntryIs("Ready") -> Open
    [] ~stopped /\ EntryIs("Failed") -> Fails(entry.o)
    [] ~stopped /\ EntryIs("Removing") -> Constraint("Removing", entry.o)

-----------------------------------------------------------------------------
(* The coordinator *)

Rebuilds == {"restart", "refresh", "reset"}

\* A rebuild is between its gate and its end.
Gated(c) == call[c].kind \in Rebuilds /\ call[c].pc \in {"peek", "lease", "rebuild"}

\* One other than that of operation o is.
Rebuilding(o) == \E c \in Callers : Gated(c) /\ (call[c].o = NoOp \/ call[c].o # o)

\* set_runtime_constraint on behalf of operation o; a failure takes the work of the slot away.
SetRt(r, o) ==
  /\ rt' = r /\ UNCHANGED gates
  /\ work' = IF r.k \in {"Failed", "Gone"} THEN "none" ELSE work
  /\ loose' = (loose \/ (r = Open /\ Rebuilding(o)))
  /\ UNCHANGED <<leftover, abandoned, died>>

-----------------------------------------------------------------------------
(* The attach task of an operation *)

AttAt(o, pc) == att[o].pc = pc
AttTo(o, pc) == att' = [att EXCEPT ![o].pc = pc]
Alive(o)     == att[o].pc \notin {"none", "done"}

Begun(o, bg, kills) ==
  att' = [att EXCEPT ![o] = [NoAtt EXCEPT !.pc = IF kills THEN "start" ELSE "wipe", !.bg = bg, !.kills = kills]]

Kill == agent' = "none" /\ died' = FALSE /\ UNCHANGED <<leftover, abandoned, loose>>

\* A context reset kills the agent and forgets its session before the attach.
AttWipe(o) ==
  /\ AttAt(o, "wipe") /\ Kill /\ AttTo(o, "start")
  /\ UNCHANGED <<reg, coord, loops, member, published, call, faults>>

AttStart(o) ==
  /\ AttAt(o, "start") /\ SetRt(Starts(o), o)
  /\ AttTo(o, IF att[o].kills THEN "kill" ELSE "warm")
  /\ UNCHANGED <<reg, loops, agent, member, published, call, faults>>

AttKill(o) ==
  /\ AttAt(o, "kill")
  /\ \/ Kill /\ AttTo(o, "warm") /\ NoFault
     \/ Fault("db") /\ AttTo(o, "spoil") /\ UNCHANGED <<agent, past>>
  /\ UNCHANGED <<reg, coord, loops, member, published, call>>

AttWarm(o) ==
  /\ AttAt(o, "warm")
  /\ \/ agent' = "live" /\ died' = FALSE /\ AttTo(o, "owns") /\ NoFault /\ UNCHANGED <<leftover, abandoned, loose>>
     \/ Fault("start") /\ AttTo(o, "spoil") /\ UNCHANGED <<agent, past>>
  /\ UNCHANGED <<reg, coord, loops, member, published, call>>

\* A failed attach cleans up before it says so.
AttSpoil(o) ==
  /\ AttAt(o, "spoil") /\ Kill /\ AttTo(o, "fail")
  /\ UNCHANGED <<reg, coord, loops, member, published, call, faults>>

AttFail(o) ==
  /\ AttAt(o, "fail")
  /\ \/ CommitFailed(o) /\ AttTo(o, "failed")
     \/ ~Owns(o) /\ AttTo(o, "done") /\ UNCHANGED reg
  /\ UNCHANGED <<coord, loops, agent, member, published, call, faults, past>>

AttFailed(o) ==
  /\ AttAt(o, "failed") /\ SetRt(Fails(o), o) /\ AttTo(o, "done")
  /\ UNCHANGED <<reg, loops, agent, member, published, call, faults>>

AttOwns(o) ==
  /\ AttAt(o, "owns")
  /\ AttTo(o, IF Owns(o) THEN "register" ELSE "stale")
  /\ UNCHANGED <<reg, coord, loops, agent, member, published, call, faults, past>>

\* A loop that is there already is kept; a registry that is shut down fails the attach, whose
\* lease has ended with the session by then.
AttRegister(o) ==
  /\ AttAt(o, "register")
  /\ IF loop \/ ~shut
     THEN /\ att' = [att EXCEPT ![o].pc = "commit", ![o].mine = ~loop]
          /\ loop' = TRUE /\ UNCHANGED <<shut, permit>>
          /\ looper' = IF loop THEN looper ELSE [NoLooper EXCEPT !.pc = "wait"]
          /\ UNCHANGED <<agent, past>>
     ELSE Kill /\ AttTo(o, "failed") /\ UNCHANGED loops
  /\ UNCHANGED <<reg, coord, member, published, call, faults>>

\* Mutant: the loop is taken off the registry but its task goes on.
ForgetLoop == loop' = FALSE /\ permit' = FALSE /\ UNCHANGED <<shut, looper>>

RemoveLoop == loop' = FALSE /\ looper' = NoLooper /\ permit' = FALSE /\ UNCHANGED shut

\* An attach that lost its entry takes back the loop it registered, and kills the agent.
AttCommit(o) ==
  /\ AttAt(o, "commit")
  /\ \/ CommitReady(o) /\ AttTo(o, "ready") /\ UNCHANGED loops
     \/ /\ ~Owns(o) /\ AttTo(o, "stale") /\ UNCHANGED reg
        /\ IF att[o].mine THEN RemoveLoop ELSE UNCHANGED loops
  /\ UNCHANGED <<coord, agent, member, published, call, faults, past>>

Notified == permit' = loop /\ UNCHANGED <<loop, shut, looper>>

\* Mutant: the loop is not told that the member is ready.
AttReadyUntold(o) ==
  /\ AttAt(o, "ready") /\ SetRt(Open, o) /\ UNCHANGED loops /\ AttTo(o, "publish")
  /\ UNCHANGED <<reg, agent, member, published, call, faults>>

AttReady(o) ==
  /\ AttAt(o, "ready") /\ SetRt(Open, o) /\ Notified /\ AttTo(o, "publish")
  /\ UNCHANGED <<reg, agent, member, published, call, faults>>

AttPublish(o) ==
  /\ AttAt(o, "publish")
  /\ IF published
     THEN AttTo(o, IF att[o].bg THEN "late" ELSE "done") /\ UNCHANGED loops
     ELSE AttTo(o, "stale") /\ (IF att[o].mine THEN RemoveLoop ELSE UNCHANGED loops)
  /\ UNCHANGED <<reg, coord, agent, member, published, call, faults, past>>

\* Mutant: a stale attach leaves the agent it started.
AttStaleLeft(o) ==
  /\ AttAt(o, "stale") /\ AttTo(o, "done")
  /\ UNCHANGED <<reg, coord, loops, agent, member, published, call, faults, past>>

\* cleanup_stale_attach
AttStale(o) ==
  /\ AttAt(o, "stale") /\ Kill /\ AttTo(o, "done")
  /\ UNCHANGED <<reg, coord, loops, member, published, call, faults>>

\* An attach in the background says Ready once more when it is over.
AttLate(o) ==
  /\ AttAt(o, "late") /\ AttTo(o, "done")
  /\ IF published THEN SetRt(Open, NoOp) /\ Notified ELSE UNCHANGED <<coord, loops, past>>
  /\ UNCHANGED <<reg, agent, member, published, call, faults>>

AttachStep(o) ==
  \/ AttWipe(o) \/ AttStart(o) \/ AttKill(o) \/ AttWarm(o) \/ AttSpoil(o) \/ AttFail(o)
  \/ AttFailed(o) \/ AttOwns(o) \/ AttRegister(o) \/ AttCommit(o) \/ AttReady(o)
  \/ AttPublish(o) \/ AttStale(o) \/ AttLate(o)

-----------------------------------------------------------------------------
(* The calls *)

At(c, pc)    == call[c].pc = pc
To(c, pc)    == call' = [call EXCEPT ![c].pc = pc]
Comes(c, k) == At(c, "idle") /\ k \in Calls[c] /\ published /\ member
Enter(c, k, pc)  == call' = [call EXCEPT ![c].kind = k, ![c].pc = pc]
Hold(c, k, pc, o) == call' = [call EXCEPT ![c].kind = k, ![c].pc = pc, ![c].o = o]
Runs(c, kinds, pc) == At(c, pc) /\ call[c].kind \in kinds

outside == <<member, published>>

\* Mutant: an attach under way does not keep others from reserving one.
ReservableTwice(retry) == ~stopped /\ (entry.st \in {"Absent", "Attaching"} \/ (retry /\ EntryIs("Failed")))

\* reserve_attach: what a caller gets, by the entry it meets.
Reservable(retry) == ~stopped /\ (EntryIs("Absent") \/ (retry /\ EntryIs("Failed")))
Joinable == ~stopped /\ (EntryIs("Attaching") \/ EntryIs("Removing"))

SendLook(c) ==
  /\ Comes(c, "send") /\ Enter(c, "send", "has")
  /\ UNCHANGED <<reg, coord, loops, agent, outside, att, faults, past>>

\* A message to a member without a loop wakes it: ensure_member_runtime_lazy.
SendHas(c) ==
  /\ Runs(c, {"send"}, "has") /\ To(c, IF loop \/ ~published THEN "read" ELSE "wake")
  /\ UNCHANGED <<reg, coord, loops, agent, outside, att, faults, past>>

SendWake(c) ==
  /\ Runs(c, {"send"}, "wake")
  /\ \/ Reservable(FALSE) /\ StartAttach /\ Hold(c, "send", "get", NextOp)
     \/ ~Reservable(FALSE) /\ To(c, "read") /\ UNCHANGED reg
  /\ UNCHANGED <<coord, loops, agent, outside, att, faults, past>>

\* get_agent fails for a member removed meanwhile, and its lease is left behind.
SendGet(c) ==
  /\ Runs(c, {"send"}, "get")
  /\ \/ member /\ Begun(call[c].o, TRUE, TRUE) /\ To(c, "read") /\ UNCHANGED abandoned
     \/ ~member /\ To(c, "done") /\ abandoned' = abandoned \cup {call[c].o} /\ UNCHANGED att
  /\ UNCHANGED <<reg, coord, loops, agent, outside, faults, leftover, loose, died>>

\* publish_runtime_constraint reads the registry, then writes to the coordinator.
SendRead(c) ==
  /\ Runs(c, {"send"}, "read")
  /\ call' = [call EXCEPT ![c].pc = "put", ![c].rt = Snapshot]
  /\ UNCHANGED <<reg, coord, loops, agent, outside, att, faults, past>>

SendPut(c) ==
  /\ Runs(c, {"send"}, "put") /\ SetRt(call[c].rt, NoOp) /\ To(c, "enqueue")
  /\ UNCHANGED <<reg, loops, agent, outside, att, faults>>

\* acquire_enqueue turns down a slot that failed, is being removed or has stopped.
SendEnqueue(c) ==
  /\ Runs(c, {"send"}, "enqueue") /\ To(c, "done")
  /\ IF member /\ rt.k \in {"Ready", "Starting"}
     THEN work' = (IF work = "none" THEN "queued" ELSE work) /\ Notified /\ UNCHANGED <<rt, gates>>
     ELSE UNCHANGED <<coord, loops>>
  /\ UNCHANGED <<reg, agent, outside, att, faults, past>>

\* attach_agent_runtime looks the member up in the roster, then reserves with another lock; the
\* reconciliation that comes before is a call of its own, "ensure".
RetryLook(c) ==
  /\ Comes(c, "retry") /\ Enter(c, "retry", "reserve")
  /\ UNCHANGED <<reg, coord, loops, agent, outside, att, faults, past>>

\* A member removed between the two is attached all the same.
RetryReserve(c) ==
  /\ Runs(c, {"retry"}, "reserve")
  /\ \/ /\ Reservable(TRUE) /\ StartAttach /\ Begun(NextOp, TRUE, TRUE)
        /\ Hold(c, "retry", "done", NextOp) /\ leftover' = (leftover \/ ~member)
     \/ Joinable /\ Hold(c, "retry", "await", entry.o) /\ UNCHANGED <<reg, att, leftover>>
     \/ /\ ~Reservable(TRUE) /\ ~Joinable /\ To(c, IF stopped THEN "done" ELSE "open")
        /\ UNCHANGED <<reg, att, leftover>>
  /\ UNCHANGED <<coord, loops, agent, outside, faults, abandoned, loose, died>>

\* reserve_member_runtime_reconciliation: a ready member whose agent is gone is repaired.
Ensure(c) ==
  /\ Comes(c, "ensure") /\ ~stopped /\ ~EntryIs("Absent")
  /\ \/ /\ (EntryIs("Failed") \/ (EntryIs("Ready") /\ agent = "none"))
        /\ StartAttach /\ Begun(NextOp, FALSE, TRUE) /\ Hold(c, "ensure", "await", NextOp)
     \/ Joinable /\ Hold(c, "ensure", "await", entry.o) /\ UNCHANGED <<reg, att>>
  /\ UNCHANGED <<coord, loops, agent, outside, faults, past>>

\* A waiter learns how the operation ended.
Await(c) ==
  /\ At(c, "await") /\ answer[call[c].o] # "pending"
  /\ To(c, IF call[c].kind = "retry" /\ answer[call[c].o] = "Ready" THEN "open" ELSE "done")
  /\ UNCHANGED <<reg, coord, loops, agent, outside, att, faults, past>>

\* The tail of spawn_attach_agent_process_bg.
RetryOpen(c) ==
  /\ At(c, "open") /\ To(c, "done")
  /\ IF published THEN SetRt(Open, NoOp) /\ Notified ELSE UNCHANGED <<coord, loops, past>>
  /\ UNCHANGED <<reg, agent, outside, att, faults>>

\* Only a refresh of the tools takes a member that is not ready.
RebuildLook(c, k) ==
  /\ Comes(c, k) /\ k \in Rebuilds
  /\ k = "refresh" \/ (~stopped /\ EntryIs("Ready"))
  /\ Enter(c, k, "gate")
  /\ UNCHANGED <<reg, coord, loops, agent, outside, att, faults, past>>

\* Mutant: queued work stops a rebuild, a running batch does not.
IdleQueue(k) == k = "refresh" \/ work # "queued"

\* Only a refresh tolerates queued work.
Idle(k) == work = "none" \/ (k = "refresh" /\ work = "queued")

\* begin_runtime_restart: the check and the gate share the coordinator's lock.
RebuildGate(c) ==
  /\ Runs(c, Rebuilds, "gate")
  /\ IF Idle(call[c].kind) /\ rt.k \notin {"Removing", "Gone"}
     THEN /\ call' = [call EXCEPT ![c].pc = IF call[c].kind = "reset" THEN "peek" ELSE "lease",
                                  ![c].gate = gates + 1, ![c].rt = rt]
          /\ rt' = Starts(gates + 1) /\ gates' = gates + 1 /\ UNCHANGED work
     ELSE To(c, "done") /\ UNCHANGED coord
  /\ UNCHANGED <<reg, loops, agent, outside, att, faults, past>>

\* abort_runtime_restart: the gate's own constraint is taken back, any other is left.  A gate's
\* number and an operation's come from different counters, and may be equal.
AbortGate(c) ==
  IF rt = Starts(call[c].gate)
  THEN /\ rt' = call[c].rt /\ UNCHANGED <<gates, work>>
       /\ loose' = (loose \/ \E d \in Callers \ {c} : Gated(d))
  ELSE UNCHANGED <<coord, loose>>

\* A context reset reads the mailbox with the gate closed and nothing reserved.
RebuildPeek(c) ==
  /\ Runs(c, {"reset"}, "peek")
  /\ \/ To(c, "lease") /\ NoFault /\ UNCHANGED <<coord, loose>>
     \/ Fault("db") /\ AbortGate(c) /\ To(c, "done")
  /\ UNCHANGED <<reg, loops, agent, outside, att, leftover, abandoned, died>>

\* reserve_restart
RebuildLease(c) ==
  /\ Runs(c, Rebuilds, "lease")
  /\ IF ~stopped /\ entry.st \in {"Absent", "Ready", "Failed"}
     THEN /\ StartAttach /\ Begun(NextOp, FALSE, call[c].kind # "reset")
          /\ Hold(c, call[c].kind, "rebuild", NextOp) /\ UNCHANGED <<coord, loose>>
          /\ leftover' = (leftover \/ ~member)
     ELSE AbortGate(c) /\ To(c, "done") /\ UNCHANGED <<reg, att, leftover>>
  /\ UNCHANGED <<loops, agent, outside, faults, abandoned, died>>

RebuildEnd(c) ==
  /\ At(c, "rebuild") /\ att[call[c].o].pc = "done" /\ answer[call[c].o] # "pending" /\ To(c, "done")
  /\ UNCHANGED <<reg, coord, loops, agent, outside, att, faults, past>>

\* remove_agent: without an entry there is no lease, and the removal goes on all the same.
RemoveBegin(c) ==
  /\ Comes(c, "remove")
  /\ \/ /\ ~stopped /\ entry.st \in {"Attaching", "Ready", "Failed"} /\ BeginRemove
        /\ Hold(c, "remove", "loop", NextOp)
     \/ ~stopped /\ EntryIs("Removing") /\ Hold(c, "remove", "await", entry.o) /\ UNCHANGED reg
     \/ (stopped \/ EntryIs("Absent")) /\ Enter(c, "remove", "loop") /\ UNCHANGED reg
  /\ UNCHANGED <<coord, loops, agent, outside, att, faults, past>>

RemoveLoops(c) ==
  /\ At(c, "loop") \/ At(c, "again")
  /\ RemoveLoop /\ To(c, IF At(c, "loop") THEN "kill" ELSE "rekill")
  /\ UNCHANGED <<reg, coord, agent, outside, att, faults, past>>

RemoveKill(c) ==
  /\ At(c, "kill") \/ At(c, "rekill")
  /\ Kill /\ To(c, IF At(c, "kill") THEN "persist" ELSE "roster")
  /\ UNCHANGED <<reg, coord, loops, outside, att, faults>>

\* An attach that no lease of this removal has ended is under way or done.
Unleased(c) ==
  \/ \E o \in Ops : Alive(o)
  \/ \E d \in Callers : At(d, "get")
  \/ call[c].o = NoOp /\ ~EntryIs("Absent")

\* The roster is read and saved; without a published session the removal ends here.  A roster that
\* cannot be read ends it too, and then nobody restores the entry.
RemovePersist(c) ==
  /\ Runs(c, {"remove"}, "persist")
  /\ \/ NoFault /\ To(c, IF published THEN "again" ELSE "done") /\ UNCHANGED past
     \/ /\ Fault("db") /\ To(c, IF call[c].o = NoOp THEN "done" ELSE "restore")
        /\ leftover' = (leftover \/ Unleased(c)) /\ UNCHANGED <<abandoned, loose, died>>
     \/ /\ call[c].o # NoOp /\ Fault("db") /\ To(c, "done")
        /\ abandoned' = abandoned \cup {call[c].o} /\ UNCHANGED <<leftover, loose, died>>
  /\ UNCHANGED <<reg, coord, loops, agent, outside, att>>

RemoveRestore(c) ==
  /\ At(c, "restore") /\ RestoreAttach(call[c].o) /\ To(c, "done")
  /\ UNCHANGED <<coord, loops, agent, outside, att, faults, past>>

RemoveRoster(c) ==
  /\ At(c, "roster") /\ member' = FALSE
  /\ leftover' = (leftover \/ (call[c].o = NoOp /\ Unleased(c))) /\ UNCHANGED <<abandoned, loose, died>>
  /\ To(c, IF call[c].o = NoOp THEN "done" ELSE "finish")
  /\ UNCHANGED <<reg, coord, loops, agent, published, att, faults>>

RemoveFinish(c) ==
  /\ At(c, "finish") /\ FinishRemove(call[c].o) /\ To(c, "done")
  /\ UNCHANGED <<coord, loops, agent, outside, att, faults, past>>

\* stop_session_unchecked: unpublished first, then one part after the other.
StopBegin(c) ==
  /\ Comes(c, "stop") /\ published' = FALSE /\ Enter(c, "stop", "coord")
  /\ UNCHANGED <<reg, coord, loops, agent, member, att, faults, past>>

StopCoord(c) ==
  /\ At(c, "coord") /\ SetRt(Constraint("Gone", NoOp), NoOp) /\ To(c, "reg")
  /\ UNCHANGED <<reg, loops, agent, outside, att, faults>>

StopReg(c) ==
  /\ At(c, "reg") /\ StopRegistry /\ To(c, "shut")
  /\ UNCHANGED <<coord, loops, agent, outside, att, faults, past>>

StopLoops(c) ==
  /\ At(c, "shut") /\ shut' = TRUE /\ loop' = FALSE /\ permit' = FALSE /\ looper' = NoLooper
  /\ To(c, "done")
  /\ UNCHANGED <<reg, coord, agent, outside, att, faults, past>>

CallStep(c) ==
  \/ SendHas(c) \/ SendWake(c) \/ SendGet(c) \/ SendRead(c) \/ SendPut(c) \/ SendEnqueue(c)
  \/ RetryReserve(c) \/ Await(c) \/ RetryOpen(c)
  \/ RebuildGate(c) \/ RebuildPeek(c) \/ RebuildLease(c) \/ RebuildEnd(c)
  \/ RemoveLoops(c) \/ RemoveKill(c) \/ RemovePersist(c) \/ RemoveRestore(c)
  \/ RemoveRoster(c) \/ RemoveFinish(c) \/ StopCoord(c) \/ StopReg(c) \/ StopLoops(c)

CallBegin(c) ==
  \/ SendLook(c) \/ RetryLook(c) \/ Ensure(c) \/ RemoveBegin(c) \/ StopBegin(c)
  \/ \E k \in Rebuilds : RebuildLook(c, k)

-----------------------------------------------------------------------------
(* The event loop, and the agent *)

\* prepare_next_batch copies the registry's state to the coordinator, then claims.
LoopRead ==
  /\ \/ looper.pc = "wait" /\ permit /\ permit' = FALSE
     \/ looper.pc = "read" /\ UNCHANGED permit
  /\ looper' = [pc |-> "put", rt |-> Snapshot]
  /\ UNCHANGED <<reg, coord, loop, shut, agent, outside, att, call, faults, past>>

LoopPut ==
  /\ looper.pc = "put" /\ SetRt(looper.rt, NoOp) /\ looper' = [pc |-> "claim", rt |-> Open]
  /\ UNCHANGED <<reg, loop, shut, permit, agent, outside, att, call, faults>>

LoopClaim ==
  /\ looper.pc = "claim" /\ UNCHANGED <<rt, gates>>
  /\ IF work = "queued" /\ rt = Open
     THEN work' = "active" /\ looper' = [looper EXCEPT !.pc = "run"]
     ELSE UNCHANGED work /\ looper' = [looper EXCEPT !.pc = "wait"]
  /\ UNCHANGED <<reg, loop, shut, permit, agent, outside, att, call, faults, past>>

\* The turn ends and the loop drains on.
LoopDone ==
  /\ looper.pc = "run" /\ work' = (IF work = "active" THEN "none" ELSE work)
  /\ looper' = [looper EXCEPT !.pc = "read"] /\ UNCHANGED <<rt, gates>>
  /\ UNCHANGED <<reg, loop, shut, permit, agent, outside, att, call, faults, past>>

LoopStep == LoopRead \/ LoopPut \/ LoopClaim \/ LoopDone

AgentDies ==
  /\ agent = "live" /\ Fault("agent") /\ agent' = "none" /\ died' = TRUE
  /\ UNCHANGED <<reg, coord, loops, outside, att, call, leftover, abandoned, loose>>

Next ==
  \/ \E c \in Callers : CallBegin(c) \/ CallStep(c)
  \/ \E o \in Ops : AttachStep(o)
  \/ LoopStep \/ AgentDies

Spec == Init /\ [][Next]_vars

\* Tasks and threads under way go on; nobody is obliged to call.
FairSpec ==
  /\ Spec
  /\ \A c \in Callers : WF_vars(CallStep(c))
  /\ \A o \in Ops : WF_vars(AttachStep(o))
  /\ WF_vars(LoopStep)

-----------------------------------------------------------------------------
(* Properties *)

Quiet == (\A o \in Ops : ~Alive(o)) /\ (\A c \in Callers : call[c].pc \in {"idle", "done", "await"})

\* When nothing is under way, a member the registry calls Ready has its event loop and its agent
\* (unless the agent died since): no attach that lost its entry has taken them from the attach that
\* won it.  commit_ready, cleanup_stale_attach and remove_agent decide this together, one lock each.
ReadyMemberIsServed ==
  Quiet /\ member /\ published /\ ~leftover /\ EntryIs("Ready") => loop /\ (agent = "live" \/ died)

\* When nothing is under way, a member that was removed has neither an agent nor an event loop left:
\* remove_agent kills with no lock held, and an attach in flight may bring both back behind it.
RemovedMemberIsGone ==
  Quiet /\ published /\ ~member /\ ~leftover => agent = "none" /\ ~loop

\* The registry keeps what Reservations promises: an operation that another took the place of, or that
\* outlived the session, can no longer answer, and nobody who waits is told twice or told by the wrong
\* operation (commit_ready, begin_remove, finish_remove, stop; the senders of the entries).
Promised == INSTANCE Reservations WITH
  handed  <- ops,
  running <- [kind |-> CASE EntryIs("Attaching") -> "attach" [] EntryIs("Removing") -> "remove" [] OTHER -> "none",
              o    |-> IF entry.st \in {"Attaching", "Removing"} THEN entry.o ELSE NoOp],
  told    <- [o \in Ops |-> IF answer[o] \in {"none", "pending"} THEN "open" ELSE answer[o]],
  closed  <- stopped
KeepsReservations == Promised!ResSpec

\* At most one attach works on the member's agent and loop, whatever removals come and go: the entry
\* admits one (reserve_attach, reserve_restart, reserve_repair), and whoever loses it to a removal
\* that is then taken back has stopped by then, or is a named exception.
Working == {"wipe", "start", "kill", "warm", "spoil", "fail", "owns", "register", "commit", "stale"}
OneAttachAtATime ==
  member /\ published /\ ~leftover
  => \A o, p \in Ops : att[o].pc \in Working /\ att[p].pc \in Working => o = p

\* "Either an existing batch wins and the restart is rejected, or the restart gate wins and no new
\* batch can be claimed" (begin_runtime_restart): a rebuild never kills the agent under a batch,
\* unless a constraint read earlier, or another rebuild's gate taken back, opened the slot again.
RebuildSparesTheBatch ==
  \A c \in Callers :
    At(c, "rebuild") /\ att[call[c].o].pc \in {"wipe", "start", "kill"} /\ ~loose => work # "active"

\* Whoever waits for an attach or a removal is answered in the end, however many operations take the
\* entry from each other (AttachWaiter::wait has no timeout).  Two exits leave an operation behind
\* that nobody ends while the session lives, and they are the exception: a message whose member is
\* removed between its lease and get_agent, and a removal that cannot read the roster.
WaitersAnswered ==
  \A o \in Ops : answer[o] = "pending" ~> (answer[o] # "pending" \/ o \in abandoned)

\* Work queued for a member does not stay queued for good while the member is Ready: a gate taken
\* back, a stale constraint and a lost notification are all made good by a later one.
NoWorkIsStranded ==
  []<>~(work = "queued" /\ EntryIs("Ready") /\ member /\ published /\ ~leftover)
=============================================================================
