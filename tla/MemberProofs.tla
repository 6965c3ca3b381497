---------------------------- MODULE MemberProofs ----------------------------
(***************************************************************************)
(* Theorems about the runtime of a teammate, for any number of callers     *)
(* with any operations, and any number of failures.                        *)
(***************************************************************************)
EXTENDS MemberRuntime, FiniteSetTheorems, TLAPS

-----------------------------------------------------------------------------
(* Operations and gates are handed out once *)

Numbered  == {c \in Callers : call[c].o # NoOp}
GateKept  == {c \in Callers : call[c].gate # 0}
Early     == {"has", "wake", "reserve"}
Unhanded  == {"idle", "gate", "peek", "lease"} \cup Early
Ungated   == {"idle", "gate"}
Rebuilder == {"gate", "peek", "lease", "rebuild"}
Owning    == {"get", "rebuild"}

\* What a caller's program counter says of the numbers it holds.
Fits(r) ==
  /\ r.pc \in Unhanded => r.o = NoOp
  /\ r.pc \in Ungated => r.gate = 0
  /\ r.pc \in Rebuilder => r.kind \in Rebuilds
  /\ r.pc \in Owning => r.o \in Ops

\* No more operations and gates than callers that have one, and none known before it is handed out.
Numbers ==
  /\ \A c \in Callers : Fits(call[c]) /\ call[c].o <= ops
  /\ entry.o <= ops
  /\ ops <= Cardinality(Numbered) /\ gates <= Cardinality(GateKept)

\* The operations of a registry are as many as its callers.
LEMMA OpsAreFinite == MaxOps \in Nat /\ IsFiniteSet(Callers)
BY MemberAssumption, FS_CardinalityType DEF MaxOps

\* A set of callers has a size, at most theirs, and a larger one if it gains a caller.
LEMMA CallerSets ==
  ASSUME NEW S \in SUBSET Callers, NEW T \in SUBSET Callers, S \subseteq T
  PROVE  /\ Cardinality(S) \in Nat /\ Cardinality(T) \in Nat
         /\ Cardinality(S) <= Cardinality(T) /\ Cardinality(T) <= MaxOps
         /\ \A c \in T \ S : Cardinality(S) + 1 <= Cardinality(T)
<1>1. IsFiniteSet(T) /\ Cardinality(T) <= MaxOps
  BY OpsAreFinite, FS_Subset DEF MaxOps
<1>2. IsFiniteSet(S) /\ Cardinality(S) <= Cardinality(T)
  BY <1>1, FS_Subset
<1>3. Cardinality(S) \in Nat /\ Cardinality(T) \in Nat
  BY <1>1, <1>2, FS_CardinalityType
<1>4. ASSUME NEW c \in T \ S
      PROVE  Cardinality(S) + 1 <= Cardinality(T)
  <2>1. Cardinality(S \cup {c}) = Cardinality(S) + 1
    BY <1>2, <1>4, FS_AddElement
  <2>2. Cardinality(S \cup {c}) <= Cardinality(T)
    BY <1>1, <1>4, FS_Subset
  <2> QED BY <2>1, <2>2
<1> QED BY <1>1, <1>2, <1>3, <1>4

\* A call that takes what is new, and keeps what it had, keeps the account.
LEMMA CallCounts ==
  ASSUME MTypeOK, Numbers, NEW c \in Callers, NEW r \in CallRec,
         call' = [call EXCEPT ![c] = r], Fits(r), r.o <= ops', entry'.o <= ops',
         r.o = NoOp => call[c].o = NoOp, r.gate = 0 => call[c].gate = 0,
         ops' = ops \/ (ops' = ops + 1 /\ call[c].o = NoOp /\ r.o # NoOp),
         gates' = gates \/ (gates' = gates + 1 /\ call[c].gate = 0 /\ r.gate # 0)
  PROVE  Numbers' /\ ops' \in 0..MaxOps /\ gates' \in 0..MaxOps /\ call' \in [Callers -> CallRec]
<1>1. call \in [Callers -> CallRec] /\ ops \in 0..MaxOps /\ gates \in 0..MaxOps /\ MaxOps \in Nat
  BY OpsAreFinite DEF MTypeOK
<1>2. call' \in [Callers -> CallRec] /\ call'[c] = r /\ \A d \in Callers \ {c} : call'[d] = call[d]
  BY <1>1
<1>3. Numbered \subseteq Numbered' /\ Numbered' \subseteq Callers
  BY <1>2 DEF Numbered
<1>4. GateKept \subseteq GateKept' /\ GateKept' \subseteq Callers
  BY <1>2 DEF GateKept
<1>5. ops' <= Cardinality(Numbered') /\ ops' \in 0..MaxOps
  <2>1. ops <= Cardinality(Numbered)
    BY DEF Numbers
  <2>2. ops' = ops \/ (ops' = ops + 1 /\ c \in Numbered' \ Numbered)
    BY <1>2 DEF Numbered
  <2> HIDE DEF Numbered
  <2>3. Numbered \in SUBSET Callers /\ Numbered' \in SUBSET Callers
    BY <1>3
  <2> QED BY <1>1, <1>3, <2>1, <2>2, <2>3, CallerSets
<1>6. gates' <= Cardinality(GateKept') /\ gates' \in 0..MaxOps
  <2>1. gates <= Cardinality(GateKept)
    BY DEF Numbers
  <2>2. gates' = gates \/ (gates' = gates + 1 /\ c \in GateKept' \ GateKept)
    BY <1>2 DEF GateKept
  <2>3. GateKept \in SUBSET Callers /\ GateKept' \in SUBSET Callers
    BY <1>4
  <2> QED BY <1>1, <1>4, <2>1, <2>2, <2>3, CallerSets
<1>7. \A d \in Callers : Fits(call'[d]) /\ call'[d].o <= ops'
  <2>1. \A d \in Callers : Fits(call[d]) /\ call[d].o <= ops /\ call[d].o \in 0..MaxOps
    BY <1>1 DEF Numbers, CallRec
  <2>2. ops <= ops'
    BY <1>1
  <2> QED BY <1>1, <1>2, <1>5, <2>1, <2>2
<1>8. \A d \in Callers : Fits(call[d])'
  BY <1>7 DEF Fits
<1> QED BY <1>2, <1>5, <1>6, <1>7, <1>8 DEF Numbers

\* A caller without an operation finds one left.
LEMMA NextOpFits ==
  ASSUME MTypeOK, Numbers, NEW c \in Callers, call[c].o = NoOp
  PROVE  NextOp \in Ops /\ NextOp \notin {NoOp, ops, entry.o} /\ \A d \in Callers : call[d].o # NextOp
<1>1. ops \in 0..MaxOps /\ MaxOps \in Nat /\ entry.o \in 0..MaxOps /\ \A d \in Callers : call[d].o \in 0..MaxOps
  BY OpsAreFinite DEF MTypeOK, CallRec
<1>2. Numbered \in SUBSET Callers /\ c \in Callers \ Numbered /\ Callers \in SUBSET Callers
  BY DEF Numbered
<1>3. Cardinality(Numbered) + 1 <= Cardinality(Callers) /\ Cardinality(Numbered) \in Nat
  BY <1>2, CallerSets
<1>4. ops <= Cardinality(Numbered) /\ entry.o <= ops /\ \A d \in Callers : call[d].o <= ops
  BY DEF Numbers
<1> QED BY <1>1, <1>3, <1>4 DEF NextOp, Ops, MaxOps, NoOp

\* And one without a gate, a gate.
LEMMA NextGateFits ==
  ASSUME MTypeOK, Numbers, NEW c \in Callers, call[c].gate = 0
  PROVE  gates + 1 \in 0..MaxOps
<1>1. gates \in 0..MaxOps /\ MaxOps \in Nat
  BY OpsAreFinite DEF MTypeOK
<1>2. GateKept \in SUBSET Callers /\ c \in Callers \ GateKept /\ Callers \in SUBSET Callers
  BY DEF GateKept
<1>3. Cardinality(GateKept) + 1 <= Cardinality(Callers) /\ Cardinality(GateKept) \in Nat
  BY <1>2, CallerSets
<1>4. gates <= Cardinality(GateKept)
  BY DEF Numbers
<1> QED BY <1>1, <1>3, <1>4 DEF MaxOps

\* What the account asks of a step.
Counted == Numbers' /\ ops' \in 0..MaxOps /\ gates' \in 0..MaxOps /\ call' \in [Callers -> CallRec]

\* Program counters that say nothing of numbers.
Plain == CallPcs \ (Unhanded \cup Owning)

\* A call that goes on with the numbers it has keeps the account.
LEMMA GoesOnCounts ==
  ASSUME MTypeOK, Numbers, NEW c \in Callers, NEW pc \in Plain \cup Early,
         pc \in Early => call[c].o = NoOp,
         \/ To(c, pc)
         \/ \E k \in CallKinds : Enter(c, k, pc)
         \/ \E q \in RtRec : call' = [call EXCEPT ![c].pc = pc, ![c].rt = q],
         UNCHANGED <<ops, gates>>, entry'.o <= ops
  PROVE  Counted
<1>1. call \in [Callers -> CallRec] /\ call[c] \in CallRec /\ call[c].o <= ops
  BY DEF MTypeOK, Numbers
<1>2. /\ pc \in CallPcs /\ pc \notin Owning /\ pc \notin Ungated /\ pc \notin Rebuilder
      /\ pc \in Unhanded => call[c].o = NoOp
  BY DEF Plain, Early, Unhanded, Owning, Ungated, Rebuilder, CallPcs
<1>3. ASSUME NEW r \in CallRec, r.pc = pc, r.o = call[c].o, r.gate = call[c].gate,
             call' = [call EXCEPT ![c] = r]
      PROVE  Counted
  <2>1. Fits(r)
    BY <1>2, <1>3 DEF Fits
  <2> QED BY <1>1, <1>3, <2>1, CallCounts DEF Counted
<1>4. CASE To(c, pc)
  <2> DEFINE r == [call[c] EXCEPT !.pc = pc]
  <2>1. call' = [call EXCEPT ![c] = r]
    BY <1>1, <1>4 DEF To
  <2>2. r \in CallRec /\ r.pc = pc /\ r.o = call[c].o /\ r.gate = call[c].gate
    BY <1>1, <1>2 DEF CallRec
  <2> HIDE DEF r
  <2> QED BY <1>3, <2>1, <2>2
<1>5. CASE \E k \in CallKinds : Enter(c, k, pc)
  <2>0. PICK k \in CallKinds : Enter(c, k, pc)
    BY <1>5
  <2> DEFINE r == [call[c] EXCEPT !.kind = k, !.pc = pc]
  <2>1. call' = [call EXCEPT ![c] = r]
    BY <1>1, <2>0 DEF Enter
  <2>2. r \in CallRec /\ r.pc = pc /\ r.o = call[c].o /\ r.gate = call[c].gate
    BY <1>1, <1>2 DEF CallRec
  <2> HIDE DEF r
  <2> QED BY <1>3, <2>1, <2>2
<1>6. CASE \E q \in RtRec : call' = [call EXCEPT ![c].pc = pc, ![c].rt = q]
  <2>0. PICK q \in RtRec : call' = [call EXCEPT ![c].pc = pc, ![c].rt = q]
    BY <1>6
  <2> DEFINE r == [call[c] EXCEPT !.pc = pc, !.rt = q]
  <2>1. call' = [call EXCEPT ![c] = r]
    BY <1>1, <2>0
  <2>2. r \in CallRec /\ r.pc = pc /\ r.o = call[c].o /\ r.gate = call[c].gate
    BY <1>1, <1>2 DEF CallRec
  <2> HIDE DEF r
  <2> QED BY <1>3, <2>1, <2>2
<1> QED BY <1>4, <1>5, <1>6

\* So does one that takes the next operation, or joins the one of the entry.
LEMMA HoldCounts ==
  ASSUME MTypeOK, Numbers, NEW c \in Callers, call[c].o = NoOp,
         NEW k \in CallKinds, NEW pc \in CallPcs, NEW o, Hold(c, k, pc, o),
         pc \notin Unhanded, pc = "rebuild" => k \in Rebuilds, gates' = gates,
         \/ o = NextOp /\ ops' = NextOp /\ entry'.o <= NextOp
         \/ o = entry.o /\ ops' = ops /\ entry' = entry /\ pc \notin Owning
  PROVE  Counted
<1>1. call \in [Callers -> CallRec] /\ call[c] \in CallRec /\ entry.o \in 0..MaxOps /\ entry.o <= ops
      /\ ops \in 0..MaxOps /\ MaxOps \in Nat
  BY OpsAreFinite DEF MTypeOK, Numbers
<1>2. NextOp \in Ops /\ NextOp # NoOp /\ NextOp = ops + 1
  BY NextOpFits DEF NextOp
<1>3. o \in 0..MaxOps /\ (pc \in Owning => o \in Ops)
  BY <1>1, <1>2 DEF Ops
<1> DEFINE r == [call[c] EXCEPT !.kind = k, !.pc = pc, !.o = o]
<1>4. call' = [call EXCEPT ![c] = r]
  BY <1>1 DEF Hold
<1>5. r \in CallRec /\ r.pc = pc /\ r.kind = k /\ r.o = o /\ r.gate = call[c].gate
  BY <1>1, <1>3 DEF CallRec
<1> HIDE DEF r
<1>6. Fits(r)
  BY <1>3, <1>5 DEF Fits, Unhanded, Ungated, Rebuilder
<1>7. \/ ops' = ops /\ o <= ops /\ entry'.o <= ops
      \/ ops' = ops + 1 /\ o = ops + 1 /\ o # NoOp /\ entry'.o <= ops + 1
  BY <1>1, <1>2
<1>8. r.o <= ops' /\ entry'.o <= ops' /\ (ops' = ops \/ (ops' = ops + 1 /\ r.o # NoOp))
  BY <1>1, <1>5, <1>7
<1> QED BY <1>4, <1>5, <1>6, <1>8, CallCounts DEF Counted

\* The constraint read off the registry is one.
LEMMA SnapshotIsRt == MTypeOK => Snapshot \in RtRec /\ Open \in RtRec
<1> SUFFICES ASSUME MTypeOK PROVE Snapshot \in RtRec /\ Open \in RtRec
  OBVIOUS
<1>1. MaxOps \in Nat /\ entry.o \in 0..MaxOps /\ entry.st \in States /\ stopped \in BOOLEAN
  BY OpsAreFinite DEF MTypeOK
<1>2. ASSUME NEW k \in Kinds, NEW o \in 0..MaxOps
      PROVE  Constraint(k, o) \in RtRec
  BY DEF Constraint, RtRec
<1>3. 0 \in 0..MaxOps
  BY <1>1
<1>4. Open \in RtRec /\ Starts(NoOp) \in RtRec /\ Constraint("Gone", NoOp) \in RtRec
  BY <1>2, <1>3 DEF Open, Starts, NoOp, Kinds
<1>5. Starts(entry.o) \in RtRec /\ Fails(entry.o) \in RtRec /\ Constraint("Removing", entry.o) \in RtRec
  BY <1>1, <1>2 DEF Starts, Fails, Kinds
<1>6. Snapshot \in {Open, Starts(NoOp), Constraint("Gone", NoOp), Starts(entry.o), Fails(entry.o),
                    Constraint("Removing", entry.o)}
  <2>1. CASE stopped
    BY <2>1 DEF Snapshot
  <2>2. CASE ~stopped
    <3> HIDE DEF Open, Starts, Fails, Constraint
    <3> QED BY <1>1, <2>2 DEF Snapshot, States, EntryIs
  <2> QED BY <2>1, <2>2
<1> QED BY <1>4, <1>5, <1>6

\* No call loses an operation or a gate, or takes one twice.
LEMMA CallsCount ==
  ASSUME MTypeOK, Numbers, NEW c \in Callers, CallBegin(c) \/ CallStep(c)
  PROVE  Counted
<1> USE DEF reg, coord, loops
<1>1. call \in [Callers -> CallRec] /\ call[c] \in CallRec /\ Fits(call[c]) /\ entry.o <= ops /\ call[c].o <= ops
      /\ entry.o \in 0..MaxOps /\ ops \in 0..MaxOps /\ call[c].o \in 0..MaxOps /\ MaxOps \in Nat
  BY OpsAreFinite DEF MTypeOK, Numbers, CallRec
<1>p. \A pc \in Plain : pc \notin Early
  BY DEF Plain, Unhanded
<1>2. ASSUME NEW pc \in Plain, To(c, pc), UNCHANGED <<entry, ops, gates>>
      PROVE  Counted
  BY <1>1, <1>2, <1>p, GoesOnCounts
<1>3. ASSUME NEW k \in CallKinds, NEW pc \in Plain, Enter(c, k, pc), UNCHANGED <<entry, ops, gates>>
      PROVE  Counted
  BY <1>1, <1>3, <1>p, GoesOnCounts
<1>4. ASSUME NEW pc \in Plain, To(c, pc), UNCHANGED <<ops, gates>>, entry'.o \in {entry.o, call[c].o, NoOp}
      PROVE  Counted
  <2>1. entry'.o <= ops
    BY <1>1, <1>4 DEF NoOp
  <2> QED BY <1>4, <1>p, <2>1, GoesOnCounts
<1>e. ASSUME NEW k \in CallKinds, NEW pc \in Early, call[c].pc \in Unhanded, To(c, pc) \/ Enter(c, k, pc),
             UNCHANGED <<entry, ops, gates>>
      PROVE  Counted
  <2>1. call[c].o = NoOp
    BY <1>1, <1>e DEF Fits
  <2> QED BY <1>1, <1>e, <2>1, GoesOnCounts
<1>5. ASSUME NEW k \in CallKinds, NEW pc \in Plain, call[c].pc \in Unhanded, Hold(c, k, pc, entry.o), UNCHANGED <<entry, ops, gates>>
      PROVE  Counted
  <2>1. call[c].o = NoOp /\ pc \in CallPcs /\ pc \notin Unhanded /\ pc \notin Owning /\ pc # "rebuild"
    BY <1>1, <1>5 DEF Fits, Plain, Unhanded, Owning
  <2> QED BY <1>5, <2>1, HoldCounts
<1>6. ASSUME NEW k \in CallKinds, NEW pc \in CallPcs, NEW st, call[c].pc \in Unhanded, pc \notin Unhanded,
             pc = "rebuild" => k \in Rebuilds, Hold(c, k, pc, NextOp), Hand(st), gates' = gates
      PROVE  Counted
  <2>1. call[c].o = NoOp
    BY <1>1, <1>6 DEF Fits
  <2>2. ops' = NextOp /\ entry'.o <= NextOp
    BY <1>1, <1>6 DEF Hand, NextOp
  <2> QED BY <1>6, <2>1, <2>2, HoldCounts
<1>7. {"read", "put", "enqueue", "await", "open", "loop", "kill", "persist", "restore", "again", "rekill",
       "roster", "finish", "coord", "reg", "shut", "done"} \subseteq Plain
  BY DEF Plain, CallPcs, Unhanded, Early, Owning
<1>8. {"get", "rebuild"} \subseteq CallPcs /\ {"get", "rebuild", "loop", "await", "done"} \cap Unhanded = {}
      /\ {"loop", "await", "done"} \subseteq CallPcs /\ "idle" \in Unhanded /\ "lease" \in Unhanded
  BY DEF CallPcs, Unhanded, Early
<1>a. {"has", "wake", "reserve"} \subseteq Early /\ Early \subseteq Unhanded /\ call[c].kind \in CallKinds
  BY <1>1 DEF Early, Unhanded, CallRec
<1>b. CASE SendLook(c) \/ RetryLook(c) \/ SendHas(c)
  BY <1>2, <1>e, <1>7, <1>8, <1>a, <1>b DEF SendLook, RetryLook, SendHas, Comes, Runs, At, CallKinds
<1>9. CASE SendWake(c)
  BY <1>2, <1>6, <1>7, <1>8, <1>9, <1>a DEF SendWake, Runs, At, StartAttach, CallKinds
<1>10. CASE RetryReserve(c)
  BY <1>2, <1>5, <1>6, <1>7, <1>8, <1>10, <1>a DEF RetryReserve, Runs, At, StartAttach, CallKinds
<1>11. CASE Ensure(c)
  BY <1>5, <1>6, <1>7, <1>8, <1>11 DEF Ensure, Comes, At, StartAttach, CallKinds
<1>12. CASE RemoveBegin(c)
  BY <1>3, <1>5, <1>6, <1>7, <1>8, <1>12 DEF RemoveBegin, Comes, At, BeginRemove, CallKinds
<1>13. CASE StopBegin(c)
  BY <1>3, <1>7, <1>13 DEF StopBegin, CallKinds
<1>14. CASE \E k \in Rebuilds : RebuildLook(c, k)
  <2>1. PICK k \in Rebuilds : RebuildLook(c, k)
    BY <1>14
  <2> DEFINE r == [call[c] EXCEPT !.kind = k, !.pc = "gate"]
  <2>2. call' = [call EXCEPT ![c] = r] /\ call[c].o = NoOp /\ call[c].gate = 0 /\ UNCHANGED <<entry, ops, gates>>
    BY <1>1, <2>1 DEF RebuildLook, Enter, Comes, At, Fits, Unhanded, Ungated
  <2>3. r \in CallRec /\ r.pc = "gate" /\ r.kind = k /\ r.o = call[c].o /\ r.gate = call[c].gate
    BY <1>1 DEF CallRec, CallPcs, CallKinds, Rebuilds
  <2> HIDE DEF r
  <2>4. Fits(r)
    BY <2>2, <2>3 DEF Fits, Owning
  <2> QED BY <1>1, <2>2, <2>3, <2>4, CallCounts DEF Counted
<1>15. CASE SendGet(c) \/ SendPut(c) \/ SendEnqueue(c) \/ Await(c) \/ RetryOpen(c) \/ RebuildEnd(c)
  BY <1>2, <1>7, <1>15 DEF SendGet, SendPut, SendEnqueue, Await, RetryOpen, RebuildEnd, SetRt
<1>16. CASE SendRead(c)
  <2>1. \E q \in RtRec : call' = [call EXCEPT ![c].pc = "put", ![c].rt = q]
    BY <1>16, SnapshotIsRt DEF SendRead
  <2> QED BY <1>1, <1>p, <1>7, <1>16, <2>1, GoesOnCounts DEF SendRead
<1>17. CASE RemoveLoops(c) \/ RemoveKill(c) \/ RemovePersist(c) \/ RemoveRoster(c) \/ StopCoord(c) \/ StopLoops(c)
  BY <1>2, <1>7, <1>17 DEF RemoveLoops, RemoveKill, RemovePersist, RemoveRoster, StopCoord, StopLoops, SetRt
<1>18. CASE RemoveRestore(c) \/ RemoveFinish(c) \/ StopReg(c)
  BY <1>4, <1>7, <1>18 DEF RemoveRestore, RemoveFinish, StopReg, RestoreAttach, FinishRemove, StopRegistry
<1>19. CASE RebuildGate(c)
  <2>1. CASE To(c, "done") /\ UNCHANGED coord
    BY <1>2, <1>7, <1>19, <2>1 DEF RebuildGate
  <2>2. CASE ~(To(c, "done") /\ UNCHANGED coord)
    <3> DEFINE pc == IF call[c].kind = "reset" THEN "peek" ELSE "lease"
               r  == [call[c] EXCEPT !.pc = pc, !.gate = gates + 1, !.rt = rt]
    <3>1. /\ call' = [call EXCEPT ![c] = r] /\ gates' = gates + 1 /\ UNCHANGED <<entry, ops>>
          /\ call[c].o = NoOp /\ call[c].gate = 0 /\ call[c].kind \in Rebuilds
      BY <1>1, <1>19, <2>2 DEF RebuildGate, Runs, At, Fits, Unhanded, Ungated
    <3>2. gates + 1 \in 0..MaxOps /\ gates \in 0..MaxOps /\ rt \in RtRec
      BY <3>1, NextGateFits DEF MTypeOK
    <3>3. pc \in {"peek", "lease"}
      OBVIOUS
    <3> HIDE DEF pc
    <3>4. r \in CallRec /\ r.pc = pc /\ r.kind = call[c].kind /\ r.o = call[c].o /\ r.gate = gates + 1 /\ r.gate # 0
      <4>1. gates + 1 # 0 /\ pc \in CallPcs
        BY <3>2, <3>3 DEF CallPcs
      <4> QED BY <1>1, <3>2, <4>1 DEF CallRec
    <3> HIDE DEF r
    <3>5. Fits(r)
      BY <3>1, <3>3, <3>4 DEF Fits, Ungated, Owning
    <3> QED BY <1>1, <3>1, <3>4, <3>5, CallCounts DEF Counted
  <2> QED BY <2>1, <2>2
<1>20. CASE RebuildPeek(c)
  <2>1. CASE To(c, "done")
    BY <1>2, <1>7, <1>20, <2>1 DEF RebuildPeek, AbortGate
  <2>2. CASE To(c, "lease")
    <3> DEFINE r == [call[c] EXCEPT !.pc = "lease"]
    <3>1. call' = [call EXCEPT ![c] = r] /\ UNCHANGED <<entry, ops, gates>> /\ call[c].o = NoOp /\ call[c].kind \in Rebuilds
      BY <1>1, <1>20, <2>2 DEF RebuildPeek, AbortGate, To, Runs, At, Fits, Unhanded, Rebuilder
    <3>2. r \in CallRec /\ r.pc = "lease" /\ r.kind = call[c].kind /\ r.o = call[c].o /\ r.gate = call[c].gate
      BY <1>1 DEF CallRec, CallPcs
    <3> HIDE DEF r
    <3>3. Fits(r)
      BY <3>1, <3>2 DEF Fits, Ungated, Owning
    <3> QED BY <1>1, <3>1, <3>2, <3>3, CallCounts DEF Counted
  <2> QED BY <1>20, <2>1, <2>2 DEF RebuildPeek
<1>21. CASE RebuildLease(c)
  <2>1. call[c].kind \in Rebuilds /\ call[c].kind \in CallKinds /\ call[c].pc = "lease"
    BY <1>1, <1>21 DEF RebuildLease, Runs, At, CallRec
  <2>2. CASE Hold(c, call[c].kind, "rebuild", NextOp) /\ StartAttach /\ UNCHANGED coord
    BY <1>6, <1>8, <2>1, <2>2 DEF StartAttach
  <2>3. CASE To(c, "done") /\ UNCHANGED <<reg, gates>>
    BY <1>2, <1>7, <2>3
  <2> QED BY <1>21, <2>2, <2>3 DEF RebuildLease, AbortGate
<1> QED
  BY <1>b, <1>9, <1>10, <1>11, <1>12, <1>13, <1>14, <1>15, <1>16, <1>17, <1>18, <1>19, <1>20, <1>21
     DEF CallBegin, CallStep

-----------------------------------------------------------------------------
(* Types *)

RegType   == entry \in [st : States, o : 0..MaxOps] /\ answer \in [Ops -> Answers] /\ stopped \in BOOLEAN
CoordType == rt \in RtRec /\ work \in {"none", "queued", "active"}
LoopType  == /\ looper \in [pc : {"none", "wait", "read", "put", "claim", "run"}, rt : RtRec]
             /\ {loop, shut, permit} \subseteq BOOLEAN /\ (loop <=> looper.pc # "none")
AttType   == att \in [Ops -> AttRec]
OtherType == /\ agent \in {"none", "live"} /\ {member, published, leftover, loose, died} \subseteq BOOLEAN
             /\ faults \in 0..MaxFaults /\ abandoned \subseteq Ops

\* What happens to the registry.
RegMove ==
  \/ UNCHANGED reg
  \/ NextOp \in Ops /\ ~stopped /\ entry.st \in {"Absent", "Ready", "Failed"} /\ StartAttach
  \/ NextOp \in Ops /\ ~stopped /\ entry.st \in {"Attaching", "Ready", "Failed"} /\ BeginRemove
  \/ \E o \in 0..MaxOps : CommitReady(o) \/ CommitFailed(o) \/ FinishRemove(o) \/ RestoreAttach(o)
  \/ StopRegistry

\* Every call and every attach uses the registry through its operations.
LEMMA NextMovesReg ==
  ASSUME MTypeOK, Numbers, [Next]_vars
  PROVE  RegMove
<1>1. \A o \in Ops : o \in 0..MaxOps
  BY OpsAreFinite DEF Ops
<1>2. ASSUME NEW c \in Callers
      PROVE  call[c].o \in 0..MaxOps /\ (call[c].pc \in Unhanded => NextOp \in Ops)
  BY NextOpFits DEF MTypeOK, CallRec, Numbers, Fits
<1>3. CASE \E c \in Callers : CallBegin(c)
  <2>1. PICK c \in Callers : CallBegin(c)
    BY <1>3
  <2>2. At(c, "idle") => NextOp \in Ops
    BY <1>2 DEF At, Unhanded
  <2> QED BY <2>1, <2>2 DEF CallBegin, SendLook, RetryLook, Ensure, RemoveBegin, StopBegin, RebuildLook, Comes,
          EntryIs, RegMove
<1>4. CASE \E c \in Callers : CallStep(c)
  <2>1. PICK c \in Callers : CallStep(c)
    BY <1>4
  <2>2. CASE RebuildLease(c)
    <3>1. NextOp \in Ops
      BY <1>2, <2>2 DEF RebuildLease, Runs, At, Unhanded
    <3> QED BY <2>2, <3>1 DEF RebuildLease, RegMove
  <2>3. CASE RemoveRestore(c) \/ RemoveFinish(c) \/ StopReg(c)
    BY <1>2, <2>3 DEF RemoveRestore, RemoveFinish, StopReg, RegMove
  <2>4. CASE SendWake(c) \/ RetryReserve(c)
    <3>1. NextOp \in Ops
      BY <1>2, <2>4 DEF SendWake, RetryReserve, Runs, At, Unhanded, Early
    <3> QED BY <2>4, <3>1 DEF SendWake, RetryReserve, Reservable, EntryIs, RegMove
  <2> QED BY <2>1, <2>2, <2>3, <2>4 DEF CallStep, SendHas, SendGet, SendRead, SendPut, SendEnqueue, Await, RetryOpen, RebuildGate,
          RebuildPeek, RebuildEnd, RemoveLoops, RemoveKill, RemovePersist, RemoveRoster, StopCoord, StopLoops, RegMove
<1>5. CASE \E o \in Ops : AttachStep(o)
  <2>1. PICK o \in Ops : AttachStep(o)
    BY <1>5
  <2>2. CASE AttFail(o) \/ AttCommit(o)
    BY <1>1, <2>2 DEF AttFail, AttCommit, RegMove
  <2> QED BY <2>1, <2>2 DEF AttachStep, AttWipe, AttStart, AttKill, AttWarm, AttSpoil, AttFailed, AttOwns,
          AttRegister, AttReady, AttPublish, AttStale, AttLate, RegMove
<1>6. CASE LoopStep \/ AgentDies \/ UNCHANGED vars
  BY <1>6 DEF LoopStep, LoopRead, LoopPut, LoopClaim, LoopDone, AgentDies, vars, reg, RegMove
<1> QED BY <1>3, <1>4, <1>5, <1>6 DEF Next

\* And they leave an entry and answers of the right kind, whose operation was handed out.
LEMMA RegMoveKeeps ==
  ASSUME MTypeOK, Numbers, RegMove
  PROVE  RegType'
<1>1. /\ entry \in [st : States, o : 0..MaxOps] /\ answer \in [Ops -> Answers] /\ stopped \in BOOLEAN
      /\ ops \in 0..MaxOps /\ MaxOps \in Nat
  BY OpsAreFinite DEF MTypeOK
<1>2. \A o \in Ops : o \in 0..MaxOps
  BY <1>1 DEF Ops
<1>3. CASE UNCHANGED reg
  BY <1>1, <1>3 DEF reg, RegType
<1>4. CASE NextOp \in Ops /\ StartAttach
  BY <1>1, <1>2, <1>4 DEF StartAttach, Hand, Answered, States, Answers, RegType
<1>5. CASE NextOp \in Ops /\ BeginRemove
  BY <1>1, <1>2, <1>5 DEF BeginRemove, Hand, States, Answers, RegType
<1>6. CASE \E o \in 0..MaxOps : CommitReady(o) \/ CommitFailed(o)
  BY <1>1, <1>6 DEF CommitReady, CommitFailed, Answered, States, Answers, RegType, NoOp
<1>7. CASE \E o \in 0..MaxOps : FinishRemove(o) \/ RestoreAttach(o)
  BY <1>1, <1>7 DEF FinishRemove, RestoreAttach, Answered, States, Answers, RegType, NoOp, reg
<1>8. CASE StopRegistry
  BY <1>1, <1>8 DEF StopRegistry, States, Answers, RegType, NoOp
<1> QED BY <1>3, <1>4, <1>5, <1>6, <1>7, <1>8 DEF RegMove

\* The coordinator's slot is under a constraint, with work or without.
LEMMA CoordKept ==
  ASSUME MTypeOK, Numbers, [Next]_vars
  PROVE  CoordType'
<1>1. /\ rt \in RtRec /\ work \in {"none", "queued", "active"} /\ gates \in 0..MaxOps
      /\ looper.rt \in RtRec /\ \A c \in Callers : call[c].rt \in RtRec
  BY DEF MTypeOK, CallRec
<1>2. ASSUME NEW k \in Kinds, NEW o \in 0..MaxOps
      PROVE  Constraint(k, o) \in RtRec
  BY DEF Constraint, RtRec
<1>3. NoOp \in 0..MaxOps /\ Open \in RtRec
  BY OpsAreFinite, <1>2 DEF NoOp, Open, Kinds
<1>4. \A o \in Ops : o \in 0..MaxOps
  BY OpsAreFinite DEF Ops
<1>5. ASSUME NEW r \in RtRec, NEW o, SetRt(r, o)
      PROVE  CoordType'
  BY <1>1, <1>5 DEF SetRt, CoordType
<1>6. ASSUME rt' = rt, work' = work
      PROVE  CoordType'
  BY <1>1, <1>6 DEF CoordType
<1>7. CASE \E c \in Callers : CallBegin(c)
  BY <1>6, <1>7 DEF CallBegin, SendLook, RetryLook, Ensure, RemoveBegin, StopBegin, RebuildLook, coord
<1>8. CASE \E c \in Callers : CallStep(c)
  <2>1. PICK c \in Callers : CallStep(c)
    BY <1>8
  <2>2. CASE SendPut(c) \/ RetryOpen(c) \/ StopCoord(c)
    BY <1>1, <1>2, <1>3, <1>5, <1>6, <2>2 DEF SendPut, RetryOpen, StopCoord, coord, Kinds
  <2>3. CASE SendEnqueue(c)
    BY <1>1, <2>3 DEF SendEnqueue, coord, CoordType
  <2>4. CASE RebuildGate(c)
    <3>1. call[c].gate = 0 /\ gates + 1 \in 0..MaxOps
      BY <2>4, NextGateFits DEF RebuildGate, Runs, At, Numbers, Fits, Ungated
    <3>2. Starts(gates + 1) \in RtRec
      BY <1>2, <3>1 DEF Starts, Kinds
    <3> QED BY <1>1, <2>4, <3>2 DEF RebuildGate, coord, CoordType
  <2>5. CASE RebuildPeek(c) \/ RebuildLease(c)
    BY <1>1, <2>5 DEF RebuildPeek, RebuildLease, AbortGate, coord, CoordType
  <2> QED BY <1>6, <2>1, <2>2, <2>3, <2>4, <2>5 DEF CallStep, SendHas, SendWake, RetryReserve, SendGet, SendRead, Await, RebuildEnd, RemoveLoops,
          RemoveKill, RemovePersist, RemoveRestore, RemoveRoster, RemoveFinish, StopReg, StopLoops, coord
<1>9. CASE \E o \in Ops : AttachStep(o)
  <2>1. PICK o \in Ops : AttachStep(o)
    BY <1>9
  <2>2. Starts(o) \in RtRec /\ Fails(o) \in RtRec
    BY <1>2, <1>4 DEF Starts, Fails, Kinds
  <2>3. CASE AttStart(o) \/ AttFailed(o) \/ AttReady(o) \/ AttLate(o)
    BY <1>3, <1>5, <1>6, <2>2, <2>3 DEF AttStart, AttFailed, AttReady, AttLate, coord
  <2> QED BY <1>6, <2>1, <2>3 DEF AttachStep, AttWipe, AttKill, AttWarm, AttSpoil, AttFail, AttOwns, AttRegister,
          AttCommit, AttPublish, AttStale, coord
<1>10. CASE LoopStep
  <2>1. CASE LoopPut
    BY <1>1, <1>5, <2>1 DEF LoopPut
  <2>2. CASE LoopRead \/ LoopClaim \/ LoopDone
    BY <1>1, <2>2 DEF LoopRead, LoopClaim, LoopDone, coord, CoordType
  <2> QED BY <1>10, <2>1, <2>2 DEF LoopStep
<1>11. CASE AgentDies \/ UNCHANGED vars
  BY <1>6, <1>11 DEF AgentDies, vars, coord
<1> QED BY <1>7, <1>8, <1>9, <1>10, <1>11 DEF Next

\* A loop is registered exactly when its task runs.
LEMMA LoopKept ==
  ASSUME MTypeOK, Numbers, [Next]_vars
  PROVE  LoopType'
<1>1. /\ looper \in [pc : {"none", "wait", "read", "put", "claim", "run"}, rt : RtRec]
      /\ loop \in BOOLEAN /\ shut \in BOOLEAN /\ permit \in BOOLEAN /\ (loop <=> looper.pc # "none")
  BY DEF MTypeOK
<1>2. Open \in RtRec /\ Snapshot \in RtRec
  BY SnapshotIsRt
<1>3. NoLooper \in [pc : {"none", "wait", "read", "put", "claim", "run"}, rt : RtRec] /\ NoLooper.pc = "none"
      /\ [NoLooper EXCEPT !.pc = "wait"] \in [pc : {"none", "wait", "read", "put", "claim", "run"}, rt : RtRec]
      /\ [NoLooper EXCEPT !.pc = "wait"].pc = "wait"
  BY <1>2 DEF NoLooper
<1>4. ASSUME UNCHANGED loops PROVE LoopType'
  BY <1>1, <1>4 DEF loops, LoopType
<1>5. ASSUME Notified PROVE LoopType'
  BY <1>1, <1>5 DEF Notified, LoopType
<1>6. ASSUME RemoveLoop PROVE LoopType'
  BY <1>1, <1>3, <1>6 DEF RemoveLoop, LoopType
<1>7. CASE \E c \in Callers : CallBegin(c)
  BY <1>4, <1>7 DEF CallBegin, SendLook, RetryLook, Ensure, RemoveBegin, StopBegin, RebuildLook
<1>8. CASE \E c \in Callers : CallStep(c)
  <2>1. PICK c \in Callers : CallStep(c)
    BY <1>8
  <2>2. CASE SendEnqueue(c) \/ RetryOpen(c) \/ RemoveLoops(c)
    BY <1>4, <1>5, <1>6, <2>2 DEF SendEnqueue, RetryOpen, RemoveLoops
  <2>3. CASE StopLoops(c)
    BY <1>3, <2>3 DEF StopLoops, LoopType
  <2> QED BY <1>4, <2>1, <2>2, <2>3 DEF CallStep, SendHas, SendWake, RetryReserve, SendGet, SendRead, SendPut, Await, RebuildGate, RebuildPeek,
          RebuildLease, RebuildEnd, RemoveKill, RemovePersist, RemoveRestore, RemoveRoster, RemoveFinish,
          StopCoord, StopReg
<1>9. CASE \E o \in Ops : AttachStep(o)
  <2>1. PICK o \in Ops : AttachStep(o)
    BY <1>9
  <2>2. CASE AttRegister(o)
    BY <1>1, <1>3, <1>4, <2>2 DEF AttRegister, LoopType
  <2>3. CASE AttCommit(o) \/ AttPublish(o) \/ AttReady(o) \/ AttLate(o)
    BY <1>4, <1>5, <1>6, <2>3 DEF AttCommit, AttPublish, AttReady, AttLate
  <2> QED BY <1>4, <2>1, <2>2, <2>3 DEF AttachStep, AttWipe, AttStart, AttKill, AttWarm, AttSpoil, AttFail,
          AttFailed, AttOwns, AttStale
<1>10. CASE LoopStep
  <2>1. CASE LoopRead
    BY <1>1, <1>2, <2>1 DEF LoopRead, LoopType
  <2>2. CASE LoopPut
    BY <1>1, <1>2, <2>2 DEF LoopPut, LoopType
  <2>3. CASE LoopClaim \/ LoopDone
    BY <1>1, <2>3 DEF LoopClaim, LoopDone, LoopType
  <2> QED BY <1>10, <2>1, <2>2, <2>3 DEF LoopStep
<1>11. CASE AgentDies \/ UNCHANGED vars
  BY <1>4, <1>11 DEF AgentDies, vars
<1> QED BY <1>7, <1>8, <1>9, <1>10, <1>11 DEF Next

\* What happens to the attach of an operation: it goes on, or is begun.
AttMove(o) ==
  \/ \E pc \in AttPcs : AttTo(o, pc)
  \/ \E b \in BOOLEAN : att' = [att EXCEPT ![o].pc = "commit", ![o].mine = b]
  \/ \E bg, kills \in BOOLEAN : Begun(o, bg, kills)

\* Nothing else does.
LEMMA NextMovesAtt ==
  ASSUME MTypeOK, Numbers, [Next]_vars
  PROVE  UNCHANGED att \/ \E o \in Ops : AttMove(o)
<1>1. CASE \E c \in Callers : CallBegin(c)
  <2>1. PICK c \in Callers : CallBegin(c)
    BY <1>1
  <2>2. At(c, "idle") => NextOp \in Ops
    BY NextOpFits DEF At, Unhanded, Numbers, Fits
  <2> QED BY <2>1, <2>2 DEF CallBegin, SendLook, RetryLook, Ensure, RemoveBegin, StopBegin, RebuildLook, Comes, AttMove
<1>2. CASE \E c \in Callers : CallStep(c)
  <2>1. PICK c \in Callers : CallStep(c)
    BY <1>2
  <2>2. CASE RebuildLease(c)
    <3>1. NextOp \in Ops
      BY NextOpFits, <2>2 DEF RebuildLease, Runs, At, Unhanded, Numbers, Fits
    <3>2. (call[c].kind # "reset") \in BOOLEAN
      OBVIOUS
    <3> QED BY <2>2, <3>1, <3>2 DEF RebuildLease, AttMove
  <2>3. CASE SendGet(c)
    <3>1. call[c].o \in Ops
      BY <2>3 DEF SendGet, Runs, At, Owning, Numbers, Fits
    <3> QED BY <2>3, <3>1 DEF SendGet, AttMove
  <2>4. CASE RetryReserve(c)
    <3>1. NextOp \in Ops
      BY NextOpFits, <2>4 DEF RetryReserve, Runs, At, Unhanded, Early, Numbers, Fits
    <3> QED BY <2>4, <3>1 DEF RetryReserve, AttMove
  <2> QED BY <2>1, <2>2, <2>3, <2>4 DEF CallStep, SendHas, SendWake, SendRead, SendPut, SendEnqueue, Await, RetryOpen, RebuildGate,
          RebuildPeek, RebuildEnd, RemoveLoops, RemoveKill, RemovePersist, RemoveRestore, RemoveRoster,
          RemoveFinish, StopCoord, StopReg, StopLoops
<1>3. CASE \E o \in Ops : AttachStep(o)
  <2>1. PICK o \in Ops : AttachStep(o)
    BY <1>3
  <2>2. CASE AttRegister(o)
    <3>1. (~loop) \in BOOLEAN /\ "failed" \in AttPcs
      BY DEF AttPcs
    <3> QED BY <2>2, <3>1 DEF AttRegister, AttMove
  <2>3. {"start", "kill", "warm", "owns", "spoil", "fail", "failed", "done", "register", "stale", "ready", "publish",
         "late"} \subseteq AttPcs
    BY DEF AttPcs
  <2>4. CASE AttStart(o) \/ AttOwns(o) \/ AttPublish(o)
    BY <2>3, <2>4 DEF AttStart, AttOwns, AttPublish, AttMove
  <2> QED BY <2>1, <2>2, <2>3, <2>4 DEF AttachStep, AttWipe, AttKill, AttWarm, AttSpoil, AttFail, AttFailed,
          AttCommit, AttReady, AttStale, AttLate, AttMove
<1>4. CASE LoopStep \/ AgentDies \/ UNCHANGED vars
  BY <1>4 DEF LoopStep, LoopRead, LoopPut, LoopClaim, LoopDone, AgentDies, vars
<1> QED BY <1>1, <1>2, <1>3, <1>4 DEF Next

\* So it stays an attach, and only a beginning or its own next step takes it to a kill.
LEMMA AttKept ==
  ASSUME MTypeOK, NEW o \in Ops, AttMove(o)
  PROVE  AttType'
<1>1. att \in [Ops -> AttRec] /\ att[o] \in AttRec
  BY DEF MTypeOK
<1>2. ASSUME NEW r \in AttRec, att' = [att EXCEPT ![o] = r]
      PROVE  AttType'
  BY <1>1, <1>2 DEF AttType
<1>3. CASE \E pc \in AttPcs : AttTo(o, pc)
  <2>1. PICK pc \in AttPcs : AttTo(o, pc)
    BY <1>3
  <2>2. att' = [att EXCEPT ![o] = [att[o] EXCEPT !.pc = pc]]
    BY <1>1, <2>1 DEF AttTo
  <2>3. [att[o] EXCEPT !.pc = pc] \in AttRec
    BY <1>1 DEF AttRec
  <2> QED BY <1>2, <2>2, <2>3
<1>4. CASE \E b \in BOOLEAN : att' = [att EXCEPT ![o].pc = "commit", ![o].mine = b]
  <2>1. PICK b \in BOOLEAN : att' = [att EXCEPT ![o].pc = "commit", ![o].mine = b]
    BY <1>4
  <2>2. att' = [att EXCEPT ![o] = [att[o] EXCEPT !.pc = "commit", !.mine = b]]
    BY <1>1, <2>1
  <2>3. [att[o] EXCEPT !.pc = "commit", !.mine = b] \in AttRec
    BY <1>1 DEF AttRec, AttPcs
  <2> QED BY <1>2, <2>2, <2>3
<1>5. CASE \E bg, kills \in BOOLEAN : Begun(o, bg, kills)
  <2>1. PICK bg \in BOOLEAN, kills \in BOOLEAN : Begun(o, bg, kills)
    BY <1>5
  <2> DEFINE r == [NoAtt EXCEPT !.pc = IF kills THEN "start" ELSE "wipe", !.bg = bg, !.kills = kills]
  <2>2. r \in AttRec
    BY DEF NoAtt, AttRec, AttPcs
  <2> HIDE DEF r
  <2>3. att' = [att EXCEPT ![o] = r]
    BY <2>1 DEF Begun, r
  <2> QED BY <1>2, <2>2, <2>3
<1> QED BY <1>3, <1>4, <1>5 DEF AttMove

\* The rest: the agent, the roster, failures and histories.
LEMMA OtherKept ==
  ASSUME MTypeOK, Numbers, [Next]_vars
  PROVE  OtherType'
<1>1. OtherType /\ MaxFaults \in Nat
  BY MemberAssumption DEF MTypeOK, OtherType
<1>2. leftover' \in BOOLEAN
  <2>1. CASE leftover' = leftover
    BY <1>1, <2>1 DEF OtherType
  <2>2. CASE \E c \in Callers : RetryReserve(c) \/ RebuildLease(c) \/ RemovePersist(c) \/ RemoveRoster(c)
    BY <1>1, <2>2 DEF RetryReserve, RebuildLease, RemovePersist, RemoveRoster, past, OtherType
  <2>3. \/ leftover' = leftover
        \/ \E c \in Callers : RetryReserve(c) \/ RebuildLease(c) \/ RemovePersist(c) \/ RemoveRoster(c)
    BY DEF Next, CallBegin, CallStep, AttachStep, SendLook, SendHas, SendWake, RetryLook, Ensure, RemoveBegin, StopBegin,
       RebuildLook, SendGet, SendRead, SendPut, SendEnqueue, Await, RetryOpen, RebuildGate, RebuildPeek, RebuildEnd, RemoveLoops,
       RemoveKill, RemoveRestore, RemoveFinish, StopCoord, StopReg, StopLoops, AttWipe, AttStart, AttKill, AttWarm,
       AttSpoil, AttFail, AttFailed, AttOwns, AttRegister, AttCommit, AttReady, AttPublish, AttStale, AttLate,
       LoopStep, LoopRead, LoopPut, LoopClaim, LoopDone, AgentDies, vars, past, Kill, SetRt
  <2> QED BY <2>1, <2>2, <2>3
<1>3. loose' \in BOOLEAN
  <2>1. loose \in BOOLEAN
    BY <1>1 DEF OtherType
  <2>2. ASSUME NEW r, NEW o, SetRt(r, o) PROVE loose' \in BOOLEAN
    BY <2>2 DEF SetRt
  <2>3. ASSUME NEW c \in Callers, AbortGate(c) PROVE loose' \in BOOLEAN
    BY <2>1, <2>3 DEF AbortGate
  <2>4. loose' = loose \/ (\E r, o : SetRt(r, o)) \/ \E c \in Callers : AbortGate(c)
    <3>1. CASE \E c \in Callers : CallBegin(c) \/ CallStep(c)
      BY <3>1 DEF CallBegin, CallStep, SendLook, SendHas, SendWake, RetryLook, RetryReserve, Ensure, RemoveBegin, StopBegin, RebuildLook,
         SendGet, SendRead, SendPut, SendEnqueue, Await, RetryOpen, RebuildGate, RebuildPeek, RebuildLease, RebuildEnd,
         RemoveLoops, RemoveKill, RemovePersist, RemoveRestore, RemoveRoster, RemoveFinish, StopCoord, StopReg,
         StopLoops, past, Kill
    <3>2. CASE \E o \in Ops : AttachStep(o)
      BY <3>2 DEF AttachStep, AttWipe, AttStart, AttKill, AttWarm, AttSpoil, AttFail, AttFailed, AttOwns, AttRegister,
         AttCommit, AttReady, AttPublish, AttStale, AttLate, past, Kill
    <3>3. CASE LoopStep \/ AgentDies \/ UNCHANGED vars
      BY <3>3 DEF LoopStep, LoopRead, LoopPut, LoopClaim, LoopDone, AgentDies, vars, past
    <3> QED BY <3>1, <3>2, <3>3 DEF Next
  <2> QED BY <2>1, <2>2, <2>3, <2>4
<1>4. agent' \in {"none", "live"} /\ died' \in BOOLEAN /\ member' \in BOOLEAN /\ published' \in BOOLEAN
  <2>1. CASE \E c \in Callers : CallBegin(c) \/ CallStep(c)
    BY <1>1, <2>1 DEF OtherType, CallBegin, CallStep, SendLook, SendHas, SendWake, RetryLook, RetryReserve, Ensure, RemoveBegin, StopBegin, RebuildLook,
       SendGet, SendRead, SendPut, SendEnqueue, Await, RetryOpen, RebuildGate, RebuildPeek, RebuildLease, RebuildEnd,
       RemoveLoops, RemoveKill, RemovePersist, RemoveRestore, RemoveRoster, RemoveFinish, StopCoord, StopReg,
       StopLoops, past, outside, Kill, SetRt
  <2>2. CASE \E o \in Ops : AttachStep(o)
    BY <1>1, <2>2 DEF OtherType, AttachStep, AttWipe, AttStart, AttKill, AttWarm, AttSpoil, AttFail, AttFailed,
       AttOwns, AttRegister, AttCommit, AttReady, AttPublish, AttStale, AttLate, past, Kill, SetRt
  <2>3. CASE LoopStep \/ AgentDies \/ UNCHANGED vars
    BY <1>1, <2>3 DEF OtherType, LoopStep, LoopRead, LoopPut, LoopClaim, LoopDone, AgentDies, vars, past, outside, SetRt
  <2> QED BY <2>1, <2>2, <2>3 DEF Next
<1>5. faults' \in 0..MaxFaults
  <2>1. faults \in 0..MaxFaults
    BY <1>1 DEF OtherType
  <2>2. ASSUME NEW k, Fault(k) PROVE faults' \in 0..MaxFaults
    BY <1>1, <2>1, <2>2 DEF Fault
  <2>3. faults' = faults \/ \E k : Fault(k)
    <3>1. CASE \E c \in Callers : CallBegin(c) \/ CallStep(c)
      BY <3>1 DEF NoFault, CallBegin, CallStep, SendLook, SendHas, SendWake, RetryLook, RetryReserve, Ensure, RemoveBegin, StopBegin, RebuildLook,
         SendGet, SendRead, SendPut, SendEnqueue, Await, RetryOpen, RebuildGate, RebuildPeek, RebuildLease, RebuildEnd,
         RemoveLoops, RemoveKill, RemovePersist, RemoveRestore, RemoveRoster, RemoveFinish, StopCoord, StopReg,
         StopLoops
    <3>2. CASE \E o \in Ops : AttachStep(o)
      BY <3>2 DEF NoFault, AttachStep, AttWipe, AttStart, AttKill, AttWarm, AttSpoil, AttFail, AttFailed, AttOwns,
         AttRegister, AttCommit, AttReady, AttPublish, AttStale, AttLate
    <3>3. CASE LoopStep \/ AgentDies \/ UNCHANGED vars
      BY <3>3 DEF LoopStep, LoopRead, LoopPut, LoopClaim, LoopDone, AgentDies, vars
    <3> QED BY <3>1, <3>2, <3>3 DEF Next
  <2> QED BY <2>1, <2>2, <2>3
<1>6. abandoned' \subseteq Ops
  <2>1. abandoned \subseteq Ops /\ \A c \in Callers : call[c].o \in 0..MaxOps /\ (At(c, "get") => call[c].o \in Ops)
    BY <1>1 DEF OtherType, MTypeOK, CallRec, Numbers, Fits, Owning, At
  <2>2. \A c \in Callers : call[c].o # NoOp => call[c].o \in Ops
    BY <2>1, OpsAreFinite DEF Ops, NoOp
  <2>3. abandoned' = abandoned \/ \E c \in Callers : SendGet(c) \/ RemovePersist(c)
    <3>1. CASE \E c \in Callers : CallBegin(c) \/ CallStep(c)
      BY <3>1 DEF CallBegin, CallStep, SendLook, SendHas, SendWake, RetryLook, RetryReserve, Ensure, RemoveBegin,
         StopBegin, RebuildLook, SendRead, SendPut, SendEnqueue, Await, RetryOpen, RebuildGate, RebuildPeek,
         RebuildLease, RebuildEnd, RemoveLoops, RemoveKill, RemoveRestore, RemoveRoster, RemoveFinish, StopCoord,
         StopReg, StopLoops, past, Kill, SetRt
    <3>2. CASE \E o \in Ops : AttachStep(o)
      BY <3>2 DEF AttachStep, AttWipe, AttStart, AttKill, AttWarm, AttSpoil, AttFail, AttFailed, AttOwns, AttRegister,
         AttCommit, AttReady, AttPublish, AttStale, AttLate, past, Kill, SetRt
    <3>3. CASE LoopStep \/ AgentDies \/ UNCHANGED vars
      BY <3>3 DEF LoopStep, LoopRead, LoopPut, LoopClaim, LoopDone, AgentDies, vars, past, SetRt
    <3> QED BY <3>1, <3>2, <3>3 DEF Next
  <2>4. CASE abandoned' = abandoned
    BY <2>1, <2>4
  <2>5. ASSUME NEW c \in Callers, SendGet(c) \/ RemovePersist(c) PROVE abandoned' \subseteq Ops
    <3>1. CASE SendGet(c)
      <4>1. call[c].o \in Ops
        BY <2>1, <3>1 DEF SendGet, Runs
      <4>2. abandoned' = abandoned \/ abandoned' = abandoned \cup {call[c].o}
        BY <3>1 DEF SendGet
      <4> QED BY <2>1, <4>1, <4>2
    <3>2. CASE RemovePersist(c)
      BY <2>1, <2>2, <3>2 DEF RemovePersist, past
    <3> QED BY <2>5, <3>1, <3>2
  <2> QED BY <2>3, <2>4, <2>5
<1> QED BY <1>2, <1>3, <1>4, <1>5, <1>6 DEF OtherType

\* The account is kept by every step.
LEMMA NextCounts ==
  ASSUME MTypeOK, Numbers, [Next]_vars
  PROVE  Counted
<1>1. CASE \E c \in Callers : CallBegin(c) \/ CallStep(c)
  BY <1>1, CallsCount
<1>2. CASE UNCHANGED <<ops, gates, call>> /\ entry'.o <= ops
  BY <1>2 DEF Counted, Numbers, Numbered, GateKept, Fits, MTypeOK
<1>3. CASE (\E o \in Ops : AttachStep(o)) \/ LoopStep \/ AgentDies \/ UNCHANGED vars
  <2>1. ops \in Nat /\ entry.o <= ops /\ \A o \in Ops : o \in Nat
    BY OpsAreFinite DEF Numbers, MTypeOK, Ops
  <2>2. CASE \E o \in Ops : AttFail(o) \/ AttCommit(o)
    <3>1. PICK o \in Ops : AttFail(o) \/ AttCommit(o)
      BY <2>2
    <3>2. entry' = entry \/ entry'.o = NoOp \/ (entry'.o = o /\ entry.o = o)
      BY <3>1 DEF AttFail, AttCommit, CommitFailed, CommitReady, Owns, reg
    <3>3. UNCHANGED <<ops, gates, call>>
      BY <3>1 DEF AttFail, AttCommit, CommitFailed, CommitReady, reg, coord
    <3> QED BY <1>2, <2>1, <3>2, <3>3 DEF NoOp
  <2>3. CASE \E o \in Ops : AttachStep(o) /\ ~AttFail(o) /\ ~AttCommit(o)
    <3>1. UNCHANGED <<reg, gates, call>>
      BY <2>3 DEF AttachStep, AttWipe, AttStart, AttKill, AttWarm, AttSpoil, AttFailed, AttOwns, AttRegister,
         AttReady, AttPublish, AttStale, AttLate, coord, SetRt
    <3> QED BY <1>2, <2>1, <3>1 DEF reg
  <2>4. CASE LoopStep \/ AgentDies \/ UNCHANGED vars
    <3>1. UNCHANGED <<reg, gates, call>>
      BY <2>4 DEF LoopStep, LoopRead, LoopPut, LoopClaim, LoopDone, AgentDies, vars, coord, SetRt
    <3> QED BY <1>2, <2>1, <3>1 DEF reg
  <2> QED BY <1>3, <2>2, <2>3, <2>4
<1> QED BY <1>1, <1>3 DEF Next

\* Types and account together.
LEMMA TypesKept ==
  ASSUME MTypeOK, Numbers, [Next]_vars
  PROVE  MTypeOK' /\ Numbers'
<1>1. RegType'
  BY NextMovesReg, RegMoveKeeps
<1>2. CoordType' /\ LoopType' /\ OtherType' /\ Counted
  BY CoordKept, LoopKept, OtherKept, NextCounts
<1>3. AttType'
  BY NextMovesAtt, AttKept DEF MTypeOK, AttType
<1> QED BY <1>1, <1>2, <1>3 DEF MTypeOK, RegType, CoordType, LoopType, OtherType, AttType, Counted

-----------------------------------------------------------------------------
(* A rebuild and the batch *)

Sparing == {"wipe", "start", "kill"}

\* A rebuild whose agent is not yet the new one.
Closing(c) == Gated(c) /\ (At(c, "rebuild") => att[call[c].o].pc \in Sparing)

\* The slot is closed and runs no batch.
Shut == rt # Open /\ work # "active"

\* That is what a rebuild finds until it is over, unless somebody opened the slot.
Closed == ~loose => \A c \in Callers : Closing(c) => Shut

\* A wake-up that has yet to start its attach does not share its operation with a rebuild.
Apart == \A c, d \in Callers : At(c, "get") /\ At(d, "rebuild") => call[c].o # call[d].o

GatedPcs == {"peek", "lease", "rebuild"}

\* What a call's step does to the callers: it moves its own, and one that comes to own an operation
\* has just been handed it.
LEMMA CallTakes ==
  ASSUME MTypeOK, Numbers, NEW c \in Callers, CallBegin(c) \/ CallStep(c)
  PROVE  /\ \A d \in Callers \ {c} : call'[d] = call[d]
         /\ \/ call'[c].pc \notin Owning /\ call'[c].pc \notin GatedPcs
            \/ call'[c].pc \notin Owning /\ (RebuildGate(c) \/ (At(c, "peek") /\ call[c].kind \in Rebuilds))
            \/ SendWake(c) /\ call'[c].pc = "get" /\ call'[c].o = NextOp
            \/ RebuildLease(c) /\ call'[c].pc = "rebuild" /\ call'[c].o = NextOp
<1>1. call \in [Callers -> CallRec] /\ call[c] \in CallRec
  BY DEF MTypeOK
<1>2. ASSUME NEW pc, To(c, pc)
      PROVE  call'[c].pc = pc /\ \A d \in Callers \ {c} : call'[d] = call[d]
  BY <1>1, <1>2 DEF To, CallRec
<1>3. ASSUME NEW k, NEW pc, Enter(c, k, pc)
      PROVE  call'[c].pc = pc /\ \A d \in Callers \ {c} : call'[d] = call[d]
  BY <1>1, <1>3 DEF Enter, CallRec
<1>4. ASSUME NEW k, NEW pc, NEW o, Hold(c, k, pc, o)
      PROVE  call'[c].pc = pc /\ call'[c].o = o /\ \A d \in Callers \ {c} : call'[d] = call[d]
  BY <1>1, <1>4 DEF Hold, CallRec
<1> USE DEF Owning, GatedPcs
<1>5. CASE SendWake(c)
  <2>1. Hold(c, "send", "get", NextOp) \/ To(c, "read")
    BY <1>5 DEF SendWake
  <2>2. CASE Hold(c, "send", "get", NextOp)
    BY <1>4, <1>5, <2>2
  <2>3. CASE To(c, "read")
    BY <1>2, <2>3
  <2> QED BY <2>1, <2>2, <2>3
<1>5a. CASE SendLook(c) \/ RetryLook(c) \/ SendHas(c)
  BY <1>2, <1>3, <1>5a DEF SendLook, RetryLook, SendHas
<1>5b. CASE RetryReserve(c)
  <2>1. (\E o : Hold(c, "retry", "done", o) \/ Hold(c, "retry", "await", o)) \/ To(c, "open") \/ To(c, "done")
    BY <1>5b DEF RetryReserve
  <2>2. ASSUME NEW pc \in {"done", "await"}, NEW o, Hold(c, "retry", pc, o)
        PROVE  call'[c].pc \notin Owning /\ call'[c].pc \notin GatedPcs /\ \A d \in Callers \ {c} : call'[d] = call[d]
    BY <1>4, <2>2
  <2>3. ASSUME NEW pc \in {"open", "done"}, To(c, pc)
        PROVE  call'[c].pc \notin Owning /\ call'[c].pc \notin GatedPcs /\ \A d \in Callers \ {c} : call'[d] = call[d]
    BY <1>2, <2>3
  <2> QED BY <2>1, <2>2, <2>3
<1>6. CASE Ensure(c) \/ RemoveBegin(c) \/ StopBegin(c)
  <2>1. \/ \E k, o : Hold(c, k, "await", o) \/ Hold(c, k, "loop", o)
        \/ \E k : Enter(c, k, "loop") \/ Enter(c, k, "coord")
    BY <1>6 DEF Ensure, RemoveBegin, StopBegin
  <2>2. ASSUME NEW k, NEW pc \in {"await", "loop"}, NEW o, Hold(c, k, pc, o)
        PROVE  call'[c].pc \notin Owning /\ call'[c].pc \notin GatedPcs /\ \A d \in Callers \ {c} : call'[d] = call[d]
    BY <1>4, <2>2
  <2>3. ASSUME NEW k, NEW pc \in {"loop", "coord"}, Enter(c, k, pc)
        PROVE  call'[c].pc \notin Owning /\ call'[c].pc \notin GatedPcs /\ \A d \in Callers \ {c} : call'[d] = call[d]
    BY <1>3, <2>3
  <2> QED BY <2>1, <2>2, <2>3
<1>7. CASE \E k \in Rebuilds : RebuildLook(c, k)
  BY <1>3, <1>7 DEF RebuildLook
<1>8. CASE SendGet(c) \/ SendPut(c) \/ SendEnqueue(c) \/ Await(c) \/ RetryOpen(c) \/ RebuildEnd(c)
  <2>1. To(c, "read") \/ To(c, "done") \/ To(c, "enqueue") \/ To(c, "open")
    BY <1>8 DEF SendGet, SendPut, SendEnqueue, Await, RetryOpen, RebuildEnd
  <2>2. ASSUME NEW pc \in {"read", "done", "enqueue", "open"}, To(c, pc)
        PROVE  call'[c].pc \notin Owning /\ call'[c].pc \notin GatedPcs /\ \A d \in Callers \ {c} : call'[d] = call[d]
    BY <1>2, <2>2
  <2> QED BY <2>1, <2>2
<1>9. CASE SendRead(c)
  <2>1. call' = [call EXCEPT ![c] = [call[c] EXCEPT !.pc = "put", !.rt = Snapshot]]
    BY <1>1, <1>9 DEF SendRead
  <2>2. [call[c] EXCEPT !.pc = "put", !.rt = Snapshot].pc = "put"
    BY <1>1 DEF CallRec
  <2> QED BY <1>1, <2>1, <2>2
<1>10. CASE RemoveLoops(c) \/ RemoveKill(c) \/ RemovePersist(c) \/ RemoveRestore(c) \/ RemoveRoster(c)
              \/ RemoveFinish(c) \/ StopCoord(c) \/ StopReg(c) \/ StopLoops(c)
  BY <1>2, <1>10 DEF RemoveLoops, RemoveKill, RemovePersist, RemoveRestore, RemoveRoster, RemoveFinish, StopCoord,
     StopReg, StopLoops
<1>11. CASE RebuildGate(c)
  <2>1. CASE To(c, "done")
    BY <1>2, <2>1
  <2>2. CASE ~To(c, "done")
    <3> DEFINE pc == IF call[c].kind = "reset" THEN "peek" ELSE "lease"
               r  == [call[c] EXCEPT !.pc = pc, !.gate = gates + 1, !.rt = rt]
    <3>1. call' = [call EXCEPT ![c] = r]
      BY <1>1, <1>11, <2>2 DEF RebuildGate
    <3>2. r.pc = pc
      BY <1>1 DEF CallRec
    <3>3. pc \notin Owning
      BY DEF Owning
    <3> HIDE DEF r, pc
    <3> QED BY <1>1, <1>11, <3>1, <3>2, <3>3
  <2> QED BY <2>1, <2>2
<1>12. CASE RebuildPeek(c)
  <2>1. call[c].kind \in Rebuilds /\ At(c, "peek")
    BY <1>12 DEF RebuildPeek, Runs, Rebuilds, At
  <2> QED BY <1>2, <1>12, <2>1 DEF RebuildPeek, AbortGate
<1>13. CASE RebuildLease(c)
  <2>1. Hold(c, call[c].kind, "rebuild", NextOp) \/ To(c, "done")
    BY <1>13 DEF RebuildLease
  <2>2. CASE Hold(c, call[c].kind, "rebuild", NextOp)
    BY <1>4, <1>13, <2>2
  <2>3. CASE To(c, "done")
    BY <1>2, <2>3
  <2> QED BY <2>1, <2>2, <2>3
<1> QED
  BY <1>5, <1>5a, <1>5b, <1>6, <1>7, <1>8, <1>9, <1>10, <1>11, <1>12, <1>13 DEF CallBegin, CallStep

\* Steps of attaches, of the loop and of the agent leave the callers alone.
LEMMA OthersTakeNothing ==
  ASSUME (\E o \in Ops : AttachStep(o)) \/ LoopStep \/ AgentDies \/ UNCHANGED vars
  PROVE  call' = call
<1>1. CASE \E o \in Ops : AttachStep(o)
  BY <1>1 DEF AttachStep, AttWipe, AttStart, AttKill, AttWarm, AttSpoil, AttFail, AttFailed, AttOwns, AttRegister,
     AttCommit, AttReady, AttPublish, AttStale, AttLate
<1>2. CASE LoopStep \/ AgentDies \/ UNCHANGED vars
  BY <1>2 DEF LoopStep, LoopRead, LoopPut, LoopClaim, LoopDone, AgentDies, vars
<1> QED BY <1>1, <1>2

\* Operations of wake-ups and rebuilds stay apart.
LEMMA ApartKept ==
  ASSUME MTypeOK, Numbers, Apart, [Next]_vars
  PROVE  Apart'
<1>1. CASE call' = call
  BY <1>1 DEF Apart, At
<1>2. CASE \E c \in Callers : CallBegin(c) \/ CallStep(c)
  <2>1. PICK c \in Callers : CallBegin(c) \/ CallStep(c)
    BY <1>2
  <2>2. \A d \in Callers \ {c} : call'[d] = call[d]
    BY <2>1, CallTakes
  <2>3. CASE call'[c].pc \notin Owning
    BY <2>2, <2>3 DEF Apart, At, Owning
  <2>4. CASE call'[c].o = NextOp /\ call[c].o = NoOp
    <3>1. \A d \in Callers : call[d].o # NextOp
      BY <2>4, NextOpFits
    <3>2. call'[c].pc \in Owning => ~(call'[c].pc = "get" /\ call'[c].pc = "rebuild")
      OBVIOUS
    <3> QED BY <2>2, <2>4, <3>1 DEF Apart, At
  <2>5. SendWake(c) \/ RebuildLease(c) => call[c].o = NoOp
    BY DEF SendWake, RebuildLease, Runs, At, Numbers, Fits, Unhanded, Early
  <2> QED BY <2>1, <2>3, <2>4, <2>5, CallTakes
<1> QED BY <1>1, <1>2, OthersTakeNothing DEF Next

\* A rebuild that is still closing the slot was so before, or has just done it.
LEMMA ClosingBefore ==
  ASSUME MTypeOK, Numbers, Apart, [Next]_vars, NEW c \in Callers, Closing(c)'
  PROVE  Closing(c) \/ RebuildGate(c)
<1>1. Gated(c)' /\ call'[c].pc \in GatedPcs /\ (call'[c].pc = "rebuild" => att'[call'[c].o].pc \in Sparing)
  BY DEF Closing, Gated, At, GatedPcs
<1>2. att \in [Ops -> AttRec] /\ (call[c].pc = "rebuild" => call[c].o \in Ops)
  BY DEF MTypeOK, Numbers, Fits, Owning
<1>3. CASE CallBegin(c) \/ CallStep(c)
  <2>1. CASE At(c, "peek") /\ call[c].kind \in Rebuilds
    BY <2>1 DEF Closing, Gated, At
  <2>2. CASE RebuildLease(c)
    BY <2>2 DEF RebuildLease, Runs, Closing, Gated, At
  <2>3. ~(SendWake(c) /\ call'[c].pc = "get")
    BY <1>1 DEF GatedPcs
  <2> QED BY <1>1, <1>3, <2>1, <2>2, <2>3, CallTakes
<1>4. CASE call'[c] = call[c] /\ (At(c, "rebuild") => (att'[call[c].o].pc \in Sparing => att[call[c].o].pc \in Sparing))
  BY <1>1, <1>4 DEF Closing, Gated, At
<1>5. CASE \E d \in Callers \ {c} : CallBegin(d) \/ CallStep(d)
  <2>1. PICK d \in Callers \ {c} : CallBegin(d) \/ CallStep(d)
    BY <1>5
  <2>2. call'[c] = call[c]
    BY <2>1, CallTakes
  <2>3. CASE UNCHANGED att
    BY <1>4, <2>2, <2>3
  <2>4. CASE \E bg, kills \in BOOLEAN : Begun(NextOp, bg, kills) /\ call[d].pc \in Unhanded
    <3>1. call[c].o # NextOp
      BY <2>1, <2>4, NextOpFits DEF Numbers, Fits
    <3>2. At(c, "rebuild") => att'[call[c].o] = att[call[c].o]
      BY <1>2, <2>4, <3>1 DEF Begun, At
    <3> QED BY <1>4, <2>2, <3>2
  <2>5. CASE SendGet(d)
    <3>1. At(c, "rebuild") => call[d].o # call[c].o
      BY <2>1, <2>5 DEF SendGet, Runs, Apart, At
    <3>2. At(c, "rebuild") => att'[call[c].o] = att[call[c].o]
      BY <1>2, <2>5, <3>1 DEF SendGet, Begun, At
    <3> QED BY <1>4, <2>2, <3>2
  <2>6. (call[d].kind # "reset") \in BOOLEAN /\ {"idle", "lease", "reserve"} \subseteq Unhanded
    BY DEF Unhanded, Early
  <2> QED
    BY <2>1, <2>3, <2>4, <2>5, <2>6 DEF CallBegin, CallStep, SendLook, SendHas, SendWake, RetryLook, RetryReserve, Ensure, RemoveBegin, StopBegin,
       RebuildLook, SendRead, SendPut, SendEnqueue, Await, RetryOpen, RebuildGate, RebuildPeek, RebuildLease,
       RebuildEnd, RemoveLoops, RemoveKill, RemovePersist, RemoveRestore, RemoveRoster, RemoveFinish, StopCoord,
       StopReg, StopLoops, Comes, Runs, At
<1>6. CASE \E o \in Ops : AttachStep(o)
  <2>1. PICK o \in Ops : AttachStep(o)
    BY <1>6
  <2>2. call' = call
    BY <2>1, OthersTakeNothing
  <2>3. \A p \in Ops \ {o} : att'[p] = att[p]
    BY <1>2, <2>1 DEF AttachStep, AttWipe, AttStart, AttKill, AttWarm, AttSpoil, AttFail, AttFailed, AttOwns,
       AttRegister, AttCommit, AttReady, AttPublish, AttStale, AttLate, AttTo
  <2>4. att'[o].pc \in Sparing => att[o].pc \in Sparing
    <3>1. att[o] \in AttRec
      BY <1>2
    <3>2. CASE AttWipe(o) \/ AttStart(o)
      BY <3>2 DEF AttWipe, AttStart, AttAt, Sparing
    <3>3. ASSUME NEW pc, AttTo(o, pc) PROVE att'[o].pc = pc
      BY <1>2, <3>1, <3>3 DEF AttTo, AttRec
    <3>4. CASE AttRegister(o)
      <4>1. CASE AttTo(o, "failed")
        BY <3>3, <4>1 DEF Sparing
      <4>2. CASE ~AttTo(o, "failed")
        <5>1. att' = [att EXCEPT ![o] = [att[o] EXCEPT !.pc = "commit", !.mine = ~loop]]
          BY <1>2, <3>1, <3>4, <4>2 DEF AttRegister
        <5>2. [att[o] EXCEPT !.pc = "commit", !.mine = ~loop].pc = "commit"
          BY <3>1 DEF AttRec
        <5> QED BY <1>2, <5>1, <5>2 DEF Sparing
      <4> QED BY <4>1, <4>2
    <3>5. CASE AttKill(o) \/ AttWarm(o) \/ AttSpoil(o) \/ AttFail(o) \/ AttFailed(o) \/ AttOwns(o) \/ AttCommit(o)
               \/ AttReady(o) \/ AttPublish(o) \/ AttStale(o) \/ AttLate(o)
      BY <3>3, <3>5 DEF AttKill, AttWarm, AttSpoil, AttFail, AttFailed, AttOwns, AttCommit, AttReady, AttPublish,
         AttStale, AttLate, Sparing
    <3> QED BY <2>1, <3>2, <3>4, <3>5 DEF AttachStep
  <2> QED BY <1>2, <1>4, <2>2, <2>3, <2>4 DEF At
<1>7. CASE LoopStep \/ AgentDies \/ UNCHANGED vars
  BY <1>4, <1>7 DEF LoopStep, LoopRead, LoopPut, LoopClaim, LoopDone, AgentDies, vars
<1> QED BY <1>3, <1>5, <1>6, <1>7 DEF Next

\* Nobody opens a slot that is being closed without leaving a trace.
LEMMA ShutKept ==
  ASSUME MTypeOK, Numbers, [Next]_vars, NEW c \in Callers, Closing(c), Closing(c)', Shut, ~loose'
  PROVE  Shut'
<1>1. Gated(c) /\ (call[c].o # NoOp => At(c, "rebuild"))
  BY DEF Closing, Numbers, Fits, Gated, At, Unhanded
<1>2. ASSUME NEW r, NEW o, SetRt(r, o), r # Open \/ o = NoOp
      PROVE  Shut'
  <2>1. r = Open => ~Rebuilding(o)
    BY <1>2 DEF SetRt
  <2>2. o = NoOp => Rebuilding(o)
    BY <1>1 DEF Rebuilding
  <2> QED BY <1>2, <2>1, <2>2 DEF SetRt, Shut
<1>3. ASSUME UNCHANGED <<rt, work>>
      PROVE  Shut'
  BY <1>3 DEF Shut
<1>4. \A o : Starts(o) # Open /\ Fails(o) # Open
  BY DEF Starts, Fails, Open, Constraint
<1>5. CASE \E d \in Callers : CallBegin(d)
  BY <1>3, <1>5 DEF CallBegin, SendLook, RetryLook, Ensure, RemoveBegin, StopBegin, RebuildLook, coord
<1>6. CASE \E d \in Callers : CallStep(d)
  <2>1. PICK d \in Callers : CallStep(d)
    BY <1>6
  <2>2. CASE SendPut(d) \/ RetryOpen(d) \/ StopCoord(d)
    BY <1>2, <1>3, <2>2 DEF SendPut, RetryOpen, StopCoord, coord
  <2>3. CASE SendEnqueue(d)
    BY <2>3 DEF SendEnqueue, coord, Shut
  <2>4. CASE RebuildGate(d)
    BY <1>4, <2>4 DEF RebuildGate, coord, Shut
  <2>5. ASSUME AbortGate(d), To(d, "done") PROVE Shut'
    <3>1. CASE d = c
      <4>1. call'[c].pc = "done"
        BY <2>5, <3>1 DEF To, MTypeOK, CallRec
      <4> QED BY <4>1 DEF Closing, Gated
    <3>2. CASE d # c
      BY <1>1, <1>3, <2>5, <3>2 DEF AbortGate, coord
    <3> QED BY <3>1, <3>2
  <2>6. CASE RebuildPeek(d) \/ RebuildLease(d)
    BY <1>3, <2>5, <2>6 DEF RebuildPeek, RebuildLease, coord
  <2> QED BY <1>3, <2>1, <2>2, <2>3, <2>4, <2>6 DEF CallStep, SendHas, SendWake, RetryReserve, SendGet, SendRead, Await, RebuildEnd, RemoveLoops,
          RemoveKill, RemovePersist, RemoveRestore, RemoveRoster, RemoveFinish, StopReg, StopLoops, coord
<1>7. CASE \E o \in Ops : AttachStep(o)
  <2>1. PICK o \in Ops : AttachStep(o)
    BY <1>7
  <2>2. CASE AttStart(o) \/ AttFailed(o) \/ AttLate(o)
    BY <1>2, <1>3, <1>4, <2>2 DEF AttStart, AttFailed, AttLate, coord
  <2>3. CASE AttReady(o)
    <3>1. ~(call[c].o = o /\ At(c, "rebuild"))
      <4>1. att'[o].pc = "publish" /\ call' = call
        BY <2>3 DEF AttReady, AttTo, MTypeOK, AttRec
      <4> QED BY <4>1 DEF Closing, At, Sparing
    <3>2. call[c].o = NoOp \/ call[c].o # o
      BY <1>1, <3>1
    <3>3. loose'
      BY <1>1, <2>3, <3>2 DEF AttReady, SetRt, Rebuilding
    <3> QED BY <3>3
  <2> QED BY <1>3, <2>1, <2>2, <2>3 DEF AttachStep, AttWipe, AttKill, AttWarm, AttSpoil, AttFail, AttOwns,
          AttRegister, AttCommit, AttPublish, AttStale, coord
<1>8. CASE LoopStep
  BY <1>2, <1>3, <1>8 DEF LoopStep, LoopRead, LoopPut, LoopClaim, LoopDone, coord, Shut
<1>9. CASE AgentDies \/ UNCHANGED vars
  BY <1>3, <1>9 DEF AgentDies, vars, coord
<1> QED BY <1>5, <1>6, <1>7, <1>8, <1>9 DEF Next

\* The trace is never wiped.
LEMMA LooseStays == ASSUME [Next]_vars, loose PROVE loose'
<1>1. CASE \E c \in Callers : CallBegin(c) \/ CallStep(c)
  BY <1>1 DEF CallBegin, CallStep, SendLook, SendHas, SendWake, RetryLook, RetryReserve, Ensure, RemoveBegin, StopBegin, RebuildLook, SendGet, SendRead,
     SendPut, SendEnqueue, Await, RetryOpen, RebuildGate, RebuildPeek, RebuildLease, RebuildEnd, RemoveLoops,
     RemoveKill, RemovePersist, RemoveRestore, RemoveRoster, RemoveFinish, StopCoord, StopReg, StopLoops, past, Kill,
     SetRt, AbortGate
<1>2. CASE \E o \in Ops : AttachStep(o)
  BY <1>2 DEF AttachStep, AttWipe, AttStart, AttKill, AttWarm, AttSpoil, AttFail, AttFailed, AttOwns, AttRegister,
     AttCommit, AttReady, AttPublish, AttStale, AttLate, past, Kill, SetRt
<1>3. CASE LoopStep \/ AgentDies \/ UNCHANGED vars
  BY <1>3 DEF LoopStep, LoopRead, LoopPut, LoopClaim, LoopDone, AgentDies, vars, past, SetRt
<1> QED BY <1>1, <1>2, <1>3 DEF Next

-----------------------------------------------------------------------------
(* Removals, and the attaches they race with *)

\* The session is published, and no attach has escaped its removal.
Watched == published /\ ~leftover

\* A removal between its lease and its end, between its lease and what decides it.
HolderPcs   == {"loop", "kill", "persist", "again", "rekill", "roster", "restore", "finish"}
RemovingPcs == {"loop", "kill", "persist", "again", "rekill", "roster"}
Holds(c)    == call[c].pc \in HolderPcs /\ call[c].o # NoOp
UnderWay    == \E c \in Callers : call[c].pc \in RemovingPcs

\* An attach that has not committed yet, or is taking back what it did.
Busy(o) == att[o].pc \in Working

\* Or is about to begin.
Taken(o) == Busy(o) \/ \E c \in Callers : At(c, "get") /\ call[c].o = o

Served  == agent = "live" \/ died
Attaching(o) == entry = [st |-> "Attaching", o |-> o]

\* What is left of the loop and the agent, an attach under way will take away.
LoopDoomed  == loop => \E o \in Ops : AttAt(o, "commit") /\ att[o].mine
AgentDoomed == agent = "live" => \E o \in Ops : att[o].pc \in {"owns", "register", "commit", "stale"}

\* What is stopped or being stopped was unpublished first.
StopPart == stopped \/ shut \/ (\E c \in Callers : call[c].pc \in {"coord", "reg", "shut"}) => ~published

\* A removal ends its lease after the member has left the roster.
FinishPart == \A c \in Callers : At(c, "finish") => ~member

\* An operation that was not handed out has no attach, nor has one whose owner looks for its agent.
GetPart ==
  /\ \A o \in Ops : o > ops => att[o].pc = "none"
  /\ \A c \in Callers : At(c, "get") =>
       /\ att[call[c].o].pc = "none"
       /\ \A d \in Callers \ {c} : At(d, "get") => call[d].o # call[c].o

\* A removal that has a lease has the entry, and is the only one.
HoldPart ==
  Watched => \A c \in Callers : Holds(c) =>
    /\ entry = [st |-> "Removing", o |-> call[c].o]
    /\ \A d \in Callers : Holds(d) => d = c

\* A member without an entry is dormant.
FreshPart ==
  Watched /\ member /\ EntryIs("Absent") =>
    /\ ~loop /\ agent = "none" /\ \A o \in Ops : att[o].pc = "none"
    /\ \A c \in Callers : ~At(c, "get")

\* One attach is at work or about to be, and the entry is its own unless a removal has taken it.
UniquePart ==
  Watched /\ member =>
    /\ \A o, p \in Ops : Taken(o) /\ Taken(p) => o = p
    /\ ~EntryIs("Removing") => \A o \in Ops : Taken(o) => Attaching(o)

\* A removal that was taken back gives the entry to others only when no attach is at work.
RestorePart ==
  \A c \in Callers : At(c, "restore") =>
    call[c].o # NoOp /\ (Watched /\ member => \A o \in Ops : ~Taken(o))

\* Without a removal under way, what the attach at work and the entry promise is there.
ServedPart ==
  Watched /\ member /\ ~UnderWay /\ ~EntryIs("Removing") =>
    /\ \A o \in Ops : /\ att[o].pc \in {"owns", "register", "commit"} => Served
                      /\ AttAt(o, "commit") => loop
    /\ EntryIs("Ready") => loop /\ Served

\* What a removal finds after its second kill, an attach under way will take away.
GonePart ==
  Watched =>
    /\ \A c \in Callers : Holds(c) => /\ call[c].pc \in {"rekill", "roster"} => LoopDoomed
                                      /\ At(c, "roster") => AgentDoomed
    /\ ~member => LoopDoomed /\ AgentDoomed /\ \A o \in Ops : Attaching(o) => att[o].pc = "none"

\* An entry is its state and its operation.
LEMMA EntryShape ==
  ASSUME MTypeOK
  PROVE  /\ entry = [st |-> entry.st, o |-> entry.o] /\ entry.o \in 0..MaxOps
         /\ \A st, o : entry = [st |-> st, o |-> o] <=> entry.st = st /\ entry.o = o
BY DEF MTypeOK

-----------------------------------------------------------------------------
(* What the steps do to the parts that removals and attaches share *)

core == <<entry, stopped, ops, loop, shut, agent, died, member, published, leftover, att>>

OthersCall(c) == \A d \in Callers \ {c} : call'[d] = call[d]
Goes(c, pc) == call'[c].pc = pc /\ call'[c].o = call[c].o /\ OthersCall(c)

Stopping == {"coord", "reg", "shut"}

\* A call that has no part in a removal goes on, or joins an operation of another.
CallPasses(c) ==
  /\ call[c].pc \notin HolderPcs \cup Stopping /\ call'[c].pc \notin HolderPcs \cup Stopping \cup {"get"}
  /\ OthersCall(c) /\ UNCHANGED core

\* A message reserves an attach, and begins it.
CallWakes(c) ==
  /\ At(c, "wake") /\ call'[c].pc = "get" /\ call'[c].o = NextOp /\ OthersCall(c)
  /\ ~stopped /\ EntryIs("Absent")
  /\ entry' = [st |-> "Attaching", o |-> NextOp] /\ ops' = NextOp
  /\ UNCHANGED <<stopped, loop, shut, agent, died, member, published, leftover, att>>
CallGets(c) ==
  /\ At(c, "get") /\ member /\ Goes(c, "read")
  /\ att'[call[c].o].pc = "start" /\ \A o \in Ops \ {call[c].o} : att'[o] = att[o]
  /\ UNCHANGED <<entry, stopped, ops, loop, shut, agent, died, member, published, leftover>>

\* Another caller reserves an attach and begins it at once.
CallAttaches(c) ==
  /\ call[c].pc \in {"idle", "reserve", "lease"} /\ call'[c].pc \in {"done", "await", "rebuild"} /\ OthersCall(c)
  /\ ~stopped /\ entry.st \in {"Absent", "Ready", "Failed"}
  /\ entry' = [st |-> "Attaching", o |-> NextOp] /\ ops' = NextOp
  /\ att'[NextOp].pc \in {"wipe", "start"} /\ \A o \in Ops \ {NextOp} : att'[o] = att[o]
  /\ leftover' = (leftover \/ ~member)
  /\ UNCHANGED <<stopped, loop, shut, agent, died, member, published>>

\* A removal takes the entry, or begins without.
CallLeases(c) ==
  /\ At(c, "idle") /\ call'[c].pc = "loop" /\ call'[c].o = NextOp /\ OthersCall(c)
  /\ member /\ entry.st \in {"Attaching", "Ready", "Failed"}
  /\ entry' = [st |-> "Removing", o |-> NextOp] /\ ops' = NextOp
  /\ UNCHANGED <<stopped, loop, shut, agent, died, member, published, leftover, att>>
CallSweeps(c) ==
  /\ At(c, "idle") /\ call[c].o = NoOp /\ Goes(c, "loop") /\ UNCHANGED core

\* It kills, twice.
CallUnloops(c) ==
  /\ \/ At(c, "loop") /\ Goes(c, "kill")
     \/ At(c, "again") /\ Goes(c, "rekill")
  /\ loop' = FALSE /\ UNCHANGED <<entry, stopped, ops, shut, agent, died, member, published, leftover, att>>
CallKills(c) ==
  /\ \/ At(c, "kill") /\ Goes(c, "persist")
     \/ At(c, "rekill") /\ Goes(c, "roster")
  /\ agent' = "none" /\ UNCHANGED <<entry, stopped, ops, loop, shut, member, published, leftover, att>>

\* Between the kills it is persisted, or left where it is, or taken back.
CallPersists(c) ==
  /\ At(c, "persist") /\ UNCHANGED core
  /\ Goes(c, "again") \/ (Goes(c, "done") /\ (~published \/ call[c].o # NoOp))
CallYields(c) ==
  /\ At(c, "persist") /\ Goes(c, IF call[c].o = NoOp THEN "done" ELSE "restore")
  /\ leftover' = (leftover \/ Unleased(c))
  /\ UNCHANGED <<entry, stopped, ops, loop, shut, agent, died, member, published, att>>
CallRestores(c) ==
  /\ At(c, "restore") /\ Goes(c, "done")
  /\ \/ entry' = entry
     \/ entry = [st |-> "Removing", o |-> call[c].o] /\ entry' = [st |-> "Failed", o |-> call[c].o]
  /\ UNCHANGED <<stopped, ops, loop, shut, agent, died, member, published, leftover, att>>

\* The member leaves the roster, the entry goes.
CallUnlists(c) ==
  /\ At(c, "roster") /\ Goes(c, IF call[c].o = NoOp THEN "done" ELSE "finish")
  /\ member' = FALSE /\ leftover' = (leftover \/ (call[c].o = NoOp /\ Unleased(c)))
  /\ UNCHANGED <<entry, stopped, ops, loop, shut, agent, died, published, att>>
CallFinishes(c) ==
  /\ At(c, "finish") /\ Goes(c, "done")
  /\ \/ entry' = entry
     \/ entry = [st |-> "Removing", o |-> call[c].o] /\ entry' = [st |-> "Absent", o |-> NoOp]
  /\ UNCHANGED <<stopped, ops, loop, shut, agent, died, member, published, leftover, att>>

\* The session stops, which was unpublished first.
CallStops(c) ==
  /\ call[c].pc \in {"idle"} \cup Stopping /\ call'[c].pc \in Stopping \cup {"done"} /\ OthersCall(c)
  /\ ~published' /\ UNCHANGED <<ops, member, att>>

CallEffect(c) ==
  \/ CallPasses(c) \/ CallWakes(c) \/ CallGets(c) \/ CallAttaches(c) \/ CallLeases(c) \/ CallSweeps(c)
  \/ CallUnloops(c) \/ CallKills(c) \/ CallPersists(c) \/ CallYields(c) \/ CallRestores(c)
  \/ CallUnlists(c) \/ CallFinishes(c) \/ CallStops(c)

\* A call does one of these.
LEMMA CallEffects ==
  ASSUME MTypeOK, Numbers, StopPart, NEW c \in Callers, CallBegin(c) \/ CallStep(c)
  PROVE  CallEffect(c)
<1> USE DEF reg, loops, outside, past
<1>1. call \in [Callers -> CallRec] /\ call[c] \in CallRec /\ Fits(call[c]) /\ att \in [Ops -> AttRec]
      /\ MaxOps \in Nat /\ \A o \in Ops : att[o] \in AttRec
  BY OpsAreFinite DEF MTypeOK, Numbers
<1>2. ASSUME NEW pc, To(c, pc)
      PROVE  Goes(c, pc) /\ call'[c].pc = pc /\ OthersCall(c)
  <2>1. [call[c] EXCEPT !.pc = pc].pc = pc /\ [call[c] EXCEPT !.pc = pc].o = call[c].o
    BY <1>1 DEF CallRec
  <2> QED BY <1>1, <1>2, <2>1 DEF To, Goes, OthersCall
<1>3. ASSUME NEW pc, NEW k, Enter(c, k, pc)
      PROVE  Goes(c, pc) /\ call'[c].pc = pc /\ OthersCall(c)
  <2>1. [call[c] EXCEPT !.kind = k, !.pc = pc].pc = pc /\ [call[c] EXCEPT !.kind = k, !.pc = pc].o = call[c].o
    BY <1>1 DEF CallRec
  <2>2. call' = [call EXCEPT ![c] = [call[c] EXCEPT !.kind = k, !.pc = pc]]
    BY <1>1, <1>3 DEF Enter
  <2> QED BY <1>1, <2>1, <2>2 DEF Goes, OthersCall
<1>4. ASSUME NEW pc, NEW k, NEW o, Hold(c, k, pc, o)
      PROVE  call'[c].pc = pc /\ call'[c].o = o /\ OthersCall(c)
  <2> DEFINE r == [call[c] EXCEPT !.kind = k, !.pc = pc, !.o = o]
  <2>1. r.pc = pc /\ r.o = o
    BY <1>1 DEF CallRec
  <2>2. call' = [call EXCEPT ![c] = r]
    BY <1>1, <1>4 DEF Hold
  <2> HIDE DEF r
  <2> QED BY <1>1, <2>1, <2>2 DEF OthersCall
<1>5. ASSUME NEW o \in Ops, NEW bg, NEW kills, Begun(o, bg, kills)
      PROVE  /\ att'[o].pc \in {"wipe", "start"} /\ (kills = TRUE => att'[o].pc = "start")
             /\ \A p \in Ops \ {o} : att'[p] = att[p]
  <2> DEFINE pc == IF kills THEN "start" ELSE "wipe"
             r  == [NoAtt EXCEPT !.pc = pc, !.bg = bg, !.kills = kills]
  <2>1. r.pc = pc
    BY DEF NoAtt
  <2>2. att' = [att EXCEPT ![o] = r]
    BY <1>1, <1>5 DEF Begun
  <2> HIDE DEF r
  <2> QED BY <1>1, <2>1, <2>2
<1>6. ASSUME NEW pc, call[c].pc \notin HolderPcs \cup Stopping, pc \notin HolderPcs \cup Stopping \cup {"get"},
             call'[c].pc = pc, OthersCall(c), UNCHANGED core
      PROVE  CallEffect(c)
  BY <1>6 DEF CallPasses, CallEffect
<1>7. call[c].pc \in {"idle", "wake", "reserve", "lease"} => call[c].o = NoOp /\ NextOp \in Ops
  BY <1>1, NextOpFits DEF Fits, Unhanded, Early
<1>b. leftover \in BOOLEAN /\ member \in BOOLEAN
  BY DEF MTypeOK
<1>a. CASE SendLook(c) \/ RetryLook(c) \/ SendHas(c)
  BY <1>2, <1>3, <1>6, <1>a DEF SendLook, RetryLook, SendHas, Comes, Runs, At, core, HolderPcs, Stopping
<1>8. CASE SendWake(c)
  <2>1. CASE To(c, "read") /\ UNCHANGED reg
    BY <1>2, <1>6, <1>8, <2>1 DEF SendWake, Runs, At, core, HolderPcs, Stopping
  <2>2. CASE Reservable(FALSE) /\ StartAttach /\ Hold(c, "send", "get", NextOp)
    BY <1>4, <1>8, <2>2 DEF SendWake, Runs, At, Reservable, StartAttach, Hand, CallWakes, CallEffect
  <2> QED BY <1>8, <2>1, <2>2 DEF SendWake
<1>9. CASE RetryReserve(c)
  <2>1. CASE /\ Reservable(TRUE) /\ StartAttach /\ Begun(NextOp, TRUE, TRUE) /\ Hold(c, "retry", "done", NextOp)
             /\ leftover' = (leftover \/ ~member)
    <3>1. entry.st \in {"Absent", "Failed"} /\ ~stopped
      BY <2>1 DEF Reservable, EntryIs
    <3>2. att'[NextOp].pc \in {"wipe", "start"} /\ \A o \in Ops \ {NextOp} : att'[o] = att[o]
      BY <1>5, <1>7, <1>9, <2>1 DEF RetryReserve, Runs, At
    <3> QED BY <1>4, <1>9, <2>1, <3>1, <3>2 DEF RetryReserve, Runs, At, StartAttach, Hand, CallAttaches, CallEffect
  <2>2. CASE /\ UNCHANGED <<reg, att, leftover>>
             /\ Hold(c, "retry", "await", entry.o) \/ To(c, IF stopped THEN "done" ELSE "open")
    <3>1. \E pc \in {"await", "done", "open"} : call'[c].pc = pc /\ OthersCall(c)
      BY <1>2, <1>4, <2>2
    <3> QED BY <1>6, <1>9, <2>2, <3>1 DEF RetryReserve, Runs, At, core, HolderPcs, Stopping
  <2> QED BY <1>9, <2>1, <2>2 DEF RetryReserve
<1>10. CASE Ensure(c)
  <2>1. CASE /\ EntryIs("Failed") \/ EntryIs("Ready")
             /\ StartAttach /\ Begun(NextOp, FALSE, TRUE) /\ Hold(c, "ensure", "await", NextOp)
    <3>1. entry.st \in {"Ready", "Failed"} /\ ~stopped /\ leftover' = (leftover \/ ~member)
      BY <1>10, <1>b, <2>1 DEF Ensure, Comes, EntryIs
    <3>2. att'[NextOp].pc \in {"wipe", "start"} /\ \A o \in Ops \ {NextOp} : att'[o] = att[o]
      BY <1>5, <1>7, <1>10, <2>1 DEF Ensure, Comes, At
    <3> QED BY <1>4, <1>10, <2>1, <3>1, <3>2 DEF Ensure, Comes, At, StartAttach, Hand, CallAttaches, CallEffect
  <2>2. CASE UNCHANGED <<reg, att>> /\ Hold(c, "ensure", "await", entry.o)
    BY <1>4, <1>6, <1>10, <2>2 DEF Ensure, Comes, At, core, HolderPcs, Stopping
  <2> QED BY <1>10, <2>1, <2>2 DEF Ensure
<1>11. CASE RemoveBegin(c)
  <2>1. CASE /\ entry.st \in {"Attaching", "Ready", "Failed"} /\ BeginRemove /\ Hold(c, "remove", "loop", NextOp)
    BY <1>4, <1>11, <2>1 DEF RemoveBegin, Comes, At, BeginRemove, Hand, CallLeases, CallEffect
  <2>2. CASE Hold(c, "remove", "await", entry.o) /\ UNCHANGED reg
    BY <1>4, <1>6, <1>11, <2>2 DEF RemoveBegin, Comes, At, core, HolderPcs, Stopping
  <2>3. CASE Enter(c, "remove", "loop") /\ UNCHANGED reg
    BY <1>3, <1>7, <1>11, <2>3 DEF RemoveBegin, Comes, At, core, CallSweeps, CallEffect
  <2> QED BY <1>11, <2>1, <2>2, <2>3 DEF RemoveBegin
<1>12. CASE StopBegin(c)
  BY <1>3, <1>12 DEF StopBegin, Comes, At, Stopping, CallStops, CallEffect
<1>13. CASE \E k \in Rebuilds : RebuildLook(c, k)
  BY <1>3, <1>6, <1>13 DEF RebuildLook, Comes, At, core, HolderPcs, Stopping
<1>14. CASE SendGet(c)
  <2>1. CASE member /\ Begun(call[c].o, TRUE, TRUE) /\ To(c, "read")
    BY <1>1, <1>2, <1>5, <1>14, <2>1 DEF SendGet, Runs, At, Fits, Owning, CallGets, CallEffect
  <2>2. CASE To(c, "done") /\ UNCHANGED att
    BY <1>2, <1>6, <1>14, <2>2 DEF SendGet, Runs, At, core, HolderPcs, Stopping
  <2> QED BY <1>14, <2>1, <2>2 DEF SendGet
<1>15. CASE SendRead(c)
  <2>1. [call[c] EXCEPT !.pc = "put", !.rt = Snapshot].pc = "put"
    BY <1>1 DEF CallRec
  <2>2. call' = [call EXCEPT ![c] = [call[c] EXCEPT !.pc = "put", !.rt = Snapshot]]
    BY <1>1, <1>15 DEF SendRead
  <2>3. call'[c].pc = "put" /\ OthersCall(c)
    BY <1>1, <2>1, <2>2 DEF OthersCall
  <2> QED BY <1>6, <1>15, <2>3 DEF SendRead, Runs, At, core, HolderPcs, Stopping
<1>16. CASE SendPut(c) \/ SendEnqueue(c)
  BY <1>2, <1>6, <1>16 DEF SendPut, SendEnqueue, SetRt, Notified, Runs, At, core, HolderPcs, Stopping
<1>17. CASE Await(c) \/ RetryOpen(c) \/ RebuildEnd(c)
  BY <1>2, <1>6, <1>17 DEF Await, RetryOpen, RebuildEnd, SetRt, Notified, At, core, HolderPcs, Stopping
<1>18. CASE RebuildGate(c)
  <2>1. CASE To(c, "done")
    BY <1>2, <1>6, <1>18, <2>1 DEF RebuildGate, Runs, At, core, HolderPcs, Stopping
  <2>2. CASE ~To(c, "done")
    <3> DEFINE pc == IF call[c].kind = "reset" THEN "peek" ELSE "lease"
               r  == [call[c] EXCEPT !.pc = pc, !.gate = gates + 1, !.rt = rt]
    <3>1. call' = [call EXCEPT ![c] = r]
      BY <1>1, <1>18, <2>2 DEF RebuildGate
    <3>2. r.pc \in {"peek", "lease"}
      BY <1>1 DEF CallRec
    <3> HIDE DEF r
    <3>3. call'[c].pc \in {"peek", "lease"} /\ OthersCall(c)
      BY <1>1, <3>1, <3>2 DEF OthersCall
    <3> QED BY <1>6, <1>18, <3>3 DEF RebuildGate, Runs, At, core, HolderPcs, Stopping
  <2> QED BY <2>1, <2>2
<1>19. CASE RebuildPeek(c)
  BY <1>2, <1>6, <1>19 DEF RebuildPeek, AbortGate, Runs, At, core, HolderPcs, Stopping
<1>20. CASE RebuildLease(c)
  <2>1. CASE UNCHANGED <<reg, att, leftover>> /\ To(c, "done")
    BY <1>2, <1>6, <1>20, <2>1 DEF RebuildLease, Runs, At, core, HolderPcs, Stopping
  <2>2. CASE /\ ~stopped /\ entry.st \in {"Absent", "Ready", "Failed"} /\ StartAttach
             /\ Begun(NextOp, FALSE, call[c].kind # "reset") /\ Hold(c, call[c].kind, "rebuild", NextOp)
             /\ leftover' = (leftover \/ ~member)
    <3>1. /\ att'[NextOp].pc \in {"wipe", "start"} /\ \A p \in Ops \ {NextOp} : att'[p] = att[p]
      BY <1>5, <1>7, <1>20, <2>2 DEF RebuildLease, Runs, At
    <3>2. call'[c].pc = "rebuild" /\ OthersCall(c)
      BY <1>4, <2>2
    <3> QED BY <1>20, <2>2, <3>1, <3>2 DEF RebuildLease, Runs, At, StartAttach, Hand, CallAttaches, CallEffect
  <2> QED BY <1>20, <2>1, <2>2 DEF RebuildLease
<1>21. CASE RemoveLoops(c)
  BY <1>2, <1>21 DEF RemoveLoops, RemoveLoop, At, CallUnloops, CallEffect
<1>22. CASE RemoveKill(c)
  BY <1>2, <1>22 DEF RemoveKill, Kill, At, CallKills, CallEffect
<1>23. CASE RemovePersist(c)
  <2>1. CASE To(c, IF published THEN "again" ELSE "done") /\ UNCHANGED past
    BY <1>2, <1>23, <2>1 DEF RemovePersist, Runs, At, core, CallPersists, CallEffect
  <2>2. CASE To(c, IF call[c].o = NoOp THEN "done" ELSE "restore") /\ leftover' = (leftover \/ Unleased(c))
             /\ UNCHANGED died
    BY <1>2, <1>23, <2>2 DEF RemovePersist, Runs, At, CallYields, CallEffect
  <2>3. CASE call[c].o # NoOp /\ To(c, "done") /\ UNCHANGED <<leftover, died>>
    BY <1>2, <1>23, <2>3 DEF RemovePersist, Runs, At, core, CallPersists, CallEffect
  <2> QED BY <1>23, <2>1, <2>2, <2>3 DEF RemovePersist
<1>24. CASE RemoveRestore(c)
  BY <1>2, <1>24, EntryShape DEF RemoveRestore, RestoreAttach, EntryIs, At, CallRestores, CallEffect
<1>25. CASE RemoveRoster(c)
  BY <1>2, <1>25 DEF RemoveRoster, At, CallUnlists, CallEffect
<1>26. CASE RemoveFinish(c)
  BY <1>2, <1>26, EntryShape DEF RemoveFinish, FinishRemove, EntryIs, At, CallFinishes, CallEffect
<1>27. CASE StopCoord(c) \/ StopReg(c) \/ StopLoops(c)
  <2>1. ~published
    BY <1>27 DEF StopCoord, StopReg, StopLoops, At, StopPart
  <2> QED BY <1>2, <1>27, <2>1 DEF StopCoord, StopReg, StopLoops, StopRegistry, At, Stopping, CallStops, CallEffect
<1> QED
  BY <1>a, <1>8, <1>9, <1>10, <1>11, <1>12, <1>13, <1>14, <1>15, <1>16, <1>17, <1>18, <1>19, <1>20, <1>21, <1>22,
     <1>23, <1>24, <1>25, <1>26, <1>27 DEF CallBegin, CallStep

\* What an attach leaves alone, whatever it does.
AttFrame(o) ==
  /\ \A p \in Ops \ {o} : att'[p] = att[p]
  /\ UNCHANGED <<stopped, ops, shut, member, published, leftover, call>>

\* An attach prepares: what it kills or fails to start is its own.
AttPrepares(o) ==
  /\ att[o].pc \in {"wipe", "start", "kill", "warm", "spoil"}
  /\ att'[o].pc \in {"start", "kill", "warm", "spoil", "fail"}
  /\ agent' \in {agent, "none"} /\ UNCHANGED <<entry, loop>>
AttWarms(o) ==
  /\ AttAt(o, "warm") /\ att'[o].pc = "owns" /\ agent' = "live" /\ UNCHANGED <<entry, loop>>

\* It fails, for itself only.
AttFails(o) ==
  /\ AttAt(o, "fail")
  /\ \/ Owns(o) /\ entry' = [st |-> "Failed", o |-> o] /\ att'[o].pc = "failed"
     \/ entry' = entry /\ ~Owns(o) /\ att'[o].pc = "done"
  /\ UNCHANGED <<agent, died, loop>>

\* It goes on while it owns the entry, and gives its loop back if it does not.
AttChecks(o) ==
  /\ AttAt(o, "owns") /\ att'[o].pc = (IF Owns(o) THEN "register" ELSE "stale")
  /\ UNCHANGED <<entry, agent, died, loop>>
AttRegisters(o) ==
  /\ AttAt(o, "register") /\ att'[o].pc = "commit" /\ att'[o].mine = ~loop /\ loop'
  /\ UNCHANGED <<entry, agent, died>>
AttShutOut(o) ==
  /\ AttAt(o, "register") /\ shut /\ att'[o].pc = "failed" /\ agent' = "none" /\ UNCHANGED <<entry, loop>>
AttCommits(o) ==
  /\ AttAt(o, "commit") /\ Owns(o) /\ att'[o].pc = "ready" /\ entry' = [st |-> "Ready", o |-> NoOp]
  /\ UNCHANGED <<agent, died, loop>>
AttYields(o) ==
  /\ AttAt(o, "commit") /\ ~Owns(o) /\ att'[o].pc = "stale" /\ loop' = (loop /\ ~att[o].mine)
  /\ UNCHANGED <<entry, agent, died>>

\* After its end it only talks to others, unless the session was unpublished.
AttTells(o) ==
  /\ att[o].pc \in {"failed", "ready", "publish", "late"} /\ att'[o].pc \in {"publish", "late", "done"}
  /\ UNCHANGED <<entry, agent, died, loop>>
AttOusted(o) == AttAt(o, "publish") /\ ~published /\ att'[o].pc = "stale" /\ UNCHANGED entry
AttCleans(o) ==
  /\ AttAt(o, "stale") /\ att'[o].pc = "done" /\ agent' = "none" /\ UNCHANGED <<entry, loop>>

AttEffect(o) ==
  /\ AttFrame(o)
  /\ \/ AttPrepares(o) \/ AttWarms(o) \/ AttFails(o) \/ AttChecks(o) \/ AttRegisters(o) \/ AttShutOut(o)
     \/ AttCommits(o) \/ AttYields(o) \/ AttTells(o) \/ AttOusted(o) \/ AttCleans(o)

\* An attach does one of these.
LEMMA AttEffects ==
  ASSUME MTypeOK, NEW o \in Ops, AttachStep(o)
  PROVE  AttEffect(o)
<1> USE DEF reg, loops, past
<1>1. att \in [Ops -> AttRec] /\ att[o] \in AttRec /\ loop \in BOOLEAN
  BY DEF MTypeOK
<1>2. ASSUME NEW pc, AttTo(o, pc)
      PROVE  att'[o].pc = pc /\ \A p \in Ops \ {o} : att'[p] = att[p]
  <2>1. [att[o] EXCEPT !.pc = pc].pc = pc
    BY <1>1 DEF AttRec
  <2> QED BY <1>1, <1>2, <2>1 DEF AttTo
<1>3. CASE AttWipe(o) \/ AttStart(o) \/ AttKill(o) \/ AttSpoil(o)
  <2>1. /\ att[o].pc \in {"wipe", "start", "kill", "spoil"} /\ agent' \in {agent, "none"}
        /\ UNCHANGED <<entry, loop, stopped, ops, shut, member, published, leftover, call>>
    BY <1>3 DEF AttWipe, AttStart, AttKill, AttSpoil, AttAt, Kill, SetRt
  <2>2. \E pc \in {"start", "kill", "warm", "spoil", "fail"} : AttTo(o, pc)
    BY <1>3 DEF AttWipe, AttStart, AttKill, AttSpoil
  <2> QED BY <1>2, <2>1, <2>2 DEF AttPrepares, AttFrame, AttEffect
<1>4. CASE AttWarm(o)
  BY <1>2, <1>4 DEF AttWarm, AttAt, AttPrepares, AttWarms, AttFrame, AttEffect
<1>5. CASE AttFail(o)
  BY <1>2, <1>5 DEF AttFail, AttAt, CommitFailed, AttFails, AttFrame, AttEffect
<1>6. CASE AttOwns(o)
  BY <1>2, <1>6 DEF AttOwns, AttAt, AttChecks, AttFrame, AttEffect
<1>7. CASE AttRegister(o)
  <2>1. CASE loop \/ ~shut
    <3>1. [att[o] EXCEPT !.pc = "commit", !.mine = ~loop].pc = "commit"
          /\ [att[o] EXCEPT !.pc = "commit", !.mine = ~loop].mine = ~loop
      BY <1>1 DEF AttRec
    <3>2. att' = [att EXCEPT ![o] = [att[o] EXCEPT !.pc = "commit", !.mine = ~loop]]
      BY <1>1, <1>7, <2>1 DEF AttRegister
    <3>3. att'[o].pc = "commit" /\ att'[o].mine = ~loop /\ \A p \in Ops \ {o} : att'[p] = att[p]
      BY <1>1, <3>1, <3>2
    <3> QED BY <1>7, <2>1, <3>3 DEF AttRegister, AttAt, AttRegisters, AttFrame, AttEffect
  <2>2. CASE ~(loop \/ ~shut)
    <3>1. AttTo(o, "failed") /\ shut
      BY <1>7, <2>2 DEF AttRegister, MTypeOK
    <3> QED BY <1>2, <1>7, <2>2, <3>1 DEF AttRegister, AttAt, Kill, AttShutOut, AttFrame, AttEffect
  <2> QED BY <2>1, <2>2
<1>8. CASE AttCommit(o)
  <2>1. CASE CommitReady(o) /\ AttTo(o, "ready") /\ UNCHANGED loops
    BY <1>2, <1>8, <2>1 DEF AttCommit, AttAt, CommitReady, AttCommits, AttFrame, AttEffect
  <2>2. CASE ~Owns(o) /\ AttTo(o, "stale") /\ UNCHANGED reg /\ (IF att[o].mine THEN RemoveLoop ELSE UNCHANGED loops)
    <3>1. loop' = (loop /\ ~att[o].mine) /\ shut' = shut
      BY <1>1, <2>2 DEF RemoveLoop, AttRec
    <3> QED BY <1>2, <1>8, <2>2, <3>1 DEF AttCommit, AttAt, AttYields, AttFrame, AttEffect
  <2> QED BY <1>8, <2>1, <2>2 DEF AttCommit
<1>9. CASE AttFailed(o) \/ AttReady(o) \/ AttLate(o)
  <2>1. /\ att[o].pc \in {"failed", "ready", "late"}
        /\ UNCHANGED <<entry, loop, agent, died, stopped, ops, shut, member, published, leftover, call>>
    BY <1>9 DEF AttFailed, AttReady, AttLate, AttAt, SetRt, Notified
  <2>2. \E pc \in {"done", "publish"} : AttTo(o, pc)
    BY <1>9 DEF AttFailed, AttReady, AttLate
  <2> QED BY <1>2, <2>1, <2>2 DEF AttTells, AttFrame, AttEffect
<1>10. CASE AttPublish(o)
  <2>1. CASE published
    <3>1. \E pc \in {"late", "done"} : AttTo(o, pc)
      BY <1>10, <2>1 DEF AttPublish
    <3> QED BY <1>2, <1>10, <2>1, <3>1 DEF AttPublish, AttAt, AttTells, AttFrame, AttEffect
  <2>2. CASE ~published
    BY <1>2, <1>10, <2>2 DEF AttPublish, AttAt, RemoveLoop, AttOusted, AttFrame, AttEffect
  <2> QED BY <2>1, <2>2
<1>11. CASE AttStale(o)
  BY <1>2, <1>11 DEF AttStale, AttAt, Kill, AttCleans, AttFrame, AttEffect
<1> QED BY <1>3, <1>4, <1>5, <1>6, <1>7, <1>8, <1>9, <1>10, <1>11 DEF AttachStep

\* The event loop has no part in it; an agent that dies is known to have died.
LEMMA RestEffects ==
  ASSUME LoopStep \/ AgentDies \/ UNCHANGED vars
  PROVE  /\ UNCHANGED <<entry, stopped, ops, loop, shut, member, published, leftover, att, call>>
         /\ \/ agent' = agent /\ died' = died
            \/ agent' = "none" /\ died'
BY DEF LoopStep, LoopRead, LoopPut, LoopClaim, LoopDone, AgentDies, SetRt, vars, reg, loops, past, outside

\* All that removals and attaches owe each other.
Owed == StopPart /\ FinishPart /\ GetPart /\ HoldPart /\ FreshPart /\ UniquePart /\ RestorePart
        /\ ServedPart /\ GonePart

\* Loops and agents pass for doomed as long as no attach is the entry's.
LEMMA DoomKept ==
  ASSUME MTypeOK, NEW o \in Ops, AttEffect(o), ~Attaching(o), published
  PROVE  (LoopDoomed => LoopDoomed') /\ (AgentDoomed => AgentDoomed')
<1>1. att[o] \in AttRec /\ loop \in BOOLEAN
  BY DEF MTypeOK
<1>2. ~Owns(o)
  BY EntryShape DEF Owns, Attaching, EntryIs
<1>3. ASSUME LoopDoomed PROVE LoopDoomed'
  BY <1>1, <1>2, <1>3 DEF LoopDoomed, AttAt, AttEffect, AttFrame, AttPrepares, AttWarms, AttFails, AttChecks,
     AttRegisters, AttShutOut, AttCommits, AttYields, AttTells, AttOusted, AttCleans, AttRec
<1>4. ASSUME AgentDoomed PROVE AgentDoomed'
  BY <1>1, <1>2, <1>4 DEF AgentDoomed, AttAt, AttEffect, AttFrame, AttPrepares, AttWarms, AttFails, AttChecks,
     AttRegisters, AttShutOut, AttCommits, AttYields, AttTells, AttOusted, AttCleans
<1> QED BY <1>3, <1>4

\* An attach pays what it owes.
LEMMA AttKeepsOwed ==
  ASSUME MTypeOK, Numbers, Owed, NEW o \in Ops, AttEffect(o)
  PROVE  Owed'
<1> USE DEF AttEffect, AttFrame
<1>1. /\ att[o] \in AttRec /\ loop \in BOOLEAN /\ MaxOps \in Nat
      /\ att[o].pc # "none" /\ (att'[o].pc # "none")
  BY OpsAreFinite DEF MTypeOK, AttAt, AttPrepares, AttWarms, AttFails, AttChecks, AttRegisters, AttShutOut, AttCommits,
     AttYields, AttTells, AttOusted, AttCleans
<1>2. entry' = entry \/ (Attaching(o) /\ entry'.st \in {"Failed", "Ready"})
  BY EntryShape DEF AttPrepares, AttWarms, AttFails, AttChecks, AttRegisters, AttShutOut, AttCommits,
     AttYields, AttTells, AttOusted, AttCleans, Owns, EntryIs, Attaching
<1>3. StopPart' /\ FinishPart'
  BY DEF Owed, StopPart, FinishPart, At
<1>4. GetPart'
  <2>1. \A c \in Callers : At(c, "get") => call[c].o \in Ops \ {o} /\ att'[call[c].o] = att[call[c].o]
    BY <1>1 DEF Owed, GetPart, At, Numbers, Fits, Owning
  <2> QED BY <1>1, <2>1 DEF Owed, GetPart, At
<1>5. HoldPart'
  BY <1>2 DEF Owed, HoldPart, Holds, Watched, Attaching
<1>6. FreshPart'
  BY <1>1, <1>2 DEF Owed, FreshPart, Watched, EntryIs, Attaching, At
<1>u. UniquePart' /\ RestorePart'
  <2> SUFFICES ASSUME Watched, member
               PROVE  /\ \A p, q \in Ops : Taken(p)' /\ Taken(q)' => p = q
                      /\ ~EntryIs("Removing")' => \A p \in Ops : Taken(p)' => Attaching(p)'
                      /\ \A c \in Callers : At(c, "restore")' => \A p \in Ops : ~Taken(p)'
    BY DEF UniquePart, RestorePart, Watched, At, Owed
  <2>1. ~AttOusted(o)
    BY DEF AttOusted, Watched
  <2>2. Busy(o)' => Busy(o)
    BY <2>1 DEF Busy, Working, AttPrepares, AttWarms, AttFails, AttChecks, AttRegisters, AttShutOut, AttCommits,
       AttYields, AttTells, AttCleans, AttAt
  <2>3. \A p \in Ops : Taken(p)' => Taken(p)
    BY <2>2 DEF Taken, Busy, At
  <2>4. entry' # entry => Attaching(o) /\ ~Taken(o)'
    <3>1. entry' # entry => Attaching(o) /\ ~Busy(o)'
      BY <1>2 DEF Busy, Working, AttPrepares, AttWarms, AttFails, AttChecks, AttRegisters, AttShutOut, AttCommits,
         AttYields, AttTells, AttOusted, AttCleans
    <3>2. \A c \in Callers : At(c, "get") => call[c].o # o
      BY <1>1 DEF Owed, GetPart
    <3> QED BY <3>1, <3>2 DEF Taken, At
  <2>5. \A p, q \in Ops : Taken(p)' /\ Taken(q)' => p = q
    BY <2>3 DEF Owed, UniquePart
  <2>6. ~EntryIs("Removing")' => \A p \in Ops : Taken(p)' => Attaching(p)'
    <3>1. CASE entry' = entry
      BY <2>3, <3>1 DEF Owed, UniquePart, EntryIs, Attaching
    <3>2. CASE entry' # entry
      <4>1. \A p \in Ops : Taken(p) => p = o
        BY <2>4, <3>2 DEF Owed, UniquePart, EntryIs, Attaching
      <4> QED BY <2>3, <2>4, <3>2, <4>1
    <3> QED BY <3>1, <3>2
  <2>7. \A c \in Callers : At(c, "restore")' => \A p \in Ops : ~Taken(p)'
    BY <2>3 DEF Owed, RestorePart, At
  <2> QED BY <2>5, <2>6, <2>7
<1>7. ServedPart'
  <2> SUFFICES ASSUME Watched, member, ~UnderWay, ~EntryIs("Removing")'
               PROVE  /\ \A p \in Ops : /\ att'[p].pc \in {"owns", "register", "commit"} => Served'
                                        /\ AttAt(p, "commit")' => loop'
                      /\ EntryIs("Ready")' => loop' /\ Served'
    BY DEF ServedPart, Watched, UnderWay
  <2>0. ~EntryIs("Removing")
    BY <1>2 DEF EntryIs, Attaching
  <2>1. /\ \A p \in Ops : Busy(p) => Attaching(p)
        /\ \A p \in Ops : /\ att[p].pc \in {"owns", "register", "commit"} => Served
                          /\ AttAt(p, "commit") => loop
        /\ EntryIs("Ready") => loop /\ Served
    BY <2>0 DEF Owed, ServedPart, UniquePart, Taken
  <2>2. \A p \in Ops : Busy(o) /\ Busy(p) => p = o
    BY <2>1 DEF Attaching
  <2>4. ~stopped /\ ~shut
    BY DEF Owed, StopPart, Watched, MTypeOK
  <2>5. Busy(o) => Owns(o)
    BY <2>1, <2>4 DEF Owns, Attaching, EntryIs
  <2>6. CASE AttPrepares(o) \/ AttWarms(o)
    <3>1. Busy(o) /\ Attaching(o) /\ entry' = entry /\ loop' = loop
      BY <2>1, <2>6 DEF Busy, Working, AttPrepares, AttWarms, AttAt
    <3>2. \A p \in Ops \ {o} : ~Busy(p)' /\ ~Busy(p)
      BY <2>2, <3>1 DEF Busy
    <3>3. ~EntryIs("Ready")'
      BY <3>1 DEF Attaching, EntryIs
    <3>4. att'[o].pc \in {"owns", "register", "commit"} => att'[o].pc = "owns" /\ Served'
      BY <2>6 DEF AttPrepares, AttWarms, Served
    <3> QED BY <3>1, <3>2, <3>3, <3>4 DEF AttAt, Busy, Working
  <2>7. CASE AttFails(o) \/ AttCommits(o)
    <3>1. Busy(o) /\ Owns(o) /\ att'[o].pc \in {"failed", "ready"} /\ loop' = loop /\ Served' = Served
      BY <2>5, <2>7 DEF Busy, Working, AttFails, AttCommits, AttAt, Served
    <3>2. \A p \in Ops : ~Busy(p)'
      BY <2>2, <3>1 DEF Busy, Working
    <3>3. EntryIs("Ready")' => loop' /\ Served'
      BY <2>1, <2>7, <3>1 DEF AttFails, AttCommits, EntryIs, AttAt
    <3> QED BY <3>1, <3>2, <3>3 DEF Busy, Working, AttAt
  <2>8. CASE AttChecks(o) \/ AttRegisters(o)
    <3>1. /\ Busy(o) /\ Owns(o) /\ Attaching(o) /\ entry' = entry /\ Served /\ Served' = Served
          /\ att'[o].pc \in {"register", "commit"} /\ (att'[o].pc = "commit" => loop')
      BY <2>1, <2>5, <2>8 DEF Busy, Working, AttChecks, AttRegisters, AttAt, Served
    <3>2. \A p \in Ops \ {o} : ~Busy(p)'
      BY <2>2, <3>1 DEF Busy
    <3>3. ~EntryIs("Ready")'
      BY <3>1 DEF Attaching, EntryIs
    <3> QED BY <3>1, <3>2, <3>3 DEF AttAt, Busy, Working
  <2>9. CASE AttShutOut(o) \/ AttYields(o) \/ AttOusted(o)
    BY <2>4, <2>5, <2>9 DEF AttShutOut, AttYields, AttOusted, AttAt, Busy, Working, Watched
  <2>10. CASE AttTells(o)
    <3>1. ~Busy(o)' /\ entry' = entry /\ loop' = loop /\ Served' = Served
      BY <2>10 DEF AttTells, Busy, Working, Served
    <3> QED BY <2>1, <3>1 DEF AttAt, EntryIs, Busy, Working
  <2>11. CASE AttCleans(o)
    <3>1. Busy(o) /\ Attaching(o) /\ entry' = entry /\ ~Busy(o)'
      BY <2>1, <2>11 DEF AttCleans, Busy, Working, AttAt
    <3>2. \A p \in Ops : ~Busy(p)'
      BY <2>2, <3>1 DEF Busy
    <3> QED BY <3>1, <3>2 DEF Attaching, AttAt, EntryIs, Busy, Working
  <2> QED BY <2>6, <2>7, <2>8, <2>9, <2>10, <2>11
<1>8. GonePart'
  <2> SUFFICES ASSUME Watched PROVE GonePart'
    BY DEF GonePart, Watched
  <2>1. ASSUME NEW c \in Callers, Holds(c)
        PROVE  ~Attaching(o)
    BY <2>1 DEF Owed, HoldPart, Attaching
  <2>2. ~member => ~Attaching(o) /\ \A p \in Ops : Attaching(p)' => att'[p].pc = "none"
    <3> SUFFICES ASSUME ~member PROVE ~Attaching(o) /\ \A p \in Ops : Attaching(p)' => att'[p].pc = "none"
      OBVIOUS
    <3>1. \A p \in Ops : Attaching(p) => att[p].pc = "none"
      BY DEF Owed, GonePart
    <3>2. ~Attaching(o) /\ entry' = entry
      BY <1>1, <1>2, <3>1
    <3> QED BY <3>1, <3>2 DEF Attaching
  <2>3. ~Attaching(o) => (LoopDoomed => LoopDoomed') /\ (AgentDoomed => AgentDoomed')
    BY DoomKept DEF Watched
  <2> QED BY <2>1, <2>2, <2>3 DEF Owed, GonePart, Watched, Holds, At
<1> QED BY <1>3, <1>4, <1>5, <1>6, <1>u, <1>7, <1>8 DEF Owed

\* What every call has in common.
LEMMA CallFrame ==
  ASSUME MTypeOK, Numbers, NEW c \in Callers, CallEffect(c)
  PROVE  /\ OthersCall(c)
         /\ (member' => member) /\ (Watched' => Watched)
         /\ ops' = ops \/ (ops' = NextOp /\ call[c].o = NoOp /\ NextOp \in Ops)
<1>1. call[c].pc \in {"idle", "wake", "reserve", "lease"} => call[c].o = NoOp /\ NextOp \in Ops
  BY NextOpFits DEF Numbers, Fits, Unhanded, Early
<1>2. OthersCall(c)
  BY DEF CallEffect, CallPasses, CallWakes, CallGets, CallAttaches, CallLeases, CallSweeps, CallUnloops,
     CallKills, CallPersists, CallYields, CallRestores, CallUnlists, CallFinishes, CallStops, Goes
<1>3. ops' = ops \/ (ops' = NextOp /\ call[c].pc \in {"idle", "wake", "reserve", "lease"})
  BY DEF CallEffect, CallPasses, CallWakes, CallGets, CallAttaches, CallLeases, CallSweeps, CallUnloops,
     CallKills, CallPersists, CallYields, CallRestores, CallUnlists, CallFinishes, CallStops, At, core
<1>4. (member' => member) /\ (Watched' => Watched)
  <2>1. CASE CallStops(c)
    BY <2>1 DEF CallStops, Watched
  <2>2. CASE CallUnlists(c) \/ CallYields(c) \/ CallAttaches(c)
    <3>1. (member' = member \/ member' = FALSE) /\ published' = published
      BY <2>2 DEF CallUnlists, CallYields, CallAttaches
    <3>2. ~leftover' => ~leftover
      BY <2>2, Zenon DEF CallUnlists, CallYields, CallAttaches
    <3> QED BY <3>1, <3>2 DEF Watched
  <2>3. CASE ~CallStops(c) /\ ~(CallUnlists(c) \/ CallYields(c) \/ CallAttaches(c))
    BY <2>3 DEF CallEffect, CallPasses, CallWakes, CallGets, CallLeases, CallSweeps, CallUnloops, CallKills,
       CallPersists, CallRestores, CallFinishes, core, Watched
  <2> QED BY <2>1, <2>2, <2>3
<1> QED BY <1>1, <1>2, <1>3, <1>4

\* The session is unpublished before it is stopped, the roster saved before the lease ends.
LEMMA CallKeepsOrder ==
  ASSUME MTypeOK, StopPart, FinishPart, NEW c \in Callers, CallEffect(c), CallBegin(c) \/ CallStep(c)
  PROVE  StopPart' /\ FinishPart'
<1>1. StopPart'
  <2>1. CASE CallStops(c)
    BY <2>1 DEF CallStops, StopPart
  <2>2. CASE ~CallStops(c)
    <3>1. /\ OthersCall(c) /\ call'[c].pc \notin Stopping
          /\ UNCHANGED <<stopped, shut, published>>
      BY <2>2 DEF CallEffect, CallPasses, CallWakes, CallGets, CallAttaches, CallLeases, CallSweeps, CallUnloops,
         CallKills, CallPersists, CallYields, CallRestores, CallUnlists, CallFinishes, Goes, core, Stopping
    <3> QED BY <3>1 DEF StopPart, OthersCall, Stopping
  <2> QED BY <2>1, <2>2
<1>2. FinishPart'
  <2>1. OthersCall(c) /\ (member' = member \/ member' = FALSE) /\ (call'[c].pc = "finish" => member' = FALSE)
    BY DEF CallEffect, CallPasses, CallWakes, CallGets, CallAttaches, CallLeases, CallSweeps, CallUnloops, CallKills,
       CallPersists, CallYields, CallRestores, CallUnlists, CallFinishes, CallStops, Goes, core, HolderPcs, Stopping
  <2> QED BY <2>1 DEF FinishPart, At, OthersCall
<1> QED BY <1>1, <1>2

\* Operations are handed out once, and begun by those who got them.
LEMMA CallKeepsGets ==
  ASSUME MTypeOK, Numbers, GetPart, NEW c \in Callers, CallEffect(c)
  PROVE  GetPart'
<1>1. /\ ops \in Nat /\ MaxOps \in Nat /\ Ops \subseteq Nat
      /\ \A d \in Callers : call[d].o <= ops /\ call[d].o \in Nat /\ (At(d, "get") => call[d].o \in Ops)
  BY OpsAreFinite DEF MTypeOK, Numbers, CallRec, Fits, Owning, At, Ops
<1>2. call[c].pc \in {"idle", "wake", "reserve", "lease"} => NextOp \in Ops /\ NextOp = ops + 1
  BY NextOpFits DEF Numbers, Fits, Unhanded, Early, NextOp
<1>3. OthersCall(c)
  BY CallFrame
<1>4. CASE CallWakes(c)
  <2>1. /\ ops' = ops + 1 /\ att' = att /\ call'[c].o = ops + 1 /\ ops + 1 \in Ops
    BY <1>2, <1>4 DEF CallWakes, At
  <2>2. att[ops + 1].pc = "none" /\ \A d \in Callers : call[d].o # ops + 1
    BY <1>1, <2>1 DEF GetPart
  <2> QED BY <1>1, <1>3, <2>1, <2>2 DEF GetPart, OthersCall, At
<1>5. CASE CallGets(c)
  <2>1. /\ ops' = ops /\ \A o \in Ops \ {call[c].o} : att'[o] = att[o]
        /\ call'[c].pc = "read" /\ At(c, "get") /\ call[c].o <= ops
    BY <1>1, <1>5 DEF CallGets, Goes
  <2>2. \A d \in Callers \ {c} : At(d, "get") => call[d].o # call[c].o
    BY <2>1 DEF GetPart
  <2> QED BY <1>1, <1>3, <2>1, <2>2 DEF GetPart, OthersCall, At
<1>6. CASE CallAttaches(c)
  <2>1. /\ ops' = ops + 1 /\ \A o \in Ops \ {ops + 1} : att'[o] = att[o]
        /\ call'[c].pc # "get"
    BY <1>2, <1>6 DEF CallAttaches
  <2> QED BY <1>1, <1>3, <2>1 DEF GetPart, OthersCall, At
<1>7. CASE ~CallWakes(c) /\ ~CallGets(c) /\ ~CallAttaches(c)
  <2>1. att' = att /\ call'[c].pc # "get" /\ ops <= ops'
    BY <1>1, <1>2, <1>7 DEF CallEffect, CallPasses, CallLeases, CallSweeps, CallUnloops, CallKills, CallPersists,
       CallYields, CallRestores, CallUnlists, CallFinishes, CallStops, Goes, At, core, Stopping
  <2>2. ops' \in Nat
    BY <1>1, CallFrame DEF Ops
  <2> QED BY <1>1, <1>3, <2>1, <2>2 DEF GetPart, OthersCall, At
<1> QED BY <1>4, <1>5, <1>6, <1>7

\* One removal at a time has a lease.
LEMMA CallKeepsHold ==
  ASSUME MTypeOK, Numbers, HoldPart, FinishPart, NEW c \in Callers, CallEffect(c)
  PROVE  HoldPart'
<1> SUFFICES ASSUME Watched'
             PROVE  \A d \in Callers : Holds(d)' => /\ entry' = [st |-> "Removing", o |-> call'[d].o]
                                                    /\ \A e \in Callers : Holds(e)' => e = d
  BY DEF HoldPart
<1>1. OthersCall(c) /\ Watched
  BY CallFrame
<1>2. \A d \in Callers : Holds(d) => /\ entry = [st |-> "Removing", o |-> call[d].o]
                                     /\ \A e \in Callers : Holds(e) => e = d
  BY <1>1 DEF HoldPart
<1>3. \A d \in Callers \ {c} : Holds(d)' <=> Holds(d)
  BY <1>1 DEF Holds, OthersCall
<1>4. CASE entry' = entry /\ (Holds(c)' => Holds(c) /\ call'[c].o = call[c].o)
  BY <1>1, <1>2, <1>3, <1>4 DEF OthersCall
<1>5. CASE CallPasses(c) \/ CallGets(c) \/ CallStops(c)
  BY <1>4, <1>5 DEF CallPasses, CallGets, CallStops, Goes, Holds, HolderPcs, Stopping, core, Watched
<1>6. CASE CallSweeps(c)
  BY <1>4, <1>6 DEF CallSweeps, Goes, Holds, core
<1>7. CASE CallUnloops(c) \/ CallKills(c) \/ CallPersists(c) \/ CallYields(c) \/ CallUnlists(c)
  BY <1>4, <1>7 DEF CallUnloops, CallKills, CallPersists, CallYields, CallUnlists, Goes, At, Holds, HolderPcs, core
<1>8. CASE CallWakes(c) \/ CallAttaches(c)
  <2>1. entry.st # "Removing" /\ ~Holds(c)'
    BY <1>8 DEF CallWakes, CallAttaches, EntryIs, Holds, HolderPcs
  <2>2. \A d \in Callers : ~Holds(d)
    BY <1>2, <2>1
  <2> QED BY <1>3, <2>1, <2>2
<1>9. CASE CallLeases(c)
  <2>1. \A d \in Callers : ~Holds(d)
    BY <1>2, <1>9 DEF CallLeases
  <2>2. entry' = [st |-> "Removing", o |-> call'[c].o]
    BY <1>9 DEF CallLeases
  <2> QED BY <1>3, <2>1, <2>2
<1>10. CASE CallRestores(c) \/ CallFinishes(c)
  <2>1. ~Holds(c)' /\ call[c].pc \in HolderPcs
    BY <1>10 DEF CallRestores, CallFinishes, Goes, Holds, HolderPcs, At
  <2>2. CASE entry' = entry
    BY <1>4, <2>1, <2>2
  <2>3. CASE entry = [st |-> "Removing", o |-> call[c].o]
    <3>1. ASSUME NEW d \in Callers, Holds(d)
          PROVE  d = c
      <4>1. call[d].o = call[c].o /\ call[d].o # NoOp
        BY <1>2, <2>3, <3>1 DEF Holds
      <4> QED BY <1>2, <2>1, <3>1, <4>1 DEF Holds
    <3> QED BY <1>3, <2>1, <3>1
  <2> QED BY <1>10, <2>2, <2>3 DEF CallRestores, CallFinishes
<1> QED BY <1>5, <1>6, <1>7, <1>8, <1>9, <1>10 DEF CallEffect

\* A member that has an entry keeps one until it has left the roster.
LEMMA CallKeepsFresh ==
  ASSUME MTypeOK, Numbers, FreshPart, FinishPart, StopPart, NEW c \in Callers, CallEffect(c)
  PROVE  FreshPart'
<1> SUFFICES ASSUME Watched', member', EntryIs("Absent")'
             PROVE  /\ ~loop' /\ agent' = "none" /\ \A o \in Ops : att'[o].pc = "none"
                    /\ \A d \in Callers : ~At(d, "get")'
  BY DEF FreshPart
<1>1. OthersCall(c) /\ Watched /\ member
  BY CallFrame
<1>2. EntryIs("Absent")
  BY <1>1 DEF CallEffect, CallPasses, CallWakes, CallGets, CallAttaches, CallLeases, CallSweeps, CallUnloops,
     CallKills, CallPersists, CallYields, CallRestores, CallUnlists, CallFinishes, CallStops, At, core, EntryIs,
     FinishPart, Watched
<1>3. ~loop /\ agent = "none" /\ (\A o \in Ops : att[o].pc = "none") /\ \A d \in Callers : ~At(d, "get")
  BY <1>1, <1>2 DEF FreshPart
<1>4. ~CallWakes(c) /\ ~CallGets(c) /\ ~CallAttaches(c) /\ ~CallStops(c)
  <2>1. ~CallStops(c)
    BY DEF CallStops, Watched
  <2>2. ~CallGets(c)
    BY <1>3 DEF CallGets
  <2>3. ~CallWakes(c) /\ ~CallAttaches(c)
    <3>1. CallWakes(c) \/ CallAttaches(c) => entry' = [st |-> "Attaching", o |-> NextOp]
      BY DEF CallWakes, CallAttaches
    <3>2. entry'.st = "Absent"
      BY DEF EntryIs
    <3> QED BY ONLY <3>1, <3>2
  <2> QED BY <2>1, <2>2, <2>3
<1>5. (loop' = loop \/ loop' = FALSE) /\ (agent' = agent \/ agent' = "none") /\ att' = att /\ call'[c].pc # "get"
  BY <1>4 DEF CallEffect, CallPasses, CallLeases, CallSweeps, CallUnloops, CallKills, CallPersists, CallYields,
     CallRestores, CallUnlists, CallFinishes, Goes, core
<1> QED BY <1>1, <1>3, <1>5 DEF OthersCall, At

\* An attach that begins finds no other at work.
LEMMA CallKeepsUnique ==
  ASSUME MTypeOK, Numbers, Owed, NEW c \in Callers, CallEffect(c)
  PROVE  UniquePart'
<1> SUFFICES ASSUME Watched', member'
             PROVE  /\ \A o, p \in Ops : Taken(o)' /\ Taken(p)' => o = p
                    /\ ~EntryIs("Removing")' => \A o \in Ops : Taken(o)' => Attaching(o)'
  BY DEF UniquePart
<1>1. OthersCall(c) /\ Watched /\ member
  BY CallFrame
<1>2. /\ \A o, p \in Ops : Taken(o) /\ Taken(p) => o = p
      /\ ~EntryIs("Removing") => \A o \in Ops : Taken(o) => Attaching(o)
  BY <1>1 DEF Owed, UniquePart
<1>3. ASSUME att' = att, call'[c].pc # "get" \/ call'[c].o = NextOp
      PROVE  \A o \in Ops : Taken(o)' => Taken(o) \/ o = NextOp
  BY <1>1, <1>3 DEF Taken, Busy, OthersCall, At
<1>4. ASSUME att' = att, call'[c].pc # "get"
      PROVE  \A o \in Ops : Taken(o)' => Taken(o)
  BY <1>1, <1>4 DEF Taken, Busy, OthersCall, At
<1>5. ASSUME \A o \in Ops : Taken(o)' => Taken(o), entry' = entry \/ entry'.st = "Removing"
      PROVE  /\ \A o, p \in Ops : Taken(o)' /\ Taken(p)' => o = p
             /\ ~EntryIs("Removing")' => \A o \in Ops : Taken(o)' => Attaching(o)'
  <2>1. CASE entry' = entry
    BY <1>2, <1>5, <2>1 DEF EntryIs, Attaching
  <2>2. CASE entry'.st = "Removing"
    BY <1>2, <1>5, <2>2 DEF EntryIs
  <2> QED BY <1>5, <2>1, <2>2
<1>6. ASSUME entry.st \in {"Absent", "Ready", "Failed"}, entry' = [st |-> "Attaching", o |-> NextOp],
             \A o \in Ops : Taken(o)' => Taken(o) \/ o = NextOp
      PROVE  /\ \A o, p \in Ops : Taken(o)' /\ Taken(p)' => o = p
             /\ ~EntryIs("Removing")' => \A o \in Ops : Taken(o)' => Attaching(o)'
  <2>1. \A o \in Ops : ~Taken(o)
    BY <1>2, <1>6 DEF EntryIs, Attaching
  <2> QED BY <1>6, <2>1 DEF Attaching
<1>7. CASE CallPasses(c) \/ CallLeases(c) \/ CallSweeps(c) \/ CallUnloops(c) \/ CallKills(c) \/ CallPersists(c)
           \/ CallYields(c) \/ CallUnlists(c)
  <2>1. att' = att /\ (entry' = entry \/ entry'.st = "Removing")
    <3>1. CASE CallLeases(c)
      BY <3>1 DEF CallLeases
    <3>2. CASE CallPasses(c) \/ CallSweeps(c) \/ CallPersists(c)
      BY <3>2 DEF CallPasses, CallSweeps, CallPersists, core
    <3>3. CASE CallUnloops(c) \/ CallKills(c) \/ CallYields(c) \/ CallUnlists(c)
      BY <3>3 DEF CallUnloops, CallKills, CallYields, CallUnlists
    <3> QED BY <1>7, <3>1, <3>2, <3>3
  <2>2. call'[c].pc # "get"
    BY <1>7 DEF CallPasses, CallLeases, CallSweeps, CallUnloops, CallKills, CallPersists, CallYields, CallUnlists, Goes
  <2> QED BY <1>4, <1>5, <2>1, <2>2
<1>8. CASE CallWakes(c)
  BY <1>3, <1>6, <1>8 DEF CallWakes, EntryIs
<1>9. CASE CallGets(c)
  <2>1. /\ At(c, "get") /\ call'[c].pc = "read" /\ entry' = entry
        /\ \A o \in Ops \ {call[c].o} : att'[o] = att[o]
    BY <1>9 DEF CallGets, Goes
  <2>2. \A o \in Ops : Taken(o)' => Taken(o)
    BY <1>1, <2>1 DEF Taken, Busy, OthersCall, At
  <2> QED BY <1>5, <2>1, <2>2
<1>10. CASE CallAttaches(c)
  <2>1. call'[c].pc # "get" /\ \A o \in Ops \ {NextOp} : att'[o] = att[o]
    BY <1>10 DEF CallAttaches
  <2>2. \A o \in Ops : Taken(o)' => Taken(o) \/ o = NextOp
    BY <1>1, <2>1 DEF Taken, Busy, OthersCall, At
  <2> QED BY <1>6, <1>10, <2>2 DEF CallAttaches
<1>11. CASE CallRestores(c)
  <2>1. att' = att /\ call'[c].pc # "get"
    BY <1>11 DEF CallRestores, Goes
  <2>2. \A o \in Ops : ~Taken(o)
    BY <1>1, <1>11 DEF CallRestores, Owed, RestorePart
  <2> QED BY <1>4, <2>1, <2>2
<1>12. CASE CallFinishes(c) \/ CallStops(c)
  BY <1>1, <1>12 DEF CallFinishes, CallStops, Owed, FinishPart, Watched
<1> QED BY <1>7, <1>8, <1>9, <1>10, <1>11, <1>12 DEF CallEffect

\* A removal that gives up and restores the entry finds no attach at work, and none begins before it has.
LEMMA CallKeepsRestore ==
  ASSUME MTypeOK, Numbers, Owed, NEW c \in Callers, CallEffect(c)
  PROVE  RestorePart'
<1>1. OthersCall(c) /\ (Watched' => Watched) /\ (member' => member)
  BY CallFrame
<1>2. ASSUME NEW d \in Callers, At(d, "restore")'
      PROVE  call'[d].o # NoOp /\ (Watched' /\ member' => \A o \in Ops : ~Taken(o)')
  <2>1. CASE At(d, "restore") /\ call'[d] = call[d]
    <3>1. call[d].o # NoOp /\ (Watched /\ member => \A o \in Ops : ~Taken(o))
      BY <2>1 DEF Owed, RestorePart
    <3> SUFFICES ASSUME Watched', member' PROVE \A o \in Ops : ~Taken(o)'
      BY <2>1, <3>1
    <3>2. entry.st = "Removing"
      BY <1>1, <2>1, <3>1 DEF Owed, HoldPart, Holds, HolderPcs, At
    <3>3. ~CallWakes(c) /\ ~CallAttaches(c) /\ ~CallStops(c)
      BY <3>2 DEF CallWakes, CallAttaches, CallStops, EntryIs, Watched
    <3>4. ~CallGets(c)
      <4>1. CallGets(c) => At(c, "get") /\ call[c].o \in Ops
        BY DEF CallGets, Numbers, Fits, Owning, At
      <4> QED BY <1>1, <3>1, <4>1 DEF Taken
    <3>5. att' = att /\ call'[c].pc # "get"
      BY <3>3, <3>4 DEF CallEffect, CallPasses, CallLeases, CallSweeps, CallUnloops, CallKills, CallPersists,
         CallYields, CallRestores, CallUnlists, CallFinishes, Goes, core
    <3> QED BY <1>1, <3>1, <3>5 DEF Taken, Busy, OthersCall, At
  <2>2. CASE d = c /\ ~(At(c, "restore") /\ call'[c] = call[c])
    <3>1. CallYields(c) /\ call[c].o # NoOp /\ call'[c].o = call[c].o
      BY <1>2, <2>2 DEF CallEffect, CallPasses, CallWakes, CallGets, CallAttaches, CallLeases, CallSweeps, CallUnloops,
         CallKills, CallPersists, CallYields, CallRestores, CallUnlists, CallFinishes, CallStops, Goes, At,
         HolderPcs, Stopping
    <3> SUFFICES ASSUME Watched' PROVE \A o \in Ops : ~Taken(o)'
      BY <2>2, <3>1
    <3>2. ~Unleased(c)
      BY <3>1 DEF CallYields, Watched
    <3>3. att' = att /\ call'[c].pc # "get"
      BY <3>1 DEF CallYields, Goes
    <3>4. \A o \in Ops : ~Busy(o)'
      BY <3>2, <3>3 DEF Unleased, Alive, Busy, Working
    <3>5. \A e \in Callers : ~At(e, "get")'
      BY <1>1, <3>2, <3>3 DEF Unleased, OthersCall, At
    <3> QED BY <3>4, <3>5 DEF Taken
  <2> QED BY <1>1, <1>2, <2>1, <2>2 DEF OthersCall, At
<1> QED BY <1>2 DEF RestorePart

\* A removal that gives up leaves the loop and the agent to nobody who counts on them.
LEMMA CallKeepsServed ==
  ASSUME MTypeOK, Numbers, Owed, NEW c \in Callers, CallEffect(c)
  PROVE  ServedPart'
<1> DEFINE Kept == /\ \A o \in Ops : /\ att[o].pc \in {"owns", "register", "commit"} => Served
                                     /\ AttAt(o, "commit") => loop
                   /\ EntryIs("Ready") => loop /\ Served
<1> SUFFICES ASSUME Watched', member', ~UnderWay', ~EntryIs("Removing")'
             PROVE  Kept'
  BY DEF ServedPart
<1>1. OthersCall(c) /\ Watched /\ member
  BY CallFrame
<1>2. \A d \in Callers \ {c} : call[d].pc \notin RemovingPcs
  BY <1>1 DEF UnderWay, OthersCall
<1>3. call'[c].pc \notin RemovingPcs
  BY DEF UnderWay
<1>4. call[c].pc \notin RemovingPcs /\ ~EntryIs("Removing") => Kept
  <2> SUFFICES ASSUME call[c].pc \notin RemovingPcs, ~EntryIs("Removing") PROVE Kept
    OBVIOUS
  <2>1. ~UnderWay
    BY <1>2 DEF UnderWay
  <2> QED BY <1>1, <2>1 DEF Owed, ServedPart
<1>5. ASSUME Kept, entry' = entry, att' = att, agent' = agent, died' = died, loop' = loop
      PROVE  Kept'
  BY <1>5 DEF Served, AttAt, EntryIs
<1>6. ASSUME \A o \in Ops : ~Busy(o)' \/ att'[o].pc \in {"wipe", "start"}, ~EntryIs("Ready")'
      PROVE  Kept'
  BY <1>6 DEF Busy, Working, AttAt
<1> HIDE DEF Kept
<1>7. CASE CallPasses(c)
  BY <1>4, <1>5, <1>7 DEF CallPasses, HolderPcs, RemovingPcs, core, EntryIs
<1>8. CASE CallWakes(c) \/ CallAttaches(c)
  <2>1. entry.st \in {"Absent", "Ready", "Failed"} /\ entry' = [st |-> "Attaching", o |-> NextOp]
    BY <1>8 DEF CallWakes, CallAttaches, EntryIs
  <2>2. \A o \in Ops : ~Busy(o)
    BY <1>1, <2>1 DEF Owed, UniquePart, Taken, Attaching, EntryIs
  <2>3. \A o \in Ops : att'[o] = att[o] \/ att'[o].pc \in {"wipe", "start"}
    BY <1>8 DEF CallWakes, CallAttaches
  <2>4. ~EntryIs("Ready")'
    BY <2>1 DEF EntryIs
  <2> QED BY <1>6, <2>2, <2>3, <2>4 DEF Busy
<1>9. CASE CallGets(c)
  <2>1. /\ UNCHANGED <<entry, loop, agent, died>> /\ call[c].pc = "get"
        /\ att'[call[c].o].pc = "start" /\ \A o \in Ops \ {call[c].o} : att'[o] = att[o]
    BY <1>9 DEF CallGets, At
  <2>2. Kept
    BY <1>4, <2>1 DEF RemovingPcs, EntryIs
  <2> QED BY <2>1, <2>2 DEF Kept, Served, AttAt, EntryIs
<1>10. CASE CallLeases(c) \/ CallSweeps(c) \/ CallUnloops(c) \/ CallKills(c) \/ CallPersists(c)
  <2>1. call'[c].pc \in RemovingPcs \/ ~published' \/ (CallPersists(c) /\ call[c].o # NoOp)
    BY <1>10 DEF CallLeases, CallSweeps, CallUnloops, CallKills, CallPersists, Goes, RemovingPcs, core
  <2>2. CASE CallPersists(c) /\ call[c].o # NoOp
    <3>1. Holds(c) /\ entry' = entry
      BY <2>2 DEF CallPersists, At, Holds, HolderPcs, core
    <3>2. entry'.st = "Removing"
      BY <1>1, <3>1 DEF Owed, HoldPart
    <3> QED BY <3>2 DEF EntryIs
  <2> QED BY <1>3, <2>1, <2>2 DEF Watched
<1>11. CASE CallYields(c)
  <2>1. ~Unleased(c)
    BY <1>11 DEF CallYields, Watched
  <2>2. \A o \in Ops : att[o].pc \in {"none", "done"}
    BY <2>1 DEF Unleased, Alive
  <2>3. att' = att /\ entry' = entry
    BY <1>11 DEF CallYields
  <2>4. ~EntryIs("Ready")
    <3>1. CASE call[c].o = NoOp
      BY <2>1, <3>1 DEF Unleased, EntryIs
    <3>2. CASE call[c].o # NoOp
      <4>1. Holds(c)
        BY <1>11, <3>2 DEF CallYields, At, Holds, HolderPcs
      <4>2. entry = [st |-> "Removing", o |-> call[c].o]
        BY <1>1, <4>1 DEF Owed, HoldPart
      <4> QED BY <4>2 DEF EntryIs
    <3> QED BY <3>1, <3>2
  <2>5. \A o \in Ops : ~Busy(o)'
    BY <2>2, <2>3 DEF Busy, Working
  <2> QED BY <1>6, <2>3, <2>4, <2>5 DEF EntryIs
<1>12. CASE CallRestores(c)
  <2>1. UNCHANGED <<att, agent, died, loop>> /\ At(c, "restore")
    BY <1>12 DEF CallRestores
  <2>2. CASE entry' = entry
    BY <1>4, <1>5, <2>1, <2>2 DEF At, RemovingPcs, EntryIs
  <2>3. CASE entry' = [st |-> "Failed", o |-> call[c].o]
    <3>1. \A o \in Ops : ~Busy(o)'
      BY <1>1, <2>1 DEF Owed, RestorePart, Taken, Busy
    <3>2. ~EntryIs("Ready")'
      BY <2>3 DEF EntryIs
    <3> QED BY <1>6, <3>1, <3>2
  <2> QED BY <1>12, <2>2, <2>3 DEF CallRestores
<1>13. CASE CallUnlists(c)
  BY <1>13 DEF CallUnlists
<1>14. CASE CallFinishes(c)
  BY <1>1, <1>14 DEF CallFinishes, Owed, FinishPart
<1>15. CASE CallStops(c)
  BY <1>15 DEF CallStops, Watched
<1> QED BY <1>7, <1>8, <1>9, <1>10, <1>11, <1>12, <1>13, <1>14, <1>15 DEF CallEffect

\* A removal leaves the roster behind with nothing that no attach will take away.
LEMMA CallKeepsGone ==
  ASSUME MTypeOK, Numbers, Owed, NEW c \in Callers, CallEffect(c)
  PROVE  GonePart'
<1> DEFINE Swept == \A d \in Callers : Holds(d) => /\ call[d].pc \in {"rekill", "roster"} => LoopDoomed
                                                   /\ At(d, "roster") => AgentDoomed
           Left  == ~member => LoopDoomed /\ AgentDoomed /\ \A o \in Ops : Attaching(o) => att[o].pc = "none"
<1> SUFFICES ASSUME Watched' PROVE Swept' /\ Left'
  BY DEF GonePart
<1>1. OthersCall(c) /\ Watched /\ (member' => member)
  BY CallFrame
<1>2. Swept /\ Left
  BY <1>1 DEF Owed, GonePart
<1>3. ASSUME LoopDoomed => LoopDoomed', AgentDoomed => AgentDoomed',
             Holds(c)' /\ call'[c].pc \in {"rekill", "roster"} => LoopDoomed',
             Holds(c)' /\ At(c, "roster")' => AgentDoomed'
      PROVE  Swept'
  <2> SUFFICES ASSUME NEW d \in Callers, Holds(d)'
               PROVE  /\ call'[d].pc \in {"rekill", "roster"} => LoopDoomed'
                      /\ At(d, "roster")' => AgentDoomed'
    OBVIOUS
  <2>1. CASE d = c
    BY <1>3, <2>1
  <2>2. CASE d # c
    BY <1>1, <1>2, <1>3, <2>2 DEF Holds, OthersCall, At
  <2> QED BY <2>1, <2>2
<1>4. ASSUME member' = member, LoopDoomed => LoopDoomed', AgentDoomed => AgentDoomed',
             att' = att, entry' = entry \/ entry'.st # "Attaching"
      PROVE  Left'
  BY <1>2, <1>4 DEF Attaching
<1>5. ASSUME att' = att, loop' => loop, agent' = "live" => agent = "live"
      PROVE  (LoopDoomed => LoopDoomed') /\ (AgentDoomed => AgentDoomed')
  BY <1>5 DEF LoopDoomed, AgentDoomed, AttAt
<1> HIDE DEF Swept, Left
<1>6. CASE CallPasses(c) \/ CallLeases(c) \/ CallSweeps(c) \/ CallPersists(c) \/ CallYields(c)
           \/ CallRestores(c) \/ CallFinishes(c)
  <2>1. /\ att' = att /\ loop' = loop /\ agent' = agent /\ member' = member
        /\ call'[c].pc \notin {"rekill", "roster"}
    BY <1>6 DEF CallPasses, CallLeases, CallSweeps, CallPersists, CallYields, CallRestores, CallFinishes, Goes,
       HolderPcs, core
  <2>2. entry' = entry \/ entry'.st # "Attaching"
    BY <1>6 DEF CallPasses, CallLeases, CallSweeps, CallPersists, CallYields, CallRestores, CallFinishes, core
  <2> QED BY <1>3, <1>4, <1>5, <2>1, <2>2 DEF At
<1>7. CASE CallWakes(c)
  <2>1. /\ att' = att /\ loop' = loop /\ agent' = agent /\ member' = member /\ call'[c].pc = "get"
        /\ entry' = [st |-> "Attaching", o |-> NextOp] /\ At(c, "wake")
    BY <1>7 DEF CallWakes
  <2>2. \A o \in Ops : Attaching(o)' => att'[o].pc = "none"
    <3>1. NextOp \in Ops /\ NextOp > ops
      <4>1. call[c].o = NoOp /\ ops \in Nat
        BY <2>1, OpsAreFinite DEF At, Numbers, Fits, Unhanded, Early, MTypeOK
      <4> QED BY <4>1, NextOpFits DEF NextOp
    <3> QED BY <2>1, <3>1 DEF Owed, GetPart, Attaching
  <2>3. Left'
    BY <1>2, <1>5, <2>1, <2>2 DEF Left
  <2> QED BY <1>3, <1>5, <2>1, <2>3 DEF At
<1>8. CASE CallGets(c)
  <2>1. /\ att[call[c].o].pc = "none" /\ \A o \in Ops \ {call[c].o} : att'[o] = att[o]
        /\ loop' = loop /\ agent' = agent /\ member' /\ call'[c].pc = "read"
    BY <1>8 DEF CallGets, Goes, Owed, GetPart
  <2>2. (LoopDoomed => LoopDoomed') /\ (AgentDoomed => AgentDoomed')
    BY <2>1 DEF LoopDoomed, AgentDoomed, AttAt
  <2> QED BY <1>3, <2>1, <2>2 DEF At, Left
<1>9. CASE CallAttaches(c)
  <2>1. \A d \in Callers : ~Holds(d)
    BY <1>1, <1>9 DEF CallAttaches, Owed, HoldPart
  <2>2. call'[c].pc \notin HolderPcs
    BY <1>9 DEF CallAttaches, HolderPcs
  <2>3. \A d \in Callers : ~Holds(d)'
    BY <1>1, <2>1, <2>2 DEF Holds, OthersCall
  <2>4. member'
    <3>1. ~leftover' => member
      BY <1>9, Zenon DEF CallAttaches
    <3>2. member' = member
      BY <1>9 DEF CallAttaches
    <3> QED BY <3>1, <3>2 DEF Watched
  <2> QED BY <2>3, <2>4 DEF Swept, Left
<1>10. CASE CallUnloops(c)
  <2>1. /\ loop' = FALSE /\ att' = att /\ agent' = agent /\ member' = member /\ entry' = entry
        /\ call'[c].pc # "roster"
    BY <1>10 DEF CallUnloops, Goes
  <2>2. LoopDoomed'
    BY <2>1 DEF LoopDoomed
  <2> QED BY <1>3, <1>4, <1>5, <2>1, <2>2 DEF At
<1>11. CASE CallKills(c)
  <2>1. /\ agent' = "none" /\ att' = att /\ loop' = loop /\ member' = member /\ entry' = entry
    BY <1>11 DEF CallKills
  <2>2. AgentDoomed'
    BY <2>1 DEF AgentDoomed
  <2>3. Holds(c)' /\ call'[c].pc \in {"rekill", "roster"} => Holds(c) /\ call[c].pc = "rekill"
    BY <1>11 DEF CallKills, Goes, At, Holds, HolderPcs
  <2>4. Holds(c)' /\ call'[c].pc \in {"rekill", "roster"} => LoopDoomed'
    BY <1>2, <1>5, <2>1, <2>3 DEF Swept
  <2> QED BY <1>3, <1>4, <1>5, <2>1, <2>2, <2>4
<1>12. CASE CallUnlists(c)
  <2>1. /\ att' = att /\ loop' = loop /\ agent' = agent /\ entry' = entry /\ At(c, "roster")
        /\ call'[c].pc \in {"done", "finish"}
    BY <1>12 DEF CallUnlists, Goes
  <2>2. LoopDoomed /\ AgentDoomed /\ \A o \in Ops : Attaching(o) => att[o].pc = "none"
    <3>1. CASE call[c].o # NoOp
      <4>1. Holds(c)
        BY <2>1, <3>1 DEF Holds, At, HolderPcs
      <4>2. entry = [st |-> "Removing", o |-> call[c].o]
        BY <1>1, <4>1 DEF Owed, HoldPart
      <4> QED BY <1>2, <2>1, <4>1, <4>2 DEF Swept, At, Attaching
    <3>2. CASE call[c].o = NoOp
      <4>1. ~Unleased(c)
        <5>1. leftover' = (leftover \/ (call[c].o = NoOp /\ Unleased(c))) /\ ~leftover'
          BY <1>12 DEF CallUnlists, Watched
        <5> QED BY <3>2, <5>1, Zenon
      <4>2. EntryIs("Absent")
        BY <3>2, <4>1 DEF Unleased
      <4>3. CASE member
        BY <1>1, <4>2, <4>3 DEF Owed, FreshPart, LoopDoomed, AgentDoomed, EntryIs, Attaching
      <4>4. CASE ~member
        BY <1>2, <4>4 DEF Left
      <4> QED BY <4>3, <4>4
    <3> QED BY <3>1, <3>2
  <2> QED BY <1>3, <1>5, <2>1, <2>2 DEF Left, At, Attaching
<1>13. CASE CallStops(c)
  BY <1>13 DEF CallStops, Watched
<1> QED BY <1>6, <1>7, <1>8, <1>9, <1>10, <1>11, <1>12, <1>13 DEF CallEffect

\* Nor do the event loop and an agent that dies disturb any of it.
LEMMA RestKeepsOwed ==
  ASSUME MTypeOK, Owed, LoopStep \/ AgentDies \/ UNCHANGED vars
  PROVE  Owed'
<1>1. /\ UNCHANGED <<entry, stopped, ops, loop, shut, member, published, leftover, att, call>>
      /\ \/ agent' = agent /\ died' = died
         \/ agent' = "none" /\ died'
  BY RestEffects
<1>2. StopPart' /\ FinishPart' /\ GetPart' /\ HoldPart'
  BY <1>1 DEF Owed, StopPart, FinishPart, GetPart, HoldPart, Watched, Holds, At
<1>3. FreshPart'
  BY <1>1 DEF Owed, FreshPart, Watched, EntryIs, At
<1>4. ServedPart'
  <2>1. Served => Served'
    BY <1>1 DEF Served
  <2> QED BY <1>1, <2>1 DEF Owed, ServedPart, Watched, UnderWay, AttAt, EntryIs
<1>u. UniquePart' /\ RestorePart'
  BY <1>1 DEF Owed, UniquePart, RestorePart, Taken, Busy, Watched, Attaching, At, EntryIs
<1>5. GonePart'
  <2>1. (LoopDoomed => LoopDoomed') /\ (AgentDoomed => AgentDoomed')
    BY <1>1 DEF LoopDoomed, AgentDoomed, AttAt
  <2> QED BY <1>1, <2>1 DEF Owed, GonePart, Watched, Holds, At, Attaching
<1> QED BY <1>2, <1>3, <1>4, <1>u, <1>5 DEF Owed

\* Every step keeps what removals and attaches owe each other.
LEMMA OwedNext == ASSUME MTypeOK, Numbers, Owed, [Next]_vars PROVE Owed'
<1>1. ASSUME NEW c \in Callers, CallBegin(c) \/ CallStep(c) PROVE Owed'
  <2>1. CallEffect(c)
    BY <1>1, CallEffects DEF Owed
  <2>2. StopPart' /\ FinishPart'
    BY <1>1, <2>1, CallKeepsOrder DEF Owed
  <2>3. GetPart' /\ HoldPart' /\ FreshPart'
    BY <2>1, CallKeepsGets, CallKeepsHold, CallKeepsFresh DEF Owed
  <2>4. UniquePart' /\ RestorePart' /\ ServedPart' /\ GonePart'
    BY <2>1, CallKeepsUnique, CallKeepsRestore, CallKeepsServed, CallKeepsGone
  <2> QED BY <2>2, <2>3, <2>4 DEF Owed
<1>2. ASSUME NEW o \in Ops, AttachStep(o) PROVE Owed'
  BY <1>2, AttEffects, AttKeepsOwed
<1>3. CASE LoopStep \/ AgentDies \/ UNCHANGED vars
  BY <1>3, RestKeepsOwed
<1> QED BY <1>1, <1>2, <1>3 DEF Next

\* It holds when nobody has called.
LEMMA OwedInit == ASSUME Init PROVE Owed
<1>1. /\ stopped = FALSE /\ shut = FALSE /\ leftover = FALSE /\ member = TRUE /\ published = TRUE
      /\ \A c \in Callers : call[c].pc = "idle"
      /\ \A o \in Ops : att[o].pc = "none"
  BY DEF Init, NoCall, NoAtt
<1>2. \/ entry.st = "Absent" /\ ~loop /\ agent = "none"
      \/ entry.st = "Ready" /\ loop /\ agent = "live"
  BY DEF Init
<1>3. StopPart /\ FinishPart /\ GetPart /\ HoldPart /\ GonePart
  BY <1>1 DEF StopPart, FinishPart, GetPart, HoldPart, GonePart, Holds, HolderPcs, At
<1>4. FreshPart /\ ServedPart /\ UniquePart /\ RestorePart
  BY <1>1, <1>2 DEF FreshPart, ServedPart, UniquePart, RestorePart, Taken, EntryIs, At, AttAt, Busy, Working, Served
<1> QED BY <1>3, <1>4 DEF Owed

-----------------------------------------------------------------------------
(* Operations are answered once *)

UnderWayStates == {"Attaching", "Removing"}

\* The operation under way has no answer yet, nor has one that was not handed out.
Answering ==
  /\ \A o \in Ops : o > ops => answer[o] = "none"
  /\ entry.st \in UnderWayStates => entry.o \in Ops /\ answer[entry.o] = "pending"

\* The registry's operations answer what is under way, and nothing else.
LEMMA RegMoveAnswers ==
  ASSUME MTypeOK, Numbers, Answering, RegMove
  PROVE  Answering' /\ [Promised!ResNext]_(Promised!rvars)
<1> DEFINE open(a) == IF a \in {"none", "pending"} THEN "open" ELSE a
           run     == [kind |-> CASE EntryIs("Attaching") -> "attach" [] EntryIs("Removing") -> "remove" [] OTHER -> "none",
                       o    |-> IF entry.st \in {"Attaching", "Removing"} THEN entry.o ELSE NoOp]
           told    == [o \in Ops |-> open(answer[o])]
<1>1. /\ answer \in [Ops -> Answers] /\ ops \in Nat /\ MaxOps \in Nat /\ Ops = 1..MaxOps
      /\ entry \in [st : States, o : 0..MaxOps] /\ stopped \in BOOLEAN /\ entry.o <= ops
  BY OpsAreFinite DEF MTypeOK, Numbers, Ops
<1>2. entry.st \notin UnderWayStates => run = Promised!Idle
  BY DEF UnderWayStates, EntryIs, Promised!Idle, NoOp
<1>3. entry.st = "Attaching" => run = [kind |-> "attach", o |-> entry.o]
  BY DEF EntryIs
<1>4. entry.st = "Removing" => run = [kind |-> "remove", o |-> entry.o]
  BY DEF EntryIs
<1>5. entry'.st \notin UnderWayStates => run' = Promised!Idle
  BY DEF UnderWayStates, EntryIs, Promised!Idle, NoOp
<1>6. entry'.st = "Attaching" => run' = [kind |-> "attach", o |-> entry'.o]
  BY DEF EntryIs
<1>7. entry'.st = "Removing" => run' = [kind |-> "remove", o |-> entry'.o]
  BY DEF EntryIs
<1>8. told' = [o \in Ops |-> open(answer'[o])]
  OBVIOUS
<1>9. entry.st \in UnderWayStates => told[run.o] = "open" /\ run.o = entry.o /\ entry.o \in Ops
  BY <1>1, <1>3, <1>4 DEF Answering, UnderWayStates
<1>10. ASSUME NEW a \in {"Ready", "Failed", "Removed", "Stopped"}, entry.st \in UnderWayStates,
              answer' = [answer EXCEPT ![entry.o] = a]
       PROVE  told[run.o] = "open" /\ told' = [told EXCEPT ![run.o] = a]
  BY <1>1, <1>8, <1>9, <1>10
<1>11. ASSUME answer' = [answer EXCEPT ![NextOp] = "pending"], NextOp \in Ops
       PROVE  told' = told
  <2>1. NextOp > ops /\ answer[NextOp] = "none"
    BY <1>1, <1>11 DEF Answering, NextOp
  <2> QED BY <1>1, <1>8, <1>11, <2>1
<1>12. ASSUME NEW a \in {"Ready", "Failed", "Removed", "Stopped"}, entry.st \in UnderWayStates,
              answer' = [answer EXCEPT ![entry.o] = a], ops' = ops, entry'.st \notin UnderWayStates
       PROVE  Answering'
  BY <1>1, <1>12 DEF Answering
<1> HIDE DEF run, told, open
<1>13. CASE UNCHANGED reg
  <2>1. Answering'
    BY <1>13 DEF reg, Answering
  <2>2. run' = run /\ told' = told
    BY <1>13 DEF reg, run, told, EntryIs
  <2> QED BY <1>13, <2>1, <2>2 DEF reg, Promised!rvars, run, told, open
<1>14. CASE NextOp \in Ops /\ ~stopped /\ entry.st \in {"Absent", "Ready", "Failed"} /\ StartAttach
  <2>1. /\ answer' = [answer EXCEPT ![NextOp] = "pending"] /\ entry' = [st |-> "Attaching", o |-> NextOp]
        /\ ops' = NextOp /\ stopped' = stopped /\ NextOp = ops + 1 /\ NextOp <= MaxOps /\ ops < MaxOps
    BY <1>1, <1>14 DEF StartAttach, Hand, Answered, NextOp
  <2>2. Answering'
    BY <1>1, <2>1, <1>14 DEF Answering
  <2>3. run = Promised!Idle /\ told' = told /\ run' = [kind |-> "attach", o |-> ops + 1]
    BY <1>2, <1>6, <1>11, <1>14, <2>1 DEF UnderWayStates
  <2>4. Promised!Attach
    BY <1>14, <2>1, <2>3 DEF Promised!Attach, Promised!Fresh, run, told, open
  <2> QED BY <2>2, <2>4 DEF Promised!ResNext
<1>15. CASE NextOp \in Ops /\ ~stopped /\ entry.st \in {"Attaching", "Ready", "Failed"} /\ BeginRemove
  <2>1. /\ answer' = [o \in Ops |-> IF entry.st = "Attaching" /\ o = entry.o THEN "Removed"
                                    ELSE IF o = NextOp THEN "pending" ELSE answer[o]]
        /\ entry' = [st |-> "Removing", o |-> NextOp]
        /\ ops' = NextOp /\ stopped' = stopped /\ NextOp = ops + 1 /\ NextOp <= MaxOps /\ ops < MaxOps
    BY <1>1, <1>15 DEF BeginRemove, Hand, EntryIs, NextOp
  <2>2. Answering'
    BY <1>1, <2>1, <1>15 DEF Answering
  <2>3. run' = [kind |-> "remove", o |-> ops + 1]
    BY <1>7, <2>1
  <2>4. CASE entry.st = "Attaching"
    <3>1. answer[NextOp] = "none" /\ entry.o # NextOp
      BY <1>1, <1>15, <2>1 DEF Answering
    <3>2. told' = [told EXCEPT ![run.o] = "Removed"]
      <4>1. \A o \in Ops : open(answer'[o]) = IF o = entry.o THEN "Removed" ELSE open(answer[o])
        BY <1>1, <2>1, <2>4, <3>1 DEF open
      <4>2. [o \in Ops |-> open(answer'[o])] = [[o \in Ops |-> open(answer[o])] EXCEPT ![entry.o] = "Removed"]
        BY <4>1
      <4> QED BY <1>8, <1>9, <2>4, <4>2 DEF told, UnderWayStates
    <3>3. told[run.o] = "open" /\ run.kind = "attach"
      BY <1>3, <1>9, <2>4 DEF UnderWayStates
    <3>4. Promised!Tell("Removed")
      BY <3>2, <3>3 DEF Promised!Tell, run, told, open
    <3>5. Promised!Remove
      BY <1>15, <2>1, <2>3, <3>3, <3>4 DEF Promised!Remove, Promised!Fresh, run, told, open
    <3> QED BY <2>2, <3>5 DEF Promised!ResNext
  <2>5. CASE entry.st # "Attaching"
    <3>1. answer' = [answer EXCEPT ![NextOp] = "pending"]
      BY <1>1, <2>1, <2>5
    <3>2. told' = told /\ run = Promised!Idle
      BY <1>2, <1>11, <1>15, <2>5, <3>1 DEF UnderWayStates
    <3>3. Promised!Remove
      BY <1>15, <2>1, <2>3, <3>2 DEF Promised!Remove, Promised!Fresh, run, told, open
    <3> QED BY <2>2, <3>3 DEF Promised!ResNext
  <2> QED BY <2>4, <2>5
<1>16. ASSUME NEW o \in 0..MaxOps, CommitReady(o) \/ CommitFailed(o)
       PROVE  Answering' /\ Promised!Finish
  <2>1. entry.st = "Attaching" /\ entry.o = o /\ ~stopped /\ stopped' = stopped /\ ops' = ops
        /\ entry'.st \notin UnderWayStates
    BY <1>16 DEF CommitReady, CommitFailed, Owns, EntryIs, UnderWayStates
  <2>2. PICK a \in {"Ready", "Failed"} : answer' = [answer EXCEPT ![entry.o] = a]
    BY <1>16, <2>1 DEF CommitReady, CommitFailed, Answered
  <2>3. Answering'
    BY <1>12, <2>1, <2>2 DEF UnderWayStates
  <2>4. told[run.o] = "open" /\ told' = [told EXCEPT ![run.o] = a]
    BY <1>10, <2>1, <2>2 DEF UnderWayStates
  <2>5. run.kind = "attach" /\ run # Promised!Idle /\ run' = Promised!Idle
    BY <1>3, <1>5, <2>1 DEF Promised!Idle
  <2>6. Promised!Tell(a)
    BY <2>4 DEF Promised!Tell, run, told, open
  <2> QED BY <2>1, <2>2, <2>3, <2>5, <2>6 DEF Promised!Finish, run, told, open
<1>17. ASSUME NEW o \in 0..MaxOps, FinishRemove(o) \/ RestoreAttach(o), ~UNCHANGED reg
       PROVE  Answering' /\ Promised!Finish
  <2>1. entry.st = "Removing" /\ entry.o = o /\ ~stopped /\ stopped' = stopped /\ ops' = ops
        /\ entry'.st \notin UnderWayStates
    BY <1>17 DEF FinishRemove, RestoreAttach, EntryIs, UnderWayStates
  <2>2. PICK a \in {"Removed", "Failed"} : answer' = [answer EXCEPT ![entry.o] = a]
    BY <1>17, <2>1 DEF FinishRemove, RestoreAttach, Answered, EntryIs
  <2>3. Answering'
    BY <1>12, <2>1, <2>2 DEF UnderWayStates
  <2>4. told[run.o] = "open" /\ told' = [told EXCEPT ![run.o] = a]
    BY <1>10, <2>1, <2>2 DEF UnderWayStates
  <2>5. run.kind = "remove" /\ run # Promised!Idle /\ run' = Promised!Idle
    BY <1>4, <1>5, <2>1 DEF Promised!Idle
  <2>6. Promised!Tell(a)
    BY <2>4 DEF Promised!Tell, run, told, open
  <2> QED BY <2>1, <2>2, <2>3, <2>5, <2>6 DEF Promised!Finish, run, told, open
<1>18. CASE StopRegistry
  <2>1. /\ stopped' = TRUE /\ ops' = ops /\ entry' = [st |-> "Absent", o |-> NoOp]
        /\ answer' = [o \in Ops |-> IF entry.st \in UnderWayStates
                                    THEN IF o = entry.o THEN "Stopped" ELSE answer[o] ELSE answer[o]]
    BY <1>18 DEF StopRegistry, EntryIs, UnderWayStates
  <2>2. entry'.st \notin UnderWayStates /\ run' = Promised!Idle
    BY <1>5, <2>1 DEF UnderWayStates
  <2>3. CASE entry.st \in UnderWayStates
    <3>1. answer' = [answer EXCEPT ![entry.o] = "Stopped"]
      BY <1>1, <2>1, <2>3
    <3>2. Answering' /\ told[run.o] = "open" /\ told' = [told EXCEPT ![run.o] = "Stopped"]
      BY <1>10, <1>12, <2>1, <2>2, <2>3, <3>1
    <3>3. run # Promised!Idle
      BY <1>3, <1>4, <2>3 DEF UnderWayStates, Promised!Idle
    <3>4. Promised!Tell("Stopped")
      BY <3>2 DEF Promised!Tell, run, told, open
    <3>5. Promised!Close
      BY <2>1, <2>2, <3>3, <3>4 DEF Promised!Close, run, told, open
    <3> QED BY <3>2, <3>5 DEF Promised!ResNext
  <2>4. CASE entry.st \notin UnderWayStates
    <3>1. answer' = answer
      BY <1>1, <2>1, <2>4
    <3>2. Answering' /\ told' = told /\ run = Promised!Idle
      BY <1>2, <1>8, <2>1, <2>2, <2>4, <3>1 DEF Answering, told
    <3>3. Promised!Close
      BY <2>1, <2>2, <3>2 DEF Promised!Close, run, told, open
    <3> QED BY <3>2, <3>3 DEF Promised!ResNext
  <2> QED BY <2>3, <2>4
<1> QED BY <1>13, <1>14, <1>15, <1>16, <1>17, <1>18 DEF RegMove, Promised!ResNext

\* Nothing is under way at first.
LEMMA AnsweringInit == ASSUME Init PROVE Answering /\ Promised!ResInit
<1>1. /\ entry.st \in {"Absent", "Ready"} /\ ops = 0 /\ stopped = FALSE /\ answer = [o \in Ops |-> "none"]
  BY DEF Init
<1>2. Answering
  BY <1>1 DEF Answering, UnderWayStates
<1> QED BY <1>1, <1>2 DEF Promised!ResInit, Promised!Idle, EntryIs, NoOp, Ops

-----------------------------------------------------------------------------
(* The theorems *)

\* What every step preserves.
MInv == MTypeOK /\ Numbers /\ Apart /\ Closed /\ Owed /\ Answering

\* It holds when nobody has called.
LEMMA MInvInit == ASSUME Init PROVE MInv
<1>1. MaxOps \in Nat /\ IsFiniteSet(Callers) /\ MaxFaults \in Nat
  BY OpsAreFinite, MemberAssumption
<1>2. Open \in RtRec /\ Starts(NoOp) \in RtRec
  BY <1>1 DEF Open, Starts, Constraint, RtRec, Kinds, NoOp
<1>3. NoCall \in CallRec /\ NoAtt \in AttRec
  BY <1>1, <1>2 DEF NoCall, CallRec, CallPcs, CallKinds, NoAtt, AttRec, AttPcs, NoOp
<1>4. NoLooper \in [pc : {"none", "wait", "read", "put", "claim", "run"}, rt : RtRec] /\ NoLooper.pc = "none"
      /\ [NoLooper EXCEPT !.pc = "wait"] \in [pc : {"none", "wait", "read", "put", "claim", "run"}, rt : RtRec]
      /\ [NoLooper EXCEPT !.pc = "wait"].pc = "wait"
  BY <1>2 DEF NoLooper
<1>5. RegType /\ CoordType /\ AttType
  <2>1. rt \in RtRec /\ work = "none"
    BY <1>2 DEF Init
  <2>2. entry \in [st : States, o : 0..MaxOps] /\ stopped = FALSE
    BY <1>1 DEF Init, States, NoOp
  <2>3. answer = [o \in Ops |-> "none"] /\ att = [o \in Ops |-> NoAtt]
    BY DEF Init
  <2> QED BY <1>3, <2>1, <2>2, <2>3 DEF RegType, CoordType, AttType, Answers
<1>6. LoopType /\ OtherType
  <2>1. \/ loop = FALSE /\ looper = NoLooper
        \/ loop = TRUE /\ looper = [NoLooper EXCEPT !.pc = "wait"]
    BY DEF Init
  <2>2. shut = FALSE /\ permit = FALSE /\ agent \in {"none", "live"} /\ member = TRUE /\ published = TRUE
        /\ faults = 0 /\ leftover = FALSE /\ abandoned = {} /\ loose = FALSE /\ died = FALSE
    BY DEF Init
  <2>3. LoopType
    BY <1>4, <2>1, <2>2 DEF LoopType
  <2>4. OtherType
    <3>1. {member, published, leftover, loose, died} \subseteq BOOLEAN
      BY <2>2
    <3>2. faults \in 0..MaxFaults
      BY <1>1, <2>2
    <3> QED BY <2>2, <3>1, <3>2 DEF OtherType
  <2> QED BY <2>3, <2>4
<1>7. ops \in 0..MaxOps /\ gates \in 0..MaxOps /\ call \in [Callers -> CallRec]
  BY <1>1, <1>3 DEF Init
<1>8. MTypeOK
  BY <1>5, <1>6, <1>7 DEF MTypeOK, RegType, CoordType, AttType, LoopType, OtherType
<1>9. \A c \in Callers : call[c].pc = "idle" /\ call[c].o = 0 /\ call[c].gate = 0
  BY DEF Init, NoCall, NoOp
<1>10. Numbers
  <2>1. Cardinality(Numbered) \in Nat /\ Cardinality(GateKept) \in Nat
    <3>1. Numbered \in SUBSET Callers /\ GateKept \in SUBSET Callers
      BY DEF Numbered, GateKept
    <3> QED BY <3>1, CallerSets
  <2>2. ops = 0 /\ gates = 0 /\ entry.o = 0
    BY DEF Init, NoOp
  <2> QED BY <1>9, <2>1, <2>2 DEF Numbers, Fits, Unhanded, Ungated, Rebuilder, Owning, NoOp
<1>11. Apart /\ Closed
  BY <1>9 DEF Apart, Closed, Closing, Gated, At
<1> QED BY <1>8, <1>10, <1>11, OwedInit, AnsweringInit DEF MInv

\* And after every step.
LEMMA MInvNext == ASSUME MInv, [Next]_vars PROVE MInv'
<1> USE DEF MInv
<1>1. MTypeOK' /\ Numbers' /\ Apart' /\ Owed' /\ Answering'
  BY TypesKept, ApartKept, OwedNext, NextMovesReg, RegMoveAnswers
<1>2. Closed'
  <2> SUFFICES ASSUME ~loose', NEW c \in Callers, Closing(c)'
               PROVE  Shut'
    BY DEF Closed
  <2>1. ~loose
    BY LooseStays
  <2>2. CASE Closing(c)
    BY <2>1, <2>2, ShutKept DEF Closed
  <2>3. CASE RebuildGate(c)
    <3>1. CASE To(c, "done")
      BY <3>1 DEF Closing, Gated, To, MTypeOK, CallRec
    <3>2. CASE ~To(c, "done")
      BY <2>3, <3>2 DEF RebuildGate, Shut, Idle, Starts, Open, Constraint
    <3> QED BY <3>1, <3>2
  <2> QED BY <2>2, <2>3, ClosingBefore
<1> QED BY <1>1, <1>2

\* In every state every variable has its type, no matter how many callers take operations and gates;
\* and an event loop is registered exactly when its task runs.
THEOREM MemberTypeCorrect == Spec => []MTypeOK
<1>1. MInv => MTypeOK
  BY DEF MInv
<1> QED BY <1>1, MInvInit, MInvNext, PTL DEF Spec

\* Whatever the calls that race with it, a rebuild does not kill the agent under a batch unless somebody
\* opened the slot during the rebuild (begin_runtime_restart).
THEOREM GateHolds == Spec => []RebuildSparesTheBatch
<1>1. MInv => RebuildSparesTheBatch
  <2> SUFFICES ASSUME MInv, NEW c \in Callers, At(c, "rebuild"), att[call[c].o].pc \in {"wipe", "start", "kill"},
                      ~loose
               PROVE  work # "active"
    BY DEF RebuildSparesTheBatch
  <2>1. Gated(c)
    BY DEF MInv, Numbers, Fits, Gated, At, Rebuilder
  <2> QED BY <2>1 DEF MInv, Closed, Closing, Sparing, Shut
<1> QED BY <1>1, MInvInit, MInvNext, PTL DEF Spec

\* When nothing is under way, a member the registry calls Ready has its event loop and its agent, unless
\* the agent died by itself: no attach has taken them from the one that won (commit_ready,
\* cleanup_stale_attach).
THEOREM ReadyServed == Spec => []ReadyMemberIsServed
<1>1. MInv => ReadyMemberIsServed
  BY DEF MInv, Owed, ServedPart, ReadyMemberIsServed, Quiet, Watched, UnderWay, RemovingPcs, Served, EntryIs
<1> QED BY <1>1, MInvInit, MInvNext, PTL DEF Spec

\* When nothing is under way, a member that was removed has left neither an agent nor an event loop behind
\* (remove_agent), however its two kills and an attach in flight were interleaved.
THEOREM RemovedGone == Spec => []RemovedMemberIsGone
<1>1. MInv => RemovedMemberIsGone
  <2> SUFFICES ASSUME MInv, Quiet, published, ~member, ~leftover
               PROVE  agent = "none" /\ ~loop
    BY DEF RemovedMemberIsGone
  <2>1. LoopDoomed /\ AgentDoomed
    BY DEF MInv, Owed, GonePart, Watched
  <2>2. \A o \in Ops : att[o].pc \in {"none", "done"}
    BY DEF Quiet, Alive
  <2> QED BY <2>1, <2>2 DEF LoopDoomed, AgentDoomed, AttAt, MInv, MTypeOK
<1> QED BY <1>1, MInvInit, MInvNext, PTL DEF Spec

\* The registry implements Reservations: whatever races, every operation of a member is answered at most
\* once, by the call or attach whose it is or by what took its place, and a removal is not interrupted.
THEOREM ReservationsKept == Spec => KeepsReservations
<1>1. Init => Promised!ResInit
  BY AnsweringInit
<1>2. MInv /\ [Next]_vars => [Promised!ResNext]_(Promised!rvars)
  BY NextMovesReg, RegMoveAnswers DEF MInv
<1> QED BY <1>1, <1>2, MInvInit, MInvNext, PTL DEF Spec, KeepsReservations, Promised!ResSpec

\* A member has at most one attach at work on its agent and loop (reserve_attach and its likes), for any
\* number of callers that wake, retry, repair, rebuild and remove it, removals that fail included.
THEOREM SingleAttach == Spec => []OneAttachAtATime
<1>1. MInv => OneAttachAtATime
  <2> SUFFICES ASSUME MInv, member, published, ~leftover,
                      NEW o \in Ops, NEW p \in Ops, Busy(o), Busy(p)
               PROVE  o = p
    BY DEF OneAttachAtATime, Busy
  <2> QED BY DEF MInv, Owed, UniquePart, Watched, Taken
<1> QED BY <1>1, MInvInit, MInvNext, PTL DEF Spec
=============================================================================
