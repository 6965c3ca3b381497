-------------------------- MODULE SessionQueueProofs --------------------------
(***************************************************************************)
(* Theorems about the queue of messages between conversations, for every   *)
(* number of messages, targets, failures and events and for all limits.    *)
(***************************************************************************)
EXTENDS SessionQueue, SubsequenceLemmas

-----------------------------------------------------------------------------
(* The invariant *)

IsPushed(m) == m \in Range(pushed[To[m]])
Trying      == {"look", "steer", "claim", "write"}

\* Every variable has its shape, the queue and its history included.
Shapes ==
  /\ queue \in [Targets -> Seq(Messages)] /\ pushed \in [Targets -> Seq(Messages)]
  /\ drain \in [pc : DrainPcs, msg : Messages \cup {NoMessage}, res : Results]
  /\ hand \subseteq Messages /\ aged \subseteq Messages /\ disabled \subseteq Targets
  /\ fallback \subseteq Messages /\ ringing \subseteq Messages
  /\ at \in [Messages -> AttemptPcs] /\ told \in [Messages -> {"", "accepted", "refused"}]
  /\ turn \in [Targets -> Messages \cup {Other, NoTurn}]
  /\ op \in [Targets -> [pc : OpPcs, cause : {"user", "restart"}]]
  /\ rows \in [Messages -> 0..Often] /\ marks \in [Marks -> SUBSET Messages]

\* q lists part of p, without repetition and in p's order.
Follows(q, p) ==
  /\ IsInjective(p) /\ Range(q) \subseteq Range(p)
  /\ \A k, l \in DOMAIN q, i, j \in DOMAIN p : q[k] = p[i] /\ q[l] = p[j] /\ k < l => i < j

\* A target's queue is what is left of the messages pushed for it, in that order.
InLine ==
  \A t \in Targets :
    /\ Follows(queue[t], pushed[t])
    /\ \A m \in Range(pushed[t]) : To[m] = t

\* The counter counts; the limits hold.
Counted ==
  /\ total = Size(queue) /\ total <= GlobalLimit
  /\ \A t \in Targets : Len(queue[t]) <= PerTargetLimit

\* Where a message is in its life, and what the drainer holds.
Staged ==
  /\ \A m \in Messages : IsPushed(m) => at[m] = "none" \/ (drain.pc = "deliver" /\ drain.msg = m)
  /\ drain.pc \in {"deliver", "record"} <=> drain.msg # NoMessage
  /\ drain.pc = "deliver" => at[drain.msg] \in Trying
  /\ hand # {} => drain.pc \in {"gate", "deliver", "record"}
  /\ drain.msg \notin hand
  /\ \A m \in InHand \cup ringing : IsPushed(m)
  /\ \A m \in fallback : at[m] \in {"steer", "claim", "write"}

\* What the drainer has copied is one message per target: the head of its queue, or one that a
\* stop has cleared.
Copies ==
  /\ \A m, n \in InHand : To[m] = To[n] => m = n
  /\ \A m \in InHand : m \in marks["stopped"] \/ (queue[To[m]] # <<>> /\ m = Head(queue[To[m]]))

\* DrainedInOrder, said of what is about to be given as well.
Ordered ==
  \A t \in Targets : \A i, j \in DOMAIN pushed[t] :
    i < j /\ pushed[t][j] \in marks["given"] \cup InHand => pushed[t][i] \notin Queued

\* No further attempt will be made for m.
Finished(m) ==
  /\ at[m] = "none"
  /\ m \in Queued \cup InHand => drain.pc = "record" /\ drain.msg = m /\ drain.res # "busy"

\* A row is in the transcript while an attempt may fall back on it, or for good; and one that shows an
\* error is there to show it.
RowsOnce ==
  /\ \A m \in Messages \ marks["bounced"] :
       IF Finished(m) THEN rows[m] <= 1 ELSE rows[m] = (IF m \in fallback THEN 1 ELSE 0)
  /\ \A m \in fallback \cup marks["errored"] : rows[m] > 0

GivenIsFinished == \A m \in marks["given"] : Finished(m)

\* What a stop has cleared is out of the queue, and given only if it was copied.
StopHolds ==
  \A m \in marks["stopped"] :
    /\ m \notin Queued /\ IsPushed(m)
    /\ m \in marks["copied"] \/ m \notin InHand \cup marks["given"]

Accounted(m) == \E k \in Marks \ {"bounced", "copied"} : m \in marks[k]

\* NoMessageVanishes, said of every message that was pushed.
Kept ==
  \A m \in Messages :
    /\ IsPushed(m) => m \in Queued \/ Accounted(m)
    /\ told[m] = "accepted" => IsPushed(m) \/ Accounted(m)
    /\ drain.pc = "record" /\ drain.res # "busy" /\ drain.msg = m => Accounted(m)

Inv ==
  /\ Shapes /\ InLine /\ Counted /\ Staged /\ Copies /\ Ordered
  /\ RowsOnce /\ GivenIsFinished /\ StopHolds /\ Kept

-----------------------------------------------------------------------------
(* Queues and the histories they follow *)

\* A queue and its history grow together.
LEMMA FollowsAppend ==
  ASSUME NEW S, NEW q \in Seq(S), NEW p \in Seq(S), Follows(q, p), NEW x \in S, x \notin Range(p)
  PROVE  Follows(Append(q, x), Append(p, x))
<1> DEFINE u == Append(q, x)
           v == Append(p, x)
<1>1. /\ u \in Seq(S) /\ DOMAIN u = 1..(Len(q) + 1) /\ u[Len(q) + 1] = x
      /\ \A k \in DOMAIN q : u[k] = q[k]
      /\ v \in Seq(S) /\ DOMAIN v = 1..(Len(p) + 1) /\ v[Len(p) + 1] = x
      /\ \A k \in DOMAIN p : v[k] = p[k]
  BY AppendProperties, LenProperties
<1>2. DOMAIN q = 1..Len(q) /\ Len(q) \in Nat /\ DOMAIN p = 1..Len(p) /\ Len(p) \in Nat
  BY LenProperties
<1> HIDE DEF u, v
<1>3. \A k \in DOMAIN p : p[k] # x
  BY DEF Range
<1>4. \A k \in DOMAIN q : q[k] # x
  BY <1>3 DEF Follows, Range
<1>5. IsInjective(v)
  <2> SUFFICES ASSUME NEW k \in DOMAIN v, NEW l \in DOMAIN v, v[k] = v[l]  PROVE k = l
    BY DEF IsInjective
  <2>1. CASE k \in DOMAIN p /\ l \in DOMAIN p
    BY <1>1, <2>1 DEF Follows, IsInjective
  <2>2. CASE k = Len(p) + 1 /\ l = Len(p) + 1
    BY <2>2
  <2>3. CASE k \in DOMAIN p /\ l = Len(p) + 1
    BY <1>1, <1>3, <2>3
  <2>4. CASE k = Len(p) + 1 /\ l \in DOMAIN p
    BY <1>1, <1>3, <2>4
  <2> QED BY <1>1, <1>2, <2>1, <2>2, <2>3, <2>4
<1>6. Range(u) \subseteq Range(v)
  <2> SUFFICES ASSUME NEW k \in DOMAIN u  PROVE \E i \in DOMAIN v : v[i] = u[k]
    BY DEF Range
  <2>1. CASE k = Len(q) + 1
    BY <1>1, <1>2, <2>1
  <2>2. CASE k \in DOMAIN q
    <3>1. PICK i \in DOMAIN p : p[i] = q[k]
      BY <2>2 DEF Follows, Range
    <3> QED BY <1>1, <1>2, <2>2, <3>1
  <2> QED BY <1>1, <1>2, <2>1, <2>2
<1>7. ASSUME NEW k \in DOMAIN u, NEW l \in DOMAIN u, NEW i \in DOMAIN v, NEW j \in DOMAIN v,
             u[k] = v[i], u[l] = v[j], k < l
      PROVE  i < j
  <2>1. k \in DOMAIN q /\ u[k] = q[k]
    BY <1>1, <1>2, <1>7
  <2>2. i \in DOMAIN p /\ v[i] = p[i]
    <3>1. i # Len(p) + 1
      BY <1>1, <1>4, <1>7, <2>1
    <3> QED BY <1>1, <1>2, <3>1
  <2>3. CASE l \in DOMAIN q
    <3>1. j \in DOMAIN p /\ v[j] = p[j]
      BY <1>1, <1>2, <1>4, <1>7, <2>3
    <3> QED BY <1>1, <1>7, <2>1, <2>2, <2>3, <3>1 DEF Follows
  <2>4. CASE l = Len(q) + 1
    <3>1. j = Len(p) + 1
      BY <1>1, <1>2, <1>3, <1>7, <2>4
    <3> QED BY <1>2, <2>2, <3>1
  <2> QED BY <1>1, <1>2, <2>3, <2>4
<1> QED BY <1>5, <1>6, <1>7 DEF Follows, u, v

\* What is left when the head has gone.
LEMMA TailElements ==
  ASSUME NEW S, NEW q \in Seq(S), q # <<>>
  PROVE  /\ Tail(q) \in Seq(S) /\ Len(Tail(q)) = Len(q) - 1 /\ Len(q) \in Nat \ {0}
         /\ DOMAIN Tail(q) = 1..(Len(q) - 1) /\ \A k \in DOMAIN Tail(q) : Tail(q)[k] = q[k + 1]
         /\ Head(q) = q[1] /\ Head(q) \in Range(q) /\ 1 \in DOMAIN q
<1>1. Len(q) \in Nat /\ Len(q) # 0 /\ DOMAIN q = 1..Len(q)
  BY LenProperties, EmptySeq
<1>2. Tail(q) \in Seq(S) /\ Len(Tail(q)) = Len(q) - 1 /\ \A k \in 1..(Len(q) - 1) : Tail(q)[k] = q[k + 1]
  BY <1>1, HeadTailProperties
<1>3. DOMAIN Tail(q) = 1..(Len(q) - 1)
  BY <1>2, LenProperties
<1>4. Head(q) = q[1] /\ 1 \in DOMAIN q
  BY <1>1
<1> QED BY <1>1, <1>2, <1>3, <1>4 DEF Range

\* A queue that follows has no repetition.
LEMMA FollowsInjective ==
  ASSUME NEW S, NEW q \in Seq(S), NEW p \in Seq(S), Follows(q, p)
  PROVE  IsInjective(q)
<1> SUFFICES ASSUME NEW k \in DOMAIN q, NEW l \in DOMAIN q, q[k] = q[l], k # l  PROVE FALSE
  BY DEF IsInjective
<1>1. k \in Nat /\ l \in Nat
  BY LenProperties
<1>2. PICK i \in DOMAIN p : p[i] = q[k]
  BY DEF Follows, Range
<1>3. i \in Nat
  BY LenProperties
<1> QED BY <1>1, <1>2, <1>3 DEF Follows

LEMMA FollowsTail ==
  ASSUME NEW S, NEW q \in Seq(S), NEW p \in Seq(S), Follows(q, p), q # <<>>
  PROVE  Follows(Tail(q), p) /\ Range(Tail(q)) = Range(q) \ {Head(q)}
<1> DEFINE r == Tail(q)
<1>1. /\ r \in Seq(S) /\ Len(q) \in Nat \ {0} /\ DOMAIN r = 1..(Len(q) - 1)
      /\ \A k \in DOMAIN r : r[k] = q[k + 1]
      /\ Head(q) = q[1] /\ 1 \in DOMAIN q
  BY TailElements
<1>2. DOMAIN q = 1..Len(q)
  BY LenProperties
<1> HIDE DEF r
<1>3. \A k \in DOMAIN r : k + 1 \in DOMAIN q /\ k + 1 # 1
  BY <1>1, <1>2
<1>4. \A k \in DOMAIN q : k # 1 => k - 1 \in DOMAIN r /\ (k - 1) + 1 = k
  BY <1>1, <1>2
<1>5. IsInjective(q)
  BY FollowsInjective
<1>6. Range(r) = Range(q) \ {Head(q)}
  <2>1. \A k \in DOMAIN r : r[k] \in Range(q) \ {Head(q)}
    BY <1>1, <1>3, <1>5 DEF Range, IsInjective
  <2>2. \A k \in DOMAIN q : q[k] # Head(q) => \E l \in DOMAIN r : r[l] = q[k]
    BY <1>1, <1>4
  <2> QED BY <2>1, <2>2 DEF Range
<1>7. ASSUME NEW k \in DOMAIN r, NEW l \in DOMAIN r, NEW i \in DOMAIN p, NEW j \in DOMAIN p,
             r[k] = p[i], r[l] = p[j], k < l
      PROVE  i < j
  <2>1. k + 1 < l + 1
    BY <1>1, <1>7
  <2> QED BY <1>1, <1>3, <1>7, <2>1 DEF Follows
<1>8. Follows(r, p)
  BY <1>6, <1>7 DEF Follows
<1> QED BY <1>6, <1>8 DEF r

\* The head of a queue was pushed before everything else in it.
LEMMA HeadFirst ==
  ASSUME NEW S, NEW q \in Seq(S), NEW p \in Seq(S), Follows(q, p), q # <<>>,
         NEW i \in DOMAIN p, NEW j \in DOMAIN p, i < j, p[j] = Head(q)
  PROVE  p[i] \notin Range(q)
<1> SUFFICES ASSUME NEW k \in DOMAIN q, q[k] = p[i]  PROVE FALSE
  BY DEF Range
<1>1. Head(q) = q[1] /\ 1 \in DOMAIN q
  BY TailElements
<1>2. i \in Nat /\ j \in Nat /\ k \in Nat /\ k >= 1
  BY LenProperties
<1>3. CASE k = 1
  BY <1>1, <1>2, <1>3 DEF Follows, IsInjective
<1>4. CASE 1 < k
  BY <1>1, <1>2, <1>4 DEF Follows
<1> QED BY <1>2, <1>3, <1>4

LEMMA FollowsWithout ==
  ASSUME NEW S, NEW q \in Seq(S), NEW p \in Seq(S), Follows(q, p), NEW T
  PROVE  Follows(Without(q, T), p)
<1> DEFINE r == Without(q, T)
<1>1. Range(r) = Range(q) \ T
  BY WithoutElements
<1>2. \A k, l \in DOMAIN r : k < l =>
         \E m, n \in DOMAIN q : m < n /\ q[m] = r[k] /\ q[n] = r[l]
  BY WithoutOrder
<1> HIDE DEF r
<1>3. Follows(r, p)
  BY <1>1, <1>2 DEF Follows
<1> QED BY <1>3 DEF r

-----------------------------------------------------------------------------
(* What each operation does to the queue *)

\* A message waits in the queue of its own target, where it was pushed.
LEMMA QueuedAt ==
  ASSUME Shapes, InLine
  PROVE  /\ \A m : m \in Queued <=> m \in Messages /\ m \in Range(queue[To[m]])
         /\ \A m \in Queued : IsPushed(m)
         /\ \A t \in Targets : \A m \in Range(queue[t]) : m \in Messages /\ To[m] = t
         /\ \A t \in Targets : \A m \in Range(pushed[t]) : m \in Messages /\ To[m] = t
         /\ \A m \in Messages : To[m] \in Targets
<1>1. \A t \in Targets : Range(queue[t]) \subseteq Range(pushed[t]) /\ Range(pushed[t]) \subseteq Messages
  <2> SUFFICES ASSUME NEW t \in Targets
      PROVE Range(queue[t]) \subseteq Range(pushed[t]) /\ Range(pushed[t]) \subseteq Messages
    OBVIOUS
  <2>1. pushed[t] \in Seq(Messages)
    BY DEF Shapes
  <2>2. \A i \in DOMAIN pushed[t] : pushed[t][i] \in Messages
    BY <2>1, ElementOfSeq, LenProperties
  <2> QED BY <2>2 DEF InLine, Follows, Range
<1>2. \A t \in Targets : ToSet(queue[t]) = Range(queue[t])
  BY DEF ToSet, Range
<1>3. \A t \in Targets : \A m \in Range(pushed[t]) : m \in Messages /\ To[m] = t
  BY <1>1 DEF InLine
<1>4. \A t \in Targets : \A m \in Range(queue[t]) : m \in Messages /\ To[m] = t /\ m \in Range(pushed[t])
  BY <1>1, <1>3
<1>5. \A m \in Messages : To[m] \in Targets
  BY SessionQueueAssumption
<1>6. \A m : m \in Queued <=> m \in Messages /\ m \in Range(queue[To[m]])
  BY <1>2, <1>4, <1>5 DEF Queued
<1>7. \A m \in Queued : IsPushed(m)
  BY <1>4, <1>5, <1>6 DEF IsPushed
<1> QED BY <1>3, <1>4, <1>5, <1>6, <1>7

LEMMA PushMoves ==
  ASSUME Shapes, InLine, NEW m \in Messages, ~IsPushed(m), Push(m)
  PROVE  /\ queue' \in [Targets -> Seq(Messages)] /\ pushed' \in [Targets -> Seq(Messages)]
         /\ InLine' /\ Queued' = Queued \cup {m}
         /\ \A n \in Messages : IsPushed(n)' <=> IsPushed(n) \/ n = m
         /\ \A t \in Targets : queue[t] # <<>> => queue'[t] # <<>> /\ Head(queue'[t]) = Head(queue[t])
         /\ \A t \in Targets : \A i \in DOMAIN pushed'[t] :
              pushed'[t][i] = IF i \in DOMAIN pushed[t] THEN pushed[t][i] ELSE m
         /\ \A t \in Targets : DOMAIN pushed[t] = 1..Len(pushed[t]) /\ Len(pushed[t]) \in Nat
                              /\ DOMAIN pushed'[t] \subseteq Nat \ {0}
<1> DEFINE u == To[m]
<1>1. u \in Targets
  BY QueuedAt
<1>2. queue' = [queue EXCEPT ![u] = Append(queue[u], m)] /\ pushed' = [pushed EXCEPT ![u] = Append(pushed[u], m)]
  BY DEF Push
<1> HIDE DEF u
<1>3. queue[u] \in Seq(Messages) /\ pushed[u] \in Seq(Messages)
  BY <1>1 DEF Shapes
<1>4. /\ queue'[u] = Append(queue[u], m) /\ pushed'[u] = Append(pushed[u], m)
      /\ \A t \in Targets \ {u} : queue'[t] = queue[t] /\ pushed'[t] = pushed[t]
  BY <1>1, <1>2 DEF Shapes
<1>5. /\ Append(queue[u], m) \in Seq(Messages)
      /\ DOMAIN Append(queue[u], m) = 1..(Len(queue[u]) + 1)
      /\ \A i \in DOMAIN queue[u] : Append(queue[u], m)[i] = queue[u][i]
      /\ Append(queue[u], m)[Len(queue[u]) + 1] = m
      /\ DOMAIN queue[u] = 1..Len(queue[u]) /\ Len(queue[u]) \in Nat
  BY <1>3, AppendProperties, LenProperties
<1>6. /\ Append(pushed[u], m) \in Seq(Messages)
      /\ DOMAIN Append(pushed[u], m) = 1..(Len(pushed[u]) + 1)
      /\ \A i \in DOMAIN pushed[u] : Append(pushed[u], m)[i] = pushed[u][i]
      /\ Append(pushed[u], m)[Len(pushed[u]) + 1] = m
      /\ DOMAIN pushed[u] = 1..Len(pushed[u]) /\ Len(pushed[u]) \in Nat
  BY <1>3, AppendProperties, LenProperties
<1>7. Range(queue'[u]) = Range(queue[u]) \cup {m} /\ Range(pushed'[u]) = Range(pushed[u]) \cup {m}
  <2>1. DOMAIN queue'[u] = DOMAIN queue[u] \cup {Len(queue[u]) + 1}
    BY <1>4, <1>5
  <2>2. DOMAIN pushed'[u] = DOMAIN pushed[u] \cup {Len(pushed[u]) + 1}
    BY <1>4, <1>6
  <2> QED BY <1>4, <1>5, <1>6, <2>1, <2>2 DEF Range
<1>8. queue' \in [Targets -> Seq(Messages)] /\ pushed' \in [Targets -> Seq(Messages)]
  BY <1>2, <1>5, <1>6 DEF Shapes
<1>9. InLine'
  <2> SUFFICES ASSUME NEW t \in Targets
      PROVE Follows(queue'[t], pushed'[t]) /\ \A n \in Range(pushed'[t]) : To[n] = t
    BY DEF InLine, Follows
  <2>1. CASE t = u
    <3>1. m \notin Range(pushed[u])
      BY DEF IsPushed, u
    <3>2. Follows(queue[u], pushed[u])
      BY <1>1 DEF InLine
    <3>3. Follows(Append(queue[u], m), Append(pushed[u], m))
      BY <1>3, <3>1, <3>2, FollowsAppend
    <3>4. \A n \in Range(pushed'[u]) : To[n] = u
      BY <1>1, <1>7 DEF InLine, u
    <3> QED BY <1>4, <2>1, <3>3, <3>4
  <2>2. CASE t # u
    BY <1>4, <2>2 DEF InLine
  <2> QED BY <2>1, <2>2
<1>10. Queued' = Queued \cup {m}
  <2>1. \A t \in Targets : ToSet(queue'[t]) = Range(queue'[t]) /\ ToSet(queue[t]) = Range(queue[t])
    BY DEF ToSet, Range
  <2>2. \A t \in Targets : ToSet(queue'[t]) = IF t = u THEN ToSet(queue[t]) \cup {m} ELSE ToSet(queue[t])
    BY <1>4, <1>7, <2>1
  <2> QED BY <1>1, <2>2 DEF Queued
<1>11. \A n \in Messages : IsPushed(n)' <=> IsPushed(n) \/ n = m
  <2> TAKE n \in Messages
  <2>1. To[n] \in Targets
    BY QueuedAt
  <2>2. CASE To[n] = u
    BY <1>7, <2>2 DEF IsPushed
  <2>3. CASE To[n] # u
    BY <1>4, <2>1, <2>3 DEF IsPushed, u
  <2> QED BY <2>2, <2>3
<1>12. \A t \in Targets : queue[t] # <<>> => queue'[t] # <<>> /\ Head(queue'[t]) = Head(queue[t])
  <2> SUFFICES ASSUME queue[u] # <<>>
      PROVE Append(queue[u], m) # <<>> /\ Head(Append(queue[u], m)) = Head(queue[u])
    BY <1>4
  <2>1. Len(queue[u]) # 0
    BY <1>3, EmptySeq
  <2> QED BY <1>3, <1>5, <2>1
<1>13. \A t \in Targets : \A i \in DOMAIN pushed'[t] :
         pushed'[t][i] = IF i \in DOMAIN pushed[t] THEN pushed[t][i] ELSE m
  <2> TAKE t \in Targets
  <2>1. CASE t = u
    <3>1. DOMAIN pushed'[u] = DOMAIN pushed[u] \cup {Len(pushed[u]) + 1}
      BY <1>4, <1>6
    <3> QED BY <1>4, <1>6, <2>1, <3>1
  <2>2. CASE t # u
    BY <1>4, <2>2
  <2> QED BY <2>1, <2>2
<1>14. \A t \in Targets : DOMAIN pushed[t] = 1..Len(pushed[t]) /\ Len(pushed[t]) \in Nat
                         /\ DOMAIN pushed'[t] \subseteq Nat \ {0}
  <2> TAKE t \in Targets
  <2>1. pushed[t] \in Seq(Messages) /\ pushed'[t] \in Seq(Messages)
    BY <1>8 DEF Shapes
  <2>2. /\ DOMAIN pushed[t] = 1..Len(pushed[t]) /\ Len(pushed[t]) \in Nat
        /\ DOMAIN pushed'[t] = 1..Len(pushed'[t]) /\ Len(pushed'[t]) \in Nat
    BY <2>1, LenProperties
  <2> QED BY <2>2
<1> QED BY <1>8, <1>9, <1>10, <1>11, <1>12, <1>13, <1>14

\* Some queues lose elements, none gains or reorders any.
Shrinks ==
  /\ pushed' = pushed /\ queue' \in [Targets -> Seq(Messages)]
  /\ \A t \in Targets : Follows(queue'[t], pushed[t])

\* After such a step the messages that wait are those that each queue kept.
LEMMA ShrinksMoves ==
  ASSUME Shapes, InLine, Shrinks, NEW Gone,
         \A t \in Targets : Range(queue'[t]) = Range(queue[t]) \ Gone
  PROVE  InLine' /\ Queued' = Queued \ Gone /\ \A n \in Messages : IsPushed(n)' <=> IsPushed(n)
<1>1. InLine'
  BY DEF InLine, Follows, Shrinks
<1>2. \A t \in Targets : ToSet(queue'[t]) = ToSet(queue[t]) \ Gone
  BY DEF ToSet, Range
<1>3. Queued' = Queued \ Gone
  BY <1>2 DEF Queued
<1> QED BY <1>1, <1>3 DEF IsPushed, Shrinks

LEMMA HeadMoves ==
  ASSUME Shapes, InLine, NEW t \in Targets, RemoveHead(t)
  PROVE  /\ Shrinks /\ InLine' /\ \A n \in Messages : IsPushed(n)' <=> IsPushed(n)
         /\ Queued' = Queued \ (IF queue[t] = <<>> THEN {} ELSE {Head(queue[t])})
         /\ \A u \in Targets \ {t} : queue'[u] = queue[u]
<1> DEFINE Gone == IF queue[t] = <<>> THEN {} ELSE {Head(queue[t])}
<1>1. \A u \in Targets : queue[u] \in Seq(Messages) /\ pushed[u] \in Seq(Messages) /\ Follows(queue[u], pushed[u])
  BY DEF Shapes, InLine
<1>2. pushed' = pushed
  BY DEF RemoveHead, Forgets
<1>3. CASE queue[t] = <<>>
  <2>1. queue' = queue
    BY <1>3 DEF RemoveHead
  <2>2. Shrinks /\ \A u \in Targets : Range(queue'[u]) = Range(queue[u]) \ Gone
    BY <1>1, <1>2, <1>3, <2>1 DEF Shrinks, Shapes
  <2> QED BY <2>1, <2>2, ShrinksMoves
<1>4. CASE queue[t] # <<>>
  <2>1. queue' = [queue EXCEPT ![t] = Tail(queue[t])]
    BY <1>4 DEF RemoveHead
  <2>2. Tail(queue[t]) \in Seq(Messages)
    BY <1>1, <1>4, TailElements
  <2>3. queue'[t] = Tail(queue[t]) /\ \A u \in Targets \ {t} : queue'[u] = queue[u]
    BY <2>1 DEF Shapes
  <2>4. Follows(Tail(queue[t]), pushed[t]) /\ Range(Tail(queue[t])) = Range(queue[t]) \ {Head(queue[t])}
    BY <1>1, <1>4, FollowsTail
  <2>5. queue' \in [Targets -> Seq(Messages)]
    BY <2>1, <2>2 DEF Shapes
  <2>6. Shrinks
    BY <1>1, <1>2, <2>3, <2>4, <2>5 DEF Shrinks
  <2>7. \A u \in Targets \ {t} : Head(queue[t]) \notin Range(queue[u])
    BY <1>4, <1>1, QueuedAt, TailElements
  <2>8. \A u \in Targets : Range(queue'[u]) = Range(queue[u]) \ Gone
    BY <1>4, <2>3, <2>4, <2>7
  <2> QED BY <2>3, <2>6, <2>8, ShrinksMoves
<1> QED BY <1>3, <1>4

LEMMA ClearMoves ==
  ASSUME Shapes, InLine, NEW t \in Targets, ClearFor(t)
  PROVE  /\ Shrinks /\ InLine' /\ \A n \in Messages : IsPushed(n)' <=> IsPushed(n)
         /\ Queued' = Queued \ ToSet(queue[t])
         /\ \A u \in Targets \ {t} : queue'[u] = queue[u]
         /\ \A m \in Messages : m \in ToSet(queue[t]) <=> m \in Queued /\ To[m] = t
<1>1. \A u \in Targets : queue[u] \in Seq(Messages) /\ pushed[u] \in Seq(Messages) /\ Follows(queue[u], pushed[u])
  BY DEF Shapes, InLine
<1>2. pushed' = pushed /\ queue' = [queue EXCEPT ![t] = <<>>]
  BY DEF ClearFor, Forgets
<1>3. queue'[t] = <<>> /\ \A u \in Targets \ {t} : queue'[u] = queue[u]
  BY <1>2 DEF Shapes
<1>4. queue' \in [Targets -> Seq(Messages)]
  BY <1>2, EmptySeq DEF Shapes
<1>5. Follows(<<>>, pushed[t]) /\ Range(<<>>) = {}
  BY <1>1 DEF Follows, Range
<1>6. Shrinks
  BY <1>1, <1>2, <1>3, <1>4, <1>5 DEF Shrinks
<1>7. \A u \in Targets : ToSet(queue[u]) = Range(queue[u])
  BY DEF ToSet, Range
<1>8. \A u \in Targets \ {t} : Range(queue[u]) \cap Range(queue[t]) = {}
  BY QueuedAt
<1>9. \A u \in Targets : Range(queue'[u]) = Range(queue[u]) \ ToSet(queue[t])
  BY <1>3, <1>5, <1>7, <1>8
<1>10. \A m \in Messages : m \in ToSet(queue[t]) <=> m \in Queued /\ To[m] = t
  BY <1>7, QueuedAt
<1> QED BY <1>3, <1>6, <1>9, <1>10, ShrinksMoves

LEMMA ExpireMoves ==
  ASSUME Shapes, InLine, DropExpired
  PROVE  /\ Shrinks /\ InLine' /\ \A n \in Messages : IsPushed(n)' <=> IsPushed(n)
         /\ Queued' = Queued \ aged
         /\ \A t \in Targets : Len(queue'[t]) <= Len(queue[t])
<1>1. \A u \in Targets : queue[u] \in Seq(Messages) /\ pushed[u] \in Seq(Messages) /\ Follows(queue[u], pushed[u])
  BY DEF Shapes, InLine
<1>2. pushed' = pushed /\ queue' = [t \in Targets |-> Without(queue[t], aged)]
  BY DEF DropExpired, Forgets
<1>3. \A t \in Targets : /\ Without(queue[t], aged) \in Seq(Messages)
                         /\ Range(Without(queue[t], aged)) = Range(queue[t]) \ aged
                         /\ Follows(Without(queue[t], aged), pushed[t])
                         /\ Len(Without(queue[t], aged)) <= Len(queue[t])
  BY <1>1, WithoutElements, WithoutOrder, FollowsWithout
<1>4. Shrinks
  BY <1>2, <1>3 DEF Shrinks
<1> QED BY <1>2, <1>3, <1>4, ShrinksMoves

-----------------------------------------------------------------------------
(* The counter *)

\* Queues without repetition hold as many messages as they have places.
LEMMA SizeCounts ==
  ASSUME NEW q \in [Targets -> Seq(Messages)],
         \A t \in Targets : IsInjective(q[t]) /\ \A m \in Range(q[t]) : To[m] = t
  PROVE  /\ IsFiniteSet(UNION {ToSet(q[t]) : t \in Targets})
         /\ Size(q) = Cardinality(UNION {ToSet(q[t]) : t \in Targets}) /\ Size(q) \in Nat
<1> DEFINE Q == UNION {ToSet(q[t]) : t \in Targets}
           P == Places(q)
           f == [p \in P |-> q[p[1]][p[2]]]
<1>1. \A t \in Targets : ToSet(q[t]) = Range(q[t]) /\ Range(q[t]) \subseteq Messages
  <2> TAKE t \in Targets
  <2>1. q[t] \in Seq(Messages)
    OBVIOUS
  <2>2. \A i \in DOMAIN q[t] : q[t][i] \in Messages
    BY <2>1, ElementOfSeq, LenProperties
  <2> QED BY <2>2 DEF ToSet, Range
<1>2. IsFiniteSet(Messages)
  BY FS_Interval, SessionQueueAssumption DEF Messages
<1>3. IsFiniteSet(Q)
  <2>1. Q \in SUBSET Messages
    BY <1>1
  <2> QED BY <1>2, <2>1, FS_Subset
<1>4. \A p : p \in P <=> p = <<p[1], p[2]>> /\ p[1] \in Targets /\ p[2] \in DOMAIN q[p[1]]
  BY DEF Places
<1>5. \A p \in P : f[p] \in Q /\ f[p] \in Range(q[p[1]])
  <2> TAKE p \in P
  <2>1. p[1] \in Targets /\ p[2] \in DOMAIN q[p[1]]
    BY <1>4
  <2> QED BY <1>1, <2>1 DEF Range
<1>6. ASSUME NEW x \in P, NEW y \in P, f[x] = f[y]  PROVE x = y
  <2>1. x[1] = y[1]
    <3>1. To[f[x]] = x[1] /\ To[f[y]] = y[1]
      BY <1>4, <1>5
    <3> QED BY <1>6, <3>1
  <2>2. x[2] = y[2]
    BY <1>4, <1>6, <2>1 DEF IsInjective
  <2> QED BY <1>4, <2>1, <2>2
<1>7. ASSUME NEW m \in Q  PROVE \E p \in P : f[p] = m
  <2>1. PICK t \in Targets : m \in ToSet(q[t])
    OBVIOUS
  <2>2. PICK i \in DOMAIN q[t] : q[t][i] = m
    BY <1>1, <2>1 DEF Range
  <2>3. <<t, i>> \in P
    BY <1>4
  <2>4. f[<<t, i>>] = m
    BY <2>2, <2>3
  <2> QED BY <2>3, <2>4
<1>8. f \in [P -> Q]
  BY <1>5
<1> HIDE DEF P, Q, f
<1>9. f \in Injection(P, Q) /\ f \in Surjection(P, Q)
  BY <1>6, <1>7, <1>8 DEF Injection, Surjection, IsInjective
<1>10. Cardinality(P) = Cardinality(Q)
  BY <1>3, <1>9, FS_Injection
<1>11. Cardinality(Q) \in Nat
  BY <1>3, FS_CardinalityType
<1> QED BY <1>3, <1>10, <1>11 DEF P, Q, Size

\* The counter's value is the number of messages that wait.
LEMMA CountIsQueued ==
  ASSUME Shapes, InLine
  PROVE  IsFiniteSet(Queued) /\ Size(queue) = Cardinality(Queued) /\ Size(queue) \in Nat
<1>1. \A t \in Targets : IsInjective(queue[t])
  BY FollowsInjective DEF Shapes, InLine
<1>2. \A t \in Targets : \A m \in Range(queue[t]) : To[m] = t
  BY QueuedAt
<1> QED BY <1>1, <1>2, SizeCounts DEF Queued, Shapes

LEMMA CountAfter ==
  ASSUME queue' \in [Targets -> Seq(Messages)], pushed' \in [Targets -> Seq(Messages)], InLine'
  PROVE  IsFiniteSet(Queued') /\ Size(queue)' = Cardinality(Queued') /\ Size(queue)' \in Nat
<1>1. \A t \in Targets : IsInjective(queue'[t])
  BY FollowsInjective DEF InLine, Follows
<1>2. \A t \in Targets : \A m \in Range(queue'[t]) : To[m] = t
  BY DEF InLine, Follows
<1> QED BY <1>1, <1>2, SizeCounts DEF Queued, Size, Places

LEMMA PushCounts ==
  ASSUME Shapes, InLine, Counted, NEW m \in Messages, ~IsPushed(m), ~Full(To[m]), Push(m)
  PROVE  Counted'
<1>1. /\ queue' \in [Targets -> Seq(Messages)] /\ pushed' \in [Targets -> Seq(Messages)]
      /\ InLine' /\ Queued' = Queued \cup {m}
  BY PushMoves
<1>2. m \notin Queued
  BY QueuedAt
<1>3. Size(queue)' = total'
  <2>1. IsFiniteSet(Queued) /\ Cardinality(Queued) = total /\ total \in Nat
    BY CountIsQueued DEF Counted
  <2>2. Cardinality(Queued \cup {m}) = total + 1
    BY <1>2, <2>1, FS_AddElement
  <2>3. total' = total + 1
    BY DEF Push
  <2> QED BY <1>1, <2>2, <2>3, CountAfter
<1>4. total' <= GlobalLimit
  <2>1. total \in Nat /\ GlobalLimit \in Nat
    BY CountIsQueued, SessionQueueAssumption DEF Counted
  <2> QED BY <2>1 DEF Push, Full
<1>5. \A t \in Targets : Len(queue'[t]) <= PerTargetLimit
  <2> TAKE t \in Targets
  <2>1. queue[t] \in Seq(Messages) /\ Len(queue[t]) \in Nat /\ PerTargetLimit \in Nat
    BY LenProperties, SessionQueueAssumption DEF Shapes
  <2>2. queue' = [queue EXCEPT ![To[m]] = Append(queue[To[m]], m)]
    BY DEF Push
  <2>3. CASE t = To[m]
    <3>1. queue'[t] = Append(queue[t], m)
      BY <2>2, <2>3 DEF Shapes
    <3>2. Len(queue[t]) < PerTargetLimit
      BY <2>1, <2>3 DEF Full
    <3> QED BY <2>1, <3>1, <3>2, AppendProperties
  <2>4. CASE t # To[m]
    BY <2>2, <2>4 DEF Shapes, Counted
  <2> QED BY <2>3, <2>4
<1> QED BY <1>3, <1>4, <1>5 DEF Counted

LEMMA HeadCounts ==
  ASSUME Shapes, InLine, Counted, NEW t \in Targets, RemoveHead(t)
  PROVE  Counted'
<1>1. /\ Shrinks /\ InLine' /\ \A u \in Targets \ {t} : queue'[u] = queue[u]
      /\ Queued' = Queued \ (IF queue[t] = <<>> THEN {} ELSE {Head(queue[t])})
  BY HeadMoves
<1>2. IsFiniteSet(Queued) /\ Cardinality(Queued) = total /\ total \in Nat /\ GlobalLimit \in Nat /\ PerTargetLimit \in Nat
  BY CountIsQueued, SessionQueueAssumption DEF Counted
<1>3. Size(queue)' = Cardinality(Queued')
  BY <1>1, CountAfter DEF Shrinks, Shapes
<1>4. queue[t] \in Seq(Messages)
  BY DEF Shapes
<1>5. CASE queue[t] = <<>>
  BY <1>1, <1>2, <1>3, <1>5 DEF Counted, RemoveHead
<1>6. CASE queue[t] # <<>>
  <2>1. total' = total - 1 /\ queue' = [queue EXCEPT ![t] = Tail(queue[t])]
    BY <1>6 DEF RemoveHead
  <2>2. Head(queue[t]) \in Queued
    <3>1. Head(queue[t]) \in Range(queue[t])
      BY <1>4, <1>6, TailElements
    <3> QED BY <3>1, QueuedAt
  <2>3. Cardinality(Queued \ {Head(queue[t])}) = total - 1
    BY <1>2, <2>2, FS_RemoveElement
  <2>4. Len(queue'[t]) <= PerTargetLimit
    <3>1. Len(Tail(queue[t])) = Len(queue[t]) - 1 /\ Len(queue[t]) \in Nat
      BY <1>4, <1>6, TailElements
    <3>2. Len(queue[t]) <= PerTargetLimit
      BY DEF Counted
    <3>3. queue'[t] = Tail(queue[t])
      BY <2>1 DEF Shapes
    <3> QED BY <1>2, <3>1, <3>2, <3>3
  <2>5. \A u \in Targets : Len(queue'[u]) <= PerTargetLimit
    BY <1>1, <2>4 DEF Counted
  <2>6. Size(queue)' = total'
    BY <1>1, <1>3, <1>6, <2>1, <2>3
  <2>7. total' <= GlobalLimit
    BY <1>2, <2>1 DEF Counted
  <2> QED BY <2>5, <2>6, <2>7 DEF Counted
<1> QED BY <1>5, <1>6

LEMMA ClearCounts ==
  ASSUME Shapes, InLine, Counted, NEW t \in Targets, ClearFor(t)
  PROVE  Counted'
<1> DEFINE C == ToSet(queue[t])
<1>1. /\ Shrinks /\ InLine' /\ Queued' = Queued \ C
      /\ \A u \in Targets \ {t} : queue'[u] = queue[u]
      /\ C \in SUBSET Queued
  <2>1. C \in SUBSET Queued
    BY DEF Queued
  <2> QED BY <2>1, ClearMoves
<1>2. IsFiniteSet(Queued) /\ Cardinality(Queued) = total /\ total \in Nat /\ GlobalLimit \in Nat /\ PerTargetLimit \in Nat
  BY CountIsQueued, SessionQueueAssumption DEF Counted
<1>3. Cardinality(C) = Len(queue[t]) /\ Len(queue[t]) \in Nat
  <2>1. C = Range(queue[t])
    BY DEF ToSet, Range
  <2>2. queue[t] \in Seq(Messages) /\ IsInjective(queue[t])
    BY FollowsInjective DEF Shapes, InLine
  <2> QED BY <2>1, <2>2, LengthCounts
<1>4. total' = total - Len(queue[t]) /\ queue' = [queue EXCEPT ![t] = <<>>]
  BY DEF ClearFor
<1> HIDE DEF C
<1>5. Cardinality(Queued \ C) = Cardinality(Queued) - Cardinality(C)
  <2>1. Queued \cap C = C
    BY <1>1
  <2> QED BY <1>2, <2>1, FS_Difference
<1>6. Size(queue)' = total'
  BY <1>1, <1>2, <1>3, <1>4, <1>5, CountAfter DEF Shrinks, Shapes
<1>7. total' <= GlobalLimit
  BY <1>2, <1>3, <1>4 DEF Counted
<1>8. \A u \in Targets : Len(queue'[u]) <= PerTargetLimit
  <2>1. queue'[t] = <<>>
    BY <1>4 DEF Shapes
  <2> QED BY <1>1, <1>2, <2>1 DEF Counted
<1> QED BY <1>6, <1>7, <1>8 DEF Counted

LEMMA ExpireCounts ==
  ASSUME Shapes, InLine, Counted, DropExpired
  PROVE  Counted'
<1>1. Shrinks /\ InLine' /\ Queued' = Queued \ aged /\ \A t \in Targets : Len(queue'[t]) <= Len(queue[t])
  BY ExpireMoves
<1>2. IsFiniteSet(Queued) /\ Cardinality(Queued) = total /\ Size(queue) = total /\ total \in Nat
  BY CountIsQueued DEF Counted
<1>3. Size(queue)' \in Nat /\ Size(queue)' = Cardinality(Queued \ aged)
  BY <1>1, CountAfter DEF Shrinks, Shapes
<1>4. total' = total - (Size(queue) - Size(queue)')
  BY DEF DropExpired, Size, Places
<1>5. total' = Size(queue)'
  BY <1>2, <1>3, <1>4
<1>6. Cardinality(Queued \ aged) <= Cardinality(Queued)
  BY <1>2, FS_Subset
<1>7. total' <= GlobalLimit
  BY <1>2, <1>3, <1>5, <1>6, SessionQueueAssumption DEF Counted
<1>8. \A u \in Targets : Len(queue'[u]) <= PerTargetLimit
  <2> TAKE u \in Targets
  <2>1. queue[u] \in Seq(Messages) /\ queue'[u] \in Seq(Messages)
    BY <1>1 DEF Shapes, Shrinks
  <2>2. Len(queue[u]) \in Nat /\ Len(queue'[u]) \in Nat /\ PerTargetLimit \in Nat
    BY <2>1, LenProperties, SessionQueueAssumption
  <2>3. Len(queue'[u]) <= Len(queue[u]) /\ Len(queue[u]) <= PerTargetLimit
    BY <1>1 DEF Counted
  <2> QED BY <2>2, <2>3
<1> QED BY <1>5, <1>7, <1>8 DEF Counted

-----------------------------------------------------------------------------
(* Delivery attempts *)

\* An attempt goes on; when it begins to fall back, its row has just been written.
AttemptGoes(m) ==
  /\ at[m] \in Trying /\ \E pc \in {"steer", "claim", "write"} : at' = [at EXCEPT ![m] = pc]
  /\ UNCHANGED <<drain, told, marks>>
  /\ \/ UNCHANGED <<rows, fallback>>
     \/ at[m] = "look" /\ Written(m) /\ fallback' = fallback \cup {m}

\* An attempt ends as k says, for X: m itself, or nobody when there is nothing to say.
EndsAs(m, r, k, X) ==
  /\ at[m] \in Trying /\ Ends(m, r) /\ Mark(k, X)
  /\ IF r = "busy" THEN k = "bounced" /\ X = {m} \cap fallback ELSE k # "bounced" /\ X = {m}
  /\ k = "given" => r = "delivered"
  /\ k = "errored" => m \in fallback
  /\ UNCHANGED rows \/ (Written(m) /\ m \notin fallback /\ r # "busy")

Outcomes == {"given", "ended", "errored", "lost", "swallowed", "bounced"}

AttemptEnds(m) ==
  \E r \in Results, k \in Outcomes, X \in SUBSET {m} : EndsAs(m, r, k, X)

\* An attempt touches neither the queue nor what the drainer holds besides.
AttemptFrame == UNCHANGED <<qvars, hand, ringing, op, disabled>>

LEMMA AttemptKinds ==
  ASSUME NEW m \in Messages, Attempt(m)
  PROVE  AttemptFrame /\ (AttemptGoes(m) \/ AttemptEnds(m))
<1>1. AttemptFrame
  BY DEF Attempt, Look, Steer, Claim, Write, Frame, WriteFrame, AttemptFrame
<1> SUFFICES AttemptGoes(m) \/ AttemptEnds(m)
  BY <1>1
<1>2. at[m] \in Trying
  BY DEF Attempt, Look, Steer, Claim, Write, Trying
<1>3. ASSUME Goes(m, "steer") \/ Goes(m, "claim") \/ Goes(m, "write"), UNCHANGED marks,
             \/ UNCHANGED <<rows, fallback>>
             \/ at[m] = "look" /\ Written(m) /\ fallback' = fallback \cup {m}
      PROVE  AttemptGoes(m)
  BY <1>2, <1>3 DEF AttemptGoes, Goes
<1>4. ASSUME NEW r, NEW k, NEW X, EndsAs(m, r, k, X),
             r \in Results, k \in Outcomes, X \subseteq {m}
      PROVE  AttemptEnds(m)
  BY <1>4 DEF AttemptEnds
<1>5. CASE Look(m)
  <2>1. \/ Ends(m, "hard") /\ Mark("ended", {m}) /\ UNCHANGED rows
        \/ Goes(m, "claim") /\ UNCHANGED <<rows, fallback, marks>>
        \/ Goes(m, "steer") /\ UNCHANGED <<rows, fallback, marks>>
        \/ at[m] = "look" /\ Goes(m, "steer") /\ Written(m) /\ fallback' = fallback \cup {m} /\ UNCHANGED marks
    BY <1>5 DEF Look
  <2>2. CASE Ends(m, "hard") /\ Mark("ended", {m}) /\ UNCHANGED rows
    <3>1. EndsAs(m, "hard", "ended", {m})
      BY <1>2, <2>2 DEF EndsAs
    <3> QED BY <1>4, <3>1 DEF Results, Outcomes
  <2> QED BY <1>3, <2>1, <2>2
<1>6. CASE Steer(m)
  <2>1. \/ Ends(m, "delivered") /\ Mark("given", {m}) /\ UNCHANGED rows
        \/ Goes(m, "claim") /\ UNCHANGED <<rows, fallback, marks>>
        \/ Ends(m, "delivered") /\ Mark("errored", {m}) /\ UNCHANGED rows /\ m \in fallback
        \/ Ends(m, "delivered") /\ Mark("lost", {m}) /\ UNCHANGED rows
    BY <1>6 DEF Steer
  <2>2. CASE Ends(m, "delivered") /\ Mark("given", {m}) /\ UNCHANGED rows
    <3>1. EndsAs(m, "delivered", "given", {m})
      BY <1>2, <2>2 DEF EndsAs
    <3> QED BY <1>4, <3>1 DEF Results, Outcomes
  <2>3. CASE Ends(m, "delivered") /\ Mark("errored", {m}) /\ UNCHANGED rows /\ m \in fallback
    <3>1. EndsAs(m, "delivered", "errored", {m})
      BY <1>2, <2>3 DEF EndsAs
    <3> QED BY <1>4, <3>1 DEF Results, Outcomes
  <2>4. CASE Ends(m, "delivered") /\ Mark("lost", {m}) /\ UNCHANGED rows
    <3>1. EndsAs(m, "delivered", "lost", {m})
      BY <1>2, <2>4 DEF EndsAs
    <3> QED BY <1>4, <3>1 DEF Results, Outcomes
  <2> QED BY <1>3, <2>1, <2>2, <2>3, <2>4
<1>7. CASE Claim(m)
  <2>1. \/ Ends(m, "busy") /\ Mark("bounced", {m} \cap fallback) /\ UNCHANGED rows
        \/ Goes(m, "write") /\ UNCHANGED <<rows, fallback, marks>>
    BY <1>7 DEF Claim
  <2>2. CASE Ends(m, "busy") /\ Mark("bounced", {m} \cap fallback) /\ UNCHANGED rows
    <3>1. EndsAs(m, "busy", "bounced", {m} \cap fallback)
      BY <1>2, <2>2 DEF EndsAs
    <3> QED BY <1>4, <3>1 DEF Results, Outcomes
  <2> QED BY <1>3, <2>1, <2>2
<1>8. CASE Write(m)
  <2>1. \/ Ends(m, "delivered") /\ Mark("swallowed", {m}) /\ UNCHANGED rows
        \/ Ends(m, "hard") /\ Mark("ended", {m}) /\ UNCHANGED rows
        \/ Ends(m, "delivered") /\ Mark("given", {m}) /\ UNCHANGED rows
        \/ Ends(m, "delivered") /\ Mark("given", {m}) /\ Written(m) /\ m \notin fallback
    BY <1>8 DEF Write
  <2>2. CASE Ends(m, "delivered") /\ Mark("swallowed", {m}) /\ UNCHANGED rows
    <3>1. EndsAs(m, "delivered", "swallowed", {m})
      BY <1>2, <2>2 DEF EndsAs
    <3> QED BY <1>4, <3>1 DEF Results, Outcomes
  <2>3. CASE Ends(m, "hard") /\ Mark("ended", {m}) /\ UNCHANGED rows
    <3>1. EndsAs(m, "hard", "ended", {m})
      BY <1>2, <2>3 DEF EndsAs
    <3> QED BY <1>4, <3>1 DEF Results, Outcomes
  <2>4. CASE Ends(m, "delivered") /\ Mark("given", {m}) /\ (UNCHANGED rows \/ (Written(m) /\ m \notin fallback))
    <3>1. EndsAs(m, "delivered", "given", {m})
      BY <1>2, <2>4 DEF EndsAs
    <3> QED BY <1>4, <3>1 DEF Results, Outcomes
  <2> QED BY <2>1, <2>2, <2>3, <2>4
<1> QED BY <1>1, <1>5, <1>6, <1>7, <1>8 DEF Attempt

\* A row more, up to the bound.
LEMMA RowWritten ==
  ASSUME Shapes, NEW m \in Messages, Written(m)
  PROVE  /\ rows[m] \in 0..2 /\ rows'[m] = (IF rows[m] = 2 THEN rows[m] ELSE rows[m] + 1)
         /\ \A n \in Messages \ {m} : rows'[n] = rows[n]
         /\ rows' \in [Messages -> 0..Often]
<1> DEFINE v == IF rows[m] = 2 THEN rows[m] ELSE rows[m] + 1
<1>1. rows \in [Messages -> 0..2] /\ rows[m] \in 0..2
  BY DEF Shapes, Often
<1>2. v \in 0..2
  BY <1>1
<1>3. rows' = [rows EXCEPT ![m] = v]
  BY DEF Written, Often
<1> HIDE DEF v
<1>4. rows'[m] = v /\ rows' \in [Messages -> 0..Often] /\ \A n \in Messages \ {m} : rows'[n] = rows[n]
  BY <1>1, <1>2, <1>3 DEF Often
<1> QED BY <1>1, <1>4 DEF v

\* The messages of an attempt under way: the drainer's, or one that was never pushed.
LEMMA TryingWho ==
  ASSUME Shapes, InLine, Staged, NEW m \in Messages, at[m] # "none"
  PROVE  /\ drain.msg = m => drain.pc = "deliver"
         /\ drain.msg # m => ~IsPushed(m) /\ m \notin Queued /\ m \notin InHand
<1>1. m # NoMessage
  BY SessionQueueAssumption
<1>2. m \in InHand => IsPushed(m)
  BY DEF Staged
<1>3. drain.msg = m => m \in InHand /\ drain.pc = "deliver"
  BY <1>1, <1>2 DEF InHand, Staged
<1>4. m \in Queued => IsPushed(m)
  BY QueuedAt
<1> QED BY <1>2, <1>3, <1>4 DEF Staged

\* Whoever is not finished has an exact row count, so nobody's count exceeds one.
LEMMA RowsBounded ==
  ASSUME Shapes, RowsOnce, NEW n \in Messages \ marks["bounced"]
  PROVE  rows[n] <= 1
<1>1. rows[n] \in 0..Often
  BY DEF Shapes
<1>2. CASE Finished(n)
  BY <1>2 DEF RowsOnce
<1>3. CASE ~Finished(n)
  BY <1>3 DEF RowsOnce
<1> QED BY <1>2, <1>3

LEMMA GoesKeeps ==
  ASSUME Inv, Shapes', NEW m \in Messages, AttemptFrame, AttemptGoes(m)
  PROVE  Inv'
<1> USE DEF Inv
<1>1. /\ UNCHANGED <<queue, pushed, total, hand, ringing, drain, told, marks>>
      /\ at[m] \in Trying /\ at'[m] \in {"steer", "claim", "write"}
      /\ \A n \in Messages \ {m} : at'[n] = at[n]
      /\ fallback' = fallback \/ fallback' = fallback \cup {m}
      /\ \A n \in Messages \ {m} : rows'[n] = rows[n] /\ (n \in fallback' <=> n \in fallback)
  BY DEF AttemptFrame, AttemptGoes, qvars, Shapes, Written
<1>2. /\ Queued' = Queued /\ InHand' = InHand
      /\ \A n : IsPushed(n)' <=> IsPushed(n)
      /\ \A n : Accounted(n)' <=> Accounted(n)
  BY <1>1 DEF Queued, InHand, IsPushed, Accounted
<1>3. at[m] # "none" /\ at'[m] # "none"
  BY <1>1 DEF Trying
<1>4. InLine' /\ Counted'
  BY <1>1 DEF InLine, Follows, Counted, Size, Places
<1>5. Staged'
  BY <1>1, <1>2, <1>3, TryingWho, ZenonT(60) DEF Staged, Trying, Shapes
<1>6. Copies' /\ Ordered' /\ StopHolds' /\ Kept'
  BY <1>1, <1>2 DEF Copies, Ordered, StopHolds, Kept
<1>7. \A n \in Messages : Finished(n)' <=> Finished(n)
  BY <1>1, <1>2, <1>3 DEF Finished
<1>8. RowsOnce'
  <2>a. ASSUME NEW n \in fallback' \cup marks["errored"]
        PROVE  rows'[n] > 0
    <3>1. n \in Messages /\ rows[n] \in 0..2 /\ (n \in fallback \cup marks["errored"] => rows[n] > 0)
      BY <1>1 DEF RowsOnce, Shapes, Marks, Often
    <3>2. CASE UNCHANGED <<rows, fallback>>
      BY <2>a, <3>1, <3>2
    <3>3. CASE Written(m) /\ fallback' = fallback \cup {m}
      BY <1>1, <2>a, <3>1, <3>3, RowWritten
    <3> QED BY <3>2, <3>3 DEF AttemptGoes
  <2> SUFFICES ASSUME NEW n \in Messages \ marks["bounced"]
      PROVE IF Finished(n)' THEN rows'[n] <= 1 ELSE rows'[n] = (IF n \in fallback' THEN 1 ELSE 0)
    BY <1>1, <2>a DEF RowsOnce
  <2>1. CASE n # m
    BY <1>1, <1>7, <2>1 DEF RowsOnce
  <2>2. CASE n = m
    <3>1. ~Finished(m) /\ rows[m] = IF m \in fallback THEN 1 ELSE 0
      BY <1>3, <2>2 DEF RowsOnce, Finished
    <3>2. CASE UNCHANGED <<rows, fallback>>
      BY <1>7, <2>2, <3>1, <3>2
    <3>3. CASE at[m] = "look" /\ Written(m) /\ fallback' = fallback \cup {m}
      <4>1. m \notin fallback
        BY <3>3 DEF Staged
      <4>2. rows'[m] = 1
        BY <3>1, <3>3, <4>1, RowWritten
      <4> QED BY <1>7, <2>2, <3>1, <3>3, <4>2
    <3> QED BY <3>2, <3>3 DEF AttemptGoes
  <2> QED BY <2>1, <2>2
<1>9. GivenIsFinished'
  BY <1>1, <1>7 DEF GivenIsFinished, Shapes, Marks
<1> QED BY <1>4, <1>5, <1>6, <1>8, <1>9

LEMMA EndsKeeps ==
  ASSUME Inv, Shapes', NEW m \in Messages, AttemptFrame, AttemptEnds(m)
  PROVE  Inv'
<1> USE DEF Inv
<1>1. PICK r \in Results, k \in Outcomes, X \in SUBSET {m} :
    /\ at[m] \in Trying /\ Ends(m, r) /\ Mark(k, X)
    /\ IF r = "busy" THEN k = "bounced" /\ X = {m} \cap fallback ELSE k # "bounced" /\ X = {m}
    /\ k = "given" => r = "delivered"
    /\ k = "errored" => m \in fallback
    /\ UNCHANGED rows \/ (Written(m) /\ m \notin fallback /\ r # "busy")
  BY DEF AttemptEnds, EndsAs
<1>2. /\ UNCHANGED <<queue, pushed, total, hand, ringing>>
      /\ fallback' = fallback \ {m}
      /\ at[m] # "none" /\ \A n \in Messages \ {m} : at'[n] = at[n] /\ rows'[n] = rows[n]
  BY <1>1, ZenonT(60) DEF AttemptFrame, qvars, Ends, Shapes, Written, Trying
<1>3. /\ marks' = [marks EXCEPT ![k] = marks[k] \cup X]
      /\ marks'["stopped"] = marks["stopped"] /\ marks'["copied"] = marks["copied"]
      /\ \A j \in Marks : marks[j] \subseteq marks'[j] /\ marks'[j] \subseteq marks[j] \cup {m}
      /\ k # "given" => marks'["given"] = marks["given"]
      /\ marks'["errored"] \subseteq marks["errored"] \cup (fallback \cap {m})
      /\ r # "busy" => m \in marks'[k] /\ k \in Marks \ {"bounced", "copied"}
      /\ r = "busy" => marks'["given"] = marks["given"] /\ (m \in fallback => m \in marks'["bounced"])
  BY <1>1 DEF Mark, Shapes, Marks, Outcomes
<1>4. \/ /\ drain.msg = m /\ drain.pc = "deliver" /\ drain'.pc = "record" /\ drain'.msg = m /\ drain'.res = r
         /\ at'[m] = "none" /\ told' = told
      \/ /\ drain.msg # m /\ drain' = drain /\ at'[m] = (IF r = "busy" THEN "push" ELSE "none")
         /\ \A n \in Messages \ {m} : told'[n] = told[n]
         /\ told'[m] = "accepted" => told[m] = "accepted" \/ r # "busy"
  <2>1. CASE drain.msg = m
    BY <1>1, <1>2, <2>1, TryingWho, ZenonT(60) DEF Ends, Shapes
  <2>2. CASE drain.msg # m
    <3>1. drain' = drain /\ at'[m] = (IF r = "busy" THEN "push" ELSE "none")
      BY <1>1, <2>2 DEF Ends, Shapes
    <3>2. told' = CASE r = "delivered" -> [told EXCEPT ![m] = "accepted"]
                    [] r = "hard" -> [told EXCEPT ![m] = "refused"]
                    [] r = "busy" -> told
      BY <1>1, <2>2 DEF Ends
    <3>3. r \in {"delivered", "busy", "hard"}
      BY DEF Results
    <3>4. (\A n \in Messages \ {m} : told'[n] = told[n]) /\ (told'[m] = "accepted" => told[m] = "accepted" \/ r # "busy")
      BY <3>2, <3>3 DEF Shapes
    <3> QED BY <2>2, <3>1, <3>4
  <2> QED BY <2>1, <2>2
<1>5. Queued' = Queued /\ InHand' = InHand /\ \A n : IsPushed(n)' <=> IsPushed(n)
  BY <1>2, <1>4 DEF Queued, InHand, IsPushed
<1>6. /\ \A n : Accounted(n) => Accounted(n)'
      /\ r # "busy" => Accounted(m)'
  BY <1>3 DEF Accounted
<1>7. m # NoMessage /\ m \in Messages
  BY SessionQueueAssumption
<1>8. drain.msg # m => ~IsPushed(m) /\ m \notin Queued /\ m \notin InHand
  BY <1>2, TryingWho
<1>9. drain.msg = m => m \in InHand
  BY <1>7 DEF InHand
<1>10. InLine' /\ Counted'
  BY <1>2 DEF InLine, Follows, Counted, Size, Places
<1>11. Staged'
  <2>1. drain.msg = m => drain.pc = "deliver"
    BY <1>4
  <2>2. ASSUME NEW n \in Messages, IsPushed(n)
        PROVE  at'[n] = "none" \/ (drain'.pc = "deliver" /\ drain'.msg = n)
    <3>1. at[n] = "none" \/ (drain.pc = "deliver" /\ drain.msg = n)
      BY <2>2 DEF Staged
    <3>2. CASE n = m
      BY <1>4, <1>8, <2>2, <3>2
    <3>3. CASE n # m
      BY <1>2, <1>4, <3>1, <3>3
    <3> QED BY <3>2, <3>3
  <2>3. /\ drain'.pc \in {"deliver", "record"} <=> drain'.msg # NoMessage
        /\ drain'.pc = "deliver" => at'[drain'.msg] \in Trying
        /\ hand # {} => drain'.pc \in {"gate", "deliver", "record"}
        /\ drain'.msg \notin hand
    <3>1. CASE drain.msg = m
      BY <1>4, <1>7, <3>1 DEF Staged
    <3>2. CASE drain.msg # m
      <4>1. drain' = drain
        BY <1>4, <3>2
      <4>2. drain.pc = "deliver" => drain.msg \in Messages
        BY DEF Staged, Shapes
      <4> QED BY <1>2, <3>2, <4>1, <4>2 DEF Staged
    <3> QED BY <3>1, <3>2
  <2>4. \A n \in fallback' : at'[n] \in {"steer", "claim", "write"}
    BY <1>2 DEF Staged, Shapes
  <2> QED BY <1>2, <1>5, <2>2, <2>3, <2>4 DEF Staged
<1>12. Copies'
  BY <1>2, <1>3, <1>5 DEF Copies
<1>13. Ordered'
  <2>1. \A t \in Targets : \A j \in DOMAIN pushed[t] :
          pushed[t][j] \in marks'["given"] \cup InHand => pushed[t][j] \in marks["given"] \cup InHand
    <3> SUFFICES ASSUME NEW t \in Targets, NEW j \in DOMAIN pushed[t], pushed[t][j] = m, drain.msg # m
        PROVE FALSE
      BY <1>3, <1>9 DEF Marks
    <3>1. m \in Range(pushed[t])
      BY DEF Range
    <3>2. To[m] = t
      BY <3>1, QueuedAt
    <3> QED BY <1>8, <3>1, <3>2 DEF IsPushed
  <2> QED BY <1>2, <1>5, <2>1 DEF Ordered
<1>14. \A n \in Messages \ {m} : Finished(n) => Finished(n)'
  <2> SUFFICES ASSUME NEW n \in Messages \ {m}, Finished(n)  PROVE Finished(n)'
    OBVIOUS
  <2> QED BY <1>2, <1>4, <1>5 DEF Finished
<1>15. \A n \in Messages \ {m} : Finished(n)' => Finished(n)
  <2> SUFFICES ASSUME NEW n \in Messages \ {m}, Finished(n)'  PROVE Finished(n)
    OBVIOUS
  <2> QED BY <1>2, <1>4, <1>5 DEF Finished
<1>16. Finished(m)' <=> r # "busy"
  <2>1. CASE drain.msg = m
    BY <1>4, <1>5, <1>9, <2>1 DEF Finished
  <2>2. CASE drain.msg # m
    BY <1>4, <1>5, <1>8, <2>2 DEF Finished
  <2> QED BY <2>1, <2>2
<1>17. RowsOnce'
  <2>a. ASSUME NEW n \in fallback' \cup marks'["errored"]
        PROVE  rows'[n] > 0
    <3>1. n \in Messages /\ rows[n] \in 0..2 /\ rows[n] > 0
      BY <1>2, <1>3, <2>a DEF RowsOnce, Shapes, Marks, Often
    <3>2. rows'[n] = rows[n] \/ (n = m /\ Written(m))
      BY <1>1, <1>2, <3>1
    <3> QED BY <3>1, <3>2, RowWritten
  <2> SUFFICES ASSUME NEW n \in Messages, n \notin marks'["bounced"]
      PROVE IF Finished(n)' THEN rows'[n] <= 1 ELSE rows'[n] = (IF n \in fallback' THEN 1 ELSE 0)
    BY <2>a DEF RowsOnce
  <2>1. n \notin marks["bounced"]
    BY <1>3 DEF Marks
  <2>2. CASE n # m
    BY <1>2, <1>14, <1>15, <2>1, <2>2 DEF RowsOnce
  <2>3. CASE n = m
    <3>1. rows[m] = IF m \in fallback THEN 1 ELSE 0
      BY <1>2, <2>1, <2>3 DEF RowsOnce, Finished
    <3>2. CASE r = "busy"
      <4>1. m \notin fallback
        BY <1>3, <2>3, <3>2
      <4>2. rows'[m] = rows[m]
        BY <1>1, <3>2
      <4> QED BY <1>2, <1>16, <2>3, <3>1, <3>2, <4>1, <4>2
    <3>3. CASE r # "busy"
      <4>1. rows'[m] <= 1
        BY <1>1, <3>1, RowWritten
      <4> QED BY <1>16, <2>3, <3>3, <4>1
    <3> QED BY <3>2, <3>3
  <2> QED BY <2>2, <2>3
<1>18. GivenIsFinished'
  <2> SUFFICES ASSUME NEW n \in marks'["given"]  PROVE Finished(n)'
    BY DEF GivenIsFinished
  <2>1. CASE n = m
    <3>1. r # "busy"
      <4> SUFFICES ASSUME r = "busy"  PROVE FALSE
        OBVIOUS
      <4>1. Finished(m)
        BY <1>3, <2>1 DEF GivenIsFinished
      <4> QED BY <1>2, <4>1 DEF Finished
    <3> QED BY <1>16, <2>1, <3>1
  <2>2. CASE n # m
    <3>1. n \in marks["given"] /\ n \in Messages
      BY <1>3, <2>2 DEF Marks, Shapes
    <3> QED BY <1>14, <2>2, <3>1 DEF GivenIsFinished
  <2> QED BY <2>1, <2>2
<1>19. StopHolds'
  <2> SUFFICES ASSUME NEW n \in marks["stopped"]
      PROVE n \notin Queued /\ IsPushed(n) /\ (n \in marks["copied"] \/ n \notin InHand \cup marks'["given"])
    BY <1>3, <1>5 DEF StopHolds
  <2>1. n \notin Queued /\ IsPushed(n) /\ (n \in marks["copied"] \/ n \notin InHand \cup marks["given"])
    BY DEF StopHolds
  <2> QED BY <1>3, <1>8, <1>9, <2>1 DEF Marks
<1>20. Kept'
  <2> SUFFICES ASSUME NEW n \in Messages
      PROVE /\ IsPushed(n) => n \in Queued \/ Accounted(n)'
            /\ told'[n] = "accepted" => IsPushed(n) \/ Accounted(n)'
            /\ drain'.pc = "record" /\ drain'.res # "busy" /\ drain'.msg = n => Accounted(n)'
    BY <1>5 DEF Kept
  <2>1. /\ IsPushed(n) => n \in Queued \/ Accounted(n)
        /\ told[n] = "accepted" => IsPushed(n) \/ Accounted(n)
        /\ drain.pc = "record" /\ drain.res # "busy" /\ drain.msg = n => Accounted(n)
    BY DEF Kept
  <2>2. told'[n] = "accepted" => told[n] = "accepted" \/ (n = m /\ r # "busy")
    <3>1. CASE n = m
      BY <1>4, <3>1
    <3>2. CASE n # m
      BY <1>4, <3>2
    <3> QED BY <3>1, <3>2
  <2> QED BY <1>4, <1>6, <2>1, <2>2
<1> QED BY <1>10, <1>11, <1>12, <1>13, <1>17, <1>18, <1>19, <1>20

\* An attempt keeps every variable's shape.
LEMMA AttemptShapes ==
  ASSUME Shapes, NEW m \in Messages, Attempt(m)
  PROVE  Shapes'
<1>1. AttemptFrame /\ (AttemptGoes(m) \/ AttemptEnds(m))
  BY AttemptKinds
<1>2. To[m] \in Targets
  BY SessionQueueAssumption
<1>3. turn' \in [Targets -> Messages \cup {Other, NoTurn}]
  <2>1. \/ turn' = turn \/ turn' = [turn EXCEPT ![To[m]] = m] \/ turn' = [turn EXCEPT ![To[m]] = NoTurn]
    BY DEF Attempt, Look, Steer, Claim, Write, GivesBack
  <2> QED BY <1>2, <2>1 DEF Shapes
<1>4. CASE AttemptGoes(m)
  <2>1. rows' = rows \/ Written(m)
    BY <1>4 DEF AttemptGoes
  <2>2. rows' \in [Messages -> 0..Often]
    BY <2>1, RowWritten DEF Shapes
  <2>3. at' \in [Messages -> AttemptPcs] /\ fallback' \subseteq Messages
    <3>1. fallback' = fallback \/ fallback' = fallback \cup {m}
      BY <1>4 DEF AttemptGoes
    <3>2. PICK pc \in {"steer", "claim", "write"} : at' = [at EXCEPT ![m] = pc]
      BY <1>4 DEF AttemptGoes
    <3> QED BY <3>1, <3>2 DEF AttemptPcs, Shapes
  <2> QED BY <1>1, <1>3, <1>4, <2>2, <2>3 DEF AttemptGoes, AttemptFrame, qvars, Shapes
<1>5. CASE AttemptEnds(m)
  <2>1. PICK r \in Results, k \in Outcomes, X \in SUBSET {m} : EndsAs(m, r, k, X)
    BY <1>5 DEF AttemptEnds
  <2>2. rows' \in [Messages -> 0..Often]
    BY <2>1, RowWritten DEF EndsAs, Shapes
  <2>3. marks' \in [Marks -> SUBSET Messages]
    <3>1. marks' = [marks EXCEPT ![k] = marks[k] \cup X] /\ k \in Marks /\ X \subseteq Messages
      BY <2>1 DEF EndsAs, Mark, Marks, Outcomes
    <3> QED BY <3>1 DEF Shapes
  <2>4. at' \in [Messages -> AttemptPcs] /\ fallback' \subseteq Messages
    BY <2>1 DEF EndsAs, Ends, AttemptPcs, Shapes
  <2>5. drain' \in [pc : DrainPcs, msg : Messages \cup {NoMessage}, res : Results]
    BY <2>1 DEF EndsAs, Ends, DrainPcs, Shapes
  <2>6. told' \in [Messages -> {"", "accepted", "refused"}]
    <3>1. \/ told' = told
          \/ told' = CASE r = "delivered" -> [told EXCEPT ![m] = "accepted"]
                       [] r = "hard" -> [told EXCEPT ![m] = "refused"]
                       [] r = "busy" -> told
      BY <2>1 DEF EndsAs, Ends
    <3>2. r \in {"delivered", "hard", "busy"}
      BY DEF Results
    <3>3. told' = told \/ told' = [told EXCEPT ![m] = "accepted"] \/ told' = [told EXCEPT ![m] = "refused"]
      BY <3>1, <3>2
    <3> QED BY <3>3 DEF Shapes
  <2> QED BY <1>1, <1>3, <2>2, <2>3, <2>4, <2>5, <2>6 DEF AttemptFrame, qvars, Shapes
<1> QED BY <1>1, <1>4, <1>5

LEMMA AttemptKeeps ==
  ASSUME Inv, NEW m \in Messages, Attempt(m)
  PROVE  Inv'
<1>1. Shapes'
  BY AttemptShapes DEF Inv
<1> QED BY <1>1, AttemptKinds, GoesKeeps, EndsKeeps

-----------------------------------------------------------------------------
(* Senders *)

\* A message whose sender is busy with it has no part in the queue.
LEMMA SenderWho ==
  ASSUME Inv, NEW m \in Messages, at[m] \in {"new", "push"}
  PROVE  /\ drain.msg # m /\ ~IsPushed(m) /\ m \notin Queued /\ m \notin InHand /\ m \notin fallback
         /\ ~Finished(m) /\ m \notin marks["given"] /\ m \notin marks["stopped"] /\ m \notin ringing
<1> USE DEF Inv
<1>1. at[m] # "none"
  OBVIOUS
<1>2. drain.msg # m
  BY <1>1, TryingWho DEF Staged, Trying
<1>3. ~Finished(m)
  BY <1>1 DEF Finished
<1> QED BY <1>1, <1>2, <1>3, TryingWho DEF Staged, GivenIsFinished, StopHolds

\* The sender's part of a send that leaves the queue alone.
LEMMA SendKeeps ==
  ASSUME Inv, NEW m \in Messages, at[m] \in {"new", "push"}, NEW pc \in {"look", "none"},
         at' = [at EXCEPT ![m] = pc],
         told' = [told EXCEPT ![m] = "refused"] \/ UNCHANGED told,
         UNCHANGED <<qvars, dvars, fallback, rows, ringing, turn, op, disabled, marks>>
  PROVE  Inv'
<1> USE DEF Inv
<1>1. UNCHANGED <<queue, pushed, total, drain, hand, fallback, rows, ringing, marks>>
  BY DEF qvars, dvars
<1>2. /\ Queued' = Queued /\ InHand' = InHand
      /\ \A n : IsPushed(n)' <=> IsPushed(n)
      /\ \A n : Accounted(n)' <=> Accounted(n)
  BY <1>1 DEF Queued, InHand, IsPushed, Accounted
<1>3. /\ drain.msg # m /\ ~IsPushed(m) /\ m \notin Queued /\ m \notin InHand /\ m \notin fallback
      /\ ~Finished(m) /\ m \notin marks["given"]
  BY SenderWho
<1>4. at'[m] = pc /\ \A n \in Messages \ {m} : at'[n] = at[n]
  BY DEF Shapes
<1>5. Shapes'
  <2>1. at' \in [Messages -> AttemptPcs] /\ told' \in [Messages -> {"", "accepted", "refused"}]
    BY DEF Shapes, AttemptPcs
  <2> QED BY <2>1 DEF Shapes, qvars, dvars
<1>6. InLine' /\ Counted'
  BY <1>1 DEF InLine, Follows, Counted, Size, Places
<1>7. Staged'
  <2>1. drain.pc = "deliver" => drain.msg \in Messages \ {m}
    BY <1>3 DEF Staged, Shapes
  <2>2. \A n \in fallback : n \in Messages \ {m}
    BY <1>3 DEF Shapes
  <2> QED BY <1>1, <1>2, <1>3, <1>4, <2>1, <2>2 DEF Staged
<1>8. Copies' /\ Ordered' /\ StopHolds'
  BY <1>1, <1>2 DEF Copies, Ordered, StopHolds
<1>9. \A n \in Messages \ {m} : Finished(n)' <=> Finished(n)
  BY <1>1, <1>2, <1>4 DEF Finished
<1>10. RowsOnce'
  <2> SUFFICES ASSUME NEW n \in Messages \ marks["bounced"]
      PROVE IF Finished(n)' THEN rows[n] <= 1 ELSE rows[n] = (IF n \in fallback THEN 1 ELSE 0)
    BY <1>1 DEF RowsOnce
  <2>1. CASE n # m
    BY <1>9, <2>1 DEF RowsOnce
  <2>2. CASE n = m
    BY <1>3, <2>2 DEF RowsOnce
  <2> QED BY <2>1, <2>2
<1>11. GivenIsFinished'
  BY <1>1, <1>3, <1>9 DEF GivenIsFinished, Shapes, Marks
<1>12. Kept'
  <2> SUFFICES ASSUME NEW n \in Messages, told'[n] = "accepted"  PROVE IsPushed(n) \/ Accounted(n)
    BY <1>1, <1>2 DEF Kept
  <2>1. told[n] = "accepted"
    BY DEF Shapes
  <2> QED BY <2>1 DEF Kept
<1> QED BY <1>5, <1>6, <1>7, <1>8, <1>10, <1>11, <1>12

LEMMA SendPushKeeps ==
  ASSUME Inv, NEW m \in Messages, SendPush(m)
  PROVE  Inv'
<1> USE DEF Inv
<1>1. at[m] = "push" /\ at' = [at EXCEPT ![m] = "none"] /\ UNCHANGED <<dvars, fallback, rows, tgt, marks>>
  BY DEF SendPush
<1>2. CASE Full(To[m])
  <2>1. told' = [told EXCEPT ![m] = "refused"] /\ UNCHANGED <<qvars, ringing>>
    BY <1>2 DEF SendPush
  <2> QED BY <1>1, <2>1, SendKeeps DEF tgt
<1>3. CASE ~Full(To[m])
  <2>1. Push(m) /\ ringing' = ringing \cup {m} /\ UNCHANGED told
    BY <1>3 DEF SendPush
  <2>2. UNCHANGED <<drain, hand, fallback, rows, told, marks, turn, op, disabled, aged>>
    BY <1>1, <2>1 DEF dvars, tgt, Push
  <2>3. /\ drain.msg # m /\ ~IsPushed(m) /\ m \notin Queued /\ m \notin InHand /\ m \notin fallback
        /\ ~Finished(m) /\ m \notin marks["given"] /\ m \notin marks["stopped"]
    BY <1>1, SenderWho
  <2>4. /\ queue' \in [Targets -> Seq(Messages)] /\ pushed' \in [Targets -> Seq(Messages)]
        /\ InLine' /\ Queued' = Queued \cup {m}
        /\ \A n \in Messages : IsPushed(n)' <=> IsPushed(n) \/ n = m
        /\ \A t \in Targets : queue[t] # <<>> => queue'[t] # <<>> /\ Head(queue'[t]) = Head(queue[t])
        /\ \A t \in Targets : \A i \in DOMAIN pushed'[t] :
             pushed'[t][i] = IF i \in DOMAIN pushed[t] THEN pushed[t][i] ELSE m
        /\ \A t \in Targets : DOMAIN pushed[t] = 1..Len(pushed[t]) /\ Len(pushed[t]) \in Nat
                             /\ DOMAIN pushed'[t] \subseteq Nat \ {0}
    BY <2>1, <2>3, PushMoves
  <2>5. InHand' = InHand /\ InHand \subseteq Messages /\ \A n : Accounted(n)' <=> Accounted(n)
    BY <2>2 DEF InHand, Accounted, Shapes
  <2>6. at'[m] = "none" /\ \A n \in Messages \ {m} : at'[n] = at[n]
    BY <1>1 DEF Shapes
  <2>7. Shapes'
    <3>1. at' \in [Messages -> AttemptPcs]
      BY <1>1 DEF Shapes, AttemptPcs
    <3> QED BY <2>1, <2>2, <2>4, <3>1 DEF Shapes
  <2>8. Counted'
    BY <1>3, <2>1, <2>3, PushCounts
  <2>9. Staged'
    <3>1. drain.pc = "deliver" => drain.msg \in Messages \ {m}
      BY <2>3 DEF Staged, Shapes
    <3>2. \A n \in fallback : n \in Messages \ {m}
      BY <2>3 DEF Shapes
    <3>3. \A n \in Messages : IsPushed(n)' => at'[n] = "none" \/ (drain.pc = "deliver" /\ drain.msg = n)
      BY <2>4, <2>6 DEF Staged
    <3>4. \A n \in InHand \cup ringing \cup {m} : IsPushed(n)'
      <4>1. InHand \cup ringing \subseteq Messages
        BY <2>5 DEF Shapes
      <4>2. \A n \in InHand \cup ringing : IsPushed(n)
        BY DEF Staged
      <4>3. \A n \in InHand \cup ringing : IsPushed(n)'
        BY ONLY <2>4, <4>1, <4>2
      <4> QED BY ONLY <2>4, <4>3
    <3>5. \A n \in fallback : at'[n] \in {"steer", "claim", "write"}
      BY <2>6, <3>2 DEF Staged
    <3>6. drain.pc = "deliver" => at'[drain.msg] \in Trying
      BY <2>6, <3>1 DEF Staged
    <3> QED BY <2>1, <2>2, <2>5, <3>3, <3>4, <3>5, <3>6 DEF Staged
  <2>10. Copies'
    <3>1. \A n \in InHand : To[n] \in Targets
      BY <2>5, QueuedAt
    <3> QED BY <2>2, <2>4, <2>5, <3>1 DEF Copies
  <2>11. Ordered'
    <3> SUFFICES ASSUME NEW t \in Targets, NEW i \in DOMAIN pushed'[t], NEW j \in DOMAIN pushed'[t], i < j,
                        pushed'[t][j] \in marks["given"] \cup InHand
        PROVE pushed'[t][i] \notin Queued'
      BY <2>2, <2>5 DEF Ordered
    <3>1. j \in DOMAIN pushed[t] /\ pushed'[t][j] = pushed[t][j]
      BY <2>3, <2>4
    <3>2. i \in DOMAIN pushed[t] /\ pushed'[t][i] = pushed[t][i]
      BY <2>4, <3>1
    <3>3. pushed[t][i] \notin Queued
      BY <3>1, <3>2 DEF Ordered
    <3>4. pushed[t][i] # m
      <4>1. pushed[t][i] \in Range(pushed[t])
        BY <3>2 DEF Range
      <4> QED BY <2>3, <4>1, QueuedAt DEF IsPushed
    <3> QED BY <2>4, <3>2, <3>3, <3>4
  <2>12. \A n \in Messages : Finished(n)' <=> Finished(n)
    <3> TAKE n \in Messages
    <3>1. CASE n = m
      BY <2>2, <2>3, <2>4, <3>1 DEF Finished
    <3>2. CASE n # m
      BY <2>2, <2>4, <2>5, <2>6, <3>2 DEF Finished
    <3> QED BY <3>1, <3>2
  <2>13. RowsOnce' /\ GivenIsFinished'
    BY <2>2, <2>12 DEF RowsOnce, GivenIsFinished, Shapes, Marks
  <2>14. StopHolds'
    <3>1. \A n \in marks["stopped"] : n \in Messages
      BY DEF Shapes, Marks
    <3> QED BY <2>2, <2>3, <2>4, <2>5, <3>1 DEF StopHolds
  <2>15. Kept'
    BY <2>2, <2>4, <2>5 DEF Kept
  <2> QED BY <2>4, <2>7, <2>8, <2>9, <2>10, <2>11, <2>13, <2>14, <2>15
<1> QED BY <1>2, <1>3

LEMMA SendBeginKeeps ==
  ASSUME Inv, NEW m \in Messages, SendBegin(m)
  PROVE  Inv'
<1>1. at[m] = "new" /\ UNCHANGED <<qvars, dvars, fallback, rows, ringing, turn, op, disabled, marks>>
  BY DEF SendBegin, tgt
<1>2. \/ at' = [at EXCEPT ![m] = "none"] /\ told' = [told EXCEPT ![m] = "refused"]
      \/ at' = [at EXCEPT ![m] = "look"] /\ UNCHANGED told
  BY DEF SendBegin
<1> QED BY <1>1, <1>2, SendKeeps

LEMMA SendNotifyKeeps ==
  ASSUME Inv, NEW m \in Messages, SendNotify(m)
  PROVE  Inv'
<1> USE DEF Inv
<1>1. /\ m \in ringing /\ ringing' = ringing \ {m} /\ told' = [told EXCEPT ![m] = "accepted"]
      /\ UNCHANGED <<queue, pushed, total, aged, drain, hand, at, fallback, rows, turn, op, disabled, marks>>
  BY DEF SendNotify, qvars, dvars, mvars, tgt
<1>2. /\ Queued' = Queued /\ InHand' = InHand
      /\ \A n : IsPushed(n)' <=> IsPushed(n)
      /\ \A n : Accounted(n)' <=> Accounted(n)
      /\ \A n : Finished(n)' <=> Finished(n)
  BY <1>1 DEF Queued, InHand, IsPushed, Accounted, Finished
<1>3. Shapes'
  BY <1>1 DEF Shapes
<1>4. InLine' /\ Counted'
  BY <1>1 DEF InLine, Follows, Counted, Size, Places
<1>5. Staged'
  BY <1>1, <1>2 DEF Staged
<1>6. Copies' /\ Ordered' /\ StopHolds' /\ RowsOnce' /\ GivenIsFinished'
  BY <1>1, <1>2 DEF Copies, Ordered, StopHolds, RowsOnce, GivenIsFinished
<1>7. IsPushed(m)
  BY <1>1 DEF Staged
<1>8. Kept'
  <2> SUFFICES ASSUME NEW n \in Messages, told'[n] = "accepted"  PROVE IsPushed(n) \/ Accounted(n)
    BY <1>1, <1>2 DEF Kept
  <2>1. n = m \/ told[n] = "accepted"
    BY <1>1 DEF Shapes
  <2> QED BY <1>7, <2>1 DEF Kept
<1> QED BY <1>3, <1>4, <1>5, <1>6, <1>8

-----------------------------------------------------------------------------
(* Steps that take messages off, or nothing *)

\* No queue grows, no attempt moves, and the drainer holds what it held or less.
Lessens ==
  /\ pushed' = pushed /\ Queued' \subseteq Queued
  /\ UNCHANGED <<at, fallback, rows, ringing, told>>
  /\ hand' \subseteq hand
  /\ \/ drain' = drain
     \/ /\ drain.pc # "deliver" /\ drain'.pc \notin {"deliver", "record"} /\ drain'.msg = NoMessage
        /\ hand' # {} => drain'.pc = "gate"
        /\ drain.pc = "record" /\ drain.res # "busy" => drain.msg \notin Queued'
  /\ \A k \in {"given", "errored", "bounced"} : marks'[k] = marks[k]
  /\ \A k \in Marks : marks[k] \subseteq marks'[k]

LEMMA LessKeeps ==
  ASSUME Inv, Shapes', InLine', Counted', Lessens,
         \A m \in InHand' : m \in marks'["stopped"] \/ (queue'[To[m]] # <<>> /\ m = Head(queue'[To[m]])),
         \A m \in Queued \ Queued' : Accounted(m)',
         \A m \in marks'["stopped"] \ marks["stopped"] :
            /\ m \notin Queued' /\ IsPushed(m)
            /\ m \in marks'["copied"] \/ m \notin InHand \cup marks["given"]
  PROVE  Inv'
<1> USE DEF Inv
<1>1. /\ UNCHANGED <<pushed, at, fallback, rows, ringing, told>>
      /\ marks'["given"] = marks["given"] /\ marks'["bounced"] = marks["bounced"]
      /\ marks'["errored"] = marks["errored"]
      /\ \A k \in Marks : marks[k] \subseteq marks'[k]
      /\ hand' \subseteq hand /\ Queued' \subseteq Queued
  BY DEF Lessens
<1>2. /\ \A n : IsPushed(n)' <=> IsPushed(n)
      /\ \A n : Accounted(n) => Accounted(n)'
  BY <1>1 DEF IsPushed, Accounted
<1>3. InHand' \subseteq InHand
  BY DEF InHand, Lessens
<1>4. InHand \subseteq Messages /\ NoMessage \notin Messages
  BY SessionQueueAssumption DEF InHand, Shapes
<1>5. Staged'
  <2>1. CASE drain' = drain
    BY <1>1, <1>2, <1>3, <2>1 DEF Staged
  <2>2. CASE drain' # drain
    <3>1. /\ drain.pc # "deliver" /\ drain'.pc \notin {"deliver", "record"} /\ drain'.msg = NoMessage
          /\ hand' # {} => drain'.pc = "gate"
      BY <2>2 DEF Lessens
    <3>2. NoMessage \notin hand'
      BY <1>1, <1>4 DEF Shapes
    <3>3. \A n \in Messages : IsPushed(n) => at[n] = "none"
      BY <3>1 DEF Staged
    <3>4. \A n \in InHand' \cup ringing : IsPushed(n)
      BY <1>3 DEF Staged
    <3>5. \A n \in fallback : at[n] \in {"steer", "claim", "write"}
      BY DEF Staged
    <3> QED BY <1>1, <1>2, <3>1, <3>2, <3>3, <3>4, <3>5 DEF Staged
  <2> QED BY <2>1, <2>2
<1>6. Copies'
  BY <1>3 DEF Copies
<1>7. Ordered'
  BY <1>1, <1>3 DEF Ordered
<1>8. ASSUME NEW n \in Messages, Finished(n)  PROVE Finished(n)'
  <2>1. at'[n] = "none"
    BY <1>1, <1>8 DEF Finished
  <2>2. CASE drain' = drain
    BY <1>1, <1>3, <1>8, <2>1, <2>2 DEF Finished
  <2>3. CASE drain' # drain
    <3>1. drain.pc = "record" /\ drain.res # "busy" => drain.msg \notin Queued'
      BY <2>3 DEF Lessens
    <3>2. drain'.msg = NoMessage
      BY <2>3 DEF Lessens
    <3>3. InHand' = hand'
      BY <3>2 DEF InHand
    <3>4. n \notin Queued' \cup InHand'
      <4>1. CASE n \in Queued \cup InHand
        <5>1. drain.pc = "record" /\ drain.res # "busy" /\ drain.msg = n
          BY <1>8, <4>1 DEF Finished
        <5>2. n \notin hand
          BY <5>1 DEF Staged
        <5> QED BY <1>1, <3>1, <3>3, <5>1, <5>2
      <4>2. CASE n \notin Queued \cup InHand
        BY <1>1, <1>3, <4>2
      <4> QED BY <4>1, <4>2
    <3> QED BY <2>1, <3>4 DEF Finished
  <2> QED BY <2>2, <2>3
<1>9. RowsOnce'
  <2> SUFFICES ASSUME NEW n \in Messages \ marks["bounced"]
      PROVE IF Finished(n)' THEN rows[n] <= 1 ELSE rows[n] = (IF n \in fallback THEN 1 ELSE 0)
    BY <1>1 DEF RowsOnce
  <2>1. CASE Finished(n)'
    BY <2>1, RowsBounded
  <2>2. CASE ~Finished(n)'
    <3>1. ~Finished(n)
      BY <1>8, <2>2
    <3> QED BY <2>2, <3>1 DEF RowsOnce
  <2> QED BY <2>1, <2>2
<1>10. GivenIsFinished'
  BY <1>1, <1>8 DEF GivenIsFinished, Shapes, Marks
<1>11. StopHolds'
  <2> SUFFICES ASSUME NEW n \in marks'["stopped"]
      PROVE n \notin Queued' /\ IsPushed(n) /\ (n \in marks'["copied"] \/ n \notin InHand \cup marks["given"])
    BY <1>1, <1>2, <1>3 DEF StopHolds
  <2>1. CASE n \in marks["stopped"]
    BY <1>1, <2>1 DEF StopHolds, Marks
  <2> QED BY <2>1
<1>12. Kept'
  <2> SUFFICES ASSUME NEW n \in Messages
      PROVE /\ IsPushed(n) => n \in Queued' \/ Accounted(n)'
            /\ told[n] = "accepted" => IsPushed(n) \/ Accounted(n)'
            /\ drain'.pc = "record" /\ drain'.res # "busy" /\ drain'.msg = n => Accounted(n)'
    BY <1>1, <1>2 DEF Kept
  <2>1. drain'.pc = "record" => drain' = drain
    BY DEF Lessens
  <2> QED BY <1>2, <2>1 DEF Kept
<1> QED BY <1>5, <1>6, <1>7, <1>9, <1>10, <1>11, <1>12

\* A step that changes nothing the invariant speaks of, and at most lets the drainer rest.
LEMMA UntouchedKeeps ==
  ASSUME Inv, Shapes', UNCHANGED <<queue, total, pushed, hand, at, fallback, rows, ringing, told, marks>>,
         \/ drain' = drain
         \/ /\ drain.msg = NoMessage /\ drain'.pc \notin {"deliver", "record"} /\ drain'.msg = NoMessage
            /\ hand = {}
  PROVE  Inv'
<1> USE DEF Inv
<1>1. Queued' = Queued /\ \A n : IsPushed(n)' <=> IsPushed(n)
  BY DEF Queued, IsPushed
<1>2. InHand' = InHand
  BY DEF InHand
<1>3. InLine' /\ Counted'
  BY DEF InLine, Follows, Counted, Size, Places
<1>4. Lessens
  <2>1. drain.msg = NoMessage => drain.pc \notin {"deliver", "record"}
    BY DEF Staged
  <2> QED BY <1>1, <2>1 DEF Lessens
<1>5. \A m \in InHand' : m \in marks'["stopped"] \/ (queue'[To[m]] # <<>> /\ m = Head(queue'[To[m]]))
  BY <1>2 DEF Copies
<1> QED BY <1>1, <1>3, <1>4, <1>5, LessKeeps

\* What the drainer holds is in the queue of the message's own target.
LEMMA HeldAt ==
  ASSUME Inv
  PROVE  /\ InHand \subseteq Messages /\ NoMessage \notin Messages
         /\ \A m \in InHand : To[m] \in Targets
         /\ drain.pc \notin {"deliver", "record"} => drain.msg = NoMessage /\ InHand = hand
         /\ drain.pc \in {"deliver", "record"} => drain.msg \in InHand
<1>1. InHand \subseteq Messages /\ NoMessage \notin Messages
  BY SessionQueueAssumption DEF InHand, Shapes, Inv
<1>2. drain.pc \notin {"deliver", "record"} => drain.msg = NoMessage
  BY DEF Staged, Inv
<1>3. drain.pc \in {"deliver", "record"} => drain.msg \in InHand
  BY DEF Staged, Inv, InHand
<1>4. drain.msg = NoMessage => InHand = hand
  BY DEF InHand
<1>5. \A m \in InHand : To[m] \in Targets
  BY <1>1, SessionQueueAssumption
<1> QED BY <1>1, <1>2, <1>3, <1>4, <1>5

LEMMA DrainRests ==
  ASSUME Inv, DrainWakes \/ DrainTick
  PROVE  Inv'
<1> USE DEF Inv
<1>1. /\ UNCHANGED <<queue, total, pushed, aged, hand, at, fallback, rows, ringing, told, turn, op, disabled, marks>>
      /\ drain' = [AtCheck EXCEPT !.pc = "check"]
  BY DEF DrainWakes, DrainTick, DrainTo, Idle, qvars, mvars, tgt
<1>2. drain'.pc = "check" /\ drain'.msg = NoMessage /\ drain' \in [pc : DrainPcs, msg : Messages \cup {NoMessage}, res : Results]
  BY <1>1 DEF AtCheck, DrainPcs, Results
<1>3. Shapes'
  BY <1>1, <1>2 DEF Shapes
<1>4. drain.pc \in {"asleep", "gate"} /\ hand = {}
  BY DEF DrainWakes, DrainTick, DrainAt, Staged
<1>5. drain.msg = NoMessage
  BY <1>4 DEF Staged
<1> QED BY <1>1, <1>2, <1>3, <1>4, <1>5, UntouchedKeeps

LEMMA DrainCheckKeeps ==
  ASSUME Inv, DrainCheck
  PROVE  Inv'
<1> USE DEF Inv
<1>1. drain.pc = "check" /\ UNCHANGED <<hand, at, fallback, rows, ringing, told, turn, op, disabled>>
  BY DEF DrainCheck, DrainAt, Idle, mvars, tgt
<1>2. drain.msg = NoMessage /\ hand = {} /\ InHand = {}
  BY <1>1, HeldAt DEF Staged
<1>3. CASE total = 0
  <2>1. UNCHANGED <<queue, total, aged, pushed, marks>> /\ drain' = [AtCheck EXCEPT !.pc = "asleep"]
    BY <1>3 DEF DrainCheck, DrainTo, qvars
  <2>2. drain'.pc = "asleep" /\ drain'.msg = NoMessage /\ drain' \in [pc : DrainPcs, msg : Messages \cup {NoMessage}, res : Results]
    BY <2>1 DEF AtCheck, DrainPcs, Results
  <2>3. Shapes'
    BY <1>1, <2>1, <2>2 DEF Shapes
  <2> QED BY <1>1, <1>2, <2>1, <2>2, <2>3, UntouchedKeeps
<1>4. CASE total # 0
  <2>1. DropExpired /\ drain' = [AtCheck EXCEPT !.pc = "snapshot"]
    BY <1>4 DEF DrainCheck, DrainTo
  <2>2. drain'.pc = "snapshot" /\ drain'.msg = NoMessage /\ drain' \in [pc : DrainPcs, msg : Messages \cup {NoMessage}, res : Results]
    BY <2>1 DEF AtCheck, DrainPcs, Results
  <2>3. Shrinks /\ InLine' /\ Queued' = Queued \ aged
    BY <2>1, ExpireMoves
  <2>4. marks' = [marks EXCEPT !["ended"] = marks["ended"] \cup (Queued \cap aged)] /\ aged' \subseteq aged
    BY <2>1 DEF DropExpired, Mark, Forgets
  <2>5. /\ \A k \in Marks : marks[k] \subseteq marks'[k]
        /\ \A k \in Marks \ {"ended"} : marks'[k] = marks[k]
        /\ marks'["ended"] = marks["ended"] \cup (Queued \cap aged) /\ "ended" \in Marks
    BY <2>4 DEF Shapes, Marks
  <2>6. Shapes'
    <3>1. marks' \in [Marks -> SUBSET Messages]
      BY <2>4 DEF Shapes
    <3> QED BY <1>1, <2>2, <2>3, <2>4, <3>1 DEF Shapes, Shrinks
  <2>7. Counted'
    BY <2>1, ExpireCounts
  <2>8. Lessens
    BY <1>1, <1>2, <2>2, <2>3, <2>5 DEF Lessens, Shrinks, Marks
  <2>9. InHand' = {}
    BY <1>1, <1>2, <2>2 DEF InHand
  <2>10. \A m \in Queued \ Queued' : Accounted(m)'
    BY <2>3, <2>5 DEF Accounted
  <2>11. marks'["stopped"] \ marks["stopped"] = {}
    BY <2>5 DEF Marks
  <2> QED BY <2>3, <2>6, <2>7, <2>8, <2>9, <2>10, <2>11, LessKeeps
<1> QED BY <1>3, <1>4

LEMMA DrainSnapshotKeeps ==
  ASSUME Inv, DrainSnapshot
  PROVE  Inv'
<1> USE DEF Inv
<1>1. /\ drain.pc = "snapshot" /\ drain' = [AtCheck EXCEPT !.pc = "gate"]
      /\ hand' = {Head(queue[t]) : t \in {u \in Targets : queue[u] # <<>>}}
      /\ UNCHANGED <<queue, total, aged, pushed, at, fallback, rows, ringing, told, turn, op, disabled, marks>>
  BY DEF DrainSnapshot, DrainAt, DrainTo, Idle, mvars, tgt, qvars
<1>2. drain'.pc = "gate" /\ drain'.msg = NoMessage /\ drain' \in [pc : DrainPcs, msg : Messages \cup {NoMessage}, res : Results]
  BY <1>1 DEF AtCheck, DrainPcs, Results
<1>3. drain.msg = NoMessage /\ hand = {} /\ InHand = {}
  BY <1>1, HeldAt DEF Staged
<1>4. \A t \in Targets : queue[t] # <<>> =>
         Head(queue[t]) \in Messages /\ Head(queue[t]) \in Queued /\ To[Head(queue[t])] = t
  <2> SUFFICES ASSUME NEW t \in Targets, queue[t] # <<>>
      PROVE Head(queue[t]) \in Messages /\ Head(queue[t]) \in Queued /\ To[Head(queue[t])] = t
    OBVIOUS
  <2>1. Head(queue[t]) \in Range(queue[t])
    BY TailElements DEF Shapes
  <2> QED BY <2>1, QueuedAt
<1>5. \A m \in hand' : m \in Messages /\ m \in Queued /\ queue[To[m]] # <<>> /\ m = Head(queue[To[m]])
  BY <1>1, <1>4
<1>6. /\ Queued' = Queued /\ InHand' = hand' /\ \A n : IsPushed(n)' <=> IsPushed(n)
      /\ \A n : Accounted(n)' <=> Accounted(n)
  BY <1>1, <1>2 DEF Queued, InHand, IsPushed, Accounted
<1>7. Shapes'
  BY <1>1, <1>2, <1>5 DEF Shapes
<1>8. InLine' /\ Counted'
  BY <1>1 DEF InLine, Follows, Counted, Size, Places
<1>9. Staged'
  <2>1. \A m \in hand' : IsPushed(m)
    BY <1>5, QueuedAt
  <2>2. NoMessage \notin hand'
    BY <1>5, SessionQueueAssumption
  <2> QED BY <1>1, <1>2, <1>6, <2>1, <2>2 DEF Staged
<1>10. Copies'
  BY <1>1, <1>5, <1>6 DEF Copies
<1>11. Ordered'
  <2> SUFFICES ASSUME NEW t \in Targets, NEW i \in DOMAIN pushed[t], NEW j \in DOMAIN pushed[t], i < j,
                      pushed[t][j] \in marks["given"] \cup hand'
      PROVE pushed[t][i] \notin Queued
    BY <1>1, <1>6 DEF Ordered
  <2>1. CASE pushed[t][j] \in marks["given"]
    BY <2>1 DEF Ordered
  <2>2. CASE pushed[t][j] \in hand'
    <3>1. pushed[t][i] \in Range(pushed[t]) /\ pushed[t][j] \in Range(pushed[t])
      BY DEF Range
    <3>2. To[pushed[t][i]] = t /\ To[pushed[t][j]] = t
      BY <3>1, QueuedAt
    <3>3. queue[t] # <<>> /\ pushed[t][j] = Head(queue[t])
      BY <1>5, <2>2, <3>2
    <3>4. queue[t] \in Seq(Messages) /\ pushed[t] \in Seq(Messages) /\ Follows(queue[t], pushed[t])
      BY DEF Shapes, InLine
    <3>5. pushed[t][i] \notin Range(queue[t])
      BY <3>3, <3>4, HeadFirst
    <3> QED BY <3>2, <3>5, QueuedAt
  <2> QED BY <2>1, <2>2
<1>12. \A n \in Messages : Finished(n)' <=> Finished(n)
  <2> TAKE n \in Messages
  <2>1. n \in Queued \cup InHand' <=> n \in Queued \cup InHand
    BY <1>3, <1>5, <1>6
  <2> QED BY <1>1, <1>2, <1>6, <2>1 DEF Finished
<1>13. RowsOnce' /\ GivenIsFinished'
  BY <1>1, <1>12 DEF RowsOnce, GivenIsFinished, Shapes, Marks
<1>14. StopHolds'
  BY <1>1, <1>5, <1>6 DEF StopHolds
<1>15. Kept'
  BY <1>1, <1>2, <1>6 DEF Kept
<1> QED BY <1>7, <1>8, <1>9, <1>10, <1>11, <1>13, <1>14, <1>15

LEMMA DrainGateKeeps ==
  ASSUME Inv, DrainGate
  PROVE  Inv'
<1> USE DEF Inv
<1>1. /\ drain.pc = "gate" /\ UNCHANGED <<fallback, rows, ringing, told, turn, op, disabled>>
  BY DEF DrainGate, DrainAt, tgt
<1>2. PICK m \in hand :
       /\ hand' = hand \ {m}
       /\ IF To[m] \in disabled
          THEN /\ ClearFor(To[m]) /\ Mark("ended", ToSet(queue[To[m]]))
               /\ UNCHANGED <<drain, at>>
          ELSE /\ drain' = [drain EXCEPT !.pc = "deliver", !.msg = m]
               /\ at' = [at EXCEPT ![m] = "look"] /\ UNCHANGED <<qvars, marks>>
  BY DEF DrainGate
<1>3. /\ drain.msg = NoMessage /\ InHand = hand /\ m \in InHand /\ m \in Messages /\ m # NoMessage
      /\ To[m] \in Targets /\ IsPushed(m) /\ NoMessage \notin hand
  BY <1>1, <1>2, HeldAt DEF Staged
<1>4. CASE To[m] \in disabled
  <2> DEFINE t == To[m]
             C == ToSet(queue[t])
  <2>1. ClearFor(t) /\ marks' = [marks EXCEPT !["ended"] = marks["ended"] \cup C] /\ UNCHANGED <<drain, at>>
    BY <1>2, <1>4 DEF Mark
  <2>2. /\ Shrinks /\ InLine' /\ Queued' = Queued \ C
        /\ \A u \in Targets \ {t} : queue'[u] = queue[u]
    BY <1>3, <2>1, ClearMoves
  <2>3. aged' \subseteq aged
    BY <2>1 DEF ClearFor, Forgets
  <2>4. C \subseteq Messages
    BY <1>3, ClearMoves, QueuedAt DEF ToSet, Range
  <2>5. /\ \A k \in Marks : marks[k] \subseteq marks'[k]
        /\ \A k \in Marks \ {"ended"} : marks'[k] = marks[k]
        /\ marks'["ended"] = marks["ended"] \cup C /\ "ended" \in Marks
        /\ marks' \in [Marks -> SUBSET Messages]
    BY <2>1, <2>4 DEF Shapes, Marks
  <2> HIDE DEF C
  <2>6. Shapes'
    BY <1>1, <1>2, <2>1, <2>2, <2>3, <2>5 DEF Shapes, Shrinks
  <2>7. Counted'
    BY <1>3, <2>1, ClearCounts
  <2>8. Lessens
    BY <1>1, <1>2, <2>1, <2>2, <2>5 DEF Lessens, Shrinks, Marks
  <2>9. InHand' = InHand \ {m}
    BY <1>2, <1>3, <2>1 DEF InHand
  <2>10. \A n \in InHand' : n \in marks'["stopped"] \/ (queue'[To[n]] # <<>> /\ n = Head(queue'[To[n]]))
    <3> SUFFICES ASSUME NEW n \in InHand, n # m
        PROVE n \in marks'["stopped"] \/ (queue'[To[n]] # <<>> /\ n = Head(queue'[To[n]]))
      BY <2>9
    <3>1. To[n] # t /\ To[n] \in Targets
      BY <1>3, HeldAt DEF Copies
    <3> QED BY <2>2, <2>5, <3>1 DEF Copies, Marks
  <2>11. \A n \in Queued \ Queued' : Accounted(n)'
    BY <2>2, <2>5 DEF Accounted
  <2>12. marks'["stopped"] \ marks["stopped"] = {}
    BY <2>5 DEF Marks
  <2> QED BY <2>2, <2>6, <2>7, <2>8, <2>10, <2>11, <2>12, LessKeeps
<1>5. CASE To[m] \notin disabled
  <2>1. /\ drain' = [drain EXCEPT !.pc = "deliver", !.msg = m] /\ at' = [at EXCEPT ![m] = "look"]
        /\ UNCHANGED <<queue, total, aged, pushed, marks>>
    BY <1>2, <1>5 DEF qvars
  <2>2. /\ drain'.pc = "deliver" /\ drain'.msg = m
        /\ drain' \in [pc : DrainPcs, msg : Messages \cup {NoMessage}, res : Results]
        /\ at' \in [Messages -> AttemptPcs] /\ at'[m] = "look" /\ \A n \in Messages \ {m} : at'[n] = at[n]
    BY <1>3, <2>1 DEF Shapes, DrainPcs, AttemptPcs
  <2>3. InHand' = InHand
    BY <1>2, <1>3, <2>2 DEF InHand
  <2>4. /\ Queued' = Queued /\ \A n : IsPushed(n)' <=> IsPushed(n)
        /\ \A n : Accounted(n)' <=> Accounted(n)
    BY <2>1 DEF Queued, IsPushed, Accounted
  <2>5. Shapes'
    BY <1>1, <1>2, <2>1, <2>2 DEF Shapes
  <2>6. InLine' /\ Counted'
    BY <2>1 DEF InLine, Follows, Counted, Size, Places
  <2>7. at[m] = "none" /\ m \notin fallback
    BY <1>1, <1>3 DEF Staged
  <2>8. Staged'
    <3>1. \A n \in Messages : IsPushed(n) => at'[n] = "none" \/ n = m
      BY <1>1, <2>2 DEF Staged
    <3>2. \A n \in fallback : at'[n] \in {"steer", "claim", "write"}
      BY <2>2, <2>7 DEF Staged, Shapes
    <3> QED BY <1>1, <1>2, <1>3, <2>2, <2>3, <2>4, <3>1, <3>2 DEF Staged, Trying
  <2>9. Copies' /\ Ordered' /\ StopHolds'
    BY <2>1, <2>3, <2>4 DEF Copies, Ordered, StopHolds
  <2>10. \A n \in Messages : Finished(n)' <=> Finished(n)
    <3> TAKE n \in Messages
    <3>1. CASE n = m
      BY <1>1, <1>3, <2>2, <3>1 DEF Finished
    <3>2. CASE n # m
      BY <1>1, <2>2, <2>3, <2>4, <3>2 DEF Finished
    <3> QED BY <3>1, <3>2
  <2>11. RowsOnce' /\ GivenIsFinished'
    BY <1>1, <2>1, <2>10 DEF RowsOnce, GivenIsFinished, Shapes, Marks
  <2>12. Kept'
    BY <1>1, <2>1, <2>2, <2>4 DEF Kept
  <2> QED BY <2>5, <2>6, <2>8, <2>9, <2>11, <2>12
<1> QED BY <1>4, <1>5

LEMMA DrainRecordKeeps ==
  ASSUME Inv, DrainRecord
  PROVE  Inv'
<1> USE DEF Inv
<1> DEFINE d == drain.msg
           t == To[drain.msg]
<1>1. /\ drain.pc = "record" /\ drain' = [AtCheck EXCEPT !.pc = "gate"]
      /\ UNCHANGED <<hand, at, fallback, rows, ringing, told, turn, op, disabled>>
  BY DEF DrainRecord, DrainAt, DrainTo, Idle, mvars, tgt
<1>2. drain'.pc = "gate" /\ drain'.msg = NoMessage /\ drain' \in [pc : DrainPcs, msg : Messages \cup {NoMessage}, res : Results]
  BY <1>1 DEF AtCheck, DrainPcs, Results
<1>3. d \in InHand /\ d \in Messages /\ t \in Targets /\ d \notin hand
  BY <1>1, HeldAt DEF Staged
<1>4. InHand' = hand /\ InHand = hand \cup {d}
  BY <1>1, <1>2, <1>3, HeldAt DEF InHand
<1>5. CASE drain.res = "busy"
  <2>1. UNCHANGED <<queue, total, aged, pushed, marks>>
    BY <1>5 DEF DrainRecord, qvars
  <2>2. Queued' = Queued
    BY <2>1 DEF Queued
  <2>3. Shapes'
    BY <1>1, <1>2, <2>1 DEF Shapes
  <2>4. InLine' /\ Counted'
    BY <2>1 DEF InLine, Follows, Counted, Size, Places
  <2>5. Lessens
    BY <1>1, <1>2, <1>5, <2>1, <2>2 DEF Lessens
  <2>6. \A n \in InHand' : n \in marks'["stopped"] \/ (queue'[To[n]] # <<>> /\ n = Head(queue'[To[n]]))
    BY <1>4, <2>1 DEF Copies
  <2> QED BY <2>1, <2>2, <2>3, <2>4, <2>5, <2>6, LessKeeps
<1>6. CASE drain.res # "busy"
  <2> DEFINE H == IF queue[t] = <<>> THEN {} ELSE {Head(queue[t])}
             X == IF d \in marks["stopped"] /\ queue[t] # <<>> THEN {Head(queue[t])} ELSE {}
  <2>1. RemoveHead(t) /\ marks' = [marks EXCEPT !["displaced"] = marks["displaced"] \cup X]
    BY <1>6 DEF DrainRecord, Mark
  <2>2. /\ Shrinks /\ InLine' /\ Queued' = Queued \ H
        /\ \A u \in Targets \ {t} : queue'[u] = queue[u]
    BY <1>3, <2>1, HeadMoves
  <2>3. aged' \subseteq aged
    BY <2>1 DEF RemoveHead, Forgets
  <2>4. queue[t] # <<>> => Head(queue[t]) \in Messages
    <3> SUFFICES ASSUME queue[t] # <<>>  PROVE Head(queue[t]) \in Messages
      OBVIOUS
    <3>1. queue[t] \in Seq(Messages)
      BY <1>3 DEF Shapes
    <3>2. Head(queue[t]) \in Range(queue[t])
      BY <3>1, TailElements
    <3> QED BY <1>3, <3>2, QueuedAt
  <2>5. X \subseteq Messages /\ X \subseteq H
    BY <2>4
  <2>6. d \in marks["stopped"] => X = H
    OBVIOUS
  <2>7. d \notin marks["stopped"] => H = {d}
    BY <1>3 DEF Copies
  <2> HIDE DEF X, H
  <2>8. /\ \A k \in Marks : marks[k] \subseteq marks'[k]
        /\ \A k \in Marks \ {"displaced"} : marks'[k] = marks[k]
        /\ marks'["displaced"] = marks["displaced"] \cup X /\ "displaced" \in Marks
        /\ marks' \in [Marks -> SUBSET Messages]
    BY <2>1, <2>5 DEF Shapes, Marks
  <2>9. Shapes'
    BY <1>1, <1>2, <2>2, <2>3, <2>8 DEF Shapes, Shrinks
  <2>10. Counted'
    BY <1>3, <2>1, HeadCounts
  <2>11. d \notin Queued'
    <3>1. CASE d \in marks["stopped"]
      BY <2>2, <3>1 DEF StopHolds
    <3>2. CASE d \notin marks["stopped"]
      BY <2>2, <2>7, <3>2
    <3> QED BY <3>1, <3>2
  <2>12. Lessens
    BY <1>1, <1>2, <2>2, <2>8, <2>11 DEF Lessens, Shrinks, Marks
  <2>13. \A n \in InHand' : n \in marks'["stopped"] \/ (queue'[To[n]] # <<>> /\ n = Head(queue'[To[n]]))
    <3> SUFFICES ASSUME NEW n \in hand
        PROVE n \in marks'["stopped"] \/ (queue'[To[n]] # <<>> /\ n = Head(queue'[To[n]]))
      BY <1>4
    <3>1. n \in InHand /\ n # d
      BY <1>3, <1>4
    <3>2. To[n] # t /\ To[n] \in Targets
      BY <1>3, <3>1, HeldAt DEF Copies
    <3> QED BY <2>2, <2>8, <3>1, <3>2 DEF Copies, Marks
  <2>14. \A n \in Queued \ Queued' : Accounted(n)'
    <3> SUFFICES ASSUME NEW n \in H  PROVE Accounted(n)'
      BY <2>2
    <3>1. CASE d \in marks["stopped"]
      BY <2>6, <2>8, <3>1 DEF Accounted
    <3>2. CASE d \notin marks["stopped"]
      <4>1. n = d
        BY <2>7, <3>2
      <4>2. Accounted(d)
        BY <1>1, <1>3, <1>6 DEF Kept
      <4> QED BY <2>8, <4>1, <4>2 DEF Accounted
    <3> QED BY <3>1, <3>2
  <2>15. marks'["stopped"] \ marks["stopped"] = {}
    BY <2>8 DEF Marks
  <2> QED BY <2>2, <2>9, <2>10, <2>12, <2>13, <2>14, <2>15, LessKeeps
<1> QED BY <1>5, <1>6

-----------------------------------------------------------------------------
(* The targets' conversations *)

\* The operation on a target keeps its shape.
LEMMA OpShapes ==
  ASSUME Shapes, NEW t \in Targets,
         \/ op' = op \/ \E pc \in OpPcs : OpTo(t, pc)
         \/ \E o \in [pc : OpPcs, cause : {"user", "restart"}] : op' = [op EXCEPT ![t] = o]
  PROVE  op' \in [Targets -> [pc : OpPcs, cause : {"user", "restart"}]]
<1>1. CASE \E pc \in OpPcs : OpTo(t, pc)
  <2>1. PICK pc \in OpPcs : op' = [op EXCEPT ![t] = [op[t] EXCEPT !.pc = pc]]
    BY <1>1 DEF OpTo
  <2>2. op[t] \in [pc : OpPcs, cause : {"user", "restart"}]
    BY DEF Shapes
  <2>3. [op[t] EXCEPT !.pc = pc] \in [pc : OpPcs, cause : {"user", "restart"}]
    BY <2>2
  <2> QED BY <2>1, <2>3 DEF Shapes
<1>2. CASE op' = op \/ \E o \in [pc : OpPcs, cause : {"user", "restart"}] : op' = [op EXCEPT ![t] = o]
  BY <1>2 DEF Shapes
<1> QED BY <1>1, <1>2

LEMMA OpHookKeeps ==
  ASSUME Inv, NEW t \in Targets, OpHook(t)
  PROVE  Inv'
<1> USE DEF Inv
<1>1. /\ op[t].pc = "hook" /\ UNCHANGED <<drain, hand, at, fallback, rows, ringing, told, turn, disabled>>
  BY DEF OpHook, Aside, dvars, mvars
<1>2. op' \in [Targets -> [pc : OpPcs, cause : {"user", "restart"}]]
  <2>1. op' = [op EXCEPT ![t] = NoOp] \/ OpTo(t, "clear")
    BY DEF OpHook
  <2>2. NoOp \in [pc : OpPcs, cause : {"user", "restart"}] /\ "clear" \in OpPcs
    BY DEF NoOp, OpPcs
  <2> QED BY <2>1, <2>2, OpShapes
<1>3. InHand' = InHand
  BY <1>1 DEF InHand
<1>4. CASE op[t].cause # "user"
  <2>1. UNCHANGED <<queue, total, aged, pushed, marks>>
    BY <1>4 DEF OpHook, qvars
  <2>2. Shapes'
    BY <1>1, <1>2, <2>1 DEF Shapes
  <2> QED BY <1>1, <2>1, <2>2, UntouchedKeeps
<1>5. CASE op[t].cause = "user"
  <2> DEFINE C == ToSet(queue[t])
             D == {m \in InHand : To[m] = t}
  <2>1. /\ ClearFor(t)
        /\ marks' = [marks EXCEPT !["stopped"] = marks["stopped"] \cup C, !["copied"] = marks["copied"] \cup D]
    BY <1>5 DEF OpHook
  <2>2. /\ Shrinks /\ InLine' /\ Queued' = Queued \ C
        /\ \A u \in Targets \ {t} : queue'[u] = queue[u]
        /\ \A m \in Messages : m \in C <=> m \in Queued /\ To[m] = t
    BY <2>1, ClearMoves
  <2>3. aged' \subseteq aged
    BY <2>1 DEF ClearFor, Forgets
  <2>4. C \subseteq Queued /\ Queued \subseteq Messages /\ D \subseteq Messages
    <3>1. C \subseteq Queued
      BY DEF Queued
    <3> QED BY <3>1, QueuedAt, HeldAt
  <2>5. \A m \in InHand : To[m] = t => m \in D
    OBVIOUS
  <2> HIDE DEF C, D
  <2>6. /\ \A k \in Marks : marks[k] \subseteq marks'[k]
        /\ \A k \in Marks \ {"stopped", "copied"} : marks'[k] = marks[k]
        /\ marks'["stopped"] = marks["stopped"] \cup C /\ "stopped" \in Marks
        /\ marks'["copied"] = marks["copied"] \cup D
        /\ marks' \in [Marks -> SUBSET Messages]
    BY <2>1, <2>4 DEF Shapes, Marks
  <2>7. Shapes'
    BY <1>1, <1>2, <2>2, <2>3, <2>6 DEF Shapes, Shrinks
  <2>8. Counted'
    BY <2>1, ClearCounts
  <2>9. Lessens
    BY <1>1, <2>2, <2>6 DEF Lessens, Shrinks, Marks
  <2>10. \A n \in InHand' : n \in marks'["stopped"] \/ (queue'[To[n]] # <<>> /\ n = Head(queue'[To[n]]))
    <3> SUFFICES ASSUME NEW n \in InHand, n \notin marks["stopped"], n \notin C
        PROVE queue'[To[n]] # <<>> /\ n = Head(queue'[To[n]])
      BY <1>3, <2>6
    <3>1. n \in Messages /\ To[n] \in Targets /\ queue[To[n]] # <<>> /\ n = Head(queue[To[n]])
      BY HeldAt DEF Copies
    <3>2. n \in Queued
      <4>1. queue[To[n]] \in Seq(Messages)
        BY <3>1 DEF Shapes
      <4>2. n \in Range(queue[To[n]])
        BY <3>1, <4>1, TailElements
      <4> QED BY <3>1, <4>2, QueuedAt
    <3>3. To[n] # t
      BY <2>2, <3>1, <3>2
    <3> QED BY <2>2, <3>1, <3>3
  <2>11. \A n \in Queued \ Queued' : Accounted(n)'
    BY <2>2, <2>6 DEF Accounted
  <2>12. ASSUME NEW n \in marks'["stopped"], n \notin marks["stopped"]
         PROVE  n \notin Queued' /\ IsPushed(n) /\ (n \in marks'["copied"] \/ n \notin InHand \cup marks["given"])
    <3>1. n \in C /\ n \in Queued /\ n \in Messages /\ To[n] = t
      BY <2>2, <2>4, <2>6, <2>12
    <3>2. n \notin Queued' /\ IsPushed(n)
      BY <2>2, <3>1, QueuedAt
    <3>3. CASE n \in InHand
      BY <2>5, <2>6, <3>1, <3>2, <3>3
    <3>4. CASE n \notin InHand
      <4>1. n \notin marks["given"]
        <5> SUFFICES ASSUME n \in marks["given"]  PROVE FALSE
          OBVIOUS
        <5>1. Finished(n)
          BY DEF GivenIsFinished
        <5>2. drain.pc = "record" /\ drain.msg = n
          BY <3>1, <5>1 DEF Finished
        <5> QED BY <3>4, <5>2, HeldAt
      <4> QED BY <3>2, <3>4, <4>1
    <3> QED BY <3>3, <3>4
  <2> QED BY <2>2, <2>7, <2>8, <2>9, <2>10, <2>11, <2>12, LessKeeps
<1> QED BY <1>4, <1>5

\* The other steps of a target's conversation leave the queue, the drainer and the attempts alone.
LEMMA TargetKeeps ==
  ASSUME Inv, NEW t \in Targets, OpMark(t) \/ OpClear(t) \/ OpOpen(t) \/ Outside(t)
  PROVE  Inv'
<1> USE DEF Inv
<1>1. UNCHANGED <<queue, total, pushed, aged, drain, hand, at, fallback, rows, ringing, told, marks>>
  BY DEF OpMark, OpClear, OpOpen, Outside, StopBegin, RestartBegin, TurnBegins, TurnEnds, TargetDeleted, Toggle,
         Aside, qvars, dvars, mvars
<1>2. turn' \in [Targets -> Messages \cup {Other, NoTurn}]
  <2>1. turn' = turn \/ turn' = [turn EXCEPT ![t] = NoTurn] \/ turn' = [turn EXCEPT ![t] = Other]
    BY DEF OpMark, OpClear, OpOpen, Outside, StopBegin, RestartBegin, TurnBegins, TurnEnds, TargetDeleted, Toggle
  <2> QED BY <2>1 DEF Shapes
<1>3. disabled' \subseteq Targets
  <2>1. disabled' = disabled \/ disabled' = disabled \ {t} \/ disabled' = disabled \cup {t}
    BY DEF OpMark, OpClear, OpOpen, Outside, StopBegin, RestartBegin, TurnBegins, TurnEnds, TargetDeleted, Toggle
  <2> QED BY <2>1 DEF Shapes
<1>4. op' \in [Targets -> [pc : OpPcs, cause : {"user", "restart"}]]
  <2>1. /\ NoOp \in [pc : OpPcs, cause : {"user", "restart"}] /\ {"hook", "open"} \subseteq OpPcs
        /\ \A pc \in {"mark", "clear"}, c \in {"user", "restart"} :
             [pc |-> pc, cause |-> c] \in [pc : OpPcs, cause : {"user", "restart"}]
    BY DEF NoOp, OpPcs
  <2>2. CASE OpMark(t)
    <3>1. OpTo(t, "hook") \/ OpTo(t, "open") \/ op' = [op EXCEPT ![t] = NoOp]
      BY <2>2 DEF OpMark
    <3> QED BY <2>1, <3>1, OpShapes
  <2>3. CASE OpClear(t) \/ OpOpen(t)
    <3>1. OpTo(t, "open") \/ op' = [op EXCEPT ![t] = NoOp]
      BY <2>3 DEF OpClear, OpOpen
    <3> QED BY <2>1, <3>1, OpShapes
  <2>4. CASE StopBegin(t)
    <3>1. op' = [op EXCEPT ![t] = [pc |-> "mark", cause |-> "user"]]
      BY <2>4 DEF StopBegin
    <3> QED BY <2>1, <3>1, OpShapes
  <2>5. CASE RestartBegin(t)
    <3>1. \/ op' = [op EXCEPT ![t] = [pc |-> "mark", cause |-> "restart"]]
          \/ op' = [op EXCEPT ![t] = [pc |-> "clear", cause |-> "restart"]]
      BY <2>5 DEF RestartBegin
    <3> QED BY <2>1, <3>1, OpShapes
  <2>6. CASE TurnBegins(t) \/ TurnEnds(t) \/ TargetDeleted(t) \/ Toggle(t)
    BY <2>6 DEF TurnBegins, TurnEnds, TargetDeleted, Toggle, Shapes
  <2> QED BY <2>2, <2>3, <2>4, <2>5, <2>6 DEF Outside
<1>5. Shapes'
  BY <1>1, <1>2, <1>3, <1>4 DEF Shapes
<1> QED BY <1>1, <1>5, UntouchedKeeps

\* A deadline that passes changes nothing yet.
LEMMA AgeKeeps ==
  ASSUME Inv, NEW m \in Messages, Age(m)
  PROVE  Inv'
<1>1. /\ UNCHANGED <<queue, total, pushed, drain, hand, at, fallback, rows, ringing, told, turn, op, disabled, marks>>
      /\ aged' = aged \cup {m}
  BY DEF Age, dvars, mvars, tgt
<1>2. Shapes'
  BY <1>1 DEF Shapes, Inv
<1> QED BY <1>1, <1>2, UntouchedKeeps

-----------------------------------------------------------------------------
(* The invariant and what follows from it *)

LEMMA InvInit == Init => Inv
<1> SUFFICES ASSUME Init  PROVE Inv
  OBVIOUS
<1>1. /\ queue = [t \in Targets |-> <<>>] /\ total = 0 /\ pushed = queue
      /\ aged = {} /\ drain = AtCheck /\ hand = {} /\ fallback = {} /\ ringing = {} /\ disabled = {}
      /\ at = [m \in Messages |-> "new"] /\ told = [m \in Messages |-> ""]
      /\ turn = [t \in Targets |-> NoTurn] /\ op = [t \in Targets |-> NoOp]
      /\ rows = [m \in Messages |-> 0] /\ marks = [k \in Marks |-> {}]
  BY DEF Init
<1>2. drain.pc = "check" /\ drain.msg = NoMessage /\ drain.res = "busy"
  BY <1>1 DEF AtCheck
<1>3. Shapes
  <2>1. queue \in [Targets -> Seq(Messages)]
    BY <1>1, EmptySeq
  <2>2. drain \in [pc : DrainPcs, msg : Messages \cup {NoMessage}, res : Results]
    BY <1>1 DEF AtCheck, DrainPcs, Results
  <2>3. rows \in [Messages -> 0..Often]
    <3>1. 0 \in 0..Often
      BY DEF Often
    <3> QED BY <1>1, <3>1
  <2>4. op \in [Targets -> [pc : OpPcs, cause : {"user", "restart"}]]
    BY <1>1 DEF NoOp, OpPcs
  <2>5. at \in [Messages -> AttemptPcs]
    BY <1>1 DEF AttemptPcs
  <2> QED BY <1>1, <2>1, <2>2, <2>3, <2>4, <2>5 DEF Shapes
<1>4. \A t \in Targets : queue[t] = <<>> /\ pushed[t] = <<>>
  BY <1>1
<1>5. Range(<<>>) = {} /\ ToSet(<<>>) = {} /\ DOMAIN <<>> = {} /\ Len(<<>>) = 0
  BY DEF Range, ToSet
<1>6. Queued = {} /\ InHand = {}
  BY <1>1, <1>2, <1>4, <1>5 DEF Queued, InHand
<1>7. \A m \in Messages : ~IsPushed(m) /\ To[m] \in Targets
  BY <1>4, <1>5, SessionQueueAssumption DEF IsPushed
<1>8. InLine
  BY <1>4, <1>5 DEF InLine, Follows, IsInjective
<1>9. Counted
  <2>1. Size(queue) = Cardinality(Queued)
    BY <1>3, <1>8, CountIsQueued
  <2>2. Cardinality(Queued) = 0
    BY <1>6, FS_EmptySet
  <2>3. GlobalLimit \in Nat /\ PerTargetLimit \in Nat
    BY SessionQueueAssumption
  <2>4. \A t \in Targets : Len(queue[t]) = 0
    BY <1>4, <1>5
  <2>5. total = 0
    BY <1>1
  <2>6. total = Size(queue) /\ total <= GlobalLimit
    BY <2>1, <2>2, <2>3, <2>5
  <2>7. \A t \in Targets : Len(queue[t]) <= PerTargetLimit
    BY <2>3, <2>4
  <2> QED BY <2>6, <2>7 DEF Counted
<1>10. Staged
  BY <1>1, <1>2, <1>6, <1>7 DEF Staged
<1>11. Copies /\ Ordered
  BY <1>4, <1>5, <1>6 DEF Copies, Ordered
<1>12. \A m \in Messages : ~Finished(m) /\ rows[m] = 0 /\ m \notin fallback /\ told[m] = ""
  BY <1>1 DEF Finished
<1>13. marks["given"] = {} /\ marks["stopped"] = {} /\ marks["errored"] = {} /\ fallback = {}
  BY <1>1 DEF Marks
<1>14. RowsOnce
  BY <1>12, <1>13 DEF RowsOnce
<1>15. GivenIsFinished /\ StopHolds
  BY <1>13 DEF GivenIsFinished, StopHolds
<1>16. Kept
  BY <1>2, <1>7, <1>12 DEF Kept
<1> QED BY <1>3, <1>8, <1>9, <1>10, <1>11, <1>14, <1>15, <1>16 DEF Inv

LEMMA InvNext == Inv /\ [Next]_vars => Inv'
<1> SUFFICES ASSUME Inv, [Next]_vars  PROVE Inv'
  OBVIOUS
<1>1. CASE UNCHANGED vars
  <2>1. /\ UNCHANGED <<queue, total, pushed, aged, drain, hand, at, fallback, rows, ringing, told, marks>>
        /\ UNCHANGED <<turn, op, disabled>>
    BY <1>1 DEF vars, qvars, dvars, mvars, tgt
  <2>2. Shapes'
    BY <2>1 DEF Shapes, Inv
  <2> QED BY <2>1, <2>2, UntouchedKeeps
<1>2. ASSUME NEW m \in Messages, SendBegin(m) \/ Attempt(m) \/ Sender(m) \/ Age(m)
      PROVE  Inv'
  BY <1>2, SendBeginKeeps, AttemptKeeps, SendPushKeeps, SendNotifyKeeps, AgeKeeps DEF Sender
<1>3. CASE Drainer
  BY <1>3, DrainCheckKeeps, DrainRests, DrainSnapshotKeeps, DrainGateKeeps, DrainRecordKeeps DEF Drainer
<1>4. ASSUME NEW t \in Targets, OpStep(t) \/ Outside(t)
      PROVE  Inv'
  BY <1>4, OpHookKeeps, TargetKeeps DEF OpStep
<1>5. CASE AtRest
  BY <1>1, <1>5 DEF AtRest
<1> QED BY <1>1, <1>2, <1>3, <1>4, <1>5 DEF Next

LEMMA InvAlways == Spec => []Inv
BY InvInit, InvNext, PTL DEF Spec

LEMMA InvTypes == Inv => SQTypeOK
<1> SUFFICES ASSUME Inv  PROVE SQTypeOK
  OBVIOUS
<1>1. Cardinality(Queued) = total
  BY CountIsQueued DEF Inv, Counted
<1>2. \A t \in Targets : queue[t] \in Seq(Messages) /\ Len(queue[t]) <= PerTargetLimit
  BY DEF Inv, Shapes, Counted
<1> QED BY <1>1, <1>2 DEF Inv, Shapes, Counted, SQTypeOK

\* The queue keeps its shape and both its limits, and its counter always says how many messages
\* wait: push, pop_head, clear_for and drop_expired each adjust it by what they take.
THEOREM QueueTypes == Spec => []SQTypeOK
BY InvAlways, InvTypes, PTL

\* A message whose sender was told that it is delivered or queued is waiting, or was given, or has ended
\* in one of the ways NoMessageVanishes names (send, deliver_midturn_message, drain_once): what those
\* ways are is the whole list of how the code can lose or give up a message it has accepted.
THEOREM NothingVanishes == Spec => []NoMessageVanishes
<1>1. Inv => NoMessageVanishes
  BY DEF Inv, Kept, Accounted, RowsOnce, NoMessageVanishes
<1> QED BY <1>1, InvAlways, PTL

\* A message is written to its target's transcript twice only when a running turn turned it away
\* after its row was written and no turn of its own could be claimed.
THEOREM WritesOnce == Spec => []WrittenOnce
<1>1. Inv => WrittenOnce
  <2> SUFFICES ASSUME Inv, NEW m \in Messages, rows[m] > 1, m \notin marks["bounced"]  PROVE FALSE
    BY DEF WrittenOnce
  <2>1. rows[m] \in 0..Often /\ rows[m] <= 1
    BY RowsBounded DEF Inv, Shapes
  <2> QED BY <2>1 DEF Often
<1> QED BY <1>1, InvAlways, PTL

\* Among the messages queued for one target none is delivered while one queued earlier waits.
THEOREM DrainsInOrder == Spec => []DrainedInOrder
<1>1. Inv => DrainedInOrder
  BY DEF Inv, Ordered, DrainedInOrder
<1> QED BY <1>1, InvAlways, PTL

\* A user's stop ends the backlog it finds: of that, only the message of which the drainer already
\* held a copy can still reach the target.
THEOREM StopClears == Spec => []StopClearsTheBacklog
<1>1. Inv => StopClearsTheBacklog
  BY DEF Inv, StopHolds, StopClearsTheBacklog
<1> QED BY <1>1, InvAlways, PTL
=============================================================================
