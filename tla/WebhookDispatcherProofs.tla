----------------------- MODULE WebhookDispatcherProofs -----------------------
(***************************************************************************)
(* Proofs about WebhookDispatcher for any number of workers, deliveries,   *)
(* attempts and faults, any batch size, timeout and horizon of the clock.  *)
(*                                                                         *)
(* A worker acts on what it read when it locked the row, so IInv says why  *)
(* that is still true when it writes: the lock has one holder (LockInv),   *)
(* and what the holder has done at each await is what its next step needs  *)
(* (Knows).  Requests are accounted to attempts, to faults and to the one  *)
(* exchange under way (PostsAccounted), and the backoff to the clock, which *)
(* moves wait and rest in opposite directions (Spaced).                    *)
(***************************************************************************)
EXTENDS WebhookDispatcher, TLAPS

\* A worker holds a row exactly while its transaction is open, inside an
\* iteration of its batch, and a row has at most one holder.
LockInv ==
  /\ \A w \in Workers : /\ holds[w] # NoDelivery <=> pc[w] \in Holding
                        /\ pc[w] \in Holding => left[w] > 0
  /\ \A w, x \in Workers : holds[w] # NoDelivery /\ holds[w] = holds[x] => w = x

\* The backoff of delivery d is over; while it waits, the clock makes it so.
Rested(d) == attempts[d] > 0 => rest[d] >= compute_backoff_seconds(attempts[d])

Spaced ==
  \A d \in Deliveries : attempts[d] > 0 =>
    Rested(d) \/ rest[d] + wait[d] >= compute_backoff_seconds(attempts[d])

\* What the holder of a row knows about it at each await.
Knows(w) ==
  LET d == holds[w]
  IN  /\ pc[w] \in Holding => status[d] = "pending" /\ Rested(d)
      /\ pc[w] \in {"post", "reschedule"} => posts[d] > attempts[d]
      /\ pc[w] = "mark_delivered" => d \in answered
      /\ pc[w] = "mark_failed" => d \in refused \/ posts[d] >= MaxAttempts
      /\ pc[w] = "reschedule" => attempts[d] + 1 < MaxAttempts

HolderKnows == \A w \in Workers : Knows(w)

\* An exchange of delivery d is under way or answered, and not yet recorded.
Underway(d) == \E w \in Workers : holds[w] = d /\ pc[w] \in {"post"} \cup Marking

\* Every attempt counted was a request, and every request but the one under way
\* or the last one was counted as an attempt or lost to a fault.
Accounted(d) ==
  \/ posts[d] <= attempts[d] + faults
  \/ posts[d] <= attempts[d] + faults + 1 /\ (Settled(d) \/ Underway(d))

PostsAccounted ==
  /\ \A d \in Deliveries : posts[d] >= attempts[d]
  /\ \A d \in Deliveries \ Raising : Accounted(d)

IInv ==
  /\ TypeOK
  /\ LockInv
  /\ Spaced
  /\ HolderKnows
  /\ PostsAccounted
  /\ DeliveredWasAnswered
  /\ FailureIsEarned
-----------------------------------------------------------------------------
\* The backoff is a number of seconds that never shrinks with the attempts.
LEMMA BackoffGrows ==
  ASSUME NEW m \in Nat, NEW n \in Nat, m <= n
  PROVE  /\ compute_backoff_seconds(m) \in Nat
         /\ compute_backoff_seconds(m) <= compute_backoff_seconds(n)
<1>1. 2 ^ 0 = 1 /\ 2 ^ 1 = 2 /\ 2 ^ 2 = 4 /\ 2 ^ 3 = 8
  OBVIOUS
<1>2. ASSUME NEW k \in Nat
      PROVE  compute_backoff_seconds(k) =
               IF k <= 1 THEN 1 ELSE IF k = 2 THEN 2 ELSE IF k = 3 THEN 4 ELSE
               IF k = 4 THEN 8 ELSE 10
  <2>1. CASE k > 4
    BY <2>1 DEF compute_backoff_seconds
  <2>2. CASE k <= 4
    <3>1. compute_backoff_seconds(k) = 2 ^ Greater(k - 1, 0)
      BY <2>2 DEF compute_backoff_seconds
    <3>2. CASE k <= 1
      <4>1. Greater(k - 1, 0) = 0
        BY <3>2 DEF Greater
      <4>2. compute_backoff_seconds(k) = 1
        BY <1>1, <3>1, <4>1, Zenon
      <4>3. QED
        BY <3>2, <4>2
    <3>3. CASE k = 2
      <4>1. Greater(k - 1, 0) = 1
        BY <3>3 DEF Greater
      <4>2. compute_backoff_seconds(k) = 2
        BY <1>1, <3>1, <4>1, Zenon
      <4>3. QED
        BY <3>3, <4>2
    <3>4. CASE k = 3
      <4>1. Greater(k - 1, 0) = 2
        BY <3>4 DEF Greater
      <4>2. compute_backoff_seconds(k) = 4
        BY <1>1, <3>1, <4>1, Zenon
      <4>3. QED
        BY <3>4, <4>2
    <3>5. CASE k = 4
      <4>1. Greater(k - 1, 0) = 3
        BY <3>5 DEF Greater
      <4>2. compute_backoff_seconds(k) = 8
        BY <1>1, <3>1, <4>1, Zenon
      <4>3. QED
        BY <3>5, <4>2
    <3>6. QED
      BY <2>2, <3>2, <3>3, <3>4, <3>5
  <2>3. QED
    BY <2>1, <2>2
<1>3. QED
  BY <1>2

\* So what the model counts up to MaxBackoff is enough to tell every backoff.
LEMMA MaxBackoffIsMost ==
  /\ MaxBackoff \in Nat
  /\ \A n \in 0 .. MaxAttempts - 1 :
       compute_backoff_seconds(n) \in Nat /\ compute_backoff_seconds(n) <= MaxBackoff
BY DispatcherAssumption, BackoffGrows DEF MaxBackoff

\* Every attempt is counted, and on endpoints that do not raise every fault too.
LEMMA CapCounts ==
  \A d \in Deliveries :
    /\ PostsCap[d] \in Nat /\ PostsCap[d] >= MaxAttempts
    /\ d \notin Raising => PostsCap[d] = MaxAttempts + MaxFaults + 1
BY DispatcherAssumption DEF PostsCap

\* The initial states satisfy the inductive invariant.
LEMMA InitIInv == Init => IInv
<1> SUFFICES ASSUME Init
             PROVE  IInv
  OBVIOUS
<1> USE DispatcherAssumption, MaxBackoffIsMost DEF Init
<1>1. TypeOK
  BY CapCounts DEF TypeOK, Statuses
<1>2. LockInv /\ Spaced /\ HolderKnows
  BY DEF LockInv, Spaced, HolderKnows, Knows, Holding, Marking
<1>3. PostsAccounted /\ DeliveredWasAnswered /\ FailureIsEarned
  BY DEF PostsAccounted, Accounted, DeliveredWasAnswered, FailureIsEarned
<1>4. QED
  BY <1>1, <1>2, <1>3 DEF IInv

\* Types are preserved by every step.
LEMMA NextTypeOK == IInv /\ [Next]_vars => TypeOK'
<1> SUFFICES ASSUME IInv, [Next]_vars
             PROVE  TypeOK'
  OBVIOUS
<1> USE DispatcherAssumption, MaxBackoffIsMost DEF IInv, TypeOK, Statuses, Holding,
   Marking, Goto, row, worker,
    observed
<1>1. CASE Tick
  <2>1. wait' \in [Deliveries -> -MaxOverdue .. MaxBackoff]
    BY <1>1 DEF Tick, Greater
  <2>2. elapsed' \in [Workers -> 0..Timeout]
    BY <1>1 DEF Tick
  <2>3. rest' \in [Deliveries -> 0..MaxBackoff]
    BY <1>1 DEF Tick, Lesser
  <2>4. QED
    BY <1>1, <2>1, <2>2, <2>3 DEF Tick
<1>2. ASSUME NEW d \in Deliveries, Enqueue(d)
      PROVE  TypeOK'
  BY <1>2 DEF Enqueue, SetStatus
<1>3. ASSUME NEW w \in Workers, Wake(w)
      PROVE  TypeOK'
  BY <1>3 DEF Wake
<1>4. ASSUME NEW w \in Workers, Claim(w)
      PROVE  TypeOK'
  BY <1>4 DEF Claim, Due
<1>5. ASSUME NEW w \in Workers, EndBatch(w)
      PROVE  TypeOK'
  BY <1>5 DEF EndBatch
<1>6. ASSUME NEW w \in Workers, Refuse(w) \/ Post(w) \/ Answer(w)
      PROVE  TypeOK'
  <2>1. holds[w] \in Deliveries
    BY <1>6 DEF Refuse, Post, Answer, LockInv
  <2>2. /\ posts' \in [Deliveries -> Nat]
        /\ \A d \in Deliveries : posts'[d] <= PostsCap[d]
    BY <1>6, <2>1, CapCounts DEF Refuse, Post, Answer, Lesser
  <2>3. QED
    BY <1>6, <2>1, <2>2 DEF Refuse, Post, Answer
<1>7. ASSUME NEW w \in Workers, RetryableError(w)
      PROVE  TypeOK'
  BY <1>7 DEF RetryableError
<1>8. ASSUME NEW w \in Workers, UnretryableError(w) \/ Abort(w) \/ Kill(w) \/ Restart(w)
      PROVE  TypeOK'
  BY <1>8 DEF UnretryableError, Abort, Kill, Restart, LeaveBatch, Release, Fault
<1>9. ASSUME NEW w \in Workers, Write(w)
      PROVE  /\ status' \in [Deliveries -> Statuses]
             /\ attempts' \in [Deliveries -> 0 .. MaxAttempts - 1]
             /\ wait' \in [Deliveries -> -MaxOverdue .. MaxBackoff]
             /\ rest' \in [Deliveries -> 0..MaxBackoff]
             /\ pc[w] \in Marking
  <2>1. pc[w] \in Marking
    BY <1>9 DEF Write, WriteDelivered, WriteFailed, WriteReschedule
  <2>2. holds[w] \in Deliveries /\ Knows(w)
    BY <2>1 DEF LockInv, HolderKnows
  <2>3. CASE WriteDelivered(w) \/ WriteFailed(w)
    BY <2>1, <2>2, <2>3 DEF WriteDelivered, WriteFailed, SetStatus
  <2>4. CASE WriteReschedule(w)
    <3>1. attempts[holds[w]] + 1 \in 0 .. MaxAttempts - 1
      BY <2>2, <2>4 DEF WriteReschedule, Knows
    <3>2. Greater(compute_backoff_seconds(attempts[holds[w]] + 1) - elapsed[w], -MaxOverdue)
            \in -MaxOverdue .. MaxBackoff
      BY <3>1 DEF Greater
    <3>3. Lesser(elapsed[w], MaxBackoff) \in 0..MaxBackoff
      BY DEF Lesser
    <3>4. QED
      BY <2>1, <2>2, <2>4, <3>1, <3>2, <3>3 DEF WriteReschedule
  <2>5. QED
    BY <1>9, <2>3, <2>4 DEF Write
<1>10. ASSUME NEW w \in Workers, Mark(w)
       PROVE  TypeOK'
  <2>1. left[w] > 0
    BY <1>9, <1>10 DEF Mark, LockInv
  <2>2. QED
    BY <1>9, <1>10, <2>1 DEF Mark, EndIteration, Release
<1>11. ASSUME NEW w \in Workers, MarkUnconfirmed(w)
       PROVE  TypeOK'
  BY <1>9, <1>11 DEF MarkUnconfirmed, LeaveBatch, Release, Fault
<1>12. CASE UNCHANGED vars
  BY <1>12 DEF vars
<1>13. QED
  BY <1>1, <1>2, <1>3, <1>4, <1>5, <1>6, <1>7, <1>8, <1>10, <1>11, <1>12
  DEF Next, Work, Disturb

\* A row is locked by one worker at a time, and only inside its transaction.
LEMMA NextLock == IInv /\ [Next]_vars => LockInv'
<1> SUFFICES ASSUME IInv, [Next]_vars
             PROVE  LockInv'
  OBVIOUS
<1> USE DispatcherAssumption DEF IInv, TypeOK, LockInv, Holding, Marking, Goto, worker
<1>1. CASE Tick \/ (\E d \in Deliveries : Enqueue(d)) \/ UNCHANGED vars
  BY <1>1 DEF Tick, Enqueue, vars
<1>2. ASSUME NEW w \in Workers, Wake(w) \/ EndBatch(w) \/ Restart(w)
      PROVE  LockInv'
  BY <1>2 DEF Wake, EndBatch, Restart
<1>3. ASSUME NEW w \in Workers, Claim(w)
      PROVE  LockInv'
  <2>1. PICK d \in Due : holds' = [holds EXCEPT ![w] = d]
    BY <1>3 DEF Claim
  <2>2. d \in Deliveries /\ \A x \in Workers : holds[x] # d
    BY DEF Due, Locked
  <2>3. QED
    BY <1>3, <2>1, <2>2 DEF Claim
<1>4. ASSUME NEW w \in Workers, Refuse(w) \/ Post(w) \/ Answer(w) \/ RetryableError(w)
      PROVE  LockInv'
  BY <1>4 DEF Refuse, Post, Answer, RetryableError
<1>5. ASSUME NEW w \in Workers, UnretryableError(w) \/ Abort(w) \/ MarkUnconfirmed(w) \/ Kill(w)
      PROVE  LockInv'
  BY <1>5 DEF UnretryableError, Abort, MarkUnconfirmed, Kill, LeaveBatch, Release
<1>6. ASSUME NEW w \in Workers, Mark(w)
      PROVE  LockInv'
  BY <1>6 DEF Mark, EndIteration, Release
<1>7. QED
  BY <1>1, <1>2, <1>3, <1>4, <1>5, <1>6 DEF Next, Work, Disturb

\* The clock takes a second from the wait of a row for each it adds to its rest,
\* so a row whose backoff would end in time is never due before it has ended.
LEMMA NextSpaced == IInv /\ [Next]_vars => Spaced'
<1> SUFFICES ASSUME IInv, [Next]_vars,
                    NEW d \in Deliveries, attempts'[d] > 0
             PROVE  Rested(d)' \/ rest'[d] + wait'[d] >= compute_backoff_seconds(attempts'[d])
  BY DEF Spaced
<1> DEFINE Backoff(n) == compute_backoff_seconds(n)
<1> USE DispatcherAssumption, MaxBackoffIsMost DEF IInv, TypeOK, Rested
<1>1. CASE UNCHANGED <<attempts, wait, rest>>
  BY <1>1 DEF Spaced
<1>2. CASE Tick
  <2>1. /\ attempts' = attempts
        /\ wait'[d] = wait[d] \/ wait'[d] = Greater(wait[d] - 1, -MaxOverdue)
        /\ rest'[d] = Lesser(rest[d] + 1, MaxBackoff)
    BY <1>2 DEF Tick
  <2>2. Backoff(attempts[d]) \in Nat /\ Backoff(attempts[d]) <= MaxBackoff
    BY <2>1
  <2>3. rest[d] >= Backoff(attempts[d]) \/ rest[d] + wait[d] >= Backoff(attempts[d])
    BY <2>1 DEF Spaced
  <2>4. QED
    BY <2>1, <2>2, <2>3 DEF Greater, Lesser
<1>3. ASSUME NEW w \in Workers, WriteReschedule(w)
      PROVE  Rested(d)' \/ rest'[d] + wait'[d] >= Backoff(attempts'[d])
  <2>1. CASE holds[w] = d
    <3>1. attempts[d] + 1 \in 0 .. MaxAttempts - 1
      BY <1>3, <2>1 DEF WriteReschedule, HolderKnows, Knows
    <3>2. /\ attempts'[d] = attempts[d] + 1
          /\ wait'[d] = Greater(Backoff(attempts[d] + 1) - elapsed[w], -MaxOverdue)
          /\ rest'[d] = Lesser(elapsed[w], MaxBackoff)
      BY <1>3, <2>1 DEF WriteReschedule
    <3>3. Backoff(attempts[d] + 1) \in Nat /\ Backoff(attempts[d] + 1) <= MaxBackoff
      BY <3>1
    <3>4. QED
      BY <3>2, <3>3 DEF Greater, Lesser
  <2>2. CASE holds[w] # d
    BY <1>3, <2>2 DEF WriteReschedule, Spaced
  <2>3. QED
    BY <2>1, <2>2
<1>4. ASSUME NEW w \in Workers, Work(w) \/ Disturb(w), ~WriteReschedule(w)
      PROVE  UNCHANGED <<attempts, wait, rest>>
  BY <1>4 DEF Work, Disturb, Wake, Claim, EndBatch, Refuse, Post, Answer, RetryableError,
       UnretryableError, Mark, Abort, MarkUnconfirmed, Kill, Restart, Write, WriteDelivered,
       WriteFailed, row
<1>5. QED
  BY <1>1, <1>2, <1>3, <1>4 DEF Next, Enqueue, vars, row

\* What a worker knows about the row it holds stays true, whatever the clock and
\* the other workers do, while they leave the row's status and attempts alone.
LEMMA KnowledgeLasts ==
  ASSUME NEW x \in Workers, IInv, Knows(x),
         pc'[x] = pc[x], holds'[x] = holds[x],
         pc[x] \in Holding =>
           /\ status'[holds[x]] = status[holds[x]]
           /\ attempts'[holds[x]] = attempts[holds[x]]
           /\ rest'[holds[x]] \in Int /\ rest'[holds[x]] >= rest[holds[x]]
           /\ posts'[holds[x]] \in Int /\ posts'[holds[x]] >= posts[holds[x]],
         answered \subseteq answered', refused \subseteq refused'
  PROVE  Knows(x)'
<1>1. CASE pc[x] \notin Holding
  BY <1>1 DEF Knows, Holding, Marking
<1>2. CASE pc[x] \in Holding
  <2>1. holds[x] \in Deliveries
    BY <1>2 DEF IInv, TypeOK, LockInv
  <2>2. /\ compute_backoff_seconds(attempts[holds[x]]) \in Nat
        /\ rest[holds[x]] \in Int /\ posts[holds[x]] \in Int /\ attempts[holds[x]] \in Int
        /\ MaxAttempts \in Int
    BY <2>1, MaxBackoffIsMost, DispatcherAssumption DEF IInv, TypeOK, PostsCap
  <2>3. QED
    BY <1>2, <2>1, <2>2 DEF Knows, Rested
<1>3. QED
  BY <1>1, <1>2

\* What the holder of a row has read and done is still true at its next await.
LEMMA NextKnows == IInv /\ [Next]_vars => HolderKnows'
<1> SUFFICES ASSUME IInv, [Next]_vars, NEW x \in Workers
             PROVE  Knows(x)'
  BY DEF HolderKnows
<1> USE DispatcherAssumption DEF Goto, row, worker, observed
<1>1. Knows(x) /\ TypeOK /\ LockInv /\ TypeOK'
  BY NextTypeOK DEF IInv, HolderKnows
<1>2. \A d \in Deliveries :
        /\ rest[d] \in Int /\ rest'[d] \in Int /\ posts[d] \in Int /\ posts'[d] \in Int
        /\ attempts[d] \in Int /\ compute_backoff_seconds(attempts[d]) \in Int
  BY <1>1, MaxBackoffIsMost DEF TypeOK, PostsCap
<1>3. pc[x] \in Holding => holds[x] \in Deliveries
  BY <1>1 DEF TypeOK, LockInv
<1>4. CASE UNCHANGED <<status, attempts, pc, holds, observed, rest>>
  BY <1>1, <1>2, <1>3, <1>4, KnowledgeLasts
<1>5. CASE Tick
  <2>1. \A d \in Deliveries : attempts[d] > 0 => rest'[d] >= rest[d]
    BY <1>1, <1>5, MaxBackoffIsMost DEF Tick, TypeOK, Lesser
  <2>2. UNCHANGED <<status, attempts, pc, holds, observed>>
    BY <1>5 DEF Tick
  <2>3. CASE pc[x] \in Holding /\ attempts[holds[x]] > 0
    BY <1>1, <1>2, <1>3, <2>1, <2>2, <2>3, KnowledgeLasts
  <2>4. CASE ~(pc[x] \in Holding /\ attempts[holds[x]] > 0)
    BY <1>1, <1>2, <1>3, <2>2, <2>4 DEF Knows, Rested, Holding, Marking
  <2>5. QED
    BY <2>3, <2>4
<1>6. ASSUME NEW d \in Deliveries, Enqueue(d)
      PROVE  Knows(x)'
  <2>1. pc[x] \in Holding => status'[holds[x]] = status[holds[x]]
    BY <1>1, <1>3, <1>6 DEF Enqueue, SetStatus, Knows, TypeOK
  <2>2. QED
    BY <1>1, <1>2, <1>3, <1>6, <2>1, KnowledgeLasts DEF Enqueue
<1>7. ASSUME NEW w \in Workers, Wake(w) \/ EndBatch(w) \/ Restart(w)
                                \/ UnretryableError(w) \/ Abort(w) \/ Kill(w)
      PROVE  Knows(x)'
  <2>1. /\ UNCHANGED <<status, attempts, observed, rest>>
        /\ pc'[w] \notin Holding
        /\ x # w => pc'[x] = pc[x] /\ holds'[x] = holds[x]
    BY <1>1, <1>7 DEF Wake, EndBatch, Restart, UnretryableError, Abort, Kill,
       LeaveBatch, Release, TypeOK,
       Holding, Marking
  <2>2. CASE x = w
    BY <2>1, <2>2 DEF Knows, Holding, Marking
  <2>3. CASE x # w
    BY <1>1, <1>2, <1>3, <2>1, <2>3, KnowledgeLasts
  <2>4. QED
    BY <2>2, <2>3
<1>8. ASSUME NEW w \in Workers, Claim(w)
      PROVE  Knows(x)'
  <2>1. PICK d \in Due : holds' = [holds EXCEPT ![w] = d]
    BY <1>8 DEF Claim
  <2>2. UNCHANGED <<status, attempts, observed, rest>> /\ pc' = [pc EXCEPT ![w] = "resolve"]
    BY <1>8 DEF Claim
  <2>3. CASE x = w
    <3>1. d \in Deliveries /\ status[d] = "pending" /\ wait[d] <= 0 /\ wait[d] \in Int
      BY <1>1 DEF Due, TypeOK
    <3>2. Rested(d)
      BY <1>2, <3>1 DEF IInv, Spaced, Rested
    <3>3. pc'[x] = "resolve" /\ holds'[x] = d
      BY <1>1, <2>1, <2>2, <2>3 DEF TypeOK
    <3>4. QED
      BY <2>2, <3>1, <3>2, <3>3 DEF Knows, Rested, Holding, Marking
  <2>4. CASE x # w
    <3>1. pc'[x] = pc[x] /\ holds'[x] = holds[x]
      BY <1>1, <2>1, <2>2, <2>4 DEF TypeOK
    <3>2. QED
      BY <1>1, <1>2, <1>3, <2>2, <3>1, KnowledgeLasts
  <2>5. QED
    BY <2>3, <2>4
<1>9. ASSUME NEW w \in Workers, Refuse(w) \/ Post(w) \/ Answer(w) \/ RetryableError(w)
      PROVE  Knows(x)'
  <2>1. holds[w] \in Deliveries /\ pc[w] \in Holding
    BY <1>1, <1>9 DEF Refuse, Post, Answer, RetryableError, TypeOK, LockInv, Holding, Marking
  <2>2. /\ UNCHANGED <<status, attempts, holds, rest>>
        /\ answered \subseteq answered' /\ refused \subseteq refused'
        /\ x # w => pc'[x] = pc[x]
    BY <1>1, <1>9 DEF Refuse, Post, Answer, RetryableError, TypeOK
  <2>3. \A d \in Deliveries : posts'[d] >= posts[d]
    BY <1>1, <1>9, CapCounts DEF Refuse, Post, Answer, RetryableError, TypeOK, Lesser
  <2>4. CASE x # w
    BY <1>1, <1>2, <1>3, <2>2, <2>3, <2>4, KnowledgeLasts
  <2>5. CASE x = w
    <3>1. CASE Refuse(w)
      BY <1>1, <2>1, <2>5, <3>1 DEF Refuse, Knows, Rested, TypeOK, Holding, Marking
    <3>2. CASE Answer(w)
      BY <1>1, <2>1, <2>5, <3>2 DEF Answer, Knows, Rested, TypeOK, Holding, Marking
    <3>3. CASE Post(w)
      <4>1. posts[holds[w]] >= attempts[holds[w]] /\ attempts[holds[w]] < PostsCap[holds[w]]
        BY <1>1, <2>1, CapCounts DEF IInv, PostsAccounted, TypeOK
      <4>2. posts'[holds[w]] > attempts[holds[w]]
        BY <1>1, <2>1, <3>3, <4>1, CapCounts DEF Post, Lesser, TypeOK
      <4>3. QED
        BY <1>1, <2>1, <2>5, <3>3, <4>2 DEF Post, Knows, Rested, TypeOK, Holding, Marking
    <3>4. CASE RetryableError(w)
      <4>1. posts[holds[w]] > attempts[holds[w]]
        BY <1>1, <2>5, <3>4 DEF RetryableError, Knows
      <4>2. attempts[holds[w]] + 1 >= MaxAttempts => posts[holds[w]] >= MaxAttempts
        BY <1>1, <1>2, <2>1, <4>1 DEF TypeOK
      <4>3. UNCHANGED <<row, worker, observed, rest>>
        BY <3>4 DEF RetryableError
      <4>4. pc'[w] = IF attempts[holds[w]] + 1 >= MaxAttempts THEN "mark_failed" ELSE "reschedule"
        BY <1>1, <3>4 DEF RetryableError, TypeOK
      <4>5. QED
        BY <1>1, <1>2, <2>1, <2>5, <4>1, <4>2, <4>3, <4>4 DEF Knows, Rested, Holding, Marking
    <3>5. QED
      BY <1>9, <3>1, <3>2, <3>3, <3>4
  <2>6. QED
    BY <2>4, <2>5
<1>10. ASSUME NEW w \in Workers, Mark(w) \/ MarkUnconfirmed(w)
       PROVE  Knows(x)'
  <2>1. Write(w) /\ UNCHANGED observed
    BY <1>10 DEF Mark, MarkUnconfirmed
  <2>2. holds[w] \in Deliveries
    BY <1>1, <2>1 DEF Write, WriteDelivered, WriteFailed, WriteReschedule, TypeOK, LockInv,
       Holding, Marking
  <2>3. CASE x = w
    <3>1. pc'[x] \notin Holding
      BY <1>1, <1>10, <2>3 DEF Mark, MarkUnconfirmed, TypeOK, Holding, Marking
    <3>2. QED
      BY <3>1 DEF Knows, Holding, Marking
  <2>4. CASE x # w
    <3>1. pc'[x] = pc[x] /\ holds'[x] = holds[x]
      BY <1>1, <1>10, <2>4 DEF Mark, MarkUnconfirmed, EndIteration, LeaveBatch, Release, TypeOK
    <3>2. pc[x] \in Holding => holds[x] # holds[w]
      BY <1>1, <1>3, <2>2, <2>4 DEF LockInv
    <3>3. pc[x] \in Holding =>
            /\ status'[holds[x]] = status[holds[x]]
            /\ attempts'[holds[x]] = attempts[holds[x]]
            /\ rest'[holds[x]] = rest[holds[x]]
      BY <1>1, <1>3, <2>1, <2>2, <3>2 DEF Write, WriteDelivered, WriteFailed, WriteReschedule,
         SetStatus, TypeOK
    <3>4. QED
      BY <1>1, <1>2, <1>3, <2>1, <3>1, <3>3, KnowledgeLasts
  <2>5. QED
    BY <2>3, <2>4
<1>11. QED
  BY <1>4, <1>5, <1>6, <1>7, <1>8, <1>9, <1>10 DEF Next, Work, Disturb, vars

\* A request is accounted to an attempt, a fault, or the exchange under way.
LEMMA NextPosts == IInv /\ [Next]_vars => PostsAccounted'
<1> SUFFICES ASSUME IInv, [Next]_vars, NEW d \in Deliveries
             PROVE  posts'[d] >= attempts'[d] /\ (d \notin Raising => Accounted(d)')
  BY DEF PostsAccounted
<1> USE DispatcherAssumption DEF Goto, row, worker, observed
<1>1. TypeOK /\ LockInv /\ posts[d] >= attempts[d] /\ (d \notin Raising => Accounted(d))
  BY DEF IInv, PostsAccounted
<1>2. posts[d] \in Int /\ attempts[d] \in Int /\ faults \in Int /\ PostsCap[d] \in Int
  BY <1>1, CapCounts DEF TypeOK
<1>3. CASE /\ UNCHANGED <<attempts, posts, faults>>
           /\ Settled(d) => Settled(d)'
           /\ Underway(d) => Underway(d)'
  BY <1>1, <1>3 DEF Accounted
<1>4. CASE Tick \/ (\E e \in Deliveries : Enqueue(e)) \/ UNCHANGED vars
  <2>1. UNCHANGED <<attempts, posts, faults, pc, holds>>
    BY <1>4 DEF Tick, Enqueue, vars
  <2>2. Settled(d) => Settled(d)'
    BY <1>1, <1>4 DEF Tick, Enqueue, SetStatus, vars, Settled, TypeOK
  <2>3. QED
    BY <1>3, <2>1, <2>2 DEF Underway
<1>5. ASSUME NEW w \in Workers,
             \/ Wake(w) \/ EndBatch(w) \/ Restart(w) \/ Claim(w)
             \/ Refuse(w) \/ Answer(w) \/ RetryableError(w)
      PROVE  UNCHANGED <<attempts, posts, faults, status>> /\ (Underway(d) => Underway(d)')
  <2>1. UNCHANGED <<attempts, posts, faults, status>>
    BY <1>5 DEF Wake, EndBatch, Restart, Claim, Refuse, Answer, RetryableError
  <2>2. /\ \A x \in Workers \ {w} : pc'[x] = pc[x] /\ holds'[x] = holds[x]
        /\ pc[w] \in {"post"} \cup Marking =>
             pc'[w] \in {"post"} \cup Marking /\ holds'[w] = holds[w]
    BY <1>1, <1>5 DEF Wake, EndBatch, Restart, Claim, Refuse, Answer,
       RetryableError, TypeOK, Marking
  <2>3. QED
    BY <2>1, <2>2 DEF Underway
<1>6. ASSUME NEW w \in Workers, Post(w)
      PROVE  posts'[d] >= attempts'[d] /\ (d \notin Raising => Accounted(d)')
  <2>1. /\ UNCHANGED <<attempts, faults, status, holds>>
        /\ holds[w] \in Deliveries
        /\ posts' = [posts EXCEPT ![holds[w]] = Lesser(@ + 1, PostsCap[holds[w]])]
        /\ pc[w] = "resolve" /\ pc' = [pc EXCEPT ![w] = "post"]
    BY <1>1, <1>6 DEF Post, TypeOK, LockInv, Holding
  <2>2. CASE holds[w] = d
    <3>1. posts'[d] = Lesser(posts[d] + 1, PostsCap[d])
      BY <1>1, <2>1, <2>2 DEF TypeOK
    <3>2. attempts[d] < PostsCap[d]
      BY <1>1, CapCounts DEF TypeOK
    <3>3. ~Settled(d)
      BY <1>1, <2>1, <2>2 DEF IInv, HolderKnows, Knows, Holding, Settled
    <3>4. ~Underway(d)
      BY <1>1, <2>1, <2>2 DEF LockInv, Underway, Marking
    <3>5. Underway(d)'
      BY <1>1, <2>1, <2>2 DEF Underway, TypeOK
    <3>6. QED
      BY <1>1, <1>2, <2>1, <3>1, <3>2, <3>3, <3>4, <3>5 DEF Accounted, Lesser
  <2>3. CASE holds[w] # d
    <3>1. posts'[d] = posts[d]
      BY <1>1, <2>1, <2>3 DEF TypeOK
    <3>2. Underway(d) => Underway(d)'
      BY <1>1, <2>1, <2>3 DEF Underway, TypeOK
    <3>3. QED
      BY <1>1, <2>1, <3>1, <3>2 DEF Accounted, Settled
  <2>4. QED
    BY <2>2, <2>3
<1>7. ASSUME NEW w \in Workers, UnretryableError(w)
      PROVE  posts'[d] >= attempts'[d] /\ (d \notin Raising => Accounted(d)')
  <2>1. UNCHANGED <<attempts, posts, faults, status>>
    BY <1>7 DEF UnretryableError
  <2>2. /\ holds[w] \in Raising
        /\ \A x \in Workers \ {w} : pc'[x] = pc[x] /\ holds'[x] = holds[x]
    BY <1>1, <1>7 DEF UnretryableError, LeaveBatch, Release, TypeOK
  <2>3. d \notin Raising => (Underway(d) => Underway(d)')
    BY <2>2 DEF Underway
  <2>4. QED
    BY <1>1, <2>1, <2>3 DEF Accounted, Settled
<1>8. ASSUME NEW w \in Workers, Abort(w) \/ Kill(w)
      PROVE  posts'[d] >= attempts'[d] /\ (d \notin Raising => Accounted(d)')
  <2>1. UNCHANGED <<attempts, posts>> /\ faults' = faults + 1
    BY <1>8 DEF Abort, Kill, Fault
  <2>2. QED
    BY <1>1, <1>2, <2>1 DEF Accounted
<1>9. ASSUME NEW w \in Workers, Write(w)
      PROVE  /\ attempts'[d] \in {attempts[d], attempts[d] + 1}
             /\ posts[d] >= attempts'[d]
             /\ holds[w] = d /\ attempts'[d] = attempts[d] => Settled(d)'
             /\ Settled(d) => Settled(d)'
  <2>1. pc[w] \in Marking /\ pc[w] \in Holding
    BY <1>9 DEF Write, WriteDelivered, WriteFailed, WriteReschedule, Holding, Marking
  <2>2. holds[w] \in Deliveries /\ Knows(w)
    BY <1>1, <2>1 DEF TypeOK, LockInv, IInv, HolderKnows
  <2>3. CASE WriteDelivered(w) \/ WriteFailed(w)
    BY <1>1, <2>2, <2>3 DEF WriteDelivered, WriteFailed, SetStatus, Settled, TypeOK
  <2>4. CASE WriteReschedule(w)
    <3>1. /\ status' = status
          /\ attempts' = [attempts EXCEPT ![holds[w]] = @ + 1]
          /\ posts[holds[w]] > attempts[holds[w]]
      BY <2>2, <2>4 DEF WriteReschedule, Knows
    <3>2. attempts \in [Deliveries -> 0 .. MaxAttempts - 1]
      BY <1>1 DEF TypeOK
    <3>3. CASE holds[w] = d
      BY <1>2, <2>2, <3>1, <3>2, <3>3 DEF Settled
    <3>4. CASE holds[w] # d
      BY <1>1, <1>2, <2>2, <3>1, <3>2, <3>4 DEF Settled
    <3>5. QED
      BY <3>3, <3>4
  <2>5. QED
    BY <1>9, <2>3, <2>4 DEF Write
<1>10. ASSUME NEW w \in Workers, Mark(w)
       PROVE  posts'[d] >= attempts'[d] /\ (d \notin Raising => Accounted(d)')
  <2>1. Write(w) /\ UNCHANGED <<posts, faults>>
    BY <1>10 DEF Mark
  <2>2. \A x \in Workers \ {w} : pc'[x] = pc[x] /\ holds'[x] = holds[x]
    BY <1>1, <1>10 DEF Mark, EndIteration, Release, TypeOK
  <2>3. holds[w] # d => (Underway(d) => Underway(d)')
    BY <2>2 DEF Underway
  <2>4. QED
    BY <1>1, <1>2, <1>9, <2>1, <2>3 DEF Accounted
<1>11. ASSUME NEW w \in Workers, MarkUnconfirmed(w)
       PROVE  posts'[d] >= attempts'[d] /\ (d \notin Raising => Accounted(d)')
  <2>1. Write(w) /\ posts' = posts /\ faults' = faults + 1
    BY <1>11 DEF MarkUnconfirmed, Fault
  <2>2. QED
    BY <1>1, <1>2, <1>9, <2>1 DEF Accounted
<1>12. ASSUME NEW w \in Workers, Work(w) \/ Disturb(w)
       PROVE  posts'[d] >= attempts'[d] /\ (d \notin Raising => Accounted(d)')
  BY <1>1, <1>3, <1>5, <1>6, <1>7, <1>8, <1>10, <1>11, <1>12 DEF Work, Disturb, Settled
<1>13. QED
  BY <1>4, <1>12 DEF Next, vars

\* A settled status is written by the holder of the row, who knows why.
LEMMA NextSettled == IInv /\ [Next]_vars => DeliveredWasAnswered' /\ FailureIsEarned'
<1> SUFFICES ASSUME IInv, [Next]_vars, NEW d \in Deliveries
             PROVE  /\ status'[d] = "delivered" => d \in answered'
                    /\ status'[d] = "failed" => d \in refused' \/ posts'[d] >= MaxAttempts
  BY DEF DeliveredWasAnswered, FailureIsEarned
<1> USE DispatcherAssumption DEF row, worker, observed, SetStatus
<1>1. TypeOK /\ posts[d] \in Nat /\ posts[d] <= PostsCap[d] /\ PostsCap[d] \in Nat
  BY CapCounts DEF IInv, TypeOK
<1>2. /\ status[d] = "delivered" => d \in answered
      /\ status[d] = "failed" => d \in refused \/ posts[d] >= MaxAttempts
  BY DEF IInv, DeliveredWasAnswered, FailureIsEarned
<1>3. ASSUME NEW w \in Workers, Write(w)
      PROVE  /\ status'[d] = "delivered" => d \in answered
             /\ status'[d] = "failed" => d \in refused \/ posts[d] >= MaxAttempts
  <2>1. Knows(w)
    BY DEF IInv, HolderKnows
  <2>2. QED
    BY <1>1, <1>2, <1>3, <2>1 DEF Write, WriteDelivered, WriteFailed, WriteReschedule, Knows, TypeOK
<1>4. ASSUME NEW w \in Workers, Mark(w) \/ MarkUnconfirmed(w)
      PROVE  UNCHANGED observed /\ Write(w)
  BY <1>4 DEF Mark, MarkUnconfirmed
<1>5. ASSUME NEW w \in Workers, Work(w) \/ Disturb(w), ~Mark(w), ~MarkUnconfirmed(w)
      PROVE  /\ status' = status /\ answered \subseteq answered' /\ refused \subseteq refused'
             /\ posts'[d] >= posts[d] /\ posts'[d] \in Int
  <2>1. CASE Post(w)
    BY <1>1, <2>1, CapCounts DEF Post, Lesser, TypeOK
  <2>2. CASE ~Post(w)
    BY <1>1, <1>5, <2>2 DEF Work, Disturb, Wake, Claim, EndBatch, Refuse, Answer, RetryableError,
       UnretryableError, Abort, Kill, Restart
  <2>3. QED
    BY <2>1, <2>2
<1>6. ASSUME \/ Tick \/ (\E e \in Deliveries : Enqueue(e)) \/ UNCHANGED vars
      PROVE  /\ UNCHANGED observed
             /\ status'[d] \in {"delivered", "failed"} => status'[d] = status[d]
  BY <1>1, <1>6 DEF Tick, Enqueue, vars, TypeOK
<1>7. QED
  BY <1>1, <1>2, <1>3, <1>4, <1>5, <1>6 DEF Next

\* The inductive invariant holds in every reachable state.
THEOREM Invariance == Spec => []IInv
<1>1. IInv /\ [Next]_vars => IInv'
  BY NextTypeOK, NextLock, NextSpaced, NextKnows, NextPosts, NextSettled DEF IInv
<1>2. QED
  BY InitIInv, <1>1, PTL DEF Spec

\* Types, for every value of the constants.
THEOREM TypeCorrect == Spec => []TypeOK
BY Invariance, PTL DEF IInv

\* No dispatcher marks a delivery delivered that no endpoint answered.
THEOREM DeliveriesAnswered == Spec => []DeliveredWasAnswered
BY Invariance, PTL DEF IInv

\* No delivery is given up before its destination was refused or all its
\* attempts were made, though the attempts are counted by different dispatchers.
THEOREM FailuresEarned == Spec => []FailureIsEarned
BY Invariance, PTL DEF IInv

\* The row lock held across the exchange keeps the number of requests at the
\* configured one, but for one more for each fault or kill.
THEOREM RequestsBounded == Spec => []RequestsAccounted
<1>1. IInv => RequestsAccounted
  BY DispatcherAssumption
  DEF IInv, PostsAccounted, Accounted, TypeOK, RequestsAccounted
<1>2. QED
  BY <1>1, Invariance, PTL
-----------------------------------------------------------------------------
\* Only the holder of a row that has rested sends a request for it.
LEMMA PostIsRested ==
  IInv =>
    \A w \in Workers : Post(w) /\ attempts[holds[w]] > 0 =>
      rest[holds[w]] >= compute_backoff_seconds(attempts[holds[w]])
<1> SUFFICES ASSUME IInv, NEW w \in Workers, Post(w), attempts[holds[w]] > 0
             PROVE  rest[holds[w]] >= compute_backoff_seconds(attempts[holds[w]])
  OBVIOUS
<1>1. Knows(w) /\ pc[w] = "resolve"
  BY DEF IInv, HolderKnows, Post, Goto
<1>2. QED
  BY <1>1 DEF Knows, Holding, Rested

\* Attempts on a delivery are spaced by the backoff, whatever dispatcher makes
\* them and however long each exchange took.
THEOREM SpacesAttempts == Spec => AttemptsAreSpaced
BY Invariance, PostIsRested, PTL DEF Spec, AttemptsAreSpaced
-----------------------------------------------------------------------------
\* Each step of the queue's promise is taken by the holder of a pending row; the
\* clock, the polls, the locks, the faults and the restarts stutter.
LEMMA StepKeepsNotification == IInv /\ [Next]_vars => [Notification!Next]_(Notification!vars)
<1> SUFFICES ASSUME IInv, [Next]_vars
             PROVE  [Notification!Next]_(Notification!vars)
  OBVIOUS
<1> USE DispatcherAssumption DEF Notification!vars, SetStatus, Goto, observed, row
<1>1. ASSUME NEW w \in Workers, pc[w] \in Holding
      PROVE  /\ holds[w] \in Deliveries /\ Notification!Pending(holds[w]) /\ Knows(w)
             /\ posts[holds[w]] \in Int /\ attempts[holds[w]] \in Nat
  BY <1>1 DEF IInv, TypeOK, LockInv, HolderKnows, Knows, Notification!Pending
<1>2. ASSUME NEW d \in Deliveries, Enqueue(d)
      PROVE  Notification!Next
  <2>1. Notification!Queue(d)
    BY <1>2 DEF Enqueue, Notification!Queue, Notification!Become
  <2>2. QED
    BY <2>1 DEF Notification!Next
<1>3. ASSUME NEW w \in Workers, Post(w)
      PROVE  Notification!Next
  <2>1. holds[w] \in Deliveries /\ Notification!Pending(holds[w])
    BY <1>1, <1>3 DEF Post, Holding
  <2>2. /\ posts[holds[w]] \in Nat /\ PostsCap[holds[w]] \in Nat
        /\ posts[holds[w]] <= PostsCap[holds[w]]
    BY <2>1, CapCounts DEF IInv, TypeOK
  <2>3. Lesser(posts[holds[w]] + 1, PostsCap[holds[w]])
          = IF posts[holds[w]] < PostsCap[holds[w]] THEN posts[holds[w]] + 1 ELSE posts[holds[w]]
    BY <2>1, <2>2 DEF Lesser
  <2>4. Notification!Request(holds[w])
    BY <1>3, <2>1, <2>3 DEF Post, Notification!Request
  <2>5. QED
    BY <2>1, <2>4 DEF Notification!Next
<1>4. ASSUME NEW w \in Workers, Answer(w)
      PROVE  Notification!Next
  <2>1. /\ holds[w] \in Deliveries /\ Notification!Pending(holds[w])
        /\ posts[holds[w]] > 0
    BY <1>1, <1>4 DEF Answer, Holding, Knows
  <2>2. Notification!Answer(holds[w])
    BY <1>4, <2>1 DEF Answer, Notification!Answer
  <2>3. QED
    BY <2>1, <2>2 DEF Notification!Next
<1>5. ASSUME NEW w \in Workers, Refuse(w)
      PROVE  Notification!Next
  <2>1. holds[w] \in Deliveries /\ Notification!Pending(holds[w])
    BY <1>1, <1>5 DEF Refuse, Holding
  <2>2. Notification!Refuse(holds[w])
    BY <1>5, <2>1 DEF Refuse, Notification!Refuse
  <2>3. QED
    BY <2>1, <2>2 DEF Notification!Next
<1>6. ASSUME NEW w \in Workers, Write(w), UNCHANGED observed
      PROVE  [Notification!Next]_(Notification!vars)
  <2>1. holds[w] \in Deliveries /\ Notification!Pending(holds[w]) /\ Knows(w)
    BY <1>1, <1>6 DEF Write, WriteDelivered, WriteFailed, WriteReschedule, Holding, Marking
  <2>2. CASE WriteDelivered(w)
    <3>1. Notification!Deliver(holds[w])
      BY <1>6, <2>1, <2>2 DEF WriteDelivered, Knows, Notification!Deliver, Notification!Become
    <3>2. QED
      BY <2>1, <3>1 DEF Notification!Next
  <2>3. CASE WriteFailed(w)
    <3>1. Notification!Fail(holds[w])
      BY <1>6, <2>1, <2>3 DEF WriteFailed, Knows, Notification!Fail, Notification!Become
    <3>2. QED
      BY <2>1, <3>1 DEF Notification!Next
  <2>4. CASE WriteReschedule(w)
    BY <1>6, <2>4 DEF WriteReschedule
  <2>5. QED
    BY <1>6, <2>2, <2>3, <2>4 DEF Write
<1>7. ASSUME NEW w \in Workers, Mark(w) \/ MarkUnconfirmed(w)
      PROVE  [Notification!Next]_(Notification!vars)
  BY <1>6, <1>7 DEF Mark, MarkUnconfirmed
<1>8. ASSUME \/ Tick \/ UNCHANGED vars
             \/ \E w \in Workers :
                  \/ Wake(w) \/ Claim(w) \/ EndBatch(w) \/ RetryableError(w)
                  \/ UnretryableError(w) \/ Abort(w) \/ Kill(w) \/ Restart(w)
      PROVE  UNCHANGED Notification!vars
  BY <1>8 DEF Tick, vars, Wake, Claim, EndBatch, RetryableError, UnretryableError,
     Abort, Kill, Restart
<1>9. QED
  BY <1>2, <1>3, <1>4, <1>5, <1>7, <1>8 DEF Next, Work, Disturb

\* Dispatchers that poll, lock, time out, fail and restart implement the queue of
\* deliveries that has none of these.
THEOREM KeepsNotification == Spec => NotificationKept
<1>1. Init => Notification!Init
  BY DEF Init, Notification!Init
<1>2. QED
  BY <1>1, Invariance, StepKeepsNotification, PTL
  DEF Spec, NotificationKept, Notification!Spec
=============================================================================
