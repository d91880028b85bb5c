-------------------------- MODULE WebhookDispatcher --------------------------
(***************************************************************************)
(* Webhook dispatchers polling webhook_deliveries and POSTing to clients.  *)
(*                                                                         *)
(* Each pass of _dispatch_next is one transaction that keeps the row       *)
(* locked (FOR UPDATE SKIP LOCKED) across the DNS lookup and the HTTP      *)
(* exchange.  What the guard finds at each lookup and what the endpoint    *)
(* answers to each attempt is chosen freely; only an attempt on a Raising  *)
(* destination may also end in an exception that is not retryable.         *)
(*                                                                         *)
(* Time is relative, in seconds: wait[d] is next_attempt_at minus the      *)
(* clock, elapsed[w] the clock minus the processed_at that worker w took   *)
(* when it locked its row.  Statements take no time of their own.          *)
(***************************************************************************)
EXTENDS Integers

CONSTANTS Workers,      \* dispatcher processes
          Deliveries,   \* rows of webhook_deliveries
          Raising,      \* those whose endpoint may redirect, or host fail to encode
          NoDelivery,   \* a worker with no open transaction
          BatchSize,    \* webhook_dispatcher_batch_size
          MaxAttempts,  \* webhook_max_attempts
          Timeout,      \* longest a worker holds a row (webhook_timeout_seconds)
          MaxOverdue,   \* bound: how long ago a row became due is told up to here
          MaxFaults     \* bound on database faults and kills

ASSUME DispatcherAssumption ==
  /\ Raising \subseteq Deliveries
  /\ NoDelivery \notin Deliveries
  /\ BatchSize \in Nat \ {0}
  /\ MaxAttempts \in Nat \ {0}
  /\ Timeout \in Nat
  /\ MaxOverdue \in Nat
  /\ MaxFaults \in Nat

VARIABLES status,    \* status[d]: the committed status of the row
          attempts,  \* attempts[d]: its committed attempts
          wait,      \* wait[d]: seconds until it is due, negative when overdue
          pc,        \* pc[w]: where worker w is
          holds,     \* holds[w]: the row its transaction has locked
          left,      \* left[w]: iterations left of this poll's batch
          elapsed,   \* elapsed[w]: seconds since it took processed_at
          posts,     \* posts[d]: POSTs sent, counted up to PostsCap[d]
          answered,  \* deliveries an endpoint answered conclusively
          refused,   \* deliveries the URL guard refused
          rest,      \* rest[d]: seconds since the processed_at of its last counted attempt
          faults     \* faults and kills so far

row == <<status, attempts, wait>>
worker == <<holds, left, elapsed>>
observed == <<posts, answered, refused>>
vars == <<row, pc, worker, observed, rest, faults>>

Lesser(a, b) == IF a < b THEN a ELSE b
Greater(a, b) == IF a > b THEN a ELSE b

\* min(10.0, float(2 ** max(attempts - 1, 0))): 2 ** 4 is the first power past
\* the cap, and the float is exact up to it.
compute_backoff_seconds(n) == IF n <= 4 THEN 2 ^ Greater(n - 1, 0) ELSE 10

MaxBackoff == compute_backoff_seconds(MaxAttempts - 1)

\* More requests than the properties tell apart are not counted.
PostsCap == [d \in Deliveries |->
               IF d \in Raising THEN MaxAttempts ELSE MaxAttempts + MaxFaults + 1]

Statuses == {"absent", "pending", "delivered", "failed"}
Marking == {"mark_delivered", "mark_failed", "reschedule"}
Holding == {"resolve", "post"} \cup Marking

TypeOK ==
  /\ status \in [Deliveries -> Statuses]
  /\ attempts \in [Deliveries -> 0 .. MaxAttempts - 1]
  /\ wait \in [Deliveries -> -MaxOverdue .. MaxBackoff]
  /\ pc \in [Workers -> Holding \cup {"sleep", "select", "down"}]
  /\ holds \in [Workers -> Deliveries \cup {NoDelivery}]
  /\ left \in [Workers -> 0..BatchSize]
  /\ elapsed \in [Workers -> 0..Timeout]
  /\ posts \in [Deliveries -> Nat]
  /\ \A d \in Deliveries : posts[d] <= PostsCap[d]
  /\ answered \subseteq Deliveries
  /\ refused \subseteq Deliveries
  /\ rest \in [Deliveries -> 0..MaxBackoff]
  /\ faults \in 0..MaxFaults

Init ==
  /\ status = [d \in Deliveries |-> "absent"]
  /\ attempts = [d \in Deliveries |-> 0]
  /\ wait = [d \in Deliveries |-> 0]
  /\ pc = [w \in Workers |-> "sleep"]
  /\ holds = [w \in Workers |-> NoDelivery]
  /\ left = [w \in Workers |-> 0]
  /\ elapsed = [w \in Workers |-> 0]
  /\ posts = [d \in Deliveries |-> 0]
  /\ answered = {}
  /\ refused = {}
  /\ rest = [d \in Deliveries |-> 0]
  /\ faults = 0
-----------------------------------------------------------------------------
Goto(w, from, to) == pc[w] = from /\ pc' = [pc EXCEPT ![w] = to]
SetStatus(d, s) == status' = [status EXCEPT ![d] = s]
Locked(d) == \E w \in Workers : holds[w] = d

Release(w) ==
  /\ holds' = [holds EXCEPT ![w] = NoDelivery]
  /\ elapsed' = [elapsed EXCEPT ![w] = 0]

\* The loop over the batch is left by an exception, which ends the transaction.
LeaveBatch(w) == Release(w) /\ left' = [left EXCEPT ![w] = 0]

\* One iteration of the batch ends with its transaction.
EndIteration(w) == Release(w) /\ left' = [left EXCEPT ![w] = @ - 1]

\* A second passes for the rows and for the workers that hold one.  It does not
\* while a worker has held its row for Timeout: its step comes first.
Tick ==
  /\ \A w \in Workers : pc[w] \in Holding => elapsed[w] < Timeout
  /\ wait' = [d \in Deliveries |->
       IF status[d] = "pending" THEN Greater(wait[d] - 1, -MaxOverdue) ELSE wait[d]]
  /\ elapsed' = [w \in Workers |-> IF pc[w] \in Holding THEN elapsed[w] + 1 ELSE 0]
  /\ rest' = [d \in Deliveries |->
       IF attempts[d] > 0 THEN Lesser(rest[d] + 1, MaxBackoff) ELSE 0]
  /\ UNCHANGED <<status, attempts, pc, holds, left, observed, faults>>

\* The consumer commits a row that is due at once.
Enqueue(d) ==
  /\ status[d] = "absent"
  /\ SetStatus(d, "pending")
  /\ UNCHANGED <<attempts, wait, pc, worker, observed, rest, faults>>

Wake(w) ==
  /\ Goto(w, "sleep", "select")
  /\ left' = [left EXCEPT ![w] = BatchSize]
  /\ UNCHANGED <<row, holds, elapsed, observed, rest, faults>>

\* Mutant of Due: the rows other workers have locked are not skipped.
DueUnlocked == {d \in Deliveries : status[d] = "pending" /\ wait[d] <= 0}

\* WHERE status = 'pending' AND next_attempt_at <= :now FOR UPDATE SKIP LOCKED.
Due == {d \in Deliveries : status[d] = "pending" /\ wait[d] <= 0 /\ ~Locked(d)}

\* The row that has been due for longest is locked; processed_at is now.
Claim(w) ==
  /\ left[w] > 0
  /\ Goto(w, "select", "resolve")
  /\ \E d \in Due : /\ \A e \in Due : wait[d] <= wait[e]
                    /\ holds' = [holds EXCEPT ![w] = d]
  /\ elapsed' = [elapsed EXCEPT ![w] = 0]
  /\ UNCHANGED <<row, left, observed, rest, faults>>

EndBatch(w) ==
  /\ left[w] = 0 \/ Due = {}
  /\ Goto(w, "select", "sleep")
  /\ left' = [left EXCEPT ![w] = 0]
  /\ UNCHANGED <<row, holds, elapsed, observed, rest, faults>>

\* ensure_webhook_destination_allowed refuses, because the host resolves to a
\* blocked address or not at all just now: no attempt, marked failed.
Refuse(w) ==
  /\ Goto(w, "resolve", "mark_failed")
  /\ refused' = refused \cup {holds[w]}
  /\ UNCHANGED <<row, worker, posts, answered, rest, faults>>

\* It allows the destination: the request goes out.
Post(w) ==
  /\ Goto(w, "resolve", "post")
  /\ posts' = [posts EXCEPT ![holds[w]] = Lesser(@ + 1, PostsCap[holds[w]])]
  /\ UNCHANGED <<row, worker, answered, refused, rest, faults>>

\* 2xx, or a 4xx that is not retryable: deliver_once returns.
Answer(w) ==
  /\ Goto(w, "post", "mark_delivered")
  /\ answered' = answered \cup {holds[w]}
  /\ UNCHANGED <<row, worker, posts, refused, rest, faults>>

\* Mutant of RetryableError: an error while attempts are left counts as success.
RetryableErrorDelivers(w) ==
  /\ Goto(w, "post", IF attempts[holds[w]] + 1 >= MaxAttempts
                       THEN "mark_failed" ELSE "mark_delivered")
  /\ UNCHANGED <<row, worker, observed, rest, faults>>

\* Mutant of RetryableError: the last attempt is not made.
RetryableErrorEarly(w) ==
  /\ Goto(w, "post", IF attempts[holds[w]] + 2 >= MaxAttempts
                       THEN "mark_failed" ELSE "reschedule")
  /\ UNCHANGED <<row, worker, observed, rest, faults>>

\* Mutant of RetryableError: attempts compared with > for >=.
RetryableErrorLate(w) ==
  /\ Goto(w, "post", IF attempts[holds[w]] + 1 > MaxAttempts
                       THEN "mark_failed" ELSE "reschedule")
  /\ UNCHANGED <<row, worker, observed, rest, faults>>

\* 408, 429, 5xx, a timeout or a transport error.
RetryableError(w) ==
  /\ Goto(w, "post", IF attempts[holds[w]] + 1 >= MaxAttempts
                       THEN "mark_failed" ELSE "reschedule")
  /\ UNCHANGED <<row, worker, observed, rest, faults>>

\* raise_for_status on a 3xx, or the resolver's UnicodeError on a host name it
\* cannot encode: an exception that is not retryable leaves _dispatch_next, which
\* rolls back, leaves the row as it was and ends the batch.
UnretryableError(w) ==
  /\ \E from \in {"resolve", "post"} : Goto(w, from, "sleep")
  /\ holds[w] \in Raising
  /\ LeaveBatch(w)
  /\ UNCHANGED <<row, observed, rest, faults>>

\* What the UPDATE of each ending writes.
WriteDelivered(w) ==
  /\ pc[w] = "mark_delivered"
  /\ SetStatus(holds[w], "delivered")
  /\ UNCHANGED <<attempts, wait, rest>>

WriteFailed(w) ==
  /\ pc[w] = "mark_failed"
  /\ SetStatus(holds[w], "failed")
  /\ UNCHANGED <<attempts, wait, rest>>

\* Mutant of WriteReschedule: the backoff left out of next_attempt_at.
RescheduleAtOnce(w) ==
  LET d == holds[w]
  IN  /\ pc[w] = "reschedule"
      /\ attempts' = [attempts EXCEPT ![d] = @ + 1]
      /\ wait' = [wait EXCEPT ![d] = Greater(-elapsed[w], -MaxOverdue)]
      /\ rest' = [rest EXCEPT ![d] = Lesser(elapsed[w], MaxBackoff)]
      /\ UNCHANGED status

\* Mutant of WriteReschedule: the attempt is not counted.
RescheduleUncounted(w) ==
  LET d == holds[w]
  IN  /\ pc[w] = "reschedule"
      /\ wait' = [wait EXCEPT ![d] =
           Greater(compute_backoff_seconds(attempts[d]) - elapsed[w], -MaxOverdue)]
      /\ rest' = [rest EXCEPT ![d] = Lesser(elapsed[w], MaxBackoff)]
      /\ UNCHANGED <<status, attempts>>

\* next_attempt_at counts from processed_at, taken before the request.
WriteReschedule(w) ==
  LET d == holds[w]
      n == attempts[d] + 1
  IN  /\ pc[w] = "reschedule"
      /\ attempts' = [attempts EXCEPT ![d] = n]
      /\ wait' = [wait EXCEPT ![d] =
           Greater(compute_backoff_seconds(n) - elapsed[w], -MaxOverdue)]
      /\ rest' = [rest EXCEPT ![d] = Lesser(elapsed[w], MaxBackoff)]
      /\ UNCHANGED status

Write(w) == WriteDelivered(w) \/ WriteFailed(w) \/ WriteReschedule(w)

Mark(w) ==
  /\ Write(w)
  /\ pc' = [pc EXCEPT ![w] = "select"]
  /\ EndIteration(w)
  /\ UNCHANGED <<observed, faults>>
-----------------------------------------------------------------------------
Fault == faults < MaxFaults /\ faults' = faults + 1

\* Mutant of Abort: the session is left open with its row lock.
AbortKeepsLock(w) ==
  /\ Fault
  /\ \E from \in Marking \cup {"select"} : Goto(w, from, "sleep")
  /\ UNCHANGED <<row, worker, observed, rest>>

\* A database error rolls back and ends the batch; run_forever logs and sleeps.
Abort(w) ==
  /\ Fault
  /\ \E from \in Marking \cup {"select"} : Goto(w, from, "sleep")
  /\ LeaveBatch(w)
  /\ UNCHANGED <<row, observed, rest>>

\* The commit took effect, but its confirmation was lost.
MarkUnconfirmed(w) ==
  /\ Fault
  /\ Write(w)
  /\ pc' = [pc EXCEPT ![w] = "sleep"]
  /\ LeaveBatch(w)
  /\ UNCHANGED observed

\* Killed, before or after the endpoint got the request: rolled back.
Kill(w) ==
  /\ Fault
  /\ pc[w] # "down"
  /\ pc' = [pc EXCEPT ![w] = "down"]
  /\ LeaveBatch(w)
  /\ UNCHANGED <<row, observed, rest>>

Restart(w) ==
  /\ Goto(w, "down", "sleep")
  /\ UNCHANGED <<row, worker, observed, rest, faults>>
-----------------------------------------------------------------------------
Work(w) ==
  \/ Wake(w) \/ Claim(w) \/ EndBatch(w)
  \/ Refuse(w) \/ Post(w)
  \/ Answer(w) \/ RetryableError(w) \/ UnretryableError(w) \/ Mark(w)

Disturb(w) ==
  Abort(w) \/ MarkUnconfirmed(w) \/ Kill(w) \/ Restart(w)

Next ==
  \/ Tick
  \/ \E d \in Deliveries : Enqueue(d)
  \/ \E w \in Workers : Work(w) \/ Disturb(w)

\* Time passes, and the event loop of a running worker schedules its task; the
\* HTTP client's timeout ends every exchange.
Fairness == WF_vars(Tick) /\ \A w \in Workers : WF_vars(Work(w))

Spec == Init /\ [][Next]_vars /\ Fairness
-----------------------------------------------------------------------------
\* A row is only marked delivered when its endpoint answered conclusively, by
\* this worker or by one that was killed before it could record the answer.
DeliveredWasAnswered == \A d \in Deliveries : status[d] = "delivered" => d \in answered

\* A row is only marked failed when the URL guard refused it or when all
\* webhook_max_attempts requests were sent.
FailureIsEarned ==
  \A d \in Deliveries : status[d] = "failed" => d \in refused \/ posts[d] >= MaxAttempts

\* However many dispatchers poll, an endpoint on which no attempt raises gets at
\* most webhook_max_attempts requests, and one more for each fault or kill.
RequestsAccounted ==
  \A d \in Deliveries \ Raising : posts[d] <= MaxAttempts + faults

\* Whichever dispatcher makes it, the next attempt on a delivery begins no sooner
\* than compute_backoff_seconds after the last one that was counted began.
AttemptsAreSpaced ==
  [][\A w \in Workers : Post(w) /\ attempts[holds[w]] > 0 =>
       rest[holds[w]] >= compute_backoff_seconds(attempts[holds[w]])]_vars

Settled(d) == status[d] \in {"delivered", "failed"}
Served == []<>(\E w \in Workers : pc[w] # "down")

\* A row leaves pending for a settled status only, and keeps that (NotificationKept).
NotPendingForEver(d) == []<>(status[d] # "pending")

\* While some dispatcher keeps running, a queued delivery is eventually settled,
\* whatever its endpoint answers, if attempts cease to raise: no row stays locked,
\* no ordinary endpoint holds up another's, and a row that raised is taken up again.
DeliverySettles ==
  Served /\ <>[][\A w \in Workers : ~UnretryableError(w)]_vars =>
    \A d \in Deliveries : NotPendingForEver(d)

\* ADR 0003, a due delivery ends as DELIVERED or FAILED: also next to one whose
\* own attempts raise.
OthersSettle == Served => \A d \in Deliveries \ Raising : NotPendingForEver(d)

\* The promise of the delivery queue, without workers.
Notification == INSTANCE WebhookNotification WITH Enough <- PostsCap

NotificationKept == Notification!Spec
=============================================================================
