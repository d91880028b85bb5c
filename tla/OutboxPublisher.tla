--------------------------- MODULE OutboxPublisher ---------------------------
(***************************************************************************)
(* Outbox publishers polling the table outbox and publishing to RabbitMQ.  *)
(*                                                                         *)
(* A worker is one OutboxPublisherService: the dedicated process, or the   *)
(* one each API process starts when outbox_publisher_enabled.  Each pass   *)
(* of _publish_next is one transaction that holds the row lock of the      *)
(* event from the SELECT ... FOR UPDATE SKIP LOCKED to its end, across the *)
(* awaits of the publish.                                                  *)
(*                                                                         *)
(* Events are numbers ordered by created_at.  created_at is the start of   *)
(* the transaction that inserted the row, so rows may become visible in    *)
(* any order.                                                              *)
(***************************************************************************)
EXTENDS Naturals

CONSTANTS Workers,      \* publisher processes
          Events,       \* outbox rows, ordered by created_at
          Invalid,      \* those whose payload is not a PaymentNewMessage
          NoEvent,      \* a worker with no open transaction
          BatchSize,    \* outbox_batch_size
          MaxAttempts,  \* outbox_publish_max_attempts
          MaxFaults     \* bound on broker faults, database faults and kills

ASSUME PublisherAssumption ==
  /\ Events \subseteq Nat
  /\ Invalid \subseteq Events
  /\ NoEvent \notin Events
  /\ BatchSize \in Nat \ {0}
  /\ MaxAttempts \in Nat \ {0}
  /\ MaxFaults \in Nat

VARIABLES status,  \* status[e]: the committed outbox.status
          sent,    \* sent[e]: messages the queue was given for e
          pc,      \* pc[w]: where worker w is
          holds,   \* holds[w]: the row its transaction has locked
          left,    \* left[w]: iterations left of this poll's batch
          tries,   \* tries[w]: failed attempts to publish the held event
          faults   \* faults and kills so far

vars == <<status, sent, pc, holds, left, tries, faults>>

Statuses == {"absent", "pending", "published", "failed"}
Holding == {"publish", "mark_published", "mark_failed"}

TypeOK ==
  /\ status \in [Events -> Statuses]
  /\ sent \in [Events -> Nat]
  /\ pc \in [Workers -> Holding \cup {"sleep", "select", "down"}]
  /\ holds \in [Workers -> Events \cup {NoEvent}]
  /\ left \in [Workers -> 0..BatchSize]
  /\ tries \in [Workers -> 0 .. MaxAttempts - 1]
  /\ faults \in 0..MaxFaults

Init ==
  /\ status = [e \in Events |-> "absent"]
  /\ sent = [e \in Events |-> 0]
  /\ pc = [w \in Workers |-> "sleep"]
  /\ holds = [w \in Workers |-> NoEvent]
  /\ left = [w \in Workers |-> 0]
  /\ tries = [w \in Workers |-> 0]
  /\ faults = 0
-----------------------------------------------------------------------------
Goto(w, from, to) == pc[w] = from /\ pc' = [pc EXCEPT ![w] = to]
Release(w) == holds' = [holds EXCEPT ![w] = NoEvent]
UseIteration(w) == left' = [left EXCEPT ![w] = @ - 1]
SetStatus(e, s) == status' = [status EXCEPT ![e] = s]
Locked(e) == \E w \in Workers : holds[w] = e

\* create_payment commits a payment with its event.
Record(e) ==
  /\ status[e] = "absent"
  /\ SetStatus(e, "pending")
  /\ UNCHANGED <<sent, pc, holds, left, tries, faults>>

\* The poll interval is over: publish_pending starts a batch.
Wake(w) ==
  /\ Goto(w, "sleep", "select")
  /\ left' = [left EXCEPT ![w] = BatchSize]
  /\ UNCHANGED <<status, sent, holds, tries, faults>>

\* Mutant of Claimable: the rows other workers have locked are not skipped.
ClaimableUnlocked == {e \in Events : status[e] = "pending"}

\* Mutant of Claimable: the SELECT without status = 'pending'.
ClaimableAnyStatus == {e \in Events : status[e] # "absent" /\ ~Locked(e)}

\* WHERE status = 'pending' FOR UPDATE SKIP LOCKED.
Claimable == {e \in Events : status[e] = "pending" /\ ~Locked(e)}

Oldest(S) == {e \in S : \A f \in S : e <= f}

\* The row is locked, and its payload validated before anything is awaited.
Claim(w) ==
  /\ left[w] > 0
  /\ \E e \in Oldest(Claimable) :
       /\ holds' = [holds EXCEPT ![w] = e]
       /\ Goto(w, "select", IF e \in Invalid THEN "mark_failed" ELSE "publish")
  /\ tries' = [tries EXCEPT ![w] = 0]
  /\ UNCHANGED <<status, sent, left, faults>>

\* The batch is used up or nothing is pending: count the gauge and sleep.
EndBatch(w) ==
  /\ left[w] = 0 \/ Claimable = {}
  /\ Goto(w, "select", "sleep")
  /\ UNCHANGED <<status, sent, holds, left, tries, faults>>

Publish(w) ==
  /\ Goto(w, "publish", "mark_published")
  /\ sent' = [sent EXCEPT ![holds[w]] = @ + 1]
  /\ UNCHANGED <<status, holds, left, tries, faults>>

MarkPublished(w) ==
  /\ Goto(w, "mark_published", "select")
  /\ SetStatus(holds[w], "published")
  /\ Release(w)
  /\ UseIteration(w)
  /\ UNCHANGED <<sent, tries, faults>>

MarkFailed(w) ==
  /\ Goto(w, "mark_failed", "select")
  /\ SetStatus(holds[w], "failed")
  /\ Release(w)
  /\ UseIteration(w)
  /\ UNCHANGED <<sent, tries, faults>>
-----------------------------------------------------------------------------
Fault == faults < MaxFaults /\ faults' = faults + 1

\* A transient publish error; the broker may have taken the message all the
\* same, when only its confirmation was lost or timed out.
MaybeSent(w) ==
  \/ UNCHANGED sent
  \/ sent' = [sent EXCEPT ![holds[w]] = @ + 1]

\* Mutant of RetryPublish: one attempt more than outbox_publish_max_attempts.
RetryOnceMore(w) ==
  /\ Fault
  /\ tries[w] + 1 <= MaxAttempts
  /\ Goto(w, "publish", "publish")
  /\ MaybeSent(w)
  /\ tries' = [tries EXCEPT ![w] = @ + 1]
  /\ UNCHANGED <<status, holds, left>>

\* tenacity tries again while attempts are left.
RetryPublish(w) ==
  /\ Fault
  /\ tries[w] + 1 < MaxAttempts
  /\ Goto(w, "publish", "publish")
  /\ MaybeSent(w)
  /\ tries' = [tries EXCEPT ![w] = @ + 1]
  /\ UNCHANGED <<status, holds, left>>

\* Mutant of GiveUp: the exhausted retry taken for a success.
GiveUpAsPublished(w) ==
  /\ Fault
  /\ tries[w] + 1 = MaxAttempts
  /\ Goto(w, "publish", "mark_published")
  /\ UNCHANGED <<status, sent, holds, left, tries>>

\* Mutant of GiveUp: a transient error handled like an unreadable payload.
GiveUpAsFailed(w) ==
  /\ Fault
  /\ tries[w] + 1 = MaxAttempts
  /\ Goto(w, "publish", "mark_failed")
  /\ MaybeSent(w)
  /\ UNCHANGED <<status, holds, left, tries>>

\* Attempts exhausted: the transaction ends with the row as it was, and the
\* loop of publish_pending goes on with the next iteration.
GiveUp(w) ==
  /\ Fault
  /\ tries[w] + 1 = MaxAttempts
  /\ Goto(w, "publish", "select")
  /\ MaybeSent(w)
  /\ Release(w)
  /\ UseIteration(w)
  /\ UNCHANGED <<status, tries>>

\* Mutant of Abort: the session is left open with its row lock.
AbortKeepsLock(w) ==
  /\ Fault
  /\ \E from \in Holding \cup {"select"} : Goto(w, from, "sleep")
  /\ UNCHANGED <<status, sent, holds, left, tries>>

\* Any other exception (a database error, an error of the client library)
\* rolls back and ends the batch; run_forever logs it and sleeps.
Abort(w) ==
  /\ Fault
  /\ \E from \in Holding \cup {"select"} : Goto(w, from, "sleep")
  /\ Release(w)
  /\ UNCHANGED <<status, sent, left, tries>>

\* The commit of a mark took effect, but its confirmation was lost.
MarkUnconfirmed(w) ==
  /\ Fault
  /\ \/ Goto(w, "mark_published", "sleep") /\ SetStatus(holds[w], "published")
     \/ Goto(w, "mark_failed", "sleep") /\ SetStatus(holds[w], "failed")
  /\ Release(w)
  /\ UNCHANGED <<sent, left, tries>>

\* The process is killed or its task cancelled: PostgreSQL ends the transaction
\* and the row lock with it; a message being published may still arrive.
Kill(w) ==
  /\ Fault
  /\ pc[w] # "down"
  /\ pc' = [pc EXCEPT ![w] = "down"]
  /\ IF pc[w] = "publish" THEN MaybeSent(w) ELSE UNCHANGED sent
  /\ Release(w)
  /\ UNCHANGED <<status, left, tries>>

\* Started again: connect, declare the topology, poll.
Restart(w) ==
  /\ Goto(w, "down", "sleep")
  /\ UNCHANGED <<status, sent, holds, left, tries, faults>>
-----------------------------------------------------------------------------
Work(w) ==
  \/ Wake(w) \/ Claim(w) \/ EndBatch(w)
  \/ Publish(w) \/ MarkPublished(w) \/ MarkFailed(w)

Disturb(w) ==
  \/ RetryPublish(w) \/ GiveUp(w) \/ Abort(w)
  \/ MarkUnconfirmed(w) \/ Kill(w) \/ Restart(w)

Next ==
  \/ \E e \in Events : Record(e)
  \/ \E w \in Workers : Work(w) \/ Disturb(w)

\* The event loop of a running worker keeps scheduling its only task.
Fairness == \A w \in Workers : WF_vars(Work(w))

Spec == Init /\ [][Next]_vars /\ Fairness
-----------------------------------------------------------------------------
\* An event is only marked published after the broker was given its message,
\* whatever fails between the publish and the commit of the mark.
PublishedWasSent == \A e \in Events : status[e] = "published" => sent[e] > 0

\* Only an unreadable payload is given up, and it is never sent: no sequence of
\* transient errors moves a good event out of the publishers' reach.
OnlyInvalidFails ==
  \A e \in Events : /\ status[e] = "failed" => e \in Invalid
                    /\ e \in Invalid => sent[e] = 0

\* However many publishers poll, a message is published twice only where a
\* fault or a kill hit a publish: without faults the relay is exactly-once.
DuplicatesNeedFaults == \A e \in Events : sent[e] <= 1 + faults

\* While some publisher keeps running, a pending event is eventually settled:
\* no lock outlives its transaction and no event starves behind another.
PendingIsSettled ==
  []<>(\E w \in Workers : pc[w] # "down") =>
    \A e \in Events : status[e] = "pending" ~> status[e] \in {"published", "failed"}

\* The promise of the outbox, without workers.
Relay == INSTANCE OutboxRelay

RelayKept == Relay!Spec
=============================================================================
