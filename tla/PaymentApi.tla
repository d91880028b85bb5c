----------------------------- MODULE PaymentApi -----------------------------
(***************************************************************************)
(* Concurrent POST /api/v1/payments requests over one PostgreSQL database. *)
(*                                                                         *)
(* Each request is a coroutine with a transaction of its own, so every     *)
(* await in PaymentService.create_payment is a point where the others run. *)
(* A payment is named by the request that created it (its id is a fresh    *)
(* uuid4); an outbox row by the payment it is about (aggregate_id).        *)
(*                                                                         *)
(* The unique index on payments.idempotency_key is checked when the INSERT *)
(* is sent, that is in session.flush(): an entry of a transaction still    *)
(* open makes the statement wait, an entry of a committed one makes it     *)
(* raise IntegrityError.                                                   *)
(*                                                                         *)
(* Before its transaction a request is screened: body, API key, fields,    *)
(* key format and webhook URL, in the order FastAPI and the handler check  *)
(* them.  What can be wrong with a request is a set of flaws.              *)
(***************************************************************************)
EXTENDS Naturals, Sequences

CONSTANTS Requests,   \* the requests clients ever send, retries included
          Keys,       \* the values of the Idempotency-Key header
          NoKey,      \* a request that has not been sent
          NoPayment,  \* an answer that names no payment
          Inputs,     \* the sets of flaws requests come with
          MaxFaults   \* bound on database faults and process kills

Flaws == {"undecodable", "unparsable", "non_ascii", "api_key", "unserializable",
          "fields", "key_format", "webhook_url", "overflow"}

\* One check: the flaw it looks for and the status of what it raises.
Check(flaw, code) == [flaw |-> flaw, code |-> code]

\* FastAPI reads the body before any dependency runs.
parse_body == <<Check("undecodable", "400"), Check("unparsable", "422")>>

\* compare_digest raises a TypeError for a key that is not ASCII.
verify_api_key == <<Check("non_ascii", "500"), Check("api_key", "401")>>

\* The header and the schema of the body.  validation_exception_handler hands the
\* list of errors to JSONResponse, which cannot encode the ValueError of an amount
\* like "1.500", nor a NaN.
validate_request == <<Check("unserializable", "500"), Check("fields", "422")>>

validate_idempotency_key == <<Check("key_format", "422")>>

validate_webhook_url == <<Check("webhook_url", "422")>>

\* Mutant of Screening: the length and characters of the key not checked.
ScreeningWithoutKey ==
  parse_body \o verify_api_key \o validate_request \o validate_webhook_url

\* The checks in their order.
Screening ==
  parse_body \o verify_api_key \o validate_request
    \o validate_idempotency_key \o validate_webhook_url

\* Flaws that raise where nothing catches them: in a check, or in the INSERT (an
\* amount beyond Numeric(18, 2), a NaN in the metadata).
Raising == {"non_ascii", "unserializable", "overflow"}

ASSUME ApiAssumption ==
  /\ NoKey \notin Keys
  /\ NoPayment \notin Requests
  /\ Inputs \subseteq SUBSET Flaws
  /\ MaxFaults \in Nat

VARIABLES pc,        \* pc[r]: what create_payment awaits for request r
          key,       \* key[r]: its idempotency key
          flaws,     \* flaws[r]: what is wrong with it
          answer,    \* answer[r]: the status code, and the payment it names
          inserted,  \* payments INSERTed by transactions still open
          payments,  \* payments committed
          outbox,    \* outbox rows committed
          faults     \* database faults and kills so far

vars == <<pc, key, flaws, answer, inserted, payments, outbox, faults>>
request == <<key, flaws>>
database == <<inserted, payments, outbox>>

Awaits == {"select", "flush", "commit", "reselect", "refresh"}

\* An answer names a payment exactly when it is a 202.
Answers ==
  [code : {"202"}, payment : Requests]
    \cup [code : {"none", "400", "401", "422", "500", "lost"}, payment : {NoPayment}]

TypeOK ==
  /\ pc \in [Requests -> Awaits \cup {"unsent", "done"}]
  /\ key \in [Requests -> Keys \cup {NoKey}]
  /\ flaws \in [Requests -> SUBSET Flaws]
  /\ answer \in [Requests -> Answers]
  /\ inserted \subseteq Requests
  /\ payments \subseteq Requests
  /\ outbox \subseteq Requests
  /\ faults \in 0..MaxFaults

Init ==
  /\ pc = [r \in Requests |-> "unsent"]
  /\ key = [r \in Requests |-> NoKey]
  /\ flaws = [r \in Requests |-> {}]
  /\ answer = [r \in Requests |-> [code |-> "none", payment |-> NoPayment]]
  /\ inserted = {}
  /\ payments = {}
  /\ outbox = {}
  /\ faults = 0
-----------------------------------------------------------------------------
Goto(r, from, to) == pc[r] = from /\ pc' = [pc EXCEPT ![r] = to]

Reply(r, code, p) ==
  answer' = [answer EXCEPT ![r] = [code |-> code, payment |-> p]]

\* Mutant of SameKey: the SELECT without its WHERE.
AnyPayment(r) == payments

\* The rows SELECT ... WHERE idempotency_key = :key returns to request r.
SameKey(r) == {p \in payments : key[p] = key[r]}

\* GET /api/v1/payments/{payment_id}, which changes no state.
GetPayment(p) == IF p \in payments THEN "200" ELSE "404"

\* A request is stopped by the first check it fails: no database is asked.
Refuse(r) ==
  /\ Goto(r, "unsent", "done")
  /\ \E f \in Inputs, i \in DOMAIN Screening :
       /\ Screening[i].flaw \in f
       /\ \A j \in 1..(i - 1) : Screening[j].flaw \notin f
       /\ flaws' = [flaws EXCEPT ![r] = f]
       /\ Reply(r, Screening[i].code, NoPayment)
  /\ UNCHANGED <<key, database, faults>>

Receive(r) ==
  /\ Goto(r, "unsent", "select")
  /\ \E f \in Inputs, k \in Keys :
       /\ \A i \in DOMAIN Screening : Screening[i].flaw \notin f
       /\ flaws' = [flaws EXCEPT ![r] = f]
       /\ key' = [key EXCEPT ![r] = k]
  /\ UNCHANGED <<answer, database, faults>>

\* The early return for a key that is already taken.
SelectFound(r) ==
  /\ Goto(r, "select", "done")
  /\ \E p \in SameKey(r) : Reply(r, "202", p)
  /\ UNCHANGED <<request, database, faults>>

SelectNone(r) ==
  /\ SameKey(r) = {}
  /\ Goto(r, "select", "flush")
  /\ UNCHANGED <<request, answer, database, faults>>

\* No other open transaction holds an index entry for the key of r; while one
\* does, PostgreSQL keeps the INSERT of r waiting.
IndexFree(r) == \A p \in inserted : key[p] # key[r]

\* Mutant of Flush: no unique index on idempotency_key.
FlushWithoutIndex(r) ==
  /\ "overflow" \notin flaws[r]
  /\ Goto(r, "flush", "commit")
  /\ inserted' = inserted \cup {r}
  /\ UNCHANGED <<request, answer, payments, outbox, faults>>

\* Mutant of Flush: the commit forgotten, so the row goes with the session.
FlushWithoutCommit(r) ==
  /\ "overflow" \notin flaws[r]
  /\ IndexFree(r)
  /\ SameKey(r) = {}
  /\ Goto(r, "flush", "refresh")
  /\ UNCHANGED <<request, answer, database, faults>>

Flush(r) ==
  /\ "overflow" \notin flaws[r]
  /\ IndexFree(r)
  /\ SameKey(r) = {}
  /\ Goto(r, "flush", "commit")
  /\ inserted' = inserted \cup {r}
  /\ UNCHANGED <<request, answer, payments, outbox, faults>>

\* PostgreSQL refuses a value of the INSERT (the index has no room for a key as
\* long as a header can be), before it looks at the index.
FlushRejected(r) ==
  /\ flaws[r] \cap {"overflow", "key_format"} # {}
  /\ Goto(r, "flush", "done")
  /\ Reply(r, "500", NoPayment)
  /\ UNCHANGED <<request, database, faults>>

\* The IntegrityError of the unique index: the flush stands before the try, so
\* it leaves create_payment and becomes the generic 500.
FlushConflict(r) ==
  /\ "overflow" \notin flaws[r]
  /\ IndexFree(r)
  /\ SameKey(r) # {}
  /\ Goto(r, "flush", "done")
  /\ Reply(r, "500", NoPayment)
  /\ UNCHANGED <<request, database, faults>>

\* Mutant of Commit: the outbox row left to a later transaction.
CommitPaymentOnly(r) ==
  /\ Goto(r, "commit", "refresh")
  /\ inserted' = inserted \ {r}
  /\ payments' = payments \cup {r}
  /\ UNCHANGED <<request, answer, outbox, faults>>

\* Payment and outbox row become visible together.
Commit(r) ==
  /\ Goto(r, "commit", "refresh")
  /\ inserted' = inserted \ {r}
  /\ payments' = payments \cup {r}
  /\ outbox' = outbox \cup {r}
  /\ UNCHANGED <<request, answer, faults>>

Refresh(r) ==
  /\ Goto(r, "refresh", "done")
  /\ Reply(r, "202", r)
  /\ UNCHANGED <<request, database, faults>>

\* Mutant of Reselect: the second SELECT's result not checked for None.
ReselectUnchecked(r) ==
  /\ Goto(r, "reselect", "done")
  /\ IF SameKey(r) = {} THEN Reply(r, "202", NoPayment)
                        ELSE \E p \in SameKey(r) : Reply(r, "202", p)
  /\ UNCHANGED <<request, database, faults>>

\* After the rollback: the payment the key has by now, or the error goes up.
Reselect(r) ==
  /\ Goto(r, "reselect", "done")
  /\ IF SameKey(r) = {} THEN Reply(r, "500", NoPayment)
                        ELSE \E p \in SameKey(r) : Reply(r, "202", p)
  /\ UNCHANGED <<request, database, faults>>
-----------------------------------------------------------------------------
Fault == faults < MaxFaults /\ faults' = faults + 1

\* The commit itself is refused (the outbox INSERT it flushes violates a
\* constraint) and rolled back, which frees the index entry.
CommitRefused(r) ==
  /\ Fault
  /\ Goto(r, "commit", "reselect")
  /\ inserted' = inserted \ {r}
  /\ UNCHANGED <<request, answer, payments, outbox>>

\* Mutant of DatabaseError: the session is not closed, nothing is rolled back.
ErrorKeepsTransaction(r) ==
  /\ Fault
  /\ \E a \in Awaits : Goto(r, a, "done")
  /\ Reply(r, "500", NoPayment)
  /\ UNCHANGED <<request, database>>

\* Any other database error leaves create_payment; closing the session rolls
\* the open transaction back.
DatabaseError(r) ==
  /\ Fault
  /\ \E a \in Awaits : Goto(r, a, "done")
  /\ Reply(r, "500", NoPayment)
  /\ inserted' = inserted \ {r}
  /\ UNCHANGED <<request, payments, outbox>>

\* The commit took effect, but the connection broke before it was confirmed.
CommitUnconfirmed(r) ==
  /\ Fault
  /\ Goto(r, "commit", "done")
  /\ Reply(r, "500", NoPayment)
  /\ inserted' = inserted \ {r}
  /\ payments' = payments \cup {r}
  /\ outbox' = outbox \cup {r}
  /\ UNCHANGED request

\* The worker process is killed: PostgreSQL aborts what was not committed and
\* the client sees its connection close.
Kill(r) ==
  /\ Fault
  /\ \E a \in Awaits : Goto(r, a, "done")
  /\ Reply(r, "lost", NoPayment)
  /\ inserted' = inserted \ {r}
  /\ UNCHANGED <<request, payments, outbox>>
-----------------------------------------------------------------------------
Handle(r) ==
  \/ SelectFound(r) \/ SelectNone(r)
  \/ Flush(r) \/ FlushRejected(r) \/ FlushConflict(r)
  \/ Commit(r) \/ Refresh(r) \/ Reselect(r)

Disturb(r) ==
  CommitRefused(r) \/ DatabaseError(r) \/ CommitUnconfirmed(r) \/ Kill(r)

\* Every request has been answered.
Quiet == (\A r \in Requests : pc[r] = "done") /\ UNCHANGED vars

Next ==
  \/ \E r \in Requests : Refuse(r) \/ Receive(r) \/ Handle(r) \/ Disturb(r)
  \/ Quiet

\* The event loop and the database keep serving a request they have started.
Fairness == \A r \in Requests : WF_vars(Handle(r))

Spec == Init /\ [][Next]_vars /\ Fairness
-----------------------------------------------------------------------------
\* An idempotency key never gets a second payment, whatever the interleaving of
\* SELECT, INSERT and commit of the requests that carry it (unique index).
OnePaymentPerKey ==
  \A p, q \in payments : key[p] = key[q] => p = q

\* A client told 202 can GET the payment it was told about, that payment was
\* created for the client's key, and its payment.new event is in the outbox: no
\* answer is given before, or without, the commit that makes it true.
AcceptedIsDurable ==
  \A r \in Requests : answer[r].code = "202" =>
    LET p == answer[r].payment
    IN  GetPayment(p) = "200" /\ p \in outbox /\ key[p] = key[r]

\* ADR 0005, "the same key gives the same payment": two clients that are told of
\* a payment for one key are told of the same one, whichever path of
\* create_payment answered them.
AnswersAgree ==
  \A r, s \in Requests :
    /\ answer[r].code = "202" /\ answer[s].code = "202" /\ key[r] = key[s]
    => answer[r].payment = answer[s].payment

\* No payment is committed without its outbox event and no event without its
\* payment, under every error, kill and unconfirmed commit.
EventIffPayment == outbox = payments

\* Every request that is received is eventually answered or seen lost: the wait
\* for another transaction's index entry always ends.
RequestsAnswered ==
  \A r \in Requests : (pc[r] # "unsent") ~> (pc[r] = "done")

\* ADR 0005 and the README say the race of two requests with one key is handled:
\* unless the database or a process fails, no flawless request ends in a 500.
RaceIsHandled ==
  \A r \in Requests : answer[r].code = "500" /\ flaws[r] = {} => faults > 0

\* The 500s are the ones listed here: with no fault of the database or a
\* process, a request ends in one only if it carries a flaw that raises where
\* nothing catches it, or another request has taken its key meanwhile.  What the
\* checks of the handler let through, the INSERT can store.
ServerErrorsExplained ==
  \A r \in Requests : answer[r].code = "500" =>
    \/ faults > 0
    \/ flaws[r] \cap Raising # {}
    \/ \E p \in payments \ {r} : key[p] = key[r]

\* The promise, without transactions.
Promise == INSTANCE IdempotentCreate WITH
  asked <- key, registry <- payments, told <- [r \in Requests |-> answer[r].payment]

PromiseKept == Promise!Spec
=============================================================================
