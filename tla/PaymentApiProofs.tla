-------------------------- MODULE PaymentApiProofs --------------------------
(***************************************************************************)
(* Proofs about PaymentApi for any set of requests, any set of keys and    *)
(* any number of faults.                                                   *)
(*                                                                         *)
(* OnePaymentPerKey is not inductive: a second payment of a key could      *)
(* still be committed by a request that waits at its commit.  IInv says    *)
(* which rows such a request can hold (IndexEntriesUnique, HolderCommits)  *)
(* and that a request is only told about payments that are committed.      *)
(***************************************************************************)
EXTENDS PaymentApi, TLAPS

\* The index holds one entry per key over committed and open transactions.
IndexEntriesUnique ==
  \A p, q \in payments \cup inserted : key[p] = key[q] => p = q

\* Exactly the requests at their commit hold an uncommitted row, and a request
\* whose payment is committed has nothing left to write.
HolderCommits ==
  /\ \A r \in Requests : r \in inserted <=> pc[r] = "commit"
  /\ \A p \in payments : pc[p] \in {"refresh", "done"}
  /\ \A r \in Requests : pc[r] = "refresh" => r \in payments

\* A request has a key from its arrival on, and no answer before its end.
KeyedWhenSent ==
  \A r \in Requests :
    /\ pc[r] = "unsent" => key[r] = NoKey
    /\ pc[r] \in Awaits => key[r] \in Keys
    /\ pc[r] # "done" => answer[r].code = "none"

\* A 202 names a committed payment of the request's own key.
ToldOfOwnKey ==
  \A r \in Requests : answer[r].code = "202" =>
    answer[r].payment \in payments /\ key[answer[r].payment] = key[r]

IInv ==
  /\ TypeOK
  /\ IndexEntriesUnique
  /\ HolderCommits
  /\ KeyedWhenSent
  /\ ToldOfOwnKey
  /\ EventIffPayment
-----------------------------------------------------------------------------
\* What the screening answers: never a 202, and a 500 to raising flaws only.
LEMMA ScreeningCodes ==
  \A i \in DOMAIN Screening :
    /\ Screening[i].flaw \in Flaws
    /\ Screening[i].code \in {"400", "401", "422", "500"}
    /\ Screening[i].code = "500" => Screening[i].flaw \in Raising
BY DEF Screening, Flaws, Raising, Check, parse_body, verify_api_key, validate_request,
   validate_idempotency_key, validate_webhook_url

\* The key's format is among the checks.
LEMMA KeyFormatChecked ==
  \E i \in DOMAIN Screening : Screening[i].flaw = "key_format"
<1>1. 7 \in DOMAIN Screening /\ Screening[7].flaw = "key_format"
  BY DEF Screening, Check, parse_body, verify_api_key, validate_request,
     validate_idempotency_key, validate_webhook_url
<1>2. QED
  BY <1>1

\* The initial states satisfy the inductive invariant.
LEMMA InitIInv == Init => IInv
BY ApiAssumption DEF Init, IInv, TypeOK, Answers, Awaits, IndexEntriesUnique,
   HolderCommits, KeyedWhenSent, ToldOfOwnKey, EventIffPayment

\* Every step preserves it.  Only the INSERT adds an index entry, and its guard
\* is the index itself; the commit turns an open entry into a committed one, and
\* every other step leaves the entries alone or drops one.
LEMMA NextIInv == IInv /\ [Next]_vars => IInv'
<1> SUFFICES ASSUME IInv, [Next]_vars
             PROVE  IInv'
  OBVIOUS
<1> USE ApiAssumption DEF IInv, TypeOK, Answers, Awaits, IndexEntriesUnique,
    HolderCommits, KeyedWhenSent, ToldOfOwnKey, EventIffPayment, request
<1>1. ASSUME NEW r \in Requests, Refuse(r)
      PROVE  IInv'
  BY <1>1, ScreeningCodes DEF Refuse, Goto, Reply, database
<1>2. ASSUME NEW r \in Requests, Receive(r)
      PROVE  IInv'
  BY <1>2 DEF Receive, Goto, database
<1>3. ASSUME NEW r \in Requests, SelectFound(r)
      PROVE  IInv'
  BY <1>3 DEF SelectFound, Goto, Reply, SameKey, database
<1>4. ASSUME NEW r \in Requests, SelectNone(r)
      PROVE  IInv'
  BY <1>4 DEF SelectNone, Goto, database
<1>5. ASSUME NEW r \in Requests, Flush(r)
      PROVE  IInv'
  <2>1. TypeOK' /\ KeyedWhenSent' /\ ToldOfOwnKey' /\ EventIffPayment'
    BY <1>5 DEF Flush, Goto
  <2>2. IndexEntriesUnique'
    <3>1. \A p \in payments \cup inserted : key[p] # key[r]
      BY <1>5 DEF Flush, IndexFree, SameKey
    <3>2. QED
      BY <1>5, <3>1 DEF Flush
  <2>3. HolderCommits'
    BY <1>5 DEF Flush, Goto
  <2>4. QED
    BY <2>1, <2>2, <2>3
<1>6. ASSUME NEW r \in Requests, FlushConflict(r)
      PROVE  IInv'
  BY <1>6 DEF FlushConflict, Goto, Reply, database
<1>6a. ASSUME NEW r \in Requests, FlushRejected(r)
      PROVE  IInv'
  BY <1>6a DEF FlushRejected, Goto, Reply, database
<1>7. ASSUME NEW r \in Requests, Commit(r)
      PROVE  IInv'
  <2>1. TypeOK' /\ KeyedWhenSent' /\ ToldOfOwnKey' /\ EventIffPayment'
    BY <1>7 DEF Commit, Goto
  <2>2. IndexEntriesUnique'
    <3>1. r \in inserted
      BY <1>7 DEF Commit, Goto
    <3>2. (payments \cup inserted)' = payments \cup inserted
      BY <1>7, <3>1 DEF Commit
    <3>3. QED
      BY <1>7, <3>2 DEF Commit
  <2>3. HolderCommits'
    BY <1>7 DEF Commit, Goto
  <2>4. QED
    BY <2>1, <2>2, <2>3
<1>8. ASSUME NEW r \in Requests, Refresh(r)
      PROVE  IInv'
  BY <1>8 DEF Refresh, Goto, Reply, database
<1>9. ASSUME NEW r \in Requests, Reselect(r)
      PROVE  IInv'
  BY <1>9 DEF Reselect, Goto, Reply, SameKey, database
<1>10. ASSUME NEW r \in Requests, CommitRefused(r)
      PROVE  IInv'
  BY <1>10 DEF CommitRefused, Goto, Fault
<1>11. ASSUME NEW r \in Requests, DatabaseError(r)
      PROVE  IInv'
  BY <1>11 DEF DatabaseError, Goto, Reply, Fault
<1>12. ASSUME NEW r \in Requests, CommitUnconfirmed(r)
      PROVE  IInv'
  BY <1>12 DEF CommitUnconfirmed, Goto, Reply, Fault
<1>13. ASSUME NEW r \in Requests, Kill(r)
      PROVE  IInv'
  BY <1>13 DEF Kill, Goto, Reply, Fault
<1>14. CASE UNCHANGED vars
  BY <1>14 DEF vars
<1>15. QED
  BY <1>1, <1>2, <1>3, <1>4, <1>5, <1>6, <1>6a, <1>7, <1>8, <1>9, <1>10, <1>11, <1>12, <1>13, <1>14
  DEF Next, Handle, Disturb, Quiet

\* The inductive invariant holds in every reachable state.
THEOREM Invariance == Spec => []IInv
BY InitIInv, NextIInv, PTL DEF Spec

\* Types, for every value of the constants.
THEOREM TypeCorrect == Spec => []TypeOK
BY Invariance, PTL DEF IInv

\* No two committed payments share an idempotency key (create_payment with the
\* unique index), however many requests race for it.
THEOREM UniquePayment == Spec => []OnePaymentPerKey
<1>1. IInv => OnePaymentPerKey
  BY DEF IInv, IndexEntriesUnique, OnePaymentPerKey
<1>2. QED
  BY <1>1, Invariance, PTL

\* A 202 is never given before, or without, the commit that makes it true.
THEOREM DurableAnswer == Spec => []AcceptedIsDurable
<1>1. IInv => AcceptedIsDurable
  BY DEF IInv, ToldOfOwnKey, EventIffPayment, AcceptedIsDurable, GetPayment
<1>2. QED
  BY <1>1, Invariance, PTL

\* Two 202 answers for one key name the same payment.
THEOREM SameAnswer == Spec => []AnswersAgree
<1>1. IInv => AnswersAgree
  BY DEF IInv, ToldOfOwnKey, IndexEntriesUnique, AnswersAgree
<1>2. QED
  BY <1>1, Invariance, PTL

\* Payments and outbox events exist together or not at all.
THEOREM AtomicOutbox == Spec => []EventIffPayment
BY Invariance, PTL DEF IInv
-----------------------------------------------------------------------------
\* What is known of a request inside create_payment: the format of its key has
\* been checked, and only a fault sends it to the second SELECT.
ErrorInv ==
  /\ ServerErrorsExplained
  /\ \A r \in Requests :
       /\ pc[r] \in Awaits => "key_format" \notin flaws[r]
       /\ pc[r] = "reselect" => faults > 0

\* A step that changes no answer, or gives r one that is explained, keeps the
\* explanations: payments are never removed, nor keys and flaws changed.
LEMMA NextErrorInv == IInv /\ ErrorInv /\ [Next]_vars => ErrorInv'
<1> SUFFICES ASSUME IInv, ErrorInv, [Next]_vars
             PROVE  ErrorInv'
  OBVIOUS
<1> USE ApiAssumption DEF IInv, TypeOK, Answers, Awaits, HolderCommits, KeyedWhenSent,
    ErrorInv, ServerErrorsExplained, Goto, request, database
<1>1. ASSUME NEW r \in Requests, Refuse(r)
      PROVE  ErrorInv'
  <2>1. PICK f \in Inputs, i \in DOMAIN Screening :
          /\ Screening[i].flaw \in f
          /\ flaws' = [flaws EXCEPT ![r] = f]
          /\ Reply(r, Screening[i].code, NoPayment)
    BY <1>1 DEF Refuse
  <2>2. Screening[i].code = "500" => f \cap Raising # {}
    BY <2>1, ScreeningCodes
  <2>3. f \in SUBSET Flaws
    BY <2>1
  <2>4. QED
    BY <1>1, <2>1, <2>2, <2>3 DEF Refuse, Reply
<1>2. ASSUME NEW r \in Requests, Receive(r)
      PROVE  ErrorInv'
  <2>1. PICK f \in Inputs, k \in Keys :
          /\ \A i \in DOMAIN Screening : Screening[i].flaw \notin f
          /\ flaws' = [flaws EXCEPT ![r] = f]
          /\ key' = [key EXCEPT ![r] = k]
    BY <1>2 DEF Receive
  <2>2. "key_format" \notin f
    BY <2>1, KeyFormatChecked
  <2>3. r \notin payments
    BY <1>2 DEF Receive
  <2>4. answer[r].code = "none"
    BY <1>2 DEF Receive
  <2>5. QED
    BY <1>2, <2>1, <2>2, <2>3, <2>4 DEF Receive
<1>3. ASSUME NEW r \in Requests, SelectFound(r) \/ SelectNone(r) \/ Refresh(r)
      PROVE  ErrorInv'
  BY <1>3 DEF SelectFound, SelectNone, Refresh, Reply
<1>4. ASSUME NEW r \in Requests, Flush(r) \/ Commit(r)
      PROVE  ErrorInv'
  BY <1>4 DEF Flush, Commit
<1>5. ASSUME NEW r \in Requests, FlushRejected(r) \/ FlushConflict(r)
      PROVE  ErrorInv'
  BY <1>5 DEF FlushRejected, FlushConflict, SameKey, Reply, Raising
<1>6. ASSUME NEW r \in Requests, Reselect(r)
      PROVE  ErrorInv'
  BY <1>6 DEF Reselect, Reply
<1>7. ASSUME NEW r \in Requests, Disturb(r)
      PROVE  ErrorInv'
  <2>1. faults' > 0 /\ UNCHANGED request
    BY <1>7 DEF Disturb, CommitRefused, DatabaseError, CommitUnconfirmed, Kill, Fault
  <2>2. pc'[r] \in {"done", "reselect"} /\ pc[r] \in Awaits
    BY <1>7 DEF Disturb, CommitRefused, DatabaseError, CommitUnconfirmed, Kill
  <2>3. \A q \in Requests \ {r} : pc'[q] = pc[q]
    BY <1>7 DEF Disturb, CommitRefused, DatabaseError, CommitUnconfirmed, Kill
  <2>4. QED
    BY <2>1, <2>2, <2>3
<1>8. CASE UNCHANGED vars
  BY <1>8 DEF vars
<1>9. QED
  BY <1>1, <1>2, <1>3, <1>4, <1>5, <1>6, <1>7, <1>8 DEF Next, Handle, Quiet

\* A 500 of POST /payments has one of the known causes, whatever the requests,
\* their flaws and their interleaving.
THEOREM ExplainedErrors == Spec => []ServerErrorsExplained
<1>1. Init => ErrorInv
  BY DEF Init, ErrorInv, ServerErrorsExplained, Awaits
<1>2. ErrorInv => ServerErrorsExplained
  BY DEF ErrorInv
<1>3. QED
  BY <1>1, <1>2, NextErrorInv, Invariance, PTL DEF Spec
-----------------------------------------------------------------------------
\* The registry of the promise grows at the commit only, and a request is told
\* of a payment at the step that gives its 202; all other steps stutter.
LEMMA StepKeepsPromise == IInv /\ [Next]_vars => [Promise!Next]_(Promise!vars)
<1> SUFFICES ASSUME IInv, [Next]_vars
             PROVE  [Promise!Next]_(Promise!vars)
  OBVIOUS
<1> USE ApiAssumption DEF IInv, TypeOK, Answers, Awaits, KeyedWhenSent, ToldOfOwnKey,
    Promise!vars, request
<1>1. ASSUME NEW r \in Requests, Receive(r)
      PROVE  Promise!Next
  <2>1. Promise!Ask(r)
    BY <1>1 DEF Receive, Goto, database, Promise!Ask
  <2>2. QED
    BY <2>1 DEF Promise!Next
<1>2. ASSUME NEW r \in Requests, Commit(r) \/ CommitUnconfirmed(r)
      PROVE  Promise!Next
  <2>1. r \in inserted /\ key[r] # NoKey
    BY <1>2 DEF Commit, CommitUnconfirmed, Goto, HolderCommits
  <2>2. \A p \in payments : key[p] # key[r]
    BY <2>1, <1>2 DEF Commit, CommitUnconfirmed, Goto, HolderCommits, IndexEntriesUnique
  <2>3. [q \in Requests |-> answer[q].payment]' = [q \in Requests |-> answer[q].payment]
    BY <1>2 DEF Commit, CommitUnconfirmed, Goto, Reply
  <2>4. Promise!Register(r)
    BY <2>1, <2>2, <2>3, <1>2 DEF Commit, CommitUnconfirmed, Promise!Register
  <2>5. QED
    BY <2>4 DEF Promise!Next
<1>3. ASSUME NEW r \in Requests, NEW p \in SameKey(r),
             answer[r].code = "none", Reply(r, "202", p), UNCHANGED <<key, payments>>
      PROVE  Promise!Next
  <2> DEFINE told == [q \in Requests |-> answer[q].payment]
  <2>1. told[r] = NoPayment
    BY <1>3
  <2>2. told' = [told EXCEPT ![r] = p]
    BY <1>3 DEF Reply
  <2>3. p \in payments /\ key[p] = key[r]
    BY <1>3 DEF SameKey
  <2>4. Promise!Tell(r)
    BY <1>3, <2>1, <2>2, <2>3 DEF Promise!Tell
  <2>5. QED
    BY <2>4 DEF Promise!Next
<1>4. ASSUME NEW r \in Requests, SelectFound(r) \/ Refresh(r) \/ Reselect(r)
      PROVE  [Promise!Next]_(Promise!vars)
  <2>1. CASE SelectFound(r)
    BY <1>3, <2>1 DEF SelectFound, Goto, database
  <2>2. CASE Refresh(r)
    <3>1. r \in SameKey(r) /\ answer[r].code = "none"
      BY <2>2 DEF Refresh, Goto, SameKey, HolderCommits
    <3>2. QED
      BY <1>3, <2>2, <3>1 DEF Refresh, database
  <2>3. CASE Reselect(r)
    <3>1. CASE SameKey(r) = {}
      BY <2>3, <3>1 DEF Reselect, Goto, Reply, database
    <3>2. CASE SameKey(r) # {}
      BY <1>3, <2>3, <3>2 DEF Reselect, Goto, database
    <3>3. QED
      BY <3>1, <3>2
  <2>4. QED
    BY <1>4, <2>1, <2>2, <2>3
<1>5. ASSUME NEW r \in Requests,
             \/ Refuse(r) \/ SelectNone(r) \/ Flush(r) \/ FlushRejected(r) \/ FlushConflict(r)
             \/ CommitRefused(r) \/ DatabaseError(r) \/ Kill(r)
      PROVE  UNCHANGED Promise!vars
  BY <1>5 DEF Refuse, SelectNone, Flush, FlushRejected, FlushConflict, CommitRefused, DatabaseError,
     Kill, Goto, Reply, database
<1>6. CASE UNCHANGED vars
  BY <1>6 DEF vars
<1>7. QED
  BY <1>1, <1>2, <1>4, <1>5, <1>6 DEF Next, Handle, Disturb, Quiet

\* create_payment, with its transactions, races and failures, implements the
\* promise of an idempotent creation.
THEOREM KeepsPromise == Spec => PromiseKept
<1>1. Init => Promise!Init
  BY DEF Init, Promise!Init
<1>2. QED
  BY <1>1, Invariance, StepKeepsPromise, PTL DEF Spec, PromiseKept, Promise!Spec
=============================================================================
