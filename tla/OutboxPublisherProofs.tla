------------------------ MODULE OutboxPublisherProofs ------------------------
(***************************************************************************)
(* Proofs about OutboxPublisher for any number of workers, events,         *)
(* attempts and faults and any batch size.                                 *)
(*                                                                         *)
(* DuplicatesNeedFaults needs the row lock: the message a worker is about  *)
(* to mark is the one send not yet paid for by a fault, and at most one    *)
(* worker can be about to mark an event (LockExclusive).                   *)
(***************************************************************************)
EXTENDS OutboxPublisher, TLAPS

\* A worker holds a row exactly while its transaction is open, and it opens one
\* only inside an iteration of its batch.
HoldsInTransaction ==
  \A w \in Workers : /\ holds[w] # NoEvent <=> pc[w] \in Holding
                     /\ pc[w] \in Holding => left[w] > 0

\* FOR UPDATE SKIP LOCKED: a row has at most one holder.
LockExclusive ==
  \A w, x \in Workers : holds[w] # NoEvent /\ holds[w] = holds[x] => w = x

\* What the holder of a row knows about it.
Knows(w) ==
  /\ pc[w] \in Holding => status[holds[w]] = "pending"
  /\ pc[w] \in {"publish", "mark_published"} => holds[w] \notin Invalid
  /\ pc[w] = "mark_published" => sent[holds[w]] > 0
  /\ pc[w] = "mark_failed" => holds[w] \in Invalid

HolderKnows == \A w \in Workers : Knows(w)

\* The send a worker is about to record, or has recorded, is the only one that
\* no fault accounts for.
SendsAccounted ==
  \A e \in Events :
    \/ sent[e] <= faults
    \/ /\ sent[e] <= faults + 1
       /\ \/ status[e] = "published"
          \/ \E w \in Workers : holds[w] = e /\ pc[w] = "mark_published"

IInv ==
  /\ TypeOK
  /\ HoldsInTransaction
  /\ LockExclusive
  /\ HolderKnows
  /\ SendsAccounted
  /\ PublishedWasSent
  /\ OnlyInvalidFails
-----------------------------------------------------------------------------
\* The initial states satisfy the inductive invariant.
LEMMA InitIInv == Init => IInv
BY PublisherAssumption DEF Init, IInv, TypeOK, Statuses, Holding,
   HoldsInTransaction,
   LockExclusive, HolderKnows, Knows, SendsAccounted, PublishedWasSent,
   OnlyInvalidFails

\* A step that sends, marks and fails nothing keeps the account of the sends, if
\* who is about to record one still is.
LEMMA SendsKept ==
  ASSUME SendsAccounted,
         UNCHANGED <<sent, status, faults>>,
         \A x \in Workers : pc[x] = "mark_published" =>
           pc'[x] = "mark_published" /\ holds'[x] = holds[x]
  PROVE  SendsAccounted'
<1> SUFFICES ASSUME NEW e \in Events
             PROVE  \/ sent[e] <= faults
                    \/ /\ sent[e] <= faults + 1
                       /\ \/ status[e] = "published"
                          \/ \E w \in Workers : holds'[w] = e /\ pc'[w] = "mark_published"
  BY DEF SendsAccounted
<1>1. CASE sent[e] <= faults
  BY <1>1
<1>2. CASE sent[e] <= faults + 1 /\ status[e] = "published"
  BY <1>2
<1>3. CASE /\ sent[e] <= faults + 1
           /\ \E w \in Workers : holds[w] = e /\ pc[w] = "mark_published"
  BY <1>3, Zenon
<1>4. QED
  BY <1>1, <1>2, <1>3, Zenon DEF SendsAccounted

\* Every step preserves it.
LEMMA NextIInv == IInv /\ [Next]_vars => IInv'
<1> SUFFICES ASSUME IInv, [Next]_vars
             PROVE  IInv'
  OBVIOUS
<1> USE PublisherAssumption DEF IInv, TypeOK, Statuses, Holding, HoldsInTransaction,
    LockExclusive
<1>1. ASSUME NEW e \in Events, Record(e)
      PROVE  IInv'
  BY <1>1 DEF Record, SetStatus, HolderKnows, Knows, SendsAccounted,
     PublishedWasSent,
     OnlyInvalidFails
<1>2. ASSUME NEW w \in Workers, Wake(w)
      PROVE  IInv'
  BY <1>2 DEF Wake, Goto, HolderKnows, Knows,
     SendsAccounted, PublishedWasSent, OnlyInvalidFails
<1>3. ASSUME NEW w \in Workers, Claim(w)
      PROVE  IInv'
  <2>1. TypeOK'
    BY <1>3 DEF Claim, Goto, Oldest, Claimable, Locked
  <2>2. HoldsInTransaction' /\ LockExclusive'
    BY <1>3 DEF Claim, Goto, Oldest, Claimable, Locked
  <2>3. HolderKnows'
    <3> SUFFICES ASSUME NEW x \in Workers
                 PROVE  Knows(x)'
      BY DEF HolderKnows
    <3>1. CASE x = w
      BY <3>1, <1>3 DEF Claim, Goto, Oldest, Claimable, Locked, Knows
    <3>2. CASE x # w
      <4>1. Knows(x) /\ (pc[x] \in Holding => holds[x] \in Events /\ holds[x] # holds[w])
        BY <3>2 DEF HolderKnows
      <4>2. pc'[x] = pc[x] /\ holds'[x] = holds[x]
        BY <3>2, <1>3 DEF Claim, Goto, Oldest, Claimable, Locked
      <4>3. QED
        BY <4>1, <4>2, <1>3 DEF Claim, Goto, Oldest, Claimable, Locked, Knows
    <3>3. QED
      BY <3>1, <3>2
  <2>4. SendsAccounted'
    <3>1. \A x \in Workers : pc[x] = "mark_published" =>
            pc'[x] = "mark_published" /\ holds'[x] = holds[x]
      BY <1>3 DEF Claim, Goto
    <3>2. UNCHANGED <<sent, status, faults>>
      BY <1>3 DEF Claim
    <3>3. QED
      BY <3>1, <3>2, SendsKept DEF IInv
  <2>5. PublishedWasSent' /\ OnlyInvalidFails'
    BY <1>3 DEF Claim, Goto, Oldest, Claimable, Locked, Knows, HolderKnows,
       PublishedWasSent, OnlyInvalidFails
  <2>6. QED
    BY <2>1, <2>2, <2>3, <2>4, <2>5
<1>4. ASSUME NEW w \in Workers, EndBatch(w)
      PROVE  IInv'
  BY <1>4 DEF EndBatch, Goto, HolderKnows, Knows,
     SendsAccounted, PublishedWasSent, OnlyInvalidFails
<1>5. ASSUME NEW w \in Workers, Publish(w)
      PROVE  IInv'
  <2>0. holds[w] \in Events /\ left[w] > 0 /\ Knows(w)
    BY <1>5 DEF Publish, Goto, HolderKnows
  <2>1. TypeOK'
    <3>1. sent[holds[w]] + 1 \in Nat
      <4>1. sent[holds[w]] \in Nat
        BY <2>0
      <4>2. QED
        BY <4>1
    <3>2. sent' \in [Events -> Nat]
      BY <3>1, <1>5 DEF Publish
    <3>3. QED
      BY <3>2, <1>5 DEF Publish, Goto
  <2>2. HoldsInTransaction' /\ LockExclusive'
    BY <2>0, <1>5 DEF Publish, Goto
  <2>3. HolderKnows'
    <3> SUFFICES ASSUME NEW x \in Workers
                 PROVE  Knows(x)'
      BY DEF HolderKnows
    <3>1. CASE x = w
      <4>1. sent[holds[w]] \in Nat /\ sent'[holds[w]] = sent[holds[w]] + 1
        BY <2>0, <1>5 DEF Publish
      <4>2. sent'[holds[w]] > 0
        BY <4>1
      <4>3. QED
        BY <2>0, <3>1, <4>2, <1>5 DEF Publish, Goto, Knows
    <3>2. CASE x # w
      <4>1. Knows(x) /\ (pc[x] \in Holding => holds[x] \in Events /\ holds[x] # holds[w])
        BY <3>2 DEF HolderKnows
      <4>2. pc'[x] = pc[x] /\ holds'[x] = holds[x]
        BY <3>2, <1>5 DEF Publish, Goto
      <4>3. QED
        BY <2>0, <4>1, <4>2, <1>5 DEF Publish, Goto, Knows
    <3>3. QED
      BY <3>1, <3>2
  <2>4. SendsAccounted'
    BY <2>0, <1>5 DEF Publish, Goto, Knows, SendsAccounted
  <2>5. PublishedWasSent' /\ OnlyInvalidFails'
    BY <2>0, <1>5 DEF Publish, Goto, Knows, HolderKnows, PublishedWasSent,
       OnlyInvalidFails
  <2>6. QED
    BY <2>1, <2>2, <2>3, <2>4, <2>5
<1>6. ASSUME NEW w \in Workers, MarkPublished(w)
      PROVE  IInv'
  <2>0. holds[w] \in Events /\ left[w] > 0 /\ Knows(w)
    BY <1>6 DEF MarkPublished, Goto, HolderKnows
  <2>1. TypeOK'
    BY <2>0, <1>6 DEF MarkPublished, Goto, SetStatus, Release, UseIteration
  <2>2. HoldsInTransaction' /\ LockExclusive'
    BY <2>0, <1>6 DEF MarkPublished, Goto, SetStatus, Release, UseIteration
  <2>3. HolderKnows'
    <3> SUFFICES ASSUME NEW x \in Workers
                 PROVE  Knows(x)'
      BY DEF HolderKnows
    <3>1. CASE x = w
      BY <2>0, <3>1, <1>6 DEF MarkPublished, Goto, SetStatus, Release,
         UseIteration, Knows
    <3>2. CASE x # w
      <4>1. Knows(x) /\ (pc[x] \in Holding => holds[x] \in Events /\ holds[x] # holds[w])
        BY <3>2 DEF HolderKnows
      <4>2. pc'[x] = pc[x] /\ holds'[x] = holds[x]
        BY <3>2, <1>6 DEF MarkPublished, Goto, SetStatus, Release, UseIteration
      <4>3. QED
        BY <2>0, <4>1, <4>2, <1>6 DEF MarkPublished, Goto, SetStatus,
           Release, UseIteration, Knows
    <3>3. QED
      BY <3>1, <3>2
  <2>4. SendsAccounted'
    BY <2>0, <1>6 DEF MarkPublished, Goto, SetStatus, Release, UseIteration,
       Knows, SendsAccounted
  <2>5. PublishedWasSent' /\ OnlyInvalidFails'
    BY <2>0, <1>6 DEF MarkPublished, Goto, SetStatus, Release, UseIteration,
       Knows, HolderKnows, PublishedWasSent, OnlyInvalidFails
  <2>6. QED
    BY <2>1, <2>2, <2>3, <2>4, <2>5
<1>7. ASSUME NEW w \in Workers, MarkFailed(w)
      PROVE  IInv'
  <2>0. holds[w] \in Events /\ left[w] > 0 /\ Knows(w)
    BY <1>7 DEF MarkFailed, Goto, HolderKnows
  <2>1. TypeOK'
    BY <2>0, <1>7 DEF MarkFailed, Goto, SetStatus, Release, UseIteration
  <2>2. HoldsInTransaction' /\ LockExclusive'
    BY <2>0, <1>7 DEF MarkFailed, Goto, SetStatus, Release, UseIteration
  <2>3. HolderKnows'
    <3> SUFFICES ASSUME NEW x \in Workers
                 PROVE  Knows(x)'
      BY DEF HolderKnows
    <3>1. CASE x = w
      BY <2>0, <3>1, <1>7 DEF MarkFailed, Goto, SetStatus, Release,
         UseIteration, Knows
    <3>2. CASE x # w
      <4>1. Knows(x) /\ (pc[x] \in Holding => holds[x] \in Events /\ holds[x] # holds[w])
        BY <3>2 DEF HolderKnows
      <4>2. pc'[x] = pc[x] /\ holds'[x] = holds[x]
        BY <3>2, <1>7 DEF MarkFailed, Goto, SetStatus, Release, UseIteration
      <4>3. QED
        BY <2>0, <4>1, <4>2, <1>7 DEF MarkFailed, Goto, SetStatus,
           Release, UseIteration, Knows
    <3>3. QED
      BY <3>1, <3>2
  <2>4. SendsAccounted'
    BY <2>0, <1>7 DEF MarkFailed, Goto, SetStatus, Release, UseIteration,
       Knows, SendsAccounted
  <2>5. PublishedWasSent' /\ OnlyInvalidFails'
    BY <2>0, <1>7 DEF MarkFailed, Goto, SetStatus, Release, UseIteration,
       Knows, HolderKnows, PublishedWasSent, OnlyInvalidFails
  <2>6. QED
    BY <2>1, <2>2, <2>3, <2>4, <2>5
<1>8. ASSUME NEW w \in Workers, RetryPublish(w)
      PROVE  IInv'
  <2>0. holds[w] \in Events /\ left[w] > 0 /\ Knows(w)
    BY <1>8 DEF RetryPublish, Goto, HolderKnows
  <2>1. TypeOK'
    BY <2>0, <1>8 DEF RetryPublish, Goto, Fault, MaybeSent
  <2>2. HoldsInTransaction' /\ LockExclusive'
    BY <2>0, <1>8 DEF RetryPublish, Goto, Fault, MaybeSent
  <2>3. HolderKnows'
    <3> SUFFICES ASSUME NEW x \in Workers
                 PROVE  Knows(x)'
      BY DEF HolderKnows
    <3>1. CASE x = w
      BY <2>0, <3>1, <1>8 DEF RetryPublish, Goto, Fault, MaybeSent, Knows
    <3>2. CASE x # w
      <4>1. Knows(x) /\ (pc[x] \in Holding => holds[x] \in Events /\ holds[x] # holds[w])
        BY <3>2 DEF HolderKnows
      <4>2. pc'[x] = pc[x] /\ holds'[x] = holds[x]
        BY <3>2, <1>8 DEF RetryPublish, Goto, Fault, MaybeSent
      <4>3. QED
        BY <2>0, <4>1, <4>2, <1>8 DEF RetryPublish, Goto, Fault, MaybeSent, Knows
    <3>3. QED
      BY <3>1, <3>2
  <2>4. SendsAccounted'
    BY <2>0, <1>8 DEF RetryPublish, Goto, Fault, MaybeSent, Knows, SendsAccounted
  <2>5. PublishedWasSent' /\ OnlyInvalidFails'
    BY <2>0, <1>8 DEF RetryPublish, Goto, Fault, MaybeSent, Knows,
       HolderKnows, PublishedWasSent, OnlyInvalidFails
  <2>6. QED
    BY <2>1, <2>2, <2>3, <2>4, <2>5
<1>9. ASSUME NEW w \in Workers, GiveUp(w)
      PROVE  IInv'
  <2>0. holds[w] \in Events /\ left[w] > 0 /\ Knows(w)
    BY <1>9 DEF GiveUp, Goto, HolderKnows
  <2>1. TypeOK'
    BY <2>0, <1>9 DEF GiveUp, Goto, Fault, MaybeSent, Release, UseIteration
  <2>2. HoldsInTransaction' /\ LockExclusive'
    BY <2>0, <1>9 DEF GiveUp, Goto, Fault, MaybeSent, Release, UseIteration
  <2>3. HolderKnows'
    <3> SUFFICES ASSUME NEW x \in Workers
                 PROVE  Knows(x)'
      BY DEF HolderKnows
    <3>1. CASE x = w
      BY <2>0, <3>1, <1>9 DEF GiveUp, Goto, Fault, MaybeSent, Release,
         UseIteration, Knows
    <3>2. CASE x # w
      <4>1. Knows(x) /\ (pc[x] \in Holding => holds[x] \in Events /\ holds[x] # holds[w])
        BY <3>2 DEF HolderKnows
      <4>2. pc'[x] = pc[x] /\ holds'[x] = holds[x]
        BY <3>2, <1>9 DEF GiveUp, Goto, Fault, MaybeSent, Release, UseIteration
      <4>3. QED
        BY <2>0, <4>1, <4>2, <1>9 DEF GiveUp, Goto, Fault, MaybeSent,
           Release, UseIteration, Knows
    <3>3. QED
      BY <3>1, <3>2
  <2>4. SendsAccounted'
    BY <2>0, <1>9 DEF GiveUp, Goto, Fault, MaybeSent, Release, UseIteration,
       Knows, SendsAccounted
  <2>5. PublishedWasSent' /\ OnlyInvalidFails'
    BY <2>0, <1>9 DEF GiveUp, Goto, Fault, MaybeSent, Release, UseIteration,
       Knows, HolderKnows, PublishedWasSent, OnlyInvalidFails
  <2>6. QED
    BY <2>1, <2>2, <2>3, <2>4, <2>5
<1>10. ASSUME NEW w \in Workers, Abort(w)
      PROVE  IInv'
  <2>1. TypeOK'
    BY <1>10 DEF Abort, Goto, Fault, Release
  <2>2. HoldsInTransaction' /\ LockExclusive'
    BY <1>10 DEF Abort, Goto, Fault, Release
  <2>3. HolderKnows'
    <3> SUFFICES ASSUME NEW x \in Workers
                 PROVE  Knows(x)'
      BY DEF HolderKnows
    <3>1. CASE x = w
      BY <3>1, <1>10 DEF Abort, Goto, Fault, Release, Knows
    <3>2. CASE x # w
      <4>1. Knows(x) /\ (pc[x] \in Holding => holds[x] \in Events /\ holds[x] # holds[w])
        BY <3>2 DEF HolderKnows
      <4>2. pc'[x] = pc[x] /\ holds'[x] = holds[x]
        BY <3>2, <1>10 DEF Abort, Goto, Fault, Release
      <4>3. QED
        BY <4>1, <4>2, <1>10 DEF Abort, Goto, Fault, Release, Knows
    <3>3. QED
      BY <3>1, <3>2
  <2>4. SendsAccounted'
    BY <1>10 DEF Abort, Goto, Fault, Release, Knows, SendsAccounted
  <2>5. PublishedWasSent' /\ OnlyInvalidFails'
    BY <1>10 DEF Abort, Goto, Fault, Release, Knows, HolderKnows,
       PublishedWasSent, OnlyInvalidFails
  <2>6. QED
    BY <2>1, <2>2, <2>3, <2>4, <2>5
<1>11. ASSUME NEW w \in Workers, MarkUnconfirmed(w)
      PROVE  IInv'
  <2>0. holds[w] \in Events /\ left[w] > 0 /\ Knows(w)
    BY <1>11 DEF MarkUnconfirmed, Goto, HolderKnows
  <2>1. TypeOK'
    BY <2>0, <1>11 DEF MarkUnconfirmed, Goto, Fault, SetStatus, Release
  <2>2. HoldsInTransaction' /\ LockExclusive'
    BY <2>0, <1>11 DEF MarkUnconfirmed, Goto, Fault, SetStatus, Release
  <2>3. HolderKnows'
    <3> SUFFICES ASSUME NEW x \in Workers
                 PROVE  Knows(x)'
      BY DEF HolderKnows
    <3>1. CASE x = w
      BY <2>0, <3>1, <1>11 DEF MarkUnconfirmed, Goto, Fault, SetStatus,
         Release, Knows
    <3>2. CASE x # w
      <4>1. Knows(x) /\ (pc[x] \in Holding => holds[x] \in Events /\ holds[x] # holds[w])
        BY <3>2 DEF HolderKnows
      <4>2. pc'[x] = pc[x] /\ holds'[x] = holds[x]
        BY <3>2, <1>11 DEF MarkUnconfirmed, Goto, Fault, SetStatus, Release
      <4>3. QED
        BY <2>0, <4>1, <4>2, <1>11 DEF MarkUnconfirmed, Goto, Fault,
           SetStatus, Release, Knows
    <3>3. QED
      BY <3>1, <3>2
  <2>4. SendsAccounted'
    BY <2>0, <1>11 DEF MarkUnconfirmed, Goto, Fault, SetStatus, Release,
       Knows, SendsAccounted
  <2>5. PublishedWasSent' /\ OnlyInvalidFails'
    BY <2>0, <1>11 DEF MarkUnconfirmed, Goto, Fault, SetStatus, Release,
       Knows, HolderKnows, PublishedWasSent, OnlyInvalidFails
  <2>6. QED
    BY <2>1, <2>2, <2>3, <2>4, <2>5
<1>12. ASSUME NEW w \in Workers, Kill(w)
      PROVE  IInv'
  <2>1. TypeOK'
    BY <1>12 DEF Kill, Fault, MaybeSent, Release
  <2>2. HoldsInTransaction' /\ LockExclusive'
    BY <1>12 DEF Kill, Fault, MaybeSent, Release
  <2>3. HolderKnows'
    <3> SUFFICES ASSUME NEW x \in Workers
                 PROVE  Knows(x)'
      BY DEF HolderKnows
    <3>1. CASE x = w
      BY <3>1, <1>12 DEF Kill, Fault, MaybeSent, Release, Knows
    <3>2. CASE x # w
      <4>1. Knows(x) /\ (pc[x] \in Holding => holds[x] \in Events /\ holds[x] # holds[w])
        BY <3>2 DEF HolderKnows
      <4>2. pc'[x] = pc[x] /\ holds'[x] = holds[x]
        BY <3>2, <1>12 DEF Kill, Fault, MaybeSent, Release
      <4>3. QED
        BY <4>1, <4>2, <1>12 DEF Kill, Fault, MaybeSent, Release, Knows
    <3>3. QED
      BY <3>1, <3>2
  <2>4. SendsAccounted'
    BY <1>12 DEF Kill, Fault, MaybeSent, Release, Knows, SendsAccounted
  <2>5. PublishedWasSent' /\ OnlyInvalidFails'
    BY <1>12 DEF Kill, Fault, MaybeSent, Release, Knows, HolderKnows,
       PublishedWasSent, OnlyInvalidFails
  <2>6. QED
    BY <2>1, <2>2, <2>3, <2>4, <2>5
<1>13. ASSUME NEW w \in Workers, Restart(w)
      PROVE  IInv'
  BY <1>13 DEF Restart, Goto, HolderKnows, Knows,
     SendsAccounted, PublishedWasSent, OnlyInvalidFails
<1>14. CASE UNCHANGED vars
  BY <1>14 DEF vars, HolderKnows, Knows, SendsAccounted, PublishedWasSent,
     OnlyInvalidFails
<1>15. QED
  BY <1>1, <1>2, <1>3, <1>4, <1>5, <1>6, <1>7, <1>8, <1>9, <1>10, <1>11, <1>12, <1>13, <1>14
  DEF Next, Work, Disturb

\* The inductive invariant holds in every reachable state.
THEOREM Invariance == Spec => []IInv
BY InitIInv, NextIInv, PTL DEF Spec

\* Types, for every value of the constants.
THEOREM TypeCorrect == Spec => []TypeOK
BY Invariance, PTL DEF IInv

\* No event is marked published that the broker was not given.
THEOREM NothingUnsentIsPublished == Spec => []PublishedWasSent
BY Invariance, PTL DEF IInv

\* No transient error, however often repeated, gives a readable event up.
THEOREM NoGoodEventGivenUp == Spec => []OnlyInvalidFails
BY Invariance, PTL DEF IInv

\* Every message beyond the first of an event is paid for by a fault, for any
\* number of publishers polling one table.
THEOREM DuplicatesAccounted == Spec => []DuplicatesNeedFaults
<1>1. IInv => DuplicatesNeedFaults
  <2> SUFFICES ASSUME IInv, NEW e \in Events
               PROVE  sent[e] <= 1 + faults
    BY DEF DuplicatesNeedFaults
  <2>1. sent[e] \in Nat /\ faults \in Nat
    BY PublisherAssumption DEF IInv, TypeOK
  <2>2. sent[e] <= faults \/ sent[e] <= faults + 1
    BY DEF IInv, SendsAccounted
  <2>3. QED
    BY <2>1, <2>2
<1>2. QED
  BY <1>1, Invariance, PTL
-----------------------------------------------------------------------------
\* Each message handed to the broker is a Send of the relay, each committed mark
\* a Settle or a Discard; everything the workers do besides is a stutter.
LEMMA StepKeepsRelay == IInv /\ [Next]_vars => [Relay!Next]_(Relay!vars)
<1> SUFFICES ASSUME IInv, [Next]_vars
             PROVE  [Relay!Next]_(Relay!vars)
  OBVIOUS
<1> USE PublisherAssumption DEF IInv, TypeOK, Holding, HoldsInTransaction, HolderKnows,
    Knows, Relay!vars
<1>1. ASSUME NEW e \in Events, Record(e)
      PROVE  Relay!Next
  BY <1>1 DEF Record, SetStatus, Relay!Next, Relay!Add, Relay!Move
<1>2. ASSUME NEW w \in Workers, pc[w] = "publish",
             sent' = [sent EXCEPT ![holds[w]] = @ + 1], UNCHANGED status
      PROVE  Relay!Next
  BY <1>2 DEF Relay!Next, Relay!Send
<1>3. ASSUME NEW w \in Workers, pc[w] = "mark_published",
             SetStatus(holds[w], "published"), UNCHANGED sent
      PROVE  Relay!Next
  <2>1. /\ holds[w] \in Events
        /\ status[holds[w]] = "pending"
        /\ sent[holds[w]] > 0
    BY <1>3
  <2>2. Relay!Settle(holds[w])
    BY <2>1, <1>3 DEF SetStatus, Relay!Settle, Relay!Move
  <2>3. QED
    BY <2>1, <2>2 DEF Relay!Next
<1>4. ASSUME NEW w \in Workers, pc[w] = "mark_failed",
             SetStatus(holds[w], "failed"), UNCHANGED sent
      PROVE  Relay!Next
  <2>1. /\ holds[w] \in Invalid
        /\ status[holds[w]] = "pending"
    BY <1>4
  <2>2. Relay!Discard(holds[w])
    BY <2>1, <1>4 DEF SetStatus, Relay!Discard, Relay!Move
  <2>3. QED
    BY <2>1, <2>2, PublisherAssumption DEF Relay!Next
<1>5. ASSUME NEW w \in Workers, Publish(w) \/ RetryPublish(w) \/ GiveUp(w) \/ Kill(w)
      PROVE  [Relay!Next]_(Relay!vars)
  BY <1>2, <1>5 DEF Publish, RetryPublish, GiveUp, Kill, MaybeSent, Goto
<1>6. ASSUME NEW w \in Workers, MarkPublished(w) \/ MarkFailed(w) \/ MarkUnconfirmed(w)
      PROVE  Relay!Next
  BY <1>3, <1>4, <1>6 DEF MarkPublished, MarkFailed, MarkUnconfirmed, Goto
<1>7. ASSUME NEW w \in Workers,
             Wake(w) \/ Claim(w) \/ EndBatch(w) \/ Abort(w) \/ Restart(w)
      PROVE  UNCHANGED Relay!vars
  BY <1>7 DEF Wake, Claim, EndBatch, Abort, Restart
<1>8. CASE UNCHANGED vars
  BY <1>8 DEF vars
<1>9. QED
  BY <1>1, <1>5, <1>6, <1>7, <1>8 DEF Next, Work, Disturb

\* The polling workers, with their locks, retries and crashes, implement the
\* outbox's promise.
THEOREM KeepsRelay == Spec => RelayKept
<1>1. Init => Relay!Init
  BY DEF Init, Relay!Init
<1>2. QED
  BY <1>1, Invariance, StepKeepsRelay, PTL DEF Spec, RelayKept, Relay!Spec
==============================================================================
