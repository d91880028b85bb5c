----------------------- MODULE ProcessLifecycleProofs -----------------------
(***************************************************************************)
(* Proofs about ProcessLifecycle for any number of processes, events and   *)
(* faults.                                                                 *)
(*                                                                         *)
(* The argument has two halves.  What a program has executed up to a step, *)
(* Past, tells what its process has open, runs and has declared (Follows), *)
(* whatever the other processes do: that is the invariant, and its proof   *)
(* knows no program.  That each step is Proper after the ones before it,   *)
(* and that they are Sound, is a fact about the seven programs alone, read *)
(* off the places of their steps.                                          *)
(***************************************************************************)
EXTENDS ProcessLifecycle, TLAPS

Resources == {"db", "broker", "client"}
Routing == {"exchange", "dlq", "binding"}
Foundation == {<<"setup", "otel">>, <<"instrument", "logging">>, <<"instrument", "sqlalchemy">>}

\* The steps of program P before its k-th.
Past(P, k) == {P[i] : i \in 1..(k - 1)}

\* After the steps in D: resource r is open, task t has been started and not awaited.
IsOpen(r, D) == <<"open", r>> \in D /\ <<"close", r>> \notin D
MayRun(t, D) == <<"spawn", t>> \in D /\ <<"await", t>> \notin D
MayExport(D) == <<"setup", "otel">> \in D /\ <<"shutdown", "otel">> \notin D

\* What may run after the steps in D has what it needs, and is observed.
Sound(D) ==
  /\ \A t \in Coroutines : MayRun(t, D) =>
       /\ Foundation \subseteq D /\ MayExport(D)
       /\ t \in DOMAIN Needs => \A r \in Needs[t] : IsOpen(r, D)
  /\ MayRun("publish", D) => \A q \in Routing : <<"declare", q>> \in D

\* Step s may follow the steps in D.
Proper(s, D) ==
  /\ \A r \in Resources : s = <<"open", r>> => <<"close", r>> \notin D
  /\ \A t \in Coroutines :
       /\ s = <<"spawn", t>> => <<"await", t>> \notin D
       /\ s = <<"cancel", t>> => <<"spawn", t>> \in D /\ <<"cancel", t>> \notin D
  /\ s = <<"instrument", "logging">> => MayExport(D)
  /\ s = <<"instrument", "sqlalchemy">> => MayExport(D) /\ IsOpen("db", D)
  /\ s = <<"serve", "requests">> => Foundation \subseteq D /\ MayExport(D)

\* A program that ends after the steps in D has ended what it started.
Complete(D) ==
  /\ \A t \in Coroutines : ~MayRun(t, D)
  /\ \A r \in Resources : ~IsOpen(r, D)

Disciplined(P) ==
  /\ Len(P) \in Nat
  /\ \A k \in 1..(Len(P) + 1) : Sound(Past(P, k))
  /\ \A k \in 1..Len(P) : Proper(P[k], Past(P, k))
  /\ Complete(Past(P, Len(P) + 1))

\* Timetable at gives the places of the steps the discipline is about, and 0 for
\* those the program does not have.
Placed(P, at) ==
  \A k \in 1..Len(P) :
    /\ P[k] = <<"setup", "otel">> <=> k = at.setup
    /\ P[k] = <<"shutdown", "otel">> <=> k = at.shutdown
    /\ P[k] = <<"serve", "requests">> <=> k = at.serve
    /\ P[k] = <<"instrument", "logging">> <=> k = at.logging
    /\ P[k] = <<"instrument", "sqlalchemy">> <=> k = at.sqlalchemy
    /\ \A q \in Routing : P[k] = <<"declare", q>> <=> k = at.declare[q]
    /\ \A r \in Resources : /\ P[k] = <<"open", r>> <=> k = at.open[r]
                            /\ P[k] = <<"close", r>> <=> k = at.close[r]
    /\ \A t \in Coroutines : /\ P[k] = <<"spawn", t>> <=> k = at.spawn[t]
                             /\ P[k] = <<"cancel", t>> <=> k = at.cancel[t]
                             /\ P[k] = <<"await", t>> <=> k = at.await[t]

\* Step s stands at place c of program P and at no other; nowhere, if c is 0.
Stands(P, s, c) == \A k \in 1..Len(P) : P[k] = s <=> k = c

\* The order all n-step programs keep, as far as they have these steps.
Ordered(at, n) ==
  /\ 0 < at.setup /\ at.setup < at.logging
  /\ at.logging < at.open["db"] /\ at.open["db"] < at.sqlalchemy
  /\ at.sqlalchemy < at.close["db"] /\ at.close["db"] < at.shutdown /\ at.shutdown = n
  /\ at.serve = 0 \/ (at.sqlalchemy < at.serve /\ at.serve < n)
  /\ \A r \in Resources :
       \/ at.open[r] = 0 /\ at.close[r] = 0
       \/ 0 < at.open[r] /\ at.open[r] < at.close[r] /\ at.close[r] < n
  /\ \A t \in Coroutines :
       \/ at.spawn[t] = 0 /\ at.cancel[t] = 0 /\ at.await[t] = 0
       \/ /\ at.sqlalchemy < at.spawn[t] /\ at.spawn[t] < at.cancel[t]
          /\ at.cancel[t] < at.await[t] /\ at.await[t] < n
          /\ t \in DOMAIN Needs => \A r \in Needs[t] :
               0 < at.open[r] /\ at.open[r] < at.spawn[t] /\ at.await[t] < at.close[r]
  /\ at.spawn["publish"] > 0 => \A q \in Routing :
       0 < at.declare[q] /\ at.declare[q] < at.spawn["publish"]

Timetables ==
  [setup : Nat, shutdown : Nat, serve : Nat,
   logging : Nat, sqlalchemy : Nat, declare : [Routing -> Nat],
   open : [Resources -> Nat], close : [Resources -> Nat],
   spawn : [Coroutines -> Nat], cancel : [Coroutines -> Nat], await : [Coroutines -> Nat]]

\* What process p has executed of its program.
Executed(p) == Past(Program[runs[p]], pc[p])

\* The state of process p is what its program has made of it.
FollowsOpen(p) == \A r \in Resources : r \in open[p] <=> IsOpen(r, Executed(p))
FollowsTasks(p) ==
  \A t \in Coroutines :
    /\ t \in tasks[p] => MayRun(t, Executed(p))
    /\ <<"spawn", t>> \in Executed(p) /\ <<"cancel", t>> \notin Executed(p) => t \in tasks[p]
    /\ t \in cancelled[p] => <<"cancel", t>> \in Executed(p)
FollowsDeclared(p) ==
  \A q \in Routing : <<"declare", q>> \in Executed(p) => q \in declared
FollowsExport(p) == MayExport(Executed(p)) => enabled[p] = OtelEnabled
FollowsInstruments(p) ==
  \A x \in {"logging", "sqlalchemy"} :
    OtelEnabled /\ <<"instrument", x>> \in Executed(p) => x \in instrumented[p]

Follows(p) ==
  /\ FollowsOpen(p)
  /\ FollowsTasks(p)
  /\ FollowsDeclared(p)
  /\ FollowsExport(p)
  /\ FollowsInstruments(p)

\* What is left of a process that is not in one of the programs it can start with.
Leftover(p) ==
  /\ runs[p] = "none" => open[p] = {} /\ tasks[p] = {}
  /\ runs[p] = "consumer_finally" => tasks[p] \subseteq {"consume"}

\* A message that can still be rejected has a dead-letter queue to go to.
Routed ==
  /\ NothingIsDropped
  /\ \A e \in Events : message[e] = "ready" => "dlq" \in declared

Orderly(p) == Leftover(p) /\ (runs[p] \in Startable => Follows(p))

IInv ==
  /\ TypeOK
  /\ \A p \in Processes : Orderly(p)
  /\ Routed
-----------------------------------------------------------------------------
\* The steps before the next one are those before this one, and this one.
LEMMA PastGrows ==
  ASSUME NEW P, NEW k \in Nat \ {0}
  PROVE  Past(P, 1) = {} /\ Past(P, k + 1) = Past(P, k) \cup {P[k]}
BY DEF Past

\* A step is past exactly when its place is.
LEMMA PastIsPlace ==
  ASSUME NEW P, Len(P) \in Nat, NEW s, NEW c \in Nat, Stands(P, s, c),
         NEW k \in 1..(Len(P) + 1)
  PROVE  /\ s \in Past(P, k) <=> 0 < c /\ c < k
         /\ k <= Len(P) => (P[k] = s <=> k = c)
BY DEF Past, Stands

\* A program that keeps the order is disciplined.
LEMMA OrderDisciplines ==
  ASSUME NEW P, Len(P) \in Nat, NEW at \in Timetables, Placed(P, at), Ordered(at, Len(P))
  PROVE  Disciplined(P)
<1> DEFINE n == Len(P)
<1> DEFINE Passed(c, k) == 0 < c /\ c < k
<1>1. /\ at.setup \in Nat /\ at.shutdown \in Nat /\ at.serve \in Nat
      /\ at.logging \in Nat /\ at.sqlalchemy \in Nat
      /\ \A q \in Routing : at.declare[q] \in Nat
      /\ \A r \in Resources : at.open[r] \in Nat /\ at.close[r] \in Nat
      /\ \A t \in Coroutines : at.spawn[t] \in Nat /\ at.cancel[t] \in Nat /\ at.await[t] \in Nat
  BY DEF Timetables
<1>2. /\ Stands(P, <<"setup", "otel">>, at.setup)
      /\ Stands(P, <<"shutdown", "otel">>, at.shutdown)
      /\ Stands(P, <<"serve", "requests">>, at.serve)
      /\ Stands(P, <<"instrument", "logging">>, at.logging)
      /\ Stands(P, <<"instrument", "sqlalchemy">>, at.sqlalchemy)
      /\ \A q \in Routing : Stands(P, <<"declare", q>>, at.declare[q])
      /\ \A r \in Resources : /\ Stands(P, <<"open", r>>, at.open[r])
                              /\ Stands(P, <<"close", r>>, at.close[r])
      /\ \A t \in Coroutines : /\ Stands(P, <<"spawn", t>>, at.spawn[t])
                               /\ Stands(P, <<"cancel", t>>, at.cancel[t])
                               /\ Stands(P, <<"await", t>>, at.await[t])
  BY DEF Placed, Stands
<1>3. ASSUME NEW k \in 1..(n + 1)
      PROVE  /\ <<"setup", "otel">> \in Past(P, k) <=> Passed(at.setup, k)
             /\ <<"shutdown", "otel">> \in Past(P, k) <=> Passed(at.shutdown, k)
             /\ <<"instrument", "logging">> \in Past(P, k) <=> Passed(at.logging, k)
             /\ <<"instrument", "sqlalchemy">> \in Past(P, k) <=> Passed(at.sqlalchemy, k)
             /\ \A q \in Routing : <<"declare", q>> \in Past(P, k) <=> Passed(at.declare[q], k)
             /\ \A r \in Resources : /\ <<"open", r>> \in Past(P, k) <=> Passed(at.open[r], k)
                                     /\ <<"close", r>> \in Past(P, k) <=> Passed(at.close[r], k)
             /\ \A t \in Coroutines :
                  /\ <<"spawn", t>> \in Past(P, k) <=> Passed(at.spawn[t], k)
                  /\ <<"cancel", t>> \in Past(P, k) <=> Passed(at.cancel[t], k)
                  /\ <<"await", t>> \in Past(P, k) <=> Passed(at.await[t], k)
  <2>1. ASSUME NEW s, NEW c \in Nat, Stands(P, s, c)
        PROVE  s \in Past(P, k) <=> Passed(c, k)
    BY <2>1, PastIsPlace
  <2> HIDE DEF Passed
  <2>2. ASSUME NEW q \in Routing
        PROVE  <<"declare", q>> \in Past(P, k) <=> Passed(at.declare[q], k)
    BY <1>1, <1>2, <2>1
  <2>3. ASSUME NEW r \in Resources
        PROVE  /\ <<"open", r>> \in Past(P, k) <=> Passed(at.open[r], k)
               /\ <<"close", r>> \in Past(P, k) <=> Passed(at.close[r], k)
    BY <1>1, <1>2, <2>1
  <2>4. ASSUME NEW t \in Coroutines
        PROVE  /\ <<"spawn", t>> \in Past(P, k) <=> Passed(at.spawn[t], k)
               /\ <<"cancel", t>> \in Past(P, k) <=> Passed(at.cancel[t], k)
               /\ <<"await", t>> \in Past(P, k) <=> Passed(at.await[t], k)
    BY <1>1, <1>2, <2>1
  <2>5. QED
    BY <1>1, <1>2, <2>1, <2>2, <2>3, <2>4
<1> n \in Nat /\ n + 1 \in 1..(n + 1) /\ 1..n \subseteq 1..(n + 1)
  OBVIOUS
<1>4. ASSUME NEW k \in 1..(n + 1)
      PROVE  Sound(Past(P, k))
  <2>1. ASSUME NEW t \in Coroutines, MayRun(t, Past(P, k))
        PROVE  /\ Foundation \subseteq Past(P, k) /\ MayExport(Past(P, k))
               /\ t \in DOMAIN Needs => \A r \in Needs[t] : IsOpen(r, Past(P, k))
    <3>1. Passed(at.spawn[t], k) /\ ~Passed(at.await[t], k)
      <4> HIDE DEF Passed
      <4>1. QED
        BY <1>3, <2>1 DEF MayRun
    <3>2. /\ Passed(at.setup, k) /\ Passed(at.logging, k) /\ Passed(at.sqlalchemy, k)
          /\ ~Passed(at.shutdown, k)
      <4>1. /\ 0 < at.setup /\ at.setup < at.sqlalchemy /\ 0 < at.logging
            /\ at.logging < at.sqlalchemy /\ at.shutdown = n
        BY <1>1 DEF Ordered, Resources
      <4>2. at.sqlalchemy < at.spawn[t] /\ at.spawn[t] < k
        BY <1>1, <3>1 DEF Ordered
      <4>3. k <= n
        BY <1>1, <3>1, <4>2 DEF Ordered
      <4>4. QED
        BY <1>1, <4>1, <4>2, <4>3
    <3>3. Foundation \subseteq Past(P, k) /\ MayExport(Past(P, k))
      <4> HIDE DEF Passed
      <4>1. QED
        BY <1>3, <3>2 DEF Foundation, MayExport
    <3>4. ASSUME t \in DOMAIN Needs, NEW r \in Needs[t]
          PROVE  IsOpen(r, Past(P, k))
      <4>1. r \in Resources
        BY <3>4 DEF Needs, Resources
      <4>2. Passed(at.open[r], k) /\ ~Passed(at.close[r], k)
        BY <1>1, <3>1, <3>4, <4>1 DEF Ordered
      <4> HIDE DEF Passed
      <4>3. QED
        BY <1>3, <4>1, <4>2 DEF IsOpen
    <3>5. QED
      BY <3>3, <3>4
  <2>2. ASSUME MayRun("publish", Past(P, k)), NEW q \in Routing
        PROVE  <<"declare", q>> \in Past(P, k)
    <3>1. "publish" \in Coroutines
      BY DEF Coroutines
    <3>2. Passed(at.spawn["publish"], k)
      <4> HIDE DEF Passed
      <4>1. QED
        BY <1>3, <2>2, <3>1 DEF MayRun
    <3>3. Passed(at.declare[q], k)
      BY <1>1, <3>1, <3>2 DEF Ordered
    <3> HIDE DEF Passed
    <3>4. QED
      BY <1>3, <3>3
  <2>3. QED
    BY <2>1, <2>2 DEF Sound
<1>5. ASSUME NEW k \in 1..n
      PROVE  Proper(P[k], Past(P, k))
  <2>1. ASSUME NEW r \in Resources, P[k] = <<"open", r>>
        PROVE  <<"close", r>> \notin Past(P, k)
    <3>1. k = at.open[r]
      BY <1>2, <2>1 DEF Stands
    <3>2. ~Passed(at.close[r], k)
      BY <1>1, <3>1 DEF Ordered
    <3> HIDE DEF Passed
    <3>3. QED
      BY <1>3, <3>2
  <2>2. ASSUME NEW t \in Coroutines
        PROVE  /\ P[k] = <<"spawn", t>> => <<"await", t>> \notin Past(P, k)
               /\ P[k] = <<"cancel", t>> =>
                    <<"spawn", t>> \in Past(P, k) /\ <<"cancel", t>> \notin Past(P, k)
    <3>1. /\ P[k] = <<"spawn", t>> => k = at.spawn[t]
          /\ P[k] = <<"cancel", t>> => k = at.cancel[t]
      BY <1>2 DEF Stands
    <3>2. /\ k = at.spawn[t] => ~Passed(at.await[t], k)
          /\ k = at.cancel[t] => Passed(at.spawn[t], k) /\ ~Passed(at.cancel[t], k)
      BY <1>1 DEF Ordered
    <3> HIDE DEF Passed
    <3>3. QED
      BY <1>3, <3>1, <3>2
  <2>3. ASSUME k \in {at.logging, at.sqlalchemy, at.serve}
        PROVE  MayExport(Past(P, k))
    <3>1. Passed(at.setup, k) /\ ~Passed(at.shutdown, k)
      BY <1>1, <2>3 DEF Ordered, Resources
    <3> HIDE DEF Passed
    <3>2. QED
      BY <1>3, <3>1 DEF MayExport
  <2>4. ASSUME k = at.sqlalchemy
        PROVE  IsOpen("db", Past(P, k))
    <3>1. "db" \in Resources
      BY DEF Resources
    <3>2. Passed(at.open["db"], k) /\ ~Passed(at.close["db"], k)
      BY <1>1, <2>4, <3>1 DEF Ordered
    <3> HIDE DEF Passed
    <3>3. QED
      BY <1>3, <3>1, <3>2 DEF IsOpen
  <2>5. ASSUME k = at.serve
        PROVE  Foundation \subseteq Past(P, k)
    <3>1. Passed(at.setup, k) /\ Passed(at.logging, k) /\ Passed(at.sqlalchemy, k)
      BY <1>1, <2>5 DEF Ordered, Resources
    <3> HIDE DEF Passed
    <3>2. QED
      BY <1>3, <3>1 DEF Foundation
  <2>6. /\ P[k] = <<"instrument", "logging">> => k = at.logging
        /\ P[k] = <<"instrument", "sqlalchemy">> => k = at.sqlalchemy
        /\ P[k] = <<"serve", "requests">> => k = at.serve
    BY <1>2 DEF Stands
  <2>7. QED
    BY <2>1, <2>2, <2>3, <2>4, <2>5, <2>6 DEF Proper
<1>6. Complete(Past(P, n + 1))
  <2>1. ASSUME NEW t \in Coroutines
        PROVE  ~MayRun(t, Past(P, n + 1))
    <3>1. Passed(at.spawn[t], n + 1) => Passed(at.await[t], n + 1)
      BY <1>1 DEF Ordered
    <3> HIDE DEF Passed
    <3>2. QED
      BY <1>3, <3>1 DEF MayRun
  <2>2. ASSUME NEW r \in Resources
        PROVE  ~IsOpen(r, Past(P, n + 1))
    <3>1. Passed(at.open[r], n + 1) => Passed(at.close[r], n + 1)
      BY <1>1 DEF Ordered
    <3> HIDE DEF Passed
    <3>2. QED
      BY <1>3, <3>1 DEF IsOpen
  <2>3. QED
    BY <2>1, <2>2 DEF Complete
<1>7. QED
  BY <1>4, <1>5, <1>6 DEF Disciplined

\* The API without background tasks.
LEMMA ApiDisciplined == Disciplined(Program["api"])
<1> DEFINE P == Program["api"]
           at == [setup |-> 3, shutdown |-> 9, serve |-> 7,
                  logging |-> 4, sqlalchemy |-> 6,
                  declare |-> [exchange |-> 0, dlq |-> 0, binding |-> 0],
                  open |-> [db |-> 5, broker |-> 0, client |-> 0],
                  close |-> [db |-> 8, broker |-> 0, client |-> 0],
                  spawn |-> [publish |-> 0, dispatch |-> 0, consume |-> 0],
                  cancel |-> [publish |-> 0, dispatch |-> 0, consume |-> 0],
                  await |-> [publish |-> 0, dispatch |-> 0, consume |-> 0]]
<1>1. Len(P) = 9
  BY DEF Program, Lifespan, Observed, Database, Release
<1>2. Placed(P, at)
  BY <1>1, SMTT(60) DEF Placed, Routing, Resources, Coroutines, Program,
     Lifespan, Observed, Database, Release
<1>3. at \in Timetables /\ Ordered(at, 9)
  BY DEF Timetables, Ordered, Routing, Resources, Coroutines, Needs
<1> HIDE DEF at
<1>4. Len(P) \in Nat /\ Ordered(at, Len(P))
  BY <1>1, <1>3
<1>5. QED
  BY <1>2, <1>3, <1>4, OrderDisciplines, Zenon

\* The API with the publisher in it.
LEMMA ApiPublisherDisciplined == Disciplined(Program["api_publisher"])
<1> DEFINE P == Program["api_publisher"]
           at == [setup |-> 3, shutdown |-> 18, serve |-> 13,
                  logging |-> 4, sqlalchemy |-> 6,
                  declare |-> [exchange |-> 8, dlq |-> 9, binding |-> 11],
                  open |-> [db |-> 5, broker |-> 7, client |-> 0],
                  close |-> [db |-> 17, broker |-> 16, client |-> 0],
                  spawn |-> [publish |-> 12, dispatch |-> 0, consume |-> 0],
                  cancel |-> [publish |-> 14, dispatch |-> 0, consume |-> 0],
                  await |-> [publish |-> 15, dispatch |-> 0, consume |-> 0]]
<1>1. Len(P) = 18
  BY DEF Program, Lifespan, Observed, Database, StartPublisher, Topology, StopTask, Release
<1>2. Placed(P, at)
  BY <1>1, SMTT(60) DEF Placed, Routing, Resources, Coroutines, Program,
     Lifespan, Observed, Database, StartPublisher, Topology, StopTask, Release
<1>3. at \in Timetables /\ Ordered(at, 18)
  BY DEF Timetables, Ordered, Routing, Resources, Coroutines, Needs
<1> HIDE DEF at
<1>4. Len(P) \in Nat /\ Ordered(at, Len(P))
  BY <1>1, <1>3
<1>5. QED
  BY <1>2, <1>3, <1>4, OrderDisciplines, Zenon

\* The API with the dispatcher in it.
LEMMA ApiDispatcherDisciplined == Disciplined(Program["api_dispatcher"])
<1> DEFINE P == Program["api_dispatcher"]
           at == [setup |-> 3, shutdown |-> 14, serve |-> 9,
                  logging |-> 4, sqlalchemy |-> 6,
                  declare |-> [exchange |-> 0, dlq |-> 0, binding |-> 0],
                  open |-> [db |-> 5, broker |-> 0, client |-> 7],
                  close |-> [db |-> 13, broker |-> 0, client |-> 12],
                  spawn |-> [publish |-> 0, dispatch |-> 8, consume |-> 0],
                  cancel |-> [publish |-> 0, dispatch |-> 10, consume |-> 0],
                  await |-> [publish |-> 0, dispatch |-> 11, consume |-> 0]]
<1>1. Len(P) = 14
  BY DEF Program, Lifespan, Observed, Database, StartDispatcher, StopTask, Release
<1>2. Placed(P, at)
  BY <1>1, SMTT(60) DEF Placed, Routing, Resources, Coroutines, Program,
     Lifespan, Observed, Database, StartDispatcher, StopTask, Release
<1>3. at \in Timetables /\ Ordered(at, 14)
  BY DEF Timetables, Ordered, Routing, Resources, Coroutines, Needs
<1> HIDE DEF at
<1>4. Len(P) \in Nat /\ Ordered(at, Len(P))
  BY <1>1, <1>3
<1>5. QED
  BY <1>2, <1>3, <1>4, OrderDisciplines, Zenon

\* The API with both, as in development.
LEMMA ApiLocalDisciplined == Disciplined(Program["api_local"])
<1> DEFINE P == Program["api_local"]
           at == [setup |-> 3, shutdown |-> 23, serve |-> 15,
                  logging |-> 4, sqlalchemy |-> 6,
                  declare |-> [exchange |-> 8, dlq |-> 9, binding |-> 11],
                  open |-> [db |-> 5, broker |-> 7, client |-> 13],
                  close |-> [db |-> 22, broker |-> 21, client |-> 18],
                  spawn |-> [publish |-> 12, dispatch |-> 14, consume |-> 0],
                  cancel |-> [publish |-> 19, dispatch |-> 16, consume |-> 0],
                  await |-> [publish |-> 20, dispatch |-> 17, consume |-> 0]]
<1>1. Len(P) = 23
  BY DEF Program, Lifespan, Observed, Database, StartPublisher, Topology, StartDispatcher,
     StopTask, Release
<1>2. Placed(P, at)
  BY <1>1, SMTT(60) DEF Placed, Routing, Resources, Coroutines, Program,
     Lifespan, Observed, Database, StartPublisher, Topology, StartDispatcher,
     StopTask, Release
<1>3. at \in Timetables /\ Ordered(at, 23)
  BY DEF Timetables, Ordered, Routing, Resources, Coroutines, Needs
<1> HIDE DEF at
<1>4. Len(P) \in Nat /\ Ordered(at, Len(P))
  BY <1>1, <1>3
<1>5. QED
  BY <1>2, <1>3, <1>4, OrderDisciplines, Zenon

\* The publisher process.
LEMMA PublisherDisciplined == Disciplined(Program["publisher"])
<1> DEFINE P == Program["publisher"]
           at == [setup |-> 2, shutdown |-> 17, serve |-> 0,
                  logging |-> 3, sqlalchemy |-> 5,
                  declare |-> [exchange |-> 7, dlq |-> 8, binding |-> 10],
                  open |-> [db |-> 4, broker |-> 6, client |-> 0],
                  close |-> [db |-> 16, broker |-> 15, client |-> 0],
                  spawn |-> [publish |-> 11, dispatch |-> 0, consume |-> 0],
                  cancel |-> [publish |-> 13, dispatch |-> 0, consume |-> 0],
                  await |-> [publish |-> 14, dispatch |-> 0, consume |-> 0]]
<1>1. Len(P) = 17
  BY DEF Program, Publisher, Observed, Database, StartPublisher, Topology, StopTask, Release
<1>2. Placed(P, at)
  BY <1>1, SMTT(60) DEF Placed, Routing, Resources, Coroutines, Program,
     Publisher, Observed, Database, StartPublisher, Topology, StopTask, Release
<1>3. at \in Timetables /\ Ordered(at, 17)
  BY DEF Timetables, Ordered, Routing, Resources, Coroutines, Needs
<1> HIDE DEF at
<1>4. Len(P) \in Nat /\ Ordered(at, Len(P))
  BY <1>1, <1>3
<1>5. QED
  BY <1>2, <1>3, <1>4, OrderDisciplines, Zenon

\* The dispatcher process.
LEMMA DispatcherDisciplined == Disciplined(Program["dispatcher"])
<1> DEFINE P == Program["dispatcher"]
           at == [setup |-> 2, shutdown |-> 14, serve |-> 0,
                  logging |-> 3, sqlalchemy |-> 6,
                  declare |-> [exchange |-> 0, dlq |-> 0, binding |-> 0],
                  open |-> [db |-> 5, broker |-> 0, client |-> 7],
                  close |-> [db |-> 13, broker |-> 0, client |-> 12],
                  spawn |-> [publish |-> 0, dispatch |-> 8, consume |-> 0],
                  cancel |-> [publish |-> 0, dispatch |-> 10, consume |-> 0],
                  await |-> [publish |-> 0, dispatch |-> 11, consume |-> 0]]
<1>1. Len(P) = 14
  BY DEF Program, Dispatcher, Observed, Database, StartDispatcher, StopTask, Release
<1>2. Placed(P, at)
  BY <1>1, SMTT(60) DEF Placed, Routing, Resources, Coroutines, Program,
     Dispatcher, Observed, Database, StartDispatcher, StopTask, Release
<1>3. at \in Timetables /\ Ordered(at, 14)
  BY DEF Timetables, Ordered, Routing, Resources, Coroutines, Needs
<1> HIDE DEF at
<1>4. Len(P) \in Nat /\ Ordered(at, Len(P))
  BY <1>1, <1>3
<1>5. QED
  BY <1>2, <1>3, <1>4, OrderDisciplines, Zenon

\* The consumer process.
LEMMA ConsumerDisciplined == Disciplined(Program["consumer"])
<1> DEFINE P == Program["consumer"]
           at == [setup |-> 2, shutdown |-> 18, serve |-> 0,
                  logging |-> 3, sqlalchemy |-> 5,
                  declare |-> [exchange |-> 9, dlq |-> 10, binding |-> 12],
                  open |-> [db |-> 4, broker |-> 6, client |-> 0],
                  close |-> [db |-> 17, broker |-> 16, client |-> 0],
                  spawn |-> [publish |-> 0, dispatch |-> 0, consume |-> 8],
                  cancel |-> [publish |-> 0, dispatch |-> 0, consume |-> 14],
                  await |-> [publish |-> 0, dispatch |-> 0, consume |-> 15]]
<1>1. Len(P) = 18
  BY DEF Program, Consumer, Observed, Database, Topology, StopSubscription,
     StopTask, Release
<1>2. Placed(P, at)
  BY <1>1, SMTT(60) DEF Placed, Routing, Resources, Coroutines, Program,
     Consumer, Observed, Database, Topology, StopSubscription,
     StopTask, Release
<1>3. at \in Timetables /\ Ordered(at, 18)
  BY DEF Timetables, Ordered, Routing, Resources, Coroutines, Needs
<1> HIDE DEF at
<1>4. Len(P) \in Nat /\ Ordered(at, Len(P))
  BY <1>1, <1>3
<1>5. QED
  BY <1>2, <1>3, <1>4, OrderDisciplines, Zenon

\* The programs, and what each of them runs.
LEMMA ProgramsAreKnown ==
  /\ Startable = {"api", "api_publisher", "api_dispatcher", "api_local",
                  "publisher", "dispatcher", "consumer"}
  /\ DOMAIN Program = Startable \cup {"consumer_finally"}
  /\ "none" \notin DOMAIN Program
BY DEF Startable, Program

\* Every program a process can start with is disciplined.
LEMMA StartableIsDisciplined == \A name \in Startable : Disciplined(Program[name])
BY ProgramsAreKnown, ApiDisciplined, ApiPublisherDisciplined, ApiDispatcherDisciplined,
   ApiLocalDisciplined, PublisherDisciplined, DispatcherDisciplined, ConsumerDisciplined

\* What main's finally does after a failed start.
LEMMA FinallyReleases ==
  LET P == Program["consumer_finally"]
  IN  Len(P) = 2 /\ P[1] = <<"close", "db">> /\ P[2] = <<"shutdown", "otel">>
BY DEF Program, Release

\* The consumer runs no background task but its subscription.
LEMMA ConsumerConsumes ==
  ASSUME NEW k \in 1..(Len(Program["consumer"]) + 1), NEW t \in Coroutines,
         <<"spawn", t>> \in Past(Program["consumer"], k)
  PROVE  t = "consume"
<1> DEFINE P == Program["consumer"]
<1>1. Len(P) = 18
  BY DEF Program, Consumer, Observed, Database, Topology, StopSubscription,
     StopTask, Release
<1>2. \A i \in 1..18 : P[i] # <<"spawn", "publish">> /\ P[i] # <<"spawn", "dispatch">>
  BY DEF Program, Consumer, Observed, Database, Topology, StopSubscription,
     StopTask, Release
<1>3. PICK i \in 1..18 : P[i] = <<"spawn", t>>
  BY <1>1 DEF Past
<1>4. QED
  BY <1>2, <1>3 DEF Coroutines

\* Every program has a length.
LEMMA LengthsAreNatural == \A name \in DOMAIN Program : Len(Program[name]) \in Nat
BY ProgramsAreKnown, StartableIsDisciplined, FinallyReleases DEF Disciplined
-----------------------------------------------------------------------------
\* The initial states satisfy the inductive invariant.
LEMMA InitIInv == Init => IInv
<1> SUFFICES ASSUME Init
             PROVE  IInv
  OBVIOUS
<1>1. TypeOK
  BY LifecycleAssumption DEF Init, TypeOK
<1>2. \A p \in Processes : Orderly(p)
  BY ProgramsAreKnown DEF Init, Orderly, Leftover
<1>3. Routed
  BY DEF Init, Routed, NothingIsDropped
<1>4. QED
  BY <1>1, <1>2, <1>3 DEF IInv

\* A step adds itself to what has been executed, and follows it properly.
LEMMA AdvanceExecutes ==
  ASSUME IInv, NEW p \in Processes, NEW op, NEW of, AtStep(p, op, of), Advance(p)
  PROVE  /\ runs' = runs /\ runs[p] \in DOMAIN Program
         /\ pc' = [pc EXCEPT ![p] = pc[p] + 1]
         /\ pc[p] \in 1..Len(Program[runs[p]])
         /\ Executed(p)' = Executed(p) \cup {<<op, of>>}
         /\ runs[p] \in Startable => Proper(<<op, of>>, Executed(p))
         /\ runs[p] = "consumer_finally" => op \in {"close", "shutdown"}
<1> DEFINE P == Program[runs[p]]
<1>1. runs' = runs /\ runs[p] \in DOMAIN Program /\ P[pc[p]] = <<op, of>>
  BY DEF AtStep, Advance, Running, IInv, TypeOK
<1>2. pc' = [pc EXCEPT ![p] = pc[p] + 1] /\ pc \in [Processes -> Nat]
  BY DEF Advance, IInv, TypeOK
<1>3. Len(P) \in Nat
  BY <1>1, LengthsAreNatural
<1>4. pc[p] \in 1..Len(P)
  BY <1>1, <1>2, <1>3, ProgramsAreKnown DEF AtStep, AtEnd, Running, IInv, TypeOK
<1>5. Executed(p)' = Executed(p) \cup {<<op, of>>}
  <2>1. Executed(p)' = Past(P, pc[p] + 1)
    BY <1>1, <1>2 DEF Executed
  <2>2. PICK k \in Nat \ {0} : k = pc[p]
    BY <1>3, <1>4
  <2>3. Past(P, k + 1) = Past(P, k) \cup {P[k]}
    BY <2>2 DEF Past
  <2>4. QED
    BY <1>1, <2>1, <2>2, <2>3 DEF Executed
<1>6. runs[p] \in Startable => Proper(<<op, of>>, Executed(p))
  BY <1>1, <1>4, StartableIsDisciplined DEF Disciplined, Executed
<1>7. runs[p] = "consumer_finally" => op \in {"close", "shutdown"}
  BY <1>1, <1>4, FinallyReleases
<1>8. QED
  BY <1>1, <1>2, <1>4, <1>5, <1>6, <1>7

\* What a task that runs tells about the program of its process.
LEMMA RunningTaskIsSound ==
  ASSUME IInv, NEW p \in Processes, NEW t \in tasks[p]
  PROVE  \/ runs[p] = "consumer_finally" /\ t = "consume"
         \/ /\ runs[p] \in Startable /\ Follows(p)
            /\ t \in Coroutines /\ MayRun(t, Executed(p)) /\ Sound(Executed(p))
<1>1. /\ runs[p] \in DOMAIN Program \cup {"none"} /\ runs[p] # "none" /\ t \in Coroutines
      /\ pc[p] \in 1..(Len(Program[runs[p]]) + 1)
  BY DEF IInv, TypeOK, Orderly, Leftover
<1>2. CASE runs[p] = "consumer_finally"
  BY <1>2 DEF IInv, Orderly, Leftover
<1>3. CASE runs[p] \in Startable
  <2>1. Follows(p)
    BY <1>3 DEF IInv, Orderly
  <2>2. MayRun(t, Executed(p))
    BY <1>1, <2>1 DEF Follows, FollowsTasks
  <2>3. Sound(Executed(p))
    BY <1>1, <1>3, StartableIsDisciplined DEF Disciplined, Executed
  <2>4. QED
    BY <1>1, <1>3, <2>1, <2>2, <2>3
<1>4. QED
  BY <1>1, <1>2, <1>3, ProgramsAreKnown
-----------------------------------------------------------------------------
\* The next five: what a step that is not about it leaves as its program has made it.
\* A step that neither opens nor closes.
LEMMA KeepsOpen ==
  ASSUME NEW p, NEW op, NEW of, Executed(p)' = Executed(p) \cup {<<op, of>>},
         FollowsOpen(p), op \notin {"open", "close"}, open'[p] = open[p]
  PROVE  FollowsOpen(p)'
BY DEF FollowsOpen, IsOpen

\* A step that neither starts, cancels nor awaits a task.
LEMMA KeepsTasks ==
  ASSUME NEW p, NEW op, NEW of, Executed(p)' = Executed(p) \cup {<<op, of>>},
         FollowsTasks(p), op \notin {"spawn", "cancel", "await"},
         tasks'[p] = tasks[p], cancelled'[p] = cancelled[p]
  PROVE  FollowsTasks(p)'
BY DEF FollowsTasks, MayRun

\* A step that declares nothing.
LEMMA KeepsDeclared ==
  ASSUME NEW p, NEW op, NEW of, Executed(p)' = Executed(p) \cup {<<op, of>>},
         FollowsDeclared(p), op # "declare", declared' = declared
  PROVE  FollowsDeclared(p)'
BY DEF FollowsDeclared

\* A step that neither sets the exporter up nor shuts it down.
LEMMA KeepsExport ==
  ASSUME NEW p, NEW op, NEW of, Executed(p)' = Executed(p) \cup {<<op, of>>},
         FollowsExport(p), op \notin {"setup", "shutdown"}, enabled'[p] = enabled[p]
  PROVE  FollowsExport(p)'
BY DEF FollowsExport, MayExport

\* A step that instruments nothing.
LEMMA KeepsInstruments ==
  ASSUME NEW p, NEW op, NEW of, Executed(p)' = Executed(p) \cup {<<op, of>>},
         FollowsInstruments(p), op # "instrument", instrumented'[p] = instrumented[p]
  PROVE  FollowsInstruments(p)'
BY DEF FollowsInstruments

\* A step of the main of p that is about nothing p holds.
LEMMA IdleStepFollows ==
  ASSUME IInv, NEW p \in Processes, NEW op, NEW of, AtStep(p, op, of), Advance(p),
         op \in {"load", "serve"}, UNCHANGED <<resources, tracing, shared>>, Follows(p)
  PROVE  Follows(p)'
<1>1. Executed(p)' = Executed(p) \cup {<<op, of>>}
  BY AdvanceExecutes
<1>2. FollowsOpen(p)'
  BY <1>1, KeepsOpen DEF Follows, resources
<1>3. FollowsTasks(p)'
  BY <1>1, KeepsTasks DEF Follows, resources
<1>4. FollowsDeclared(p)'
  BY <1>1, KeepsDeclared DEF Follows, shared
<1>5. FollowsExport(p)'
  BY <1>1, KeepsExport DEF Follows, tracing
<1>6. FollowsInstruments(p)'
  BY <1>1, KeepsInstruments DEF Follows, tracing
<1>7. QED
  BY <1>2, <1>3, <1>4, <1>5, <1>6 DEF Follows

\* Setup and Shutdown switch the exporter.
LEMMA ExportFollows ==
  ASSUME IInv, NEW p \in Processes, Setup(p) \/ Shutdown(p), Follows(p)
  PROVE  Follows(p)'
<1> PICK op \in {"setup", "shutdown"} :
      AtStep(p, op, "otel") /\ (op = "setup" => Setup(p)) /\ (op = "shutdown" => Shutdown(p))
  BY DEF Setup, Shutdown
<1>0. Advance(p) /\ UNCHANGED <<resources, instrumented, shared>>
  BY DEF Setup, Shutdown
<1>1. Executed(p)' = Executed(p) \cup {<<op, "otel">>}
  BY <1>0, AdvanceExecutes
<1>2. FollowsOpen(p)'
  BY <1>0, <1>1, KeepsOpen DEF Follows, resources
<1>3. FollowsTasks(p)'
  BY <1>0, <1>1, KeepsTasks DEF Follows, resources
<1>4. FollowsDeclared(p)'
  BY <1>0, <1>1, KeepsDeclared DEF Follows, shared
<1>5. FollowsExport(p)'
  BY <1>1 DEF FollowsExport, MayExport, Setup, IInv, TypeOK
<1>6. FollowsInstruments(p)'
  BY <1>0, <1>1, KeepsInstruments DEF Follows
<1>7. QED
  BY <1>2, <1>3, <1>4, <1>5, <1>6 DEF Follows

\* Instrumentation takes effect when its step is Proper.
LEMMA InstrumentFollows ==
  ASSUME IInv, NEW p \in Processes, NEW what \in Instruments, Instrument(p, what),
         runs[p] \in Startable, Follows(p)
  PROVE  Follows(p)'
<1>0. /\ AtStep(p, "instrument", what) /\ Advance(p)
      /\ open' = open /\ tasks' = tasks /\ cancelled' = cancelled
      /\ enabled' = enabled /\ declared' = declared
  BY DEF Instrument, resources, shared
<1>1. /\ Executed(p)' = Executed(p) \cup {<<"instrument", what>>}
      /\ Proper(<<"instrument", what>>, Executed(p))
  BY <1>0, AdvanceExecutes
<1>2. FollowsOpen(p)'
  BY <1>0, <1>1, KeepsOpen DEF Follows
<1>3. FollowsTasks(p)'
  BY <1>0, <1>1, KeepsTasks DEF Follows
<1>4. FollowsDeclared(p)'
  BY <1>0, <1>1, KeepsDeclared DEF Follows
<1>5. FollowsExport(p)'
  BY <1>0, <1>1, KeepsExport DEF Follows
<1>6. FollowsInstruments(p)'
  <2> SUFFICES ASSUME NEW x \in {"logging", "sqlalchemy"}, OtelEnabled,
                      (<<"instrument", x>> \in Executed(p))'
               PROVE  (x \in instrumented[p])'
    BY DEF FollowsInstruments
  <2>1. CASE x # what
    BY <1>1, <2>1 DEF FollowsInstruments, Follows, Instrument, IInv, TypeOK
  <2>2. CASE x = what
    <3>1. MayExport(Executed(p)) /\ (x = "sqlalchemy" => IsOpen("db", Executed(p)))
      BY <1>1, <2>2 DEF Proper
    <3>2. enabled[p]
      BY <3>1 DEF Follows, FollowsExport
    <3>3. x = "sqlalchemy" => "db" \in open[p]
      BY <3>1 DEF Follows, FollowsOpen, Resources
    <3>4. QED
      BY <2>2, <3>2, <3>3 DEF Instrument, IInv, TypeOK
  <2>3. QED
    BY <2>1, <2>2
<1>7. QED
  BY <1>2, <1>3, <1>4, <1>5, <1>6 DEF Follows

\* Open and Close are the only steps about a resource.
LEMMA ResourceFollows ==
  ASSUME IInv, NEW p \in Processes, NEW r \in Resources, Open(p, r) \/ Close(p, r),
         runs[p] \in Startable, Follows(p)
  PROVE  Follows(p)'
<1> PICK op \in {"open", "close"} :
      AtStep(p, op, r) /\ (op = "open" => Open(p, r)) /\ (op = "close" => Close(p, r))
  BY DEF Open, Close
<1>0. Advance(p) /\ UNCHANGED <<tasks, cancelled, tracing, shared, faults>>
  BY DEF Open, Close
<1>1. Executed(p)' = Executed(p) \cup {<<op, r>>} /\ Proper(<<op, r>>, Executed(p))
  BY <1>0, AdvanceExecutes
<1>2. FollowsOpen(p)'
  <2>1. CASE op = "open"
    <3>1. <<"close", r>> \notin Executed(p)
      BY <1>1, <2>1 DEF Proper
    <3>2. open' = [open EXCEPT ![p] = @ \cup {r}]
      BY <2>1 DEF Open
    <3>3. QED
      BY <1>1, <2>1, <3>1, <3>2 DEF FollowsOpen, IsOpen, Follows, IInv, TypeOK
  <2>2. CASE op = "close"
    <3>1. open' = [open EXCEPT ![p] = @ \ {r}]
      BY <2>2 DEF Close
    <3>2. QED
      BY <1>1, <2>2, <3>1 DEF FollowsOpen, IsOpen, Follows, IInv, TypeOK
  <2>3. QED
    BY <2>1, <2>2
<1>3. FollowsTasks(p)'
  BY <1>0, <1>1, KeepsTasks DEF Follows
<1>4. FollowsDeclared(p)'
  BY <1>0, <1>1, KeepsDeclared DEF Follows, shared
<1>5. FollowsExport(p)'
  BY <1>0, <1>1, KeepsExport DEF Follows, tracing
<1>6. FollowsInstruments(p)'
  BY <1>0, <1>1, KeepsInstruments DEF Follows, tracing
<1>7. QED
  BY <1>2, <1>3, <1>4, <1>5, <1>6 DEF Follows

\* Declare is the only step about the broker.
LEMMA DeclareFollows ==
  ASSUME IInv, NEW p \in Processes, NEW q \in Queues, Declare(p, q), Follows(p)
  PROVE  Follows(p)'
<1>0. /\ AtStep(p, "declare", q) /\ Advance(p) /\ declared' = declared \cup {q}
      /\ open' = open /\ tasks' = tasks /\ cancelled' = cancelled
      /\ enabled' = enabled /\ instrumented' = instrumented
  BY DEF Declare, resources, tracing
<1>1. Executed(p)' = Executed(p) \cup {<<"declare", q>>}
  BY <1>0, AdvanceExecutes
<1>2. FollowsOpen(p)'
  BY <1>0, <1>1, KeepsOpen DEF Follows
<1>3. FollowsTasks(p)'
  BY <1>0, <1>1, KeepsTasks DEF Follows
<1>4. FollowsDeclared(p)'
  BY <1>0, <1>1 DEF Follows, FollowsDeclared
<1>5. FollowsExport(p)'
  BY <1>0, <1>1, KeepsExport DEF Follows
<1>6. FollowsInstruments(p)'
  BY <1>0, <1>1, KeepsInstruments DEF Follows
<1>7. QED
  BY <1>2, <1>3, <1>4, <1>5, <1>6 DEF Follows

\* Spawn, Cancel and Await are the steps of the main about a task.
LEMMA TaskStepFollows ==
  ASSUME IInv, NEW p \in Processes, NEW t \in Coroutines,
         Spawn(p, t) \/ Cancel(p, t) \/ Await(p, t), runs[p] \in Startable, Follows(p)
  PROVE  Follows(p)'
<1> PICK op \in {"spawn", "cancel", "await"} :
      /\ AtStep(p, op, t) /\ (op = "spawn" => Spawn(p, t))
      /\ (op = "cancel" => Cancel(p, t)) /\ (op = "await" => Await(p, t))
  BY DEF Spawn, Cancel, Await
<1>0. Advance(p) /\ UNCHANGED <<open, tracing, shared, faults>>
  BY DEF Spawn, Cancel, Await, resources
<1>1. Executed(p)' = Executed(p) \cup {<<op, t>>} /\ Proper(<<op, t>>, Executed(p))
  BY <1>0, AdvanceExecutes
<1>2. FollowsOpen(p)'
  BY <1>0, <1>1, KeepsOpen DEF Follows
<1>3. FollowsTasks(p)'
  <2>0. FollowsTasks(p) /\ tasks \in [Processes -> SUBSET Coroutines]
        /\ cancelled \in [Processes -> SUBSET Coroutines]
    BY DEF Follows, IInv, TypeOK
  <2>1. CASE op = "spawn"
    <3>1. <<"await", t>> \notin Executed(p)
      BY <1>1, <2>1 DEF Proper
    <3>2. tasks' = [tasks EXCEPT ![p] = @ \cup {t}] /\ cancelled' = cancelled
      BY <2>1 DEF Spawn
    <3>3. QED
      BY <1>1, <2>0, <2>1, <3>1, <3>2 DEF FollowsTasks, MayRun
  <2>2. CASE op = "cancel"
    <3>1. cancelled' = [cancelled EXCEPT ![p] = @ \cup {t}] /\ tasks' = tasks
      BY <2>2 DEF Cancel
    <3>2. QED
      BY <1>1, <2>0, <2>2, <3>1 DEF FollowsTasks, MayRun
  <2>3. CASE op = "await"
    <3>1. t \notin tasks[p] /\ tasks' = tasks /\ cancelled' = cancelled
      BY <2>3 DEF Await, resources
    <3>2. QED
      BY <1>1, <2>0, <2>3, <3>1 DEF FollowsTasks, MayRun
  <2>4. QED
    BY <2>1, <2>2, <2>3
<1>4. FollowsDeclared(p)'
  BY <1>0, <1>1, KeepsDeclared DEF Follows, shared
<1>5. FollowsExport(p)'
  BY <1>0, <1>1, KeepsExport DEF Follows, tracing
<1>6. FollowsInstruments(p)'
  BY <1>0, <1>1, KeepsInstruments DEF Follows, tracing
<1>7. QED
  BY <1>2, <1>3, <1>4, <1>5, <1>6 DEF Follows
-----------------------------------------------------------------------------
\* A step of the main of p leaves its process in order.
LEMMA StepIsOrderly ==
  ASSUME IInv, NEW p \in Processes, NEW op, NEW of, AtStep(p, op, of), Advance(p),
         runs[p] \in Startable => Follows(p)',
         op \in {"close", "shutdown"} => tasks' = tasks
  PROVE  Orderly(p)'
<1>1. runs' = runs /\ runs[p] \in DOMAIN Program
      /\ (runs[p] = "consumer_finally" => op \in {"close", "shutdown"})
  BY AdvanceExecutes
<1>2. runs[p] # "none"
  BY <1>1, ProgramsAreKnown
<1>3. Orderly(p)
  BY DEF IInv
<1>4. Leftover(p)'
  BY <1>1, <1>2, <1>3 DEF Orderly, Leftover
<1>5. QED
  BY <1>1, <1>4 DEF Orderly

\* Whatever the next step of the program is, the process stays in order.
LEMMA ExecuteIsOrderly ==
  ASSUME IInv, NEW p \in Processes, Execute(p) \/ Stop(p), ~End(p)
  PROVE  Orderly(p)'
<1>0. runs[p] \in Startable => Follows(p)
  BY DEF IInv, Orderly
<1>1. CASE Load(p)
  <2>1. AtStep(p, "load", "settings") /\ Advance(p) /\ UNCHANGED <<resources, tracing, shared>>
    BY <1>1 DEF Load
  <2>2. QED
    BY <1>0, <2>1, IdleStepFollows, StepIsOrderly
<1>2. CASE Stop(p)
  <2>1. PICK of : AtStep(p, "serve", of)
    BY <1>2 DEF Stop
  <2>2. Advance(p) /\ UNCHANGED <<resources, tracing, shared>>
    BY <1>2 DEF Stop
  <2>3. QED
    BY <1>0, <2>1, <2>2, IdleStepFollows, StepIsOrderly
<1>3. CASE Setup(p) \/ Shutdown(p)
  <2>1. PICK op \in {"setup", "shutdown"} : AtStep(p, op, "otel")
    BY <1>3 DEF Setup, Shutdown
  <2>2. Advance(p) /\ tasks' = tasks
    BY <1>3 DEF Setup, Shutdown, resources
  <2>3. QED
    BY <1>0, <1>3, <2>1, <2>2, ExportFollows, StepIsOrderly
<1>4. CASE \E what \in Instruments : Instrument(p, what)
  <2>1. PICK what \in Instruments : Instrument(p, what)
    BY <1>4
  <2>2. AtStep(p, "instrument", what) /\ Advance(p)
    BY <2>1 DEF Instrument
  <2>3. QED
    BY <1>0, <2>1, <2>2, InstrumentFollows, StepIsOrderly
<1>5. CASE \E r \in Resources : Open(p, r) \/ Close(p, r)
  <2>1. PICK r \in Resources : Open(p, r) \/ Close(p, r)
    BY <1>5
  <2>2. PICK op \in {"open", "close"} : AtStep(p, op, r)
    BY <2>1 DEF Open, Close
  <2>3. Advance(p) /\ tasks' = tasks
    BY <2>1 DEF Open, Close
  <2>4. QED
    BY <1>0, <2>1, <2>2, <2>3, ResourceFollows, StepIsOrderly
<1>6. CASE \E q \in Queues : Declare(p, q)
  <2>1. PICK q \in Queues : Declare(p, q)
    BY <1>6
  <2>2. AtStep(p, "declare", q) /\ Advance(p)
    BY <2>1 DEF Declare
  <2>3. QED
    BY <1>0, <2>1, <2>2, DeclareFollows, StepIsOrderly
<1>7. CASE \E t \in Coroutines : Spawn(p, t) \/ Cancel(p, t) \/ Await(p, t)
  <2>1. PICK t \in Coroutines : Spawn(p, t) \/ Cancel(p, t) \/ Await(p, t)
    BY <1>7
  <2>2. PICK op \in {"spawn", "cancel", "await"} : AtStep(p, op, t) /\ Advance(p)
    BY <2>1 DEF Spawn, Cancel, Await
  <2>3. QED
    BY <1>0, <2>1, <2>2, TaskStepFollows, StepIsOrderly
<1>8. QED
  BY <1>1, <1>2, <1>3, <1>4, <1>5, <1>6, <1>7 DEF Execute, Resources

\* Whatever p was, nothing is left of it.
LEMMA ExitIsOrderly ==
  ASSUME IInv, NEW p \in Processes, Exit(p)
  PROVE  Orderly(p)'
<1>1. runs'[p] = "none" /\ open'[p] = {} /\ tasks'[p] = {}
  BY DEF Exit, IInv, TypeOK
<1>2. QED
  BY <1>1, ProgramsAreKnown DEF Orderly, Leftover

\* A process that starts has executed nothing and holds nothing.
LEMMA StartIsOrderly ==
  ASSUME IInv, NEW p \in Processes, Start(p)
  PROVE  Orderly(p)'
<1>1. PICK name \in Startable : runs' = [runs EXCEPT ![p] = name]
  BY DEF Start
<1>2. /\ runs'[p] = name /\ pc'[p] = 1
      /\ open' = open /\ tasks' = tasks /\ cancelled' = cancelled
  BY <1>1 DEF Start, resources, IInv, TypeOK
<1>3. open[p] = {} /\ tasks[p] = {} /\ cancelled[p] = {}
  BY DEF Start, Running, IInv, TypeOK, Orderly, Leftover
<1>4. Executed(p)' = {}
  BY <1>2, PastGrows DEF Executed
<1>5. Follows(p)'
  BY <1>2, <1>3, <1>4 DEF Follows, FollowsOpen, FollowsTasks, FollowsDeclared, FollowsExport,
     FollowsInstruments, IsOpen, MayRun, MayExport
<1>6. QED
  BY <1>2, <1>5, ProgramsAreKnown DEF Orderly, Leftover

\* A failed start of the consumer leaves at most its subscription to main's finally.
LEMMA FailIsOrderly ==
  ASSUME IInv, NEW p \in Processes, Fail(p)
  PROVE  Orderly(p)'
<1>1. CASE ~InTry(p)
  BY <1>1, ExitIsOrderly DEF Fail
<1>2. CASE InTry(p)
  <2>1. runs' = [runs EXCEPT ![p] = "consumer_finally"] /\ tasks' = tasks
    BY <1>2 DEF Fail, resources
  <2>2. runs'[p] = "consumer_finally"
    BY <2>1 DEF IInv, TypeOK
  <2>3. tasks[p] \subseteq {"consume"}
    <3> SUFFICES ASSUME NEW t \in tasks[p]
                 PROVE  t = "consume"
      OBVIOUS
    <3>1. runs[p] = "consumer"
      BY <1>2 DEF InTry
    <3>2. t \in Coroutines /\ <<"spawn", t>> \in Executed(p)
      BY <3>1, RunningTaskIsSound DEF MayRun
    <3>3. PICK k \in 1..(Len(Program["consumer"]) + 1) : k = pc[p]
      BY <3>1 DEF IInv, TypeOK
    <3>4. QED
      BY <3>1, <3>2, <3>3, ConsumerConsumes DEF Executed
  <2>4. QED
    BY <2>1, <2>2, <2>3, ProgramsAreKnown DEF Orderly, Leftover
<1>3. QED
  BY <1>1, <1>2

\* The end of a cancelled task: what was cancelled stays cancelled.
LEMMA TaskEndIsOrderly ==
  ASSUME IInv, NEW p \in Processes, NEW t \in Coroutines, TaskEnds(p, t)
  PROVE  Orderly(p)'
<1>1. /\ t \in cancelled[p] /\ runs' = runs /\ pc' = pc /\ open' = open
      /\ enabled' = enabled /\ instrumented' = instrumented /\ declared' = declared
      /\ tasks' = [tasks EXCEPT ![p] = @ \ {t}]
      /\ cancelled' = [cancelled EXCEPT ![p] = @ \ {t}]
  BY DEF TaskEnds, control, tracing, shared
<1>2. tasks'[p] = tasks[p] \ {t} /\ cancelled'[p] = cancelled[p] \ {t}
  BY <1>1 DEF IInv, TypeOK
<1>3. Orderly(p) /\ Executed(p)' = Executed(p)
  BY <1>1 DEF IInv, Executed
<1>4. Leftover(p)'
  BY <1>1, <1>2, <1>3 DEF Orderly, Leftover
<1>5. ASSUME Follows(p)
      PROVE  Follows(p)'
  <2>1. FollowsTasks(p)'
    BY <1>1, <1>2, <1>3, <1>5 DEF Follows, FollowsTasks
  <2>2. FollowsOpen(p)' /\ FollowsDeclared(p)' /\ FollowsExport(p)' /\ FollowsInstruments(p)'
    BY <1>1, <1>3, <1>5 DEF Follows, FollowsOpen, FollowsDeclared, FollowsExport,
       FollowsInstruments
  <2>3. QED
    BY <2>1, <2>2 DEF Follows
<1>6. QED
  BY <1>1, <1>3, <1>4, <1>5 DEF Orderly

\* Nothing process q holds or runs is touched, and the broker forgets nothing.
Untouched(q) ==
  /\ runs'[q] = runs[q] /\ pc'[q] = pc[q]
  /\ open'[q] = open[q] /\ tasks'[q] = tasks[q] /\ cancelled'[q] = cancelled[q]
  /\ enabled'[q] = enabled[q] /\ instrumented'[q] = instrumented[q]
  /\ declared \subseteq declared'

\* A process nothing happens to stays in order.
LEMMA UntouchedIsOrderly ==
  ASSUME IInv, NEW q \in Processes, Untouched(q)
  PROVE  Orderly(q)'
<1>1. Orderly(q) /\ Executed(q)' = Executed(q)
  BY DEF IInv, Untouched, Executed
<1>2. Leftover(q)'
  BY <1>1 DEF Orderly, Leftover, Untouched
<1>3. ASSUME Follows(q)
      PROVE  Follows(q)'
  BY <1>1, <1>3 DEF Follows, FollowsOpen, FollowsTasks, FollowsDeclared, FollowsExport,
     FollowsInstruments, Untouched
<1>4. QED
  BY <1>1, <1>2, <1>3 DEF Orderly, Untouched

\* The steps of the process at p.
Moves(p) ==
  \/ Start(p) \/ Execute(p) \/ Stop(p) \/ Handle(p) \/ Fail(p) \/ Kill(p)
  \/ \E t \in Coroutines : TaskEnds(p, t)

\* Every step of the system is a step of one process.
LEMMA NextMoves == Next <=> \E p \in Processes : Moves(p)
BY DEF Next, Moves

\* Executing a program touches no other process.
LEMMA MovesTouchOne ==
  ASSUME IInv, NEW p \in Processes, NEW q \in Processes, q # p, Moves(p)
  PROVE  Untouched(q)
<1> USE DEF IInv, TypeOK, Untouched, control, resources, tracing, shared, Advance
<1>1. CASE Start(p)
  BY <1>1 DEF Start
<1>2. CASE Exit(p)
  BY <1>2 DEF Exit
<1>3. CASE Load(p) \/ Stop(p)
  BY <1>3 DEF Load, Stop
<1>4. CASE Setup(p) \/ Shutdown(p)
  BY <1>4 DEF Setup, Shutdown
<1>5. ASSUME NEW what \in Instruments, Instrument(p, what)
      PROVE  Untouched(q)
  BY <1>5 DEF Instrument
<1>6. ASSUME NEW r \in Resources, Open(p, r) \/ Close(p, r)
      PROVE  Untouched(q)
  BY <1>6 DEF Open, Close
<1>7. ASSUME NEW what \in Queues, Declare(p, what)
      PROVE  Untouched(q)
  BY <1>7 DEF Declare
<1>8. ASSUME NEW t \in Coroutines, Spawn(p, t) \/ Cancel(p, t) \/ Await(p, t)
      PROVE  Untouched(q)
  BY <1>8 DEF Spawn, Cancel, Await
<1>9. CASE Handle(p)
  BY <1>9 DEF Handle, Accept, PublishMessage, Consume, DeadLetter
<1>10. CASE Fail(p)
  BY <1>2, <1>10 DEF Fail
<1>11. ASSUME NEW t \in Coroutines, TaskEnds(p, t)
       PROVE  Untouched(q)
  BY <1>11 DEF TaskEnds
<1>12. QED
  <2> HIDE DEF IInv, TypeOK, Untouched, Advance
  <2>1. CASE Execute(p)
    BY <1>2, <1>3, <1>4, <1>5, <1>6, <1>7, <1>8, <2>1 DEF Execute, End, Resources
  <2>2. QED
    BY <1>1, <1>2, <1>3, <1>9, <1>10, <1>11, <2>1 DEF Moves, Kill

\* Every step leaves every process in order.
LEMMA NextOrderly ==
  ASSUME IInv, Next
  PROVE  \A q \in Processes : Orderly(q)'
<1> PICK p \in Processes : Moves(p)
  BY NextMoves
<1>1. ASSUME NEW q \in Processes, q # p
      PROVE  Orderly(q)'
  BY <1>1, MovesTouchOne, UntouchedIsOrderly
<1>2. Orderly(p)'
  <2>1. CASE Handle(p)
    <3>1. Untouched(p)
      BY <2>1 DEF Handle, Accept, PublishMessage, Consume, DeadLetter, Untouched,
         control, resources, tracing
    <3>2. QED
      BY <3>1, UntouchedIsOrderly
  <2>2. CASE Execute(p) \/ Stop(p)
    BY <2>2, ExecuteIsOrderly, ExitIsOrderly DEF End
  <2>3. CASE Kill(p)
    BY <2>3, ExitIsOrderly DEF Kill
  <2>4. QED
    BY <2>1, <2>2, <2>3, StartIsOrderly, FailIsOrderly, TaskEndIsOrderly DEF Moves
<1>3. QED
  BY <1>1, <1>2

\* What is published is routed, what is rejected finds the dead-letter queue.
LEMMA NextRouted ==
  ASSUME IInv, Next
  PROVE  Routed'
<1> PICK p \in Processes : Moves(p)
  BY NextMoves
<1>0. message \in [Events -> {"none", "ready", "acked", "dead", "dropped"}] /\ Routed
  BY DEF IInv, TypeOK
<1>1. CASE declared \subseteq declared' /\ message' = message
  BY <1>0, <1>1 DEF Routed, NothingIsDropped
<1>2. ASSUME NEW e \in Events, PublishMessage(p, e)
      PROVE  Routed'
  <2>1. "publish" \in tasks[p] /\ declared' = declared
    BY <1>2 DEF PublishMessage
  <2>2. MayRun("publish", Executed(p)) /\ Sound(Executed(p)) /\ Follows(p)
    BY <2>1, RunningTaskIsSound
  <2>3. \A r \in Routing : r \in declared
    BY <2>2 DEF Sound, Follows, FollowsDeclared
  <2>4. message' = [message EXCEPT ![e] = "ready"] /\ "dlq" \in declared
    BY <1>2, <2>3 DEF PublishMessage, Routing
  <2>5. QED
    BY <1>0, <2>1, <2>4 DEF Routed, NothingIsDropped
<1>3. ASSUME NEW e \in Events, Consume(p, e) \/ DeadLetter(p, e)
      PROVE  Routed'
  <2>1. declared' = declared /\ message[e] = "ready"
    BY <1>3 DEF Consume, DeadLetter
  <2>2. PICK m \in {"acked", "dead"} : message' = [message EXCEPT ![e] = m]
    BY <1>0, <1>3, <2>1 DEF Consume, DeadLetter, Routed
  <2>3. QED
    BY <1>0, <2>1, <2>2 DEF Routed, NothingIsDropped
<1>4. CASE Handle(p)
  BY <1>1, <1>2, <1>3, <1>4 DEF Handle, Accept
<1>5. CASE Execute(p)
  <2>1. declared \subseteq declared' /\ message' = message
    BY <1>5 DEF Execute, Load, Setup, Shutdown, End, Exit, Instrument, Open, Close, Declare,
       Spawn, Cancel, Await, shared
  <2>2. QED
    BY <1>1, <2>1
<1>6. CASE Start(p) \/ Stop(p) \/ Fail(p) \/ Kill(p) \/ \E t \in Coroutines : TaskEnds(p, t)
  <2>1. declared \subseteq declared' /\ message' = message
    BY <1>6 DEF Start, Stop, Fail, Kill, Exit, TaskEnds, shared
  <2>2. QED
    BY <1>1, <2>1
<1>7. QED
  BY <1>4, <1>5, <1>6 DEF Moves

\* A step of the main of p keeps the type of what it executes.
LEMMA AdvanceTypes ==
  ASSUME IInv, NEW p \in Processes, NEW op, NEW of, AtStep(p, op, of), Advance(p)
  PROVE  /\ runs' \in [Processes -> DOMAIN Program \cup {"none"}]
         /\ pc' \in [Processes -> Nat]
         /\ \A q \in Processes :
              pc'[q] \in IF runs'[q] = "none" THEN {0} ELSE 1..(Len(Program[runs'[q]]) + 1)
<1>1. /\ runs' = runs /\ runs[p] \in DOMAIN Program
      /\ pc' = [pc EXCEPT ![p] = pc[p] + 1] /\ pc[p] \in 1..Len(Program[runs[p]])
  BY AdvanceExecutes
<1>2. Len(Program[runs[p]]) \in Nat
  BY <1>1, LengthsAreNatural
<1>3. pc[p] + 1 \in 1..(Len(Program[runs[p]]) + 1) /\ pc[p] + 1 \in Nat
  BY <1>1, <1>2
<1>4. runs[p] # "none"
  BY <1>1, ProgramsAreKnown
<1>5. QED
  BY <1>1, <1>3, <1>4 DEF IInv, TypeOK

\* Every step of a program preserves the types; to cancel, Proper is what it takes.
LEMMA ExecuteTypes ==
  ASSUME IInv, NEW p \in Processes, Execute(p) \/ Stop(p), ~End(p)
  PROVE  TypeOK'
<1> USE DEF IInv, TypeOK, resources, tracing, shared
<1>1. CASE Load(p)
  BY <1>1, AdvanceTypes DEF Load
<1>2. CASE Stop(p)
  BY <1>2, AdvanceTypes DEF Stop
<1>3. CASE Setup(p)
  BY <1>3, AdvanceTypes, LifecycleAssumption DEF Setup
<1>4. CASE Shutdown(p)
  BY <1>4, AdvanceTypes DEF Shutdown
<1>5. ASSUME NEW what \in Instruments, Instrument(p, what)
      PROVE  TypeOK'
  BY <1>5, AdvanceTypes DEF Instrument
<1>6. ASSUME NEW r \in Resources, Open(p, r)
      PROVE  TypeOK'
  BY <1>6, AdvanceTypes DEF Open, Resources
<1>7. ASSUME NEW r \in Resources, Close(p, r)
      PROVE  TypeOK'
  BY <1>7, AdvanceTypes DEF Close
<1>8. ASSUME NEW q \in Queues, Declare(p, q)
      PROVE  TypeOK'
  BY <1>8, AdvanceTypes DEF Declare
<1>9. ASSUME NEW t \in Coroutines, Spawn(p, t)
      PROVE  TypeOK'
  BY <1>9, AdvanceTypes DEF Spawn
\* Only a task that was started, and not cancelled before, is cancelled.
<1>10. ASSUME NEW t \in Coroutines, Cancel(p, t)
       PROVE  TypeOK'
  <2>0. AtStep(p, "cancel", t) /\ Advance(p)
    BY <1>10 DEF Cancel
  <2>1. runs[p] \in Startable /\ Proper(<<"cancel", t>>, Executed(p))
    BY <2>0, AdvanceExecutes, ProgramsAreKnown
  <2>2. <<"spawn", t>> \in Executed(p) /\ <<"cancel", t>> \notin Executed(p)
    BY <2>1 DEF Proper
  <2>3. t \in tasks[p]
    BY <2>1, <2>2 DEF Orderly, Follows, FollowsTasks
  <2>4. cancelled' = [cancelled EXCEPT ![p] = @ \cup {t}]
        /\ UNCHANGED <<open, tasks, tracing, shared, faults>>
    BY <1>10 DEF Cancel
  <2>5. QED
    BY <2>0, <2>3, <2>4, AdvanceTypes
<1>11. ASSUME NEW t \in Coroutines, Await(p, t)
       PROVE  TypeOK'
  BY <1>11, AdvanceTypes DEF Await
<1>12. QED
  <2> HIDE DEF IInv, TypeOK
  <2>1. QED
    BY <1>1, <1>2, <1>3, <1>4, <1>5, <1>6, <1>7, <1>8, <1>9, <1>10, <1>11
    DEF Execute, Resources

\* Every step preserves the types.
LEMMA NextTypeOK ==
  ASSUME IInv, Next
  PROVE  TypeOK'
<1> PICK p \in Processes : Moves(p)
  BY NextMoves
<1> USE DEF IInv, TypeOK, control, resources, tracing, shared
<1>0. ASSUME Exit(p), faults' \in 0..MaxFaults
      PROVE  TypeOK'
  BY <1>0 DEF Exit
<1>00. Fault => faults' \in 0..MaxFaults
  BY LifecycleAssumption DEF Fault
<1>1. CASE Start(p)
  <2>1. PICK name \in Startable : runs' = [runs EXCEPT ![p] = name]
    BY <1>1 DEF Start
  <2>2. name \in DOMAIN Program /\ name # "none" /\ 1 \in 1..(Len(Program[name]) + 1)
    BY LengthsAreNatural, ProgramsAreKnown
  <2>3. pc' = [pc EXCEPT ![p] = 1] /\ UNCHANGED <<resources, tracing, shared, faults>>
    BY <1>1 DEF Start
  <2>4. QED
    BY <2>1, <2>2, <2>3
<1>2. CASE Fail(p)
  <2>1. CASE InTry(p)
    <3>1. /\ runs' = [runs EXCEPT ![p] = "consumer_finally"]
          /\ pc' = [pc EXCEPT ![p] = 1]
          /\ UNCHANGED <<resources, tracing, shared>> /\ faults' \in 0..MaxFaults
      BY <1>2, <1>00, <2>1 DEF Fail
    <3>2. "consumer_finally" \in DOMAIN Program /\ "consumer_finally" # "none"
          /\ 1 \in 1..(Len(Program["consumer_finally"]) + 1)
      BY LengthsAreNatural, ProgramsAreKnown
    <3>3. QED
      BY <3>1, <3>2
  <2>2. CASE ~InTry(p)
    BY <1>0, <1>00, <1>2, <2>2 DEF Fail
  <2>3. QED
    BY <2>1, <2>2
<1>3. CASE Kill(p)
  BY <1>0, <1>00, <1>3 DEF Kill
<1>4. CASE End(p)
  BY <1>0, <1>4 DEF End
<1>5. CASE Handle(p)
  BY <1>5 DEF Handle, Accept, PublishMessage, Consume, DeadLetter
<1>6. ASSUME NEW t \in Coroutines, TaskEnds(p, t)
      PROVE  TypeOK'
  BY <1>6 DEF TaskEnds
<1>7. CASE (Execute(p) \/ Stop(p)) /\ ~End(p)
  BY <1>7, ExecuteTypes
<1>8. QED
  BY <1>1, <1>2, <1>3, <1>4, <1>5, <1>6, <1>7 DEF Moves
-----------------------------------------------------------------------------
\* The state of every process is what its program has made of it, always.
THEOREM Invariance == Spec => []IInv
<1>1. IInv /\ [Next]_vars => IInv'
  <2> SUFFICES ASSUME IInv, [Next]_vars
               PROVE  IInv'
    OBVIOUS
  <2>1. CASE Next
    BY <2>1, NextTypeOK, NextOrderly, NextRouted DEF IInv
  <2>2. CASE UNCHANGED vars
    <3>1. TypeOK'
      BY <2>2 DEF IInv, TypeOK, vars, control, resources, tracing, shared
    <3>2. \A q \in Processes : Orderly(q)'
      BY <2>2, UntouchedIsOrderly DEF Untouched, vars, control, resources, tracing, shared
    <3>3. Routed'
      BY <2>2 DEF IInv, Routed, NothingIsDropped, vars, shared
    <3>4. QED
      BY <3>1, <3>2, <3>3 DEF IInv
  <2>3. QED
    BY <2>1, <2>2
<1>2. QED
  BY InitIInv, <1>1, PTL DEF Spec

\* The types of the variables, for any number of processes and faults.
THEOREM TypeCorrect == Spec => []TypeOK
BY Invariance, PTL DEF IInv

\* No background task outlives, or comes before, what it uses: lifespan and every
\* main open before they start a task, and close after they awaited its end.
THEOREM TasksSupplied == Spec => []TasksHaveResources
<1>1. IInv => TasksHaveResources
  <2> SUFFICES ASSUME IInv, NEW p \in Processes, NEW t \in tasks[p] \cap DOMAIN Needs,
                      NEW r \in Needs[t]
               PROVE  r \in open[p]
    BY DEF TasksHaveResources
  <2>1. t # "consume" /\ r \in Resources
    BY DEF Needs, Resources
  <2>2. t \in Coroutines /\ MayRun(t, Executed(p)) /\ Sound(Executed(p)) /\ Follows(p)
    BY <2>1, RunningTaskIsSound
  <2>3. IsOpen(r, Executed(p))
    BY <2>2 DEF Sound
  <2>4. QED
    BY <2>1, <2>2, <2>3 DEF Follows, FollowsOpen
<1>2. QED
  BY <1>1, Invariance, PTL

\* The broker drops nothing, in whatever order processes come, fail and go: each
\* publisher declares the topology itself before it starts to publish.
THEOREM NothingLost == Spec => []NothingIsDropped
BY Invariance, PTL DEF IInv, Routed

\* A process stopped in order leaves nothing open and no task behind.
THEOREM OrderlyStopReleases == Spec => []ReleasedOnOrderlyStop
<1>1. IInv => ReleasedOnOrderlyStop
  <2> SUFFICES ASSUME IInv, NEW p \in Processes, AtEnd(p), runs[p] # "consumer_finally"
               PROVE  tasks[p] = {} /\ open[p] = {}
    BY DEF ReleasedOnOrderlyStop
  <2>1. runs[p] \in Startable
    BY ProgramsAreKnown DEF IInv, TypeOK, AtEnd, Running
  <2>2. Follows(p) /\ Disciplined(Program[runs[p]])
    BY <2>1, StartableIsDisciplined DEF IInv, Orderly
  <2>3. pc[p] = Len(Program[runs[p]]) + 1
    <3>1. Len(Program[runs[p]]) \in Nat
      BY <2>2 DEF Disciplined
    <3>2. pc[p] \in 1..(Len(Program[runs[p]]) + 1)
      BY <2>1, ProgramsAreKnown DEF IInv, TypeOK
    <3>3. QED
      BY <3>1, <3>2 DEF AtEnd
  <2>4. Complete(Executed(p))
    BY <2>2, <2>3 DEF Disciplined, Executed
  <2>5. tasks[p] \subseteq Coroutines /\ open[p] \subseteq Resources
    BY DEF IInv, TypeOK, Resources
  <2>6. QED
    BY <2>2, <2>4, <2>5 DEF Complete, Follows, FollowsTasks, FollowsOpen
<1>2. QED
  BY <1>1, Invariance, PTL

\* With export enabled nothing is served, published, dispatched or consumed
\* before the exporter is set up and attached, or after it was shut down.
THEOREM WorkObserved == Spec => []WorkIsObserved
<1>1. IInv => WorkIsObserved
  <2> SUFFICES ASSUME IInv, NEW p \in Processes, OtelEnabled,
                      tasks[p] # {} \/ AtStep(p, "serve", "requests"),
                      runs[p] # "consumer_finally"
               PROVE  enabled[p] /\ {"logging", "sqlalchemy"} \subseteq instrumented[p]
    BY DEF WorkIsObserved
  <2>1. Follows(p) /\ Foundation \subseteq Executed(p) /\ MayExport(Executed(p))
    <3>1. CASE tasks[p] # {}
      BY <3>1, RunningTaskIsSound DEF Sound
    <3>2. CASE AtStep(p, "serve", "requests")
      <4>1. runs[p] \in Startable
        BY <3>2, ProgramsAreKnown DEF IInv, TypeOK, AtStep, Running
      <4>2. Disciplined(Program[runs[p]])
        BY <4>1, StartableIsDisciplined
      <4>3. pc[p] \in 1..Len(Program[runs[p]])
        <5>1. Len(Program[runs[p]]) \in Nat
          BY <4>2 DEF Disciplined
        <5>2. pc[p] \in 1..(Len(Program[runs[p]]) + 1)
          BY <4>1, ProgramsAreKnown DEF IInv, TypeOK
        <5>3. QED
          BY <3>2, <5>1, <5>2 DEF AtStep, AtEnd, Running
      <4>4. Proper(<<"serve", "requests">>, Executed(p))
        BY <3>2, <4>2, <4>3 DEF Disciplined, AtStep, Executed
      <4>5. QED
        BY <4>1, <4>4 DEF Proper, IInv, Orderly
    <3>3. QED
      BY <3>1, <3>2
  <2>2. enabled[p]
    BY <2>1 DEF Follows, FollowsExport
  <2>3. QED
    BY <2>1, <2>2 DEF Follows, FollowsInstruments, Foundation
<1>2. QED
  BY <1>1, Invariance, PTL
=============================================================================
