-------------------------- MODULE ProcessLifecycle --------------------------
(***************************************************************************)
(* How the processes of the service come up and go down: the lifespan of   *)
(* the API (with or without its in-process publisher and dispatcher) and   *)
(* the main of the publisher, the dispatcher and the consumer.             *)
(*                                                                         *)
(* A process executes the steps of its program in order; every step is an  *)
(* await or a call after which other processes may have moved.  The        *)
(* processes meet at the broker, whose durable exchange and queues each    *)
(* declares for itself.                                                    *)
(***************************************************************************)
EXTENDS FiniteSets, Naturals, Sequences

CONSTANTS Processes,    \* places where a process can run
          Events,       \* payments the API can accept
          OtelEnabled,  \* otel_enabled
          MaxFaults     \* bound on failed steps and kills

ASSUME LifecycleAssumption == OtelEnabled \in BOOLEAN /\ MaxFaults \in Nat

VARIABLES runs,          \* runs[p]: the program p executes, or "none"
          pc,            \* pc[p]: the index of its next step
          open,          \* open[p]: the engine, connection and client it has open
          tasks,         \* tasks[p]: its background coroutines
          cancelled,     \* cancelled[p]: those that were asked to stop
          enabled,       \* enabled[p]: Observability.enabled
          instrumented,  \* instrumented[p]: what auto-instrumentation covers
          declared,      \* what the broker has been told to declare
          carrier,       \* carrier[e]: the trace context in the outbox payload
          message,       \* message[e]: what became of the message
          faults         \* failed steps and kills so far

control == <<runs, pc>>
resources == <<open, tasks, cancelled>>
tracing == <<enabled, instrumented>>
shared == <<declared, carrier, message>>
vars == <<control, resources, tracing, shared, faults>>
-----------------------------------------------------------------------------
\* get_settings comes first: the profile of APP_ENV and its validators.
Observed == << <<"load", "settings">>, <<"setup", "otel">>, <<"instrument", "logging">> >>

\* Mutant of Database: instrumented before the engine exists.
DatabaseLate == << <<"instrument", "sqlalchemy">>, <<"open", "db">> >>

Database == << <<"open", "db">>, <<"instrument", "sqlalchemy">> >>

Topology == << <<"declare", "exchange">>, <<"declare", "dlq">>,
               <<"declare", "queue">>, <<"declare", "binding">> >>

\* Mutant of StartPublisher: the task started before the topology is declared.
StartPublisherEarly == << <<"open", "broker">>, <<"spawn", "publish">> >> \o Topology

StartPublisher == << <<"open", "broker">> >> \o Topology \o << <<"spawn", "publish">> >>

StartDispatcher == << <<"open", "client">>, <<"spawn", "dispatch">> >>

\* Mutant of StopTask: the resource closed without awaiting the task.
StopTaskUnawaited(task, resource) ==
  << <<"cancel", task>>, <<"close", resource>>, <<"await", task>> >>

\* Mutant of StopTask: the task awaited without being cancelled.
StopTaskUncancelled(task, resource) == << <<"await", task>>, <<"close", resource>> >>

\* Mutant of StopTask: the resource left open.
StopTaskOnly(task, resource) == << <<"cancel", task>>, <<"await", task>> >>

StopTask(task, resource) ==
  << <<"cancel", task>>, <<"await", task>>, <<"close", resource>> >>

Release == << <<"close", "db">>, <<"shutdown", "otel">> >>

\* In the programs below, a main that awaits run_forever itself is written like
\* the lifespan: interrupting it cancels the coroutine and waits for its end.

\* main.py: instrument_fastapi runs when the module is imported, the rest in
\* the lifespan, which serves requests between its two halves.
Lifespan(start, stop) ==
  << <<"instrument", "fastapi">> >> \o Observed \o Database \o start
    \o << <<"serve", "requests">> >> \o stop \o Release

Publisher ==
  Observed \o Database \o StartPublisher
    \o << <<"serve", "loop">> >> \o StopTask("publish", "broker") \o Release

Dispatcher ==
  Observed \o << <<"instrument", "httpx">> >> \o Database \o StartDispatcher
    \o << <<"serve", "loop">> >> \o StopTask("dispatch", "client") \o Release

\* The consumer's main names neither its handlers nor the connection: when run()
\* returns or raises, FastStream has stopped the subscription, waited for the
\* handlers under way and closed the broker's connection.  That they end before it
\* is what the library does, and is taken from there.
StopSubscription == StopTask("consume", "broker")

\* FastStream declares the queue of a subscriber and starts it before it calls
\* the after_startup hook, which declares the topology.
Consumer ==
  Observed \o Database
    \o << <<"open", "broker">>, <<"declare", "queue">>, <<"spawn", "consume">> >>
    \o Topology \o << <<"serve", "loop">> >> \o StopSubscription \o Release

Program ==
  [api |-> Lifespan(<<>>, <<>>),
   api_publisher |-> Lifespan(StartPublisher, StopTask("publish", "broker")),
   api_dispatcher |-> Lifespan(StartDispatcher, StopTask("dispatch", "client")),
   api_local |-> Lifespan(StartPublisher \o StartDispatcher,
                          StopTask("dispatch", "client") \o StopTask("publish", "broker")),
   publisher |-> Publisher,
   dispatcher |-> Dispatcher,
   consumer |-> Consumer,
   consumer_finally |-> Release]

Startable == DOMAIN Program \ {"consumer_finally"}
-----------------------------------------------------------------------------
Queues == {"exchange", "dlq", "queue", "binding"}
Coroutines == {"publish", "dispatch", "consume"}
Instruments == {"fastapi", "sqlalchemy", "httpx", "logging"}

TypeOK ==
  /\ runs \in [Processes -> DOMAIN Program \cup {"none"}]
  /\ pc \in [Processes -> Nat]
  /\ \A p \in Processes :
       pc[p] \in IF runs[p] = "none" THEN {0} ELSE 1..(Len(Program[runs[p]]) + 1)
  /\ open \in [Processes -> SUBSET {"db", "broker", "client"}]
  /\ tasks \in [Processes -> SUBSET Coroutines]
  /\ cancelled \in [Processes -> SUBSET Coroutines]
  /\ \A p \in Processes : cancelled[p] \subseteq tasks[p]
  /\ enabled \in [Processes -> BOOLEAN]
  /\ instrumented \in [Processes -> SUBSET Instruments]
  /\ declared \subseteq Queues
  /\ carrier \in [Events -> {"none", "empty", "request"}]
  /\ message \in [Events -> {"none", "ready", "acked", "dead", "dropped"}]
  /\ faults \in 0..MaxFaults

Init ==
  /\ runs = [p \in Processes |-> "none"]
  /\ pc = [p \in Processes |-> 0]
  /\ open = [p \in Processes |-> {}]
  /\ tasks = [p \in Processes |-> {}]
  /\ cancelled = [p \in Processes |-> {}]
  /\ enabled = [p \in Processes |-> FALSE]
  /\ instrumented = [p \in Processes |-> {}]
  /\ declared = {}
  /\ carrier = [e \in Events |-> "none"]
  /\ message = [e \in Events |-> "none"]
  /\ faults = 0
-----------------------------------------------------------------------------
Running(p) == runs[p] # "none"
AtEnd(p) == Running(p) /\ pc[p] > Len(Program[runs[p]])
AtStep(p, op, of) ==
  Running(p) /\ ~AtEnd(p) /\ Program[runs[p]][pc[p]] = <<op, of>>
Advance(p) == pc' = [pc EXCEPT ![p] = @ + 1] /\ UNCHANGED runs

Start(p) ==
  /\ ~Running(p)
  /\ \E name \in Startable : runs' = [runs EXCEPT ![p] = name]
  /\ pc' = [pc EXCEPT ![p] = 1]
  /\ UNCHANGED <<resources, tracing, shared, faults>>

\* The operating system reclaims all a process has.
Exit(p) ==
  /\ runs' = [runs EXCEPT ![p] = "none"]
  /\ pc' = [pc EXCEPT ![p] = 0]
  /\ open' = [open EXCEPT ![p] = {}]
  /\ tasks' = [tasks EXCEPT ![p] = {}]
  /\ cancelled' = [cancelled EXCEPT ![p] = {}]
  /\ enabled' = [enabled EXCEPT ![p] = FALSE]
  /\ instrumented' = [instrumented EXCEPT ![p] = {}]
  /\ UNCHANGED shared

End(p) == AtEnd(p) /\ Exit(p) /\ UNCHANGED faults

Load(p) ==
  /\ AtStep(p, "load", "settings")
  /\ Advance(p)
  /\ UNCHANGED <<resources, tracing, shared, faults>>

Setup(p) ==
  /\ AtStep(p, "setup", "otel")
  /\ Advance(p)
  /\ enabled' = [enabled EXCEPT ![p] = OtelEnabled]
  /\ UNCHANGED <<resources, instrumented, shared, faults>>

\* A no-op while export is disabled; the engine must exist to be instrumented.
Instrument(p, what) ==
  /\ AtStep(p, "instrument", what)
  /\ Advance(p)
  /\ instrumented' =
       IF enabled[p] /\ (what = "sqlalchemy" => "db" \in open[p])
         THEN [instrumented EXCEPT ![p] = @ \cup {what}]
         ELSE instrumented
  /\ UNCHANGED <<resources, enabled, shared, faults>>

Shutdown(p) ==
  /\ AtStep(p, "shutdown", "otel")
  /\ Advance(p)
  /\ enabled' = [enabled EXCEPT ![p] = FALSE]
  /\ UNCHANGED <<resources, instrumented, shared, faults>>

Open(p, resource) ==
  /\ AtStep(p, "open", resource)
  /\ Advance(p)
  /\ open' = [open EXCEPT ![p] = @ \cup {resource}]
  /\ UNCHANGED <<tasks, cancelled, tracing, shared, faults>>

Close(p, resource) ==
  /\ AtStep(p, "close", resource)
  /\ Advance(p)
  /\ open' = [open EXCEPT ![p] = @ \ {resource}]
  /\ UNCHANGED <<tasks, cancelled, tracing, shared, faults>>

Declare(p, what) ==
  /\ AtStep(p, "declare", what)
  /\ Advance(p)
  /\ declared' = declared \cup {what}
  /\ UNCHANGED <<resources, tracing, carrier, message, faults>>

Spawn(p, task) ==
  /\ AtStep(p, "spawn", task)
  /\ Advance(p)
  /\ tasks' = [tasks EXCEPT ![p] = @ \cup {task}]
  /\ UNCHANGED <<open, cancelled, tracing, shared, faults>>

\* A signal ends the server, or is raised in the loop main awaits.
Stop(p) ==
  /\ AtStep(p, "serve", "requests") \/ AtStep(p, "serve", "loop")
  /\ Advance(p)
  /\ UNCHANGED <<resources, tracing, shared, faults>>

Cancel(p, task) ==
  /\ AtStep(p, "cancel", task)
  /\ Advance(p)
  /\ cancelled' = [cancelled EXCEPT ![p] = @ \cup {task}]
  /\ UNCHANGED <<open, tasks, tracing, shared, faults>>

\* Mutant of TaskEnds: the cancellation is not forgotten with the task.
TaskEndsOnly(p, task) ==
  /\ task \in cancelled[p]
  /\ tasks' = [tasks EXCEPT ![p] = @ \ {task}]
  /\ UNCHANGED <<control, open, cancelled, tracing, shared, faults>>

\* run_forever survives every exception but the one a cancellation raises.
TaskEnds(p, task) ==
  /\ task \in cancelled[p]
  /\ tasks' = [tasks EXCEPT ![p] = @ \ {task}]
  /\ cancelled' = [cancelled EXCEPT ![p] = @ \ {task}]
  /\ UNCHANGED <<control, open, tracing, shared, faults>>

Await(p, task) ==
  /\ AtStep(p, "await", task)
  /\ task \notin tasks[p]
  /\ Advance(p)
  /\ UNCHANGED <<resources, tracing, shared, faults>>
-----------------------------------------------------------------------------
\* POST /payments stores the active trace context, if any, with the event: a
\* span is active when the FastAPI application is instrumented.
Accept(p, e) ==
  /\ AtStep(p, "serve", "requests")
  /\ carrier[e] = "none"
  /\ carrier' = [carrier EXCEPT ![e] =
       IF "fastapi" \in instrumented[p] THEN "request" ELSE "empty"]
  /\ UNCHANGED <<control, resources, tracing, declared, message, faults>>

\* The exchange drops what no binding matches.
PublishMessage(p, e) ==
  /\ "publish" \in tasks[p]
  /\ carrier[e] # "none" /\ message[e] = "none"
  /\ message' = [message EXCEPT ![e] =
       IF {"exchange", "binding"} \subseteq declared THEN "ready" ELSE "dropped"]
  /\ UNCHANGED <<control, resources, tracing, declared, carrier, faults>>

Consume(p, e) ==
  /\ "consume" \in tasks[p]
  /\ message[e] = "ready"
  /\ message' = [message EXCEPT ![e] = "acked"]
  /\ UNCHANGED <<control, resources, tracing, declared, carrier, faults>>

\* A rejected message goes to the queue named by the dead-letter routing key,
\* through the default exchange, which drops what has no queue.
DeadLetter(p, e) ==
  /\ "consume" \in tasks[p]
  /\ message[e] = "ready"
  /\ message' = [message EXCEPT ![e] = IF "dlq" \in declared THEN "dead" ELSE "dropped"]
  /\ UNCHANGED <<control, resources, tracing, declared, carrier, faults>>
-----------------------------------------------------------------------------
Fault == faults < MaxFaults /\ faults' = faults + 1

\* Creating the engine or the HTTP client connects to nothing; all else may raise.
CanRaise(p) ==
  \/ AtStep(p, "load", "settings")
  \/ AtStep(p, "open", "broker")
  \/ \E r \in {"db", "broker", "client"} : AtStep(p, "close", r)
  \/ \E q \in Queues : AtStep(p, "declare", q)

\* Only the consumer starts its broker inside the try whose finally releases the
\* database; everywhere else the exception of a step ends the process.
InTry(p) == runs[p] = "consumer" /\ "db" \in open[p] /\ ~AtStep(p, "close", "db")

Fail(p) ==
  /\ Fault
  /\ CanRaise(p)
  /\ IF InTry(p)
       THEN /\ runs' = [runs EXCEPT ![p] = "consumer_finally"]
            /\ pc' = [pc EXCEPT ![p] = 1]
            /\ UNCHANGED <<resources, tracing, shared>>
       ELSE Exit(p)

\* SIGKILL, or SIGTERM for the mains that asyncio.run alone looks after.
Kill(p) == Fault /\ Running(p) /\ Exit(p)

Execute(p) ==
  \/ Load(p) \/ Setup(p) \/ Shutdown(p) \/ End(p)
  \/ \E what \in Instruments : Instrument(p, what)
  \/ \E r \in {"db", "broker", "client"} : Open(p, r) \/ Close(p, r)
  \/ \E what \in Queues : Declare(p, what)
  \/ \E t \in Coroutines : Spawn(p, t) \/ Cancel(p, t) \/ Await(p, t)

Handle(p) ==
  \E e \in Events : Accept(p, e) \/ PublishMessage(p, e) \/ Consume(p, e) \/ DeadLetter(p, e)

Next ==
  \E p \in Processes :
    \/ Start(p) \/ Execute(p) \/ Stop(p) \/ Handle(p) \/ Fail(p) \/ Kill(p)
    \/ \E t \in Coroutines : TaskEnds(p, t)

\* A running process executes its steps, and a cancelled task is resumed with
\* the cancellation.
Fairness ==
  \A p \in Processes :
    /\ WF_vars(Execute(p))
    /\ \A t \in Coroutines : WF_vars(TaskEnds(p, t))

Spec == Init /\ [][Next]_vars /\ Fairness
-----------------------------------------------------------------------------
Needs == [publish |-> {"db", "broker"}, dispatch |-> {"db", "client"}]

\* No background task of lifespan or main runs before its engine, connection or
\* client is open, or after it was closed, at whatever step start or stop is.
TasksHaveResources ==
  \A p \in Processes : \A t \in tasks[p] \cap DOMAIN Needs : Needs[t] \subseteq open[p]

\* The broker drops nothing, whichever processes are up, in whatever order they
\* come and fail: what is published is routed, what is rejected finds the DLQ.
NothingIsDropped == \A e \in Events : message[e] # "dropped"

\* A process that was stopped, neither killed nor failed, ends with every task
\* over and every connection closed.
ReleasedOnOrderlyStop ==
  \A p \in Processes : AtEnd(p) /\ runs[p] # "consumer_finally" =>
    tasks[p] = {} /\ open[p] = {}

\* With export enabled, whatever serves or works in the background does so with
\* logs correlated, statements traced and the exporter not yet shut down (but for
\* what FastStream still runs when a failed start has reached main's finally).
WorkIsObserved ==
  \A p \in Processes :
    OtelEnabled /\ (tasks[p] # {} \/ AtStep(p, "serve", "requests")) =>
      \/ enabled[p] /\ {"logging", "sqlalchemy"} \subseteq instrumented[p]
      \/ runs[p] = "consumer_finally"

Stopping(p) == \E t \in Coroutines : AtStep(p, "cancel", t) \/ AtStep(p, "await", t)

\* Graceful shutdown terminates: a process that awaits its tasks gets to its end.
StopEnds == \A p \in Processes : Stopping(p) ~> ~Running(p)

\* README and ADR 0007: one distributed trace from POST /payments to the webhook,
\* so an event recorded with export enabled carries the context of its request.
EventsCarryTrace == OtelEnabled => \A e \in Events : carrier[e] # "empty"
=============================================================================
