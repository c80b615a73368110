------------------------------ MODULE Shutdown ------------------------------
(***************************************************************************)
(* Graceful shutdown: lib/src/shutdown.rs, its use by the application      *)
(* (endpoint/src/main.rs), by Core::listen, and by the connection tasks    *)
(* Core::listen spawns (tunnel, ping, speedtest and subscription           *)
(* listeners, which all open with the same lines).                         *)
(*                                                                         *)
(* Connection tasks run on the worker threads of the runtime.  The Shutdown*)
(* object is behind a std Mutex: a task that finds it locked blocks its    *)
(* worker, and the task that waits for completion() holds it while waiting.*)
(* Core::listen and the interrupt task are polled by the main thread.      *)
(***************************************************************************)
EXTENDS Naturals, FiniteSets

CONSTANTS
    Task,           \* the connection tasks
    Workers,        \* worker threads of the runtime
    Applications    \* which applications are considered

ASSUME TaskAssumption == IsFiniteSet(Task)
ASSUME WorkersAssumption == Workers \in Nat \ {0}
ASSUME ApplicationsAssumption == Applications \subseteq {"endpoint", "usage"}

VARIABLES
    application,    \* main.rs, or one that follows the usage in shutdown.rs
    app,        \* the interrupt task: waiting, submitted, completing, completed
    core,       \* Core::listen: listening or returned
    exited,     \* the process ended
    task,       \* a connection task: unborn, spawned, locking, listening,
                \* draining, done
    guards,     \* who holds a CompletionGuard
    subscribed  \* who will receive, or received, the notification

vars == <<application, app, core, exited, task, guards, subscribed>>

Core == "core"      \* Core::listen among the holders of guards

ASSUME CoreAssumption == Core \notin Task

\* The first poll of the interrupt task only registers the signal, and the
\* first poll of Core::listen subscribes it: both precede any interrupt.
Init ==
    /\ application \in Applications
    /\ app = "waiting"
    /\ core = "listening"
    /\ exited = FALSE
    /\ task = [t \in Task |-> "unborn"]
    /\ guards = {Core}
    /\ subscribed = {Core}

\* The select of main.rs: the process ends with Core::listen or with the
\* interrupt task, whichever returns first.
SelectsListen == application = "endpoint"

\* completion(&mut self) is called through the MutexGuard.
MutexFree == app # "completing"

Blocked == {t \in Task : task[t] = "locking"}

\* A worker thread is available to poll a task.
WorkerFree == Cardinality(Blocked) < Workers

-----------------------------------------------------------------------------
(* The application and Core::listen.                                       *)

\* The broadcast reaches the handlers that exist now.
Submit ==
    /\ app = "waiting" /\ ~exited
    /\ app' = "submitted"
    /\ UNCHANGED <<application, core, exited, task, guards, subscribed>>

\* completion: locks the mutex again and drops the object's own sender.
BeginCompletion ==
    /\ app = "submitted" /\ ~exited
    /\ app' = "completing"
    /\ UNCHANGED <<application, core, exited, task, guards, subscribed>>

\* The channel closes when the last guard is dropped.
CompletionReturns ==
    /\ app = "completing" /\ ~exited
    /\ guards = {}
    /\ app' = "completed"
    /\ exited' = SelectsListen
    /\ UNCHANGED <<application, core, task, guards, subscribed>>

CoreReturns ==
    /\ core = "listening" /\ ~exited
    /\ core' = "returned"
    /\ guards' = guards \ {Core}
    /\ exited' = SelectsListen

\* Mutant: Core::listen waits for its connections.
MutantCoreNotified ==
    /\ app # "waiting" /\ guards = {Core}
    /\ CoreReturns
    /\ UNCHANGED <<application, app, task, subscribed>>

\* The notification ends Core::listen.
CoreNotified ==
    /\ app # "waiting"
    /\ CoreReturns
    /\ UNCHANGED <<application, app, task, subscribed>>

\* A listener fails or a fatal error is reported.
CoreFails ==
    /\ CoreReturns
    /\ UNCHANGED <<application, app, task, subscribed>>

-----------------------------------------------------------------------------
(* The connection tasks.                                                   *)

SetTask(t, s) == task' = [task EXCEPT ![t] = s]

Spawn(t) ==
    /\ core = "listening" /\ ~exited
    /\ task[t] = "unborn"
    /\ SetTask(t, "spawned")
    /\ UNCHANGED <<application, app, core, exited, guards, subscribed>>

\* The mutex is held: the worker thread waits in lock().
Lock(t) ==
    /\ task[t] = "spawned" /\ WorkerFree /\ ~exited
    /\ ~MutexFree
    /\ SetTask(t, "locking")
    /\ UNCHANGED <<application, app, core, exited, guards, subscribed>>

\* notification_handler and completion_guard, which gives None once completion
\* dropped its sender.
Subscribe(t) ==
    /\ \/ task[t] = "spawned" /\ WorkerFree
       \/ task[t] = "locking"
    /\ MutexFree /\ ~exited
    /\ SetTask(t, "listening")
    /\ subscribed' = IF app = "waiting" THEN subscribed \union {t} ELSE subscribed
    /\ guards' = IF app = "completed" THEN guards ELSE guards \union {t}
    /\ UNCHANGED <<application, app, core, exited>>

\* Mutant: the guard is dropped before the connection is drained.
MutantNotified(t) ==
    /\ task[t] = "listening" /\ WorkerFree /\ ~exited
    /\ app # "waiting" /\ t \in subscribed
    /\ SetTask(t, "draining")
    /\ guards' = guards \ {t}
    /\ UNCHANGED <<application, app, core, exited, subscribed>>

\* The notification starts the connection's graceful_shutdown.
Notified(t) ==
    /\ task[t] = "listening" /\ WorkerFree /\ ~exited
    /\ app # "waiting" /\ t \in subscribed
    /\ SetTask(t, "draining")
    /\ UNCHANGED <<application, app, core, exited, guards, subscribed>>

\* Mutant: the guard is never dropped.
MutantFinish(t) ==
    /\ WorkerFree /\ ~exited
    /\ SetTask(t, "done")
    /\ UNCHANGED <<application, app, core, exited, guards, subscribed>>

Finish(t) ==
    /\ WorkerFree /\ ~exited
    /\ SetTask(t, "done")
    /\ guards' = guards \ {t}
    /\ UNCHANGED <<application, app, core, exited, subscribed>>

Drained(t) == task[t] = "draining" /\ Finish(t)

\* The connection ends by itself, before or after it subscribed.
Ends(t) == task[t] \in {"spawned", "listening"} /\ Finish(t)

TaskRuns(t) == Lock(t) \/ Subscribe(t) \/ Notified(t) \/ Drained(t)

Terminated == exited /\ UNCHANGED vars

Next ==
    \/ Submit \/ BeginCompletion \/ CompletionReturns \/ CoreNotified \/ CoreFails
    \/ \E t \in Task : Spawn(t) \/ TaskRuns(t) \/ Ends(t)
    \/ Terminated

Spec == Init /\ [][Next]_vars

\* The runtime polls the main thread and every ready task while a worker is
\* free; a client lets a graceful shutdown finish.
Fairness ==
    /\ WF_vars(BeginCompletion \/ CompletionReturns)
    /\ WF_vars(CoreNotified)
    /\ \A t \in Task : WF_vars(TaskRuns(t))

FairSpec == Spec /\ Fairness

-----------------------------------------------------------------------------
(* Properties                                                              *)

\* Tasks at work that were told, or can be told, to shut down gracefully.
Graceful(t) == task[t] \in {"listening", "draining"}

\* When completion() returns, Core::listen returned and no connection that
\* subscribed is still open ("Wait until all the things commit graceful
\* shutdowns", shutdown.rs 74).
CompletionMeansQuiet ==
    [][app # "completed" /\ app' = "completed" =>
          core = "returned" /\ \A t \in Task : ~Graceful(t)]_vars

\* Between submit() and the end of completion() the guards are exactly those of
\* Core::listen and of the open connections: the wait ends with the last of them
\* and with nothing else.
WaitsForOpenConnections ==
    app \in {"submitted", "completing"} =>
        guards \ {Core} = {t \in Task : Graceful(t)}

\* Once completion() waits and everything that holds a guard was notified, the
\* shutdown completes, unless the process ends first.
ShutdownCompletes ==
    (app = "completing" /\ guards \subseteq subscribed) ~> (app = "completed" \/ exited)

\* An interrupted endpoint exits, however few worker threads it has and
\* whatever blocks them: the main thread polls Core::listen, which was
\* notified, itself (main.rs 736-754).
InterruptEndsProcess == SelectsListen /\ app # "waiting" ~> exited

\* With a worker to spare and a runtime that polls what is ready, a shutdown
\* ends: completion() returns, and the interrupted endpoint exits.
ShutdownEnds == Fairness => ShutdownCompletes /\ InterruptEndsProcess

\* submit() tells every thing completion() then waits for ("Tell the things to
\* do graceful shutdowns", shutdown.rs 67).
GuardsAreNotified == app = "completing" => guards \subseteq subscribed

\* The interrupted process exits only after the connections shut down
\* gracefully (the usage in shutdown.rs 13-14 and main.rs 731-732).
ExitMeansQuiet ==
    exited /\ app # "waiting" => \A t \in Task : t \in subscribed => ~Graceful(t)
=============================================================================
