---------------------------- MODULE NodeBackend -----------------------------
(***************************************************************************)
(* withThreadPool over the backends that give it initThreadPool and        *)
(* exitThreadPool.  bindings/js/node/node-backend.js starts its workers    *)
(* once and keeps them; the web backend, whose pool lives behind a worker, *)
(* is any backend that starts and stops.                                   *)
(***************************************************************************)
EXTENDS ThreadPool

CONSTANT Workers  \* the threads of the pool of the node backend, at least one

ASSUME WorkersAssumption == Workers # {}

VARIABLES
  platform,              \* which backend was loaded
  wasmThreadPoolRunning,
  worker                 \* the promise that startWorkers makes for each worker

backendVars == <<platform, wasmThreadPoolRunning, worker>>
allVars == <<vars, backendVars>>

InitBackend ==
  /\ Init
  /\ platform \in {"node", "web"} /\ wasmThreadPoolRunning = FALSE
  /\ worker = [w \in Workers |-> "none"]

-----------------------------------------------------------------------------
(* initThreadPool *)

\* This step of the state machine calls initThreadPool.
CallsInit == initPromise # "pending" /\ initPromise' = "pending"

\* startWorkers is called unless the pool is running.
InitThreadPool ==
  /\ worker' = IF platform = "node" /\ CallsInit /\ ~wasmThreadPoolRunning
               THEN [w \in Workers |-> "pending"] ELSE worker
  /\ UNCHANGED <<platform, wasmThreadPoolRunning>>

CallInits(c) == Call(c) /\ InitThreadPool
ExitInits == ChainedInit /\ InitThreadPool

\* The worker's first message, or its error or exit before that.
WorkerSettles(w) ==
  /\ worker[w] = "pending"
  /\ \E outcome \in {"ready", "rejected"} : worker' = [worker EXCEPT ![w] = outcome]
  /\ UNCHANGED <<vars, platform, wasmThreadPoolRunning>>

\* Mutant: no timer, the start waits for the worker as long as it takes.
NeverTimesOut(w) == worker[w] = "pending" /\ UNCHANGED allVars

StartupTimeout(w) ==
  /\ worker[w] = "pending"
  /\ worker' = [worker EXCEPT ![w] = "rejected"]
  /\ UNCHANGED <<vars, platform, wasmThreadPoolRunning>>

\* Mutant: Promise.any for Promise.all.
AnyReady == \E w \in Workers : worker[w] = "ready"

\* Promise.all over the workers, then workersReady
AllReady == \A w \in Workers : worker[w] = "ready"

StartResolves ==
  /\ InitResolves
  /\ platform = "node" => wasmThreadPoolRunning \/ AllReady
  /\ wasmThreadPoolRunning' = (platform = "node")
  /\ UNCHANGED <<platform, worker>>

StartRejects ==
  /\ InitRejects
  /\ platform = "node" => ~wasmThreadPoolRunning /\ \E w \in Workers : worker[w] = "rejected"
  /\ UNCHANGED backendVars

\* exitThreadPool: on node nothing is stopped, and nothing can fail
ExitThreadPoolRejects(c) == ExitRejects(c) /\ platform = "web" /\ UNCHANGED backendVars

-----------------------------------------------------------------------------
StartSettles == StartResolves \/ StartRejects

NextBackend ==
  \/ ExitInits \/ StartSettles
  \/ \E w \in Workers : WorkerSettles(w) \/ StartupTimeout(w)
  \/ \E c \in Calls : CallInits(c) \/ (Step(c) /\ UNCHANGED backendVars) \/ ExitThreadPoolRejects(c)

\* Timers fire; the worker threads themselves owe nothing.  The web backend
\* settles its promises, the event loop runs every reaction, every run() ends.
BackendFairness ==
  /\ WF_allVars(ExitInits) /\ WF_allVars(StartSettles)
  /\ \A w \in Workers : WF_allVars(StartupTimeout(w))
  /\ \A c \in Calls : WF_allVars(Step(c) /\ UNCHANGED backendVars)

BackendSpec == InitBackend /\ [][NextBackend]_allVars /\ BackendFairness

-----------------------------------------------------------------------------
\* On node a run() has all the workers, from the only start there ever is: the
\* pool that was given back is found running, and a failed one is not retried.
RunsHaveWorkers ==
  [][platform = "node" =>
       /\ (\E c \in Calls : pc'[c] = "running") => \A w \in Workers : worker'[w] = "ready"
       /\ \A w \in Workers : worker'[w] = "pending" => worker[w] \in {"none", "pending"}]_allVars
=============================================================================
