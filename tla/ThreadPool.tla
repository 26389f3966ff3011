----------------------------- MODULE ThreadPool -----------------------------
(***************************************************************************)
(* WithThreadPool of lib/proof-system/workers.ts: the reference-counted    *)
(* state machine around the backend's initThreadPool / exitThreadPool that *)
(* lets several compile and prove calls share one pool of wasm workers.    *)
(*                                                                         *)
(* One action is one stretch of synchronous JavaScript: from the start of  *)
(* a call, or from the settling of the promise it awaits, to its next      *)
(* await.  Everything between two awaits is atomic in the code.            *)
(***************************************************************************)
EXTENDS Integers, FiniteSets

CONSTANTS Calls,         \* the calls of withThreadPool, each made once
          InitMayFail,   \* TRUE: initThreadPool() may reject
          ExitMayFail    \* TRUE: exitThreadPool() may reject

ASSUME CallsAssumption == IsFiniteSet(Calls)
ASSUME FailureAssumption == InitMayFail \in BOOLEAN /\ ExitMayFail \in BOOLEAN

VARIABLES
  state,        \* the type of ThreadPoolState
  isNeededBy,   \* the reference count
  initPromise,  \* the promise of the 'initializing' state
  exitPromise,  \* the promise of the 'exiting' state
  backend,      \* what the calls of init/exitThreadPool made of the pool
  pc            \* where each call is

vars == <<state, isNeededBy, initPromise, exitPromise, backend, pc>>

TypeOK ==
  /\ state \in {"none", "initializing", "running", "exiting"}
  /\ isNeededBy \in Nat
  /\ initPromise \in {"unset", "afterExit", "pending", "resolved", "rejected"}
  /\ exitPromise \in {"unset", "pending", "resolved", "rejected"}
  /\ backend \in {"down", "starting", "up", "stopping", "failed"}
  /\ pc \in [Calls -> {"new", "awaitInit", "running", "awaitExit",
                       "done", "initRejected", "exitRejected", "bug"}]

Init ==
  /\ state = "none" /\ isNeededBy = 0
  /\ initPromise = "unset" /\ exitPromise = "unset"
  /\ backend = "down"
  /\ pc = [c \in Calls |-> "new"]

-----------------------------------------------------------------------------
(* The call up to its first await. *)

\* none: initThreadPool() is called and its promise kept in the state
EnterNone(c) ==
  /\ state = "none"
  /\ state' = "initializing" /\ initPromise' = "pending" /\ backend' = "starting"
  /\ pc' = [pc EXCEPT ![c] = "awaitInit"]
  /\ UNCHANGED exitPromise

\* initializing: the call awaits the promise of the call that started the pool.
\* isNeededBy keeps that promise from being replaced while anybody awaits it.
EnterInitializing(c) ==
  /\ state = "initializing"
  /\ pc' = [pc EXCEPT ![c] = "awaitInit"]
  /\ UNCHANGED <<state, initPromise, exitPromise, backend>>

\* running: no await at all, run() starts in the same turn
EnterRunning(c) ==
  /\ state = "running"
  /\ pc' = [pc EXCEPT ![c] = "running"]
  /\ UNCHANGED <<state, initPromise, exitPromise, backend>>

\* Mutant: the rejection of the exit is not handed on to the chained init.
EnterExitingUnsettled(c) ==
  /\ state = "exiting"
  /\ state' = "initializing" /\ initPromise' = "afterExit"
  /\ pc' = [pc EXCEPT ![c] = "awaitInit"]
  /\ UNCHANGED <<exitPromise, backend>>

\* exiting: exitPromise.then(initThreadPool); a rejected exit rejects it too
EnterExiting(c) ==
  /\ state = "exiting"
  /\ state' = "initializing"
  /\ initPromise' = IF exitPromise = "rejected" THEN "rejected" ELSE "afterExit"
  /\ pc' = [pc EXCEPT ![c] = "awaitInit"]
  /\ UNCHANGED <<exitPromise, backend>>

Call(c) ==
  /\ pc[c] = "new"
  /\ isNeededBy' = isNeededBy + 1
  /\ EnterNone(c) \/ EnterInitializing(c) \/ EnterRunning(c) \/ EnterExiting(c)

-----------------------------------------------------------------------------
(* initThreadPool *)

\* The reaction of exitPromise.then(initThreadPool).
ChainedInit ==
  /\ initPromise = "afterExit" /\ exitPromise = "resolved"
  /\ initPromise' = "pending" /\ backend' = "starting"
  /\ UNCHANGED <<state, isNeededBy, exitPromise, pc>>

InitResolves ==
  /\ initPromise = "pending"
  /\ initPromise' = "resolved" /\ backend' = "up"
  /\ UNCHANGED <<state, isNeededBy, exitPromise, pc>>

InitRejects ==
  /\ InitMayFail /\ initPromise = "pending"
  /\ initPromise' = "rejected" /\ backend' = "failed"
  /\ UNCHANGED <<state, isNeededBy, exitPromise, pc>>

\* Mutant: the rejection of the init promise is swallowed.
AfterInitUnchecked(c) ==
  /\ pc[c] = "awaitInit" /\ initPromise \in {"resolved", "rejected"}
  /\ state' = "running"
  /\ pc' = [pc EXCEPT ![c] = "running"]
  /\ UNCHANGED <<isNeededBy, initPromise, exitPromise, backend>>

\* await state.initPromise returns: state = running, and run() is called
AfterInit(c) ==
  /\ pc[c] = "awaitInit" /\ initPromise = "resolved"
  /\ state' = "running"
  /\ pc' = [pc EXCEPT ![c] = "running"]
  /\ UNCHANGED <<isNeededBy, initPromise, exitPromise, backend>>

\* await state.initPromise throws: outside the try, so nothing is undone
InitThrows(c) ==
  /\ pc[c] = "awaitInit" /\ initPromise = "rejected"
  /\ pc' = [pc EXCEPT ![c] = "initRejected"]
  /\ UNCHANGED <<state, isNeededBy, initPromise, exitPromise, backend>>

-----------------------------------------------------------------------------
(* The finally block: run() returned or threw. *)

\* Mutant: the pool is stopped one caller too early.
NeededByOneMore(n) == n <= 1

\* The condition on which the finally block stops the pool.
NoLongerNeeded(n) == n < 1

\* Mutant: the reference is given back twice.
ReleasedTwice == 2

\* How many references one settled run() gives back.
Released == 1

RunSettles(c) ==
  /\ pc[c] = "running"
  /\ isNeededBy' = isNeededBy - Released
  /\ UNCHANGED initPromise
  /\ \/ /\ state # "running"
        /\ pc' = [pc EXCEPT ![c] = "bug"]
        /\ UNCHANGED <<state, exitPromise, backend>>
     \/ /\ state = "running" /\ NoLongerNeeded(isNeededBy')
        /\ state' = "exiting" /\ exitPromise' = "pending" /\ backend' = "stopping"
        /\ pc' = [pc EXCEPT ![c] = "awaitExit"]
     \/ /\ state = "running" /\ ~NoLongerNeeded(isNeededBy')
        /\ pc' = [pc EXCEPT ![c] = "done"]
        /\ UNCHANGED <<state, exitPromise, backend>>

\* exitPromise resolves.  The await of the call that made it is the first
\* reaction registered on it, before any .then(initThreadPool), so that call
\* resumes before anything else can look at the state.
ExitResolves(c) ==
  /\ pc[c] = "awaitExit" /\ exitPromise = "pending"
  /\ exitPromise' = "resolved" /\ backend' = "down"
  /\ state' = IF state = "exiting" THEN "none" ELSE state
  /\ pc' = [pc EXCEPT ![c] = "done"]
  /\ UNCHANGED <<isNeededBy, initPromise>>

ExitRejects(c) ==
  /\ ExitMayFail /\ pc[c] = "awaitExit" /\ exitPromise = "pending"
  /\ exitPromise' = "rejected" /\ backend' = "failed"
  /\ initPromise' = IF initPromise = "afterExit" THEN "rejected" ELSE initPromise
  /\ pc' = [pc EXCEPT ![c] = "exitRejected"]
  /\ UNCHANGED <<state, isNeededBy>>

-----------------------------------------------------------------------------
Step(c) ==
  \/ AfterInit(c) \/ InitThrows(c) \/ RunSettles(c) \/ ExitResolves(c)

Next ==
  \/ ChainedInit \/ InitResolves \/ InitRejects
  \/ \E c \in Calls : Call(c) \/ Step(c) \/ ExitRejects(c)

Spec == Init /\ [][Next]_vars

-----------------------------------------------------------------------------
(* Properties *)

Active  == {c \in Calls : pc[c] \in {"awaitInit", "running"}}
Leaked  == {c \in Calls : pc[c] = "initRejected"}
Holders == Active \cup Leaked

\* The error 'bug in ThreadPool state machine' cannot be thrown: whatever the
\* other calls do, the state is 'running' when a run() settles.
NoStateMachineBug ==
  \A c \in Calls : /\ pc[c] # "bug"
                   /\ pc[c] = "running" => state = "running"

\* No run() is in progress while the pool is anything but up, whichever calls
\* came, left or failed meanwhile.
RunsOnlyWhenUp == (\E c \in Calls : pc[c] = "running") => backend = "up"

\* The reference count is the number of calls that still need the pool plus
\* those whose init failed: these never give their reference back.
CountsItsCallers == isNeededBy = Cardinality(Holders)

\* The backend is never asked to start while it is up, starting or stopping,
\* and never asked to stop while it is not up or while a call needs it.
BackendCallsAlternate ==
  [][/\ backend' = "starting" /\ backend # "starting" => backend = "down"
     /\ backend' = "stopping" /\ backend # "stopping" =>
          backend = "up" /\ Active' = {}]_vars

\* Once init has been rejected, no call ever reaches its run() again, although
\* the backend resets its own flag for another attempt.
FailedInitIsFinal ==
  [][initPromise = "rejected" =>
       /\ initPromise' = "rejected"
       /\ \A c \in Calls : pc[c] # "running" => pc'[c] # "running"]_vars

\* Every call that was made returns or throws.
EveryCallSettles ==
  \A c \in Calls : pc[c] # "new" ~> pc[c] \in {"done", "initRejected", "exitRejected"}

-----------------------------------------------------------------------------
Lease == INSTANCE PoolLease
           WITH pool <- backend, wanted <- Holders,
                inside <- {c \in Calls : pc[c] = "running"}

\* The state machine implements the lease it promises its callers.
ImplementsLease == Lease!Spec
=============================================================================
