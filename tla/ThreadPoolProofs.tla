-------------------------- MODULE ThreadPoolProofs --------------------------
(***************************************************************************)
(* The thread pool state machine is correct for every set of calls and     *)
(* whether or not the backend fails.  Phase ties the state to the promises *)
(* and the backend; Inv adds the reference count and is inductive.  The    *)
(* node backend is such a backend, for every set of workers.  WorkerRpc:   *)
(* a call of the web worker is a remote call, for every set of objects.    *)
(***************************************************************************)
EXTENDS NodeBackend, WorkerRpc, FiniteSetTheorems, TLAPS

InitPhase ==
  /\ initPromise \in {"afterExit", "pending", "resolved", "rejected"}
  /\ initPromise = "pending"  => backend = "starting"
  /\ initPromise = "resolved" => backend = "up"
  /\ initPromise = "rejected" => backend = "failed"
  /\ initPromise = "afterExit" =>
       \/ exitPromise = "pending" /\ backend = "stopping"
       \/ exitPromise = "resolved" /\ backend = "down"
  /\ initPromise # "afterExit" => exitPromise # "pending"
  /\ Holders # {}
  /\ \A c \in Calls : pc[c] # "running"

Phase ==
  /\ state = "none" =>
       /\ backend = "down" /\ Holders = {}
       /\ initPromise \in {"unset", "resolved"}
       /\ exitPromise \in {"unset", "resolved"}
  /\ state = "initializing" => InitPhase
  /\ state = "running" =>
       /\ backend = "up" /\ initPromise = "resolved" /\ exitPromise # "pending"
       /\ Holders # {}
  /\ state = "exiting" =>
       /\ Holders = {} /\ initPromise = "resolved"
       /\ \/ exitPromise = "pending" /\ backend = "stopping"
          \/ exitPromise = "rejected" /\ backend = "failed"

LeakOnlyIfRejected == \A c \in Calls : pc[c] = "initRejected" => initPromise = "rejected"

OneExit ==
  /\ \A c \in Calls : pc[c] = "awaitExit" => exitPromise = "pending"
  /\ \A c, d \in Calls : pc[c] = "awaitExit" /\ pc[d] = "awaitExit" => c = d

NoBug == \A c \in Calls : pc[c] # "bug"

Inv == TypeOK /\ CountsItsCallers /\ Phase /\ LeakOnlyIfRejected /\ OneExit /\ NoBug

-----------------------------------------------------------------------------
LEMMA HoldersFinite == IsFiniteSet(Holders) /\ Cardinality(Holders) \in Nat
<1>1. Holders \subseteq Calls
  BY DEF Holders, Active, Leaked
<1> QED
  BY <1>1, CallsAssumption, FS_Subset, FS_CardinalityType

\* A reference count that agrees with Holders is zero iff nobody holds one.
LEMMA CountZero == Cardinality(Holders) = 0 <=> Holders = {}
BY HoldersFinite, FS_EmptySet

LEMMA InitInv == Init => Inv
<1> SUFFICES ASSUME Init PROVE Inv
  OBVIOUS
<1>1. TypeOK
  BY DEF Init, TypeOK
<1>2. Holders = {}
  BY DEF Init, Holders, Active, Leaked
<1>3. CountsItsCallers
  BY <1>2, FS_EmptySet DEF Init, CountsItsCallers
<1>4. Phase /\ LeakOnlyIfRejected /\ OneExit /\ NoBug
  BY <1>2 DEF Init, Phase, LeakOnlyIfRejected, OneExit, NoBug
<1> QED
  BY <1>1, <1>3, <1>4 DEF Inv

LEMMA CallKeepsInv ==
  ASSUME Inv, NEW c \in Calls, Call(c)
  PROVE  Inv'
<1> USE DEF Inv
<1>1. TypeOK'
  BY DEF TypeOK, Call, EnterNone, EnterInitializing, EnterRunning, EnterExiting
<1>2. Holders' = Holders \cup {c} /\ c \notin Holders
  BY DEF TypeOK, Call, EnterNone, EnterInitializing, EnterRunning, EnterExiting,
         Holders, Active, Leaked
<1>3. CountsItsCallers'
  <2>1. Cardinality(Holders \cup {c}) = Cardinality(Holders) + 1
    BY <1>2, HoldersFinite, FS_AddElement
  <2> QED
    BY <1>2, <2>1 DEF CountsItsCallers, Call
<1>4. Phase'
  <2> USE <1>2 DEF Call, TypeOK, Phase, InitPhase
  <2>1. CASE EnterNone(c)
    BY <2>1 DEF EnterNone, Holders, Active, Leaked
  <2>2. CASE EnterInitializing(c)
    BY <2>2 DEF EnterInitializing
  <2>3. CASE EnterRunning(c)
    BY <2>3 DEF EnterRunning
  <2>4. CASE EnterExiting(c)
    BY <2>4 DEF EnterExiting, Holders, Active
  <2> QED
    BY <2>1, <2>2, <2>3, <2>4
<1>5. LeakOnlyIfRejected'
  BY DEF TypeOK, Phase, LeakOnlyIfRejected, Call, EnterNone, EnterInitializing,
         EnterRunning, EnterExiting, Holders, Leaked
<1>6. OneExit' /\ NoBug'
  BY DEF TypeOK, OneExit, NoBug, Call, EnterNone, EnterInitializing,
         EnterRunning, EnterExiting
<1> QED
  BY <1>1, <1>3, <1>4, <1>5, <1>6

\* The steps of the backend leave the calls and the count alone.
LEMMA BackendKeepsInv ==
  ASSUME Inv, ChainedInit \/ InitResolves \/ InitRejects
  PROVE  Inv'
<1> USE DEF Inv
<1> USE DEF ChainedInit, InitResolves, InitRejects
<1>1. TypeOK' /\ OneExit' /\ NoBug'
  BY DEF TypeOK, OneExit, NoBug
<1>2. Holders' = Holders
  BY DEF Holders, Active, Leaked
<1>3. CountsItsCallers'
  BY <1>2 DEF CountsItsCallers
<1>4. Phase'
  BY <1>2 DEF TypeOK, Phase, InitPhase
<1>5. LeakOnlyIfRejected'
  BY DEF LeakOnlyIfRejected
<1> QED
  BY <1>1, <1>3, <1>4, <1>5

LEMMA AfterInitKeepsInv ==
  ASSUME Inv, NEW c \in Calls, AfterInit(c) \/ InitThrows(c)
  PROVE  Inv'
<1> USE DEF Inv
<1> USE DEF AfterInit, InitThrows
<1>1. TypeOK' /\ OneExit' /\ NoBug'
  BY DEF TypeOK, OneExit, NoBug
<1>2. Holders' = Holders /\ c \in Holders
  BY DEF TypeOK, Holders, Active, Leaked
<1>3. CountsItsCallers'
  BY <1>2 DEF CountsItsCallers
<1>4. Phase'
  BY <1>2 DEF TypeOK, Phase, InitPhase
<1>5. LeakOnlyIfRejected'
  BY DEF TypeOK, LeakOnlyIfRejected
<1> QED
  BY <1>1, <1>3, <1>4, <1>5

LEMMA RunSettlesKeepsInv ==
  ASSUME Inv, NEW c \in Calls, RunSettles(c)
  PROVE  Inv'
<1> USE DEF Inv
<1>1. state = "running" /\ pc[c] = "running"
  BY DEF RunSettles, TypeOK, Phase, InitPhase, Holders, Active
<1>2. Holders' = Holders \ {c} /\ c \in Holders
  BY <1>1 DEF RunSettles, TypeOK, Holders, Active, Leaked
<1>3. CountsItsCallers' /\ isNeededBy' \in Nat
  <2>1. Cardinality(Holders \ {c}) = Cardinality(Holders) - 1
    BY <1>2, HoldersFinite, FS_RemoveElement
  <2>2. isNeededBy' = isNeededBy - 1
    BY DEF RunSettles, Released
  <2>3. Cardinality(Holders') \in Nat
    BY <1>2, HoldersFinite, FS_RemoveElement, FS_CardinalityType
  <2> QED
    BY <1>2, <2>1, <2>2, <2>3 DEF CountsItsCallers
<1>4. TypeOK'
  BY <1>1, <1>3 DEF TypeOK, RunSettles
<1>5. isNeededBy' < 1 <=> Holders' = {}
  <2>1. Cardinality(Holders') = 0 <=> Holders' = {}
    BY <1>2, HoldersFinite, FS_RemoveElement, FS_EmptySet
  <2> QED
    BY <1>3, <2>1 DEF CountsItsCallers
<1>6. Phase'
  BY <1>1, <1>5 DEF RunSettles, NoLongerNeeded, TypeOK, Phase, InitPhase
<1>7. LeakOnlyIfRejected'
  BY <1>1 DEF RunSettles, TypeOK, LeakOnlyIfRejected
<1>8. OneExit' /\ NoBug'
  BY <1>1 DEF RunSettles, TypeOK, OneExit, NoBug, Phase
<1> QED
  BY <1>3, <1>4, <1>6, <1>7, <1>8

LEMMA ExitKeepsInv ==
  ASSUME Inv, NEW c \in Calls, ExitResolves(c) \/ ExitRejects(c)
  PROVE  Inv'
<1> USE DEF Inv
<1> USE DEF ExitResolves, ExitRejects
<1>1. TypeOK' /\ NoBug'
  BY DEF TypeOK, NoBug
<1>2. Holders' = Holders
  BY DEF TypeOK, Holders, Active, Leaked
<1>3. CountsItsCallers'
  BY <1>2 DEF CountsItsCallers
<1>4. Phase'
  BY <1>2 DEF TypeOK, Phase, InitPhase
<1>5. LeakOnlyIfRejected'
  BY DEF TypeOK, LeakOnlyIfRejected
<1>6. OneExit'
  BY DEF TypeOK, OneExit
<1> QED
  BY <1>1, <1>3, <1>4, <1>5, <1>6

LEMMA NextKeepsInv == Inv /\ [Next]_vars => Inv'
<1> SUFFICES ASSUME Inv, [Next]_vars PROVE Inv'
  OBVIOUS
<1>1. CASE UNCHANGED vars
  BY <1>1 DEF vars, Inv, TypeOK, CountsItsCallers, Phase, InitPhase, Holders, Active,
              Leaked, LeakOnlyIfRejected, OneExit, NoBug
<1>2. CASE Next
  BY <1>2, CallKeepsInv, BackendKeepsInv, AfterInitKeepsInv, RunSettlesKeepsInv,
     ExitKeepsInv DEF Next, Step
<1> QED
  BY <1>1, <1>2

\* Inv holds in every reachable state.
THEOREM InvHolds == Spec => []Inv
BY InitInv, NextKeepsInv, PTL DEF Spec

-----------------------------------------------------------------------------
\* Every variable keeps its type; in particular the reference count is never
\* negative.
THEOREM Typing == Spec => []TypeOK
<1>1. Inv => TypeOK
  BY DEF Inv
<1> QED
  BY <1>1, InvHolds, PTL

\* The reference count is always the number of calls that hold a reference.
THEOREM ReferenceCount == Spec => []CountsItsCallers
<1>1. Inv => CountsItsCallers
  BY DEF Inv
<1> QED
  BY <1>1, InvHolds, PTL

\* The 'bug in ThreadPool state machine' error cannot be thrown.
THEOREM StateMachineBugUnreachable == Spec => []NoStateMachineBug
<1>1. Inv => NoStateMachineBug
  BY DEF Inv, NoStateMachineBug, NoBug, TypeOK, Phase, InitPhase, Holders, Active
<1> QED
  BY <1>1, InvHolds, PTL

\* Every run() is in progress only while the backend's pool is up.
THEOREM RunsNeedThePool == Spec => []RunsOnlyWhenUp
<1>1. Inv => RunsOnlyWhenUp
  BY DEF Inv, RunsOnlyWhenUp, TypeOK, Phase, InitPhase, Holders, Active
<1> QED
  BY <1>1, InvHolds, PTL

\* The backend is started only when down and stopped only when up and unused.
THEOREM BackendContract == Spec => BackendCallsAlternate
<1> DEFINE A == /\ backend' = "starting" /\ backend # "starting" => backend = "down"
                /\ backend' = "stopping" /\ backend # "stopping" =>
                     backend = "up" /\ Active' = {}
<1>1. Inv /\ Inv' /\ [Next]_vars => [A]_vars
  <2> SUFFICES ASSUME Inv, Inv', Next PROVE A
    OBVIOUS
  <2>1. CASE backend' = "starting" /\ backend # "starting"
    BY <2>1 DEF Inv, TypeOK, Phase, InitPhase, Next, Step, Call, EnterNone,
       EnterInitializing, EnterRunning, EnterExiting, ChainedInit, InitResolves,
       InitRejects, AfterInit, InitThrows, RunSettles, ExitResolves, ExitRejects
  <2>2. CASE backend' = "stopping" /\ backend # "stopping"
    <3>1. PICK c \in Calls : RunSettles(c)
      BY <2>2 DEF Next, Step, Call, EnterNone, EnterInitializing, EnterRunning,
         EnterExiting, ChainedInit, InitResolves, InitRejects, AfterInit, InitThrows,
         RunSettles, ExitResolves, ExitRejects
    <3>2. state = "running" /\ state' = "exiting"
      BY <2>2, <3>1 DEF RunSettles
    <3> QED
      BY <2>2, <3>2 DEF Inv, Phase, Holders
  <2> QED
    BY <2>1, <2>2
<1> QED
  BY <1>1, InvHolds, PTL DEF Spec, BackendCallsAlternate

\* After a rejected init no call reaches its run() any more.
THEOREM RejectedInitIsFinal == Spec => FailedInitIsFinal
<1> DEFINE A == initPromise = "rejected" =>
                  /\ initPromise' = "rejected"
                  /\ \A c \in Calls : pc[c] # "running" => pc'[c] # "running"
<1>1. Inv /\ [Next]_vars => [A]_vars
  <2> SUFFICES ASSUME Inv, Next, initPromise = "rejected" PROVE A
    OBVIOUS
  <2>1. state = "initializing"
    BY DEF Inv, TypeOK, Phase
  <2> QED
    BY <2>1 DEF Inv, TypeOK, Next, Step, Call, EnterNone, EnterInitializing,
       EnterRunning, EnterExiting, ChainedInit, InitResolves, InitRejects, AfterInit,
       InitThrows, RunSettles, ExitResolves, ExitRejects
<1> QED
  BY <1>1, InvHolds, PTL DEF Spec, FailedInitIsFinal

-----------------------------------------------------------------------------
\* The state machine implements PoolLease: the initial state is the abstract
\* one, and every step is an abstract step or a stutter.
THEOREM Refinement == Spec => ImplementsLease
<1>1. Init => Lease!Init
  BY DEF Init, Lease!Init, Holders, Active, Leaked
<1>2. Inv /\ Inv' /\ [Next]_vars => [Lease!Next]_(Lease!vars)
  <2> SUFFICES ASSUME Inv, Inv', [Next]_vars PROVE [Lease!Next]_(Lease!vars)
    OBVIOUS
  <2> DEFINE Running == {c \in Calls : pc[c] = "running"}
  <2> USE DEF Inv, Lease!Next, Lease!vars
  <2>1. CASE UNCHANGED vars
    BY <2>1 DEF vars, Holders, Active, Leaked
  <2>2. ASSUME NEW c \in Calls, Call(c)
        PROVE  Lease!Request(c)
    <3>1. c \notin Holders /\ Holders' = Holders \cup {c}
      BY <2>2 DEF TypeOK, Call, EnterNone, EnterInitializing, EnterRunning,
         EnterExiting, Holders, Active, Leaked
    <3>2. CASE EnterNone(c)
      <4>1. Running' = Running
        BY <2>2, <3>2 DEF Call, EnterNone, TypeOK
      <4> QED
        BY <3>1, <3>2, <4>1 DEF EnterNone, Phase, Lease!Request
    <3>3. CASE EnterInitializing(c) \/ EnterExiting(c)
      <4>1. Running' = Running
        BY <2>2, <3>3 DEF Call, EnterInitializing, EnterExiting, TypeOK
      <4> QED
        BY <3>1, <3>3, <4>1 DEF EnterInitializing, EnterExiting, Lease!Request
    <3>4. CASE EnterRunning(c)
      <4>1. Running' = Running \cup {c}
        BY <2>2, <3>4 DEF Call, EnterRunning, TypeOK
      <4> QED
        BY <3>1, <3>4, <4>1 DEF EnterRunning, Phase, Lease!Request
    <3> QED
      BY <2>2, <3>2, <3>3, <3>4 DEF Call
  <2>3. CASE ChainedInit \/ InitResolves \/ InitRejects
    <3>1. Holders' = Holders /\ Running' = Running
      BY <2>3 DEF ChainedInit, InitResolves, InitRejects, Holders, Active, Leaked
    <3>2. state = "initializing"
      BY <2>3 DEF ChainedInit, InitResolves, InitRejects, TypeOK, Phase
    <3> QED
      BY <2>3, <3>1, <3>2 DEF ChainedInit, InitResolves, InitRejects, Phase, InitPhase,
         Lease!Start, Lease!Started, Lease!Failed
  <2>4. ASSUME NEW c \in Calls, AfterInit(c)
        PROVE  Lease!Enter(c)
    <3>1. Holders' = Holders /\ Running' = Running \cup {c} /\ c \in Holders \ Running
      BY <2>4 DEF AfterInit, TypeOK, Holders, Active, Leaked
    <3>2. backend = "up"
      BY <2>4, <3>1 DEF AfterInit, TypeOK, Phase, InitPhase
    <3> QED
      BY <2>4, <3>1, <3>2 DEF AfterInit, Lease!Enter
  <2>5. ASSUME NEW c \in Calls, InitThrows(c)
        PROVE  UNCHANGED Lease!vars
    BY <2>5 DEF InitThrows, TypeOK, Holders, Active, Leaked
  <2>6. ASSUME NEW c \in Calls, RunSettles(c)
        PROVE  Lease!Leave(c)
    <3>1. state = "running" /\ c \in Running
      BY <2>6 DEF RunSettles, TypeOK, Phase, InitPhase, Holders, Active
    <3>2. Holders' = Holders \ {c} /\ Running' = Running \ {c} /\ c \in Holders
      BY <2>6, <3>1 DEF RunSettles, TypeOK, Holders, Active, Leaked
    <3>3. state' = "exiting" <=> Holders' = {}
      BY <2>6, <3>1 DEF RunSettles, Phase
    <3>4. backend' = IF Holders = {c} THEN "stopping" ELSE backend
      BY <2>6, <3>1, <3>2, <3>3 DEF RunSettles
    <3> QED
      BY <3>1, <3>2, <3>4 DEF Lease!Leave
  <2>7. ASSUME NEW c \in Calls, ExitResolves(c) \/ ExitRejects(c)
        PROVE  Lease!Stopped \/ Lease!Failed
    <3>1. Holders' = Holders /\ Running' = Running
      BY <2>7 DEF ExitResolves, ExitRejects, TypeOK, Holders, Active, Leaked
    <3>2. backend = "stopping"
      BY <2>7 DEF ExitResolves, ExitRejects, TypeOK, Phase, InitPhase
    <3> QED
      BY <2>7, <3>1, <3>2 DEF ExitResolves, ExitRejects, Lease!Stopped, Lease!Failed
  <2> QED
    BY <2>1, <2>2, <2>3, <2>4, <2>5, <2>6, <2>7 DEF Next, Step
<1> QED
  BY <1>1, <1>2, InvHolds, PTL DEF Spec, ImplementsLease, Lease!Spec
-----------------------------------------------------------------------------
(***************************************************************************)
(* withThreadPool over its backends, for every set of calls and of workers:*)
(* with a backend put in place of the abstract one the state machine does  *)
(* nothing it did not do before, and on node a run() has all the workers.  *)
(***************************************************************************)

BackendTyping ==
  /\ platform \in {"node", "web"}
  /\ wasmThreadPoolRunning \in BOOLEAN
  /\ worker \in [Workers -> {"none", "pending", "ready", "rejected"}]

\* The flag is set by a start with all workers, is never reset, and tells every
\* later initThreadPool that there is nothing to start.
OneStart ==
  platform = "node" =>
    /\ initPromise \in {"resolved", "afterExit"} => wasmThreadPoolRunning
    /\ initPromise = "unset" => \A w \in Workers : worker[w] = "none"
    /\ wasmThreadPoolRunning => AllReady

BackendInv == BackendTyping /\ OneStart

-----------------------------------------------------------------------------
LEMMA InitBackendInv == InitBackend => BackendInv
BY DEF InitBackend, Init, BackendInv, BackendTyping, OneStart

\* Every step over a backend is a step of the state machine, or none of its
\* business.
LEMMA StepSimulation == [NextBackend]_allVars => [Next]_vars
<1> SUFFICES ASSUME [NextBackend]_allVars PROVE [Next]_vars
  OBVIOUS
<1>1. CASE UNCHANGED allVars
  BY <1>1 DEF allVars, vars
<1>2. CASE ExitInits \/ StartSettles
  BY <1>2 DEF ExitInits, StartSettles, StartResolves, StartRejects, Next
<1>3. ASSUME NEW w \in Workers, WorkerSettles(w) \/ StartupTimeout(w) PROVE UNCHANGED vars
  BY <1>3 DEF WorkerSettles, StartupTimeout
<1>4. ASSUME NEW c \in Calls,
             CallInits(c) \/ (Step(c) /\ UNCHANGED backendVars) \/ ExitThreadPoolRejects(c)
      PROVE  Next
  BY <1>4 DEF CallInits, ExitThreadPoolRejects, Next
<1> QED
  BY <1>1, <1>2, <1>3, <1>4 DEF NextBackend

\* A call or a chained init starts workers only where no start ever was.
LEMMA InitThreadPoolKeepsInv ==
  ASSUME Inv, BackendInv, InitThreadPool, ChainedInit \/ \E c \in Calls : Call(c)
  PROVE  BackendInv' /\ \A w \in Workers : worker'[w] = "pending" /\ platform = "node" =>
                          worker[w] \in {"none", "pending"}
<1> USE DEF Inv, BackendInv, InitThreadPool
<1>1. BackendTyping'
  BY DEF BackendTyping
<1>2. CASE platform = "web"
  BY <1>1, <1>2 DEF OneStart
<1>3. CASE platform = "node" /\ CallsInit
  <2>1. initPromise \in {"unset", "resolved", "afterExit"} /\ initPromise' = "pending"
    BY <1>3 DEF CallsInit, ChainedInit, Call, EnterNone, EnterInitializing, EnterRunning,
                EnterExiting, TypeOK, Phase
  <2>2. CASE wasmThreadPoolRunning
    BY <1>1, <1>3, <2>1, <2>2 DEF BackendTyping, OneStart, AllReady
  <2>3. CASE ~wasmThreadPoolRunning
    <3>1. \A w \in Workers : worker[w] = "none"
      BY <1>3, <2>1, <2>3 DEF OneStart
    <3> QED BY <1>1, <1>3, <2>1, <2>3, <3>1 DEF OneStart
  <2> QED BY <1>1, <2>2, <2>3 DEF BackendTyping
<1>4. CASE platform = "node" /\ ~CallsInit
  <2>1. UNCHANGED <<platform, wasmThreadPoolRunning, worker>>
    BY <1>4
  <2>2. /\ initPromise' = "unset" => initPromise = "unset"
        /\ initPromise' = "resolved" => initPromise = "resolved"
        /\ initPromise' = "afterExit" => initPromise \in {"resolved", "afterExit"}
    BY <1>4 DEF CallsInit, ChainedInit, Call, EnterNone, EnterInitializing, EnterRunning,
                EnterExiting, TypeOK, Phase
  <2> QED BY <1>1, <2>1, <2>2 DEF OneStart, AllReady
<1> QED BY <1>2, <1>3, <1>4 DEF BackendTyping

\* Until the start settled, nothing depends on what the workers answer.
LEMMA WorkerKeepsInv ==
  ASSUME Inv, BackendInv, NEW w \in Workers, WorkerSettles(w) \/ StartupTimeout(w)
  PROVE  BackendInv'
<1>1. PICK how \in {"ready", "rejected"} : worker' = [worker EXCEPT ![w] = how]
  BY DEF WorkerSettles, StartupTimeout
<1>2. worker[w] = "pending" /\ UNCHANGED <<vars, platform, wasmThreadPoolRunning>>
  BY DEF WorkerSettles, StartupTimeout
<1>3. BackendTyping'
  BY <1>1, <1>2 DEF BackendInv, BackendTyping
<1>4. platform = "node" => ~wasmThreadPoolRunning /\ initPromise # "unset"
  BY <1>2 DEF BackendInv, OneStart, AllReady
<1> QED BY <1>2, <1>3, <1>4 DEF BackendInv, OneStart, vars

LEMMA StartKeepsInv ==
  ASSUME Inv, BackendInv, StartSettles
  PROVE  BackendInv'
<1>1. CASE StartResolves
  <2>1. platform = "node" => AllReady
    BY <1>1 DEF StartResolves, BackendInv, OneStart
  <2> QED BY <1>1, <2>1 DEF StartResolves, InitResolves, BackendInv, BackendTyping, OneStart, AllReady
<1>2. CASE StartRejects
  BY <1>2 DEF StartRejects, InitRejects, backendVars, BackendInv, BackendTyping, OneStart, AllReady
<1> QED BY <1>1, <1>2 DEF StartSettles

LEMMA CallStepKeepsInv ==
  ASSUME Inv, BackendInv, NEW c \in Calls,
         (Step(c) /\ UNCHANGED backendVars) \/ ExitThreadPoolRejects(c)
  PROVE  BackendInv'
BY DEF Step, AfterInit, InitThrows, RunSettles, ExitResolves, ExitThreadPoolRejects, ExitRejects,
       backendVars, BackendInv, BackendTyping, OneStart, AllReady

LEMMA NextBackendKeepsInv == Inv /\ BackendInv /\ [NextBackend]_allVars => BackendInv'
<1> SUFFICES ASSUME Inv, BackendInv, [NextBackend]_allVars PROVE BackendInv'
  OBVIOUS
<1>1. CASE UNCHANGED allVars
  BY <1>1 DEF allVars, vars, backendVars, BackendInv, BackendTyping, OneStart, AllReady
<1>2. CASE ExitInits
  BY <1>2, InitThreadPoolKeepsInv DEF ExitInits
<1>3. CASE StartSettles
  BY <1>3, StartKeepsInv
<1>4. ASSUME NEW w \in Workers, WorkerSettles(w) \/ StartupTimeout(w) PROVE BackendInv'
  BY <1>4, WorkerKeepsInv
<1>5. ASSUME NEW c \in Calls, CallInits(c) PROVE BackendInv'
  BY <1>5, InitThreadPoolKeepsInv DEF CallInits
<1>6. ASSUME NEW c \in Calls, (Step(c) /\ UNCHANGED backendVars) \/ ExitThreadPoolRejects(c)
      PROVE  BackendInv'
  BY <1>6, CallStepKeepsInv
<1> QED
  BY <1>1, <1>2, <1>3, <1>4, <1>5, <1>6 DEF NextBackend

-----------------------------------------------------------------------------
(* Theorems *)

\* withThreadPool over either backend behaves as withThreadPool over the
\* abstract one, so what is proved of that holds of these.
THEOREM BackendIsOne == BackendSpec => Spec
<1>1. InitBackend => Init
  BY DEF InitBackend
<1> QED
  BY <1>1, StepSimulation, PTL DEF BackendSpec, Spec

\* The node backend's workers are started once, and the pool is up when they are.
THEOREM BackendInvHolds == BackendSpec => [](Inv /\ BackendInv)
BY BackendIsOne, InvHolds, InitBackendInv, NextBackendKeepsInv, PTL DEF BackendSpec

\* withThreadPool over its backends is a lease of the pool.
THEOREM BackendImplementsLease == BackendSpec => ImplementsLease
BY BackendIsOne, Refinement, PTL

\* Over its backends, too, a failed start lets nobody run ever after.
THEOREM BackendFailureIsFinal == BackendSpec => FailedInitIsFinal
BY BackendIsOne, RejectedInitIsFinal, PTL

\* On node every run() has all the workers, and none of them is started twice.
THEOREM RunsFindTheirWorkers == BackendSpec => RunsHaveWorkers
<1> DEFINE A == platform = "node" =>
                  /\ (\E c \in Calls : pc'[c] = "running") => \A w \in Workers : worker'[w] = "ready"
                  /\ \A w \in Workers : worker'[w] = "pending" => worker[w] \in {"none", "pending"}
<1>1. Inv /\ Inv' /\ BackendInv /\ BackendInv' /\ [NextBackend]_allVars => [A]_allVars
  <2> SUFFICES ASSUME Inv, Inv', BackendInv, BackendInv', NextBackend, platform = "node"
               PROVE  A
    OBVIOUS
  <2>1. platform' = platform
    BY DEF NextBackend, ExitInits, CallInits, InitThreadPool, StartSettles, StartResolves,
           StartRejects, WorkerSettles, StartupTimeout, ExitThreadPoolRejects, backendVars
  <2>2. ASSUME NEW c \in Calls, pc'[c] = "running", NEW w \in Workers
        PROVE  worker'[w] = "ready"
    <3>1. state' = "running" /\ initPromise' = "resolved"
      BY <2>2 DEF Inv, TypeOK, Phase, InitPhase, Holders, Active
    <3> QED BY <2>1, <3>1 DEF BackendInv, OneStart, AllReady
  <2>3. ASSUME NEW w \in Workers, worker'[w] = "pending"
        PROVE  worker[w] \in {"none", "pending"}
    <3>1. CASE ExitInits \/ \E c \in Calls : CallInits(c)
      BY <2>3, <3>1, InitThreadPoolKeepsInv DEF ExitInits, CallInits
    <3>2. ASSUME NEW v \in Workers, WorkerSettles(v) \/ StartupTimeout(v)
          PROVE  worker[w] = "pending"
      BY <2>3, <3>2 DEF WorkerSettles, StartupTimeout, BackendInv, BackendTyping
    <3>3. CASE StartSettles \/ \E c \in Calls :
                 (Step(c) /\ UNCHANGED backendVars) \/ ExitThreadPoolRejects(c)
      BY <2>3, <3>3 DEF StartSettles, StartResolves, StartRejects, ExitThreadPoolRejects, backendVars
    <3> QED BY <3>1, <3>2, <3>3 DEF NextBackend
  <2> QED BY <2>2, <2>3
<1> QED
  BY <1>1, BackendInvHolds, PTL DEF BackendSpec, RunsHaveWorkers
-----------------------------------------------------------------------------
(* WorkerRpc: the handshake over the shared control word, the ownership of *)
(* the objects a call moves, and that the two threads together implement   *)
(* RemoteCall, for any set of objects.                                     *)

RpcTypeOK ==
  /\ word \in {"preparing", "ready", "cancelled", "success", "error"}
  /\ result \in Objects \cup {None}
  /\ main \in {"idle", "prepared", "posted", "waiting"}
  /\ handler \in {"idle", "waiting", "running", "writing", "dead"}
  /\ call \in Requests /\ request \in Requests /\ inbox \in Seq(Requests)
  /\ moves \subseteq Objects /\ attached \subseteq Objects
  /\ wrapped \subseteq Objects /\ alive \subseteq Objects
  /\ outcome \in {"success", "error"} /\ fatal \in BOOLEAN /\ ran \in BOOLEAN

\* What the control word says where the main thread is.
MainPhase ==
  /\ fatal => main = "idle" /\ word = "cancelled"
  /\ ~fatal => word # "cancelled"
  /\ main \in {"prepared", "posted"} => word = "preparing" /\ ~ran
  /\ main = "waiting" => word # "preparing" /\ moves = {}
  /\ main = "idle" => call = Nothing /\ moves = {}

\* The worker has no request but that of the call in progress, runs it only
\* while the main thread waits, and is done when there is an outcome.
WorkerPhase ==
  /\ handler \in {"running", "writing"} => main = "waiting" /\ word = "ready"
  /\ ~fatal /\ (main \in {"idle", "prepared"} \/ word \in {"success", "error"}) =>
       handler \in {"idle", "dead"} /\ inbox = <<>>
  /\ ~fatal => inbox \in {<<>>, <<call>>}
  /\ ~fatal /\ handler \in {"waiting", "running", "writing"} => request = call /\ inbox = <<>>

\* A call has been run exactly when the worker is past its running.
RanOnce ==
  /\ main = "waiting" /\ word \in {"success", "error"} => ran
  /\ main = "waiting" /\ word = "ready" /\ handler \in {"idle", "waiting", "running"} => ~ran
  /\ handler = "writing" => ran

\* A result is handed over by a call that succeeds, and by no other.
ResultOfSuccess ==
  /\ main # "idle" /\ ~ran => result = None
  /\ handler = "writing" /\ outcome = "error" => result = None
  /\ main = "waiting" /\ word = "error" => result = None
  /\ main = "waiting" /\ result # None => result \in alive \ attached

\* Until it is run, what a call moves is alive and wrapped by nobody but the
\* main thread before its handoff and the running worker after it.
Ownership ==
  /\ attached \subseteq alive
  /\ call.moved \cap call.borrowed = {}
  /\ main # "idle" => call.borrowed \subseteq attached /\ attached \cap call.moved = moves
  /\ main = "prepared" => moves = call.moved
  /\ main # "idle" /\ ~ran => call.moved \subseteq alive
  /\ wrapped = IF handler = "running" THEN call.moved ELSE {}

RpcInv ==
  RpcTypeOK /\ MainPhase /\ WorkerPhase /\ RanOnce /\ ResultOfSuccess /\ Ownership

-----------------------------------------------------------------------------
(* The invariant and the steps *)

LEMMA InitRpcInv == InitRpc => RpcInv
<1> SUFFICES ASSUME InitRpc PROVE RpcInv
  OBVIOUS
<1> USE DEF InitRpc
<1>1. RpcTypeOK
  <2>1. Nothing \in Requests
    BY DEF Nothing, Requests
  <2>2. /\ word = "preparing" /\ result = None /\ main = "idle" /\ handler = "idle"
        /\ call = Nothing /\ request = Nothing /\ inbox = <<>> /\ outcome = "success"
    OBVIOUS
  <2>3. /\ moves \subseteq Objects /\ attached \subseteq Objects
        /\ wrapped \subseteq Objects /\ alive \subseteq Objects
    OBVIOUS
  <2>4. fatal \in BOOLEAN /\ ran \in BOOLEAN
    OBVIOUS
  <2> QED BY <2>1, <2>2, <2>3, <2>4 DEF RpcTypeOK
<1>2. MainPhase /\ WorkerPhase /\ RanOnce
  BY DEF MainPhase, WorkerPhase, RanOnce
<1>3. ResultOfSuccess /\ Ownership
  BY DEF ResultOfSuccess, Ownership, Nothing
<1> QED BY <1>1, <1>2, <1>3 DEF RpcInv

\* A call resets the control word; no request of another one is on its way.
LEMMA CallInv ==
  ASSUME RpcInv, NEW moved \in SUBSET Objects, NEW borrowed \in SUBSET Objects, CallWorker(moved, borrowed)
  PROVE  RpcInv'
<1> USE DEF RpcInv, CallWorker, Reset, control, workerVars
<1>1. call' \in Requests /\ call'.moved = moved /\ call'.borrowed = borrowed
  BY DEF Requests
<1>2. RpcTypeOK'
  BY <1>1 DEF RpcTypeOK
<1>3. MainPhase' /\ WorkerPhase' /\ RanOnce' /\ ResultOfSuccess'
  BY DEF MainPhase, WorkerPhase, RanOnce, ResultOfSuccess
<1>4. Ownership'
  BY <1>1 DEF Ownership, WorkerPhase, RpcTypeOK
<1> QED BY <1>2, <1>3, <1>4

LEMMA PostMessageInv ==
  ASSUME RpcInv, PostMessage
  PROVE  RpcInv'
<1> USE DEF RpcInv, PostMessage, control, workerVars
<1>1. ~fatal /\ inbox = <<>> /\ handler \in {"idle", "dead"}
  BY DEF MainPhase, WorkerPhase, RpcTypeOK
<1>2. inbox' = <<call>> /\ inbox' \in Seq(Requests)
  BY <1>1 DEF RpcTypeOK
<1>3. RpcTypeOK'
  BY <1>2 DEF RpcTypeOK
<1>4. MainPhase' /\ WorkerPhase' /\ RanOnce'
  BY <1>1, <1>2 DEF MainPhase, WorkerPhase, RanOnce, RpcTypeOK
<1>5. ResultOfSuccess' /\ Ownership'
  BY DEF ResultOfSuccess, Ownership
<1> QED BY <1>3, <1>4, <1>5

\* The handoff of one object: from here on the main thread cannot name it.
LEMMA CommitMoveInv ==
  ASSUME RpcInv, NEW o \in Objects, CommitMove(o)
  PROVE  RpcInv'
<1> USE DEF RpcInv, CommitMove, control, workerVars
<1>1. RpcTypeOK' /\ MainPhase' /\ WorkerPhase' /\ RanOnce'
  BY DEF RpcTypeOK, MainPhase, WorkerPhase, RanOnce
<1>2. ResultOfSuccess'
  BY DEF ResultOfSuccess, MainPhase
<1>3. Ownership'
  BY DEF Ownership
<1> QED BY <1>1, <1>2, <1>3

\* READY is written when nothing is left to be detached.
LEMMA MarkReadyInv ==
  ASSUME RpcInv, MarkReady
  PROVE  RpcInv'
<1> USE DEF RpcInv, MarkReady, Detached, workerVars
<1>1. ~fatal /\ word = "preparing" /\ ~ran /\ handler \in {"idle", "waiting", "dead"}
  BY DEF MainPhase, WorkerPhase, RpcTypeOK
<1>2. RpcTypeOK' /\ MainPhase' /\ WorkerPhase' /\ RanOnce'
  BY <1>1 DEF RpcTypeOK, MainPhase, WorkerPhase, RanOnce
<1>3. ResultOfSuccess' /\ Ownership'
  BY <1>1 DEF ResultOfSuccess, Ownership
<1> QED BY <1>2, <1>3

\* A failed handoff is cancelled before the worker could start on it.
LEMMA HandoffFailsInv ==
  ASSUME RpcInv, HandoffFails
  PROVE  RpcInv'
<1> USE DEF RpcInv, HandoffFails, workerVars, Nothing
<1>1. handler \in {"idle", "waiting", "dead"}
  BY DEF MainPhase, WorkerPhase, RpcTypeOK
<1>2. RpcTypeOK'
  BY DEF RpcTypeOK, Requests
<1>3. MainPhase' /\ WorkerPhase' /\ RanOnce' /\ ResultOfSuccess'
  BY <1>1 DEF MainPhase, WorkerPhase, RanOnce, ResultOfSuccess
<1>4. Ownership'
  BY <1>1 DEF Ownership
<1> QED BY <1>2, <1>3, <1>4

\* When the main thread sees an outcome, the worker has done with the call.
LEMMA WaitEndsInv ==
  ASSUME RpcInv, WaitEnds
  PROVE  RpcInv'
<1> USE DEF RpcInv, WaitEnds, Pending, control, workerVars, Nothing
<1>1. /\ ~fatal /\ word \in {"success", "error"}
      /\ handler \in {"idle", "dead"} /\ inbox = <<>>
  BY DEF MainPhase, WorkerPhase, RpcTypeOK
<1>2. attached \subseteq attached' /\ attached' \subseteq alive
  BY DEF ResultOfSuccess, Ownership
<1>3. RpcTypeOK'
  BY <1>2 DEF RpcTypeOK, Requests
<1>4. MainPhase' /\ WorkerPhase' /\ RanOnce' /\ ResultOfSuccess'
  BY <1>1 DEF MainPhase, WorkerPhase, RanOnce, ResultOfSuccess
<1>5. Ownership'
  BY <1>1, <1>2 DEF Ownership
<1> QED BY <1>3, <1>4, <1>5

\* Finalizers run when no call is in progress.
LEMMA CollectInv ==
  ASSUME RpcInv, NEW o \in Objects, Collect(o)
  PROVE  RpcInv'
<1> USE DEF RpcInv, Collect, control, workerVars
<1>1. RpcTypeOK' /\ MainPhase' /\ WorkerPhase' /\ RanOnce'
  BY DEF RpcTypeOK, MainPhase, WorkerPhase, RanOnce
<1>2. ResultOfSuccess'
  BY DEF ResultOfSuccess, WorkerPhase
<1>3. Ownership'
  BY DEF Ownership
<1> QED BY <1>1, <1>2, <1>3

\* The only message there can be is that of the call in progress, or of one
\* that was cancelled.
LEMMA ReceiveInv ==
  ASSUME RpcInv, Receive
  PROVE  RpcInv'
<1> USE DEF RpcInv, Receive, control, mainVars
<1>1. Head(inbox) \in Requests /\ Tail(inbox) \in Seq(Requests)
  BY DEF RpcTypeOK
<1>2. ~fatal => inbox = <<call>> /\ Head(inbox) = call /\ Tail(inbox) = <<>>
  BY DEF WorkerPhase
<1>3. RpcTypeOK'
  BY <1>1 DEF RpcTypeOK
<1>4. MainPhase' /\ RanOnce' /\ ResultOfSuccess'
  BY DEF MainPhase, RanOnce, ResultOfSuccess
<1>5. WorkerPhase'
  BY <1>2 DEF WorkerPhase
<1>6. Ownership'
  BY DEF Ownership
<1> QED BY <1>3, <1>4, <1>5, <1>6

\* The worker begins on a request the main thread has handed over completely.
LEMMA BeginRunInv ==
  ASSUME RpcInv, BeginRun
  PROVE  RpcInv'
<1> USE DEF RpcInv, BeginRun, Ready, control, mainVars
<1>1. ~fatal /\ word = "ready" /\ main = "waiting"
  BY DEF MainPhase, WorkerPhase, RpcTypeOK
<1>2. request = call /\ handler' = "running" /\ wrapped' = call.moved /\ UNCHANGED outcome
  BY <1>1 DEF WorkerPhase
<1>3. RpcTypeOK'
  BY <1>2 DEF RpcTypeOK, Requests
<1>4. MainPhase' /\ WorkerPhase' /\ RanOnce' /\ ResultOfSuccess'
  BY <1>1, <1>2 DEF MainPhase, WorkerPhase, RanOnce, ResultOfSuccess
<1>5. Ownership'
  BY <1>2 DEF Ownership
<1> QED BY <1>3, <1>4, <1>5

LEMMA DropInv ==
  ASSUME RpcInv, Drop
  PROVE  RpcInv'
<1> USE DEF RpcInv, Drop, control, mainVars, Nothing
<1>1. RpcTypeOK'
  BY DEF RpcTypeOK, Requests
<1>2. MainPhase' /\ WorkerPhase' /\ RanOnce' /\ ResultOfSuccess' /\ Ownership'
  BY DEF MainPhase, WorkerPhase, RanOnce, ResultOfSuccess, Ownership
<1> QED BY <1>1, <1>2

\* What a run leaves behind: a result, when it made one.
LEMMA RunMakes ==
  ASSUME RpcInv, NEW consumed \in SUBSET Objects, NEW new \in SUBSET Objects, NEW ok \in BOOLEAN,
         Run(consumed, ok, new)
  PROVE  /\ main = "waiting" /\ word = "ready" /\ ~fatal /\ ~ran
         /\ request = call /\ call.moved \subseteq alive
         /\ alive' = (alive \ call.moved) \cup new
         /\ new = {} => result' = None
         /\ new # {} => new = {result'} /\ result' # None
                        /\ result' \in Objects /\ outcome' = "success"
<1> USE DEF RpcInv, Run, Freed
<1>1. main = "waiting" /\ word = "ready" /\ ~fatal /\ ~ran /\ request = call
  BY DEF WorkerPhase, MainPhase, RanOnce
<1>2. call.moved \subseteq alive /\ result = None
  BY <1>1 DEF Ownership, ResultOfSuccess
<1>3. ASSUME new # {} PROVE \E o : new = {o}
  <2>1. PICK o \in new : TRUE
    BY <1>3
  <2>2. IsFiniteSet(new)
    BY ObjectAssumption, FS_Subset
  <2>3. IsFiniteSet(new \ {o}) /\ Cardinality(new \ {o}) = Cardinality(new) - 1
    BY <2>2, FS_RemoveElement
  <2>4. Cardinality(new \ {o}) = 0
    BY <2>2, <2>3, FS_CardinalityType
  <2>5. new \ {o} = {}
    BY <2>3, <2>4, FS_EmptySet
  <2> QED BY <2>5
<1>4. new # {} => new = {result'}
  BY <1>3
<1> QED BY <1>1, <1>2, <1>4, ObjectAssumption

\* The function runs on objects that live, and frees what it was given.
LEMMA RunInv ==
  ASSUME RpcInv, NEW consumed \in SUBSET Objects, NEW new \in SUBSET Objects, NEW ok \in BOOLEAN,
         Run(consumed, ok, new)
  PROVE  RpcInv'
<1>1. /\ main = "waiting" /\ word = "ready" /\ ~fatal /\ ~ran
      /\ alive' = (alive \ call.moved) \cup new
      /\ new = {} => result' = None
      /\ new # {} => new = {result'} /\ result' \in Objects /\ outcome' = "success"
  <2>1. /\ main = "waiting" /\ word = "ready" /\ ~fatal /\ ~ran
        /\ request = call /\ call.moved \subseteq alive
        /\ alive' = (alive \ call.moved) \cup new
        /\ new = {} => result' = None
        /\ new # {} => new = {result'} /\ result' # None
                       /\ result' \in Objects /\ outcome' = "success"
    BY RunMakes
  <2> QED BY <2>1
<1>2. /\ UNCHANGED <<word, main, call, moves, attached, fatal, inbox, request>>
      /\ handler = "running" /\ handler' = "writing" /\ wrapped' = {} /\ ran' = TRUE
      /\ outcome' \in {"success", "error"} /\ new \cap alive = {}
  BY DEF Run, mainVars
<1>3. RpcTypeOK'
  BY <1>1, <1>2 DEF RpcInv, RpcTypeOK
<1>4. MainPhase' /\ WorkerPhase' /\ RanOnce'
  BY <1>1, <1>2 DEF RpcInv, MainPhase, WorkerPhase, RanOnce
<1>5. ResultOfSuccess'
  BY <1>1, <1>2 DEF RpcInv, ResultOfSuccess, Ownership
<1>6. Ownership'
  BY <1>1, <1>2 DEF RpcInv, Ownership, MainPhase
<1> QED BY <1>3, <1>4, <1>5, <1>6 DEF RpcInv

LEMMA WriteOutcomeInv ==
  ASSUME RpcInv, WriteOutcome
  PROVE  RpcInv'
<1> USE DEF RpcInv, WriteOutcome, mainVars, Nothing
<1>1. ~fatal /\ main = "waiting" /\ inbox = <<>> /\ ran
  BY DEF MainPhase, WorkerPhase, RanOnce
<1>2. RpcTypeOK'
  BY DEF RpcTypeOK, Requests
<1>3. MainPhase' /\ WorkerPhase' /\ RanOnce'
  BY <1>1 DEF MainPhase, WorkerPhase, RanOnce, RpcTypeOK
<1>4. ResultOfSuccess' /\ Ownership'
  BY <1>1 DEF ResultOfSuccess, Ownership, RpcTypeOK
<1> QED BY <1>2, <1>3, <1>4

\* Whenever the worker dies, what the main thread holds is left to it.
LEMMA DiesInv ==
  ASSUME RpcInv, Dies
  PROVE  RpcInv'
<1> USE DEF RpcInv, Dies, control, mainVars, Nothing
<1>1. RpcTypeOK'
  BY DEF RpcTypeOK, Requests
<1>2. MainPhase' /\ WorkerPhase' /\ RanOnce' /\ ResultOfSuccess' /\ Ownership'
  BY DEF MainPhase, WorkerPhase, RanOnce, ResultOfSuccess, Ownership
<1> QED BY <1>1, <1>2

\* Every step of either thread keeps the invariant.
LEMMA NextKeepsRpcInv == RpcInv /\ [NextRpc]_rpcVars => RpcInv'
<1> SUFFICES ASSUME RpcInv, [NextRpc]_rpcVars PROVE RpcInv'
  OBVIOUS
<1>1. CASE UNCHANGED rpcVars
  BY <1>1 DEF rpcVars, control, mainVars, workerVars, RpcInv, RpcTypeOK, MainPhase, WorkerPhase, RanOnce,
              ResultOfSuccess, Ownership
<1>2. CASE NextRpc
  BY <1>2, CallInv, PostMessageInv, CommitMoveInv, MarkReadyInv, HandoffFailsInv, WaitEndsInv,
     CollectInv, ReceiveInv, BeginRunInv, DropInv, RunInv, WriteOutcomeInv, DiesInv
  DEF NextRpc, MainStep, WorkerStep
<1> QED BY <1>1, <1>2

-----------------------------------------------------------------------------
(* Theorems *)

\* In every interleaving of the two threads, failed handoffs and deaths
\* included, control word, message and objects belong to one call.
THEOREM RpcInvHolds == RpcSpec => []RpcInv
BY InitRpcInv, NextKeepsRpcInv, PTL DEF RpcSpec

\* Neither thread holds a wrapper of a freed object or one the other frees too.
THEOREM WrappersAreSound == RpcSpec => []NoDanglingWrapper
<1>1. RpcInv => NoDanglingWrapper
  <2> SUFFICES ASSUME RpcInv PROVE NoDanglingWrapper
    OBVIOUS
  <2> USE DEF RpcInv
  <2>1. CASE handler = "running"
    <3>1. main = "waiting" /\ word = "ready" /\ ~ran /\ moves = {} /\ wrapped = call.moved
      BY <2>1 DEF WorkerPhase, MainPhase, RanOnce, Ownership
    <3> QED BY <3>1 DEF Ownership, NoDanglingWrapper
  <2>2. CASE handler # "running"
    BY <2>2 DEF Ownership, NoDanglingWrapper
  <2> QED BY <2>1, <2>2
<1> QED BY <1>1, RpcInvHolds, PTL

\* A wasm function in the worker runs on objects that are allocated.
THEOREM ArgumentsAreAlive == RpcSpec => []ArgumentsAlive
<1>1. RpcInv => ArgumentsAlive
  <2> SUFFICES ASSUME RpcInv, handler = "running"
               PROVE  request.moved \cup request.borrowed \subseteq alive
    BY DEF ArgumentsAlive
  <2>1. main = "waiting" /\ word = "ready" /\ ~ran /\ ~fatal /\ request = call
    BY DEF RpcInv, WorkerPhase, MainPhase, RanOnce
  <2> QED BY <2>1 DEF RpcInv, Ownership
<1> QED BY <1>1, RpcInvHolds, PTL

-----------------------------------------------------------------------------
(* The refinement *)

CallPhase == IF fatal THEN "broken" ELSE IF main = "idle" THEN "none"
         ELSE IF ran THEN "ran" ELSE "called"
Made == IF result = None \/ main = "idle" THEN {} ELSE {result}

\* The steps of the worker but its run, and the two messages of the main
\* thread, are not seen by the caller.
LEMMA HiddenSteps ==
  ASSUME RpcInv, RpcInv',
         \/ PostMessage \/ MarkReady \/ \E o \in Objects : CommitMove(o)
         \/ Receive \/ BeginRun \/ Drop \/ WriteOutcome \/ Dies
  PROVE  UNCHANGED <<CallPhase, call.moved, Made, attached \ moves, alive>>
<1>1. UNCHANGED <<call, result, alive, fatal, ran>> /\ (main = "idle" <=> main' = "idle")
  BY DEF PostMessage, MarkReady, CommitMove, Receive, BeginRun, Drop, WriteOutcome, Dies,
         control, mainVars, workerVars
<1>2. attached' \ moves' = attached \ moves
  BY DEF PostMessage, MarkReady, CommitMove, Receive, BeginRun, Drop, WriteOutcome, Dies,
         mainVars, workerVars
<1>3. CallPhase' = CallPhase /\ Made' = Made
  BY <1>1 DEF CallPhase, Made
<1> QED BY <1>1, <1>2, <1>3

\* The handshake implements a call that runs once, consumes what is moved into
\* it and hands back what it made, whatever fails and whenever the worker dies.
THEOREM RpcRefinement == RpcSpec => ImplementsCall
<1> USE DEF Abstract!vars
<1>1. InitRpc => Abstract!Init
  <2> SUFFICES ASSUME InitRpc PROVE Abstract!Init
    OBVIOUS
  <2>1. CallPhase = "none" /\ Made = {} /\ call.moved = {} /\ attached \ moves = alive
    BY DEF InitRpc, CallPhase, Made, Nothing
  <2> QED BY <2>1 DEF InitRpc, Abstract!Init, CallPhase, Made
<1>2. RpcInv /\ RpcInv' /\ [NextRpc]_rpcVars => [Abstract!Next]_(Abstract!vars)
  <2> SUFFICES ASSUME RpcInv, RpcInv', [NextRpc]_rpcVars PROVE [Abstract!Next]_(Abstract!vars)
    OBVIOUS
  <2>1. CASE UNCHANGED rpcVars
    BY <2>1 DEF rpcVars, control, mainVars, workerVars
  <2>2. CASE \/ PostMessage \/ MarkReady \/ \E o \in Objects : CommitMove(o)
             \/ Receive \/ BeginRun \/ Drop \/ WriteOutcome \/ Dies
    BY <2>2, HiddenSteps DEF CallPhase, Made
  <2>3. ASSUME NEW moved \in SUBSET Objects, NEW borrowed \in SUBSET Objects, CallWorker(moved, borrowed)
        PROVE  Abstract!Begin(moved)
    <3>1. /\ main = "idle" /\ main' = "prepared" /\ ~fatal /\ ~fatal' /\ ~ran'
          /\ moves = {} /\ moves' = moved /\ moved \subseteq attached
          /\ UNCHANGED <<attached, alive>> /\ result' = None /\ call'.moved = moved
      BY <2>3 DEF CallWorker, RpcInv, MainPhase
    <3>2. CallPhase = "none" /\ CallPhase' = "called" /\ Made = {} /\ Made' = {}
      BY <3>1 DEF CallPhase, Made
    <3> QED BY <3>1, <3>2 DEF Abstract!Begin, CallPhase, Made
  <2>4. CASE HandoffFails
    <3>1. /\ main \in {"prepared", "posted"} /\ main' = "idle" /\ ~fatal /\ fatal' /\ ~ran
          /\ UNCHANGED <<attached, alive>> /\ result = None /\ moves' = {} /\ call'.moved = {}
          /\ moves \subseteq attached /\ moves \subseteq call.moved
      BY <2>4 DEF HandoffFails, RpcInv, MainPhase, ResultOfSuccess, Ownership, Nothing
    <3>2. CallPhase = "called" /\ CallPhase' = "broken" /\ Made = {} /\ Made' = {}
      BY <3>1 DEF CallPhase, Made
    <3>3. Abstract!Break(moves)
      BY <3>1, <3>2 DEF Abstract!Break, CallPhase, Made
    <3> QED BY <3>3 DEF Abstract!Next, RpcInv, RpcTypeOK
  <2>5. ASSUME NEW consumed \in SUBSET Objects, NEW new \in SUBSET Objects, NEW ok \in BOOLEAN,
               Run(consumed, ok, new)
        PROVE  Abstract!Run(new)
    <3>1. /\ main = "waiting" /\ ~fatal /\ ~ran
          /\ alive' = (alive \ call.moved) \cup new
          /\ new = {} => result' = None
          /\ new # {} => new = {result'} /\ result' # None
      BY <2>5, RunMakes
    <3>2. /\ UNCHANGED <<main, call, moves, attached, fatal>> /\ ran'
          /\ new \subseteq Objects \ alive /\ result = None
      BY <2>5, <3>1 DEF Run, mainVars, RpcInv, ResultOfSuccess
    <3>3. CallPhase = "called" /\ CallPhase' = "ran" /\ Made' = new
      BY <3>1, <3>2 DEF CallPhase, Made
    <3> QED BY <3>1, <3>2, <3>3 DEF Abstract!Run, CallPhase, Made
  <2>6. CASE WaitEnds
    <3>1. /\ main = "waiting" /\ main' = "idle" /\ ~fatal /\ ~fatal' /\ ran
          /\ moves = {} /\ moves' = {} /\ call'.moved = {} /\ UNCHANGED alive
          /\ attached' = IF word = "success" /\ result # None
                         THEN attached \cup {result} ELSE attached
          /\ word # "success" => result = None
      BY <2>6 DEF WaitEnds, Pending, RpcInv, RpcTypeOK, MainPhase, RanOnce, ResultOfSuccess, Nothing
    <3>2. CallPhase = "ran" /\ CallPhase' = "none" /\ Made' = {} /\ attached' = attached \cup Made
      BY <3>1 DEF CallPhase, Made
    <3> QED BY <3>1, <3>2 DEF Abstract!Return, Abstract!Next, CallPhase, Made
  <2>7. ASSUME NEW o \in Objects, Collect(o)
        PROVE  Abstract!Collect(o)
    <3>1. /\ main = "idle" /\ moves = {} /\ o \in attached
          /\ attached' = attached \ {o} /\ alive' = alive \ {o}
          /\ UNCHANGED <<main, call, moves, fatal, ran>>
      BY <2>7 DEF Collect, RpcInv, MainPhase
    <3>2. CallPhase \in {"none", "broken"} /\ CallPhase' = CallPhase /\ Made = {} /\ Made' = {}
      BY <3>1 DEF CallPhase, Made, RpcInv, RpcTypeOK
    <3> QED BY <3>1, <3>2 DEF Abstract!Collect, CallPhase, Made
  <2> QED
    BY <2>1, <2>2, <2>3, <2>4, <2>5, <2>6, <2>7
    DEF NextRpc, MainStep, WorkerStep, Abstract!Next
<1> QED
  BY <1>1, <1>2, RpcInvHolds, PTL DEF RpcSpec, ImplementsCall, Abstract!Spec
=============================================================================
