------------------------------ MODULE WorkerRpc ------------------------------
(***************************************************************************)
(* The synchronous calls of the web bindings: bindings/js/web/worker-rpc.js*)
(* and overrideBindings / mainWorker of web-backend.js.  The main thread   *)
(* posts a request, detaches the wrappers of the objects it moves, marks   *)
(* the shared control word READY and spins on it; the worker takes the     *)
(* message, waits for READY, runs the function and writes the outcome.     *)
(***************************************************************************)
EXTENDS Integers, Sequences, FiniteSets

CONSTANTS Objects,  \* wasm objects
          None      \* no request

ASSUME ObjectAssumption == IsFiniteSet(Objects) /\ None \notin Objects

VARIABLES
  word,     \* word 0 of the control header
  result,   \* what SUCCESS hands over: the object made, or None
  main,     \* where the main thread is in the call
  call,     \* its request: the objects moved and borrowed
  moves,    \* the moves commitMainThreadMoves has still to detach
  attached, \* the objects with a wrapper on the main thread
  inbox,    \* the message events the worker has not handled
  handler,  \* what the worker is doing
  request,  \* the request it is working on
  wrapped,  \* the objects its own wrappers hold
  outcome,  \* what it is about to write
  alive,    \* the objects allocated in the shared memory
  fatal,    \* fatalError is set
  ran       \* history: the call in progress has been run

control == <<word, result>>
mainVars == <<main, call, moves, attached, fatal>>
workerVars == <<handler, request, wrapped, outcome>>
rpcVars == <<control, mainVars, inbox, workerVars, alive, ran>>

Requests == [moved : SUBSET Objects, borrowed : SUBSET Objects]
Nothing == [moved |-> {}, borrowed |-> {}]

InitRpc ==
  /\ word = "preparing" /\ result = None
  /\ main = "idle" /\ call = Nothing /\ moves = {} /\ fatal = FALSE
  /\ alive \in SUBSET Objects /\ attached = alive
  /\ inbox = <<>> /\ handler = "idle" /\ request = Nothing
  /\ wrapped = {} /\ outcome = "success" /\ ran = FALSE

-----------------------------------------------------------------------------
(* The main thread, synchronous from the call to its return *)

\* Mutant: the header keeps the state of the last call.
NotReset == word

\* prepareWorkerRpcRequest
Reset == "preparing"

\* encodeMainThreadArguments refuses objects without a pointer; then the header
\* is reset.  A call after a failed handoff throws fatalError.
CallWorker(moved, borrowed) ==
  /\ main = "idle" /\ ~fatal
  /\ moved \cap borrowed = {} /\ moved \cup borrowed \subseteq attached
  /\ call' = [moved |-> moved, borrowed |-> borrowed]
  /\ moves' = moved
  /\ word' = Reset /\ result' = None
  /\ main' = "prepared"
  /\ ran' = FALSE
  /\ UNCHANGED <<attached, fatal, inbox, workerVars, alive>>

PostMessage ==
  /\ main = "prepared"
  /\ inbox' = Append(inbox, call)
  /\ main' = "posted"
  /\ UNCHANGED <<control, call, moves, attached, fatal, workerVars, alive, ran>>

\* commitMainThreadMoves: one __destroy_into_raw after the other
CommitMove(o) ==
  /\ main = "posted" /\ o \in moves
  /\ attached' = attached \ {o}
  /\ moves' = moves \ {o}
  /\ UNCHANGED <<control, main, call, fatal, inbox, workerVars, alive, ran>>

\* Mutant: the request is marked ready with a move still to be detached.
Detachable == Cardinality(moves) <= 1

Detached == moves = {}

MarkReady ==
  /\ main = "posted" /\ Detached
  /\ word' = "ready"
  /\ main' = "waiting"
  /\ UNCHANGED <<result, call, moves, attached, fatal, inbox, workerVars, alive, ran>>

\* postMessage throws, or a pointer has changed: cancel, terminate the worker
\* and refuse all later calls.  The worker stops when it notices.
HandoffFails ==
  /\ main \in {"prepared", "posted"}
  /\ word' = "cancelled"
  /\ fatal' = TRUE
  /\ main' = "idle" /\ call' = Nothing /\ moves' = {}
  /\ UNCHANGED <<result, attached, inbox, workerVars, alive, ran>>

\* Mutant: the main thread takes READY for an outcome.
PendingUntilReady == word = "preparing"

Pending == word \in {"preparing", "ready"}

\* waitForWorkerRpcResult: spin until there is an outcome; decodeMainThreadResult
WaitEnds ==
  /\ main = "waiting" /\ ~Pending
  /\ attached' = IF word = "success" /\ result # None
                 THEN attached \cup {result} ELSE attached
  /\ main' = "idle" /\ call' = Nothing /\ moves' = {}
  /\ UNCHANGED <<control, fatal, inbox, workerVars, alive, ran>>

\* The finalizer of a dropped wrapper frees its object, in a task of its own.
Collect(o) ==
  /\ main = "idle" /\ o \in attached
  /\ attached' = attached \ {o} /\ alive' = alive \ {o}
  /\ UNCHANGED <<control, main, call, moves, fatal, inbox, workerVars, ran>>

-----------------------------------------------------------------------------
(* The handler of 'run' in the worker *)

Receive ==
  /\ handler = "idle" /\ inbox # <<>>
  /\ handler' = "waiting" /\ request' = Head(inbox) /\ inbox' = Tail(inbox)
  /\ UNCHANGED <<control, mainVars, wrapped, outcome, alive, ran>>

\* Mutant: the worker does not wait for READY.
Resumes == word # "cancelled"

Ready == word \notin {"preparing", "cancelled"}

\* waitForWorkerRpcReady returns true and decodeWorkerArguments wraps what is
\* moved; any other state than READY is an error.
BeginRun ==
  /\ handler = "waiting" /\ Ready
  /\ \/ /\ word \notin {"success", "error"}
        /\ handler' = "running" /\ wrapped' = request.moved
        /\ UNCHANGED outcome
     \/ /\ word \in {"success", "error"}
        /\ handler' = "writing" /\ outcome' = "error"
        /\ UNCHANGED wrapped
  /\ UNCHANGED <<control, mainVars, inbox, request, alive, ran>>

\* It returns false for a cancelled request, and nothing is written.
Drop ==
  /\ handler = "waiting" /\ word = "cancelled"
  /\ handler' = "idle" /\ request' = Nothing
  /\ UNCHANGED <<control, mainVars, inbox, wrapped, outcome, alive, ran>>

\* Mutant: moved arguments are freed only after a call that failed.
KeepsUnconsumed(consumed, ok) == IF ok THEN consumed ELSE request.moved

\* cleanupWorkerArguments frees the moved arguments that are still wrapped.
Freed(consumed, ok) == request.moved

\* The function consumes arguments and returns or throws; cleanup is an error if
\* it returned without consuming all.  A result object is detached.
Run(consumed, ok, new) ==
  /\ handler = "running"
  /\ consumed \subseteq request.moved
  /\ new \subseteq Objects \ alive /\ Cardinality(new) <= 1
  /\ new # {} => ok /\ consumed = request.moved
  /\ outcome' = IF ok /\ consumed = request.moved THEN "success" ELSE "error"
  /\ alive' = (alive \ Freed(consumed, ok)) \cup new
  /\ result' = IF new = {} THEN result ELSE CHOOSE o \in new : TRUE
  /\ wrapped' = {}
  /\ handler' = "writing" /\ ran' = TRUE
  /\ UNCHANGED <<word, mainVars, inbox, request>>

\* writeWorkerRpcSuccess or writeWorkerRpcError
WriteOutcome ==
  /\ handler = "writing"
  /\ word' = outcome
  /\ handler' = "idle" /\ request' = Nothing
  /\ UNCHANGED <<result, mainVars, inbox, wrapped, outcome, alive, ran>>

\* worker.terminate() takes effect, or the browser kills the worker
Dies ==
  /\ handler # "dead"
  /\ handler' = "dead" /\ request' = Nothing /\ wrapped' = {} /\ inbox' = <<>>
  /\ UNCHANGED <<control, mainVars, outcome, alive, ran>>

MainStep ==
  PostMessage \/ MarkReady \/ WaitEnds \/ \E o \in Objects : CommitMove(o)

WorkerStep ==
  \/ Receive \/ BeginRun \/ Drop \/ WriteOutcome
  \/ \E consumed, new \in SUBSET Objects, ok \in BOOLEAN : Run(consumed, ok, new)

NextRpc ==
  \/ \E moved, borrowed \in SUBSET Objects : CallWorker(moved, borrowed)
  \/ MainStep \/ HandoffFails \/ WorkerStep \/ Dies
  \/ \E o \in Objects : Collect(o)

RpcSpec == InitRpc /\ [][NextRpc]_rpcVars

\* Both threads run as long as they can; nothing has to be called, fail or die.
FairRpcSpec == RpcSpec /\ WF_rpcVars(MainStep) /\ WF_rpcVars(WorkerStep)

-----------------------------------------------------------------------------
\* No wrapper of either thread points to freed memory, and no object has a
\* wrapper that frees it on both sides while the worker runs: neither a worker
\* that is early nor a finalizer that is late frees an object twice.
NoDanglingWrapper ==
  /\ attached \cup wrapped \subseteq alive
  /\ attached \cap wrapped = {}

\* The objects a request names are allocated while the function runs on them.
ArgumentsAlive ==
  handler = "running" => request.moved \cup request.borrowed \subseteq alive

\* A call returns or throws as long as the worker lives; the main thread cannot
\* notice that it died, and spins.
CallEnds == main = "waiting" ~> main # "waiting" \/ handler = "dead"

Abstract ==
  INSTANCE RemoteCall
    WITH phase <- IF fatal THEN "broken" ELSE IF main = "idle" THEN "none"
                  ELSE IF ran THEN "ran" ELSE "called",
         moved <- call.moved,
         made  <- IF result = None \/ main = "idle" THEN {} ELSE {result},
         held  <- attached \ moves,
         live  <- alive

\* The handshake implements a call that runs once and consumes what it is given.
ImplementsCall == Abstract!Spec
=============================================================================
