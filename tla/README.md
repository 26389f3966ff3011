# o1js in TLA+

A verification development of o1js: TLA+ models of the stateful protocols of the
library, TLC runs that check them on small instances, and TLAPS proofs of what
holds for every instance.  Paths such as `lib/mina/v1/mina.ts` are relative to
`src/src/`; `PROJECT.json` maps every definition of a model to the lines it
translates.

1. [The system](#1-the-system)
2. [Modules](#2-modules)
3. [Abstractions](#3-abstractions)
4. [Runs](#4-runs)
5. [Fairness](#5-fairness)
6. [Where code and documentation disagree](#6-where-code-and-documentation-disagree)
7. [Proofs](#7-proofs)
8. [Only model-checked](#8-only-model-checked)
9. [Not modelled](#9-not-modelled)
10. [Plan](#10-plan)

## 1. The system

o1js turns TypeScript functions into zero-knowledge circuits and into zkApp
transactions of the Mina blockchain.  Most of its lines are pure computation:
fields, curves, hashes, gadgets, conversions.  What is hard to test lies in the
parts below.  All of them live in one JavaScript process, so an interleaving is
an order of the stretches of code between two `await`s; nothing else preempts.
The web worker and the cache directory are the two exceptions.

| component | state it keeps | operations | hard behaviour |
|---|---|---|---|
| thread pool, `lib/proof-system/workers.ts` | `state`, `isNeededBy`, `initPromise`, `exitPromise` | `withThreadPool(run)` | calls that arrive while the pool starts or exits; a failing start, exit or run |
| global contexts, `lib/util/global-context.ts` | one stack per context (`currentTransaction`, `smartContractContext`, `memoizationContext`, `snarkContext`, the program context) | `enter`, `leave`, `runWith`, `runWithAsync` | tasks that interleave on one stack; errors inside |
| building a transaction, `lib/mina/v1/transaction.ts`, `zkapp.ts` | the three contexts, the layout of account updates, the test and the final run | `createTransaction`, `wrapMethod` | two runs of one callback with a gap between them; nested methods that throw; callbacks that do not await their methods |
| local blockchain, `lib/mina/v1/local-blockchain.ts` | ledger, stores of events and actions | `transaction`, `sendTransaction`, `fetchEvents`, `getActions` | verification over many `await`s against a ledger that moves; rejection after partial work |
| transaction status, `lib/mina/v1/mina.ts`, `transaction.ts`, `fetch.ts` | status, attempts | `sendTransaction`, `wait`, `safeWait`, `waitForFinality`, `safeGetDepth` | a chain that grows and reorganizes; answers that are old; failing requests; attempts running out |
| fetch cache, `lib/mina/v1/fetch.ts`, `mina.ts` | caches and marks of accounts, network, actions | `mark...ToBeFetched`, `fetchMissingData`, the reads of `Network` | caches shared by all transactions; answers out of order; failing requests |
| node backend, `bindings/js/node/node-backend.js` | `wasmWorkers`, `wasmThreadPoolRunning`, `workersReady` | `initThreadPool`, `startWorkers`, `terminateWorkers` | startup timeout against late answers; a start after a failed start |
| web backend and RPC, `bindings/js/web/` | a shared-memory request, moved objects, `fatalError` | the overridden bindings | two threads, one of them spinning; handoff of ownership; a worker that dies |
| file system cache, `lib/proof-system/cache.ts` | two files per entry | `read`, `write` | a crash or another process between the two writes; a register of what was read that outlives what was read |
| GraphQL requests, `lib/mina/v1/fetch.ts` | timers, attempts, pairs of endpoints | `makeGraphqlRequest` | a race of two requests with shared timers; retries |
| preconditions and state, `lib/mina/v1/precondition.ts`, `state.ts` | what was read and constrained, the state layout | `get`, `requireEquals`, `requireNothing`, ... | sequences of legal calls that overwrite one another |
| account updates, `lib/mina/v1/account-update.ts` | the unfinished tree and forest of a transaction | `pushTopLevel`, `approve`, `disattach`, `finalize` | an update that is moved between parents |
| reducer and batch reducer, `lib/mina/v1/actions/` | processed action state, stack of pending actions | `dispatch`, `prepareBatches`, `processBatch` | actions that arrive between preparing and sending |
| offchain state, `lib/mina/v1/actions/` | Merkle map, value map, on-chain commitments | `get`, `overwrite`, `update`, `createSettlementProof`, `settle` | clients that rebuild the map while it is settled |
| token contracts, `lib/mina/v1/token/` | position in a forest | `approveBase`, the forest iterator | order and completeness of the visit |
| limits and verification, `lib/mina/v1/transaction-validation.ts` | none | `verifyTransactionLimits`, `verifyAccountUpdate` | boundaries |
| programs and proving, `lib/proof-system/` | compiled provers, keys | `compile`, provers, `verify` | runs inside the thread pool and the contexts |
| provable types, gadgets, Merkle structures, cryptography, bindings, mina-signer, the second transaction API | none, or data structures | pure functions | algebra |

How they interact.  A user calls `Mina.transaction(sender, f)`.  The active
instance, `LocalBlockchain` or `Network`, calls `createTransaction` twice.  Both
runs enter `currentTransaction` and call `f`, whose contract methods go through
`wrapMethod`: this enters `smartContractContext` and `memoizationContext` and
pushes the method's account update to the layout of the current transaction.
The test run of `Network` reads through the fetch cache and marks what it
misses; between the runs `fetchMissingData` asks the node.  `tx.prove()` runs
the methods again inside the circuit contexts and in `withThreadPool`, which
starts the backend's workers.  `tx.send()` submits; `wait()` and
`waitForFinality()` poll.

What makes each part correct, in one sentence each:

* thread pool: a `run` is in progress only while the pool is up, and the pool is
  started and stopped once at a time, for somebody, respectively for nobody;
* contexts: a task that is alone finds its own entry and leaves the stack as it
  found it; conflicts of tasks that are not alone are reported to somebody;
* building: transactions never nest; a method writes into the layout of its own
  transaction unless it outlives its callback; once all has ended, whether
  awaited or not, the contexts are as they were;
* local blockchain: what is applied was verified against the key it meets, the
  action store agrees with the ledger's action state;
* status: what is reported as included or final is true; waiting ends;
* fetch cache: the final run finds what the test run marked, fresh when the
  transaction is alone, whatever others fetch;
* node backend: the workers are started once, and a `run` on node has them all;
* web RPC: a call runs once, consumes what is moved into it, and no wrapper of
  either thread points to freed memory;
* file system cache: an undisturbed reader gets the data of the header it has
  compared, the global SRS cache does not outlive the compiles, and a basis that
  is marked as read is on the SRS unless that was replaced;
* GraphQL requests: somebody watches the race, and its outcome is one that
  happened;
* account updates: the transaction is what its hash commits to, no update is in
  it twice, moving one moves nothing else; the token contract sees every update
  that may use its token;
* offchain state: the contract commits to what the actions mean, each counted
  once;
* batch reducer: every action is handled once, in order, and in the end all are.

## 2. Modules

```
GlobalContext ─┬─ ContextTasks ─────────┬────── MCContextTasks
               ├─ CreateTransaction ────┼────── MCCreateTransaction
               │                        └────── TransactionProofs
               └─ CompileCache ─────────┬────── MCCompileCache
                                        └────── CompileCacheProofs
PoolLease ··· ThreadPool ── NodeBackend ─┬───── MCThreadPool
RemoteCall ··· WorkerRpc ────────────────┼───── MCWorkerRpc
                                         └───── ThreadPoolProofs
FetchCache ──────────────────────────────┬───── MCFetchCache
GraphqlRequest ──────────────────────────┼───── MCGraphqlRequest
TransactionStatus ───────────────────────┼───── MCTransactionStatus
                                         └───── FetchProofs
Selection ── LocalBlockchain ────────────┬───── MCLocalBlockchain
                                         └───── LocalBlockchainProofs
Folding ─┬─ OffchainState ───────────────┬───── MCOffchainState
         │                               └───── OffchainStateProofs
         └─ ActionQueue ··· BatchReducer ┬───── MCBatchReducer
                                         └───── BatchReducerProofs
AccountUpdateLayout ── TokenForest ──────┬───── MCTokenForest
                                         └───── TransactionProofs
```

Lines are EXTENDS; dots are an abstract specification that the module to the
right instantiates with a refinement mapping and implements.  A proof module
EXTENDS every module drawn above it on its line.  `Selection` and `Folding` hold
a filter and two folds over sequences as recursive functions;
`AccountUpdateLayout` uses both.  `InductionLemmas` has the lemmas about them
(section 7).

**Thread pool.**  `PoolLease` is the abstract promise of the thread pool: a pool,
the calls that want it, the calls inside.  `ThreadPool` models `withThreadPool`
line by line: `Call` is the code from the call to its first `await`, with one
definition per `case` of its `switch` (`EnterNone`, `EnterInitializing`,
`EnterRunning`, `EnterExiting`); `AfterInit` and `InitThrows` are the code after
`await initPromise`, `RunSettles` the `finally` with the reference count,
`ExitResolves` and `ExitRejects` the code after `await exitPromise`.
`ChainedInit` is the microtask of `exitPromise.then(initThreadPool)`.

`NodeBackend` puts this on top of the two functions it calls.  On node,
`initThreadPool` starts the workers unless they run, each worker is a promise
that its first message, an error or the startup timer settles, and
`Promise.all` of them settles the start; `exitThreadPool` keeps the workers.
The web backend, whose pool lives behind a worker, is any backend that starts
and stops and may fail in both.  A start that failed is never tried again: the
state machine keeps the rejected promise, which is what `FailedInitIsFinal`
says.  A worker that is ready removes its handlers, so the branch for a ready
worker in the handler of `exit` is dead code, and a worker that is ready after
its timeout is not heard; the model has neither.

**Contexts and transactions.**  `GlobalContext` holds `enter` and `leave` as
operators on a stack; their peculiarity is that `leave` pops first and compares
afterwards.  `ContextTasks` puts asynchronous tasks on one context, each nesting
`runWithAsync`.  `CreateTransaction` uses the same operators for the three
contexts of a transaction.  A task is a call of `Mina.transaction()`; `Begin`
and `FinalRun` start its runs, `CallbackThrows`, `FeePayerThrows` and `RunBuilt`
are the three ways out of `createTransaction`.  `CallMethod` is `wrapMethod` up
to the method's body: it finds out from the contexts, not from its caller, what
kind of call it is (`"top"` of the transaction that is being built, `"inner"` to
another method, `"outside"` of any transaction).  `MethodReturns` and
`MethodThrows` end a top-level call with both `finally` blocks, `InnerBodyEnds`
and `CallEnds` an inner one in two turns.

The callback is the user's code, and nothing in `createTransaction` makes sure
that it awaits the methods it calls; a missing `await` is the first cause that
the error message of `global-context.ts:111-121` names.  The tasks in `Careless`
have such a callback: one that misses an `await`, or runs methods under a
`Promise.all`, which rejects when the first of them does.  Its methods end in
any order, it may itself end while they run, and the code that it leaves behind
may call more methods, in the middle of whatever else goes on.  `strays` is
history: the runs of which a method was running after their callback had ended.
The other tasks await each call before they make the next one.

**Compiling.**  `CompileCache` is `compileProgram` as its caches see it: enter
`snarkContext`, set the global SRS cache, obtain the SRS, a Lagrange basis (two
visits, the second only if the basis has not been seen in the cache) and a key,
leave and unset.  Every item is read from the cache or computed and written, and
an entry of the cache is two files.  A file operation is synchronous inside its
process; other processes run between any two system calls (`ReadHeader`,
`ReadData`, `WriteHeader`, `OpenData`, `FillData`), a write may fail, a
compilation may throw, a process may die.  `clean` and `whole` are history: they
say that no write disturbed a reader, and that the last write of an entry was
complete and alone.

An SRS without points that is found in memory is deleted and replaced
(`FindsEmpty`, `srs.ts:95-98`), and with it the basis that was on it; the
register that says the basis was read is not reset.  The next compile of that
process trusts the register and fails the assertion that the basis is there
(`AssertionFails`, `srs.ts:185`).  A compile that still holds the old SRS sets
its basis on that one, which `Obtain` allows where an SRS was replaced.
`replaced` and `asserted` are history: in which processes the first has happened
since they started, and to which compiles the second.

**Web RPC.**  `RemoteCall` is what a caller is promised: a call that runs once,
takes what is moved into it, hands back what it made.  `WorkerRpc` is the
protocol: the main thread resets the shared control word, posts the message,
detaches the moved wrappers one by one, writes READY and spins; the worker
handles the message, waits for READY, wraps the moved arguments, runs, frees
what the function left, and writes the outcome.  The handoff may fail at every
step, which cancels the request and makes all later calls throw; the worker may
die at any time.

**Local blockchain.**  `LocalBlockchain` splits `sendTransaction` at its
`await`s: `Send`, one `Verified` per account update whose account is known, then
application to the ledger and the storing of events and actions in one turn,
then `Hashed`.  The Mina transaction logic behind `applyJsonTransaction` is
external and reduced to nonces, verification keys, one permission and
all-or-nothing application.  `verified` is history: which updates of a send were
verified, and so against which key; `StaleKeyNeverApplied` says of a step that
applies a transaction that each verified update still finds its key.  `FetchEvents` reverses the store in place, as
`Array.reverse` does; `GetActions` is the slice between two action states.

**Remote network.**  `TransactionStatus` separates the node's answer (`Answer`)
from its handling (`HandleStatus`, `HandleDepth`), so the chain may move in
between (`NewBlock`, `Reorganize`).  `FetchCache` separates the sending of a
request, its answer and the storing of the answer (`FetchMissingData`, `Answer`,
`Fetched`), so that answers arrive in any order; `TestRead` marks, `FinalRead`
reads or fails.  `GraphqlRequest` is one call of `makeGraphqlRequest`, below both:
the endpoints are raced in pairs, every request has a timer, and all timers of
the call are in one list which any request that gets headers or fails clears.

**Account updates.**  `AccountUpdateLayout` has one operator per method of the
layout.  Forests and the data of Merkle lists are shared objects, so they live
on a heap and a change of one is seen wherever it is referred to; the hash next
to a reference is a value.  That is where the interest lies: `tree.approve`
after the tree was put somewhere changes the shared data but not the hash of the
place (`late`), an update that takes the place of a tree has no children, a
forest that is approved replaces an earlier final forest, `isDummy` is set on
every `approve` of an optional update and never reset otherwise, a circle of
approvals takes itself out of the transaction, and an update put into a forest
by value can be attached once more.  `TokenForest` composes the result with the
iterator of a token contract, which takes a fixed number of steps and skips what
cannot use the token.

**Actions.**  `OffchainState` has the contract, the actions it dispatched, and
clients, each with its copy of the map.  `MerkleUpdateBatch` is the circuit,
`UpdateMerkleMap` what clients rebuild; the two treat an invalid action
differently and must agree.  `BatchReducer` has the contract with its two fields,
the settlers that prepare batches and send them, and the transactions under way.
`ProveActionStack` and `ActionStackChunk` are the circuits that turn a list of
pending actions into a stack, `BatchesOf` is `prepareBatches`, `ProcessBatch`
what the contract method asserts and requires.  `ActionQueue` is the abstract
promise: updates are handled whole, in order, at most `BatchSize` actions at a
time.

## 3. Abstractions

* Promises are the states of a task or of a variable; a step is what runs in one
  turn of the event loop.
* Ids (`Math.random()` in `enter`) are unique: they name the task and the depth.
* A hash is what was hashed: action states are sequences of updates, the hash of
  a forest is a sequence of pairs of an update and the hash of its children, the
  root of an indexed Merkle map is its pairs in the order of their first
  insertion.  This is what a hash without collisions distinguishes.
* A proof is its public input and output, computed by the circuit; proofs that
  verify exist for nothing else.
* Account updates are who created them (`CreateTransaction`), their kind, account
  and key (`LocalBlockchain`), or names (`AccountUpdateLayout`).
* Signatures are valid and proofs are those of the key an update was made for.
* Wasm objects are model values, their memory is a set of those allocated.
* Values of the network are versions: a number that grows when the remote state
  changes, so that freshness can be stated.  Contents of the file cache are the
  unique id of what they were computed for, `"torn"` for a file cut off.
* An account remembers some of its earlier action states, depending on the slots
  in which they were reached.  Slots are not modelled: whether an action state
  other than the last one is still remembered is a free choice at each
  transaction (`older`).
* Heights are counted from 1 to `MaxHeight`; the chain may stop growing.

## 4. Runs

| run | what it shows | instance |
|---|---|---|
| `thread_pool` | `ImplementsLease`, `FailedInitIsFinal`, `RunsHaveWorkers`, `EveryCallSettles`: the pool is up while it is used, on both backends, and no call waits for ever | 4 calls, 2 workers, starts and exits may fail |
| `context_tasks` | `RestRestoresDefault`, `NoSilentLoss`: what interleaved tasks may and may not do to one context | 3 tasks, nesting 2, with a default context, both values of `allowsNesting` |
| `create_transaction` | `ContextsRestored`, `OwnLayout`, `MethodsBelongToTransaction`, `RefusalHasCause`: what methods that nobody awaits can and cannot do to transactions | 2 tasks that may overlap, one of them careless, 3 method calls each |
| `local_blockchain` | `StoreMatchesLedger`, `SlicesCompose`, `StaleKeyNeverApplied` | 2 sends of 8 templates, 2 fee payers, 2 contracts, 2 keys |
| `transaction_status` | `IncludedWasOnChain`, `FinalityIsFinal`, `WaitSettles`, `FinalitySettles` | 2 attempts each, threshold 2, blocks of depth 2 settled, window 4, height 6 |
| `fetch_cache` | `FetchedIsThere`, `AloneReadsFresh`: what the final run is given | 2 tasks with 3 callbacks, an account, a contract with 2 ranges, 3 versions |
| `compile_cache` | `WholeEntriesMatch`, `KeyIsOwn`, `SrsCacheReleased`, `AssertionHasCause` | 3 compiles of 2 circuits in 2 processes, 2 combinations of options, 2 faults |
| `worker_rpc` | `NoDanglingWrapper`, `ImplementsCall`, `CallEnds` | 3 objects, any number of calls |
| `graphql_request` | `SomebodyWatches`, `OutcomeHasCause`, `ReturnsIfWatched` | 4 endpoints, 2 attempts, bodies may stall |
| `token_forest` | `CommitsToContent`, `OncePerTransaction`, `MovesOnlyItself`, `ApprovesWhatItSaw` | 3 account updates, 5 operations, 3 steps of the iterator |
| `offchain_state` | `ChainIsHistory`, `RollupMatchesRebuild`, `SettlesUnlessOvertaken` | 2 clients, 3 account updates of 3 kinds, 2 actions per update, 3 per proof |
| `batch_reducer` | `StackIsPending`, `ImplementsQueue`, `AllIsHandled` | 2 settlers, 4 account updates of 1 or 2 actions, 3 actions per batch, 1 crash |

Why these bounds show the interesting cases.

* `thread_pool`: a conflict needs one call that exits, one that arrives
  meanwhile, one that waits on the chained init and one that arrives after;
  that is four.  Two workers are the fewest of which one can be ready and the
  other not.  The proofs hold for every number of both.
* `context_tasks`: two tasks suffice to pop each other's entries, the third is
  the one that finds the stack afterwards.  Depth 2 lets a task leave an inner
  entry while its outer one is taken.
* `create_transaction`: a careless task and a careful one, so that a method of
  the first can outlive its callback and meet the callback, the gap between the
  runs or a method of either.  Three calls are two side by side or one inside
  the other, and one that comes later, in the same run, in the other or from
  code left behind.  The proofs hold for any number of both kinds.
* `local_blockchain`: the templates contain a deployment of both contracts, an
  upgrade that races an action, two actions of one transaction on one account,
  and a change of permission that rejects the transaction's own action, so that
  all four outcomes occur (verification fails, the fee payer is refused, only
  the fee is charged, applied).  `Deployed = {0, 1}` starts with and without
  contracts.
* `transaction_status`: `Window` > `Threshold` as in the code (20 and 15);
  height 6 lets a transaction be included, reorganized away, included again and
  buried.  `Settled <= Threshold` is the meaning of the threshold: the
  documentation of `waitForFinality` takes a block that deep as final.
* `fetch_cache`: two tasks share a contract with different ranges, one reads two
  ranges.  Three versions let a value be stale, fresh, and changed again.
* `compile_cache`: two compiles of different circuits overlap in one process, so
  they share globals; a third one, of the circuit of the second, writes the same
  entries from another process.  Two faults are a crash, a failed write, a throw
  or an SRS found empty, and another of these after it, in the same process or
  in the other: an assertion that fails needs one, and after it the process can
  still crash.
* `worker_rpc`: with three objects a call moves two, which are detached in two
  steps, and borrows one.  There is no bound on the number of calls.
* `graphql_request`: four endpoints are two pairs, so a request of the first can
  meet the timers of the second; two attempts are one retry.
* `token_forest`: three updates are the fewest with a parent, a child and a
  grandchild or a sibling; five operations attach all three, take a subtree out
  and put it back, and make forests three levels deep (`MaxLevels` is 4).  The
  198,000 states are those left by the symmetry of the
  updates.
* `offchain_state`: the updates contain one that always counts, one that fails
  at its second action when its key has changed, and one that fails at its
  first.  Three actions per proof cut three updates into two proofs.  No update
  has more than `MaxPerUpdate` actions, as the documentation of the state
  requires of every method (`offchain-state.ts:174-178`).
* `batch_reducer`: `MaxFinal = 1`, `MaxPerProof = 2` and four updates give
  stacks that need no proof, one, and two with a short last chunk.  Batches of
  three actions end before an update that does not fit.

`CHECK_DEADLOCK FALSE` is given where the system may stop: all calls are made,
all transactions sent, the chain has its last block, everything is settled.
Every property is shown to depend on the code by at least one mutant of a mapped
definition, declared as an operator next to the original and listed in
`PROJECT.json`.

## 5. Fairness

* `NodeBackend!BackendSpec`: startup timers fire, the promise of a start
  settles once its workers' do, reactions of settled promises run, and every
  `run()` ends.  The workers themselves owe nothing: `EveryCallSettles` holds
  because of the timer.  No call is forced to be made.
* `TransactionStatus!FairStatusSpec`: weak fairness of the client's steps and of the
  answers it waits for: its timers fire and its requests are answered or fail.
  The chain is under no fairness: `WaitSettles` and `FinalitySettles` hold also
  on a chain that stands still.  That a request ends is an assumption; the
  timeout of `fetch.ts` does not cover the body of a response (see below).
* `WorkerRpc!FairRpcSpec`: both threads run as long as they can.  Nothing has to be
  called, to fail or to die.  `CallEnds` says that a call ends or the worker is
  dead; in the latter case the main thread spins for ever.
* `GraphqlRequest!FairRequestSpec`: timers fire, aborted fetches reject, and back-offs
  end.  Servers owe nothing.  Bodies arrive or fail only if `BodyStalls` is
  FALSE; the run has TRUE, and `ReturnsIfWatched` names the two ways in which a
  call never returns.
* `OffchainState!FairSpec`: requests are answered, and a client does not end with
  a `get` for ever instead of settling (strong fairness from `mapped` to
  `reading`).
* `BatchReducer!FairSpec`: requests are answered, transactions are included,
  settlers go on.  Weak fairness per settler suffices although they overtake
  one another: a batch fails only after somebody else's succeeded or an action
  arrived, and both are bounded.

The last two state fairness of a step by what it does to one variable, which
tells it from the other steps and is cheaper to evaluate than the whole action.

## 6. Where code and documentation disagree

Each of these is kept as a definition that quotes the documentation and that no
run checks.  Added to the named configuration as INVARIANT or PROPERTY, TLC ends
with a counterexample.

1. `CreateTransaction!RefusalMeansNested` (`MCCreateTransaction`): a transaction
   whose fee payer is unknown, or whose nonce or fee does not parse, is never
   left.  All later ones are refused with "Cannot start new transaction within
   another transaction" (`transaction.ts:544`).
2. `LocalBlockchain!LatestEventsFirst` (`MCLocalBlockchain`): `fetchEvents`
   reverses its store in place, so every second call has the order its comment
   excludes, and later events end up in the middle.
3. `LocalBlockchain!StoredStateIsLatest` (`MCLocalBlockchain`): the actions of
   transactions the ledger rejected are stored; the "most recent action state"
   of the store is then not the account's.
4. `TransactionStatus!SafeGetDepthDoesNotThrow` (`MCTransactionStatus`): it is
   documented to return null instead of throwing, and throws when the request
   fails; `waitForFinality` gives up with it.
5. `TransactionStatus!NotFinalIsShallow` (`MCTransactionStatus`):
   `waitForFinality` reports that finality was not reached of a transaction that
   is so deep that the node's window no longer shows it.
6. `FetchCache!RangeAsAsked` (`MCFetchCache`): of two ranges of one contract's
   actions in one transaction, the last one is fetched and given for both.
7. `GraphqlRequest!TimeoutEndsCall` (`MCGraphqlRequest` with `BodyStalls =
   FALSE`): a request left over from an earlier pair of endpoints clears the
   timers of the next pair (`fetch.ts:1208`), whose requests are then bounded by
   nothing, although the configured timeout is meant to end them.  With
   `BodyStalls = TRUE` a second way is a body that never ends, since the timers
   are cleared when the headers are there.

What the properties say of more places.  The header of a cache entry is
written before its data, so a write that is cut off or overtaken leaves a header
with the data of another circuit; `KeyIsOwn` and `WholeEntriesMatch` hold only
where no write was disturbed, and TLC refutes both without `clean` and
`whole`.  When an action arrives between a settlement proof and its settlement,
`createSettlementProof` has already moved the client's map ahead of the
contract, and nothing but a new client takes it back: `SettlesUnlessOvertaken`
cannot be stated without its second half.  A method that outlives its callback
pushes its account update to whatever transaction is current when it ends
(`zkapp.ts:313`), be it another task's; `OwnLayout` and
`MethodsBelongToTransaction` hold up to the first such method, and TLC refutes
both without `strays`.  "Here, basis is definitely stored on the srs"
(`srs.ts:183`) is not so once an empty SRS was replaced: `AssertionHasCause`
says that this is the only way, and from then on every compile of that process
that uses a cache fails, until the basis has been computed again without one or
the process is restarted.

## 7. Proofs

tlapm checks every leaf; nothing is assumed but the named assumptions on
constants, which TLC evaluates in the runs.

**Induction over data.**  Much of what is proved is about folds: over the
updates of a transaction, over the actions of a store, over the loops of a
circuit.  The library's induction theorems take a predicate as a parameter, which
none of the backends can instantiate, so `InductionLemmas` states induction for
sets: a set that contains 0 and with every n below N also n + 1 contains 0..N
(`IntervalInduction`, from the well-foundedness of < on the naturals), and one
that contains the empty sequence and is closed under `Append` contains all
sequences (`SeqInduction`).  From `Iteration` (N steps from a state lead through
some function of states) follows that the function a recursive definition
chooses exists and satisfies its equation; that gives `Selected`, `Folded` and
`Flattened` step by step, over an appended element, over a concatenation and over
prefixes, and `FoldedStays`: what a step keeps, a fold keeps.  Operators that
are proved about are therefore folds with a function as their step, or a loop
written as a recursive function of its rounds.

**ThreadPoolProofs**, the thread pool (any finite set of calls, failing or
reliable backend).  Neither the reference count nor the absence of the "bug in
ThreadPool state machine" error is inductive: a count of zero must go with the
state, and the state with two promises and the backend.  `Phase` ties each value
of `state` to what the promises and the backend can be, and `OneExit` says that
one call at a time waits for the exit, without which a call could reset a state
that belongs to another.  From `Inv` follow `Typing`, `ReferenceCount`,
`StateMachineBugUnreachable`, `RunsNeedThePool`, the action properties
`BackendContract` and `RejectedInitIsFinal`, and `Refinement`: every step is a
step of `PoolLease` or a stutter.

The node backend (any set of workers, either backend).  `StepSimulation`: every
step over a backend is a step of `ThreadPool` or leaves it alone, so
`BackendSpec` implies `Spec` and all of the above carries over
(`BackendImplementsLease`, `BackendFailureIsFinal`).  `OneStart` is the
invariant of the node backend: `wasmThreadPoolRunning` is set by a start with
all workers, is never reset, and workers are pending only during the first
start, which needs `Phase`.  From it follows `RunsFindTheirWorkers`.

The worker call (any finite set of objects).  `MainPhase` and `WorkerPhase` say
what the control word means to each thread: the worker has no request but that of
the call in progress, runs it only while the main thread waits, and is done when
there is an outcome.  `Ownership` follows each moved object: alive and wrapped by
the main thread before its handoff, by nobody between, by the worker while it
runs.  `RanOnce` and `ResultOfSuccess` complete what the refinement needs.
Theorems: `WrappersAreSound`, `ArgumentsAreAlive`, and `RpcRefinement` of
`RemoteCall`.

**TransactionProofs**, transactions (any finite set of them, any number of
methods, overlapping or not, with careful and careless callbacks).
`OneTransaction`: a task that entered and has not left is the only entry of
`currentTransaction`, and an entry belongs to such a task.  Whose the entries of
the other two contexts are cannot be said once methods end in any order, since
`leave` pops whatever is on top.  Their number can: `EntriesCounted` says that
there are as many as calls that have not left, whoever entered them, for which
calls must be told apart (`CallsNumbered`).  That gives `ContextsAreRestored`.
`CallsBelong` says that a method runs for the run that is inside its callback or
is a stray, and only careless callbacks leave strays (`StraysHaveCause`);
`OwnEntries`, that until there is a stray all entries are of the run that is
being built.  Hence `MethodsStayInTransaction` and `LayoutsAreOwn`.  If every
callback is careful, the contexts are its call stack, entry by entry
(`StacksMirrorCalls`), and no `leave` finds anything but its own entry:
`NoConflicts`, the only one of these theorems which is about
`Careless = {}`.  The action property `RefusalsHaveCause` completes them.

Tasks on one context (any finite set of them, any depth, any default).  `leave`
may remove somebody else's entry, so no task can rely on its own being there.
What is inductive is the number: `DefaultBelow` says that there are as many
entries above the default ones as there are open calls, whoever entered them, so
that the last to leave finds the default (`RestIsRestored`).  `NoSilentLoss` is
inductive with it (`LossesAreReported`).

The layout of account updates (any finite set of them, any number of
operations, any depth).  That every hash is that of its data is not inductive,
since `tree.approve` changes data in place, and the hash only where the tree is
stored.  `HeapInv` says who else may refer to that data.  The data of a Merkle
list refers to earlier data only (`CellsAreEarlier`), so `Content` is well
defined and a change of one cell leaves the earlier ones alone; no forest and no
data belongs to two account updates (`OneOwner`); what data refers to belongs to
an update in a final forest or to one that was put somewhere by value
(`InFinal`), and where a node shares the data of a tree, it stands for that tree
(`Copies`).  A change of a tree that is neither in the layout nor put anywhere
by value therefore touches data that nothing refers to but the tree, which is
what `late` records.  `finalize` is a sequence of steps, one per forest,
innermost first, each of which keeps `HeapInv` and the nodes (`FinalizeInv`); a
circle of approvals does no harm, since the step for a forest with children that
are not final yet is covered like any other.  The invariant exists in some set of
values that holds all hashes on the heap (`SomeInv`), because hashes nest as deep
as the operations go.  Theorems: `LayoutInvHolds`, `CommitsToContentHolds`.

That an account update is sent once needs more of the same heap, and holds also
after a late change (hence the parameter `changed` of `HeapInv`): a list of
siblings has a node once (`ListedOnce`), what is data and was not put there by
value sits in a final forest (`Placed`) and in one place of all the data
(`InOnePlace`).  This is about places on the heap; what is sent is a sequence
flattened along all paths through it.  `Reached` is what a path finds that passes
no value, defined as the least sets closed under the data, since an induction
over data has to be avoided.  If two cells reach the same update then what refers
to the earlier one is reached from the later one (`ReachedMeet`, by induction on
the later cell: the other order would put the update that refers to it in two
places), so with one owner per cell the subtrees of two siblings have nothing in
common (`ReachedApart`).  `FlatUnfolds` and `CopiedUnfolds` take the forest that
is sent apart tree by tree, and `SentOnce` puts the two together: whatever was
not copied along with a value is in it once.  Theorem: `OncePerTransactionHolds`.

Token contracts (any forest, any kinds, any bound on the updates).
`VisitsUnfolds`: what must be seen of a forest is what must be seen of its trees,
one after another, whatever the level at which one starts.  The invariant: what
was visited, followed by what remains on the stack of unfinished layers, is what
must be seen of the forest (`RemainingSteps` takes the next update from it); a
layer is pushed even when nothing remains of it, which adds nothing.  Theorem:
`ApprovesWhatItSawHolds`, and `TokenBuildsLayout`, by which the theorems of the
layout hold under a token contract.

**FetchProofs**, the fetch cache (any tasks, keys, ranges and callbacks).  That
what was asked for is there is not inductive, because other tasks delete marks:
`AskedFor` says that a value asked for is cached, has failed, or is being
fetched, and `MarkedIsAccountedFor` that a mark is deleted only for a cached
value.  The freshness of a task that overlaps no other needs three invariants
about such a task, from its first read on: its marks are its own (`OwnMarks`),
the answers under way are not older than it (`OwnAnswers`), nor are the entries
it will read (`OwnEntries`); `Exclusive` says that tasks pending together have
noticed it.  Theorems: `Typing`, `MarksAreAccountedFor`, `AskedIsThere`,
`AloneIsFresh`.

A GraphQL request (any number of endpoints and attempts, bodies that stall or
not).  `BodiesWereServed` says that only an endpoint which executed the query
sends a body; with the typing of pairs it makes both properties of the run
inductive: `PairIsWatched` and `OutcomesHaveCauses`.

Transaction status (any window, threshold, attempts and height).  `ReplySound`
says that an answer on its way was true when given; `ReplySettled` that one which
shows the transaction deep enough stays true, because the chain can only grow on
top of a settled block; `AttemptsLeft` bounds the loops.  From them follow
`StatusTyping`, `InclusionIsTrue` and `FinalityIsTrue`.  The assumption is that
`Settled <= Threshold`.

**LocalBlockchainProofs** (any sends, fee payers, templates).
`OutcomeAtTheEnd` keeps a transaction from getting two outcomes.  `StoreInv` is about the stores: each is a chain of states
(`StoresChained`), it holds the actions of transactions that are over
(`StoredAreOver`), and those of applied ones are what the ledger hashes.  The
step that applies a transaction folds over its updates twice, once for the
ledger and once for the store; that both folds add the same actions, or none
when the ledger takes the transaction back, is an induction over the updates.
Theorems: `StoresMatchLedger`, `StoredSlicesCompose`.  `VerifiedKey` (what was
verified keeps the key it was verified against, in the view of the sender) gives
the action property `NoStaleKeyApplied`: the ledger refuses an update whose key
has changed, so an update that is applied either finds the key it was verified
against or follows a deployment in the same transaction.

**OffchainStateProofs** (any keys, values, clients, and any sizes for which an
update fits into a proof and the maximum per update).  `ApplyUpdateIsMeaning`:
the circuit, which writes to a map and takes all back when a precondition fails,
does what the actions of an update mean.  `CircuitOfBatch`: the circuit on the flat list of actions of a
batch, where only a mark says which action is the last of its update, computes
the same map as the updates one by one.  `ProveIsRebuild`: so do all proofs of a
settlement together, wherever the updates are cut into batches, since every
round takes at least one.  The invariant `OffchainInv` says of every proof that
if its input is what the actions up to there make of the empty map, then so is
its output (`Leads`); hence `ChainStandsForHistory` and
`CircuitAgreesWithRebuild`.

**BatchReducerProofs** (any settlers, actions and sizes).  A state of the
circuit is sound for an end state if its actions and its stack, turned around,
make up that end state, or an assertion has failed (`StacksOf`).  Every `pop`
keeps that, hence every chunk and every chain of proofs, for any witnesses
(`ProofStays`).  That the stack on chain is sound is not inductive by itself,
because transactions outlive the state that they were prepared for.
`BatchInv` says of every transaction on its way that it takes some updates and
leaves others (`TakesAndLeaves`), and that it has grounds for them: it requires
the stack that holds them, or the circuit proves that with them its action state
becomes one that the account had (`Grounded`).  An action state that was reached
stays reached.  Theorems: `StackHoldsPending`, and `HandlesInOrder`, the
refinement of `ActionQueue`: a transaction that is accepted is a step of the
queue, or takes nothing.

**CompileCacheProofs** (any compiles, processes, circuits, options and faults).
Three groups, kept separately by every step: `FilesInv` (an undisturbed writer is
alone with an entry and finds its own header; an undisturbed reader finds the
data of the header it read), `KeysInv` (a compile that has not passed its last
item has its own key or none), `GlobalsInv` (`snarkContext` has one entry per
running compile, and the register is ahead of the memory of its process only
where an SRS was replaced).  Theorems: `EntriesMatch`, `KeysAreOwn`,
`GlobalsAreReleased`, `AssertionsHaveCause`.

## 8. Only model-checked

* Liveness (`EveryCallSettles`, `WaitSettles`, `FinalitySettles`, `CallEnds`,
  `ReturnsIfWatched`, `SettlesUnlessOvertaken`, `AllIsHandled`): TLAPS does not prove leads-to under
  fairness, nor `ENABLED`.
* `MovesOnlyItself` of `AccountUpdateLayout`: it compares what the layout flattens
  to before and after a step, along paths through lists and data that may run in
  a circle, up to the depth to which `FlatForest` and `Under` follow them.

Proved and in no run, since the runs' other properties depend on the same code:
`NoStateMachineBug`, `RunsOnlyWhenUp`, `CountsItsCallers`,
`BackendCallsAlternate`, `NoContextConflict` (its run would have no careless
callback), `MarkedIsAccountedFor`, `ArgumentsAlive`, and the type invariants.

## 9. Not modelled

Most of the repository's lines are pure computation or generated, and outside
of what states and steps describe.

* The algebra: provable types, gadgets, fields, curves, hashes, proof systems
  (`lib/provable`, `bindings/crypto`).  A small field does not stand for the real
  one, and the repository tests these with random inputs.
* Generated layouts, conversions between representations, mina-signer, examples,
  build tooling: stateless, or generated.
* The OCaml and Rust code behind the bindings, except for what `LocalBlockchain`
  and `WorkerRpc` need of it.
* `ZkProgram`: the analysis and the proving itself; what compiling does to
  caches and contexts is in `CompileCache`, what it needs of threads in
  `ThreadPool`.
* Preconditions and the state layout (`precondition.ts`, `state.ts`): sequences
  of calls on one account update.  `requireNothing` after `requireEquals` keeps
  the earlier precondition of a state field; this is listed as a hazard.
* Transaction limits (`transaction-validation.ts`): boundaries of a formula.
* Merkle structures as algorithms; `OffchainState` and `BatchReducer` use their
  abstract values.
* The second transaction API (`lib/mina/v2`), which is experimental.
* `NodeBackend`: loading and sharing the wasm memory, `terminateWorkers`, calls
  made inside workers, the native backend, which has no pool.
* `LocalBlockchain`: creation of accounts, block heights and inclusion heights,
  balances, preconditions, signatures.
* `CreateTransaction`: `prove`, `sign` and `send`, and what `wrapMethod` does
  while compiling or proving.  Of a method that is called outside of any
  transaction only what it does to the contexts is modelled.
* `FetchCache`: genesis constants, archive endpoints, the direct `fetchAccount`
  of users (its answer has the effect of `Fetched`).
* `CompileCache`: one size of SRS and one domain; the encodings of keys; the
  native SRS (`napi-srs.ts`), whose caching is the same.
* `WorkerRpc`: the start of the worker and of its threads; error messages.
* `GraphqlRequest`: the queries and the parsing of answers.
* `AccountUpdateLayout`: bodies and authorizations, trees approved by trees;
  `TokenForest`: balances, `mint`, `burn`, `send`.
* `OffchainState`: account updates with more actions than a proof takes, at which
  `sliceActions` throws, or than `maxActionsPerUpdate`, which the documentation
  excludes and an assertion of the circuit refuses
  (`offchain-state-rollup.ts:89`); values behind their hashes.
* `BatchReducer`: account updates with more actions than a batch, which its
  documentation excludes; failing requests; disabled proofs; the older
  `Reducer.reduce` and `forEach`.

## 10. Plan

Done: the modules of section 2, the runs of section 4, the proofs of section 7.
What would come next, in this order:

1. `Preconditions` with the state layout: what was read and constrained per
   account update, and which sequences of `get`, `requireEquals`,
   `requireNothing` and `set` leave a value that is read unconstrained.
2. `MovesOnlyItself` by proof: what a step leaves of `FlatForest`, for layouts
   with and without circles.
3. The indexed Merkle map as linked leaves over symbolic hashes, in the place of
   the sequence of pairs in `OffchainState`.
4. Transaction limits as functions against a reference definition.
5. `Reducer.reduce` and the v2 transaction rules next to `LocalBlockchain`.
