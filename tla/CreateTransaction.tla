-------------------------- MODULE CreateTransaction --------------------------
(***************************************************************************)
(* Building a zkApp transaction: createTransaction of                      *)
(* lib/mina/v1/transaction.ts as LocalBlockchain.transaction and           *)
(* Network.transaction call it (a test run, a fetch, a final run), with    *)
(* the contract methods its callback calls (wrapMethod of                  *)
(* lib/mina/v1/zkapp.ts) and the three global contexts they share:         *)
(* currentTransaction, smartContractContext and memoizationContext.        *)
(*                                                                         *)
(* An action is a stretch of code between two awaits.  A task is one call  *)
(* of Mina.transaction(); tasks interleave at every await.                 *)
(*                                                                         *)
(* A callback is the user's code.  A careful one awaits every method it    *)
(* calls before it goes on, and so do its methods.  A careless one misses  *)
(* an await, or runs methods under a Promise.all, which rejects when the   *)
(* first one does: its methods end in any order, and it may return or      *)
(* throw while some of them, or code that will call others, still run.     *)
(***************************************************************************)
EXTENDS GlobalContext, FiniteSets

CONSTANTS Tasks,          \* calls of Mina.transaction(sender, f)
          Careless,       \* those whose callback does not await all it calls
          MaxMethods      \* bound on the method calls of a task, in both runs

ASSUME ConstantsAssumption ==
  /\ IsFiniteSet(Tasks) /\ Careless \subseteq Tasks /\ MaxMethods \in Nat

VARIABLES
  txStack,    \* currentTransaction.data: the ids of the transactions being built
  scStack,    \* smartContractContext.data, over its default context
  memoStack,  \* memoizationContext.data
  pc,         \* where each task is
  runNo,      \* numberOfRuns: 0 for the test run, 1 for the final one, -1 before
  running,    \* the calls of contract methods that have not ended
  methods,    \* per task, the contract methods called so far
  layout,     \* per task, the runs that pushed to the top level of its transaction
  refusals,   \* history: tasks told 'Cannot start new transaction within another ...'
  strays      \* history: runs with a method running after their callback ended

contexts == <<txStack, scStack, memoStack>>
callVars == <<running, methods>>
vars == <<contexts, callVars, pc, runNo, layout, refusals, strays>>

Runs == Tasks \X {0, 1}
CallIds == Tasks \X {0, 1} \X (1..MaxMethods)
Bottom == <<"default", 0, 0>>
TxId(t) == <<t, runNo[t]>>
Id(call) == <<call.task, call.run, call.no>>
MethodsOf(t) == {call \in running : call.task = t}

\* "top" and "inner" calls are on memoizationContext; an inner call whose body
\* has ended is "returning"; an "outside" call is made with no transaction.
Call == [task : Tasks, run : {0, 1}, no : 1..MaxMethods,
         kind : {"top", "inner", "returning", "outside"}]
OnMemo == {"top", "inner"}

TypeOK ==
  /\ txStack \in Seq(Runs)
  /\ scStack \in Seq(CallIds \cup {Bottom})
  /\ memoStack \in Seq(CallIds)
  /\ pc \in [Tasks -> {"idle", "callback", "fetching", "built", "failed", "notLeft"}]
  /\ runNo \in [Tasks -> {-1, 0, 1}]
  /\ running \subseteq Call
  /\ methods \in [Tasks -> 0..MaxMethods]
  /\ layout \in [Tasks -> Seq(Runs)]
  /\ refusals \subseteq Tasks /\ strays \subseteq Runs

Init ==
  /\ txStack = <<>> /\ scStack = <<Bottom>> /\ memoStack = <<>>
  /\ pc = [t \in Tasks |-> "idle"]
  /\ runNo = [t \in Tasks |-> -1]
  /\ running = {}
  /\ methods = [t \in Tasks |-> 0]
  /\ layout = [t \in Tasks |-> <<>>]
  /\ refusals = {} /\ strays = {}

Pending(t) == pc[t] \in {"callback", "fetching"}
Fails(t) == pc' = [pc EXCEPT ![t] = "failed"]

-----------------------------------------------------------------------------
(* createTransaction up to the call of the callback *)

\* Mutant: a transaction is started whatever the context.
MayStartAnyway == TRUE

\* if (currentTransaction.has()) throw
MayStart == ~Has(txStack)

\* currentTransaction.enter({layout: new AccountUpdateLayout(), ...}), then f()
StartRun(t, run) ==
  \/ /\ ~MayStart
     /\ Fails(t)
     /\ refusals' = refusals \cup {t}
     /\ UNCHANGED <<contexts, callVars, runNo, layout, strays>>
  \/ /\ MayStart
     /\ txStack' = Entered(txStack, <<t, run>>)
     /\ runNo' = [runNo EXCEPT ![t] = run]
     /\ pc' = [pc EXCEPT ![t] = "callback"]
     /\ layout' = [layout EXCEPT ![t] = <<>>]
     /\ UNCHANGED <<scStack, memoStack, callVars, refusals, strays>>

\* Mina.transaction(sender, f): the test run, numberOfRuns = 0
Begin(t) == pc[t] = "idle" /\ StartRun(t, 0)

\* The missing data was fetched (Network) or there is nothing to fetch
\* (LocalBlockchain, still an await): the final run, numberOfRuns = 1
FinalRun(t) == pc[t] = "fetching" /\ StartRun(t, 1)

\* fetchMissingData or the mapping between the runs throws
FetchFails(t) ==
  /\ pc[t] = "fetching"
  /\ Fails(t)
  /\ UNCHANGED <<contexts, callVars, runNo, layout, refusals, strays>>

-----------------------------------------------------------------------------
(* wrapMethod, called by the callback or by code it left behind *)

RunEnded(t, run) == run < runNo[t] \/ (run = runNo[t] /\ pc[t] # "callback")

\* The code that may call a method: the callback, unless it awaits a call that
\* is about to return, and what a careless callback left behind.
RunsCode(t, run) ==
  \/ /\ pc[t] = "callback" /\ run = runNo[t]
     /\ t \in Careless \/ \A call \in MethodsOf(t) : call.kind # "returning"
  \/ t \in Careless /\ RunEnded(t, run)

\* smartContractContext.get() is null: a top-level call, in the transaction
\* that is being built or outside of any; otherwise the method is called
\* inside another one, whose account update becomes the parent.
KindOfCall ==
  IF Current(scStack) # Bottom THEN "inner" ELSE IF Has(txStack) THEN "top" ELSE "outside"

CallMethod(t, run) ==
  /\ RunsCode(t, run) /\ methods[t] < MaxMethods
  /\ LET call == [task |-> t, run |-> run, no |-> methods[t] + 1, kind |-> KindOfCall] IN
     /\ running' = running \cup {call}
     /\ scStack' = Entered(scStack, Id(call))
     /\ memoStack' = IF call.kind \in OnMemo THEN Entered(memoStack, Id(call)) ELSE memoStack
  /\ methods' = [methods EXCEPT ![t] = @ + 1]
  /\ strays' = strays \cup {r \in {<<t, run>>} : RunEnded(t, run)}
  /\ UNCHANGED <<txStack, pc, runNo, layout, refusals>>

\* A careful caller awaits a call before it makes the next one: the call that
\* ends is the last one made.
MayEnd(call) ==
  call.task \in Careless \/ \A other \in MethodsOf(call.task) : other.no <= call.no

LeaveMemo(call) == memoStack' = Left(memoStack, Id(call))
LeaveContract(call) == scStack' = Left(scStack, Id(call))

\* The body of a top-level method returns: memoizationContext.leave, then its
\* account update is pushed to the layout of whatever transaction is current,
\* and smartContractContext.leave in the finally, which may still throw.
MethodReturns(call) ==
  /\ call.kind = "top" /\ MayEnd(call)
  /\ ~LeaveThrows(memoStack, Id(call)) /\ Has(txStack)
  /\ LeaveMemo(call) /\ LeaveContract(call)
  /\ layout' = [layout EXCEPT ![Current(txStack)[1]] = Append(@, <<call.task, call.run>>)]
  /\ running' = running \ {call}
  /\ UNCHANGED <<txStack, methods, pc, runNo, refusals, strays>>

\* Mutant: smartContractContext.leave is not in a finally block.
MethodThrowsNoLeave(call) ==
  /\ call.kind = "top" /\ MayEnd(call)
  /\ LeaveMemo(call)
  /\ running' = running \ {call}
  /\ UNCHANGED <<txStack, scStack, methods, pc, runNo, layout, refusals, strays>>

\* The body or an assertion on its preconditions throws, memoizationContext.leave
\* does, or there is no current transaction any more: both finally blocks run.
\* The caller may catch the error or pass it on.
MethodThrows(call) ==
  /\ call.kind = "top" /\ MayEnd(call)
  /\ LeaveMemo(call) /\ LeaveContract(call)
  /\ running' = running \ {call}
  /\ UNCHANGED <<txStack, methods, pc, runNo, layout, refusals, strays>>

\* The body of an inner method returns or throws, in the witness block ...
InnerBodyEnds(call) ==
  /\ call.kind = "inner" /\ MayEnd(call)
  /\ LeaveMemo(call)
  /\ running' = (running \ {call}) \cup {[call EXCEPT !.kind = "returning"]}
  /\ UNCHANGED <<txStack, scStack, methods, pc, runNo, layout, refusals, strays>>

\* ... and then the call does, in its caller's circuit; or a method that was
\* called outside of any transaction ends.
CallEnds(call) ==
  /\ call.kind \in {"returning", "outside"} /\ MayEnd(call)
  /\ LeaveContract(call)
  /\ running' = running \ {call}
  /\ UNCHANGED <<txStack, memoStack, methods, pc, runNo, layout, refusals, strays>>

-----------------------------------------------------------------------------
(* createTransaction after the callback; one turn, no await *)

\* f() settled.  A careful callback has no method running then; of a careless
\* one those that do become strays.
CallbackEnds(t) ==
  /\ pc[t] = "callback"
  /\ t \in Careless \/ MethodsOf(t) = {}
  /\ strays' = strays \cup {r \in {TxId(t)} : \E call \in MethodsOf(t) : call.run = runNo[t]}

LeaveTransaction(t) == txStack' = Left(txStack, TxId(t))

\* Mutant: the transaction is not left when its callback throws.
CallbackThrowsNoLeave(t) ==
  /\ CallbackEnds(t)
  /\ Fails(t)
  /\ UNCHANGED <<contexts, callVars, runNo, layout, refusals>>

\* await f() threw, or assertPreconditionInvariants did: leave and rethrow
CallbackThrows(t) ==
  /\ CallbackEnds(t)
  /\ LeaveTransaction(t)
  /\ Fails(t)
  /\ UNCHANGED <<scStack, memoStack, callVars, runNo, layout, refusals>>

\* getAccount(sender) throws, or the nonce or the fee does not parse.  Nothing
\* catches this: the transaction is never left.
FeePayerThrows(t) ==
  /\ CallbackEnds(t)
  /\ pc' = [pc EXCEPT ![t] = "notLeft"]
  /\ UNCHANGED <<contexts, callVars, runNo, layout, refusals>>

\* currentTransaction.leave(transactionId), then on to the next run or done
RunBuilt(t) ==
  /\ CallbackEnds(t) /\ Has(txStack)
  /\ LeaveTransaction(t)
  /\ pc' = [pc EXCEPT ![t] = IF LeaveThrows(txStack, TxId(t)) THEN "failed"
                             ELSE IF runNo[t] = 0 THEN "fetching" ELSE "built"]
  /\ UNCHANGED <<scStack, memoStack, callVars, runNo, layout, refusals>>

TaskStep(t) ==
  \/ Begin(t) \/ FinalRun(t) \/ FetchFails(t)
  \/ \E run \in {0, 1} : CallMethod(t, run)
  \/ CallbackThrows(t) \/ FeePayerThrows(t) \/ RunBuilt(t)

CallStep(call) ==
  MethodReturns(call) \/ MethodThrows(call) \/ InnerBodyEnds(call) \/ CallEnds(call)

Next == (\E t \in Tasks : TaskStep(t)) \/ (\E call \in running : CallStep(call))

Spec == Init /\ [][Next]_vars

-----------------------------------------------------------------------------
(* Properties *)

\* A transaction is refused only while another one's callback is being run, or
\* after one failed on its fee payer.
RefusalHasCause ==
  [][\A t \in refusals' \ refusals :
       \E u \in Tasks \ {t} : pc[u] \in {"callback", "notLeft"}]_vars

\* 'Cannot start new transaction within another transaction' (transaction.ts:544)
\* is said only while another transaction's callback is being run.
RefusalMeansNested ==
  [][\A t \in refusals' \ refusals : \E u \in Tasks \ {t} : pc[u] = "callback"]_vars

\* When no transaction is being built, currentTransaction is empty again, however
\* the transactions ended, unless one of them failed on its fee payer; and once
\* the last method has ended, the contexts of the methods are back to what they
\* were before the first one, in whatever order methods and callbacks ended.
ContextsRestored ==
  (\A t \in Tasks : ~Pending(t)) =>
    /\ (\A t \in Tasks : pc[t] # "notLeft") => txStack = <<>>
    /\ running = {} => scStack = <<Bottom>> /\ memoStack = <<>>

\* Even when the user does not await them, transactions are never built inside
\* one another; and as long as no callback has left a method running, every
\* method on the stack was called by the run of the transaction that is being
\* built, also when its methods run side by side.
MethodsBelongToTransaction ==
  /\ Len(txStack) <= 1
  /\ strays = {} =>
       \A k \in 2..Len(scStack) :
         Has(txStack) /\ <<scStack[k][1], scStack[k][2]>> = Current(txStack)

\* What a method pushes to the top level of a layout goes to the transaction it
\* was called for, never to one that is built concurrently or by the other run,
\* unless it was still running when its own callback ended.
OwnLayout ==
  \A t \in Tasks : \A k \in DOMAIN layout[t] : layout[t][k] \in {TxId(t)} \cup strays

\* Transactions whose callbacks await their methods never meet the
\* 'inconsistent state' error of the global contexts, overlapping or not.
NoContextConflict ==
  Careless = {} =>
    \A call \in running : MayEnd(call) =>
      /\ ~LeaveThrows(scStack, Id(call))
      /\ call.kind \in OnMemo => ~LeaveThrows(memoStack, Id(call))
=============================================================================
