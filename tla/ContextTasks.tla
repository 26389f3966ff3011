---------------------------- MODULE ContextTasks ----------------------------
(***************************************************************************)
(* Asynchronous tasks that share one Context (lib/util/global-context.ts)  *)
(* through runWithAsync: enter, await func(context), leave in a finally.   *)
(* A task may nest runWithAsync calls; tasks interleave at every await, as *)
(* they do when the user forgets an await or runs them in parallel.        *)
(***************************************************************************)
EXTENDS GlobalContext, Selection, FiniteSets

CONSTANTS Chains,         \* the tasks: asynchronous call chains
          MaxDepth,       \* bound on the nesting within one task
          Default         \* the context entered by create(), or <<>>

ASSUME ContextAssumption ==
  /\ IsFiniteSet(Chains) /\ "default" \notin Chains /\ MaxDepth \in Nat \ {0}
  /\ Default \in {<<>>, << <<"default", 0>> >>}

VARIABLES allowsNesting, \* the option of create(), fixed for the context's life
          stack,       \* t.data
          open,        \* per task, the ids its pending runWithAsync calls entered
          throwing,    \* the tasks that are unwinding with an error
          conflicts    \* the tasks that met contextConflictMessage since the last rest

contextVars == <<allowsNesting, stack, open, throwing, conflicts>>

MaxIds == MaxDepth * (Cardinality(Chains) + 1)
InitContext ==
  /\ allowsNesting \in BOOLEAN
  /\ stack = Default
  /\ open = [t \in Chains |-> <<>>]
  /\ throwing = {} /\ conflicts = {}

IsOpen(t) == open[t] # <<>>

\* Math.random(): an id that no entry and no pending call has.
FreshId(t) ==
  <<t, CHOOSE i \in 1..MaxIds :
         /\ \A k \in DOMAIN stack : stack[k] # <<t, i>>
         /\ \A k \in DOMAIN open[t] : open[t][k] # <<t, i>>>>

AtRest == \A t \in Chains : open[t] = <<>>
Known == IF AtRest THEN {} ELSE conflicts

\* runWith / runWithAsync up to the await of func.  A refused enter throws into
\* the function that made the call.
Enter(t) ==
  /\ t \notin throwing /\ Len(open[t]) < MaxDepth
  /\ \/ /\ EnterThrows(stack, allowsNesting)
        /\ conflicts' = Known \cup {t}
        /\ throwing' = IF IsOpen(t) THEN throwing \cup {t} ELSE throwing
        /\ UNCHANGED <<stack, open>>
     \/ /\ ~EnterThrows(stack, allowsNesting)
        /\ stack' = Entered(stack, FreshId(t))
        /\ open' = [open EXCEPT ![t] = Append(@, FreshId(t))]
        /\ conflicts' = Known
        /\ UNCHANGED throwing
  /\ UNCHANGED allowsNesting

\* func(context) rejects
Throw(t) ==
  /\ IsOpen(t) /\ t \notin throwing
  /\ throwing' = throwing \cup {t}
  /\ UNCHANGED <<allowsNesting, stack, open, conflicts>>

\* the finally block: func settled, or its error is on its way out
Leave(t) ==
  /\ IsOpen(t)
  /\ LET id == Current(open[t])
         outer == SubSeq(open[t], 1, Len(open[t]) - 1)
     IN  /\ stack' = Left(stack, id)
         /\ open' = [open EXCEPT ![t] = outer]
         /\ conflicts' = IF LeaveThrows(stack, id) THEN conflicts \cup {t} ELSE conflicts
         /\ throwing' = IF outer # <<>> /\ (t \in throwing \/ LeaveThrows(stack, id))
                        THEN throwing \cup {t} ELSE throwing \ {t}
  /\ UNCHANGED allowsNesting

NextContext == \E t \in Chains : Enter(t) \/ Throw(t) \/ Leave(t)

ContextSpec == InitContext /\ [][NextContext]_contextVars

-----------------------------------------------------------------------------
\* Whatever conflicts the tasks run into, once all of them have returned or
\* thrown the stack is the one create() made: the default context is never
\* lost and nothing is left behind.
RestRestoresDefault == AtRest => stack = Default

\* As long as nobody has been told of a conflict, no task has lost a context it
\* entered: the entries of its pending calls are all there, in order.
NoSilentLoss ==
  conflicts = {} => \A t \in Chains :
    Selected({k \in DOMAIN stack : stack[k][1] = t}, stack) = open[t]
=============================================================================
