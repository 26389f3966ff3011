---------------------------- MODULE GlobalContext ----------------------------
(***************************************************************************)
(* The stack discipline of Context in lib/util/global-context.ts.  A       *)
(* context is a stack of entries; the data kept in an entry is abstracted  *)
(* to its id.  Every global context of the library (currentTransaction,    *)
(* smartContractContext, memoizationContext, snarkContext and the          *)
(* zkProgram context) is such a stack.                                     *)
(***************************************************************************)
EXTENDS Integers, Sequences

\* t.has() and t.get() / t.id()
Has(stack) == stack # <<>>
Current(stack) == stack[Len(stack)]

\* enter(t, context): push, unless nesting is forbidden
EnterThrows(stack, allowsNesting) == Has(stack) /\ ~allowsNesting
Entered(stack, id) == Append(stack, id)

\* Mutant: a conflict is noticed before the entry is popped.
LeftIfOwn(stack, id) ==
  IF stack # <<>> /\ Current(stack) = id THEN SubSeq(stack, 1, Len(stack) - 1) ELSE stack

\* leave(t, id): the top entry is popped first, whoever entered it ...
Left(stack, id) ==
  IF stack = <<>> THEN stack ELSE SubSeq(stack, 1, Len(stack) - 1)

\* Mutant: any entry may be left.
LeaveThrowsOnEmpty(stack, id) == stack = <<>>

\* ... and only then compared with the entry the caller means to leave.
LeaveThrows(stack, id) == stack = <<>> \/ Current(stack) # id
=============================================================================
