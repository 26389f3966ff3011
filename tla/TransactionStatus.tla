-------------------------- MODULE TransactionStatus --------------------------
(***************************************************************************)
(* What happens to a transaction after Network.sendTransaction of          *)
(* lib/mina/v1/mina.ts: the submission, the polling of wait() and          *)
(* safeWait(), and waitForFinality() of lib/mina/v1/transaction.ts,        *)
(* against a chain that grows, reorganizes and shows its last blocks only. *)
(*                                                                         *)
(* A request is answered by the node in one step and its answer is handled *)
(* by the client in a later one; the chain moves in between.               *)
(***************************************************************************)
EXTENDS Integers, FiniteSets

CONSTANTS
  MaxAttempts,       \* maxAttempts of wait(); 0 polls without a limit
  FinalityAttempts,  \* maxAttempts of waitForFinality()
  Threshold,         \* finalityThreshold, in blocks
  Settled,           \* blocks this deep are never reorganized
  Window,            \* blockLength: the node answers with this many blocks
  MaxHeight          \* bound on the height of the chain

ASSUME StatusAssumption ==
  /\ MaxAttempts \in Nat /\ FinalityAttempts \in Nat \ {0}
  /\ Threshold \in Nat \ {0} /\ Window \in Nat \ {0}
  /\ Settled \in 1..Threshold
  /\ MaxHeight \in Nat \ {0}

VARIABLES
  tip,         \* height of the best chain
  onChain,     \* height of the best chain's block that has the transaction, or 0
  failed,      \* whether it failed in that block
  accepted,    \* whether the node has taken it into its pool
  everOn,      \* history: heights at which it was on the best chain and did not fail
  phase, reply, \* the client and the answer on its way to it
  attempts,    \* attempts of the loop the client is in
  result       \* the height wait() or waitForFinality() resolved with, or 0

chain == <<tip, onChain, failed, accepted, everOn>>
statusVars == <<chain, phase, reply, attempts, result>>

Heights == 1..MaxHeight
NoReply == [kind |-> "none", height |-> 0, tip |-> 0]

StatusTypeOK ==
  /\ tip \in Heights /\ onChain \in 0..tip /\ failed \in BOOLEAN
  /\ accepted \in BOOLEAN /\ everOn \subseteq Heights
  /\ phase \in {"new", "sending", "sent", "refused", "pending", "checking", "sleeping",
                "included", "rejected", "finality", "finalitySleep", "final", "notFinal", "threw"}
  /\ reply \in [kind : {"none", "error", "missing", "success", "failure"},
                height : 0..MaxHeight, tip : 0..MaxHeight]
  /\ attempts \in 0..MaxHeight + MaxAttempts + FinalityAttempts
  /\ result \in 0..MaxHeight

InitStatus ==
  /\ tip = 1 /\ onChain = 0 /\ failed = FALSE /\ accepted = FALSE /\ everOn = {}
  /\ phase = "new" /\ reply = NoReply /\ attempts = 0 /\ result = 0

-----------------------------------------------------------------------------
(* The network *)

Includes(height, fails) ==
  /\ onChain' = height
  /\ failed' = (fails /\ height # 0)
  /\ everOn' = everOn \cup (IF height # 0 /\ ~fails THEN {height} ELSE {})

NewBlock ==
  /\ tip < MaxHeight /\ tip' = tip + 1
  /\ \/ UNCHANGED <<onChain, failed, everOn>>
     \/ onChain = 0 /\ accepted /\ \E fails \in BOOLEAN : Includes(tip + 1, fails)
  /\ UNCHANGED <<accepted, phase, reply, attempts, result>>

\* Another branch becomes the best chain; only its last Settled blocks differ.
Reorganize ==
  /\ accepted
  /\ onChain # 0 => tip - onChain < Settled
  /\ \E newTip \in {tip, tip + 1} \cap Heights :
       /\ tip' = newTip
       /\ \E height \in {0} \cup {h \in 1..newTip : tip - h < Settled}, fails \in BOOLEAN :
            Includes(height, fails)
  /\ UNCHANGED <<accepted, phase, reply, attempts, result>>

-----------------------------------------------------------------------------
(* sendTransaction; a limit that is exceeded throws before anything is sent *)

Send ==
  /\ phase = "new" /\ phase' = "sending"
  /\ UNCHANGED <<chain, reply, attempts, result>>

\* sendZkapp: an error may hide that the node has accepted the transaction
Submitted ==
  /\ phase = "sending"
  /\ \/ accepted' = TRUE /\ phase' = "sent"
     \/ accepted' = FALSE /\ phase' = "refused"
     \/ accepted' = TRUE /\ phase' = "refused"
  /\ UNCHANGED <<tip, onChain, failed, everOn, reply, attempts, result>>

\* await Test() for the hash
Hashed ==
  /\ phase = "sent" /\ phase' = "pending"
  /\ UNCHANGED <<chain, reply, attempts, result>>

-----------------------------------------------------------------------------
(* checkZkappTransaction and fetchTransactionDepth look through the last
   Window blocks of the best chain *)

\* Mutant: a failed transaction counts as found.
BestChainShowsAnyway ==
  IF onChain # 0 /\ onChain > tip - Window
  THEN [kind |-> "success", height |-> onChain, tip |-> tip]
  ELSE [kind |-> "missing", height |-> 0, tip |-> tip]

BestChainShows ==
  IF onChain # 0 /\ onChain > tip - Window
  THEN [kind |-> IF failed THEN "failure" ELSE "success", height |-> onChain, tip |-> tip]
  ELSE [kind |-> "missing", height |-> 0, tip |-> tip]

NodeAnswers ==
  /\ phase \in {"checking", "finality"} /\ reply = NoReply
  /\ \/ reply' = BestChainShows
     \/ reply' = [NoReply EXCEPT !.kind = "error"]
  /\ UNCHANGED <<chain, phase, attempts, result>>

-----------------------------------------------------------------------------
(* wait() and safeWait() *)

Wait ==
  /\ phase = "pending" /\ phase' = "checking"
  /\ attempts' = 0
  /\ UNCHANGED <<chain, reply, result>>

\* Mutant: the limit is ignored.
AttemptsAreNeverOver == FALSE

\* maxAttempts && attempts >= maxAttempts
AttemptsAreOver == MaxAttempts # 0 /\ attempts >= MaxAttempts

\* pollTransactionStatus after the answer
HandleStatus ==
  /\ phase = "checking" /\ reply # NoReply
  /\ reply' = NoReply
  /\ \/ /\ reply.kind = "success"
        /\ phase' = "included" /\ result' = reply.height
     \/ /\ reply.kind \in {"failure", "error"}
        /\ phase' = "rejected" /\ UNCHANGED result
     \/ /\ reply.kind = "missing"
        /\ phase' = IF AttemptsAreOver THEN "rejected" ELSE "sleeping"
        /\ UNCHANGED result
  /\ UNCHANGED <<chain, attempts>>

\* After the interval: pollTransactionStatus(.., attempts + 1)
PollAgain ==
  /\ phase = "sleeping" /\ attempts < MaxHeight + MaxAttempts
  /\ phase' = "checking" /\ attempts' = attempts + 1
  /\ UNCHANGED <<chain, reply, result>>

-----------------------------------------------------------------------------
(* waitForFinality() of an included transaction *)

WaitForFinality ==
  /\ phase = "included" /\ phase' = "finality"
  /\ attempts' = 0
  /\ UNCHANGED <<chain, reply, result>>

\* Mutant: the block of the transaction itself is counted.
IsFinalizedInclusive(info) == info.tip - info.height + 1 >= Threshold

\* depth = max(0, currentBlockHeight - inclusionBlockHeight)
IsFinalized(info) == info.tip - info.height >= Threshold

\* Mutant: an answer without the transaction does not count as an attempt.
HandleDepthMissingIsFree ==
  /\ phase = "finality" /\ reply # NoReply
  /\ reply' = NoReply
  /\ \/ reply.kind = "missing" /\ phase' = "finalitySleep" /\ UNCHANGED attempts
     \/ reply.kind = "error" /\ phase' = "threw" /\ UNCHANGED attempts
     \/ /\ reply.kind \in {"success", "failure"} /\ attempts' = attempts + 1
        /\ phase' = IF attempts + 1 < FinalityAttempts THEN "finalitySleep" ELSE "notFinal"
  /\ UNCHANGED <<chain, result>>

\* The loop's body after safeGetDepth: a failed request throws out of it
HandleDepth ==
  /\ phase = "finality" /\ reply # NoReply
  /\ reply' = NoReply
  /\ \/ reply.kind = "error" /\ phase' = "threw" /\ UNCHANGED <<attempts, result>>
     \/ /\ reply.kind = "success" /\ IsFinalized(reply)
        /\ phase' = "final" /\ result' = reply.height /\ UNCHANGED attempts
     \/ /\ reply.kind # "error" /\ ~(reply.kind = "success" /\ IsFinalized(reply))
        /\ attempts' = attempts + 1
        /\ phase' = IF attempts + 1 < FinalityAttempts THEN "finalitySleep" ELSE "notFinal"
        /\ UNCHANGED result
  /\ UNCHANGED chain

CheckFinalityAgain ==
  /\ phase = "finalitySleep" /\ phase' = "finality"
  /\ UNCHANGED <<chain, reply, attempts, result>>

-----------------------------------------------------------------------------

Client ==
  \/ Submitted \/ Hashed \/ NodeAnswers \/ HandleStatus \/ PollAgain
  \/ HandleDepth \/ CheckFinalityAgain

NextStatus == NewBlock \/ Reorganize \/ Send \/ Wait \/ WaitForFinality \/ Client

StatusSpec == InitStatus /\ [][NextStatus]_statusVars

\* Requests are answered or fail, and timers fire; the chain may stand still.
FairStatusSpec == StatusSpec /\ WF_statusVars(Client)

-----------------------------------------------------------------------------
(* Properties *)

\* 'included' is only ever reported with a block of the best chain in which the
\* transaction was applied, however the chain is reorganized meanwhile.
IncludedWasOnChain ==
  phase \in {"included", "finality", "finalitySleep", "final"} => result \in everOn

\* What waitForFinality resolved with stays true: the transaction keeps its
\* block, although the answer was already old when it was handled.
FinalityIsFinal ==
  phase = "final" => onChain = result /\ ~failed

\* With a limit on the attempts, wait() settles, on a chain that stands still
\* as on one that grows.
WaitSettles ==
  phase = "checking" ~> phase \in {"included", "rejected", "finality", "finalitySleep",
                             "final", "notFinal", "threw"}

\* waitForFinality settles.
FinalitySettles == phase = "finality" ~> phase \in {"final", "notFinal", "threw"}

\* safeGetDepth 'returns null instead of throwing' (transaction.ts:359), and
\* waitForFinality relies on it.
SafeGetDepthDoesNotThrow == phase # "threw"

\* waitForFinality says that a transaction 'did not reach finality'
\* (transaction.ts:799) only of one whose block is not that deep.
NotFinalIsShallow ==
  [][phase' = "notFinal" /\ phase # "notFinal" =>
       onChain = 0 \/ failed \/ reply.tip - onChain < Threshold]_statusVars
=============================================================================
