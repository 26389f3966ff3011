------------------------ MODULE LocalBlockchainProofs ------------------------
(***************************************************************************)
(* Proofs about LocalBlockchain: the action stores beside the ledger and   *)
(* the verified keys, for any number of transactions sent concurrently,    *)
(* whatever their updates are and however their verification interleaves.  *)
(***************************************************************************)
EXTENDS LocalBlockchain, InductionLemmas

Places == {"new", "built", "verifying", "hashing", "failed", "included", "rejected"}
Outcomes == {"none", "refused", "charged", "applied"}

TypeOK ==
  /\ nonce \in [Payers -> Nat]
  /\ pc \in [Sends -> Places]
  /\ outcome \in [Sends -> Outcomes]
  /\ DOMAIN tx = Sends
  /\ \A s \in Sends : pc[s] # "new" => tx[s].payer \in Payers /\ tx[s].nonce \in Nat

\* A transaction has an outcome once it reached the ledger, not before.
OutcomeAtTheEnd ==
  \A s \in Sends : pc[s] \in {"new", "built", "verifying", "failed"} => outcome[s] = "none"

Inv == TypeOK /\ OutcomeAtTheEnd

-----------------------------------------------------------------------------
(* The invariant and the steps *)

LEMMA InitInv == Init => Inv
BY DEF Init, Inv, TypeOK, Places, Outcomes, OutcomeAtTheEnd

\* Building reads the nonce of the fee payer.
LEMMA BuildInv ==
  ASSUME Inv, NEW s \in Sends, Build(s)
  PROVE  Inv'
<1> USE DEF Inv
<1>1. PICK p \in Payers, us \in Templates, proved \in BOOLEAN :
        tx' = [tx EXCEPT ![s] = [payer |-> p, nonce |-> nonce[p], proved |-> proved, updates |-> us]]
  BY DEF Build
<1>2. pc[s] = "new" /\ pc' = [pc EXCEPT ![s] = "built"] /\ UNCHANGED <<nonce, outcome>>
  BY DEF Build, Moves, ledger
<1>3. \A r \in Sends : r # s => tx'[r] = tx[r] /\ pc'[r] = pc[r]
  BY <1>1, <1>2 DEF TypeOK
<1>4. tx'[s].payer = p /\ tx'[s].nonce = nonce[p]
  BY <1>1 DEF TypeOK
<1>5. TypeOK'
  BY <1>1, <1>2, <1>3, <1>4 DEF TypeOK, Places
<1>6. outcome[s] = "none" /\ OutcomeAtTheEnd'
  BY <1>2, <1>3 DEF OutcomeAtTheEnd, TypeOK
<1> QED BY <1>5, <1>6

\* The ledger refuses the fee payer, or counts its nonce and says what it did.
LEMMA LedgerApplyInv ==
  ASSUME Inv, NEW s \in Sends, pc[s] \in {"built", "verifying"},
         LedgerApply(s), Moves(s, "hashing"), UNCHANGED tx
  PROVE  Inv'
<1> USE DEF Inv
<1>1. tx[s].payer \in Payers /\ tx[s].nonce \in Nat /\ outcome[s] = "none"
  BY DEF TypeOK, OutcomeAtTheEnd
<1>2. pc' = [pc EXCEPT ![s] = "hashing"] /\ UNCHANGED tx
  BY DEF Moves
<1>3. CASE ~FeePayerAccepted(s)
  <2>1. outcome' = [outcome EXCEPT ![s] = "refused"] /\ UNCHANGED nonce
    BY <1>3 DEF LedgerApply, ledger
  <2>2. TypeOK'
    BY <1>1, <1>2, <2>1 DEF TypeOK, Places, Outcomes
  <2>3. OutcomeAtTheEnd'
    BY <1>2, <2>1 DEF TypeOK, OutcomeAtTheEnd
  <2> QED BY <2>2, <2>3
<1>4. CASE FeePayerAccepted(s)
  <2>1. /\ tx[s].nonce = nonce[tx[s].payer]
        /\ nonce' = [nonce EXCEPT ![tx[s].payer] = @ + 1]
    BY <1>4 DEF LedgerApply, FeePayerAccepted
  <2>2. PICK o \in {"applied", "charged"} : outcome' = [outcome EXCEPT ![s] = o]
    BY <1>4 DEF LedgerApply
  <2>3. TypeOK'
    BY <1>1, <1>2, <2>1, <2>2 DEF TypeOK, Places, Outcomes
  <2>4. OutcomeAtTheEnd'
    BY <1>2, <2>2 DEF TypeOK, OutcomeAtTheEnd
  <2> QED BY <2>3, <2>4
<1> QED BY <1>3, <1>4

\* What a send does up to its next await: it throws, awaits the verification of
\* an update, or reaches the ledger.
LEMMA AdvanceInv ==
  ASSUME Inv, NEW s \in Sends, pc[s] \in {"built", "verifying"}, NEW k, NEW view,
         Advance(s, k, view), UNCHANGED tx
  PROVE  Inv'
<1>1. ASSUME NEW place \in {"failed", "verifying"}, Moves(s, place), UNCHANGED <<ledger, outcome>>
      PROVE  Inv'
  BY <1>1 DEF Inv, Moves, ledger, TypeOK, Places, OutcomeAtTheEnd
<1>2. \/ \E place \in {"failed", "verifying"} : Moves(s, place) /\ UNCHANGED <<ledger, outcome>>
      \/ LedgerApply(s) /\ Moves(s, "hashing")
  BY DEF Advance, Throws
<1> QED BY <1>1, <1>2, LedgerApplyInv

LEMMA HashedInv ==
  ASSUME Inv, NEW s \in Sends, Hashed(s)
  PROVE  Inv'
<1>1. PICK place \in {"included", "rejected"} : pc' = [pc EXCEPT ![s] = place]
  BY DEF Hashed, Moves
<1>2. pc[s] = "hashing" /\ UNCHANGED <<nonce, tx, outcome>>
  BY DEF Hashed, ledger
<1> QED BY <1>1, <1>2 DEF Inv, TypeOK, Places, OutcomeAtTheEnd

LEMMA NextKeepsInv == Inv /\ [Next]_vars => Inv'
<1> SUFFICES ASSUME Inv, [Next]_vars PROVE Inv'
  OBVIOUS
<1>1. ASSUME NEW s \in Sends, Build(s) PROVE Inv'
  BY <1>1, BuildInv
<1>2. ASSUME NEW s \in Sends, Send(s) PROVE Inv'
  BY <1>2, AdvanceInv DEF Send
<1>3. ASSUME NEW s \in Sends, Verified(s) PROVE Inv'
  <2>1. CASE Throws(s)
    BY <1>3, <2>1
    DEF Throws, Verified, Inv, Moves, ledger, TypeOK, Places, OutcomeAtTheEnd
  <2>2. CASE \E k, view : Advance(s, k, view)
    BY <1>3, <2>2, AdvanceInv DEF Verified
  <2> QED BY <1>3, <2>1, <2>2 DEF Verified
<1>4. ASSUME NEW s \in Sends, Hashed(s) PROVE Inv'
  BY <1>4, HashedInv
<1>5. CASE (\E a \in Accounts : FetchEvents(a)) \/ UNCHANGED vars
  <2>1. UNCHANGED <<nonce, pc, tx, outcome>>
    BY <1>5 DEF FetchEvents, ledger, vars
  <2> QED BY <2>1 DEF Inv, TypeOK, OutcomeAtTheEnd
<1> QED BY <1>1, <1>2, <1>3, <1>4, <1>5 DEF Next, SendStep

\* What accounts, stored actions and results of the ledger are.
Known == [vk : Nat, locked : BOOLEAN]
Entries == [by : Sends, data : Contents, hash : Seq(Contents)]
Results == [ok : BOOLEAN, account : [Accounts -> Known], acts : [Accounts -> Seq(Contents)]]

-----------------------------------------------------------------------------
(* The recursive operators of the model, step by step *)

LEMMA PushedIsEntry ==
  ASSUME NEW s \in Sends, NEW stored \in Seq(Entries), NEW u \in Updates
  PROVE  PushAction(s, stored, u) \in Seq(Entries)
<1>1. LatestActionState(stored) \in Seq(Contents)
  <2>1. CASE stored = <<>>
    BY <2>1 DEF LatestActionState, EmptyActionState
  <2>2. CASE stored # <<>>
    <3>1. stored[Len(stored)] \in Entries
      BY <2>2
    <3> QED BY <2>2, <3>1 DEF LatestActionState, Last, Entries
  <2> QED BY <2>1, <2>2
<1>2. u.data \in Contents
  BY DEF Updates
<1>3. Append(LatestActionState(stored), u.data) \in Seq(Contents)
  BY <1>1, <1>2
<1>4. [by |-> s, data |-> u.data, hash |-> Append(LatestActionState(stored), u.data)] \in Entries
  BY <1>2, <1>3 DEF Entries
<1> QED BY <1>4 DEF PushAction

Pushes(f, S, s, stored, us) ==
  /\ f \in [0..Len(us) -> S] /\ f[0] = stored
  /\ \A k \in 1..Len(us) : f[k] = PushAction(s, f[k - 1], us[k])
  /\ PushActions(s, stored, us) = f[Len(us)]

LEMMA PushActionsUnfolds ==
  ASSUME NEW s \in Sends, NEW stored \in Seq(Entries), NEW us \in Seq(Updates)
  PROVE  \E f : Pushes(f, Seq(Entries), s, stored, us)
<1> DEFINE N == Len(us)
           S == Seq(Entries)
           base == stored
           E(x, k) == PushAction(s, x, us[k])
           G == [k \in 1..N |-> [x \in S |-> E(x, k)]]
           Body(g) == [k \in 0..N |-> IF k = 0 THEN base ELSE E(g[k - 1], k)]
           f == CHOOSE g : g = Body(g)
<1>1. N \in Nat /\ base \in S
  OBVIOUS
<1>2. \A k \in 1..N, x \in S : E(x, k) \in S
  BY PushedIsEntry
<1>3. PushActions(s, stored, us) = f[N]
  BY DEF PushActions
<1>4. \A x, k : E(x, k) = PushAction(s, x, us[k])
  OBVIOUS
<1> HIDE DEF N, S, base, E
<1>5. G \in [1..N -> [S -> S]]
  BY <1>2
<1>6. \A k \in 1..N, x \in S : G[k][x] = E(x, k)
  OBVIOUS
<1> HIDE DEF G
<1>7. PICK h : h \in Iterations(S, base, N, G)
  BY <1>1, <1>5, Iteration
<1>8. h = Body(h)
  BY <1>1, <1>6, <1>7 DEF Iterations
<1> HIDE DEF Body
<1>9. f = Body(f)
  BY <1>8
<1> HIDE DEF f
<1> USE DEF Body
<1>10. f[0] = base /\ \A k \in 1..N : f[k] = E(f[k - 1], k)
  BY <1>1, <1>9
<1>11. f \in [0..N -> S]
  <2> DEFINE typed == {k \in 0..N : f[k] \in S}
  <2>1. 0 \in typed
    BY <1>1, <1>10
  <2>2. ASSUME NEW n \in 0..N - 1, n \in typed PROVE n + 1 \in typed
    <3>1. n + 1 \in 1..N /\ (n + 1) - 1 = n
      BY <1>1
    <3> QED BY <1>1, <1>2, <1>10, <2>2, <3>1
  <2> HIDE DEF typed
  <2>3. 0..N \subseteq typed
    BY <1>1, <2>1, <2>2, IntervalInduction
  <2> QED BY <1>9, <2>3 DEF typed
<1>12. Pushes(f, Seq(Entries), s, stored, us)
  BY <1>3, <1>4, <1>10, <1>11 DEF N, S, base, Pushes
<1> QED BY <1>12

LEMMA PushActionsSteps ==
  ASSUME NEW s \in Sends, NEW stored \in Seq(Entries), NEW us \in Seq(Updates)
  PROVE  /\ PushActions(s, stored, us) \in Seq(Entries)
         /\ PushActions(s, stored, <<>>) = stored
         /\ \A u \in Updates : PushActions(s, stored, Append(us, u)) = PushAction(s, PushActions(s, stored, us), u)
<1>1. PICK f : Pushes(f, Seq(Entries), s, stored, us)
  BY PushActionsUnfolds
<1>2. PICK f0 : Pushes(f0, Seq(Entries), s, stored, <<>>)
  BY PushActionsUnfolds, EmptySeq
<1>3. PushActions(s, stored, us) \in Seq(Entries) /\ PushActions(s, stored, <<>>) = stored
  BY <1>1, <1>2, EmptySeq, LenProperties DEF Pushes
<1>4. ASSUME NEW u \in Updates
      PROVE  PushActions(s, stored, Append(us, u)) = PushAction(s, PushActions(s, stored, us), u)
  <2> DEFINE more == Append(us, u)
             N == Len(us)
  <2>1. /\ more \in Seq(Updates) /\ N \in Nat /\ Len(more) = N + 1
        /\ more[N + 1] = u /\ \A k \in 1..N : more[k] = us[k]
    OBVIOUS
  <2> HIDE DEF more
  <2>2. PICK g : Pushes(g, Seq(Entries), s, stored, more)
    BY <2>1, PushActionsUnfolds
  <2> DEFINE same == {k \in 0..N : f[k] = g[k]}
  <2>3. 0 \in same
    BY <1>1, <2>1, <2>2 DEF Pushes
  <2>4. ASSUME NEW n \in 0..N - 1, n \in same PROVE n + 1 \in same
    <3>1. n + 1 \in 1..N /\ n + 1 \in 1..N + 1 /\ (n + 1) - 1 = n
      BY <2>1
    <3>2. f[n + 1] = PushAction(s, f[n], us[n + 1])
      BY <1>1, <3>1 DEF Pushes
    <3>3. g[n + 1] = PushAction(s, g[n], more[n + 1])
      BY <2>1, <2>2, <3>1 DEF Pushes
    <3> QED BY <2>1, <2>4, <3>1, <3>2, <3>3
  <2> HIDE DEF N, same
  <2>5. 0..N \subseteq same
    BY <2>1, <2>3, <2>4, IntervalInduction
  <2>6. f[N] = g[N]
    BY <2>1, <2>5 DEF same
  <2>7. g[N + 1] = PushAction(s, g[N], more[N + 1])
    <3>1. N + 1 \in 1..Len(more) /\ (N + 1) - 1 = N
      BY <2>1
    <3> QED BY <2>2, <3>1 DEF Pushes
  <2> QED BY <1>1, <2>1, <2>2, <2>6, <2>7 DEF Pushes, N, more
<1> QED BY <1>3, <1>4

LEMMA AppliedIsResult ==
  ASSUME NEW result \in Results, NEW u \in Updates
  PROVE  ApplyUpdate(result, u) \in Results
<1>1. u.account \in Accounts /\ u.vk \in Nat /\ u.data \in Contents /\ u.kind \in {"act", "deploy", "lock"}
  BY ConstantsAssumption DEF Updates
<1>2. CASE ~result.ok \/ ~LedgerAllows(u, result.account[u.account])
  BY <1>2 DEF ApplyUpdate, Results
<1>3. CASE result.ok /\ LedgerAllows(u, result.account[u.account])
  <2>1. CASE u.kind = "act"
    <3>1. ApplyUpdate(result, u) = [result EXCEPT !.acts[u.account] = Append(@, u.data)]
      BY <1>3, <2>1 DEF ApplyUpdate
    <3>2. Append(result.acts[u.account], u.data) \in Seq(Contents)
      BY <1>1 DEF Results
    <3> QED BY <1>1, <3>1, <3>2 DEF Results
  <2>2. CASE u.kind = "deploy"
    <3>1. ApplyUpdate(result, u) = [result EXCEPT !.account[u.account].vk = u.vk]
      BY <1>3, <2>2 DEF ApplyUpdate
    <3>2. [result.account[u.account] EXCEPT !.vk = u.vk] \in Known
      BY <1>1 DEF Results, Known
    <3> QED BY <1>1, <3>1, <3>2 DEF Results
  <2>3. CASE u.kind = "lock"
    <3>1. ApplyUpdate(result, u) = [result EXCEPT !.account[u.account].locked = TRUE]
      BY <1>3, <2>3 DEF ApplyUpdate
    <3>2. [result.account[u.account] EXCEPT !.locked = TRUE] \in Known
      BY <1>1 DEF Results, Known
    <3> QED BY <1>1, <3>1, <3>2 DEF Results
  <2> QED BY <1>1, <2>1, <2>2, <2>3
<1> QED BY <1>2, <1>3

Applies(f, S, us) ==
  /\ f \in [0..Len(us) -> S] /\ f[0] = NothingApplied
  /\ \A k \in 1..Len(us) : f[k] = ApplyUpdate(f[k - 1], us[k])
  /\ LedgerResult(us) = f[Len(us)]

LEMMA LedgerResultUnfolds ==
  ASSUME NEW us \in Seq(Updates), account \in [Accounts -> Known]
  PROVE  \E f : Applies(f, Results, us)
<1> DEFINE N == Len(us)
           S == Results
           base == NothingApplied
           E(x, k) == ApplyUpdate(x, us[k])
           G == [k \in 1..N |-> [x \in S |-> E(x, k)]]
           Body(g) == [k \in 0..N |-> IF k = 0 THEN base ELSE E(g[k - 1], k)]
           f == CHOOSE g : g = Body(g)
<1>1. N \in Nat /\ base \in S
  BY DEF Results, NothingApplied
<1>2. \A k \in 1..N, x \in S : E(x, k) \in S
  BY AppliedIsResult
<1>3. LedgerResult(us) = f[N]
  BY DEF LedgerResult
<1>4. \A x, k : E(x, k) = ApplyUpdate(x, us[k])
  OBVIOUS
<1> HIDE DEF N, S, base, E
<1>5. G \in [1..N -> [S -> S]]
  BY <1>2
<1>6. \A k \in 1..N, x \in S : G[k][x] = E(x, k)
  OBVIOUS
<1> HIDE DEF G
<1>7. PICK h : h \in Iterations(S, base, N, G)
  BY <1>1, <1>5, Iteration
<1>8. h = Body(h)
  BY <1>1, <1>6, <1>7 DEF Iterations
<1> HIDE DEF Body
<1>9. f = Body(f)
  BY <1>8
<1> HIDE DEF f
<1> USE DEF Body
<1>10. f[0] = base /\ \A k \in 1..N : f[k] = E(f[k - 1], k)
  BY <1>1, <1>9
<1>11. f \in [0..N -> S]
  <2> DEFINE typed == {k \in 0..N : f[k] \in S}
  <2>1. 0 \in typed
    BY <1>1, <1>10
  <2>2. ASSUME NEW n \in 0..N - 1, n \in typed PROVE n + 1 \in typed
    <3>1. n + 1 \in 1..N /\ (n + 1) - 1 = n
      BY <1>1
    <3> QED BY <1>1, <1>2, <1>10, <2>2, <3>1
  <2> HIDE DEF typed
  <2>3. 0..N \subseteq typed
    BY <1>1, <2>1, <2>2, IntervalInduction
  <2> QED BY <1>9, <2>3 DEF typed
<1>12. Applies(f, Results, us)
  BY <1>3, <1>4, <1>10, <1>11 DEF N, S, base, Applies
<1> QED BY <1>12

LEMMA LedgerResultSteps ==
  ASSUME NEW us \in Seq(Updates), account \in [Accounts -> Known]
  PROVE  /\ LedgerResult(us) \in Results
         /\ LedgerResult(<<>>) = NothingApplied
         /\ \A u \in Updates : LedgerResult(Append(us, u)) = ApplyUpdate(LedgerResult(us), u)
<1>1. PICK f : Applies(f, Results, us)
  BY LedgerResultUnfolds
<1>2. PICK f0 : Applies(f0, Results, <<>>)
  BY LedgerResultUnfolds, EmptySeq
<1>3. LedgerResult(us) \in Results /\ LedgerResult(<<>>) = NothingApplied
  BY <1>1, <1>2, EmptySeq, LenProperties DEF Applies
<1>4. ASSUME NEW u \in Updates
      PROVE  LedgerResult(Append(us, u)) = ApplyUpdate(LedgerResult(us), u)
  <2> DEFINE more == Append(us, u)
             N == Len(us)
  <2>1. /\ more \in Seq(Updates) /\ N \in Nat /\ Len(more) = N + 1
        /\ more[N + 1] = u /\ \A k \in 1..N : more[k] = us[k]
    OBVIOUS
  <2> HIDE DEF more
  <2>2. PICK g : Applies(g, Results, more)
    BY <2>1, LedgerResultUnfolds
  <2> DEFINE same == {k \in 0..N : f[k] = g[k]}
  <2>3. 0 \in same
    BY <1>1, <2>1, <2>2 DEF Applies
  <2>4. ASSUME NEW n \in 0..N - 1, n \in same PROVE n + 1 \in same
    <3>1. n + 1 \in 1..N /\ n + 1 \in 1..N + 1 /\ (n + 1) - 1 = n
      BY <2>1
    <3>2. f[n + 1] = ApplyUpdate(f[n], us[n + 1])
      BY <1>1, <3>1 DEF Applies
    <3>3. g[n + 1] = ApplyUpdate(g[n], more[n + 1])
      BY <2>1, <2>2, <3>1 DEF Applies
    <3> QED BY <2>1, <2>4, <3>1, <3>2, <3>3
  <2> HIDE DEF N, same
  <2>5. 0..N \subseteq same
    BY <2>1, <2>3, <2>4, IntervalInduction
  <2>6. f[N] = g[N]
    BY <2>1, <2>5 DEF same
  <2>7. g[N + 1] = ApplyUpdate(g[N], more[N + 1])
    <3>1. N + 1 \in 1..Len(more) /\ (N + 1) - 1 = N
      BY <2>1
    <3> QED BY <2>2, <3>1 DEF Applies
  <2> QED BY <1>1, <2>1, <2>2, <2>6, <2>7 DEF Applies, N, more
<1> QED BY <1>3, <1>4

-----------------------------------------------------------------------------
(* The action store: a chain of hashes *)

\* Every stored hash is that of the actions up to it.
Chained(stored) ==
  \A i \in 1..Len(stored) : stored[i].hash = [k \in 1..i |-> stored[k].data]

LEMMA PushKeepsChain ==
  ASSUME NEW s \in Sends, NEW stored \in Seq(Entries), NEW u \in Updates, Chained(stored)
  PROVE  Chained(PushAction(s, stored, u))
<1> DEFINE n == Len(stored)
           hash == Append(LatestActionState(stored), u.data)
           pushed == PushAction(s, stored, u)
<1>1. LatestActionState(stored) = [k \in 1..n |-> stored[k].data]
  <2>1. CASE stored = <<>>
    <3>1. n = 0 /\ [k \in 1..n |-> stored[k].data] = <<>>
      BY <2>1
    <3> QED BY <2>1, <3>1 DEF LatestActionState, EmptyActionState
  <2>2. CASE stored # <<>>
    <3>1. n \in 1..n
      BY <2>2
    <3> QED BY <2>2, <3>1 DEF LatestActionState, Last, Chained
  <2> QED BY <2>1, <2>2
<1>2. ASSUME NEW k \in 1..n PROVE stored[k].data \in Contents
  <2>1. stored[k] \in Entries
    OBVIOUS
  <2> QED BY <2>1 DEF Entries
<1>3. /\ pushed = Append(stored, [by |-> s, data |-> u.data, hash |-> hash])
      /\ Len(pushed) = n + 1 /\ n \in Nat /\ pushed[n + 1].hash = hash
      /\ pushed[n + 1].data = u.data /\ \A k \in 1..n : pushed[k] = stored[k]
  BY DEF PushAction
<1>4. hash = [k \in 1..n + 1 |-> pushed[k].data]
  <2> DEFINE datas == [k \in 1..n |-> stored[k].data]
  <2>1. datas \in Seq(Contents) /\ Len(datas) = n /\ u.data \in Contents
    BY <1>2, <1>3 DEF Updates
  <2>2. Append(datas, u.data) = [k \in 1..n + 1 |-> IF k = n + 1 THEN u.data ELSE datas[k]]
    BY <2>1
  <2> QED BY <1>1, <1>3, <2>2
<1> HIDE DEF pushed, hash
<1>5. ASSUME NEW i \in 1..n + 1 PROVE pushed[i].hash = [k \in 1..i |-> pushed[k].data]
  <2>1. CASE i = n + 1
    BY <1>3, <1>4, <2>1
  <2>2. CASE i \in 1..n
    <3>1. stored[i].hash = [k \in 1..i |-> stored[k].data]
      BY <2>2 DEF Chained
    <3>2. ASSUME NEW k \in 1..i PROVE pushed[k].data = stored[k].data
      <4>1. k \in 1..n
        BY <1>3, <2>2
      <4> QED BY <1>3, <4>1
    <3>3. [k \in 1..i |-> pushed[k].data] = [k \in 1..i |-> stored[k].data]
      BY <3>2
    <3>4. pushed[i] = stored[i]
      BY <1>3, <2>2
    <3> QED BY <3>1, <3>3, <3>4
  <2>3. i = n + 1 \/ i \in 1..n
    BY <1>3
  <2> QED BY <2>1, <2>2, <2>3
<1> QED BY <1>3, <1>5 DEF Chained, pushed

\* `pushed` is `stored` with entries of s for the updates us behind it.
Extends(pushed, stored, s, us) ==
  \E new \in Seq(Entries) :
    /\ pushed = stored \o new /\ Len(new) = Len(us)
    /\ \A k \in 1..Len(us) : new[k].by = s /\ new[k].data = us[k].data

LEMMA EntryAppended ==
  ASSUME NEW stored \in Seq(Entries), NEW new \in Seq(Entries), NEW e \in Entries
  PROVE  stored \o Append(new, e) = Append(stored \o new, e)
<1> DEFINE T == Entries
<1>1. stored \in Seq(T) /\ new \in Seq(T) /\ e \in T
  OBVIOUS
<1> HIDE DEF T
<1> QED BY <1>1, SMTT(30)

LEMMA PushExtends ==
  ASSUME NEW s \in Sends, NEW stored \in Seq(Entries), NEW pushed \in Seq(Entries),
         NEW us \in Seq(Updates), NEW u \in Updates, Extends(pushed, stored, s, us)
  PROVE  Extends(PushAction(s, pushed, u), stored, s, Append(us, u))
<1> DEFINE e == [by |-> s, data |-> u.data, hash |-> Append(LatestActionState(pushed), u.data)]
<1>1. PushAction(s, pushed, u) = Append(pushed, e) /\ Append(pushed, e) \in Seq(Entries)
  BY PushedIsEntry DEF PushAction
<1>2. e.by = s /\ e.data = u.data
  OBVIOUS
<1> HIDE DEF e
<1>3. e \in Entries
  <2>1. Len(pushed) + 1 \in 1..Len(Append(pushed, e)) /\ Append(pushed, e)[Len(pushed) + 1] = e
    OBVIOUS
  <2> QED BY <1>1, <2>1, ElementOfSeq
<1>4. PICK new \in Seq(Entries) :
        /\ pushed = stored \o new /\ Len(new) = Len(us)
        /\ \A k \in 1..Len(us) : new[k].by = s /\ new[k].data = us[k].data
  BY DEF Extends
<1> DEFINE more == Append(new, e)
<1>5. /\ more \in Seq(Entries) /\ Len(more) = Len(new) + 1 /\ Append(stored \o new, e) = stored \o more
      /\ more[Len(new) + 1] = e /\ \A k \in 1..Len(new) : more[k] = new[k]
  <2>1. /\ more \in Seq(Entries) /\ Len(more) = Len(new) + 1
        /\ more[Len(new) + 1] = e /\ \A k \in 1..Len(new) : more[k] = new[k]
    BY <1>3
  <2>2. ASSUME NEW x \in Entries PROVE Append(stored \o new, x) = stored \o Append(new, x)
    BY EntryAppended
  <2> QED BY <1>3, <2>1, <2>2
<1>6. /\ Len(Append(us, u)) = Len(us) + 1 /\ Append(us, u)[Len(us) + 1] = u
      /\ \A k \in 1..Len(us) : Append(us, u)[k] = us[k]
  OBVIOUS
<1> HIDE DEF more
<1>7. ASSUME NEW k \in 1..Len(us) + 1 PROVE more[k].by = s /\ more[k].data = Append(us, u)[k].data
  <2>1. k \in 1..Len(us) \/ k = Len(us) + 1
    BY LenProperties
  <2> QED BY <1>2, <1>4, <1>5, <1>6, <2>1
<1>8. PushAction(s, pushed, u) = stored \o more /\ Len(more) = Len(Append(us, u))
  BY <1>1, <1>4, <1>5, <1>6
<1>9. \A k \in 1..Len(Append(us, u)) : more[k].by = s /\ more[k].data = Append(us, u)[k].data
  BY <1>6, <1>7
<1> QED BY <1>5, <1>8, <1>9 DEF Extends

\* The actions of a transaction extend the store and its chain.
LEMMA PushedAre ==
  ASSUME NEW s \in Sends, NEW stored \in Seq(Entries), NEW us \in Seq(Updates), Chained(stored)
  PROVE  /\ PushActions(s, stored, us) \in Seq(Entries)
         /\ Chained(PushActions(s, stored, us))
         /\ Extends(PushActions(s, stored, us), stored, s, us)
<1> DEFINE S == {q \in Seq(Updates) : /\ Chained(PushActions(s, stored, q))
                                      /\ Extends(PushActions(s, stored, q), stored, s, q)}
<1>1. <<>> \in S
  <2>1. stored = stored \o <<>> /\ <<>> \in Seq(Entries) /\ <<>> \in Seq(Updates) /\ Len(<<>>) = 0
    BY ConcatEmptySeq, EmptySeq
  <2>2. Extends(stored, stored, s, <<>>)
    <3> DEFINE none == <<>>
    <3>1. none \in Seq(Entries) /\ stored = stored \o none /\ Len(none) = 0 /\ 1..0 = {}
      BY <2>1
    <3> HIDE DEF none
    <3>2. Extends(stored, stored, s, none)
      BY <3>1 DEF Extends
    <3> QED BY <3>2 DEF none
  <2>3. PushActions(s, stored, <<>>) = stored
    BY PushActionsSteps
  <2> QED BY <2>1, <2>2, <2>3
<1>2. ASSUME NEW q \in Seq(Updates), q \in S, NEW u \in Updates PROVE Append(q, u) \in S
  <2>1. /\ PushActions(s, stored, q) \in Seq(Entries)
        /\ PushActions(s, stored, Append(q, u)) = PushAction(s, PushActions(s, stored, q), u)
    BY PushActionsSteps
  <2>2. Chained(PushActions(s, stored, Append(q, u)))
    BY <1>2, <2>1, PushKeepsChain
  <2>3. Extends(PushActions(s, stored, Append(q, u)), stored, s, Append(q, u))
    BY <1>2, <2>1, PushExtends
  <2> QED BY <2>2, <2>3, AppendProperties
<1> HIDE DEF S
<1>3. Seq(Updates) \subseteq S
  BY <1>1, <1>2, SeqInduction
<1> QED BY <1>3, PushActionsSteps DEF S

-----------------------------------------------------------------------------
(* The ledger: which actions it hashes and which keys it accepts *)

LEMMA ActsOnSteps ==
  ASSUME NEW a, NEW us \in Seq(Updates)
  PROVE  /\ ActsOn(us, a) \in Seq(Updates) /\ ActsOn(<<>>, a) = <<>>
         /\ \A u \in Updates : ActsOn(Append(us, u), a) =
              IF IsActOn(u, a) THEN Append(ActsOn(us, a), u) ELSE ActsOn(us, a)
<1> DEFINE At(q) == {i \in DOMAIN q : IsActOn(q[i], a)}
<1>1. \A q : ActsOn(q, a) = Selected(At(q), q)
  BY DEF ActsOn
<1> HIDE DEF At
<1>2. ActsOn(us, a) \in Seq(Updates) /\ ActsOn(<<>>, a) = <<>>
  <2>1. Selected(At(us), us) \in Seq(Updates) /\ Selected(At(<<>>), <<>>) = <<>>
    BY SelectedSteps
  <2> QED BY <1>1, <2>1
<1>3. ASSUME NEW u \in Updates
      PROVE  ActsOn(Append(us, u), a) =
               IF IsActOn(u, a) THEN Append(ActsOn(us, a), u) ELSE ActsOn(us, a)
  <2> DEFINE more == Append(us, u)
  <2>1. Selected(At(more), more) =
          IF Len(us) + 1 \in At(more) THEN Append(Selected(At(more), us), u)
          ELSE Selected(At(more), us)
    BY SelectedSteps
  <2>2. /\ Len(us) + 1 \in At(more) <=> IsActOn(u, a)
        /\ \A i \in 1..Len(us) : i \in At(more) <=> i \in At(us)
    BY DEF At
  <2>3. Selected(At(more), us) = Selected(At(us), us)
    BY <2>2, SelectedAgrees
  <2> QED BY <1>1, <2>1, <2>2, <2>3
<1> QED BY <1>2, <1>3

\* What the ledger did when it accepted an update.
LEMMA AcceptedUpdate ==
  ASSUME NEW result \in Results, NEW u \in Updates, ApplyUpdate(result, u).ok
  PROVE  /\ result.ok /\ (u.kind = "act" => result.account[u.account].vk = u.vk)
         /\ \A a \in Accounts :
              /\ ApplyUpdate(result, u).acts[a] =
                   IF IsActOn(u, a) THEN Append(result.acts[a], u.data) ELSE result.acts[a]
              /\ ApplyUpdate(result, u).account[a].vk =
                   IF u.kind = "deploy" /\ u.account = a THEN u.vk ELSE result.account[a].vk
<1>1. u.account \in Accounts /\ u.kind \in {"act", "deploy", "lock"}
  BY DEF Updates
<1>2. result.ok /\ LedgerAllows(u, result.account[u.account])
  BY DEF ApplyUpdate, Results
<1>3. CASE u.kind = "act"
  <2>1. ApplyUpdate(result, u) = [result EXCEPT !.acts[u.account] = Append(@, u.data)]
    BY <1>2, <1>3 DEF ApplyUpdate
  <2> QED BY <1>1, <1>2, <1>3, <2>1 DEF Results, IsActOn, LedgerAllows
<1>4. CASE u.kind = "deploy"
  <2>1. ApplyUpdate(result, u) = [result EXCEPT !.account[u.account].vk = u.vk]
    BY <1>2, <1>4 DEF ApplyUpdate
  <2>2. [result.account[u.account] EXCEPT !.vk = u.vk].vk = u.vk
    BY <1>1 DEF Results, Known
  <2> QED BY <1>1, <1>2, <1>4, <2>1, <2>2 DEF Results, IsActOn
<1>5. CASE u.kind = "lock"
  <2>1. ApplyUpdate(result, u) = [result EXCEPT !.account[u.account].locked = TRUE]
    BY <1>2, <1>5 DEF ApplyUpdate
  <2>2. [result.account[u.account] EXCEPT !.locked = TRUE].vk = result.account[u.account].vk
    BY <1>1 DEF Results, Known
  <2> QED BY <1>1, <1>2, <1>5, <2>1, <2>2 DEF Results, IsActOn
<1> QED BY <1>1, <1>3, <1>4, <1>5

\* Before the i-th of these updates one deploys key vk to account a.
DeployedBefore(us, i, a, vk) ==
  \E j \in 1..i - 1 : us[j].kind = "deploy" /\ us[j].account = a /\ us[j].vk = vk

\* If the ledger accepts all updates, their actions are what it hashes, every
\* proof is for the key the account has or was given, and so are the keys.
LEMMA LedgerAccepts ==
  ASSUME account \in [Accounts -> Known], NEW us \in Seq(Updates), LedgerResult(us).ok
  PROVE  \A a \in Accounts :
           /\ Len(LedgerResult(us).acts[a]) = Len(ActsOn(us, a))
           /\ \A k \in 1..Len(ActsOn(us, a)) : LedgerResult(us).acts[a][k] = ActsOn(us, a)[k].data
           /\ LET vk == LedgerResult(us).account[a].vk
              IN  vk = account[a].vk \/ DeployedBefore(us, Len(us) + 1, a, vk)
           /\ \A i \in 1..Len(us) : IsActOn(us[i], a) =>
                account[a].vk = us[i].vk \/ DeployedBefore(us, i, a, us[i].vk)
<1> DEFINE Acts(q, a) ==
             /\ Len(LedgerResult(q).acts[a]) = Len(ActsOn(q, a))
             /\ \A k \in 1..Len(ActsOn(q, a)) : LedgerResult(q).acts[a][k] = ActsOn(q, a)[k].data
           Key(q, a) ==
             LET vk == LedgerResult(q).account[a].vk
             IN  vk = account[a].vk \/ DeployedBefore(q, Len(q) + 1, a, vk)
           Keys(q, a) ==
             \A i \in 1..Len(q) : IsActOn(q[i], a) =>
               account[a].vk = q[i].vk \/ DeployedBefore(q, i, a, q[i].vk)
           S == {q \in Seq(Updates) : LedgerResult(q).ok =>
                   \A a \in Accounts : Acts(q, a) /\ Key(q, a) /\ Keys(q, a)}
<1>1. <<>> \in S
  <2> DEFINE q == <<>>
  <2>1. q \in Seq(Updates) /\ Len(q) = 0
    BY EmptySeq
  <2>2. LedgerResult(q) = NothingApplied /\ \A a : ActsOn(q, a) = q
    BY LedgerResultSteps, ActsOnSteps
  <2> HIDE DEF q
  <2>3. \A a \in Accounts : LedgerResult(q).acts[a] = q /\ LedgerResult(q).account[a] = account[a]
    BY <2>2 DEF NothingApplied, q
  <2> QED BY <2>1, <2>2, <2>3 DEF q
<1>2. ASSUME NEW q \in Seq(Updates), q \in S, NEW u \in Updates PROVE Append(q, u) \in S
  <2> DEFINE more == Append(q, u)
             r == LedgerResult(q)
  <2>1. LedgerResult(more) = ApplyUpdate(r, u) /\ r \in Results
    BY LedgerResultSteps
  <2>2. /\ more \in Seq(Updates) /\ Len(more) = Len(q) + 1 /\ Len(q) \in Nat
        /\ more[Len(q) + 1] = u /\ \A k \in 1..Len(q) : more[k] = q[k]
    OBVIOUS
  <2> HIDE DEF more
  <2> SUFFICES ASSUME LedgerResult(more).ok, NEW a \in Accounts
               PROVE  Acts(more, a) /\ Key(more, a) /\ Keys(more, a)
    BY <2>2 DEF more
  <2>3. /\ r.ok /\ (u.kind = "act" => r.account[u.account].vk = u.vk)
        /\ LedgerResult(more).acts[a] =
             IF IsActOn(u, a) THEN Append(r.acts[a], u.data) ELSE r.acts[a]
        /\ LedgerResult(more).account[a].vk =
             IF u.kind = "deploy" /\ u.account = a THEN u.vk ELSE r.account[a].vk
    BY <2>1, AcceptedUpdate
  <2>4. Acts(q, a) /\ Key(q, a) /\ Keys(q, a)
    BY <1>2, <2>3
  <2>5. ActsOn(more, a) = (IF IsActOn(u, a) THEN Append(ActsOn(q, a), u) ELSE ActsOn(q, a))
        /\ ActsOn(q, a) \in Seq(Updates) /\ r.acts[a] \in Seq(Contents) /\ u.data \in Contents
    BY <2>1, ActsOnSteps DEF more, Results, Updates
  <2>6. Acts(more, a)
    <3>1. CASE IsActOn(u, a)
      <4> DEFINE datas == r.acts[a]
                 acts == ActsOn(q, a)
      <4>1. Len(datas) = Len(acts) /\ \A k \in 1..Len(acts) : datas[k] = acts[k].data
        BY <2>4
      <4>2. LedgerResult(more).acts[a] = Append(datas, u.data) /\ ActsOn(more, a) = Append(acts, u)
        BY <2>3, <2>5, <3>1
      <4>3. datas \in Seq(Contents) /\ acts \in Seq(Updates)
        BY <2>5
      <4> HIDE DEF datas, acts
      <4>4. /\ Len(Append(datas, u.data)) = Len(Append(acts, u))
            /\ \A k \in 1..Len(Append(acts, u)) : Append(datas, u.data)[k] = Append(acts, u)[k].data
        <5>1. /\ Len(Append(datas, u.data)) = Len(datas) + 1
              /\ Append(datas, u.data)[Len(datas) + 1] = u.data
              /\ \A k \in 1..Len(datas) : Append(datas, u.data)[k] = datas[k]
          BY <4>3, <2>5, AppendProperties
        <5>2. /\ Len(Append(acts, u)) = Len(acts) + 1 /\ Len(acts) \in Nat
              /\ Append(acts, u)[Len(acts) + 1] = u
              /\ \A k \in 1..Len(acts) : Append(acts, u)[k] = acts[k]
          BY <4>3, AppendProperties, LenProperties
        <5> QED BY <4>1, <5>1, <5>2
      <4> QED BY <4>2, <4>4
    <3>2. CASE ~IsActOn(u, a)
      BY <2>3, <2>4, <2>5, <3>2
    <3> QED BY <3>1, <3>2
  <2>7. \A vk : \A i \in 1..Len(q) + 1 : DeployedBefore(q, i, a, vk) => DeployedBefore(more, i, a, vk)
    BY <2>2 DEF DeployedBefore
  <2>8. Key(more, a)
    <3>1. CASE u.kind = "deploy" /\ u.account = a
      BY <2>2, <2>3, <3>1 DEF DeployedBefore
    <3>2. CASE ~(u.kind = "deploy" /\ u.account = a)
      <4> DEFINE vk == r.account[a].vk
      <4>1. vk = account[a].vk \/ DeployedBefore(q, Len(q) + 1, a, vk)
        BY <2>4
      <4>2. DeployedBefore(q, Len(q) + 1, a, vk) => DeployedBefore(more, Len(more) + 1, a, vk)
        BY <2>2 DEF DeployedBefore
      <4> QED BY <2>3, <3>2, <4>1, <4>2
    <3> QED BY <3>1, <3>2
  <2>9. ASSUME NEW i \in 1..Len(more), IsActOn(more[i], a)
        PROVE  account[a].vk = more[i].vk \/ DeployedBefore(more, i, a, more[i].vk)
    <3>1. CASE i \in 1..Len(q)
      <4>1. IsActOn(q[i], a) /\ more[i] = q[i]
        BY <2>2, <2>9, <3>1
      <4> QED BY <2>2, <2>4, <2>7, <3>1, <4>1
    <3>2. CASE i = Len(q) + 1
      <4>1. r.account[a].vk = u.vk
        BY <2>2, <2>3, <2>9, <3>2 DEF IsActOn
      <4>2. account[a].vk = u.vk \/ DeployedBefore(q, i, a, u.vk)
        BY <2>4, <3>2, <4>1
      <4> QED BY <2>2, <2>7, <3>2, <4>2
    <3> QED BY <2>2, <3>1, <3>2
  <2> QED BY <2>6, <2>8, <2>9
<1> HIDE DEF S
<1>3. Seq(Updates) \subseteq S
  BY <1>1, <1>2, SeqInduction
<1> QED BY <1>3 DEF S

-----------------------------------------------------------------------------
(* The stores and the keys: what holds beside Inv *)

StateOK ==
  /\ account \in [Accounts -> Known]
  /\ applied \in [Accounts -> Seq([by : Sends, data : Contents])]
  /\ actions \in [Accounts -> Seq(Entries)]
  /\ simple \in [Sends -> [Accounts -> Known]]
  /\ verified \in [Sends -> SUBSET Nat]
  /\ DOMAIN next = Sends
  /\ \A s \in Sends : pc[s] # "new" => tx[s].updates \in Seq(Updates)

\* A send awaits the verification of one of its updates, on a known account.
AwaitsKnown ==
  \A s \in Sends : pc[s] = "verifying" =>
    /\ next[s] \in 1..Len(tx[s].updates)
    /\ simple[s][tx[s].updates[next[s]].account].vk # 0

\* The i-th update was verified against the key this view has of its account.
SameKey(us, i, view) ==
  i \in 1..Len(us) /\ (us[i].kind = "act" => view[us[i].account].vk = us[i].vk)

\* What was verified keeps the key it was verified against.
VerifiedKey ==
  \A s \in Sends : \A i \in verified[s] :
    pc[s] # "new" /\ SameKey(tx[s].updates, i, simple[s])

\* Only transactions that reached the ledger have stored actions.
StoredAreOver ==
  \A a \in Accounts : \A i \in 1..Len(actions[a]) : outcome[actions[a][i].by] # "none"

StoresChained == \A a \in Accounts : Chained(actions[a])

StoreInv ==
  /\ StateOK
  /\ AwaitsKnown
  /\ VerifiedKey
  /\ StoredAreOver
  /\ StoresChained
  /\ StoreMatchesLedger

LEMMA InitStore == Init => StoreInv
<1> SUFFICES ASSUME Init PROVE StoreInv
  OBVIOUS
<1>1. PICK vk \in Deployed : account = [a \in Accounts |-> [NotLoaded EXCEPT !.vk = vk]]
  BY DEF Init
<1>2. NotLoaded \in Known /\ [NotLoaded EXCEPT !.vk = vk] \in Known
  <2>1. vk \in Nat
    BY ConstantsAssumption
  <2>2. NotLoaded \in Known
    BY DEF NotLoaded, Known
  <2> QED BY <2>1, <2>2 DEF Known
<1>3. \A T : <<>> \in Seq(T)
  BY EmptySeq
<1>4. StateOK
  BY <1>1, <1>2, <1>3 DEF Init, StateOK
<1>5. AwaitsKnown /\ VerifiedKey /\ StoredAreOver /\ StoresChained
  BY DEF Init, AwaitsKnown, VerifiedKey, StoredAreOver, StoresChained, Chained
<1>6. StoreMatchesLedger
  <2>1. \A at : Selected(at, <<>>) = <<>>
    BY SelectedSteps, EmptySeq
  <2> QED BY <2>1 DEF Init, StoreMatchesLedger
<1> QED BY <1>4, <1>5, <1>6 DEF StoreInv

\* What the applied entries of a store say of an account's ledger.
Kept(a) == Selected({i \in DOMAIN actions[a] : outcome[actions[a][i].by] = "applied"}, actions[a])
SameActions(kept, hashed) ==
  /\ Len(kept) = Len(hashed)
  /\ \A k \in 1..Len(kept) : kept[k].by = hashed[k].by /\ kept[k].data = hashed[k].data

LEMMA MatchByPosition ==
  ASSUME NEW T, NEW U, NEW kept \in Seq(T), NEW hashed \in Seq(U)
  PROVE  ([k \in DOMAIN kept |-> <<kept[k].by, kept[k].data>>]
            = [k \in DOMAIN hashed |-> <<hashed[k].by, hashed[k].data>>])
         <=> SameActions(kept, hashed)
<1> DEFINE F == [k \in DOMAIN kept |-> <<kept[k].by, kept[k].data>>]
           G == [k \in DOMAIN hashed |-> <<hashed[k].by, hashed[k].data>>]
<1>1. /\ DOMAIN kept = 1..Len(kept) /\ DOMAIN hashed = 1..Len(hashed)
      /\ Len(kept) \in Nat /\ Len(hashed) \in Nat
  BY LenProperties
<1>2. ASSUME F = G PROVE SameActions(kept, hashed)
  <2>1. DOMAIN F = DOMAIN G
    BY <1>2
  <2>2. DOMAIN kept = DOMAIN hashed
    BY <2>1
  <2>3. Len(kept) = Len(hashed)
    <3> DEFINE m == Len(kept)
               n == Len(hashed)
    <3>1. m \in Nat /\ n \in Nat /\ 1..m = 1..n
      BY <1>1, <2>2
    <3> HIDE DEF m, n
    <3>2. m > n => m \in 1..n
      BY <3>1
    <3>3. n > m => n \in 1..m
      BY <3>1
    <3>4. m = n
      BY <3>1, <3>2, <3>3
    <3> QED BY <3>4 DEF m, n
  <2>4. ASSUME NEW k \in DOMAIN kept PROVE kept[k].by = hashed[k].by /\ kept[k].data = hashed[k].data
    <3>1. F[k] = G[k]
      BY <1>2
    <3> QED BY <2>2, <3>1
  <2> QED BY <1>1, <2>3, <2>4 DEF SameActions
<1>3. ASSUME SameActions(kept, hashed) PROVE F = G
  BY <1>1, <1>3 DEF SameActions
<1> QED BY <1>2, <1>3

LEMMA MatchesByPosition ==
  ASSUME StateOK
  PROVE  /\ StoreMatchesLedger <=> \A a \in Accounts : SameActions(Kept(a), applied[a])
         /\ \A a \in Accounts : Kept(a) \in Seq(Entries)
<1>1. ASSUME NEW a \in Accounts
      PROVE  Kept(a) \in Seq(Entries) /\ applied[a] \in Seq([by : Sends, data : Contents])
  <2>1. actions[a] \in Seq(Entries) /\ applied[a] \in Seq([by : Sends, data : Contents])
    BY DEF StateOK
  <2> QED BY <2>1, SelectedSteps DEF Kept
<1>2. ASSUME NEW a \in Accounts
      PROVE  ([k \in DOMAIN Kept(a) |-> <<Kept(a)[k].by, Kept(a)[k].data>>]
                = [k \in DOMAIN applied[a] |-> <<applied[a][k].by, applied[a][k].data>>])
             <=> SameActions(Kept(a), applied[a])
  BY <1>1, MatchByPosition
<1> QED BY <1>1, <1>2 DEF StoreMatchesLedger, Kept

LEMMA BothExtended ==
  ASSUME NEW T, NEW U, NEW kept \in Seq(T), NEW hashed \in Seq(U), SameActions(kept, hashed),
         NEW new \in Seq(T), NEW more \in Seq(U), SameActions(more, new)
  PROVE  SameActions(kept \o new, hashed \o more)
<1>1. /\ Len(kept \o new) = Len(kept) + Len(new)
      /\ \A i \in 1..Len(kept) + Len(new) :
           (kept \o new)[i] = IF i <= Len(kept) THEN kept[i] ELSE new[i - Len(kept)]
  BY ConcatProperties
<1>2. /\ Len(hashed \o more) = Len(hashed) + Len(more)
      /\ \A i \in 1..Len(hashed) + Len(more) :
           (hashed \o more)[i] = IF i <= Len(hashed) THEN hashed[i] ELSE more[i - Len(hashed)]
  BY ConcatProperties
<1>3. Len(kept) \in Nat /\ Len(new) \in Nat /\ Len(hashed) = Len(kept) /\ Len(more) = Len(new)
  BY LenProperties DEF SameActions
<1>4. ASSUME NEW i \in 1..Len(kept) + Len(new)
      PROVE  /\ (kept \o new)[i].by = (hashed \o more)[i].by
             /\ (kept \o new)[i].data = (hashed \o more)[i].data
  <2>1. CASE i <= Len(kept)
    <3>1. i \in 1..Len(kept)
      BY <1>3, <2>1
    <3> QED BY <1>1, <1>2, <1>3, <2>1, <3>1 DEF SameActions
  <2>2. CASE ~(i <= Len(kept))
    <3>1. i - Len(kept) \in 1..Len(more)
      BY <1>3, <2>2
    <3>2. (kept \o new)[i] = new[i - Len(kept)] /\ (hashed \o more)[i] = more[i - Len(kept)]
      BY <1>1, <1>2, <1>3, <2>2
    <3> QED BY <3>1, <3>2 DEF SameActions
  <2> QED BY <2>1, <2>2
<1> QED BY <1>1, <1>2, <1>3, <1>4 DEF SameActions

\* Storing and applying the actions of a transaction, seen from one account.
LEMMA StoredBeside ==
  ASSUME Inv, StoreInv, NEW s \in Sends, pc[s] \in {"built", "verifying"},
         LedgerApply(s), Store(s), NEW a \in Accounts
  PROVE  /\ actions'[a] \in Seq(Entries)
         /\ applied'[a] \in Seq([by : Sends, data : Contents])
         /\ Chained(actions'[a])
         /\ \A i \in 1..Len(actions'[a]) : outcome'[actions'[a][i].by] # "none"
         /\ SameActions(Kept(a)', applied'[a])
<1> DEFINE us == tx[s].updates
           acts == ActsOn(us, a)
           old == actions[a]
           Hashes == [by : Sends, data : Contents]
           r == LedgerResult(us)
<1>1. /\ us \in Seq(Updates) /\ old \in Seq(Entries) /\ applied[a] \in Seq(Hashes)
      /\ outcome[s] = "none" /\ outcome \in [Sends -> Outcomes]
      /\ account \in [Accounts -> Known]
  BY DEF StoreInv, StateOK, Inv, TypeOK, OutcomeAtTheEnd
<1>2. acts \in Seq(Updates)
  BY <1>1, ActsOnSteps
<1>3. actions'[a] = PushActions(s, old, acts)
  BY DEF Store
<1>4. Chained(old)
  BY DEF StoreInv, StoresChained
<1>5. /\ actions'[a] \in Seq(Entries) /\ Chained(actions'[a])
      /\ Extends(actions'[a], old, s, acts)
  <2> HIDE DEF acts, old
  <2> QED BY <1>1, <1>2, <1>3, <1>4, PushedAre
<1> HIDE DEF us, acts, old
<1>6. PICK new \in Seq(Entries) :
        /\ actions'[a] = old \o new /\ Len(new) = Len(acts)
        /\ \A k \in 1..Len(acts) : new[k].by = s /\ new[k].data = acts[k].data
  BY <1>5 DEF Extends
<1>7. PICK o \in {"refused", "charged", "applied"} :
        /\ outcome' = [outcome EXCEPT ![s] = o]
        /\ o # "applied" => applied'[a] = applied[a]
        /\ o = "applied" => r.ok /\ applied'[a] = applied[a] \o By(s, r.acts[a])
  <2>1. CASE ~FeePayerAccepted(s)
    <3>1. outcome' = [outcome EXCEPT ![s] = "refused"] /\ applied' = applied
      BY <2>1 DEF LedgerApply, ledger
    <3> QED BY <3>1
  <2>2. CASE FeePayerAccepted(s)
    <3>1. /\ outcome' = [outcome EXCEPT ![s] = IF r.ok THEN "applied" ELSE "charged"]
          /\ applied' = IF r.ok THEN [b \in Accounts |-> applied[b] \o By(s, r.acts[b])] ELSE applied
      BY <2>2 DEF LedgerApply, us
    <3> HIDE DEF r
    <3>2. CASE r.ok
      BY <3>1, <3>2
    <3>3. CASE ~r.ok
      BY <3>1, <3>3
    <3> QED BY <3>2, <3>3
  <2> QED BY <2>1, <2>2
<1>8. outcome'[s] = o /\ \A q \in Sends : q # s => outcome'[q] = outcome[q]
  BY <1>1, <1>7
<1>9. /\ Len(old \o new) = Len(old) + Len(new) /\ Len(old) \in Nat /\ Len(new) \in Nat
      /\ \A i \in 1..Len(old) : (old \o new)[i] = old[i] /\ i \in DOMAIN (old \o new)
      /\ \A k \in 1..Len(new) : (old \o new)[Len(old) + k] = new[k] /\ Len(old) + k \in DOMAIN (old \o new)
  <2>1. /\ Len(old \o new) = Len(old) + Len(new) /\ old \o new \in Seq(Entries)
        /\ \A i \in 1..Len(old) + Len(new) :
             (old \o new)[i] = IF i <= Len(old) THEN old[i] ELSE new[i - Len(old)]
    BY <1>1, ConcatProperties
  <2>2. DOMAIN (old \o new) = 1..Len(old) + Len(new) /\ Len(old) \in Nat /\ Len(new) \in Nat
    BY <1>1, <2>1, LenProperties
  <2>3. ASSUME NEW k \in 1..Len(new)
        PROVE  /\ (old \o new)[Len(old) + k] = new[k] /\ Len(old) + k \in DOMAIN (old \o new)
    <3>1. Len(old) + k \in 1..Len(old) + Len(new) /\ ~(Len(old) + k <= Len(old)) /\ (Len(old) + k) - Len(old) = k
      BY <2>2
    <3> QED BY <2>1, <2>2, <3>1
  <2>4. ASSUME NEW i \in 1..Len(old)
        PROVE  /\ (old \o new)[i] = old[i] /\ i \in DOMAIN (old \o new)
    <3>1. i \in 1..Len(old) + Len(new) /\ i <= Len(old)
      BY <2>2
    <3> QED BY <2>1, <2>2, <3>1
  <2> QED BY <2>1, <2>2, <2>3, <2>4
<1>10. ASSUME NEW i \in 1..Len(old)
       PROVE  old[i].by # s /\ old[i].by \in Sends /\ outcome[old[i].by] # "none"
  <2>1. old[i] \in Entries
    BY <1>1
  <2>2. outcome[old[i].by] # "none"
    BY DEF StoreInv, StoredAreOver, old
  <2> QED BY <1>1, <2>1, <2>2 DEF Entries
<1>11. ASSUME NEW i \in 1..Len(actions'[a]) PROVE outcome'[actions'[a][i].by] # "none"
  <2>1. CASE i \in 1..Len(old)
    BY <1>6, <1>8, <1>9, <1>10, <2>1
  <2>2. CASE i \notin 1..Len(old)
    <3> DEFINE k == i - Len(old)
    <3>1. k \in 1..Len(new) /\ i = Len(old) + k
      BY <1>6, <1>9, <2>2
    <3>2. actions'[a][i] = new[k] /\ new[k].by = s
      BY <1>6, <1>9, <3>1
    <3> QED BY <1>8, <3>2
  <2> QED BY <2>1, <2>2
<1> DEFINE at == {i \in DOMAIN actions'[a] : outcome'[actions'[a][i].by] = "applied"}
           was == {i \in DOMAIN old : outcome[old[i].by] = "applied"}
<1>12. Kept(a)' = Selected(at, old \o new) /\ Kept(a) = Selected(was, old)
  BY <1>6 DEF Kept, old
<1>13. \A i \in 1..Len(old) : i \in at <=> i \in was
  <2>1. DOMAIN old = 1..Len(old)
    BY <1>1, LenProperties
  <2> QED BY <1>6, <1>8, <1>9, <1>10, <2>1
<1>14. \A k \in 1..Len(new) : Len(old) + k \in at <=> o = "applied"
  BY <1>6, <1>8, <1>9
<1> HIDE DEF at, was
<1>15. SameActions(Kept(a), applied[a]) /\ Kept(a) \in Seq(Entries)
  BY MatchesByPosition DEF StoreInv
<1>16. CASE o # "applied"
  <2>1. \A k \in 1..Len(new) : Len(old) + k \notin at
    BY <1>14, <1>16
  <2>2. Selected(at, old \o new) = Selected(was, old)
    <3>1. old \in Seq(Entries) /\ new \in Seq(Entries)
      BY <1>1
    <3> QED BY <1>13, <2>1, <3>1, SelectedNothing
  <2>3. Kept(a)' = Kept(a) /\ applied'[a] = applied[a]
    BY <1>7, <1>12, <1>16, <2>2
  <2> QED BY <1>1, <1>5, <1>11, <1>15, <2>3
<1>17. CASE o = "applied"
  <2> DEFINE more == By(s, r.acts[a])
  <2>1. \A k \in 1..Len(new) : Len(old) + k \in at
    BY <1>14, <1>17
  <2>2. Selected(at, old \o new) = Selected(was, old) \o new
    <3>1. old \in Seq(Entries) /\ new \in Seq(Entries)
      BY <1>1
    <3>2. AddsAll(at, was, old, new)
      BY <1>13, <2>1, <3>1, SelectedAll
    <3> QED BY <3>2 DEF AddsAll
  <2>3. Kept(a)' = Kept(a) \o new /\ applied'[a] = applied[a] \o more
    BY <1>7, <1>12, <1>17, <2>2
  <2>4. r.ok
    BY <1>7, <1>17
  <2>5. /\ Len(r.acts[a]) = Len(acts)
        /\ \A k \in 1..Len(acts) : r.acts[a][k] = acts[k].data
    BY <1>1, <2>4, LedgerAccepts DEF acts
  <2>6. r.acts[a] \in Seq(Contents)
    BY <1>1, LedgerResultSteps DEF Results
  <2> HIDE DEF r
  <2>7. /\ more \in Seq(Hashes) /\ Len(more) = Len(new)
        /\ \A k \in 1..Len(new) : more[k].by = new[k].by /\ more[k].data = new[k].data
    <3>1. more = [k \in 1..Len(new) |-> [by |-> s, data |-> r.acts[a][k]]]
      BY <1>6, <2>5, <2>6 DEF By
    <3>2. \A k \in 1..Len(new) : r.acts[a][k] \in Contents
      BY <1>6, <2>5, <2>6
    <3>3. Len(new) \in Nat /\ \A k \in 1..Len(new) : [by |-> s, data |-> r.acts[a][k]] \in Hashes
      BY <1>9, <3>2
    <3>4. more \in Seq(Hashes) /\ Len(more) = Len(new)
      BY <3>1, <3>3
    <3> QED BY <1>6, <2>5, <3>1, <3>4
  <2> HIDE DEF more
  <2>8. SameActions(Kept(a) \o new, applied[a] \o more)
    <3>1. SameActions(more, new)
      BY <2>7 DEF SameActions
    <3> QED BY <3>1, <1>1, <1>15, <2>7, BothExtended
  <2>9. applied[a] \o more \in Seq(Hashes)
    BY <1>1, <2>7, ConcatProperties
  <2> QED BY <1>5, <1>11, <2>3, <2>8, <2>9
<1> QED BY <1>16, <1>17

LEMMA LedgerStoreInv ==
  ASSUME Inv, StoreInv, NEW s \in Sends, pc[s] \in {"built", "verifying"},
         LedgerApply(s), Store(s)
  PROVE  /\ account' \in [Accounts -> Known]
         /\ applied' \in [Accounts -> Seq([by : Sends, data : Contents])]
         /\ actions' \in [Accounts -> Seq(Entries)]
         /\ StoresChained' /\ StoredAreOver'
         /\ \A a \in Accounts : SameActions(Kept(a)', applied'[a])
<1> DEFINE r == LedgerResult(tx[s].updates)
<1>1. tx[s].updates \in Seq(Updates) /\ account \in [Accounts -> Known] /\ DOMAIN applied = Accounts
  BY DEF StoreInv, StateOK
<1>2. r \in Results
  BY <1>1, LedgerResultSteps
<1>3. account' \in [Accounts -> Known] /\ DOMAIN applied' = Accounts
  <2>1. CASE ~FeePayerAccepted(s)
    BY <1>1, <2>1 DEF LedgerApply, ledger
  <2>2. CASE FeePayerAccepted(s)
    <3>1. /\ account' = IF r.ok THEN r.account ELSE account
          /\ applied' = IF r.ok THEN [b \in Accounts |-> applied[b] \o By(s, r.acts[b])] ELSE applied
      BY <2>2 DEF LedgerApply
    <3> HIDE DEF r
    <3>2. CASE r.ok
      BY <1>2, <3>1, <3>2 DEF Results
    <3>3. CASE ~r.ok
      BY <1>1, <3>1, <3>3
    <3> QED BY <3>2, <3>3
  <2> QED BY <2>1, <2>2
<1>4. DOMAIN actions' = Accounts /\ actions' = [a \in Accounts |-> actions'[a]]
  BY DEF Store
<1>5. applied' = [a \in Accounts |-> applied'[a]]
  <2>1. CASE ~FeePayerAccepted(s)
    BY <1>1, <2>1 DEF LedgerApply, ledger, StoreInv, StateOK
  <2>2. CASE FeePayerAccepted(s)
    <3>1. applied' = IF r.ok THEN [b \in Accounts |-> applied[b] \o By(s, r.acts[b])] ELSE applied
      BY <2>2 DEF LedgerApply
    <3>2. applied = [a \in Accounts |-> applied[a]]
      BY DEF StoreInv, StateOK
    <3> HIDE DEF r
    <3>3. CASE r.ok
      BY <3>1, <3>3
    <3>4. CASE ~r.ok
      BY <3>1, <3>2, <3>4
    <3> QED BY <3>3, <3>4
  <2> QED BY <2>1, <2>2
<1>6. ASSUME NEW a \in Accounts
      PROVE  /\ actions'[a] \in Seq(Entries)
             /\ applied'[a] \in Seq([by : Sends, data : Contents])
             /\ Chained(actions'[a])
             /\ \A i \in 1..Len(actions'[a]) : outcome'[actions'[a][i].by] # "none"
             /\ SameActions(Kept(a)', applied'[a])
  BY StoredBeside
<1>7. actions' \in [Accounts -> Seq(Entries)]
  BY <1>4, <1>6
<1>8. applied' \in [Accounts -> Seq([by : Sends, data : Contents])]
  BY <1>5, <1>6
<1> QED BY <1>3, <1>6, <1>7, <1>8 DEF StoresChained, StoredAreOver

\* The loop over the updates stops at one of them, on a known account, or behind
\* the last.
LEMMA NextKnownStops ==
  ASSUME NEW s, tx[s].updates \in Seq(Updates), NEW k \in 1..Len(tx[s].updates) + 1, NEW view
  PROVE  /\ NextKnown(s, k, view) \in k..Len(tx[s].updates) + 1
         /\ NextKnown(s, k, view) <= Len(tx[s].updates) =>
              KnownAccount(tx[s].updates[NextKnown(s, k, view)], view).vk # 0
<1> DEFINE us == tx[s].updates
           n == Len(us)
           Stop(j) == j = n + 1 \/ KnownAccount(us[j], view).vk # 0
           stops == {j \in k..n + 1 : Stop(j)}
           First(j) == Stop(j) /\ \A i \in k..j - 1 : KnownAccount(us[i], view).vk = 0
<1>1. n \in Nat /\ k \in Nat /\ k <= n + 1
  BY LenProperties
<1>2. n + 1 \in stops /\ stops \subseteq Nat
  BY <1>1
<1> HIDE DEF stops
<1>3. PICK j \in stops : \A m \in stops : j <= m
  BY <1>2, LeastNat
<1> USE DEF stops
<1>4. j \in k..n + 1 /\ Stop(j)
  BY <1>3
<1>5. ASSUME NEW i \in k..j - 1 PROVE KnownAccount(us[i], view).vk = 0
  <2>1. i \in k..n + 1 /\ i < j
    BY <1>1, <1>4
  <2>2. i \notin stops
    BY <1>1, <1>3, <2>1
  <2> HIDE DEF us
  <2> QED BY <2>1, <2>2
<1>6. \E i \in k..n + 1 : First(i)
  BY <1>4, <1>5
<1>7. NextKnown(s, k, view) = CHOOSE i \in k..n + 1 : First(i)
  BY DEF NextKnown
<1> HIDE DEF First, n
<1>8. NextKnown(s, k, view) \in k..n + 1 /\ First(NextKnown(s, k, view))
  BY <1>6, <1>7
<1> USE DEF First, n
<1>9. NextKnown(s, k, view) <= n => NextKnown(s, k, view) # n + 1
  BY <1>1, <1>8
<1> QED BY <1>8, <1>9

\* The same of the next state
AllSame == \A a \in Accounts : SameActions(Kept(a), applied[a])

LEMMA MatchesAfterwards == StateOK' /\ AllSame' => StoreMatchesLedger'
<1>1. StateOK /\ AllSame => StoreMatchesLedger
  BY MatchesByPosition DEF AllSame
<1> QED BY <1>1, PTL

LEMMA AccountOf ==
  ASSUME NEW us \in Seq(Updates), NEW i \in 1..Len(us)
  PROVE  us[i].account \in Accounts
<1>1. us[i] \in Updates
  OBVIOUS
<1> QED BY <1>1 DEF Updates

\* Building gives a transaction its updates; nothing of it was verified yet.
LEMMA BuildStore ==
  ASSUME Inv, StoreInv, NEW s \in Sends, Build(s)
  PROVE  StoreInv'
<1>1. PICK p \in Payers, us \in Templates, proved \in BOOLEAN :
        tx' = [tx EXCEPT ![s] = [payer |-> p, nonce |-> nonce[p], proved |-> proved, updates |-> us]]
  BY DEF Build
<1>2. /\ pc[s] = "new" /\ pc' = [pc EXCEPT ![s] = "built"]
      /\ UNCHANGED <<account, applied, actions, next, simple, verified, outcome>>
  BY DEF Build, Moves, ledger, stores
<1>3. /\ DOMAIN tx = Sends /\ pc \in [Sends -> Places]
      /\ \A q \in Sends : q # s => tx'[q] = tx[q] /\ pc'[q] = pc[q]
  BY <1>1, <1>2 DEF Inv, TypeOK
<1>4. tx'[s].updates = us /\ us \in Seq(Updates) /\ pc'[s] = "built"
  BY <1>1, <1>2, <1>3, ConstantsAssumption
<1>5. StateOK'
  BY <1>2, <1>3, <1>4 DEF StoreInv, StateOK
<1>6. AwaitsKnown'
  BY <1>2, <1>3, <1>4 DEF StoreInv, AwaitsKnown
<1>7. VerifiedKey'
  BY <1>2, <1>3 DEF StoreInv, VerifiedKey
<1>8. StoredAreOver' /\ StoresChained' /\ StoreMatchesLedger'
  BY <1>2 DEF StoreInv, StoredAreOver, StoresChained, StoreMatchesLedger
<1> QED BY <1>5, <1>6, <1>7, <1>8 DEF StoreInv

\* What a send does up to its next await, where V is what was verified so far
\* against the keys of the view it has.
LEMMA AdvanceStore ==
  ASSUME Inv, StoreInv, NEW s \in Sends, pc[s] \in {"built", "verifying"},
         NEW k \in 1..Len(tx[s].updates) + 1, NEW view \in [Accounts -> Known],
         Advance(s, k, view), UNCHANGED tx,
         NEW V \in SUBSET Nat, verified' = [verified EXCEPT ![s] = V],
         \A b \in Accounts : view[b].vk = simple[s][b].vk,
         \A i \in V : SameKey(tx[s].updates, i, view)
  PROVE  StoreInv'
<1> DEFINE us == tx[s].updates
           j == NextKnown(s, k, view)
<1>1. /\ us \in Seq(Updates) /\ pc \in [Sends -> Places] /\ DOMAIN next = Sends
      /\ simple \in [Sends -> [Accounts -> Known]] /\ verified \in [Sends -> SUBSET Nat]
      /\ account \in [Accounts -> Known] /\ Len(us) \in Nat
  BY DEF Inv, TypeOK, StoreInv, StateOK
<1>2. /\ verified' \in [Sends -> SUBSET Nat] /\ verified'[s] = V
      /\ \A q \in Sends : q # s => verified'[q] = verified[q]
  BY <1>1
<1>3. ASSUME NEW i \in V PROVE SameKey(us, i, simple[s])
  <2>1. SameKey(us, i, view)
    OBVIOUS
  <2> HIDE DEF us
  <2>2. i \in 1..Len(us)
    BY <2>1 DEF SameKey
  <2>3. us[i].account \in Accounts
    BY <1>1, <2>2, AccountOf
  <2> QED BY <2>1, <2>3 DEF SameKey
<1> HIDE DEF us, j
<1>4. CASE Throws(s)
  <2>1. /\ pc' = [pc EXCEPT ![s] = "failed"]
        /\ UNCHANGED <<account, applied, actions, next, simple, outcome>>
    BY <1>4 DEF Throws, Moves, ledger, stores
  <2>2. StateOK'
    BY <1>1, <1>2, <2>1 DEF StoreInv, StateOK
  <2>3. AwaitsKnown'
    BY <1>1, <2>1 DEF StoreInv, AwaitsKnown
  <2>4. VerifiedKey'
    BY <1>1, <1>2, <1>3, <2>1 DEF StoreInv, VerifiedKey, us
  <2>5. StoredAreOver' /\ StoresChained' /\ StoreMatchesLedger'
    BY <2>1 DEF StoreInv, StoredAreOver, StoresChained, StoreMatchesLedger
  <2> QED BY <2>2, <2>3, <2>4, <2>5 DEF StoreInv
<1>5. CASE /\ j <= Len(us) /\ Moves(s, "verifying") /\ next' = [next EXCEPT ![s] = j]
           /\ simple' = [simple EXCEPT ![s] = [view EXCEPT ![us[j].account] = KnownAccount(us[j], view)]]
           /\ UNCHANGED <<ledger, stores, outcome>>
  <2> DEFINE known == KnownAccount(us[j], view)
             seen == [view EXCEPT ![us[j].account] = known]
  <2>1. j \in 1..Len(us) /\ known.vk # 0
    <3>1. j \in k..Len(us) + 1 /\ (j <= Len(us) => known.vk # 0)
      BY <1>1, NextKnownStops DEF us, j
    <3> QED BY <1>1, <1>5, <3>1 DEF us
  <2>2. us[j].account \in Accounts
    BY <1>1, <2>1, AccountOf
  <2>3. known \in Known /\ (view[us[j].account].vk # 0 => known = view[us[j].account])
    BY <1>1, <2>2 DEF KnownAccount
  <2> HIDE DEF known
  <2>4. /\ seen \in [Accounts -> Known] /\ seen[us[j].account] = known
        /\ \A b \in Accounts : view[b].vk # 0 => seen[b].vk = view[b].vk
    BY <2>2, <2>3
  <2>5. ASSUME NEW i \in V PROVE SameKey(us, i, seen)
    <3>1. i \in 1..Len(us) /\ (us[i].kind = "act" => view[us[i].account].vk = us[i].vk)
      BY DEF SameKey, us
    <3>2. us[i] \in Updates
      BY <1>1, <3>1
    <3>3. us[i].account \in Accounts /\ us[i].vk # 0
      BY <3>2, ConstantsAssumption DEF Updates
    <3> HIDE DEF seen
    <3> QED BY <2>4, <3>1, <3>3 DEF SameKey
  <2> HIDE DEF seen
  <2>6. /\ pc' = [pc EXCEPT ![s] = "verifying"] /\ next' = [next EXCEPT ![s] = j]
        /\ simple' = [simple EXCEPT ![s] = seen]
        /\ UNCHANGED <<account, applied, actions, outcome>>
    BY <1>5 DEF Moves, ledger, stores, seen, known
  <2>7. StateOK'
    BY <1>1, <1>2, <2>4, <2>6 DEF StoreInv, StateOK
  <2>8. AwaitsKnown'
    <3>1. j \in 1..Len(us) /\ seen[us[j].account].vk # 0
      BY <2>1, <2>4
    <3> QED BY <1>1, <2>6, <3>1 DEF StoreInv, AwaitsKnown, us
  <2>9. VerifiedKey'
    BY <1>1, <1>2, <2>5, <2>6 DEF StoreInv, VerifiedKey, us
  <2>10. StoredAreOver' /\ StoresChained' /\ StoreMatchesLedger'
    BY <2>6 DEF StoreInv, StoredAreOver, StoresChained, StoreMatchesLedger
  <2> QED BY <2>7, <2>8, <2>9, <2>10 DEF StoreInv
<1>6. CASE /\ LedgerApply(s) /\ Store(s) /\ Moves(s, "hashing")
           /\ simple' = [simple EXCEPT ![s] = view] /\ UNCHANGED next
  <2>1. /\ account' \in [Accounts -> Known]
        /\ applied' \in [Accounts -> Seq([by : Sends, data : Contents])]
        /\ actions' \in [Accounts -> Seq(Entries)]
        /\ StoresChained' /\ StoredAreOver'
        /\ \A a \in Accounts : SameActions(Kept(a)', applied'[a])
    BY <1>6, LedgerStoreInv
  <2>2. /\ pc' = [pc EXCEPT ![s] = "hashing"] /\ UNCHANGED next
        /\ simple' = [simple EXCEPT ![s] = view]
    BY <1>6 DEF Moves
  <2>3. StateOK'
    BY <1>1, <1>2, <2>1, <2>2 DEF StoreInv, StateOK
  <2>4. AwaitsKnown'
    BY <1>1, <2>2 DEF StoreInv, AwaitsKnown
  <2>5. VerifiedKey'
    BY <1>1, <1>2, <2>2 DEF StoreInv, VerifiedKey, us
  <2>6. StoreMatchesLedger'
    BY <2>1, <2>3, MatchesAfterwards DEF AllSame
  <2> QED BY <2>1, <2>3, <2>4, <2>5, <2>6 DEF StoreInv
<1> QED BY <1>4, <1>5, <1>6 DEF Advance, us, j

LEMMA VerifiedStore ==
  ASSUME Inv, StoreInv, NEW s \in Sends, Verified(s)
  PROVE  StoreInv'
<1> DEFINE us == tx[s].updates
           n == next[s]
           u == us[n]
           known == simple[s][u.account]
<1>1. pc[s] = "verifying" /\ UNCHANGED tx
  BY DEF Verified
<1>2. /\ n \in 1..Len(us) /\ us \in Seq(Updates) /\ Len(us) \in Nat
      /\ simple[s] \in [Accounts -> Known] /\ verified \in [Sends -> SUBSET Nat]
      /\ pc \in [Sends -> Places]
  BY <1>1 DEF Inv, TypeOK, StoreInv, StateOK, AwaitsKnown
<1>3. u.account \in Accounts /\ known \in Known
  <2>1. u.account \in Accounts
    BY <1>2, AccountOf
  <2> QED BY <1>2, <2>1
<1>4. \A i \in verified[s] : SameKey(us, i, simple[s])
  BY DEF StoreInv, VerifiedKey
<1>5. CASE Throws(s) /\ UNCHANGED verified
  <2>1. /\ pc' = [pc EXCEPT ![s] = "failed"]
        /\ UNCHANGED <<account, applied, actions, next, simple, outcome, verified>>
    BY <1>5 DEF Throws, Moves, ledger, stores
  <2>2. StateOK' /\ AwaitsKnown' /\ VerifiedKey'
    BY <1>1, <1>2, <2>1 DEF StoreInv, StateOK, AwaitsKnown, VerifiedKey
  <2>3. StoredAreOver' /\ StoresChained' /\ StoreMatchesLedger'
    BY <2>1 DEF StoreInv, StoredAreOver, StoresChained, StoreMatchesLedger
  <2> QED BY <2>2, <2>3 DEF StoreInv
<1>6. CASE /\ Verifies(u, known) /\ verified' = [verified EXCEPT ![s] = @ \cup {n}]
           /\ Advance(s, n + 1, [simple[s] EXCEPT ![u.account] = SimpleApply(u, known)])
  <2> DEFINE view == [simple[s] EXCEPT ![u.account] = SimpleApply(u, known)]
             V == verified[s] \cup {n}
  <2>1. SimpleApply(u, known) \in Known /\ SimpleApply(u, known).vk = known.vk
    BY <1>3 DEF SimpleApply, Known
  <2>2. view \in [Accounts -> Known] /\ \A b \in Accounts : view[b].vk = simple[s][b].vk
    BY <1>2, <1>3, <2>1
  <2>3. V \in SUBSET Nat /\ verified' = [verified EXCEPT ![s] = V]
    <3>1. verified[s] \in SUBSET Nat /\ n \in Nat
      BY <1>2
    <3>2. verified' = [verified EXCEPT ![s] = V]
      BY <1>6
    <3> QED BY <3>1, <3>2
  <2>4. SameKey(us, n, simple[s])
    BY <1>2, <1>6 DEF Verifies, SameKey
  <2>5. ASSUME NEW i \in V PROVE SameKey(us, i, view)
    <3>1. SameKey(us, i, simple[s])
      BY <1>4, <2>4
    <3> HIDE DEF view
    <3>2. i \in 1..Len(us)
      BY <3>1 DEF SameKey
    <3>3. us[i] \in Updates
      BY <1>2, <3>2
    <3>4. us[i].account \in Accounts
      BY <3>3 DEF Updates
    <3> QED BY <2>2, <3>1, <3>4 DEF SameKey
  <2>6. n + 1 \in 1..Len(us) + 1
    BY <1>2
  <2>7. Advance(s, n + 1, view)
    BY <1>6
  <2> HIDE DEF view, V
  <2> QED BY <1>1, <2>2, <2>3, <2>5, <2>6, <2>7, AdvanceStore DEF us
<1> QED BY <1>5, <1>6 DEF Verified

LEMMA NextKeepsStoreInv == Inv /\ StoreInv /\ [Next]_vars => StoreInv'
<1> SUFFICES ASSUME Inv, StoreInv, [Next]_vars PROVE StoreInv'
  OBVIOUS
<1>1. ASSUME NEW s \in Sends, Build(s) PROVE StoreInv'
  BY <1>1, BuildStore
<1>2. ASSUME NEW s \in Sends, Send(s) PROVE StoreInv'
  <2>1. pc[s] = "built" /\ Advance(s, 1, simple[s]) /\ UNCHANGED <<tx, verified>>
    BY <1>2 DEF Send
  <2>2. /\ simple[s] \in [Accounts -> Known] /\ verified[s] \in SUBSET Nat
        /\ verified' = [verified EXCEPT ![s] = verified[s]]
        /\ Len(tx[s].updates) \in Nat
    BY <2>1 DEF StoreInv, StateOK
  <2>3. \A i \in verified[s] : SameKey(tx[s].updates, i, simple[s])
    BY DEF StoreInv, VerifiedKey
  <2>4. 1 \in 1..Len(tx[s].updates) + 1
    BY <2>2
  <2>5. pc[s] \in {"built", "verifying"}
    BY <2>1
  <2> DEFINE view == simple[s]
             V == verified[s]
  <2>6. /\ \A b \in Accounts : view[b].vk = simple[s][b].vk
        /\ view \in [Accounts -> Known] /\ V \in SUBSET Nat
        /\ verified' = [verified EXCEPT ![s] = V] /\ Advance(s, 1, view) /\ UNCHANGED tx
        /\ \A i \in V : SameKey(tx[s].updates, i, view)
    BY <2>1, <2>2, <2>3
  <2> HIDE DEF view, V
  <2> QED BY <2>4, <2>5, <2>6, AdvanceStore
<1>3. ASSUME NEW s \in Sends, Verified(s) PROVE StoreInv'
  BY <1>3, VerifiedStore
<1>4. ASSUME NEW s \in Sends, Hashed(s) PROVE StoreInv'
  <2>1. PICK place \in {"included", "rejected"} : pc' = [pc EXCEPT ![s] = place]
    BY <1>4 DEF Hashed, Moves
  <2>2. /\ pc[s] = "hashing" /\ pc \in [Sends -> Places]
        /\ UNCHANGED <<account, applied, actions, tx, next, simple, verified, outcome>>
    BY <1>4 DEF Hashed, ledger, stores, Inv, TypeOK
  <2>3. StateOK' /\ AwaitsKnown' /\ VerifiedKey'
    BY <2>1, <2>2 DEF StoreInv, StateOK, AwaitsKnown, VerifiedKey
  <2>4. StoredAreOver' /\ StoresChained' /\ StoreMatchesLedger'
    BY <2>2 DEF StoreInv, StoredAreOver, StoresChained, StoreMatchesLedger
  <2> QED BY <2>3, <2>4 DEF StoreInv
<1>5. CASE (\E a \in Accounts : FetchEvents(a)) \/ UNCHANGED vars
  <2>1. UNCHANGED <<account, applied, actions, pc, tx, next, simple, verified, outcome>>
    BY <1>5 DEF FetchEvents, ledger, stores, vars
  <2>2. StateOK' /\ AwaitsKnown' /\ VerifiedKey'
    BY <2>1 DEF StoreInv, StateOK, AwaitsKnown, VerifiedKey
  <2>3. StoredAreOver' /\ StoresChained' /\ StoreMatchesLedger'
    BY <2>1 DEF StoreInv, StoredAreOver, StoresChained, StoreMatchesLedger
  <2> QED BY <2>2, <2>3 DEF StoreInv
<1> QED BY <1>1, <1>2, <1>3, <1>4, <1>5 DEF Next, SendStep

-----------------------------------------------------------------------------
(* Fetching actions by their states *)

\* In a chained store a state is found where it was stored, and nowhere else.
LEMMA StateIsFound ==
  ASSUME NEW stored \in Seq(Entries), Chained(stored), NEW i \in 1..Len(stored)
  PROVE  /\ IndexOfState(stored, stored[i].hash) = i
         /\ IndexOfState(stored, EmptyActionState) = 0
         /\ stored[i].hash # EmptyActionState /\ stored[i].hash # Unbounded
<1>1. Len(stored) \in Nat /\ DOMAIN stored = 1..Len(stored)
  BY LenProperties
<1>2. \A j \in 1..Len(stored) : DOMAIN stored[j].hash = 1..j
  BY DEF Chained
<1>3. ASSUME NEW j \in 1..Len(stored), stored[j].hash = stored[i].hash PROVE j = i
  <2>1. 1..j = 1..i
    BY <1>2, <1>3
  <2>2. j \in Nat /\ i \in Nat /\ j >= 1 /\ i >= 1
    BY <1>1
  <2>3. j \in 1..i /\ i \in 1..j
    BY <2>1, <2>2
  <2> QED BY <2>2, <2>3
<1>4. stored[i].hash # EmptyActionState
  <2>1. 1 \in 1..i
    BY <1>1
  <2> QED BY <1>2, <2>1 DEF EmptyActionState
<1>5. stored[i].hash # Unbounded
  <2> SUFFICES ASSUME stored[i].hash = Unbounded PROVE FALSE
    OBVIOUS
  <2>1. 1 \in 1..i /\ stored[i].hash[1] = stored[1].data /\ 1 \in 1..Len(stored)
    <3>1. stored[i].hash = [k \in 1..i |-> stored[k].data]
      BY DEF Chained
    <3>2. 1 \in 1..i /\ 1 \in 1..Len(stored)
      BY <1>1
    <3> QED BY <3>1, <3>2
  <2>2. stored[1] \in Entries
    BY <2>1
  <2>3. stored[1].data = "unbounded"
    BY <2>1 DEF Unbounded
  <2> QED BY <2>2, <2>3, ConstantsAssumption DEF Entries
<1>6. IndexOfState(stored, stored[i].hash) = i
  <2> DEFINE found == {j \in DOMAIN stored : stored[j].hash = stored[i].hash}
  <2>1. found = {i}
    BY <1>1, <1>3
  <2>2. IndexOfState(stored, stored[i].hash)
          = IF found = {} THEN 0 ELSE CHOOSE k \in found : \A j \in found : k <= j
    BY DEF IndexOfState
  <2> HIDE DEF found
  <2>3. i <= i
    BY <1>1
  <2> QED BY <2>1, <2>2, <2>3
<1>7. IndexOfState(stored, EmptyActionState) = 0
  <2>1. ASSUME NEW j \in 1..Len(stored) PROVE stored[j].hash # EmptyActionState
    <3>1. 1 \in 1..j
      BY <1>1
    <3> QED BY <1>2, <3>1 DEF EmptyActionState
  <2>2. {j \in DOMAIN stored : stored[j].hash = EmptyActionState} = {}
    BY <1>1, <2>1
  <2> QED BY <2>2 DEF IndexOfState
<1> QED BY <1>4, <1>5, <1>6, <1>7

LEMMA FetchedSlice ==
  ASSUME NEW stored, NEW from, NEW end, end # EmptyActionState,
         from # EmptyActionState => IndexOfState(stored, from) # 0,
         end # Unbounded => IndexOfState(stored, end) # 0
  PROVE  GetActions(stored, from, end)
           = SubSeq(stored, IndexOfState(stored, from) + 1,
                    IF end = Unbounded THEN Len(stored) ELSE IndexOfState(stored, end))
BY DEF GetActions

LEMMA ChainedSlicesCompose ==
  ASSUME StateOK, StoresChained
  PROVE  SlicesCompose
<1> SUFFICES ASSUME NEW a \in Accounts, NEW i \in DOMAIN actions[a],
                    NEW e \in {<<k, actions[a][k].hash>> : k \in i..Len(actions[a])}
                                \cup {<<Len(actions[a]), Unbounded>>}
             PROVE  GetActions(actions[a], EmptyActionState, actions[a][i].hash)
                      \o GetActions(actions[a], actions[a][i].hash, e[2])
                      = SubSeq(actions[a], 1, e[1])
  BY DEF SlicesCompose
<1> DEFINE stored == actions[a]
           mid == stored[i].hash
           n == Len(stored)
<1>1. stored \in Seq(Entries) /\ Chained(stored) /\ n \in Nat /\ DOMAIN stored = 1..n
  BY LenProperties DEF StateOK, StoresChained
<1>2. i \in 1..n /\ i \in Nat /\ i >= 1
  BY <1>1
<1> HIDE DEF stored
<1>3. /\ IndexOfState(stored, mid) = i /\ IndexOfState(stored, EmptyActionState) = 0
      /\ mid # EmptyActionState /\ mid # Unbounded
  BY <1>1, <1>2, StateIsFound
<1> HIDE DEF mid, n
<1>4. GetActions(stored, EmptyActionState, mid) = SubSeq(stored, 1, i)
  BY <1>2, <1>3, FetchedSlice
<1>5. PICK k \in i..n :
        e[1] = k /\ ((e[2] = Unbounded /\ k = n) \/ e[2] = stored[k].hash)
  BY <1>1, <1>2 DEF stored, n
<1>6. GetActions(stored, mid, e[2]) = SubSeq(stored, i + 1, k)
  <2>1. Unbounded # EmptyActionState
    BY DEF Unbounded, EmptyActionState
  <2>2. CASE e[2] = Unbounded /\ k = n
    <3>1. IndexOfState(stored, mid) # 0
      BY <1>2, <1>3
    <3>2. GetActions(stored, mid, Unbounded)
            = SubSeq(stored, IndexOfState(stored, mid) + 1,
                     IF Unbounded = Unbounded THEN Len(stored) ELSE IndexOfState(stored, Unbounded))
      BY <2>1, <3>1, FetchedSlice, Zenon
    <3>3. GetActions(stored, mid, Unbounded) = SubSeq(stored, i + 1, Len(stored))
      BY <1>3, <3>2
    <3> QED BY <2>2, <3>3 DEF n
  <2>3. CASE e[2] = stored[k].hash
    <3>1. k \in 1..Len(stored) /\ k >= 1 /\ k \in Nat
      BY <1>1, <1>2 DEF n
    <3>2. /\ IndexOfState(stored, stored[k].hash) = k
          /\ stored[k].hash # EmptyActionState /\ stored[k].hash # Unbounded
      BY <1>1, <3>1, StateIsFound
    <3> DEFINE end == stored[k].hash
    <3>3. /\ end # EmptyActionState /\ end # Unbounded /\ IndexOfState(stored, end) = k
          /\ e[2] = end /\ k # 0
      BY <2>3, <3>1, <3>2
    <3> HIDE DEF end
    <3>4. IndexOfState(stored, mid) # 0 /\ IndexOfState(stored, end) # 0
      BY <1>2, <1>3, <3>3
    <3>5. GetActions(stored, mid, end)
            = SubSeq(stored, IndexOfState(stored, mid) + 1,
                     IF end = Unbounded THEN Len(stored) ELSE IndexOfState(stored, end))
      BY <3>3, <3>4, FetchedSlice, Zenon
    <3>6. GetActions(stored, mid, end) = SubSeq(stored, i + 1, k)
      BY <1>3, <3>3, <3>5
    <3> QED BY <3>3, <3>6
  <2> QED BY <1>5, <2>2, <2>3
<1>7. SubSeq(stored, 1, i) \o SubSeq(stored, i + 1, k) = SubSeq(stored, 1, k)
  <2>1. 1 \in 1..n + 1 /\ i \in 0..n /\ k \in i..n
    BY <1>1, <1>2
  <2> QED BY <1>1, <1>2, ConcatAdjacentSubSeq DEF n
<1> QED BY <1>4, <1>5, <1>6, <1>7 DEF stored, mid

-----------------------------------------------------------------------------
(* The keys of what is applied *)

LEMMA AppliedStep ==
  ASSUME Inv, StoreInv, StoreInv', NEW s \in Sends, [Next]_vars,
         outcome[s] = "none", outcome'[s] = "applied"
  PROVE  /\ UNCHANGED tx /\ LedgerResult(tx[s].updates).ok /\ pc'[s] # "new"
<1>1. outcome \in [Sends -> Outcomes] /\ pc \in [Sends -> Places]
  BY DEF Inv, TypeOK
<1>2. ASSUME NEW q \in Sends, NEW k, NEW view, Advance(q, k, view), UNCHANGED tx
      PROVE  LedgerResult(tx[s].updates).ok /\ pc'[s] # "new"
  <2>1. /\ LedgerApply(q) /\ Moves(q, "hashing")
    BY <1>2 DEF Advance, Throws
  <2>2. FeePayerAccepted(q)
    BY <1>1, <2>1 DEF LedgerApply
  <2>3. q = s
    BY <1>1, <2>1, <2>2 DEF LedgerApply
  <2>4. LedgerResult(tx[s].updates).ok
    BY <1>1, <2>1, <2>2, <2>3 DEF LedgerApply
  <2> QED BY <1>1, <2>1, <2>3, <2>4 DEF Moves
<1>3. PICK q \in Sends : Send(q) \/ Verified(q)
  BY <1>1 DEF Next, SendStep, Build, Hashed, FetchEvents, vars
<1>4. (\E k, view : Advance(q, k, view)) /\ UNCHANGED tx
  BY <1>1, <1>3 DEF Send, Verified, Throws
<1> QED BY <1>2, <1>4

LEMMA StepKeepsKeys ==
  Inv /\ StoreInv /\ StoreInv' /\ [Next]_vars =>
    \A s \in Sends : outcome[s] = "none" /\ outcome'[s] = "applied" =>
      \A i \in verified[s]' :
        LET u == tx[s].updates[i] IN
        u.kind = "act" =>
          /\ simple'[s][u.account].vk = u.vk
          /\ \/ account[u.account].vk = u.vk
             \/ \E j \in 1..i - 1 : LET d == tx[s].updates[j] IN
                   d.kind = "deploy" /\ d.account = u.account /\ d.vk = u.vk
<1> SUFFICES ASSUME Inv, StoreInv, StoreInv', [Next]_vars, NEW s \in Sends,
                    outcome[s] = "none", outcome'[s] = "applied", NEW i \in verified'[s],
                    tx[s].updates[i].kind = "act"
             PROVE  /\ simple'[s][tx[s].updates[i].account].vk = tx[s].updates[i].vk
                    /\ \/ account[tx[s].updates[i].account].vk = tx[s].updates[i].vk
                       \/ DeployedBefore(tx[s].updates, i, tx[s].updates[i].account,
                                         tx[s].updates[i].vk)
  BY DEF DeployedBefore
<1> DEFINE us == tx[s].updates
<1>1. UNCHANGED tx /\ LedgerResult(us).ok /\ pc'[s] # "new"
  BY AppliedStep
<1>2. pc'[s] # "new" /\ SameKey(tx'[s].updates, i, simple'[s])
  BY DEF StoreInv, VerifiedKey
<1>3. us \in Seq(Updates) /\ account \in [Accounts -> Known]
  BY <1>1 DEF StoreInv, StateOK
<1>4. SameKey(us, i, simple'[s])
  BY <1>1, <1>2
<1> HIDE DEF us
<1>5. i \in 1..Len(us) /\ us[i].kind = "act" /\ simple'[s][us[i].account].vk = us[i].vk
  BY <1>4 DEF SameKey, us
<1>6. us[i].account \in Accounts /\ IsActOn(us[i], us[i].account)
  BY <1>3, <1>5, AccountOf DEF IsActOn
<1>7. \/ account[us[i].account].vk = us[i].vk
      \/ DeployedBefore(us, i, us[i].account, us[i].vk)
  BY <1>1, <1>3, <1>5, <1>6, LedgerAccepts
<1> QED BY <1>5, <1>7 DEF us

-----------------------------------------------------------------------------
(* Theorems *)

\* A transaction is typed once it was built, and has no outcome before it
\* reached the ledger.
THEOREM InvHolds == Spec => []Inv
BY InitInv, NextKeepsInv, PTL DEF Spec

\* The stores, what was verified and the ledger agree in every interleaving of
\* sends, upgrades, failed transactions and fetched events.
THEOREM StoreInvHolds == Spec => []StoreInv
BY InitStore, NextKeepsStoreInv, InvHolds, PTL DEF Spec

\* The actions that are fetched for a reducer and were applied are those the
\* account's actionState hashes, in its order, whatever is sent.
THEOREM StoresMatchLedger == Spec => []StoreMatchesLedger
<1>1. StoreInv => StoreMatchesLedger
  BY DEF StoreInv
<1> QED BY <1>1, StoreInvHolds, PTL

\* getActions may be called in two parts with any stored state between them.
THEOREM StoredSlicesCompose == Spec => []SlicesCompose
<1>1. StoreInv => SlicesCompose
  BY ChainedSlicesCompose DEF StoreInv
<1> QED BY <1>1, StoreInvHolds, PTL

\* No proof that was verified against a key is applied to an account that has
\* another when the ledger comes to it.
THEOREM NoStaleKeyApplied == Spec => StaleKeyNeverApplied
BY StepKeepsKeys, InvHolds, StoreInvHolds, PTL DEF Spec, StaleKeyNeverApplied

=============================================================================
