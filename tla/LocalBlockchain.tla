--------------------------- MODULE LocalBlockchain ---------------------------
(***************************************************************************)
(* The mock chain of lib/mina/v1/local-blockchain.ts: transactions that    *)
(* are sent concurrently, verified one account update at a time, applied   *)
(* to the ledger, and whose events and actions are stored beside it.       *)
(*                                                                         *)
(* An action is a stretch of code between two awaits.  A send awaits the   *)
(* verification of every account update whose account it knows, then       *)
(* applies and stores in one turn, then awaits the bindings (Test()) for   *)
(* the transaction hash.  Proofs are enabled and signatures are valid.     *)
(***************************************************************************)
EXTENDS Selection, FiniteSets, SequencesExt

CONSTANTS
  Sends,      \* transactions, each built once and sent at most once
  Payers,     \* fee payer accounts
  Accounts,   \* zkApp accounts
  Versions,   \* verification keys, positive
  Contents,   \* what an action carries
  Templates,  \* the account updates a transaction may have, as sequences
  Deployed    \* the keys all contracts may have when the sends begin (0: none)

\* act: a proof made with key vk, which emits one event and one action;
\* deploy: sets the verification key; lock: makes editActionState impossible.
Updates == [kind : {"act", "deploy", "lock"}, account : Accounts,
            vk : Versions, data : Contents]

ASSUME ConstantsAssumption ==
  /\ IsFiniteSet(Sends) /\ Versions \subseteq Nat \ {0}
  /\ Deployed \subseteq Versions \cup {0}
  /\ Templates \subseteq Seq(Updates) /\ "unbounded" \notin Contents

VARIABLES
  nonce,     \* ledger: nonce of each fee payer
  account,   \* ledger: verification key (0: no such account) and permission
  applied,   \* ledger: the actions each account's actionState hashes, in order
  actions,   \* the actions store of LocalBlockchain
  events,    \* the events store; fetchEvents reverses it in place
  fetched,   \* what the last fetchEvents returned
  pc, tx,    \* per send, where it is; payer, nonce, proved and updates
  next,      \* the account update whose verification is awaited
  simple,    \* simpleLedger: the accounts this send has loaded (key 0: not loaded)
  verified,  \* history: the account updates of each send that were verified
  outcome    \* what applyJsonTransaction did

ledger == <<nonce, account, applied>>
stores == <<actions, events>>
vars == <<ledger, stores, fetched, pc, tx, next, simple, verified, outcome>>

NotLoaded == [vk |-> 0, locked |-> FALSE]
NoTx == [payer |-> CHOOSE p \in Payers : TRUE, nonce |-> 0, proved |-> FALSE, updates |-> <<>>]
Init ==
  /\ nonce = [p \in Payers |-> 0]
  /\ \E vk \in Deployed : account = [a \in Accounts |-> [NotLoaded EXCEPT !.vk = vk]]
  /\ applied = [a \in Accounts |-> <<>>]
  /\ actions = [a \in Accounts |-> <<>>]
  /\ events = [a \in Accounts |-> <<>>]
  /\ fetched = <<>>
  /\ pc = [s \in Sends |-> "new"]
  /\ tx = [s \in Sends |-> NoTx]
  /\ next = [s \in Sends |-> 0]
  /\ simple = [s \in Sends |-> [a \in Accounts |-> NotLoaded]]
  /\ verified = [s \in Sends |-> {}]
  /\ outcome = [s \in Sends |-> "none"]

Moves(s, state) == pc' = [pc EXCEPT ![s] = state]

-----------------------------------------------------------------------------
(* Mina.transaction(): the fee payer's nonce is read from the ledger *)

Build(s) ==
  /\ pc[s] = "new"
  /\ \E p \in Payers, us \in Templates, proved \in BOOLEAN :
       tx' = [tx EXCEPT ![s] = [payer |-> p, nonce |-> nonce[p],
                                proved |-> proved, updates |-> us]]
  /\ Moves(s, "built")
  /\ UNCHANGED <<ledger, stores, fetched, next, simple, verified, outcome>>

-----------------------------------------------------------------------------
(* verifyAccountUpdate against the account as this send knows it *)

Verifies(u, known) == u.kind = "act" => known.vk = u.vk /\ ~known.locked

\* simpleLedger.apply: permissions are the only part of an account it updates
SimpleApply(u, known) == IF u.kind = "lock" THEN [known EXCEPT !.locked = TRUE] ELSE known

\* The account of an update: from this transaction's ledger, else the chain's
KnownAccount(u, view) == IF view[u.account].vk # 0 THEN view[u.account] ELSE account[u.account]

\* The first update from k on whose account is known, which is awaited next;
\* Len + 1 when there is none.
NextKnown(s, k, view) ==
  LET us == tx[s].updates
  IN  CHOOSE j \in k..Len(us) + 1 :
        /\ \/ j = Len(us) + 1
           \/ KnownAccount(us[j], view).vk # 0
        /\ \A i \in k..j - 1 : KnownAccount(us[i], view).vk = 0

\* 'Did you forget to invoke await tx.prove()?'
MissingProof(s, k, j) ==
  \E i \in k..j : i \in DOMAIN tx[s].updates /\ tx[s].updates[i].kind = "act" /\ ~tx[s].proved

-----------------------------------------------------------------------------
(* ledger.applyJsonTransaction, the Mina node's transaction logic *)

FeePayerAccepted(s) == tx[s].nonce = nonce[tx[s].payer]

\* Mutant: the key hash in an update's authorization kind is not compared.
LedgerAllowsAnyKey(u, acc) == u.kind = "act" => acc.vk # 0 /\ ~acc.locked

LedgerAllows(u, acc) ==
  CASE u.kind = "act" -> acc.vk = u.vk /\ ~acc.locked
    [] u.kind = "deploy" -> TRUE
    [] u.kind = "lock" -> acc.vk # 0

ApplyUpdate(result, u) ==
  LET acc == result.account[u.account] IN
  IF ~result.ok \/ ~LedgerAllows(u, acc) THEN [result EXCEPT !.ok = FALSE]
  ELSE CASE u.kind = "act" -> [result EXCEPT !.acts[u.account] = Append(@, u.data)]
         [] u.kind = "deploy" -> [result EXCEPT !.account[u.account].vk = u.vk]
         [] u.kind = "lock" -> [result EXCEPT !.account[u.account].locked = TRUE]

NothingApplied == [ok |-> TRUE, account |-> account, acts |-> [a \in Accounts |-> <<>>]]

\* The updates are applied in order, from the ledger as it is.
LedgerResult(us) ==
  LET after[k \in 0..Len(us)] ==
        IF k = 0 THEN NothingApplied ELSE ApplyUpdate(after[k - 1], us[k])
  IN  after[Len(us)]

By(s, datas) == [k \in DOMAIN datas |-> [by |-> s, data |-> datas[k]]]

\* A refused fee payer changes nothing; a failed update costs the fee payer
\* the fee and the nonce, and all updates are undone.
LedgerApply(s) ==
  LET result == LedgerResult(tx[s].updates) IN
  \/ /\ ~FeePayerAccepted(s)
     /\ outcome' = [outcome EXCEPT ![s] = "refused"]
     /\ UNCHANGED ledger
  \/ /\ FeePayerAccepted(s)
     /\ nonce' = [nonce EXCEPT ![tx[s].payer] = @ + 1]
     /\ outcome' = [outcome EXCEPT ![s] = IF result.ok THEN "applied" ELSE "charged"]
     /\ account' = IF result.ok THEN result.account ELSE account
     /\ applied' = IF result.ok
                   THEN [a \in Accounts |-> applied[a] \o By(s, result.acts[a])]
                   ELSE applied

-----------------------------------------------------------------------------
(* The events and actions of a transaction, stored whatever its status *)

EmptyActionState == <<>>
LatestActionState(stored) == IF stored = <<>> THEN EmptyActionState ELSE Last(stored).hash

IsActOn(u, a) == u.kind = "act" /\ u.account = a
ActsOn(us, a) == Selected({i \in DOMAIN us : IsActOn(us[i], a)}, us)

\* Mutant: the hash of an entry does not chain to the one before it.
PushActionUnchained(s, stored, u) ==
  Append(stored, [by |-> s, data |-> u.data, hash |-> <<u.data>>])

PushAction(s, stored, u) ==
  Append(stored, [by |-> s, data |-> u.data,
                  hash |-> Append(LatestActionState(stored), u.data)])

\* The actions of one account, pushed in order onto those that are stored
PushActions(s, stored, us) ==
  LET after[k \in 0..Len(us)] ==
        IF k = 0 THEN stored ELSE PushAction(s, after[k - 1], us[k])
  IN  after[Len(us)]

\* 'at' numbers an account's events in the order they were emitted
EmitEvents(s) ==
  events' = [a \in Accounts |->
    events[a] \o [k \in DOMAIN ActsOn(tx[s].updates, a) |->
                    [by |-> s, at |-> Len(events[a]) + k]]]

\* Mutant: each account keeps the first action of a transaction only.
StoreFirst(s) ==
  /\ actions' = [a \in Accounts |->
       LET acts == ActsOn(tx[s].updates, a)
       IN  PushActions(s, actions[a], IF acts = <<>> THEN <<>> ELSE <<Head(acts)>>)]
  /\ EmitEvents(s)

Store(s) ==
  /\ actions' = [a \in Accounts |-> PushActions(s, actions[a], ActsOn(tx[s].updates, a))]
  /\ EmitEvents(s)

-----------------------------------------------------------------------------
(* sendTransaction *)

Throws(s) ==
  /\ Moves(s, "failed")
  /\ UNCHANGED <<ledger, stores, next, simple, outcome>>

\* The loop over the account updates from the k-th on, up to the next await
Advance(s, k, view) ==
  LET j == NextKnown(s, k, view) IN
  \/ MissingProof(s, k, j) /\ Throws(s)
  \/ /\ ~MissingProof(s, k, j) /\ j <= Len(tx[s].updates)
     /\ Moves(s, "verifying")
     /\ next' = [next EXCEPT ![s] = j]
     /\ simple' = [simple EXCEPT ![s] =
          [view EXCEPT ![tx[s].updates[j].account] = KnownAccount(tx[s].updates[j], view)]]
     /\ UNCHANGED <<ledger, stores, outcome>>
  \/ /\ ~MissingProof(s, k, j) /\ j > Len(tx[s].updates)
     /\ LedgerApply(s)
     /\ Store(s)
     /\ Moves(s, "hashing")
     /\ simple' = [simple EXCEPT ![s] = view]
     /\ UNCHANGED next

Send(s) ==
  /\ pc[s] = "built"
  /\ Advance(s, 1, simple[s])
  /\ UNCHANGED <<fetched, tx, verified>>

Verified(s) ==
  LET u == tx[s].updates[next[s]]
      known == simple[s][u.account]
  IN  /\ pc[s] = "verifying"
      /\ \/ ~Verifies(u, known) /\ Throws(s) /\ UNCHANGED verified
         \/ /\ Verifies(u, known)
            /\ verified' = [verified EXCEPT ![s] = @ \cup {next[s]}]
            /\ Advance(s, next[s] + 1, [simple[s] EXCEPT ![u.account] = SimpleApply(u, known)])
      /\ UNCHANGED <<fetched, tx>>

\* await Test() is over
Hashed(s) ==
  /\ pc[s] = "hashing"
  /\ Moves(s, IF outcome[s] = "applied" THEN "included" ELSE "rejected")
  /\ UNCHANGED <<ledger, stores, fetched, tx, next, simple, verified, outcome>>

-----------------------------------------------------------------------------
(* The other methods of the chain *)

\* Array.reverse() reverses the stored array itself
FetchEvents(a) ==
  /\ events[a] # <<>>
  /\ events' = [events EXCEPT ![a] = Reverse(@)]
  /\ fetched' = events'[a]
  /\ UNCHANGED <<ledger, actions, pc, tx, next, simple, verified, outcome>>

\* getActions(publicKey, {fromActionState, endActionState}): Unbounded is an
\* absent endActionState, NotFound an exception
Unbounded == <<"unbounded">>
NotFound == <<"not found">>

IndexOfState(stored, state) ==
  LET found == {i \in DOMAIN stored : stored[i].hash = state}
  IN  IF found = {} THEN 0 ELSE CHOOSE i \in found : \A j \in found : i <= j

GetActions(stored, from, end) ==
  LET i == IndexOfState(stored, from)
      j == IF end = Unbounded THEN Len(stored) ELSE IndexOfState(stored, end)
      missing == (from # EmptyActionState /\ i = 0) \/ (end # Unbounded /\ j = 0)
  IN  CASE end = EmptyActionState -> <<>>
        [] end # EmptyActionState /\ missing -> NotFound
        [] OTHER -> SubSeq(stored, i + 1, j)

-----------------------------------------------------------------------------

SendStep(s) == Send(s) \/ Verified(s) \/ Hashed(s)

Next ==
  \/ \E s \in Sends : Build(s) \/ SendStep(s)
  \/ \E a \in Accounts : FetchEvents(a)

Spec == Init /\ [][Next]_vars

-----------------------------------------------------------------------------
(* Properties *)

\* However the sends interleave, the actions a reducer fetches are those the
\* account's actionState hashes, in its order: rejected transactions put others
\* between them, but none of the applied ones is lost, repeated or moved.
StoreMatchesLedger ==
  \A a \in Accounts :
    LET kept == Selected({i \in DOMAIN actions[a] : outcome[actions[a][i].by] = "applied"},
                         actions[a])
    IN  [k \in DOMAIN kept |-> <<kept[k].by, kept[k].data>>]
          = [k \in DOMAIN applied[a] |-> <<applied[a][k].by, applied[a][k].data>>]

\* However keys change while a send awaits: what was verified against a key is
\* applied only if the account has that key when its turn comes in the ledger.
StaleKeyNeverApplied ==
  [][\A s \in Sends : outcome[s] = "none" /\ outcome'[s] = "applied" =>
       \A i \in verified[s]' :
         LET u == tx[s].updates[i] IN
         u.kind = "act" =>
           /\ simple'[s][u.account].vk = u.vk
           /\ \/ account[u.account].vk = u.vk
              \/ \E j \in 1..i - 1 : LET d == tx[s].updates[j] IN
                    d.kind = "deploy" /\ d.account = u.account /\ d.vk = u.vk]_vars

\* A reducer that stops at any stored state and later goes on from there sees
\* what it would have seen in one go, with an end state or without.
SlicesCompose ==
  \A a \in Accounts : \A i \in DOMAIN actions[a] :
    LET mid == actions[a][i].hash
        part(from, to) == GetActions(actions[a], from, to)
        ends == {<<k, actions[a][k].hash>> : k \in i..Len(actions[a])}
                  \cup {<<Len(actions[a]), Unbounded>>}
    IN  \A e \in ends :
          part(EmptyActionState, mid) \o part(mid, e[2]) = SubSeq(actions[a], 1, e[1])

\* 'Return events in reverse chronological order (latest events at the
\* beginning)', says fetchEvents.
LatestEventsFirst ==
  \A k \in 1..Len(fetched) - 1 : fetched[k].at > fetched[k + 1].at

\* The last stored hash is the account's 'most recent action state'.
StoredStateIsLatest ==
  \A a \in Accounts :
    LatestActionState(actions[a]) = [k \in DOMAIN applied[a] |-> applied[a][k].data]
=============================================================================
