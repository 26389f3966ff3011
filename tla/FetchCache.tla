----------------------------- MODULE FetchCache -----------------------------
(***************************************************************************)
(* What a transaction on a remote network reads: the caches and the marks  *)
(* of lib/mina/v1/fetch.ts and the reads of Network in lib/mina/v1/mina.ts.*)
(* The test run marks what it reads, fetchMissingData fetches the marks,   *)
(* and the final run reads the caches.  Caches and marks are global: all   *)
(* transactions of the process share them.                                 *)
(*                                                                         *)
(* A request is answered by the node in one step and its answer stored in  *)
(* a later one, so answers arrive in any order.                            *)
(***************************************************************************)
EXTENDS Integers, Sequences, FiniteSets, Functions

CONSTANTS
  Tasks,       \* calls of Mina.transaction()
  Accounts,    \* what getAccount and getNetworkState read, by cache key
  Contracts,   \* whose actions are read
  Ranges,      \* pairs of action states: fromActionState, endActionState
  Callbacks,   \* what a callback may read, in order: sequences of reads
  MaxNow       \* bound on how often the remote state changes

Whole == [whole |-> TRUE, range |-> CHOOSE r \in Ranges : TRUE]
Reads == {[key |-> a, range |-> Whole] : a \in Accounts}
           \cup {[key |-> c, range |-> [whole |-> FALSE, range |-> r]] : c \in Contracts, r \in Ranges}

ASSUME ConstantsAssumption ==
  /\ IsFiniteSet(Tasks) /\ Accounts \cap Contracts = {} /\ Ranges # {}
  /\ Callbacks \subseteq Seq(Reads) /\ MaxNow \in Nat \ {0}

Keys == Accounts \cup Contracts
AnyRange == {Whole} \cup {[whole |-> FALSE, range |-> r] : r \in Ranges}

VARIABLES
  now,        \* version of the remote state
  cache,      \* accountCache, networkCache, actionsCache: at = 0 for no entry
  marks,      \* accountsToFetch, networksToFetch, actionsToFetch: key -> range
  pc,         \* where each task is
  reads,      \* what its callback reads
  k,          \* the next read of its current run
  requests,   \* requests on their way: [by, key, range, at]; at = 0: not answered
  since,      \* version when the task began
  failures,   \* per task, keys of its requests that failed
  overlapped, \* tasks that were pending while another one was
  seen        \* per task, what the final run was given: [key, want, got, at]

caches == <<cache, marks>>
vars == <<now, caches, pc, reads, k, requests, since, failures, overlapped, seen>>

NoEntry == [range |-> Whole, at |-> 0]

Init ==
  /\ now = 1
  /\ cache = [key \in Keys |-> NoEntry]
  /\ marks = <<>>
  /\ pc = [t \in Tasks |-> "idle"]
  /\ reads = [t \in Tasks |-> <<>>]
  /\ k = [t \in Tasks |-> 1]
  /\ requests = {}
  /\ since = [t \in Tasks |-> 0]
  /\ failures = [t \in Tasks |-> {}]
  /\ overlapped = {}
  /\ seen = [t \in Tasks |-> <<>>]

Pending(t) == pc[t] \in {"test", "fetching", "fetched", "final"}
Building == \E t \in Tasks : pc[t] \in {"test", "final"}
Read(t) == reads[t][k[t]]

-----------------------------------------------------------------------------
(* The remote node *)

Changes ==
  /\ now < MaxNow /\ now' = now + 1
  /\ UNCHANGED <<caches, pc, reads, k, requests, since, failures, overlapped, seen>>

Answer(q) ==
  /\ q.at = 0
  /\ requests' = (requests \ {q}) \cup {[q EXCEPT !.at = now]}
  /\ UNCHANGED <<now, caches, pc, reads, k, since, failures, overlapped, seen>>

-----------------------------------------------------------------------------
(* The test run, fetchMode 'test' *)

\* A transaction that finds another one being built is refused
\* (CreateTransaction.MayStart) and left out here.
Begin(t) ==
  /\ pc[t] = "idle" /\ ~Building
  /\ pc' = [pc EXCEPT ![t] = "test"]
  /\ \E callback \in Callbacks : reads' = [reads EXCEPT ![t] = callback]
  /\ since' = [since EXCEPT ![t] = now]
  /\ LET others == {u \in Tasks : Pending(u)}
     IN  overlapped' = overlapped \cup others \cup (IF others = {} THEN {} ELSE {t})
  /\ UNCHANGED <<now, caches, k, requests, failures, seen>>

\* Mutant: what is cached is not fetched again.
MarkUnlessCached(key, range) ==
  IF cache[key].at # 0 THEN marks
  ELSE [x \in DOMAIN marks \cup {key} |-> IF x = key THEN range ELSE marks[x]]

\* mark...ToBeFetched: one mark per key, the last range wins
Mark(key, range) ==
  [x \in DOMAIN marks \cup {key} |-> IF x = key THEN range ELSE marks[x]]

\* Reads of the test run return what is cached or a dummy, and mark
TestRead(t) ==
  /\ pc[t] = "test" /\ k[t] <= Len(reads[t])
  /\ marks' = Mark(Read(t).key, Read(t).range)
  /\ k' = [k EXCEPT ![t] = @ + 1]
  /\ UNCHANGED <<now, cache, pc, reads, requests, since, failures, overlapped, seen>>

-----------------------------------------------------------------------------
(* fetchMissingData *)

\* The test run is over: one request for every mark, whoever made it
FetchMissingData(t) ==
  /\ pc[t] = "test" /\ k[t] > Len(reads[t])
  /\ pc' = [pc EXCEPT ![t] = "fetching"]
  /\ requests' = requests \cup
       {[by |-> t, key |-> key, range |-> marks[key], at |-> 0] : key \in DOMAIN marks}
  /\ UNCHANGED <<now, caches, reads, k, since, failures, overlapped, seen>>

\* Mutant: an answer clears all marks.
FetchedClearsAll(q) ==
  /\ q.at # 0
  /\ requests' = requests \ {q}
  /\ cache' = [cache EXCEPT ![q.key] = [range |-> q.range, at |-> q.at]]
  /\ marks' = <<>>
  /\ UNCHANGED <<now, pc, reads, k, since, failures, overlapped, seen>>

\* Mutant: the answer is not put into the cache.
FetchedUncached(q) ==
  /\ q.at # 0
  /\ requests' = requests \ {q}
  /\ marks' = Restrict(marks, DOMAIN marks \ {q.key})
  /\ UNCHANGED <<now, cache, pc, reads, k, since, failures, overlapped, seen>>

\* A successful answer is cached and its mark deleted, by key
Fetched(q) ==
  /\ q.at # 0
  /\ requests' = requests \ {q}
  /\ cache' = [cache EXCEPT ![q.key] = [range |-> q.range, at |-> q.at]]
  /\ marks' = Restrict(marks, DOMAIN marks \ {q.key})
  /\ UNCHANGED <<now, pc, reads, k, since, failures, overlapped, seen>>

\* A failed request leaves cache and mark alone, and fetchMissingData goes on
FetchFails(q) ==
  /\ requests' = requests \ {q}
  /\ failures' = [failures EXCEPT ![q.by] = @ \cup {q.key}]
  /\ UNCHANGED <<now, caches, pc, reads, k, since, overlapped, seen>>

\* await Promise.all(promises)
AllFetched(t) ==
  /\ pc[t] = "fetching"
  /\ \A q \in requests : q.by # t
  /\ pc' = [pc EXCEPT ![t] = "fetched"]
  /\ UNCHANGED <<now, caches, reads, k, requests, since, failures, overlapped, seen>>

-----------------------------------------------------------------------------
(* The final run, fetchMode 'cached' *)

BeginFinal(t) ==
  /\ pc[t] = "fetched"
  /\ pc' = [pc EXCEPT ![t] = IF Building THEN "failed" ELSE "final"]
  /\ k' = [k EXCEPT ![t] = 1]
  /\ UNCHANGED <<now, caches, reads, requests, since, failures, overlapped, seen>>

\* getAccount, getNetworkState and getActions return what is cached for the
\* key, or throw when nothing is
FinalRead(t) ==
  /\ pc[t] = "final" /\ k[t] <= Len(reads[t])
  /\ LET entry == cache[Read(t).key] IN
     \/ /\ entry.at = 0
        /\ pc' = [pc EXCEPT ![t] = "failed"]
        /\ UNCHANGED <<k, seen>>
     \/ /\ entry.at # 0
        /\ k' = [k EXCEPT ![t] = @ + 1]
        /\ seen' = [seen EXCEPT ![t] =
             Append(@, [key |-> Read(t).key, want |-> Read(t).range,
                        got |-> entry.range, at |-> entry.at])]
        /\ UNCHANGED pc
  /\ UNCHANGED <<now, caches, reads, requests, since, failures, overlapped>>

Built(t) ==
  /\ pc[t] = "final" /\ k[t] > Len(reads[t])
  /\ pc' = [pc EXCEPT ![t] = "built"]
  /\ UNCHANGED <<now, caches, reads, k, requests, since, failures, overlapped, seen>>

-----------------------------------------------------------------------------

RunStep(t) == TestRead(t) \/ FetchMissingData(t) \/ AllFetched(t) \/ BeginFinal(t)
              \/ FinalRead(t) \/ Built(t)
Reply == \E q \in requests : Answer(q) \/ Fetched(q) \/ FetchFails(q)

Next == Changes \/ Reply \/ \E t \in Tasks : Begin(t) \/ RunStep(t)

Spec == Init /\ [][Next]_vars

-----------------------------------------------------------------------------
(* Properties *)

\* A transaction whose requests all succeeded never fails for a value its test
\* run asked for, whatever other transactions fetch, mark and un-mark meanwhile.
FetchedIsThere ==
  \A t \in Tasks :
    pc[t] = "final" /\ failures[t] = {} /\ k[t] <= Len(reads[t]) => cache[Read(t).key].at # 0

\* A transaction that overlaps no other one is built from values the node gave
\* after it began, except for those whose request failed: a cached value of an
\* earlier transaction never takes their place.
AloneReadsFresh ==
  \A t \in Tasks : t \notin overlapped =>
    \A i \in DOMAIN seen[t] : seen[t][i].key \in failures[t] \/ seen[t][i].at >= since[t]

\* Nobody else's fetch makes a transaction lose a mark while it is still being
\* cached: a key that was marked is cached, marked or being fetched.
MarkedIsAccountedFor ==
  \A t \in Tasks : pc[t] \in {"test", "fetching", "fetched", "final"} =>
    \A i \in DOMAIN reads[t] :
      (pc[t] # "test" \/ i < k[t]) =>
        reads[t][i].key \in DOMAIN marks \/ cache[reads[t][i].key].at # 0

\* 'If the optional endActionState is provided, the list of actions will be
\* fetched up to that state' (reducer.ts:107): a read of the final run is given
\* the range of actions it asks for, when no request failed.
RangeAsAsked ==
  \A t \in Tasks : \A i \in DOMAIN seen[t] :
    failures[t] = {} => seen[t][i].got = seen[t][i].want
=============================================================================
