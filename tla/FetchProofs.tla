---------------------------- MODULE FetchProofs ----------------------------
(***************************************************************************)
(* Proofs about lib/mina/v1/fetch.ts.  FetchCache: what the final run of a *)
(* transaction is given, for any number of transactions, whatever each of  *)
(* them reads, however the answers of the node are ordered and whichever   *)
(* requests fail.  GraphqlRequest: how one call over its endpoints ends,   *)
(* for any number of them and of retries.  TransactionStatus: what wait()  *)
(* and waitForFinality() report is true, for every window, threshold,      *)
(* number of attempts and height, however the chain is reorganized and     *)
(* whatever requests fail.                                                 *)
(***************************************************************************)
EXTENDS FetchCache, GraphqlRequest, TransactionStatus, FiniteSetTheorems, TLAPS

Places == {"idle", "test", "fetching", "fetched", "final", "built", "failed"}
Requests == [by : Tasks, key : Keys, range : AnyRange, at : Nat]
Seen == [key : Keys, want : AnyRange, got : AnyRange, at : Nat]

TypeOK ==
  /\ now \in Nat \ {0}
  /\ cache \in [Keys -> [range : AnyRange, at : Nat]]
  /\ DOMAIN marks \subseteq Keys /\ marks \in [DOMAIN marks -> AnyRange]
  /\ pc \in [Tasks -> Places]
  /\ reads \in [Tasks -> Seq(Reads)]
  /\ k \in [Tasks -> Nat \ {0}]
  /\ requests \subseteq Requests
  /\ since \in [Tasks -> Nat]
  /\ failures \in [Tasks -> SUBSET Keys]
  /\ overlapped \subseteq Tasks
  /\ seen \in [Tasks -> Seq(Seen)]

\* Where a task has not begun, it has read nothing.
Untouched == \A t \in Tasks : pc[t] = "idle" => k[t] = 1 /\ seen[t] = <<>>

\* A request belongs to a task that waits for it.
RequestsAreAwaited == \A q \in requests : pc[q.by] = "fetching"

Asked(t) == pc[t] \in {"fetching", "fetched", "final"}
Requested(t, key) == \E q \in requests : q.by = t /\ q.key = key

\* What the test run asked for is cached, has failed or is being fetched.
AskedFor ==
  \A t \in Tasks : Asked(t) =>
    \A i \in DOMAIN reads[t] :
      \/ cache[reads[t][i].key].at # 0
      \/ reads[t][i].key \in failures[t]
      \/ Requested(t, reads[t][i].key)

\* Tasks that are pending together have noticed it.
Exclusive ==
  \A t, u \in Tasks : Pending(t) /\ Pending(u) /\ t # u => t \in overlapped

\* What an undisturbed task relies on, from its first read to its last: its
\* marks are its own, the answers to them are not older than itself.
Begun == \A t \in Tasks : Pending(t) => since[t] <= now
OwnMarks ==
  \A t \in Tasks : pc[t] = "test" /\ t \notin overlapped =>
    \A i \in DOMAIN reads[t] : i < k[t] => reads[t][i].key \in DOMAIN marks
OwnAnswers ==
  \A q \in requests : q.by \notin overlapped => q.at = 0 \/ q.at >= since[q.by]
OwnEntries ==
  \A t \in Tasks : Asked(t) /\ t \notin overlapped =>
    \A i \in DOMAIN reads[t] :
      \/ cache[reads[t][i].key].at >= since[t]
      \/ reads[t][i].key \in failures[t]
      \/ Requested(t, reads[t][i].key)

Inv ==
  /\ TypeOK /\ Untouched /\ RequestsAreAwaited
  /\ MarkedIsAccountedFor /\ AskedFor
  /\ Exclusive /\ Begun /\ OwnMarks /\ OwnAnswers /\ OwnEntries
  /\ AloneReadsFresh


-----------------------------------------------------------------------------
(* What reads and marks are made of *)

LEMMA ReadsAreTyped ==
  ASSUME NEW r \in Reads
  PROVE  r.key \in Keys /\ r.range \in AnyRange
BY DEF Reads, Keys, AnyRange

LEMMA WholeIsRange == Whole \in AnyRange
BY DEF AnyRange

\* The read a task is about to make.
LEMMA NextReadIsTyped ==
  ASSUME TypeOK, NEW t \in Tasks, k[t] <= Len(reads[t])
  PROVE  /\ k[t] \in DOMAIN reads[t]
         /\ Read(t).key \in Keys /\ Read(t).range \in AnyRange
<1>1. reads[t] \in Seq(Reads) /\ k[t] \in Nat \ {0}
  BY DEF TypeOK
<1>2. k[t] \in 1..Len(reads[t])
  BY <1>1
<1>3. k[t] \in DOMAIN reads[t] /\ reads[t][k[t]] \in Reads
  BY <1>1, <1>2
<1> QED BY <1>3, ReadsAreTyped DEF Read

\* A key of a read of a task.
LEMMA ReadKeysAreKeys ==
  ASSUME TypeOK, NEW t \in Tasks, NEW i \in DOMAIN reads[t]
  PROVE  reads[t][i].key \in Keys
<1>1. reads[t] \in Seq(Reads)
  BY DEF TypeOK
<1>2. reads[t][i] \in Reads
  BY <1>1
<1> QED BY <1>2, ReadsAreTyped

-----------------------------------------------------------------------------
(* The invariant and the steps *)

\* Nothing was read, marked or requested yet.
LEMMA InitInv == Init => Inv
<1> SUFFICES ASSUME Init PROVE Inv
  OBVIOUS
<1> USE DEF Init
<1>1. TypeOK
  BY WholeIsRange DEF TypeOK, NoEntry, Places, Requests
<1>2. Untouched /\ RequestsAreAwaited /\ MarkedIsAccountedFor
  BY DEF Untouched, RequestsAreAwaited, MarkedIsAccountedFor
<1>3. AskedFor /\ Exclusive /\ Begun /\ OwnMarks /\ OwnAnswers /\ OwnEntries
  BY DEF AskedFor, Asked, Exclusive, Pending, Begun, OwnMarks, OwnAnswers, OwnEntries
<1>4. AloneReadsFresh
  BY DEF AloneReadsFresh
<1> QED BY <1>1, <1>2, <1>3, <1>4 DEF Inv

\* A later version of the remote state makes nothing older.
LEMMA ChangesInv ==
  ASSUME Inv, Changes
  PROVE  Inv'
<1> USE DEF Inv, Changes, caches
<1>1. TypeOK'
  BY DEF TypeOK
<1>2. Begun'
  BY DEF Begun, Pending, TypeOK
<1>3. /\ Untouched' /\ RequestsAreAwaited' /\ MarkedIsAccountedFor' /\ AskedFor'
      /\ Exclusive' /\ OwnMarks' /\ OwnAnswers' /\ OwnEntries' /\ AloneReadsFresh'
  BY DEF Untouched, RequestsAreAwaited, MarkedIsAccountedFor, AskedFor, Asked, Requested,
         Exclusive, Pending, OwnMarks, OwnAnswers, OwnEntries, AloneReadsFresh
<1> QED BY <1>1, <1>2, <1>3

\* The node answers a task that is waiting, so after it began.
LEMMA AnswerInv ==
  ASSUME Inv, NEW q \in requests, Answer(q)
  PROVE  Inv'
<1> DEFINE answered == [q EXCEPT !.at = now]
<1> USE DEF Inv, Answer, caches
<1>1. /\ q \in Requests /\ now \in Nat
      /\ answered.by = q.by /\ answered.key = q.key /\ answered.at = now
      /\ answered \in Requests
  BY DEF TypeOK, Requests
<1>2. requests' = (requests \ {q}) \cup {answered}
  OBVIOUS
<1> HIDE DEF answered
<1>3. \A t \in Tasks, key \in Keys : Requested(t, key) => Requested(t, key)'
  BY <1>1, <1>2 DEF Requested
<1>4. TypeOK'
  BY <1>1, <1>2 DEF TypeOK
<1>5. Untouched' /\ MarkedIsAccountedFor' /\ Exclusive' /\ Begun' /\ OwnMarks' /\ AloneReadsFresh'
  BY DEF Untouched, MarkedIsAccountedFor, Exclusive, Pending, Begun, OwnMarks, AloneReadsFresh
<1>6. RequestsAreAwaited'
  BY <1>1, <1>2 DEF RequestsAreAwaited
<1>7. AskedFor'
  BY <1>3, ReadKeysAreKeys DEF AskedFor, Asked
<1>8. OwnEntries'
  BY <1>3, ReadKeysAreKeys DEF OwnEntries, Asked
<1>9. OwnAnswers'
  <2>1. q.by \in Tasks /\ since[q.by] <= now
    BY <1>1 DEF Requests, RequestsAreAwaited, Begun, Pending
  <2> QED BY <1>1, <1>2, <2>1 DEF OwnAnswers
<1> QED BY <1>4, <1>5, <1>6, <1>7, <1>8, <1>9

\* A task that begins while others are pending overlaps them, and they it.
LEMMA BeginInv ==
  ASSUME Inv, NEW t \in Tasks, Begin(t)
  PROVE  Inv'
<1> DEFINE others == {u \in Tasks : Pending(u)}
<1> USE DEF Inv, Begin, caches
<1>1. PICK callback \in Callbacks : reads' = [reads EXCEPT ![t] = callback]
  OBVIOUS
<1>2. callback \in Seq(Reads)
  BY ConstantsAssumption
<1>3. overlapped' = overlapped \cup others \cup (IF others = {} THEN {} ELSE {t})
  OBVIOUS
<1> HIDE DEF others
<1>4. others \subseteq Tasks
  BY DEF others
<1>5. TypeOK'
  BY <1>1, <1>2, <1>3, <1>4 DEF TypeOK, Places
<1>6. pc[t] = "idle" /\ k[t] = 1 /\ seen[t] = <<>>
  BY DEF Untouched
<1>7. /\ pc' = [pc EXCEPT ![t] = "test"] /\ since' = [since EXCEPT ![t] = now]
      /\ pc \in [Tasks -> Places] /\ since \in [Tasks -> Nat] /\ reads \in [Tasks -> Seq(Reads)]
      /\ now \in Nat
  BY DEF TypeOK
<1>8. \A u \in Tasks : u # t => pc'[u] = pc[u] /\ reads'[u] = reads[u] /\ since'[u] = since[u]
  BY <1>1, <1>7
<1>9. pc'[t] = "test" /\ since'[t] = now
  BY <1>7
<1>10. Untouched'
  BY <1>7, <1>8, <1>9 DEF Untouched
<1>11. RequestsAreAwaited'
  BY <1>6, <1>8 DEF RequestsAreAwaited, TypeOK, Requests
<1>12. MarkedIsAccountedFor'
  <2> SUFFICES ASSUME NEW u \in Tasks, pc'[u] \in {"test", "fetching", "fetched", "final"},
                      NEW i \in DOMAIN reads'[u], pc'[u] # "test" \/ i < k'[u]
               PROVE  reads'[u][i].key \in DOMAIN marks' \/ cache'[reads'[u][i].key].at # 0
    BY DEF MarkedIsAccountedFor
  <2>1. CASE u = t
    <3>1. reads'[t] = callback /\ i \in 1..Len(callback)
      BY <1>1, <1>2, <1>7, <2>1
    <3> QED BY <3>1, <2>1, <1>2, <1>6, <1>9
  <2>2. CASE u # t
    BY <2>2, <1>8 DEF MarkedIsAccountedFor
  <2> QED BY <2>1, <2>2
<1>13. AskedFor'
  BY <1>8, <1>9 DEF AskedFor, Asked, Requested
<1>14. Exclusive'
  <2> SUFFICES ASSUME NEW u \in Tasks, NEW v \in Tasks, Pending(u)', Pending(v)', u # v
               PROVE  u \in overlapped'
    BY DEF Exclusive
  <2>1. CASE u # t /\ v # t
    BY <2>1, <1>3, <1>8 DEF Pending, Exclusive
  <2>2. CASE u = t
    <3>1. v \in others BY <2>2, <1>8 DEF Pending, others
    <3> QED BY <3>1, <2>2, <1>3
  <2>3. CASE v = t
    <3>1. u \in others BY <2>3, <1>8 DEF Pending, others
    <3> QED BY <3>1, <1>3
  <2> QED BY <2>1, <2>2, <2>3
<1>15. Begun'
  BY <1>7, <1>8, <1>9 DEF Begun, Pending
<1>16. OwnMarks'
  <2> SUFFICES ASSUME NEW u \in Tasks, pc'[u] = "test", u \notin overlapped',
                      NEW i \in DOMAIN reads'[u], i < k'[u]
               PROVE  reads'[u][i].key \in DOMAIN marks'
    BY DEF OwnMarks
  <2>1. CASE u = t
    <3>1. reads'[t] = callback /\ i \in 1..Len(callback)
      BY <1>1, <1>2, <1>7, <2>1
    <3> QED BY <3>1, <2>1, <1>2, <1>6
  <2>2. CASE u # t
    BY <2>2, <1>3, <1>8 DEF OwnMarks
  <2> QED BY <2>1, <2>2
<1>17. OwnAnswers'
  BY <1>3, <1>6, <1>8 DEF OwnAnswers, RequestsAreAwaited, TypeOK, Requests
<1>18. OwnEntries'
  BY <1>3, <1>8, <1>9 DEF OwnEntries, Asked, Requested
<1>19. AloneReadsFresh'
  BY <1>3, <1>6, <1>8 DEF AloneReadsFresh
<1> QED BY <1>5, <1>10, <1>11, <1>12, <1>13, <1>14, <1>15, <1>16, <1>17, <1>18, <1>19

\* A read of the test run marks its key.
LEMMA TestReadInv ==
  ASSUME Inv, NEW t \in Tasks, TestRead(t)
  PROVE  Inv'
<1> USE DEF Inv, TestRead, caches
<1>1. /\ k[t] \in DOMAIN reads[t]
      /\ Read(t).key \in Keys /\ Read(t).range \in AnyRange
      /\ reads[t] \in Seq(Reads) /\ k[t] \in Nat \ {0}
  BY NextReadIsTyped DEF TypeOK
<1>2. DOMAIN marks' = DOMAIN marks \cup {Read(t).key}
  BY DEF Mark
<1>3. TypeOK'
  <2>1. marks' \in [DOMAIN marks' -> AnyRange]
    BY <1>1, <1>2 DEF Mark, TypeOK
  <2> QED BY <1>1, <1>2, <2>1 DEF TypeOK
<1>4. \A u \in Tasks : u # t => k'[u] = k[u]
  BY DEF TypeOK
<1>5. k'[t] = k[t] + 1
  BY DEF TypeOK
<1>6. Untouched' /\ RequestsAreAwaited' /\ Exclusive' /\ Begun' /\ OwnAnswers'
  BY <1>4 DEF Untouched, RequestsAreAwaited, Exclusive, Pending, Begun, OwnAnswers
<1>7. AskedFor' /\ OwnEntries' /\ AloneReadsFresh'
  BY DEF AskedFor, OwnEntries, Asked, Requested, AloneReadsFresh
<1>8. \A i \in DOMAIN reads[t] : i < k'[t] => i < k[t] \/ reads[t][i].key = Read(t).key
  <2>1. \A i \in DOMAIN reads[t] : i \in Nat
    BY <1>1
  <2> QED BY <1>1, <1>5, <2>1 DEF Read
<1>9. OwnMarks'
  BY <1>2, <1>4, <1>8 DEF OwnMarks
<1>10. MarkedIsAccountedFor'
  <2> SUFFICES ASSUME NEW u \in Tasks, pc[u] \in {"test", "fetching", "fetched", "final"},
                      NEW i \in DOMAIN reads[u], pc[u] # "test" \/ i < k'[u]
               PROVE  reads[u][i].key \in DOMAIN marks' \/ cache[reads[u][i].key].at # 0
    BY DEF MarkedIsAccountedFor
  <2> QED BY <1>2, <1>4, <1>8 DEF MarkedIsAccountedFor
<1> QED BY <1>3, <1>6, <1>7, <1>9, <1>10

\* At the end of the test run every mark becomes a request.
LEMMA FetchMissingDataInv ==
  ASSUME Inv, NEW t \in Tasks, FetchMissingData(t)
  PROVE  Inv'
<1> DEFINE sent == {[by |-> t, key |-> key, range |-> marks[key], at |-> 0] : key \in DOMAIN marks}
<1> USE DEF Inv, FetchMissingData, caches
<1>1. requests' = requests \cup sent
  OBVIOUS
<1>2. /\ \A q \in sent : q.by = t /\ q.at = 0 /\ q \in Requests
      /\ \A key \in DOMAIN marks : \E q \in sent : q.by = t /\ q.key = key
  <2>1. ASSUME NEW key \in DOMAIN marks
        PROVE  [by |-> t, key |-> key, range |-> marks[key], at |-> 0] \in Requests
    BY DEF TypeOK, Requests
  <2>2. \A q \in sent : q.by = t /\ q.at = 0 /\ q \in Requests
    BY <2>1
  <2>3. ASSUME NEW key \in DOMAIN marks
        PROVE  \E q \in sent : q.by = t /\ q.key = key
    <3>1. [by |-> t, key |-> key, range |-> marks[key], at |-> 0] \in sent
      OBVIOUS
    <3> QED BY <3>1
  <2> QED BY <2>2, <2>3
<1> HIDE DEF sent
<1>3. /\ pc[t] = "test" /\ pc'[t] = "fetching"
      /\ \A u \in Tasks : u # t => pc'[u] = pc[u]
  BY DEF TypeOK
<1>4. \A i \in DOMAIN reads[t] : i < k[t]
  <2>1. reads[t] \in Seq(Reads) /\ k[t] \in Nat
    BY DEF TypeOK
  <2> QED BY <2>1
<1>5. \A u \in Tasks, key \in Keys : Requested(u, key) => Requested(u, key)'
  BY <1>1 DEF Requested
<1>6. \A key \in DOMAIN marks : Requested(t, key)'
  BY <1>1, <1>2 DEF Requested
<1>7. TypeOK'
  BY <1>1, <1>2 DEF TypeOK, Places
<1>8. Untouched' /\ AloneReadsFresh'
  BY <1>3 DEF Untouched, AloneReadsFresh
<1>9. RequestsAreAwaited'
  BY <1>1, <1>2, <1>3 DEF RequestsAreAwaited, TypeOK, Requests
<1>10. MarkedIsAccountedFor'
  BY <1>3, <1>4 DEF MarkedIsAccountedFor
<1>11. Exclusive' /\ Begun' /\ OwnMarks'
  BY <1>3 DEF Exclusive, Begun, Pending, OwnMarks
<1>12. OwnAnswers'
  BY <1>1, <1>2 DEF OwnAnswers
<1>13. AskedFor'
  <2> SUFFICES ASSUME NEW u \in Tasks, Asked(u)', NEW i \in DOMAIN reads[u]
               PROVE  \/ cache[reads[u][i].key].at # 0 \/ reads[u][i].key \in failures[u]
                      \/ Requested(u, reads[u][i].key)'
    BY DEF AskedFor
  <2>1. CASE u = t
    BY <2>1, <1>3, <1>4, <1>6 DEF MarkedIsAccountedFor
  <2>2. CASE u # t
    BY <2>2, <1>3, <1>5, ReadKeysAreKeys DEF AskedFor, Asked
  <2> QED BY <2>1, <2>2
<1>14. OwnEntries'
  <2> SUFFICES ASSUME NEW u \in Tasks, Asked(u)', u \notin overlapped, NEW i \in DOMAIN reads[u]
               PROVE  \/ cache[reads[u][i].key].at >= since[u] \/ reads[u][i].key \in failures[u]
                      \/ Requested(u, reads[u][i].key)'
    BY DEF OwnEntries
  <2>1. CASE u = t
    BY <2>1, <1>3, <1>4, <1>6 DEF OwnMarks
  <2>2. CASE u # t
    BY <2>2, <1>3, <1>5, ReadKeysAreKeys DEF OwnEntries, Asked
  <2> QED BY <2>1, <2>2
<1> QED BY <1>7, <1>8, <1>9, <1>10, <1>11, <1>12, <1>13, <1>14

\* An answer is cached before its mark is deleted, and it is the answer to a
\* request of the only pending task, unless tasks overlap.
LEMMA FetchedInv ==
  ASSUME Inv, NEW q \in requests, Fetched(q)
  PROVE  Inv'
<1> USE DEF Inv, Fetched, caches
<1>1. /\ q \in Requests /\ q.by \in Tasks /\ q.key \in Keys /\ q.range \in AnyRange
      /\ q.at \in Nat /\ q.at # 0 /\ pc[q.by] = "fetching"
  BY DEF TypeOK, Requests, RequestsAreAwaited
<1>2. /\ cache'[q.key].at = q.at
      /\ \A key \in Keys : key # q.key => cache'[key] = cache[key]
  BY <1>1 DEF TypeOK
<1>3. DOMAIN marks' = DOMAIN marks \ {q.key}
  BY DEF Restrict
<1>4. \A u \in Tasks, key \in Keys :
        Requested(u, key) => Requested(u, key)' \/ (u = q.by /\ key = q.key)
  BY DEF Requested
<1>5. \A u \in Tasks : u \notin overlapped /\ (pc[u] = "test" \/ Asked(u)) => u = q.by
  BY <1>1 DEF Exclusive, Pending, Asked
<1>6. TypeOK'
  <2>1. [range |-> q.range, at |-> q.at] \in [range : AnyRange, at : Nat]
    BY <1>1
  <2>2. cache' \in [Keys -> [range : AnyRange, at : Nat]]
    BY <1>1, <2>1 DEF TypeOK
  <2>3. DOMAIN marks' \subseteq Keys /\ marks' \in [DOMAIN marks' -> AnyRange]
    BY <1>3 DEF TypeOK, Restrict
  <2> QED BY <2>2, <2>3 DEF TypeOK
<1>7. Untouched' /\ RequestsAreAwaited' /\ Exclusive' /\ Begun' /\ OwnAnswers' /\ AloneReadsFresh'
  BY DEF Untouched, RequestsAreAwaited, Exclusive, Pending, Begun, OwnAnswers, AloneReadsFresh
<1>8. MarkedIsAccountedFor'
  BY <1>1, <1>2, <1>3, ReadKeysAreKeys DEF MarkedIsAccountedFor
<1>9. AskedFor'
  BY <1>1, <1>2, <1>4, ReadKeysAreKeys DEF AskedFor, Asked
<1>10. OwnMarks'
  BY <1>1, <1>5 DEF OwnMarks
<1>11. OwnEntries'
  <2> SUFFICES ASSUME NEW u \in Tasks, Asked(u), u \notin overlapped, NEW i \in DOMAIN reads[u]
               PROVE  \/ cache'[reads[u][i].key].at >= since[u] \/ reads[u][i].key \in failures[u]
                      \/ Requested(u, reads[u][i].key)'
    BY DEF OwnEntries, Asked
  <2>1. u = q.by /\ q.at >= since[u]
    BY <1>1, <1>5 DEF OwnAnswers
  <2>2. reads[u][i].key \in Keys
    BY ReadKeysAreKeys
  <2> QED BY <1>2, <1>4, <2>1, <2>2 DEF OwnEntries
<1> QED BY <1>6, <1>7, <1>8, <1>9, <1>10, <1>11

\* A failed request is remembered as a failure of the task that made it.
LEMMA FetchFailsInv ==
  ASSUME Inv, NEW q \in requests, FetchFails(q)
  PROVE  Inv'
<1> USE DEF Inv, FetchFails, caches
<1>1. q \in Requests /\ q.by \in Tasks /\ q.key \in Keys
  BY DEF TypeOK, Requests
<1>2. /\ failures'[q.by] = failures[q.by] \cup {q.key}
      /\ \A u \in Tasks : failures[u] \subseteq failures'[u]
  BY <1>1 DEF TypeOK
<1>3. \A u \in Tasks, key \in Keys :
        Requested(u, key) => Requested(u, key)' \/ key \in failures'[u]
  BY <1>2 DEF Requested
<1>4. TypeOK'
  BY <1>1 DEF TypeOK
<1>5. /\ Untouched' /\ RequestsAreAwaited' /\ MarkedIsAccountedFor' /\ Exclusive' /\ Begun'
      /\ OwnMarks' /\ OwnAnswers'
  BY DEF Untouched, RequestsAreAwaited, MarkedIsAccountedFor, Exclusive, Pending, Begun,
         OwnMarks, OwnAnswers
<1>6. AskedFor'
  BY <1>2, <1>3, ReadKeysAreKeys DEF AskedFor, Asked
<1>7. OwnEntries'
  BY <1>2, <1>3, ReadKeysAreKeys DEF OwnEntries, Asked
<1>8. AloneReadsFresh'
  BY <1>2 DEF AloneReadsFresh
<1> QED BY <1>4, <1>5, <1>6, <1>7, <1>8

\* The three steps that only move a task on.
LEMMA MovesOnInv ==
  ASSUME Inv, NEW t \in Tasks, AllFetched(t) \/ BeginFinal(t) \/ Built(t)
  PROVE  Inv'
<1> USE DEF Inv, AllFetched, BeginFinal, Built, caches
<1>1. /\ pc[t] \in {"fetching", "fetched", "final"}
      /\ pc'[t] \in {"fetched", "final", "built", "failed"}
      /\ pc' \in [Tasks -> Places]
      /\ \A u \in Tasks : u # t => pc'[u] = pc[u]
  <2>1. pc \in [Tasks -> Places]
    BY DEF TypeOK
  <2>2. CASE AllFetched(t)
    BY <2>1, <2>2 DEF Places
  <2>3. CASE BeginFinal(t)
    <3>1. PICK place \in {"failed", "final"} : pc' = [pc EXCEPT ![t] = place]
      BY <2>3
    <3> QED BY <2>1, <2>3, <3>1 DEF Places
  <2>4. CASE Built(t)
    BY <2>1, <2>4 DEF Places
  <2> QED BY <2>2, <2>3, <2>4
<1>2. \A q \in requests : q.by # t
  BY DEF RequestsAreAwaited
<1>3. /\ k' \in [Tasks -> Nat \ {0}]
      /\ \A u \in Tasks : u # t => k'[u] = k[u]
  <2>1. k' = k \/ k' = [k EXCEPT ![t] = 1]
    OBVIOUS
  <2>2. k \in [Tasks -> Nat \ {0}]
    BY DEF TypeOK
  <2> HIDE DEF AllFetched, BeginFinal, Built, Inv
  <2> QED BY <2>1, <2>2
<1>4. UNCHANGED <<now, cache, marks, reads, requests, since, failures, overlapped, seen>>
  OBVIOUS
<1> HIDE DEF AllFetched, BeginFinal, Built
<1>5. TypeOK'
  BY <1>1, <1>3, <1>4 DEF TypeOK, Places
<1>6. RequestsAreAwaited'
  BY <1>1, <1>2, <1>4 DEF RequestsAreAwaited, TypeOK, Requests
<1>7. Untouched' /\ Exclusive' /\ Begun' /\ OwnAnswers' /\ AloneReadsFresh'
  BY <1>1, <1>3, <1>4 DEF Untouched, Exclusive, Pending, Begun, OwnAnswers, AloneReadsFresh
<1>8. MarkedIsAccountedFor' /\ OwnMarks'
  BY <1>1, <1>3, <1>4 DEF MarkedIsAccountedFor, OwnMarks
<1>9. AskedFor'
  BY <1>1, <1>4 DEF AskedFor, Asked, Requested
<1>10. OwnEntries'
  BY <1>1, <1>4 DEF OwnEntries, Asked, Requested
<1> QED BY <1>5, <1>6, <1>7, <1>8, <1>9, <1>10

\* The final run is given what was asked for.
LEMMA FinalReadInv ==
  ASSUME Inv, NEW t \in Tasks, FinalRead(t)
  PROVE  Inv'
<1> USE DEF Inv, FinalRead, caches
<1>1. /\ k[t] \in DOMAIN reads[t] /\ Read(t) = reads[t][k[t]]
      /\ Read(t).key \in Keys /\ Read(t).range \in AnyRange
      /\ cache[Read(t).key] \in [range : AnyRange, at : Nat]
  BY NextReadIsTyped DEF Read, TypeOK
<1>2. UNCHANGED <<now, cache, marks, reads, requests, since, failures, overlapped>>
  OBVIOUS
<1>3. CASE cache[Read(t).key].at = 0
  <2>1. pc' = [pc EXCEPT ![t] = "failed"] /\ UNCHANGED <<k, seen>>
    BY <1>3
  <2>2. /\ pc[t] = "final" /\ pc'[t] = "failed"
        /\ \A u \in Tasks : u # t => pc'[u] = pc[u]
    BY <2>1 DEF TypeOK
  <2>3. TypeOK'
    BY <1>2, <2>1 DEF TypeOK, Places
  <2>4. Untouched' /\ RequestsAreAwaited' /\ Exclusive' /\ Begun' /\ OwnAnswers' /\ AloneReadsFresh'
    BY <1>2, <2>1, <2>2
    DEF Untouched, RequestsAreAwaited, Exclusive, Pending, Begun, OwnAnswers, AloneReadsFresh,
        TypeOK, Requests
  <2>5. MarkedIsAccountedFor' /\ OwnMarks'
    BY <1>2, <2>1, <2>2 DEF MarkedIsAccountedFor, OwnMarks
  <2>6. AskedFor' /\ OwnEntries'
    BY <1>2, <2>1, <2>2 DEF AskedFor, OwnEntries, Asked, Requested
  <2> QED BY <2>3, <2>4, <2>5, <2>6
<1>4. CASE cache[Read(t).key].at # 0
  <2> DEFINE got == [key |-> Read(t).key, want |-> Read(t).range,
                     got |-> cache[Read(t).key].range, at |-> cache[Read(t).key].at]
  <2>1. /\ k' = [k EXCEPT ![t] = @ + 1] /\ seen' = [seen EXCEPT ![t] = Append(@, got)]
        /\ UNCHANGED pc
    BY <1>4
  <2>2. got \in Seen /\ got.key = Read(t).key /\ got.at = cache[Read(t).key].at
    BY <1>1 DEF Seen
  <2> HIDE DEF got
  <2>3. TypeOK'
    BY <1>2, <2>1, <2>2 DEF TypeOK
  <2>4. pc[t] = "final" /\ \A u \in Tasks : u # t => k'[u] = k[u] /\ seen'[u] = seen[u]
    BY <2>1 DEF TypeOK
  <2>5. Untouched' /\ RequestsAreAwaited' /\ Exclusive' /\ Begun' /\ OwnAnswers'
    BY <1>2, <2>1, <2>4
    DEF Untouched, RequestsAreAwaited, Exclusive, Pending, Begun, OwnAnswers
  <2>6. MarkedIsAccountedFor' /\ OwnMarks'
    BY <1>2, <2>1, <2>4 DEF MarkedIsAccountedFor, OwnMarks
  <2>7. AskedFor' /\ OwnEntries'
    BY <1>2, <2>1 DEF AskedFor, OwnEntries, Asked, Requested
  <2>8. AloneReadsFresh'
    <3> SUFFICES ASSUME t \notin overlapped, NEW i \in DOMAIN seen'[t]
                 PROVE  seen'[t][i].key \in failures[t] \/ seen'[t][i].at >= since[t]
      BY <1>2, <2>4 DEF AloneReadsFresh
    <3>1. seen[t] \in Seq(Seen) /\ seen'[t] = Append(seen[t], got)
      BY <2>1 DEF TypeOK
    <3>2. CASE i \in DOMAIN seen[t]
      <4>1. seen'[t][i] = seen[t][i]
        BY <3>1, <3>2
      <4> QED BY <3>2, <4>1 DEF AloneReadsFresh
    <3>3. CASE i \notin DOMAIN seen[t]
      <4>1. seen'[t][i] = got
        BY <2>2, <3>1, <3>3
      <4>2. ~Requested(t, Read(t).key)
        BY <2>4 DEF Requested, RequestsAreAwaited
      <4>3. Read(t).key \in failures[t] \/ cache[Read(t).key].at >= since[t]
        BY <1>1, <2>4, <4>2 DEF OwnEntries, Asked
      <4> QED BY <2>2, <4>1, <4>3
    <3> QED BY <3>2, <3>3
  <2> QED BY <2>3, <2>5, <2>6, <2>7, <2>8
<1> QED BY <1>3, <1>4

\* Every step keeps the invariant.
LEMMA NextKeepsInv == Inv /\ [Next]_vars => Inv'
<1> SUFFICES ASSUME Inv, [Next]_vars PROVE Inv'
  OBVIOUS
<1>1. CASE Changes
  BY <1>1, ChangesInv
<1>2. ASSUME NEW q \in requests, Answer(q) \/ Fetched(q) \/ FetchFails(q) PROVE Inv'
  BY <1>2, AnswerInv, FetchedInv, FetchFailsInv
<1>3. ASSUME NEW t \in Tasks, Begin(t) \/ RunStep(t) PROVE Inv'
  BY <1>3, BeginInv, TestReadInv, FetchMissingDataInv, MovesOnInv, FinalReadInv DEF RunStep
<1>4. CASE UNCHANGED vars
  BY <1>4
  DEF vars, caches, Inv, TypeOK, Untouched, RequestsAreAwaited, MarkedIsAccountedFor, AskedFor,
      Asked, Requested, Exclusive, Pending, Begun, OwnMarks, OwnAnswers, OwnEntries,
      AloneReadsFresh
<1> QED BY <1>1, <1>2, <1>3, <1>4 DEF Next, Reply

-----------------------------------------------------------------------------
(* Theorems *)

\* In every behaviour of tasks, requests and answers: what was asked for is
\* cached, failed or on its way, and an undisturbed task has its own answers.
THEOREM InvHolds == Spec => []Inv
BY InitInv, NextKeepsInv, PTL DEF Spec

\* Caches, marks and requests are well typed, whatever the callbacks read.
THEOREM Typing == Spec => []TypeOK
<1>1. Inv => TypeOK
  BY DEF Inv
<1> QED BY <1>1, InvHolds, PTL

\* A mark is only deleted for a value in the cache (fetch.ts, fetchMissingData).
THEOREM MarksAreAccountedFor == Spec => []MarkedIsAccountedFor
<1>1. Inv => MarkedIsAccountedFor
  BY DEF Inv
<1> QED BY <1>1, InvHolds, PTL

\* The final run never fails for a value that was asked for and whose request
\* did not fail, however many transactions share the caches.
THEOREM AskedIsThere == Spec => []FetchedIsThere
<1>1. Inv => FetchedIsThere
  <2> SUFFICES ASSUME Inv, NEW t \in Tasks, pc[t] = "final", failures[t] = {},
                      k[t] <= Len(reads[t])
               PROVE  cache[Read(t).key].at # 0
    BY DEF FetchedIsThere
  <2>1. k[t] \in DOMAIN reads[t]
    BY NextReadIsTyped DEF Inv
  <2>2. ~Requested(t, Read(t).key)
    BY DEF Inv, Requested, RequestsAreAwaited
  <2> QED BY <2>1, <2>2 DEF Inv, AskedFor, Asked, Read
<1> QED BY <1>1, InvHolds, PTL

\* A transaction that no other one overlaps is built from values that are not
\* older than itself.
THEOREM AloneIsFresh == Spec => []AloneReadsFresh
<1>1. Inv => AloneReadsFresh
  BY DEF Inv
<1> QED BY <1>1, InvHolds, PTL
-----------------------------------------------------------------------------
(* makeGraphqlRequest *)

RequestStates == {"unused", "inFlight", "backoff", "aborting", "body"} \cup Resolved \cup Rejected

RequestTyping ==
  /\ first \in Endpoints /\ first % 2 = 1
  /\ request \in [Endpoints -> RequestStates]
  /\ attempt \in [Endpoints -> Nat]
  /\ timers \subseteq Endpoints /\ served \subseteq Endpoints /\ foreign \in BOOLEAN
  /\ outcome \in {"pending", "data", "error", "timeout"}

\* A response that is being read comes from an endpoint that executed the query.
BodiesWereServed == \A u \in Endpoints : request[u] = "body" => u \in served

RequestInv == RequestTyping /\ BodiesWereServed /\ SomebodyWatches /\ OutcomeHasCause

\* Only the last pair can lack its second endpoint.
LEMMA PairOf ==
  ASSUME NEW n \in Endpoints
  PROVE  /\ n \in Pair(n) /\ Pair(n) \subseteq Endpoints
         /\ \A u \in Pair(n) : n <= u /\ u <= n + 1
         /\ Cardinality(Pair(n)) # 2 => n + 2 > Urls
<1> USE UrlAssumption DEF Endpoints, Pair
<1>1. CASE n + 1 <= Urls
  <2>1. Pair(n) = {n, n + 1}
    BY <1>1
  <2>2. IsFiniteSet({n}) /\ Cardinality({n}) = 1
    BY FS_Singleton
  <2>3. Cardinality({n} \cup {n + 1}) = 2
    <3>1. n + 1 \notin {n} /\ 1 + 1 = 2
      OBVIOUS
    <3>2. Cardinality({n} \cup {n + 1}) = Cardinality({n}) + 1
      <4>1. ASSUME NEW S, NEW x, IsFiniteSet(S), x \notin S
            PROVE  Cardinality(S \cup {x}) = Cardinality(S) + 1
        BY <4>1, FS_AddElement
      <4> QED BY <2>2, <3>1, <4>1
    <3> QED BY <2>2, <3>1, <3>2
  <2>4. {n} \cup {n + 1} = {n, n + 1}
    OBVIOUS
  <2> QED BY <2>1, <2>3, <2>4
<1>2. CASE n + 1 > Urls
  BY <1>2
<1> QED BY <1>1, <1>2

\* The pairs of two odd endpoints have no endpoint in common.
LEMMA OddPairs ==
  ASSUME NEW m \in Endpoints, NEW n \in Endpoints, m % 2 = 1, n % 2 = 1, m < n
  PROVE  m + 2 <= n /\ Pair(m) \cap Pair(n) = {}
<1>1. m + 2 <= n
  BY UrlAssumption DEF Endpoints
<1> QED BY <1>1, UrlAssumption DEF Endpoints, Pair

LEMMA InitRequestInv == InitRequest => RequestInv
<1> SUFFICES ASSUME InitRequest PROVE RequestInv
  OBVIOUS
<1> USE UrlAssumption DEF InitRequest
<1>1. 1 \in Endpoints /\ 1 \in Pair(1) /\ Pair(1) \subseteq Endpoints
  BY DEF Endpoints, Pair
<1>2. RequestTyping
  <2>1. request \in [Endpoints -> RequestStates] /\ attempt \in [Endpoints -> Nat]
    BY DEF Started, RequestStates
  <2>2. 1 % 2 = 1
    OBVIOUS
  <2> QED BY <1>1, <2>1, <2>2 DEF RequestTyping
<1>3. BodiesWereServed /\ SomebodyWatches
  BY <1>1 DEF BodiesWereServed, SomebodyWatches, Started
<1>4. OutcomeHasCause
  BY DEF OutcomeHasCause, Endpoints
<1> QED BY <1>2, <1>3, <1>4 DEF RequestInv

\* What the earlier pairs, and a call that timed out, owe their end to: nothing
\* that stays in the state "aborted" is ever disturbed.
LEMMA CausesStay ==
  ASSUME RequestInv, first' = first, served \subseteq served',
         \A u \in Endpoints : request[u] \in {"aborted", "data"} => request'[u] = request[u],
         outcome' \in {outcome, "error"}
  PROVE  OutcomeHasCause'
BY PairOf DEF RequestInv, RequestTyping, OutcomeHasCause

\* A request that settles badly loses the race for its pair, or changes nothing
\* for the pair that runs now but its timers.
LEMMA RejectKeepsInv ==
  ASSUME RequestInv, NEW u \in Endpoints, NEW how \in Rejected, Reject(u, how),
         request[u] \in {"inFlight", "aborting"}, UNCHANGED served
  PROVE  RequestInv'
<1> DEFINE decides == outcome = "pending" /\ u \in Pair(first)
           moves   == decides /\ TriesNext(u, how)
           settled == [request EXCEPT ![u] = how]
<1> USE UrlAssumption DEF RequestInv, Rejected
<1>1. /\ first \in Endpoints /\ first % 2 = 1
      /\ settled \in [Endpoints -> RequestStates]
      /\ settled[u] = how /\ \A v \in Endpoints : v # u => settled[v] = request[v]
  BY DEF RequestTyping, RequestStates
<1>2. moves => /\ request' = Started(settled, first + 2, "inFlight")
               /\ attempt' = Started(attempt, first + 2, 1)
               /\ timers' = Pair(first + 2) /\ foreign' = FALSE /\ first' = first + 2
  BY Zenon DEF Reject
<1>3. ~moves => /\ request' = settled /\ attempt' = attempt /\ first' = first /\ timers' = {}
                /\ foreign' = (foreign \/ u \notin Pair(first))
  BY Zenon DEF Reject, Clear
<1>4. outcome' = IF ~decides \/ moves THEN outcome
                 ELSE IF how = "aborted" THEN "timeout" ELSE "error"
  BY Zenon DEF Reject
<1> HIDE DEF settled
<1>5. CASE decides /\ TriesNext(u, how)
  <2>1. /\ request' = Started(settled, first + 2, "inFlight")
        /\ attempt' = Started(attempt, first + 2, 1)
        /\ timers' = Pair(first + 2) /\ foreign' = FALSE /\ first' = first + 2
        /\ outcome' = "pending" /\ how = "aborted" /\ first + 2 <= Urls
    BY <1>5, <1>2, <1>4 DEF TriesNext
  <2>2. first' \in Endpoints /\ first' % 2 = 1
    BY <1>1, <2>1 DEF Endpoints
  <2> HIDE DEF settled
  <2>3. RequestTyping'
    <3>1. request' \in [Endpoints -> RequestStates] /\ attempt' \in [Endpoints -> Nat]
      BY <1>1, <2>1 DEF RequestTyping, RequestStates, Started
    <3>2. timers' \subseteq Endpoints
      BY <2>1, <2>2, PairOf
    <3> QED BY <2>1, <2>2, <3>1, <3>2 DEF RequestTyping
  <2>4. BodiesWereServed'
    BY <1>1, <2>1 DEF BodiesWereServed, Started
  <2>5. SomebodyWatches'
    BY <2>1, <2>2, PairOf DEF SomebodyWatches
  <2>6. OutcomeHasCause'
    <3> SUFFICES ASSUME NEW n \in Endpoints, n % 2 = 1, n < first'
                 PROVE  \E v \in Pair(n) : request'[v] = "aborted"
      BY <2>1 DEF OutcomeHasCause
    <3>1. n < first \/ n = first
      BY <1>1, <2>1, <2>2, OddPairs DEF Endpoints
    <3>2. PICK v \in Pair(n) : settled[v] = "aborted"
      BY <1>1, <1>5, <2>1, <3>1, PairOf DEF OutcomeHasCause, RequestTyping
    <3>3. v \notin Pair(first') /\ v \in Endpoints
      BY <2>2, OddPairs, PairOf
    <3> QED BY <2>1, <3>2, <3>3 DEF Started
  <2> QED BY <2>3, <2>4, <2>5, <2>6
<1>6. CASE decides /\ ~TriesNext(u, how)
  <2>1. /\ request' = settled /\ UNCHANGED <<attempt, first>> /\ timers' = {}
        /\ foreign' = (foreign \/ u \notin Pair(first))
        /\ outcome' = IF how = "aborted" THEN "timeout" ELSE "error"
    BY <1>6, <1>3, <1>4
  <2> HIDE DEF settled
  <2>2. RequestTyping'
    BY <1>1, <2>1 DEF RequestTyping
  <2>3. BodiesWereServed' /\ SomebodyWatches'
    BY <1>1, <2>1 DEF BodiesWereServed, SomebodyWatches
  <2>4. how = "aborted" => first + 2 > Urls
    BY <1>1, <1>6, PairOf DEF TriesNext, Endpoints
  <2>5. OutcomeHasCause'
    BY <1>1, <1>6, <2>1, <2>4, PairOf DEF OutcomeHasCause, RequestTyping
  <2> QED BY <2>2, <2>3, <2>5
<1>7. CASE ~decides
  <2>1. /\ request' = settled /\ UNCHANGED <<attempt, first, outcome>> /\ timers' = {}
        /\ foreign' = (foreign \/ u \notin Pair(first))
    BY <1>7, <1>3, <1>4
  <2> HIDE DEF settled
  <2>2. RequestTyping'
    BY <1>1, <2>1 DEF RequestTyping
  <2>3. BodiesWereServed' /\ SomebodyWatches'
    BY <1>1, <1>7, <2>1 DEF BodiesWereServed, SomebodyWatches
  <2>4. OutcomeHasCause'
    BY <1>1, <2>1, CausesStay
  <2> QED BY <2>2, <2>3, <2>4
<1> QED BY <1>5, <1>6, <1>7

\* The server, the headers and the timers: nobody is left alone.
LEMMA WaitingKeepsInv ==
  ASSUME RequestInv, NEW u \in Endpoints, Serve(u) \/ Headers(u) \/ Fire(u) \/ Retry(u)
  PROVE  RequestInv'
<1> USE DEF RequestInv, RequestTyping, RequestStates
<1>1. CASE Serve(u)
  <2>1. RequestTyping' /\ BodiesWereServed' /\ SomebodyWatches'
    BY <1>1 DEF Serve, BodiesWereServed, SomebodyWatches
  <2>2. OutcomeHasCause'
    BY <1>1, CausesStay DEF Serve
  <2> QED BY <2>1, <2>2
<1>2. CASE Headers(u)
  <2>1. RequestTyping'
    BY <1>2 DEF Headers, Clear
  <2>2. BodiesWereServed' /\ SomebodyWatches'
    BY <1>2 DEF Headers, Clear, BodiesWereServed, SomebodyWatches
  <2>3. OutcomeHasCause'
    BY <1>2, CausesStay DEF Headers
  <2> QED BY <2>1, <2>2, <2>3
<1>3. CASE Fire(u)
  <2>1. RequestTyping' /\ BodiesWereServed' /\ SomebodyWatches'
    BY <1>3 DEF Fire, BodiesWereServed, SomebodyWatches
  <2>2. OutcomeHasCause'
    BY <1>3, CausesStay DEF Fire
  <2> QED BY <2>1, <2>2
<1>4. CASE Retry(u)
  <2>1. RequestTyping'
    BY <1>4 DEF Retry, Clear, TimersAtRetry
  <2>2. BodiesWereServed' /\ SomebodyWatches'
    BY <1>4 DEF Retry, Clear, TimersAtRetry, BodiesWereServed, SomebodyWatches
  <2>3. OutcomeHasCause'
    BY <1>4, CausesStay DEF Retry
  <2> QED BY <2>1, <2>2, <2>3
<1> QED BY <1>1, <1>2, <1>3, <1>4

\* A body that is read, or cannot be, decides the race of its own pair only.
LEMMA BodyKeepsInv ==
  ASSUME RequestInv, NEW u \in Endpoints, Body(u) \/ ErrorBody(u) \/ BodyFails(u)
  PROVE  RequestInv'
<1>1. PICK how \in {"data", "error", "failed"} :
        /\ request' = [request EXCEPT ![u] = how]
        /\ outcome' = IF outcome = "pending" /\ u \in Pair(first)
                      THEN (IF how = "data" THEN "data" ELSE "error") ELSE outcome
  BY DEF Body, ErrorBody, BodyFails, Resolve
<1>2. request[u] = "body" /\ UNCHANGED <<first, attempt, timers, served, foreign>>
  BY DEF Body, ErrorBody, BodyFails, Resolve
<1> USE DEF RequestInv
<1>3. RequestTyping'
  BY <1>1, <1>2 DEF RequestTyping, RequestStates, Resolved, Rejected
<1>4. BodiesWereServed' /\ SomebodyWatches'
  BY <1>1, <1>2, PairOf DEF RequestTyping, BodiesWereServed, SomebodyWatches
<1>5. CASE outcome' = "data" /\ outcome = "pending"
  <2>1. u \in Pair(first) /\ how = "data" /\ u \in served /\ request'[u] = "data"
    BY <1>1, <1>2, <1>5 DEF RequestTyping, BodiesWereServed
  <2>2. \A v \in Endpoints : request[v] = "aborted" => request'[v] = "aborted"
    BY <1>1, <1>2 DEF RequestTyping
  <2> QED BY <1>2, <1>3, <1>4, <1>5, <2>1, <2>2, PairOf DEF RequestTyping, OutcomeHasCause
<1>6. CASE ~(outcome' = "data" /\ outcome = "pending")
  BY <1>1, <1>2, <1>3, <1>4, <1>6, CausesStay DEF RequestTyping
<1> QED BY <1>5, <1>6

LEMMA NextRequestKeepsInv == RequestInv /\ [NextRequest]_requestVars => RequestInv'
<1> SUFFICES ASSUME RequestInv, [NextRequest]_requestVars PROVE RequestInv'
  OBVIOUS
<1>1. CASE UNCHANGED requestVars
  BY <1>1 DEF requestVars, RequestInv, RequestTyping, BodiesWereServed, SomebodyWatches,
              OutcomeHasCause
<1>2. ASSUME NEW u \in Endpoints, Step(u) PROVE RequestInv'
  <2>1. CASE Serve(u) \/ Headers(u) \/ Fire(u) \/ Retry(u)
    BY <2>1, WaitingKeepsInv
  <2>2. CASE Body(u) \/ ErrorBody(u) \/ BodyFails(u)
    BY <2>2, BodyKeepsInv
  <2>3. CASE Abort(u)
    BY <2>3, RejectKeepsInv DEF Abort, Rejected
  <2>4. CASE NetworkError(u)
    <3>1. CASE Reject(u, "failed")
      BY <2>4, <3>1, RejectKeepsInv DEF NetworkError, Rejected
    <3>2. CASE ~Reject(u, "failed")
      <4> USE <2>4, <3>2 DEF NetworkError, Clear, RequestInv
      <4>1. RequestTyping'
        BY DEF RequestTyping, RequestStates
      <4>2. BodiesWereServed' /\ SomebodyWatches'
        BY DEF RequestTyping, BodiesWereServed, SomebodyWatches
      <4>3. OutcomeHasCause'
        BY CausesStay DEF RequestTyping
      <4> QED BY <4>1, <4>2, <4>3
    <3> QED BY <3>1, <3>2
  <2> QED BY <1>2, <2>1, <2>2, <2>3, <2>4 DEF Step
<1> QED BY <1>1, <1>2 DEF NextRequest

\* One call over any number of endpoints: the odd pairs are raced in order, the
\* requests of a pair never leave the call alone, every end has its cause.
THEOREM RequestInvHolds == RequestSpec => []RequestInv
BY InitRequestInv, NextRequestKeepsInv, PTL DEF RequestSpec

\* However the two requests of a pair clear the timers of one another, one of
\* them is timed, about to end or about to be repeated (fetch.ts, clearTimeouts).
THEOREM PairIsWatched == RequestSpec => []SomebodyWatches
<1>1. RequestInv => SomebodyWatches
  BY DEF RequestInv
<1> QED BY <1>1, RequestInvHolds, PTL

\* Data was sent by an endpoint that executed the query, a timeout is reported
\* after the last pair only, and one request of every earlier pair was aborted.
THEOREM OutcomesHaveCauses == RequestSpec => []OutcomeHasCause
<1>1. RequestInv => OutcomeHasCause
  BY DEF RequestInv
<1> QED BY <1>1, RequestInvHolds, PTL

-----------------------------------------------------------------------------
(* The status of a transaction: the invariant *)

\* The transaction's block, and the blocks it ever was applied in, exist.
ChainSound ==
  /\ onChain # 0 /\ ~failed => onChain \in everOn
  /\ failed => onChain # 0

\* An answer that is on its way was true when it was given.
ReplySound ==
  /\ reply.kind = "success" => reply.height \in everOn
  /\ reply.kind = "success" => reply.height <= reply.tip /\ reply.tip <= tip

\* An answer that shows the transaction deep enough stays true: the chain has
\* only grown on top of it.
ReplySettled ==
  reply.kind = "success" /\ IsFinalized(reply) => onChain = reply.height /\ ~failed

\* The loop of waitForFinality is left when its attempts are over.
AttemptsLeft ==
  /\ phase \in {"finality", "finalitySleep"} => attempts < FinalityAttempts
  /\ phase \in {"checking", "sleeping"} => attempts <= MaxHeight + MaxAttempts

\* What was final is too deep to be reorganized.
FinalSettled == phase = "final" => onChain = result /\ ~failed /\ tip - onChain >= Settled

StatusInv ==
  /\ StatusTypeOK
  /\ ChainSound
  /\ ReplySound
  /\ ReplySettled
  /\ AttemptsLeft
  /\ FinalSettled
  /\ IncludedWasOnChain

\* The invariant holds when nothing was sent yet.
LEMMA InitStatusInv == InitStatus => StatusInv
<1> SUFFICES ASSUME InitStatus PROVE StatusInv
  OBVIOUS
<1> USE StatusAssumption DEF InitStatus, NoReply, Heights
<1>1. StatusTypeOK
  <2>1. reply \in [kind : {"none", "error", "missing", "success", "failure"},
                   height : 0..MaxHeight, tip : 0..MaxHeight]
    OBVIOUS
  <2>2. attempts \in 0..MaxHeight + MaxAttempts + FinalityAttempts
    OBVIOUS
  <2>3. tip \in Heights /\ onChain \in 0..tip /\ result \in 0..MaxHeight
    OBVIOUS
  <2>4. failed \in BOOLEAN /\ accepted \in BOOLEAN /\ everOn \subseteq Heights
    OBVIOUS
  <2>5. phase \in {"new", "sending", "sent", "refused", "pending", "checking", "sleeping",
                "included", "rejected", "finality", "finalitySleep", "final", "notFinal", "threw"}
    OBVIOUS
  <2> QED BY <2>1, <2>2, <2>3, <2>4, <2>5, Zenon DEF StatusTypeOK
<1>2. ChainSound /\ ReplySound /\ ReplySettled
  BY DEF ChainSound, ReplySound, ReplySettled
<1>3. AttemptsLeft /\ FinalSettled /\ IncludedWasOnChain
  BY DEF AttemptsLeft, FinalSettled, IncludedWasOnChain
<1> QED BY <1>1, <1>2, <1>3 DEF StatusInv

\* The steps of the network keep it: growth leaves the block of the transaction
\* alone, a reorganization reaches no block that is Settled deep.
LEMMA NetworkInv ==
  ASSUME StatusInv, NewBlock \/ Reorganize
  PROVE  StatusInv'
<1> USE StatusAssumption
    DEF StatusInv, StatusTypeOK, ChainSound, ReplySound, ReplySettled, AttemptsLeft, FinalSettled,
        IncludedWasOnChain, Heights, IsFinalized, Includes
<1>1. CASE NewBlock
  <2>1. StatusTypeOK'
    <3>1. tip' \in Heights /\ tip <= tip' BY <1>1 DEF NewBlock
    <3>2. onChain' \in 0..tip' BY <1>1, <3>1 DEF NewBlock
    <3>3. failed' \in BOOLEAN /\ everOn' \subseteq Heights BY <1>1, <3>1, <3>2 DEF NewBlock
    <3> QED BY <1>1, <3>1, <3>2, <3>3 DEF NewBlock
  <2>2. ChainSound' BY <1>1 DEF NewBlock
  <2>3. ReplySound' BY <1>1 DEF NewBlock
  <2>4. ReplySettled' BY <1>1 DEF NewBlock
  <2>5. AttemptsLeft' BY <1>1 DEF NewBlock
  <2>6. FinalSettled' BY <1>1 DEF NewBlock
  <2>7. IncludedWasOnChain' BY <1>1 DEF NewBlock
  <2> QED BY <2>1, <2>2, <2>3, <2>4, <2>5, <2>6, <2>7 DEF StatusInv
<1>2. CASE Reorganize
  <2>1. StatusTypeOK'
    <3>1. tip' \in Heights /\ tip <= tip' BY <1>2 DEF Reorganize
    <3>2. onChain' \in 0..tip' BY <1>2, <3>1 DEF Reorganize
    <3>3. failed' \in BOOLEAN /\ everOn' \subseteq Heights BY <1>2, <3>1, <3>2 DEF Reorganize
    <3> QED BY <1>2, <3>1, <3>2, <3>3 DEF Reorganize
  <2>2. ChainSound' BY <1>2 DEF Reorganize
  <2>3. ReplySound' BY <1>2 DEF Reorganize
  <2>4. ReplySettled' BY <1>2 DEF Reorganize
  <2>5. AttemptsLeft' BY <1>2 DEF Reorganize
  <2>6. FinalSettled' BY <1>2 DEF Reorganize
  <2>7. IncludedWasOnChain' BY <1>2 DEF Reorganize
  <2> QED BY <2>1, <2>2, <2>3, <2>4, <2>5, <2>6, <2>7 DEF StatusInv
<1> QED BY <1>1, <1>2

\* The node's answer shows the chain as it is.
LEMMA NodeAnswersInv ==
  ASSUME StatusInv, NodeAnswers
  PROVE  StatusInv'
BY StatusAssumption
   DEF StatusInv, StatusTypeOK, ChainSound, ReplySound, ReplySettled, AttemptsLeft, FinalSettled,
       IncludedWasOnChain, Heights, IsFinalized, NodeAnswers, BestChainShows, NoReply, chain

\* Handling an answer keeps it: the transaction is included, or final, in the
\* block the answer names.
LEMMA HandleInv ==
  ASSUME StatusInv, HandleStatus \/ HandleDepth
  PROVE  StatusInv'
<1> USE StatusAssumption
    DEF StatusInv, StatusTypeOK, ChainSound, ReplySound, ReplySettled, AttemptsLeft, FinalSettled,
        IncludedWasOnChain, Heights, IsFinalized, NoReply, chain
<1>1. CASE HandleStatus BY <1>1 DEF HandleStatus, AttemptsAreOver
<1>2. CASE HandleDepth BY <1>2 DEF HandleDepth
<1> QED BY <1>1, <1>2

\* The remaining steps of the client change neither the chain nor an answer.
LEMMA ClientInv ==
  ASSUME StatusInv,
         Send \/ Submitted \/ Hashed \/ Wait \/ PollAgain \/ WaitForFinality \/ CheckFinalityAgain
  PROVE  StatusInv'
<1> USE StatusAssumption
    DEF StatusInv, StatusTypeOK, ChainSound, ReplySound, ReplySettled, AttemptsLeft, FinalSettled,
        IncludedWasOnChain, Heights, IsFinalized, chain
<1>1. CASE Send BY <1>1 DEF Send
<1>2. CASE Submitted BY <1>2 DEF Submitted
<1>3. CASE Hashed BY <1>3 DEF Hashed
<1>4. CASE Wait BY <1>4 DEF Wait
<1>5. CASE PollAgain BY <1>5 DEF PollAgain
<1>6. CASE WaitForFinality BY <1>6 DEF WaitForFinality
<1>7. CASE CheckFinalityAgain BY <1>7 DEF CheckFinalityAgain
<1> QED BY <1>1, <1>2, <1>3, <1>4, <1>5, <1>6, <1>7

\* Every reachable state satisfies the invariant.
THEOREM StatusInvHolds == StatusSpec => []StatusInv
<1>1. StatusInv /\ [NextStatus]_statusVars => StatusInv'
  <2> SUFFICES ASSUME StatusInv, [NextStatus]_statusVars PROVE StatusInv'
    OBVIOUS
  <2>1. CASE UNCHANGED statusVars
    BY <2>1 DEF StatusInv, StatusTypeOK, ChainSound, ReplySound, ReplySettled, AttemptsLeft, FinalSettled,
                IncludedWasOnChain, IsFinalized, statusVars, chain
  <2>2. CASE NextStatus
    BY <2>2, NetworkInv, NodeAnswersInv, HandleInv, ClientInv DEF NextStatus, Client
  <2> QED BY <2>1, <2>2
<1> QED BY InitStatusInv, <1>1, PTL DEF StatusSpec

\* Type correctness: the attempts stay within their bounds.
THEOREM StatusTyping == StatusSpec => []StatusTypeOK
<1>1. StatusInv => StatusTypeOK BY DEF StatusInv
<1> QED BY StatusInvHolds, <1>1, PTL

\* 'included' is only reported with a block in which the transaction was
\* applied on the best chain.
THEOREM InclusionIsTrue == StatusSpec => []IncludedWasOnChain
<1>1. StatusInv => IncludedWasOnChain BY DEF StatusInv
<1> QED BY StatusInvHolds, <1>1, PTL

\* When waitForFinality resolves, the transaction keeps its block forever, on
\* every chain that never reorganizes blocks as deep as the threshold.
THEOREM FinalityIsTrue == StatusSpec => []FinalityIsFinal
<1>1. StatusInv => FinalityIsFinal BY DEF StatusInv, FinalSettled, FinalityIsFinal
<1> QED BY StatusInvHolds, <1>1, PTL
=============================================================================
