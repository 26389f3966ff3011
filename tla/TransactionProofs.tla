-------------------------- MODULE TransactionProofs --------------------------
(***************************************************************************)
(* Proofs about what a transaction is built from: the contexts it is built *)
(* in (CreateTransaction, ContextTasks), the layout of its account updates *)
(* (AccountUpdateLayout) and the token contracts that look at it           *)
(* (TokenForest).                                                          *)
(*                                                                         *)
(* However many calls of Mina.transaction() overlap, whatever fails in     *)
(* them and whatever their callbacks leave running, one transaction is     *)
(* built at a time, every method that ends takes one entry of each context *)
(* with it, and a layout receives what its own run or a stray pushes.      *)
(* However account updates and trees are arranged, the hash of the result  *)
(* is that of what is sent, and a token contract sees each update that may *)
(* use its token.                                                          *)
(***************************************************************************)
EXTENDS CreateTransaction, ContextTasks, TokenForest, InductionLemmas, FiniteSetTheorems

\* createTransaction is between enter and leave of t's transaction, or threw there.
Entering(t) == pc[t] \in {"callback", "notLeft"}

\* currentTransaction holds the one transaction that was entered and not left.
OneTransaction ==
  /\ \A t \in Tasks : Entering(t) => txStack = <<TxId(t)>>
  /\ txStack # <<>> => \E t \in Tasks : Entering(t)

\* No two calls of a task have a number in common, nor one that is given later.
CallsNumbered ==
  /\ \A call \in running : call.no <= methods[call.task]
  /\ \A c, d \in running : c.task = d.task /\ c.no = d.no => c = d

OnMemoization == {call \in running : call.kind \in OnMemo}

\* Whoever's they are, there are as many entries on the contexts of the methods
\* as calls that have not left them.
EntriesCounted ==
  /\ IsFiniteSet(running)
  /\ Len(scStack) = Cardinality(running) + 1 /\ scStack[1] = Bottom
  /\ Len(memoStack) = Cardinality(OnMemoization)

RunOf(call) == <<call.task, call.run>>

\* A method runs for the run that is inside its callback, or is a stray ...
CallsBelong ==
  \A call \in running :
    RunOf(call) \in strays \/ (pc[call.task] = "callback" /\ runNo[call.task] = call.run)

\* ... which only a careless callback leaves behind.
StraysAreCareless == \A r \in strays : r[1] \in Careless

OwnEntries ==
  strays = {} =>
    \A k \in 2..Len(scStack) :
      Has(txStack) /\ <<scStack[k][1], scStack[k][2]>> = Current(txStack)

\* The entries of a stack above the first o are those of the calls, by number.
Mirrors(stck, o, C) ==
  /\ \A k \in (o + 1)..Len(stck) : \E c \in C : stck[k] = Id(c)
  /\ \A c \in C : \E k \in (o + 1)..Len(stck) : stck[k] = Id(c)
  /\ \A j, k \in (o + 1)..Len(stck) : j < k => stck[j][3] < stck[k][3]

\* With careful callbacks the contexts are the call stack of the one callback.
StacksMirrorCalls ==
  Careless = {} => Mirrors(scStack, 1, running) /\ Mirrors(memoStack, 0, OnMemoization)

Inv ==
  /\ TypeOK
  /\ OneTransaction
  /\ CallsNumbered
  /\ EntriesCounted
  /\ CallsBelong
  /\ StraysAreCareless
  /\ OwnEntries
  /\ StacksMirrorCalls
  /\ OwnLayout

-----------------------------------------------------------------------------

\* A stack of length 0 is empty, one of length 1 is its first entry.
LEMMA ShortSeqs ==
  ASSUME NEW S, NEW s \in Seq(S)
  PROVE  /\ Len(s) = 0 => s = <<>>
         /\ Len(s) = 1 => s = <<s[1]>>
<1>1. ASSUME Len(s) = 0 PROVE s = <<>>
  BY <1>1, EmptySeq
<1>2. ASSUME Len(s) = 1 PROVE s = <<s[1]>>
  <2>1. s[1] \in S
    BY <1>2, ElementOfSeq
  <2>2. <<s[1]>> \in Seq(S) /\ Len(<<s[1]>>) = 1
    BY <2>1
  <2> QED BY <1>2, <2>1, <2>2, SeqEqual
<1> QED BY <1>1, <1>2

\* What a push does to a stack.
LEMMA PushProps ==
  ASSUME NEW S, NEW s \in Seq(S), NEW e \in S
  PROVE  /\ Append(s, e) \in Seq(S) /\ Len(Append(s, e)) = Len(s) + 1
         /\ \A k \in 1..Len(s) : Append(s, e)[k] = s[k]
         /\ Append(s, e)[Len(s) + 1] = e
  OBVIOUS

\* What popping a stack that is not empty does.
LEMMA PopProps ==
  ASSUME NEW S, NEW s \in Seq(S), Len(s) >= 1
  PROVE  /\ SubSeq(s, 1, Len(s) - 1) \in Seq(S)
         /\ Len(SubSeq(s, 1, Len(s) - 1)) = Len(s) - 1
         /\ \A k \in 1..(Len(s) - 1) : SubSeq(s, 1, Len(s) - 1)[k] = s[k]
<1>1. Len(s) \in Nat /\ DOMAIN s = 1..Len(s)
  BY LenProperties
<1>2. \A k \in 1..(Len(s) - 1) : s[k] \in S
  BY <1>1, ElementOfSeq
<1>3. Len(s) - 1 \in Int
  BY <1>1
<1>4. /\ SubSeq(s, 1, Len(s) - 1) \in Seq(S)
      /\ Len(SubSeq(s, 1, Len(s) - 1)) = IF 1 <= Len(s) - 1 THEN Len(s) - 1 - 1 + 1 ELSE 0
      /\ \A k \in 1..(Len(s) - 1 - 1 + 1) : SubSeq(s, 1, Len(s) - 1)[k] = s[1 + k - 1]
  BY <1>2, <1>3, SubSeqProperties
<1> QED BY <1>1, <1>4

\* leave keeps what it does not pop.
LEMMA LeftTyping ==
  ASSUME NEW S, NEW s \in Seq(S), NEW e
  PROVE  Left(s, e) \in Seq(S)
<1>1. CASE s = <<>>
  BY <1>1 DEF Left
<1>2. CASE s # <<>>
  BY <1>2, EmptySeq, PopProps DEF Left
<1> QED BY <1>1, <1>2


\* A transaction that is entered is one run of one task, and the only one.
LEMMA WhileEntering ==
  ASSUME TypeOK, OneTransaction, NEW t \in Tasks, Entering(t)
  PROVE  /\ txStack = <<TxId(t)>> /\ Has(txStack) /\ Current(txStack) = TxId(t)
         /\ TxId(t) \in Runs /\ runNo[t] \in {0, 1}
         /\ \A u \in Tasks \ {t} : ~Entering(u)
<1>1. txStack = <<TxId(t)>>
  BY DEF OneTransaction
<1>2. Has(txStack) /\ Current(txStack) = TxId(t)
  BY <1>1 DEF Has, Current
<1>3. TxId(t) \in Runs
  <2>1. txStack \in Seq(Runs) /\ Len(txStack) = 1 /\ txStack[1] = TxId(t)
    BY <1>1 DEF TypeOK
  <2> QED BY <2>1, ElementOfSeq
<1>4. runNo[t] \in {0, 1}
  BY <1>3 DEF Runs, TxId
<1>5. ASSUME NEW u \in Tasks \ {t}, Entering(u) PROVE FALSE
  <2>1. <<TxId(t)>> = <<TxId(u)>>
    BY <1>1, <1>5 DEF OneTransaction
  <2>2. TxId(t) = TxId(u)
    BY <2>1
  <2> QED BY <2>2 DEF TxId
<1> QED BY <1>1, <1>2, <1>3, <1>4, <1>5

-----------------------------------------------------------------------------
(* Stacks that mirror calls *)

\* The last call is on top of the stack.
LEMMA MirrorTop ==
  ASSUME NEW stck \in Seq(CallIds \cup {Bottom}), NEW o \in {0, 1}, NEW C \in SUBSET Call,
         Mirrors(stck, o, C),
         NEW c \in C, \A d \in C : d.no <= c.no
  PROVE  Len(stck) \in Nat /\ Len(stck) > o /\ stck[Len(stck)] = Id(c)
<1>1. Len(stck) \in Nat
  OBVIOUS
<1>2. PICK k \in (o + 1)..Len(stck) : stck[k] = Id(c)
  BY DEF Mirrors
<1>3. PICK d \in C : stck[Len(stck)] = Id(d)
  BY <1>1, <1>2 DEF Mirrors
<1>4. \A e \in C : Id(e)[3] = e.no /\ e.no \in Nat
  BY DEF Id, Call
<1>5. k = Len(stck)
  <2> SUFFICES ASSUME k < Len(stck) PROVE FALSE
    BY <1>1, <1>2
  <2>1. stck[k][3] < stck[Len(stck)][3]
    <3>1. Len(stck) \in (o + 1)..Len(stck)
      BY <1>1, <1>2
    <3>2. \A i, j \in (o + 1)..Len(stck) : i < j => stck[i][3] < stck[j][3]
      BY DEF Mirrors
    <3> QED BY <3>1, <3>2, <1>2
  <2>2. c.no < d.no /\ d.no <= c.no
    BY <2>1, <1>2, <1>3, <1>4
  <2> QED BY <2>2, <1>4
<1> QED BY <1>1, <1>2, <1>5

\* A later call goes on top ...
LEMMA MirrorPush ==
  ASSUME NEW stck \in Seq(CallIds \cup {Bottom}), NEW o \in {0, 1}, NEW C \in SUBSET Call,
         Len(stck) >= o, Mirrors(stck, o, C),
         NEW c \in Call, \A d \in C : d.no < c.no
  PROVE  Mirrors(Append(stck, Id(c)), o, C \cup {c})
<1> DEFINE s2 == Append(stck, Id(c))
<1>1. Id(c) \in CallIds \cup {Bottom}
  BY DEF Id, Call, CallIds
<1>2. /\ Len(stck) \in Nat /\ Len(s2) = Len(stck) + 1 /\ s2[Len(stck) + 1] = Id(c)
      /\ \A k \in 1..Len(stck) : s2[k] = stck[k]
  BY <1>1, PushProps
<1> HIDE DEF s2
<1>3. \A e \in C \cup {c} : Id(e)[3] = e.no /\ e.no \in Nat
  BY DEF Id, Call
<1>4. \A k \in (o + 1)..Len(s2) : k = Len(stck) + 1 \/ (k \in (o + 1)..Len(stck) /\ k \in 1..Len(stck))
  BY <1>2
<1>5. \A k \in (o + 1)..Len(s2) : \E e \in C \cup {c} : s2[k] = Id(e)
  BY <1>2, <1>4 DEF Mirrors
<1>6. \A e \in C \cup {c} : \E k \in (o + 1)..Len(s2) : s2[k] = Id(e)
  <2> SUFFICES ASSUME NEW e \in C \cup {c} PROVE \E k \in (o + 1)..Len(s2) : s2[k] = Id(e)
    OBVIOUS
  <2>1. CASE e = c
    <3>1. Len(stck) + 1 \in (o + 1)..Len(s2)
      BY <1>2
    <3> QED BY <2>1, <3>1, <1>2
  <2>2. CASE e \in C
    <3>1. PICK k \in (o + 1)..Len(stck) : stck[k] = Id(e)
      BY <2>2 DEF Mirrors
    <3>2. k \in (o + 1)..Len(s2) /\ s2[k] = stck[k]
      BY <3>1, <1>2
    <3> QED BY <3>1, <3>2
  <2> QED BY <2>1, <2>2
<1>7. ASSUME NEW j \in (o + 1)..Len(s2), NEW k \in (o + 1)..Len(s2), j < k
      PROVE  s2[j][3] < s2[k][3]
  <2>1. j \in (o + 1)..Len(stck) /\ s2[j] = stck[j]
    BY <1>2, <1>7
  <2>2. CASE k \in (o + 1)..Len(stck)
    <3>1. s2[k] = stck[k]
      BY <2>2, <1>2
    <3>2. stck[j][3] < stck[k][3]
      BY <2>1, <2>2, <1>7 DEF Mirrors
    <3> QED BY <2>1, <3>1, <3>2
  <2>3. CASE k = Len(stck) + 1
    <3>1. PICK d \in C : stck[j] = Id(d)
      BY <2>1 DEF Mirrors
    <3> QED BY <2>1, <2>3, <3>1, <1>2, <1>3
  <2> QED BY <2>2, <2>3, <1>4
<1>8. Mirrors(s2, o, C \cup {c})
  BY <1>5, <1>6, <1>7 DEF Mirrors
<1> QED BY <1>8 DEF s2

\* ... and the last one is what leave takes away.
LEMMA MirrorPop ==
  ASSUME NEW stck \in Seq(CallIds \cup {Bottom}), NEW o \in {0, 1}, NEW C \in SUBSET Call,
         Mirrors(stck, o, C),
         NEW c \in C, \A d \in C : d.no <= c.no,
         \A d \in C : d.no = c.no => d = c
  PROVE  Mirrors(Left(stck, Id(c)), o, C \ {c})
<1> DEFINE s2 == Left(stck, Id(c))
<1>1. Len(stck) \in Nat /\ Len(stck) > o /\ stck[Len(stck)] = Id(c)
  BY MirrorTop
<1>2. Len(s2) = Len(stck) - 1 /\ \A k \in 1..(Len(stck) - 1) : s2[k] = stck[k]
  <2>1. stck # <<>> /\ Len(stck) >= 1
    BY <1>1
  <2> QED BY <2>1, PopProps DEF Left
<1> HIDE DEF s2
<1>3. \A e \in C : Id(e)[3] = e.no /\ e.no \in Nat
  BY DEF Id, Call
<1>4. \A k \in (o + 1)..Len(s2) : /\ k \in (o + 1)..Len(stck) /\ k < Len(stck)
                                  /\ s2[k] = stck[k]
  BY <1>1, <1>2
<1>5. ASSUME NEW k \in (o + 1)..Len(s2) PROVE \E e \in C \ {c} : s2[k] = Id(e)
  <2>1. PICK e \in C : stck[k] = Id(e)
    BY <1>4 DEF Mirrors
  <2>2. stck[k][3] < stck[Len(stck)][3]
    <3>1. Len(stck) \in (o + 1)..Len(stck)
      BY <1>1
    <3>2. \A i, j \in (o + 1)..Len(stck) : i < j => stck[i][3] < stck[j][3]
      BY DEF Mirrors
    <3> QED BY <3>1, <3>2, <1>4
  <2>3. e # c
    BY <2>1, <2>2, <1>1, <1>3
  <2> QED BY <2>1, <2>3, <1>4
<1>6. ASSUME NEW e \in C \ {c} PROVE \E k \in (o + 1)..Len(s2) : s2[k] = Id(e)
  <2>1. PICK k \in (o + 1)..Len(stck) : stck[k] = Id(e)
    BY DEF Mirrors
  <2>2. Id(e) # Id(c)
    BY <1>3
  <2>3. k # Len(stck)
    BY <2>1, <2>2, <1>1
  <2>4. k \in (o + 1)..Len(s2)
    BY <2>3, <1>1, <1>2
  <2> QED BY <2>1, <2>4, <1>4
<1>7. \A j, k \in (o + 1)..Len(s2) : j < k => s2[j][3] < s2[k][3]
  BY <1>4 DEF Mirrors
<1>8. Mirrors(s2, o, C \ {c})
  BY <1>5, <1>6, <1>7 DEF Mirrors
<1> QED BY <1>8 DEF s2

\* Only the ids of the calls matter.
LEMMA MirrorSame ==
  ASSUME NEW stck, NEW o, NEW C, NEW D, Mirrors(stck, o, C),
         \A c \in C : \E d \in D : Id(d) = Id(c),
         \A d \in D : \E c \in C : Id(d) = Id(c)
  PROVE  Mirrors(stck, o, D)
<1>1. \A k \in (o + 1)..Len(stck) : \E d \in D : stck[k] = Id(d)
  <2> SUFFICES ASSUME NEW k \in (o + 1)..Len(stck) PROVE \E d \in D : stck[k] = Id(d)
    OBVIOUS
  <2>1. PICK c \in C : stck[k] = Id(c)
    BY Zenon DEF Mirrors
  <2> QED BY <2>1, Zenon
<1>2. \A d \in D : \E k \in (o + 1)..Len(stck) : stck[k] = Id(d)
  <2> SUFFICES ASSUME NEW d \in D PROVE \E k \in (o + 1)..Len(stck) : stck[k] = Id(d)
    OBVIOUS
  <2>1. PICK c \in C : Id(d) = Id(c)
    OBVIOUS
  <2>2. PICK k \in (o + 1)..Len(stck) : stck[k] = Id(c)
    BY Zenon DEF Mirrors
  <2> QED BY <2>1, <2>2, Zenon
<1> QED BY <1>1, <1>2, Zenon DEF Mirrors

\* When all callbacks are careful, the methods that run are those of one callback.
LEMMA CarefulCalls ==
  ASSUME Inv, Careless = {}, NEW c \in running, NEW d \in running
  PROVE  c.task = d.task
<1>1. strays = {}
  BY DEF Inv, StraysAreCareless
<1>2. /\ c.task \in Tasks /\ d.task \in Tasks
      /\ pc[c.task] = "callback" /\ pc[d.task] = "callback"
  BY <1>1 DEF Inv, TypeOK, Call, CallsBelong
<1>3. Entering(c.task) /\ Entering(d.task)
  BY <1>2 DEF Entering
<1> QED BY <1>2, <1>3, WhileEntering DEF Inv

-----------------------------------------------------------------------------
(* The steps *)

LEMMA InitInv == Init => Inv
<1> SUFFICES ASSUME Init PROVE Inv
  OBVIOUS
<1>1. TypeOK
  <2>1. Bottom \in CallIds \cup {Bottom}
    OBVIOUS
  <2>2. scStack \in Seq(CallIds \cup {Bottom})
    BY <2>1 DEF Init
  <2>3. methods \in [Tasks -> 0..MaxMethods]
    BY ConstantsAssumption DEF Init
  <2> QED BY <2>2, <2>3 DEF Init, TypeOK
<1>2. OneTransaction
  BY DEF Init, OneTransaction, Entering
<1>3. CallsNumbered /\ CallsBelong /\ StraysAreCareless
  BY DEF Init, CallsNumbered, CallsBelong, StraysAreCareless
<1>4. Len(scStack) = 1 /\ scStack[1] = Bottom /\ Len(memoStack) = 0
  BY DEF Init
<1>5. EntriesCounted
  <2>1. running = {} /\ OnMemoization = {}
    BY DEF Init, OnMemoization
  <2> QED BY <1>4, <2>1, FS_EmptySet DEF EntriesCounted
<1>6. OwnEntries
  BY <1>4 DEF OwnEntries
<1>7. StacksMirrorCalls
  <2>1. running = {} /\ OnMemoization = {}
    BY DEF Init, OnMemoization
  <2> QED BY <1>4, <2>1 DEF StacksMirrorCalls, Mirrors
<1>8. OwnLayout
  BY DEF Init, OwnLayout
<1> QED BY <1>1, <1>2, <1>3, <1>5, <1>6, <1>7, <1>8 DEF Inv

\* A step that leaves the calls and their contexts alone.
LEMMA CallsUntouched ==
  ASSUME Inv, UNCHANGED <<scStack, memoStack, callVars>>
  PROVE  CallsNumbered' /\ EntriesCounted' /\ StacksMirrorCalls'
BY DEF Inv, callVars, CallsNumbered, EntriesCounted, StacksMirrorCalls, OnMemoization, Mirrors, Id,
       Bottom

\* A run that is started, or refused.
LEMMA StartInv ==
  ASSUME Inv, NEW t \in Tasks, NEW run \in {0, 1}, pc[t] \in {"idle", "fetching"},
         StartRun(t, run)
  PROVE  Inv'
<1>0. /\ TypeOK /\ ~Entering(t)
      /\ pc[t] # "callback"
  BY DEF Inv, Entering
<1>1. CASE ~MayStart
  <2>1. /\ pc' = [pc EXCEPT ![t] = "failed"] /\ refusals' = refusals \cup {t}
        /\ UNCHANGED <<txStack, scStack, memoStack, callVars, runNo, layout, strays>>
    BY <1>1 DEF StartRun, Fails, contexts
  <2>2. UNCHANGED <<running, methods>>
    BY <2>1 DEF callVars
  <2>3. TypeOK'
    BY <1>0, <2>1, <2>2 DEF TypeOK
  <2>4. OneTransaction'
    BY <1>0, <2>1 DEF Inv, OneTransaction, Entering, TxId, TypeOK
  <2>5. CallsBelong'
    BY <1>0, <2>1, <2>2 DEF Inv, CallsBelong, RunOf, TypeOK, Call
  <2>6. StraysAreCareless' /\ OwnEntries' /\ OwnLayout'
    BY <2>1 DEF Inv, StraysAreCareless, OwnEntries, Has, Current, OwnLayout, TxId
  <2> QED BY <2>1, <2>3, <2>4, <2>5, <2>6, CallsUntouched DEF Inv
<1>2. CASE MayStart
  <2>1. /\ txStack = <<>> /\ txStack' = Append(<<>>, <<t, run>>)
        /\ runNo' = [runNo EXCEPT ![t] = run] /\ pc' = [pc EXCEPT ![t] = "callback"]
        /\ layout' = [layout EXCEPT ![t] = <<>>]
        /\ UNCHANGED <<scStack, memoStack, callVars, refusals, strays>>
    BY <1>2 DEF StartRun, MayStart, Has, Entered
  <2>2. UNCHANGED <<running, methods>>
    BY <2>1 DEF callVars
  <2>3. \A u \in Tasks : ~Entering(u)
    <3> SUFFICES ASSUME NEW u \in Tasks, Entering(u) PROVE FALSE
      OBVIOUS
    <3>1. txStack = <<TxId(u)>>
      BY DEF Inv, OneTransaction
    <3> QED BY <2>1, <3>1
  <2>4. TypeOK'
    <3>1. <<t, run>> \in Runs
      BY DEF Runs
    <3>2. txStack' \in Seq(Runs)
      BY <2>1, <3>1
    <3>3. layout' \in [Tasks -> Seq(Runs)]
      <4>1. <<>> \in Seq(Runs)
        BY EmptySeq
      <4> QED BY <1>0, <2>1, <4>1 DEF TypeOK
    <3>4. /\ runNo' \in [Tasks -> {-1, 0, 1}]
          /\ pc' \in [Tasks -> {"idle", "callback", "fetching", "built", "failed", "notLeft"}]
      BY <1>0, <2>1 DEF TypeOK
    <3> QED BY <1>0, <2>1, <2>2, <3>2, <3>3, <3>4 DEF TypeOK
  <2>5. OneTransaction'
    <3>1. TxId(t)' = <<t, run>> /\ txStack' = <<TxId(t)'>>
      BY <1>0, <2>1 DEF TxId, TypeOK
    <3>2. \A u \in Tasks : Entering(u)' <=> u = t
      BY <1>0, <2>1, <2>3 DEF Entering, TypeOK
    <3> QED BY <3>1, <3>2 DEF OneTransaction
  <2>6. CallsBelong'
    <3>1. \A u \in Tasks : pc[u] # "callback"
      BY <2>3 DEF Entering
    <3> QED BY <1>0, <2>1, <2>2, <3>1 DEF Inv, CallsBelong, RunOf, TypeOK, Call
  <2>7. StraysAreCareless'
    BY <2>1 DEF Inv, StraysAreCareless
  <2>8. OwnEntries'
    BY <2>1 DEF Inv, OwnEntries, Has
  <2>9. OwnLayout'
    <3>1. \A u \in Tasks : layout'[u] = IF u = t THEN <<>> ELSE layout[u]
      BY <1>0, <2>1 DEF TypeOK
    <3>2. \A u \in Tasks \ {t} : TxId(u)' = TxId(u)
      BY <1>0, <2>1 DEF TypeOK, TxId
    <3> QED BY <2>1, <3>1, <3>2 DEF Inv, OwnLayout
  <2> QED BY <2>1, <2>4, <2>5, <2>6, <2>7, <2>8, <2>9, CallsUntouched DEF Inv
<1> QED BY <1>1, <1>2

LEMMA FetchFailsInv ==
  ASSUME Inv, NEW t \in Tasks, FetchFails(t)
  PROVE  Inv'
<1>1. /\ pc' = [pc EXCEPT ![t] = "failed"] /\ pc[t] = "fetching" /\ TypeOK
      /\ UNCHANGED <<txStack, scStack, memoStack, callVars, runNo, layout, refusals, strays>>
  BY DEF FetchFails, Fails, contexts, Inv
<1>2. UNCHANGED <<running, methods>>
  BY <1>1 DEF callVars
<1>3. TypeOK'
  BY <1>1, <1>2 DEF TypeOK
<1>4. OneTransaction'
  BY <1>1 DEF Inv, OneTransaction, Entering, TxId, TypeOK
<1>5. CallsBelong'
  BY <1>1, <1>2 DEF Inv, CallsBelong, RunOf, TypeOK, Call
<1>6. StraysAreCareless' /\ OwnEntries' /\ OwnLayout'
  BY <1>1 DEF Inv, StraysAreCareless, OwnEntries, Has, Current, OwnLayout, TxId
<1> QED BY <1>1, <1>3, <1>4, <1>5, <1>6, CallsUntouched DEF Inv

\* A callback that ends, whatever it leaves running: its transaction is left, or
\* is stuck when the fee payer fails.
LEMMA CallbackEndsInv ==
  ASSUME Inv, NEW t \in Tasks, CallbackEnds(t),
         NEW next \in {"failed", "fetching", "built", "notLeft"},
         pc' = [pc EXCEPT ![t] = next],
         UNCHANGED <<scStack, memoStack, callVars, runNo, layout, refusals>>,
         IF next = "notLeft" THEN UNCHANGED txStack ELSE LeaveTransaction(t)
  PROVE  Inv'
<1>1. TypeOK /\ OneTransaction /\ Entering(t) /\ pc[t] = "callback"
  BY DEF Inv, CallbackEnds, Entering
<1>2. /\ txStack = <<TxId(t)>> /\ Has(txStack) /\ Current(txStack) = TxId(t)
      /\ TxId(t) \in Runs /\ runNo[t] \in {0, 1}
      /\ \A u \in Tasks \ {t} : ~Entering(u)
  BY <1>1, WhileEntering
<1>3. UNCHANGED <<running, methods>>
  BY DEF callVars
<1>4. /\ strays' = strays \cup {r \in {TxId(t)} : \E call \in MethodsOf(t) : call.run = runNo[t]}
      /\ t \in Careless \/ MethodsOf(t) = {}
  BY DEF CallbackEnds
<1>5. /\ \A u \in Tasks \ {t} : ~Entering(u)'
      /\ Entering(t)' <=> next = "notLeft"
  BY <1>1, <1>2 DEF Entering, TypeOK
<1>6. txStack' = IF next = "notLeft" THEN txStack ELSE <<>>
  <2>1. CASE next = "notLeft"
    BY <2>1
  <2>2. CASE next # "notLeft"
    <3>1. txStack \in Seq(Runs) /\ Len(txStack) = 1 /\ txStack # <<>>
      BY <1>1, <1>2 DEF TypeOK
    <3>2. txStack' = SubSeq(txStack, 1, Len(txStack) - 1)
      BY <2>2, <3>1 DEF LeaveTransaction, Left
    <3>3. txStack' \in Seq(Runs) /\ Len(txStack') = 0
      BY <3>1, <3>2, PopProps
    <3>4. txStack' = <<>>
      BY <3>3, ShortSeqs
    <3> QED BY <2>2, <3>4
  <2> QED BY <2>1, <2>2
<1>7. TypeOK'
  <2>1. strays' \subseteq Runs
    BY <1>1, <1>2, <1>4 DEF TypeOK
  <2>2. txStack' \in Seq(Runs)
    BY <1>1, <1>6, EmptySeq DEF TypeOK
  <2>3. pc' \in [Tasks -> {"idle", "callback", "fetching", "built", "failed", "notLeft"}]
    BY <1>1 DEF TypeOK
  <2> QED BY <1>1, <1>3, <2>1, <2>2, <2>3 DEF TypeOK
<1>8. OneTransaction'
  BY <1>2, <1>5, <1>6 DEF OneTransaction, TxId
<1>9. CallsBelong'
  <2> SUFFICES ASSUME NEW call \in running, RunOf(call) \notin strays'
               PROVE  pc'[call.task] = "callback" /\ runNo[call.task] = call.run
    BY <1>3 DEF CallsBelong, RunOf
  <2>1. call.task \in Tasks
    BY <1>1 DEF TypeOK, Call
  <2>2. RunOf(call) \notin strays
    BY <1>4
  <2>3. pc[call.task] = "callback" /\ runNo[call.task] = call.run
    BY <2>2 DEF Inv, CallsBelong
  <2>4. call.task # t
    <3> SUFFICES ASSUME call.task = t PROVE FALSE
      OBVIOUS
    <3>1. call \in MethodsOf(t) /\ call.run = runNo[t] /\ RunOf(call) = TxId(t)
      BY <2>3 DEF MethodsOf, RunOf, TxId
    <3> QED BY <1>4, <3>1
  <2> QED BY <1>1, <2>1, <2>3, <2>4 DEF TypeOK
<1>10. StraysAreCareless'
  BY <1>4 DEF Inv, StraysAreCareless, TxId
<1>11. OwnEntries'
  <2>0. 2..1 = {}
    OBVIOUS
  <2> SUFFICES ASSUME strays' = {} PROVE Len(scStack) = 1
    BY <2>0 DEF OwnEntries
  <2>1. strays = {}
    BY <1>4
  <2>2. running = {}
    <3> SUFFICES ASSUME NEW call \in running PROVE FALSE
      OBVIOUS
    <3>1. pc[call.task] = "callback" /\ runNo[call.task] = call.run /\ call.task \in Tasks
      BY <1>1, <2>1 DEF Inv, CallsBelong, TypeOK, Call
    <3>2. call.task = t
      BY <3>1, <1>2 DEF Entering
    <3>3. call \in MethodsOf(t) /\ call.run = runNo[t]
      BY <3>1, <3>2 DEF MethodsOf
    <3> QED BY <1>4, <3>3
  <2> QED BY <2>2, FS_EmptySet DEF Inv, EntriesCounted
<1>12. OwnLayout'
  <2>1. strays \subseteq strays'
    BY <1>4
  <2>2. \A u \in Tasks : TxId(u)' = TxId(u)
    BY DEF TxId
  <2> QED BY <2>1, <2>2 DEF Inv, OwnLayout
<1> QED BY <1>7, <1>8, <1>9, <1>10, <1>11, <1>12, CallsUntouched DEF Inv

\* A method that is called, by its callback or by code that this left behind.
LEMMA CallInv ==
  ASSUME Inv, NEW t \in Tasks, NEW run \in {0, 1}, CallMethod(t, run)
  PROVE  Inv'
<1> DEFINE no == methods[t] + 1
           call == [task |-> t, run |-> run, no |-> no, kind |-> KindOfCall]
<1>1. /\ TypeOK /\ RunsCode(t, run) /\ methods[t] \in Nat /\ methods[t] < MaxMethods
      /\ methods' = [methods EXCEPT ![t] = @ + 1]
      /\ running' = running \cup {call}
      /\ scStack' = Append(scStack, Id(call))
      /\ memoStack' = IF call.kind \in OnMemo THEN Append(memoStack, Id(call)) ELSE memoStack
      /\ strays' = strays \cup {r \in {<<t, run>>} : RunEnded(t, run)}
      /\ UNCHANGED <<txStack, pc, runNo, layout, refusals>>
  <2>1. methods[t] \in 0..MaxMethods
    BY DEF Inv, TypeOK
  <2> QED BY <2>1, ConstantsAssumption DEF Inv, CallMethod, Entered
<1>2. call \in Call /\ call.task = t /\ call.run = run /\ call.no = no
  <2>1. KindOfCall \in {"top", "inner", "returning", "outside"}
    BY DEF KindOfCall
  <2>2. no \in 1..MaxMethods
    BY <1>1, ConstantsAssumption
  <2> QED BY <2>1, <2>2 DEF Call
<1>3. Id(call) = <<t, run, no>> /\ Id(call) \in CallIds
  BY <1>2 DEF Id, Call, CallIds
<1>4. \A c \in running : c \in Call /\ (c.task = t => c.no < no)
  BY <1>1 DEF Inv, TypeOK, CallsNumbered, Call
<1>5. call \notin running
  BY <1>2, <1>4, <1>1
<1>6. no = methods[t] + 1
  OBVIOUS
<1> HIDE DEF call, no
<1>7. TypeOK'
  <2>1. scStack' \in Seq(CallIds \cup {Bottom})
    BY <1>1, <1>3, PushProps DEF TypeOK
  <2>2. memoStack' \in Seq(CallIds)
    BY <1>1, <1>3, PushProps DEF TypeOK
  <2>3. methods' \in [Tasks -> 0..MaxMethods]
    BY <1>1, ConstantsAssumption DEF TypeOK
  <2>4. running' \subseteq Call
    BY <1>1, <1>2 DEF TypeOK
  <2>5. strays' \subseteq Runs
    BY <1>1 DEF TypeOK, Runs
  <2> QED BY <1>1, <2>1, <2>2, <2>3, <2>4, <2>5 DEF TypeOK
<1>8. OneTransaction'
  BY <1>1 DEF Inv, OneTransaction, Entering, TxId
<1>9. CallsNumbered'
  <2>1. \A c \in running' : c.no <= methods'[c.task]
    <3> SUFFICES ASSUME NEW c \in running' PROVE c.no <= methods'[c.task]
      OBVIOUS
    <3>1. CASE c = call
      BY <3>1, <1>1, <1>2, <1>6 DEF TypeOK
    <3>2. CASE c \in running
      <4>1. c.task \in Tasks /\ c.no \in Nat /\ c.no <= methods[c.task]
        BY <3>2, <1>4 DEF Inv, CallsNumbered, Call
      <4>2. methods[c.task] \in Nat /\ methods'[c.task] \in {methods[c.task], methods[c.task] + 1}
        BY <4>1, <1>1 DEF TypeOK
      <4> QED BY <4>1, <4>2
    <3> QED BY <3>1, <3>2, <1>1
  <2>2. \A c, d \in running' : c.task = d.task /\ c.no = d.no => c = d
    <3> SUFFICES ASSUME NEW c \in running', NEW d \in running', c.task = d.task, c.no = d.no
                 PROVE  c = d
      OBVIOUS
    <3>1. CASE c \in running /\ d \in running
      BY <3>1 DEF Inv, CallsNumbered
    <3>2. CASE c = call /\ d = call
      BY <3>2
    <3>3. CASE c = call /\ d \in running
      BY <3>3, <1>2, <1>4 DEF Call
    <3>4. CASE c \in running /\ d = call
      BY <3>4, <1>2, <1>4 DEF Call
    <3> QED BY <3>1, <3>2, <3>3, <3>4, <1>1
  <2> QED BY <2>1, <2>2 DEF CallsNumbered
<1>10. OnMemoization' = IF call.kind \in OnMemo THEN OnMemoization \cup {call} ELSE OnMemoization
  BY <1>1 DEF OnMemoization
<1>11. Len(scStack) \in Nat /\ Len(memoStack) \in Nat /\ Len(scStack) >= 1
  <2>1. Cardinality(running) \in Nat
    BY FS_CardinalityType DEF Inv, EntriesCounted
  <2> QED BY <1>1, <2>1 DEF TypeOK, Inv, EntriesCounted
<1>12. /\ Len(scStack') = Len(scStack) + 1 /\ scStack'[Len(scStack) + 1] = Id(call)
       /\ \A k \in 1..Len(scStack) : scStack'[k] = scStack[k]
  BY <1>1, <1>3, PushProps DEF TypeOK
<1>13. EntriesCounted'
  <2>1. IsFiniteSet(running') /\ Cardinality(running') = Cardinality(running) + 1
    BY <1>1, <1>5, FS_AddElement DEF Inv, EntriesCounted
  <2>2. IsFiniteSet(OnMemoization) /\ call \notin OnMemoization
    BY <1>5, FS_Subset DEF Inv, EntriesCounted, OnMemoization
  <2>3. Len(memoStack') = Cardinality(OnMemoization')
    <3>1. CASE call.kind \in OnMemo
      <4>1. Len(memoStack') = Len(memoStack) + 1
        BY <1>1, <1>3, <3>1, PushProps DEF TypeOK
      <4>2. Cardinality(OnMemoization') = Cardinality(OnMemoization) + 1
        BY <3>1, <1>10, <2>2, FS_AddElement
      <4> QED BY <4>1, <4>2 DEF Inv, EntriesCounted
    <3>2. CASE call.kind \notin OnMemo
      BY <3>2, <1>1, <1>10 DEF Inv, EntriesCounted
    <3> QED BY <3>1, <3>2
  <2>4. scStack'[1] = Bottom' /\ Len(scStack') = Cardinality(running') + 1
    BY <2>1, <1>11, <1>12 DEF Inv, EntriesCounted, Bottom
  <2> QED BY <2>1, <2>3, <2>4 DEF EntriesCounted
<1>14. CallsBelong'
  <2> SUFFICES ASSUME NEW c \in running', RunOf(c) \notin strays'
               PROVE  pc[c.task] = "callback" /\ runNo[c.task] = c.run
    BY <1>1 DEF CallsBelong, RunOf
  <2>1. CASE c \in running
    BY <2>1, <1>1 DEF Inv, CallsBelong
  <2>2. CASE c = call
    <3>1. ~RunEnded(t, run)
      BY <2>2, <1>1, <1>2 DEF RunOf
    <3> QED BY <2>2, <3>1, <1>1, <1>2 DEF RunsCode
  <2> QED BY <2>1, <2>2, <1>1
<1>15. StraysAreCareless'
  <2>1. RunEnded(t, run) => t \in Careless
    BY <1>1 DEF RunsCode, RunEnded, TypeOK
  <2> QED BY <2>1, <1>1 DEF Inv, StraysAreCareless
<1>16. OwnEntries'
  <2> SUFFICES ASSUME strays' = {}, NEW k \in 2..Len(scStack')
               PROVE  Has(txStack) /\ <<scStack'[k][1], scStack'[k][2]>> = Current(txStack)
    BY <1>1 DEF OwnEntries, Has, Current
  <2>1. strays = {} /\ ~RunEnded(t, run)
    BY <1>1
  <2>2. CASE k \in 2..Len(scStack)
    BY <2>1, <2>2, <1>12 DEF Inv, OwnEntries
  <2>3. CASE k = Len(scStack) + 1
    <3>1. pc[t] = "callback" /\ run = runNo[t]
      BY <2>1, <1>1 DEF RunsCode
    <3>2. Has(txStack) /\ Current(txStack) = <<t, run>>
      BY <3>1, WhileEntering DEF Inv, Entering, TxId
    <3> QED BY <2>3, <3>2, <1>3, <1>12
  <2> QED BY <2>2, <2>3, <1>11, <1>12
<1>17. StacksMirrorCalls'
  <2> SUFFICES ASSUME Careless = {}
               PROVE  Mirrors(scStack', 1, running') /\ Mirrors(memoStack', 0, OnMemoization')
    BY DEF StacksMirrorCalls, Mirrors, Id
  <2>1. strays = {} /\ pc[t] = "callback"
    BY <1>1 DEF Inv, StraysAreCareless, RunsCode
  <2>2. \A c \in running : c.no < call.no
    <3> SUFFICES ASSUME NEW c \in running PROVE c.task = t
      BY <1>2, <1>4
    <3>1. pc[c.task] = "callback" /\ c.task \in Tasks
      BY <2>1, <1>4 DEF Inv, CallsBelong, Call
    <3> QED BY <2>1, <3>1, <1>1, WhileEntering DEF Inv, Entering
  <2>3. Mirrors(scStack', 1, running')
    BY <1>1, <1>2, <1>4, <1>11, <2>2, MirrorPush DEF Inv, TypeOK, StacksMirrorCalls
  <2>4. Mirrors(memoStack', 0, OnMemoization')
    <3>1. CASE call.kind \in OnMemo
      <4>1. memoStack \in Seq(CallIds \cup {Bottom})
        BY <1>1 DEF TypeOK
      <4>2. OnMemoization \in SUBSET Call /\ \A c \in OnMemoization : c.no < call.no
        BY <1>4, <2>2 DEF OnMemoization
      <4>3. Mirrors(memoStack, 0, OnMemoization)
        BY DEF Inv, StacksMirrorCalls
      <4>4. Mirrors(Append(memoStack, Id(call)), 0, OnMemoization \cup {call})
        BY <1>2, <1>11, <4>1, <4>2, <4>3, MirrorPush
      <4> QED BY <3>1, <4>4, <1>1, <1>10
    <3>2. CASE call.kind \notin OnMemo
      BY <3>2, <1>1, <1>10 DEF Inv, StacksMirrorCalls
    <3> QED BY <3>1, <3>2
  <2> QED BY <2>3, <2>4
<1>18. OwnLayout'
  BY <1>1 DEF Inv, OwnLayout, TxId
<1> QED BY <1>7, <1>8, <1>9, <1>13, <1>14, <1>15, <1>16, <1>17, <1>18 DEF Inv

\* An entry that is popped, whoever's it is.
LEMMA Popped ==
  ASSUME NEW S, NEW s \in Seq(S), NEW e, Len(s) >= 1
  PROVE  /\ Left(s, e) \in Seq(S) /\ Len(Left(s, e)) = Len(s) - 1 /\ Len(s) \in Nat
         /\ \A k \in 1..(Len(s) - 1) : Left(s, e)[k] = s[k]
<1>1. s # <<>> /\ Len(s) \in Nat
  BY LenProperties
<1> QED BY <1>1, PopProps DEF Left

\* What leaving the memoization context does to its count and its order, when
\* the calls on it are from then on those but one.
LEMMA MemoLeft ==
  ASSUME Inv, NEW call \in OnMemoization, MayEnd(call), LeaveMemo(call)
  PROVE  /\ memoStack' \in Seq(CallIds)
         /\ Len(memoStack') = Cardinality(OnMemoization \ {call})
         /\ Careless = {} => Mirrors(memoStack', 0, OnMemoization \ {call})
<1>1. call \in running /\ running \subseteq Call /\ OnMemoization \subseteq Call
  BY DEF OnMemoization, Inv, TypeOK
<1>2. /\ IsFiniteSet(OnMemoization)
      /\ Cardinality(OnMemoization \ {call}) = Cardinality(OnMemoization) - 1
      /\ Cardinality(OnMemoization) \in Nat /\ Cardinality(OnMemoization) >= 1
  <2>1. IsFiniteSet(OnMemoization) /\ IsFiniteSet(OnMemoization \ {call})
    BY FS_Subset DEF Inv, EntriesCounted, OnMemoization
  <2>2. Cardinality(OnMemoization \ {call}) = Cardinality(OnMemoization) - 1
    BY <2>1, FS_RemoveElement
  <2>3. Cardinality(OnMemoization) \in Nat /\ Cardinality(OnMemoization \ {call}) \in Nat
    BY <2>1, FS_CardinalityType
  <2> QED BY <2>1, <2>2, <2>3
<1>3. memoStack \in Seq(CallIds) /\ Len(memoStack) = Cardinality(OnMemoization)
  BY DEF Inv, TypeOK, EntriesCounted
<1>4. memoStack' = Left(memoStack, Id(call))
  BY DEF LeaveMemo
<1>5. memoStack' \in Seq(CallIds) /\ Len(memoStack') = Len(memoStack) - 1
  BY <1>2, <1>3, <1>4, Popped
<1>6. ASSUME Careless = {} PROVE Mirrors(memoStack', 0, OnMemoization \ {call})
  <2>1. \A d \in OnMemoization : /\ d.task = call.task /\ d.no <= call.no
                                 /\ d.no = call.no => d = call
    <3> SUFFICES ASSUME NEW d \in OnMemoization
                 PROVE  d.task = call.task /\ d.no <= call.no /\ (d.no = call.no => d = call)
      OBVIOUS
    <3>1. d \in running
      BY DEF OnMemoization
    <3>2. d.task = call.task
      BY <1>1, <1>6, <3>1, CarefulCalls
    <3>3. d.no <= call.no
      BY <1>6, <3>1, <3>2 DEF MayEnd, MethodsOf
    <3> QED BY <1>1, <3>1, <3>2, <3>3 DEF Inv, CallsNumbered
  <2>2. memoStack \in Seq(CallIds \cup {Bottom})
    BY <1>3
  <2>3. Mirrors(memoStack, 0, OnMemoization)
    BY <1>6 DEF Inv, StacksMirrorCalls
  <2> QED BY <1>1, <1>4, <2>1, <2>2, <2>3, MirrorPop
<1> QED BY <1>2, <1>3, <1>5, <1>6

\* A call that leaves smartContractContext, as its last step.
LEMMA CallLeavesInv ==
  ASSUME Inv, NEW call \in running, MayEnd(call),
         LeaveContract(call), running' = running \ {call},
         IF call.kind \in OnMemo THEN LeaveMemo(call) ELSE UNCHANGED memoStack,
         UNCHANGED <<txStack, methods, pc, runNo, refusals, strays>>,
         layout' \in [Tasks -> Seq(Runs)], OwnLayout'
  PROVE  Inv'
<1>1. TypeOK /\ running \subseteq Call /\ call \in Call
  BY DEF Inv, TypeOK
<1>2. /\ IsFiniteSet(running') /\ Cardinality(running') = Cardinality(running) - 1
      /\ Cardinality(running') \in Nat /\ Cardinality(running) \in Nat
  <2>1. IsFiniteSet(running) /\ IsFiniteSet(running')
    BY FS_RemoveElement DEF Inv, EntriesCounted
  <2> QED BY <2>1, FS_RemoveElement, FS_CardinalityType
<1>3. /\ scStack' \in Seq(CallIds \cup {Bottom}) /\ Len(scStack') = Cardinality(running') + 1
      /\ Len(scStack') = Len(scStack) - 1 /\ Len(scStack) \in Nat /\ Len(scStack) >= 2
      /\ \A k \in 1..(Len(scStack) - 1) : scStack'[k] = scStack[k]
  <2>1. Len(scStack) = Cardinality(running) + 1 /\ Len(scStack) >= 2
    BY <1>2 DEF Inv, EntriesCounted
  <2>2. scStack \in Seq(CallIds \cup {Bottom}) /\ scStack' = Left(scStack, Id(call))
    BY <1>1 DEF TypeOK, LeaveContract
  <2>3. Len(scStack) >= 1
    BY <1>2, <2>1
  <2>4. /\ scStack' \in Seq(CallIds \cup {Bottom}) /\ Len(scStack') = Len(scStack) - 1
        /\ Len(scStack) \in Nat /\ \A k \in 1..(Len(scStack) - 1) : scStack'[k] = scStack[k]
    BY <2>2, <2>3, Popped
  <2> QED BY <1>2, <2>1, <2>4
<1>4. OnMemoization' = OnMemoization \ {call}
  BY DEF OnMemoization
<1>5. call \notin OnMemoization => OnMemoization' = OnMemoization
  BY <1>4
<1>6. /\ memoStack' \in Seq(CallIds) /\ Len(memoStack') = Cardinality(OnMemoization')
      /\ Careless = {} => Mirrors(memoStack', 0, OnMemoization')
  <2>1. CASE call.kind \in OnMemo
    BY <2>1, <1>4, MemoLeft DEF OnMemoization
  <2>2. CASE call.kind \notin OnMemo
    BY <2>2, <1>5 DEF OnMemoization, Inv, TypeOK, EntriesCounted, StacksMirrorCalls
  <2> QED BY <2>1, <2>2
<1>7. TypeOK'
  BY <1>1, <1>3, <1>6 DEF TypeOK
<1>8. OneTransaction'
  BY DEF Inv, OneTransaction, Entering, TxId
<1>9. CallsNumbered' /\ CallsBelong' /\ StraysAreCareless'
  BY DEF Inv, CallsNumbered, CallsBelong, RunOf, StraysAreCareless
<1>10. EntriesCounted'
  <2>1. 1 \in 1..(Len(scStack) - 1)
    BY <1>3
  <2>2. scStack'[1] = Bottom'
    BY <1>3, <2>1 DEF Inv, EntriesCounted, Bottom
  <2> QED BY <1>2, <1>3, <1>6, <2>2 DEF EntriesCounted
<1>11. OwnEntries'
  <2> SUFFICES ASSUME strays' = {}, NEW k \in 2..Len(scStack')
               PROVE  Has(txStack) /\ <<scStack'[k][1], scStack'[k][2]>> = Current(txStack)
    BY DEF OwnEntries, Has, Current
  <2>1. k \in 2..Len(scStack) /\ k \in 1..(Len(scStack) - 1)
    BY <1>3
  <2>2. scStack'[k] = scStack[k]
    BY <1>3, <2>1
  <2> QED BY <2>1, <2>2 DEF Inv, OwnEntries
<1>12. StacksMirrorCalls'
  <2>1. ASSUME Careless = {} PROVE Mirrors(scStack', 1, running')
    <3>1. \A d \in running : d.no <= call.no /\ (d.no = call.no => d = call)
      <4> SUFFICES ASSUME NEW d \in running PROVE d.no <= call.no /\ (d.no = call.no => d = call)
        OBVIOUS
      <4>1. d.task = call.task
        BY <2>1, CarefulCalls
      <4>2. d.no <= call.no
        BY <2>1, <4>1 DEF MayEnd, MethodsOf
      <4> QED BY <4>1, <4>2 DEF Inv, CallsNumbered
    <3>2. Mirrors(scStack, 1, running) /\ scStack \in Seq(CallIds \cup {Bottom})
      BY <2>1, <1>1 DEF Inv, StacksMirrorCalls, TypeOK
    <3>3. Mirrors(Left(scStack, Id(call)), 1, running \ {call})
      BY <1>1, <3>1, <3>2, MirrorPop
    <3> QED BY <3>3 DEF LeaveContract
  <2>2. (Careless = {}) =>
          Mirrors(scStack', 1, running') /\ Mirrors(memoStack', 0, OnMemoization')
    BY <2>1, <1>6
  <2> QED BY <2>2 DEF StacksMirrorCalls, Mirrors, Id
<1> QED BY <1>7, <1>8, <1>9, <1>10, <1>11, <1>12 DEF Inv

\* An inner method whose body has ended is still on smartContractContext.
LEMMA InnerBodyEndsInv ==
  ASSUME Inv, NEW call \in running, InnerBodyEnds(call)
  PROVE  Inv'
<1> DEFINE back == [call EXCEPT !.kind = "returning"]
           rest == running \ {call}
<1>1. /\ TypeOK /\ running \subseteq Call /\ call \in Call /\ call.kind = "inner" /\ MayEnd(call)
      /\ LeaveMemo(call) /\ running' = rest \cup {back}
      /\ UNCHANGED <<txStack, scStack, methods, pc, runNo, layout, refusals, strays>>
  BY DEF Inv, TypeOK, InnerBodyEnds
<1>2. /\ back \in Call /\ back.task = call.task /\ back.run = call.run /\ back.no = call.no
      /\ back.kind = "returning" /\ Id(back) = Id(call)
  BY <1>1 DEF Call, Id
<1>3. back \notin rest
  <2> SUFFICES ASSUME back \in running, back # call PROVE FALSE
    OBVIOUS
  <2> QED BY <1>2 DEF Inv, CallsNumbered
<1>4. IsFiniteSet(running') /\ Cardinality(running') = Cardinality(running)
  <2>1. IsFiniteSet(running) /\ Cardinality(running) \in Nat
    BY FS_CardinalityType DEF Inv, EntriesCounted
  <2>2. IsFiniteSet(rest) /\ Cardinality(rest) = Cardinality(running) - 1
    BY <2>1, FS_RemoveElement
  <2> HIDE DEF rest, back
  <2>3. IsFiniteSet(running') /\ Cardinality(running') = Cardinality(rest) + 1
    BY <1>1, <1>3, <2>2, FS_AddElement
  <2> QED BY <2>1, <2>2, <2>3
<1>5. OnMemoization' = OnMemoization \ {call}
  BY <1>1, <1>2 DEF OnMemoization, OnMemo
<1>6. \A c \in running' : c = back \/ (c \in running /\ c # call)
  BY <1>1
<1>7. call \in OnMemoization
  BY <1>1 DEF OnMemoization, OnMemo
<1> HIDE DEF back, rest
<1>8. /\ memoStack' \in Seq(CallIds) /\ Len(memoStack') = Cardinality(OnMemoization')
      /\ Careless = {} => Mirrors(memoStack', 0, OnMemoization')
  BY <1>1, <1>5, <1>7, MemoLeft
<1>9. TypeOK'
  <2>1. running' \subseteq Call
    BY <1>1, <1>2, <1>6
  <2> QED BY <1>1, <1>8, <2>1 DEF TypeOK
<1>10. OneTransaction' /\ OwnLayout' /\ StraysAreCareless' /\ OwnEntries'
  BY <1>1 DEF Inv, OneTransaction, Entering, TxId, OwnLayout, StraysAreCareless, OwnEntries, Has,
              Current
<1>11. CallsNumbered'
  <2>1. \A c \in running' : c.no <= methods'[c.task]
    BY <1>1, <1>2, <1>6 DEF Inv, CallsNumbered
  <2>2. \A c, d \in running' : c.task = d.task /\ c.no = d.no => c = d
    BY <1>2, <1>6 DEF Inv, CallsNumbered
  <2> QED BY <2>1, <2>2 DEF CallsNumbered
<1>12. CallsBelong'
  BY <1>1, <1>2, <1>6 DEF Inv, CallsBelong, RunOf
<1>13. EntriesCounted'
  BY <1>1, <1>4, <1>8 DEF Inv, EntriesCounted, Bottom
<1>14. StacksMirrorCalls'
  <2>1. (Careless = {}) => Mirrors(scStack, 1, running')
    <3>1. \A c \in running : \E d \in running' : Id(d) = Id(c)
      BY <1>1, <1>2 DEF rest
    <3>2. \A d \in running' : \E c \in running : Id(d) = Id(c)
      BY <1>2, <1>6
    <3> QED BY <3>1, <3>2, MirrorSame DEF Inv, StacksMirrorCalls
  <2>2. (Careless = {}) =>
          Mirrors(scStack', 1, running') /\ Mirrors(memoStack', 0, OnMemoization')
    BY <1>1, <1>8, <2>1
  <2> QED BY <2>2 DEF StacksMirrorCalls, Mirrors, Id
<1> QED BY <1>9, <1>10, <1>11, <1>12, <1>13, <1>14 DEF Inv

\* A method pushes to the transaction that is current: the one it was called
\* for, unless it is a stray.
LEMMA MethodReturnsInv ==
  ASSUME Inv, NEW call \in running, MethodReturns(call)
  PROVE  Inv'
<1> DEFINE u == Current(txStack)[1]
           longer == Append(layout[u], RunOf(call))
<1>1. /\ call.kind = "top" /\ MayEnd(call) /\ Has(txStack) /\ call \in Call
      /\ layout' = [layout EXCEPT ![u] = longer]
      /\ UNCHANGED <<txStack, methods, pc, runNo, refusals, strays>>
  BY DEF MethodReturns, Inv, TypeOK, RunOf
<1>2. PICK t \in Tasks : Entering(t)
  BY <1>1 DEF Inv, OneTransaction, Has
<1>3. /\ Current(txStack) = TxId(t) /\ u = t
      /\ \A v \in Tasks \ {t} : ~Entering(v)
  <2>1. Current(txStack) = TxId(t) /\ \A v \in Tasks \ {t} : ~Entering(v)
    BY <1>2, WhileEntering DEF Inv
  <2>2. u = TxId(t)[1]
    BY <2>1
  <2>3. TxId(t)[1] = t
    BY DEF TxId
  <2> QED BY <2>1, <2>2, <2>3
<1>4. layout \in [Tasks -> Seq(Runs)] /\ RunOf(call) \in Runs
  BY <1>1 DEF Inv, TypeOK, Call, RunOf, Runs
<1>5. RunOf(call) \in {TxId(t)} \cup strays
  <2> SUFFICES ASSUME RunOf(call) \notin strays PROVE RunOf(call) = TxId(t)
    OBVIOUS
  <2>1. pc[call.task] = "callback" /\ runNo[call.task] = call.run /\ call.task \in Tasks
    BY <1>1 DEF Inv, CallsBelong, Call
  <2>2. call.task = t
    BY <2>1, <1>3 DEF Entering
  <2> QED BY <2>1, <2>2 DEF RunOf, TxId
<1>6. /\ layout[t] \in Seq(Runs) /\ longer \in Seq(Runs) /\ longer = Append(layout[t], RunOf(call))
      /\ \A k \in DOMAIN longer : (k \in DOMAIN layout[t] /\ longer[k] = layout[t][k])
                                  \/ longer[k] = RunOf(call)
  BY <1>3, <1>4, PushProps
<1> HIDE DEF u, longer
<1>7. layout' \in [Tasks -> Seq(Runs)]
  BY <1>1, <1>4, <1>6
<1>8. OwnLayout'
  <2> SUFFICES ASSUME NEW v \in Tasks, NEW k \in DOMAIN layout'[v]
               PROVE  layout'[v][k] \in {TxId(v)} \cup strays
    BY <1>1 DEF OwnLayout, TxId
  <2>1. CASE v = t
    <3>1. layout'[v] = longer
      BY <2>1, <1>1, <1>3, <1>4
    <3> QED BY <2>1, <3>1, <1>5, <1>6 DEF Inv, OwnLayout
  <2>2. CASE v # t
    <3>1. layout'[v] = layout[v]
      BY <2>2, <1>1, <1>3, <1>4
    <3> QED BY <3>1 DEF Inv, OwnLayout
  <2> QED BY <2>1, <2>2
<1>9. LeaveMemo(call) /\ LeaveContract(call) /\ running' = running \ {call}
      /\ call.kind \in OnMemo
  BY DEF MethodReturns, OnMemo
<1> QED BY <1>1, <1>7, <1>8, <1>9, CallLeavesInv

\* Every step of a method, awaited or not.
LEMMA CallStepInv ==
  ASSUME Inv, NEW call \in running, CallStep(call)
  PROVE  Inv'
<1>0. layout \in [Tasks -> Seq(Runs)]
  BY DEF Inv, TypeOK
<1>1. CASE MethodReturns(call)
  BY <1>1, MethodReturnsInv
<1>2. CASE MethodThrows(call)
  <2>1. OwnLayout'
    BY <1>2 DEF MethodThrows, Inv, OwnLayout, TxId
  <2> QED BY <1>0, <1>2, <2>1, CallLeavesInv DEF MethodThrows, OnMemo
<1>3. CASE InnerBodyEnds(call)
  BY <1>3, InnerBodyEndsInv
<1>4. CASE CallEnds(call)
  <2>1. OwnLayout'
    BY <1>4 DEF CallEnds, Inv, OwnLayout, TxId
  <2> QED BY <1>0, <1>4, <2>1, CallLeavesInv DEF CallEnds, OnMemo
<1> QED BY <1>1, <1>2, <1>3, <1>4 DEF CallStep

\* Every step of createTransaction.
LEMMA TaskStepInv ==
  ASSUME Inv, NEW t \in Tasks, TaskStep(t)
  PROVE  Inv'
<1>1. CASE Begin(t)
  BY <1>1, StartInv DEF Begin
<1>2. CASE FinalRun(t)
  BY <1>2, StartInv DEF FinalRun
<1>3. CASE FetchFails(t)
  BY <1>3, FetchFailsInv
<1>4. CASE \E run \in {0, 1} : CallMethod(t, run)
  BY <1>4, CallInv
<1>5. CASE CallbackThrows(t)
  BY <1>5, CallbackEndsInv DEF CallbackThrows, Fails
<1>6. CASE FeePayerThrows(t)
  BY <1>6, CallbackEndsInv DEF FeePayerThrows, contexts
<1>7. CASE RunBuilt(t)
  <2>1. PICK next \in {"failed", "fetching", "built"} : pc' = [pc EXCEPT ![t] = next]
    BY <1>7 DEF RunBuilt
  <2> QED BY <2>1, <1>7, CallbackEndsInv DEF RunBuilt
<1> QED BY <1>1, <1>2, <1>3, <1>4, <1>5, <1>6, <1>7 DEF TaskStep

LEMMA NextInv == Inv /\ [Next]_vars => Inv'
<1> SUFFICES ASSUME Inv, [Next]_vars PROVE Inv'
  OBVIOUS
<1>1. CASE Next
  BY <1>1, TaskStepInv, CallStepInv DEF Next
<1>2. CASE UNCHANGED vars
  <2>1. UNCHANGED <<txStack, scStack, memoStack, callVars, running, methods, pc, runNo, layout,
                    refusals, strays>>
    BY <1>2 DEF vars, contexts, callVars
  <2>2. TypeOK' /\ OneTransaction' /\ CallsBelong'
    BY <2>1 DEF Inv, TypeOK, OneTransaction, Entering, TxId, CallsBelong, RunOf
  <2>3. StraysAreCareless' /\ OwnEntries' /\ OwnLayout'
    BY <2>1 DEF Inv, StraysAreCareless, OwnEntries, Has, Current, OwnLayout, TxId
  <2> QED BY <2>1, <2>2, <2>3, CallsUntouched DEF Inv
<1> QED BY <1>1, <1>2

\* The invariant holds in every state of every program, for careful and careless
\* callbacks.
THEOREM InvHolds == Spec => []Inv
BY InitInv, NextInv, PTL DEF Spec

\* The state of createTransaction and of the global contexts is well typed.
THEOREM Typing == Spec => []TypeOK
<1>1. Inv => TypeOK
  BY DEF Inv
<1> QED BY <1>1, InvHolds, PTL

\* Transactions are never built inside one another; and while no callback has
\* left a method running, every entry of smartContractContext was made by the
\* run that is inside its callback, side by side or in turn.
THEOREM MethodsStayInTransaction == Spec => []MethodsBelongToTransaction
<1>1. Inv => MethodsBelongToTransaction
  <2> SUFFICES ASSUME Inv PROVE MethodsBelongToTransaction
    OBVIOUS
  <2>1. Len(txStack) <= 1
    <3>1. CASE txStack = <<>>
      BY <3>1
    <3>2. CASE txStack # <<>>
      <4>1. PICK t \in Tasks : txStack = <<TxId(t)>>
        BY <3>2 DEF Inv, OneTransaction
      <4> QED BY <4>1
    <3> QED BY <3>1, <3>2
  <2> QED BY <2>1 DEF Inv, OwnEntries, MethodsBelongToTransaction
<1> QED BY <1>1, InvHolds, PTL

\* What a method pushes goes to the transaction it was called for, however many
\* overlap, unless its callback ended before it.
THEOREM LayoutsAreOwn == Spec => []OwnLayout
<1>1. Inv => OwnLayout
  BY DEF Inv
<1> QED BY <1>1, InvHolds, PTL

\* Only a callback that does not await what it calls leaves a method behind: with
\* the theorem before, the layouts of all others hold what they pushed themselves
\* and what such a method pushed.
THEOREM StraysHaveCause == Spec => []StraysAreCareless
<1>1. Inv => StraysAreCareless
  BY DEF Inv
<1> QED BY <1>1, InvHolds, PTL

\* If all callbacks await their methods, leaving a method never meets the
\* 'inconsistent state' of the contexts.
THEOREM NoConflicts == Spec => []NoContextConflict
<1>1. Inv => NoContextConflict
  <2> SUFFICES ASSUME Inv, Careless = {}, NEW call \in running, MayEnd(call)
               PROVE  /\ ~LeaveThrows(scStack, Id(call))
                      /\ call.kind \in OnMemo => ~LeaveThrows(memoStack, Id(call))
    BY DEF NoContextConflict
  <2>1. \A d \in running : d.no <= call.no
    <3> SUFFICES ASSUME NEW d \in running PROVE d.no <= call.no
      OBVIOUS
    <3>1. d.task = call.task
      BY CarefulCalls
    <3> QED BY <3>1 DEF MayEnd, MethodsOf
  <2>2. /\ running \in SUBSET Call /\ OnMemoization \in SUBSET Call
        /\ scStack \in Seq(CallIds \cup {Bottom}) /\ memoStack \in Seq(CallIds \cup {Bottom})
    BY DEF Inv, TypeOK, OnMemoization
  <2>3. ~LeaveThrows(scStack, Id(call))
    <3>1. Len(scStack) \in Nat /\ Len(scStack) > 1 /\ scStack[Len(scStack)] = Id(call)
      BY <2>1, <2>2, MirrorTop DEF Inv, StacksMirrorCalls
    <3>2. scStack # <<>>
      BY <3>1
    <3> QED BY <3>1, <3>2 DEF LeaveThrows, Current
  <2>4. ASSUME call.kind \in OnMemo PROVE ~LeaveThrows(memoStack, Id(call))
    <3>1. call \in OnMemoization /\ \A d \in OnMemoization : d.no <= call.no
      BY <2>1, <2>4 DEF OnMemoization
    <3>2. Mirrors(memoStack, 0, OnMemoization)
      BY DEF Inv, StacksMirrorCalls
    <3>3. Len(memoStack) \in Nat /\ Len(memoStack) > 0 /\ memoStack[Len(memoStack)] = Id(call)
      BY <2>2, <3>1, <3>2, MirrorTop
    <3>4. memoStack # <<>>
      BY <3>3
    <3> QED BY <3>3, <3>4 DEF LeaveThrows, Current
  <2> QED BY <2>3, <2>4
<1> QED BY <1>1, InvHolds, PTL

\* When no transaction is being built and no method runs, the global contexts are
\* back to their defaults, unless a transaction failed on its fee payer.
THEOREM ContextsAreRestored == Spec => []ContextsRestored
<1>1. Inv => ContextsRestored
  <2> SUFFICES ASSUME Inv, \A t \in Tasks : ~Pending(t)
               PROVE  /\ (\A t \in Tasks : pc[t] # "notLeft") => txStack = <<>>
                      /\ running = {} => scStack = <<Bottom>> /\ memoStack = <<>>
    BY DEF ContextsRestored
  <2>1. (\A t \in Tasks : pc[t] # "notLeft") => txStack = <<>>
    BY DEF Inv, OneTransaction, Entering, Pending
  <2>2. ASSUME running = {} PROVE scStack = <<Bottom>> /\ memoStack = <<>>
    <3>1. OnMemoization = {}
      BY <2>2 DEF OnMemoization
    <3>2. Len(scStack) = 1 /\ scStack[1] = Bottom /\ Len(memoStack) = 0
      BY <2>2, <3>1, FS_EmptySet DEF Inv, EntriesCounted
    <3>3. scStack \in Seq(CallIds \cup {Bottom}) /\ memoStack \in Seq(CallIds)
      BY DEF Inv, TypeOK
    <3> QED BY <3>2, <3>3, ShortSeqs
  <2> QED BY <2>1, <2>2
<1> QED BY <1>1, InvHolds, PTL

\* A transaction is refused only while another one is being built or after one
\* failed on its fee payer.
THEOREM RefusalsHaveCause == Spec => RefusalHasCause
<1>1. Inv /\ [Next]_vars => [\A t \in refusals' \ refusals :
         \E u \in Tasks \ {t} : pc[u] \in {"callback", "notLeft"}]_vars
  <2> SUFFICES ASSUME Inv, Next, NEW v \in refusals' \ refusals
               PROVE  \E u \in Tasks \ {v} : pc[u] \in {"callback", "notLeft"}
    BY DEF vars, contexts
  <2>1. \A call \in running : ~CallStep(call)
    BY DEF CallStep, MethodReturns, MethodThrows, InnerBodyEnds, CallEnds
  <2>2. PICK t \in Tasks : TaskStep(t)
    BY <2>1 DEF Next
  <2>3. /\ refusals' = refusals \cup {t} /\ txStack # <<>>
        /\ pc[t] \in {"idle", "fetching"}
    BY <2>2 DEF TaskStep, Begin, FinalRun, StartRun, MayStart, Has, FetchFails, CallMethod,
                CallbackThrows, FeePayerThrows, RunBuilt
  <2>4. PICK u \in Tasks : Entering(u)
    BY <2>3 DEF Inv, OneTransaction
  <2> QED BY <2>3, <2>4 DEF Entering
<1> QED BY <1>1, InvHolds, PTL DEF Spec, RefusalHasCause
-----------------------------------------------------------------------------
(* ContextTasks: runWithAsync under tasks that interleave *)

\* A sequence, whatever its elements are
IsSeq(s) == \E T : s \in Seq(T)

\* The calls of runWithAsync that have entered and not left.
OpenCalls == {c \in Chains \X (1..MaxDepth) : c[2] <= Len(open[c[1]])}

CallsOK ==
  /\ IsSeq(stack) /\ DOMAIN open = Chains
  /\ \A t \in Chains : IsSeq(open[t]) /\ Len(open[t]) <= MaxDepth
  /\ \A t \in Chains : \A k \in 1..Len(open[t]) : open[t][k][1] = t

\* There are as many entries over the default one as there are open calls,
\* whoever entered them.
DefaultBelow ==
  /\ Len(stack) = Len(Default) + Cardinality(OpenCalls)
  /\ \A k \in 1..Len(Default) : stack[k] = Default[k]

ContextInv == CallsOK /\ DefaultBelow /\ NoSilentLoss

LEMMA AppendedIsSeq ==
  ASSUME NEW s, IsSeq(s), NEW e
  PROVE  /\ IsSeq(Append(s, e)) /\ Len(Append(s, e)) = Len(s) + 1 /\ Len(s) \in Nat
         /\ \A k \in 1..Len(s) : Append(s, e)[k] = s[k]
         /\ Append(s, e)[Len(s) + 1] = e
<1>1. PICK T : s \in Seq(T)
  BY DEF IsSeq
<1> DEFINE U == T \cup {e}
<1>2. s \in Seq(U) /\ e \in U
  BY <1>1
<1> HIDE DEF U
<1>3. /\ Append(s, e) \in Seq(U) /\ Len(Append(s, e)) = Len(s) + 1 /\ Len(s) \in Nat
      /\ \A k \in 1..Len(s) : Append(s, e)[k] = s[k]
      /\ Append(s, e)[Len(s) + 1] = e
  BY <1>2
<1> QED BY <1>3 DEF IsSeq

\* What is on top of a stack and what is below it.
LEMMA PoppedIsSeq ==
  ASSUME NEW s, IsSeq(s), s # <<>>
  PROVE  LET below == SubSeq(s, 1, Len(s) - 1) IN
         /\ Len(s) \in Nat \ {0} /\ IsSeq(below) /\ Len(below) = Len(s) - 1
         /\ \A k \in 1..Len(s) - 1 : below[k] = s[k]
         /\ s = Append(below, s[Len(s)])
<1>1. PICK T : s \in Seq(T)
  BY DEF IsSeq
<1> DEFINE below == SubSeq(s, 1, Len(s) - 1)
<1>2. Len(s) \in Nat /\ Len(s) >= 1
  BY <1>1, EmptySeq, LenProperties
<1>3. /\ below \in Seq(T) /\ Len(below) = Len(s) - 1
      /\ \A k \in 1..Len(s) - 1 : below[k] = s[k]
  BY <1>1, <1>2, PopProps
<1>4. s[Len(s)] \in T
  BY <1>1, <1>2
<1> HIDE DEF below
<1>5. s = Append(below, s[Len(s)])
  <2> DEFINE both == Append(below, s[Len(s)])
  <2>1. /\ both \in Seq(T) /\ Len(both) = Len(s)
        /\ \A k \in 1..Len(s) - 1 : both[k] = s[k]
        /\ both[Len(s)] = s[Len(s)]
    BY <1>2, <1>3, <1>4
  <2> HIDE DEF both
  <2>2. \A k \in 1..Len(s) : both[k] = s[k]
    BY <1>2, <2>1
  <2>3. s = both
    BY <1>1, <2>1, <2>2, SeqEqual
  <2> QED BY <2>3 DEF both
<1>6. IsSeq(below)
  BY <1>3 DEF IsSeq
<1> QED BY <1>2, <1>3, <1>5, <1>6 DEF below

\* What a task has on the stack: its entries.
Mine(t, s) == Selected({k \in DOMAIN s : s[k][1] = t}, s)

LEMMA MineSteps ==
  ASSUME NEW t, NEW s, IsSeq(s), NEW e
  PROVE  /\ Mine(t, <<>>) = <<>> /\ IsSeq(Mine(t, s))
         /\ Mine(t, Append(s, e)) = IF e[1] = t THEN Append(Mine(t, s), e) ELSE Mine(t, s)
<1>1. PICK T0 : s \in Seq(T0)
  BY DEF IsSeq
<1> DEFINE T == T0 \cup {e}
           At(q) == {k \in DOMAIN q : q[k][1] = t}
           more == Append(s, e)
<1>2. s \in Seq(T) /\ e \in T
  BY <1>1
<1> HIDE DEF T
<1>3. \A q : Mine(t, q) = Selected(At(q), q)
  BY DEF Mine
<1>4. \A q : At(q) \subseteq DOMAIN q /\ \A k \in DOMAIN q : k \in At(q) <=> q[k][1] = t
  OBVIOUS
<1> HIDE DEF At
<1>5. Mine(t, <<>>) = <<>> /\ IsSeq(Mine(t, s))
  <2>1. Selected(At(s), s) \in Seq(T) /\ Selected(At(<<>>), <<>>) = <<>>
    BY <1>2, SelectedSteps
  <2> QED BY <1>3, <2>1 DEF IsSeq
<1>6. /\ more \in Seq(T) /\ Len(more) = Len(s) + 1 /\ Len(s) \in Nat
      /\ DOMAIN more = 1..Len(s) + 1 /\ DOMAIN s = 1..Len(s)
      /\ \A k \in 1..Len(s) : more[k] = s[k]
      /\ more[Len(s) + 1] = e
  BY <1>2
<1>7. Selected(At(more), more)
        = IF Len(s) + 1 \in At(more) THEN Append(Selected(At(more), s), e)
          ELSE Selected(At(more), s)
  BY <1>2, SelectedSteps
<1> HIDE DEF more
<1>8. Selected(At(more), s) = Selected(At(s), s)
  <2>1. \A k \in 1..Len(s) : k \in At(more) <=> k \in At(s)
    BY <1>4, <1>6
  <2> QED BY <1>2, <2>1, SelectedAgrees
<1>9. Len(s) + 1 \in At(more) <=> e[1] = t
  BY <1>4, <1>6
<1> QED BY <1>3, <1>5, <1>7, <1>8, <1>9 DEF more

\* The default entry is no task's.
LEMMA OnlyDefaultIsNobodys ==
  ASSUME NEW t \in Chains
  PROVE  Mine(t, Default) = <<>>
<1>1. CASE Default = <<>>
  <2>1. IsSeq(<<>>)
    BY EmptySeq DEF IsSeq
  <2> QED BY <1>1, <2>1, MineSteps
<1>2. CASE Default = << <<"default", 0>> >>
  <2> DEFINE bottom == <<"default", 0>>
             none == <<>>
  <2>1. IsSeq(none)
    BY EmptySeq DEF IsSeq
  <2>2. bottom[1] # t
    BY ContextAssumption
  <2>3. Default = Append(none, bottom)
    BY <1>2
  <2> HIDE DEF bottom
  <2>4. Mine(t, none) = none
    BY <2>1, MineSteps DEF none
  <2> HIDE DEF none
  <2>5. Mine(t, Append(none, bottom))
          = IF bottom[1] = t THEN Append(Mine(t, none), bottom) ELSE Mine(t, none)
    BY <2>1, MineSteps
  <2> QED BY <2>2, <2>3, <2>4, <2>5 DEF none
<1> QED BY <1>1, <1>2, ContextAssumption

LEMMA SameBelow ==
  ASSUME NEW s, NEW r, IsSeq(s), IsSeq(r), NEW e, Append(s, e) = Append(r, e)
  PROVE  s = r
<1>1. PICK T : s \in Seq(T)
  BY DEF IsSeq
<1>2. PICK R : r \in Seq(R)
  BY DEF IsSeq
<1> DEFINE U == T \cup R \cup {e}
<1>3. s \in Seq(U) /\ r \in Seq(U) /\ e \in U
  BY <1>1, <1>2
<1> HIDE DEF U
<1> QED BY <1>3, AppendInjective

LEMMA OpenCallsFinite == IsFiniteSet(OpenCalls) /\ Cardinality(OpenCalls) \in Nat
<1>1. IsFiniteSet(Chains \X (1..MaxDepth))
  <2>1. IsFiniteSet(1..MaxDepth)
    BY ContextAssumption, FS_Interval
  <2> QED BY <2>1, ContextAssumption, FS_Product
<1>2. OpenCalls \subseteq Chains \X (1..MaxDepth)
  BY DEF OpenCalls
<1> QED BY <1>1, <1>2, FS_Subset, FS_CardinalityType

LEMMA InitContextInv == InitContext => ContextInv
<1> SUFFICES ASSUME InitContext PROVE ContextInv
  OBVIOUS
<1> USE DEF InitContext
<1>1. IsSeq(Default) /\ IsSeq(<<>>) /\ Len(Default) \in Nat
  <2>1. <<>> \in Seq({}) /\ << <<"default", 0>> >> \in Seq({<<"default", 0>>})
    OBVIOUS
  <2>2. \E T : Default \in Seq(T)
    BY <2>1, ContextAssumption
  <2> QED BY <2>1, <2>2, LenProperties DEF IsSeq
<1>2. CallsOK
  BY <1>1, ContextAssumption DEF CallsOK
<1>3. DefaultBelow
  <2>1. OpenCalls = {}
    BY DEF OpenCalls
  <2> QED BY <1>1, <2>1, FS_EmptySet DEF DefaultBelow
<1>4. NoSilentLoss
  BY OnlyDefaultIsNobodys DEF NoSilentLoss, Mine
<1> QED BY <1>2, <1>3, <1>4 DEF ContextInv

\* At rest the stack is what create() made.
LEMMA RestIsDefault == ContextInv => RestRestoresDefault
<1> SUFFICES ASSUME ContextInv, AtRest PROVE stack = Default
  BY DEF RestRestoresDefault
<1>1. OpenCalls = {}
  BY DEF AtRest, OpenCalls
<1>2. Len(stack) = Len(Default) /\ \A k \in 1..Len(Default) : stack[k] = Default[k]
  <2>1. Len(Default) \in Nat
    BY ContextAssumption
  <2> QED BY <1>1, <2>1, FS_EmptySet DEF ContextInv, DefaultBelow
<1>3. PICK T : stack \in Seq(T)
  BY DEF ContextInv, CallsOK, IsSeq
<1> DEFINE U == T \cup {<<"default", 0>>}
<1>4. stack \in Seq(U) /\ Default \in Seq(U)
  <2>1. <<>> \in Seq(U) /\ << <<"default", 0>> >> \in Seq(U)
    OBVIOUS
  <2>2. stack \in Seq(U)
    BY <1>3
  <2> HIDE DEF U
  <2>3. Default \in Seq(U)
    BY <2>1, ContextAssumption
  <2> QED BY <2>2, <2>3
<1> HIDE DEF U
<1> QED BY <1>2, <1>4, SeqEqual

\* What a refused enter, or one that is not refused, does to the stack.
LEMMA EnterInv ==
  ASSUME ContextInv, NEW t \in Chains, Enter(t)
  PROVE  ContextInv'
<1> DEFINE id == FreshId(t)
<1>1. CallsOK /\ DefaultBelow /\ NoSilentLoss /\ RestRestoresDefault
  BY RestIsDefault DEF ContextInv
<1>2. id[1] = t
  BY DEF FreshId
<1> HIDE DEF id
\* With nobody told of a conflict since the last rest, nothing is lost.
<1>3. ASSUME Known = {}, NEW u \in Chains PROVE Mine(u, stack) = open[u]
  <2>1. CASE AtRest
    <3>1. stack = Default /\ open[u] = <<>>
      BY <1>1, <2>1 DEF AtRest, RestRestoresDefault
    <3> QED BY <3>1, OnlyDefaultIsNobodys
  <2>2. CASE ~AtRest
    BY <1>1, <1>3, <2>2 DEF Known, NoSilentLoss, Mine
  <2> QED BY <2>1, <2>2
<1>4. CASE /\ UNCHANGED <<stack, open>> /\ Known \subseteq conflicts'
  <2>1. CallsOK' /\ DefaultBelow'
    BY <1>1, <1>4 DEF CallsOK, DefaultBelow, OpenCalls
  <2>2. NoSilentLoss'
    BY <1>3, <1>4 DEF NoSilentLoss, Mine
  <2> QED BY <2>1, <2>2 DEF ContextInv
<1>5. CASE /\ stack' = Append(stack, id) /\ open' = [open EXCEPT ![t] = Append(@, id)]
           /\ conflicts' = Known /\ Len(open[t]) < MaxDepth
  <2>1. IsSeq(stack) /\ IsSeq(open[t]) /\ DOMAIN open = Chains
    BY <1>1 DEF CallsOK
  <2>2. /\ IsSeq(stack') /\ Len(stack') = Len(stack) + 1 /\ Len(stack) \in Nat
        /\ \A k \in 1..Len(stack) : stack'[k] = stack[k]
    BY <1>5, <2>1, AppendedIsSeq
  <2>3. /\ open'[t] = Append(open[t], id) /\ \A u \in Chains : u # t => open'[u] = open[u]
        /\ DOMAIN open' = Chains
    BY <1>5, <2>1
  <2>4. /\ IsSeq(open'[t]) /\ Len(open'[t]) = Len(open[t]) + 1 /\ Len(open[t]) \in Nat
        /\ \A k \in 1..Len(open[t]) : open'[t][k] = open[t][k]
        /\ open'[t][Len(open[t]) + 1] = id
    BY <2>1, <2>3, AppendedIsSeq
  <2>5. CallsOK'
    <3>1. \A k \in 1..Len(open'[t]) : open'[t][k][1] = t
      BY <1>1, <1>2, <2>4 DEF CallsOK
    <3>2. Len(open'[t]) <= MaxDepth
      BY <1>5, <2>4, ContextAssumption
    <3> QED BY <1>1, <2>2, <2>3, <2>4, <3>1, <3>2 DEF CallsOK
  <2>6. DefaultBelow'
    <3> DEFINE c == <<t, Len(open[t]) + 1>>
    <3>1. OpenCalls' = OpenCalls \cup {c} /\ c \notin OpenCalls
      <4>1. c \in Chains \X (1..MaxDepth)
        BY <1>5, <2>4, ContextAssumption
      <4>2. \A d \in Chains \X (1..MaxDepth) :
              d[2] <= Len(open'[d[1]]) <=> d[2] <= Len(open[d[1]]) \/ d = c
        BY <2>3, <2>4, ContextAssumption
      <4>3. ~(c[2] <= Len(open[c[1]]))
        BY <2>4
      <4> HIDE DEF c
      <4> QED BY <4>1, <4>2, <4>3 DEF OpenCalls
    <3> HIDE DEF c
    <3>2. Cardinality(OpenCalls') = Cardinality(OpenCalls) + 1
      BY <3>1, OpenCallsFinite, FS_AddElement
    <3>3. Len(Default) \in Nat /\ Len(Default) <= Len(stack)
      BY <1>1, OpenCallsFinite, ContextAssumption DEF DefaultBelow
    <3> QED BY <1>1, <2>2, <3>2, <3>3, OpenCallsFinite DEF DefaultBelow
  <2>7. NoSilentLoss'
    <3>1. ASSUME Known = {}, NEW u \in Chains PROVE Mine(u, stack') = open'[u]
      <4>1. Mine(u, stack) = open[u]
        BY <1>3, <3>1
      <4>2. Mine(u, stack') = IF id[1] = u THEN Append(Mine(u, stack), id) ELSE Mine(u, stack)
        BY <1>5, <2>1, MineSteps
      <4> QED BY <1>2, <2>3, <4>1, <4>2
    <3> QED BY <1>5, <3>1 DEF NoSilentLoss, Mine
  <2> QED BY <2>5, <2>6, <2>7 DEF ContextInv
<1> QED BY <1>4, <1>5 DEF Enter, Entered, id

\* Leaving takes one entry and closes one call; only if the entry was not the
\* call's own is that a loss, which is reported.
LEMMA LeaveInv ==
  ASSUME ContextInv, NEW t \in Chains, Leave(t)
  PROVE  ContextInv'
<1> DEFINE n == Len(open[t])
           id == open[t][n]
           top == stack[Len(stack)]
           below == SubSeq(stack, 1, Len(stack) - 1)
           outer == SubSeq(open[t], 1, n - 1)
<1>1. /\ CallsOK /\ DefaultBelow /\ NoSilentLoss /\ open[t] # <<>>
      /\ stack' = Left(stack, id) /\ open' = [open EXCEPT ![t] = outer]
      /\ conflicts' = IF LeaveThrows(stack, id) THEN conflicts \cup {t} ELSE conflicts
  BY DEF ContextInv, Leave, IsOpen, Current
<1>2. /\ n \in Nat \ {0} /\ IsSeq(outer) /\ Len(outer) = n - 1
      /\ \A k \in 1..n - 1 : outer[k] = open[t][k]
      /\ open[t] = Append(outer, id)
  BY <1>1, PoppedIsSeq DEF CallsOK
<1>3. DOMAIN open = Chains /\ IsSeq(stack) /\ n <= MaxDepth /\ id[1] = t
  BY <1>1, <1>2 DEF CallsOK
<1>4. <<t, n>> \in OpenCalls /\ Cardinality(OpenCalls) >= 1
  <2>1. <<t, n>> \in OpenCalls
    BY <1>2, <1>3, ContextAssumption DEF OpenCalls
  <2>2. Cardinality(OpenCalls) # 0
    BY <2>1, OpenCallsFinite, FS_EmptySet
  <2> QED BY <2>1, <2>2, OpenCallsFinite
<1>5. Len(Default) \in Nat /\ Len(stack) >= Len(Default) + 1 /\ stack # <<>>
  <2>1. Len(Default) \in Nat
    BY ContextAssumption
  <2>2. Len(stack) >= Len(Default) + 1
    BY <1>1, <1>4, <2>1, OpenCallsFinite DEF DefaultBelow
  <2> QED BY <2>1, <2>2
<1>6. /\ Len(stack) \in Nat \ {0} /\ IsSeq(below) /\ Len(below) = Len(stack) - 1
      /\ \A k \in 1..Len(stack) - 1 : below[k] = stack[k]
      /\ stack = Append(below, top)
  BY <1>3, <1>5, PoppedIsSeq
<1>7. stack' = below /\ (LeaveThrows(stack, id) <=> top # id)
  BY <1>1, <1>5 DEF Left, LeaveThrows, Current
<1>8. open'[t] = outer /\ (\A u \in Chains : u # t => open'[u] = open[u]) /\ DOMAIN open' = Chains
  BY <1>1, <1>3
<1> HIDE DEF n, id, top, below, outer
<1>9. CallsOK'
  <2>1. \A k \in 1..Len(outer) : outer[k][1] = t
    BY <1>1, <1>2 DEF CallsOK, n
  <2>2. Len(outer) <= MaxDepth
    BY <1>2, <1>3, ContextAssumption
  <2> QED BY <1>1, <1>2, <1>6, <1>7, <1>8, <2>1, <2>2 DEF CallsOK
<1>10. DefaultBelow'
  <2>1. OpenCalls' = OpenCalls \ {<<t, n>>}
    <3>1. \A d \in Chains \X (1..MaxDepth) :
            d[2] <= Len(open'[d[1]]) <=> d[2] <= Len(open[d[1]]) /\ d # <<t, n>>
      BY <1>2, <1>8, ContextAssumption DEF n
    <3> QED BY <3>1 DEF OpenCalls
  <2>2. Cardinality(OpenCalls') = Cardinality(OpenCalls) - 1
    BY <1>4, <2>1, OpenCallsFinite, FS_RemoveElement
  <2> QED BY <1>1, <1>5, <1>6, <1>7, <2>2, OpenCallsFinite DEF DefaultBelow
<1>11. NoSilentLoss'
  <2> SUFFICES ASSUME conflicts' = {}, NEW u \in Chains PROVE Mine(u, stack') = open'[u]
    BY DEF NoSilentLoss, Mine
  <2>1. conflicts = {} /\ top = id
    BY <1>1, <1>7
  <2>2. Mine(u, stack) = open[u]
    BY <1>1, <2>1 DEF NoSilentLoss, Mine
  <2>3. /\ Mine(u, stack) = IF top[1] = u THEN Append(Mine(u, below), top) ELSE Mine(u, below)
        /\ IsSeq(Mine(u, below))
    BY <1>6, MineSteps
  <2>4. CASE u = t
    <3>1. Append(Mine(t, below), id) = Append(outer, id)
      BY <1>2, <1>3, <2>1, <2>2, <2>3, <2>4
    <3>2. Mine(t, below) = outer
      BY <1>2, <2>3, <2>4, <3>1, SameBelow
    <3> QED BY <1>7, <1>8, <2>4, <3>2
  <2>5. CASE u # t
    BY <1>3, <1>7, <1>8, <2>1, <2>2, <2>3, <2>5
  <2> QED BY <2>4, <2>5
<1> QED BY <1>9, <1>10, <1>11 DEF ContextInv

LEMMA NextKeepsContextInv == ContextInv /\ [NextContext]_contextVars => ContextInv'
<1> SUFFICES ASSUME ContextInv, [NextContext]_contextVars PROVE ContextInv'
  OBVIOUS
<1>1. ASSUME NEW t \in Chains, Enter(t) PROVE ContextInv'
  BY <1>1, EnterInv
<1>2. ASSUME NEW t \in Chains, Leave(t) PROVE ContextInv'
  BY <1>2, LeaveInv
<1>3. CASE (\E t \in Chains : Throw(t)) \/ UNCHANGED contextVars
  <2>1. UNCHANGED <<stack, open, conflicts>>
    BY <1>3 DEF Throw, contextVars
  <2> QED
    BY <2>1 DEF ContextInv, CallsOK, DefaultBelow, OpenCalls, NoSilentLoss
<1> QED BY <1>1, <1>2, <1>3 DEF NextContext

\* For every number of tasks and every depth of nesting the entries on a context
\* stack are as many as the calls in progress, above the default one.
THEOREM ContextInvHolds == ContextSpec => []ContextInv
BY InitContextInv, NextKeepsContextInv, PTL DEF ContextSpec

\* When no call is in progress the context is the one create() made, whatever
\* the calls before popped from one another.
THEOREM RestIsRestored == ContextSpec => []RestRestoresDefault
BY ContextInvHolds, RestIsDefault, PTL

\* A task loses an entry only in a leave that reports a conflict.
THEOREM LossesAreReported == ContextSpec => []NoSilentLoss
<1>1. ContextInv => NoSilentLoss
  BY DEF ContextInv
<1> QED BY <1>1, ContextInvHolds, PTL

-----------------------------------------------------------------------------
(* The heap of AccountUpdateLayout.  V is a set that holds all hashes on it, B   *)
(* the account updates that were put somewhere as values, and changed says that *)
(* a tree was changed after it had been put somewhere.                          *)

ForestType(V, cells) == [final : BOOLEAN, list : Seq(Updates), hash : V, cell : 0..cells]
ElementType(V) == [id : Updates, hash : V, cell : Nat]
NodeType(forests) ==
  [final : BOOLEAN, children : 1..forests, siblings : 0..forests, dummy : BOOLEAN]

HeapTyped(h, V) ==
  /\ <<>> \in V
  /\ h = [node |-> h.node, forest |-> h.forest, cell |-> h.cell, tree |-> h.tree]
  /\ h.forest \in Seq(ForestType(V, Len(h.cell)))
  /\ h.cell \in Seq(Seq(ElementType(V)))
  /\ DOMAIN h.node \subseteq Updates \cup {Root} /\ Root \in DOMAIN h.node
  /\ h.node \in [DOMAIN h.node -> NodeType(Len(h.forest))]
  /\ DOMAIN h.tree \subseteq Updates /\ h.tree \in [DOMAIN h.tree -> 1..Len(h.forest)]

\* The data of a Merkle list refers to data that was there before it.
CellsAreEarlier(h) ==
  \A c \in 1..Len(h.cell) : \A k \in 1..Len(h.cell[c]) : h.cell[c][k].cell \in 0..c - 1

\* A list of siblings holds nodes that say so.
Attached(h) ==
  \A f \in 1..Len(h.forest) : \A k \in 1..Len(h.forest[f].list) :
    LET v == h.forest[f].list[k] IN v \in DOMAIN h.node /\ h.node[v].siblings = f

\* The node of an update owns the forest of its children, a tree its own.
Owns(h, v, f) ==
  \/ v \in DOMAIN h.node /\ h.node[v].children = f
  \/ v \in DOMAIN h.tree /\ h.tree[v] = f

RefersTo(h, v, c) ==
  \/ \E d \in 1..Len(h.cell) : \E k \in 1..Len(h.cell[d]) :
     h.cell[d][k].id = v /\ h.cell[d][k].cell = c
  \/ \E f \in 1..Len(h.forest) : Owns(h, v, f) /\ h.forest[f].cell = c

\* No forest and no data belongs to two updates, wherever it is referred to.
OneOwner(h) ==
  /\ \A f \in 1..Len(h.forest), v, w \in Updates \cup {Root} :
     Owns(h, v, f) /\ Owns(h, w, f) => v = w
  /\ \A c \in 1..Len(h.cell), v, w \in Updates \cup {Root} :
     RefersTo(h, v, c) /\ RefersTo(h, w, c) => v = w

\* Only an update in a final forest, or one that was put there as a value, is data.
InFinal(h, v) == v \in DOMAIN h.node /\ h.node[v].siblings # 0 /\ h.forest[h.node[v].siblings].final

Placed(h, B) ==
  \A c \in 1..Len(h.cell) : \A k \in 1..Len(h.cell[c]) :
    h.cell[c][k].id \in B \/ InFinal(h, h.cell[c][k].id)

\* A list has a node once, and an update that was not put there as a value is in
\* one place of all the data.
ListedOnce(h) == \A f \in 1..Len(h.forest) : NoRepeats(h.forest[f].list)

InOnePlace(h, B) ==
  \A c, d \in 1..Len(h.cell) : \A j \in 1..Len(h.cell[c]), k \in 1..Len(h.cell[d]) :
    h.cell[c][j].id = h.cell[d][k].id => h.cell[c][j].id \in B \/ (c = d /\ j = k)

\* A forest of an update that shares the data of its tree is the tree put into
\* the layout.
Copies(h) ==
  \A v \in DOMAIN h.tree :
    /\ h.forest[h.tree[v]].cell # 0
    /\ v \in DOMAIN h.node /\ h.node[v].children # h.tree[v]
       /\ h.forest[h.node[v].children].cell = h.forest[h.tree[v]].cell => h.node[v].final

\* Every hash is that of its data.
Sound(h) ==
  /\ \A c \in 1..Len(h.cell) : \A k \in 1..Len(h.cell[c]) :
     h.cell[c][k].hash = Content(h, h.cell[c][k].cell)
  /\ \A f \in 1..Len(h.forest), v \in Updates \cup {Root} :
     Owns(h, v, f) => h.forest[f].hash = Content(h, h.forest[f].cell)

\* The first forest is that of the root, and what is final has data.
RootAndFinals(h) ==
  /\ h.node[Root].children = 1
  /\ \A f \in 1..Len(h.forest) : h.forest[f].final => h.forest[f].cell # 0

HeapInv(h, V, B, changed) ==
  /\ HeapTyped(h, V) /\ RootAndFinals(h) /\ CellsAreEarlier(h) /\ Attached(h)
  /\ OneOwner(h) /\ Placed(h, B) /\ Copies(h) /\ ListedOnce(h) /\ InOnePlace(h, B)
  /\ (changed \/ Sound(h))

-----------------------------------------------------------------------------
(* What data contains *)

CellsOK(h) == (\E S : h.cell \in Seq(Seq(S))) /\ CellsAreEarlier(h)

\* The data of a cell refers to earlier cells.
LEMMA DataParts ==
  ASSUME NEW h, CellsOK(h), NEW c \in 0..Len(h.cell)
  PROVE  /\ Len(h.cell) \in Nat /\ Len(Data(h, c)) \in Nat /\ DOMAIN Data(h, c) = 1..Len(Data(h, c))
         /\ c # 0 => Data(h, c) = h.cell[c]
         /\ c = 0 => Data(h, c) = <<>> /\ Len(Data(h, c)) = 0
         /\ \A k \in DOMAIN Data(h, c) : Data(h, c)[k].cell \in 0..c - 1
<1>1. PICK S : h.cell \in Seq(Seq(S))
  BY DEF CellsOK
<1>2. Len(h.cell) \in Nat
  BY <1>1, LenProperties
<1>3. CASE c = 0
  BY <1>2, <1>3, EmptySeq DEF Data, NoCell
<1>4. CASE c # 0
  <2>1. c \in 1..Len(h.cell) /\ Data(h, c) = h.cell[c]
    BY <1>2, <1>4 DEF Data, NoCell
  <2>2. h.cell[c] \in Seq(S)
    BY <1>1, <2>1
  <2> QED BY <1>2, <1>4, <2>1, <2>2, LenProperties DEF CellsOK, CellsAreEarlier
<1> QED BY <1>3, <1>4

\* The content of a cell, element by element.
HasContent(h, c) ==
  Content(h, c) = [k \in DOMAIN Data(h, c) |->
                     <<Data(h, c)[k].id, Content(h, Data(h, c)[k].cell)>>]

\* Content is the recursive function that its definition reads as.
LEMMA ContentUnfolds ==
  ASSUME NEW h, CellsOK(h), NEW c \in 0..Len(h.cell)
  PROVE  HasContent(h, c)
<1> DEFINE M == Len(h.cell)
           E(g, d) == [k \in DOMAIN Data(h, d) |-> <<Data(h, d)[k].id, g[Data(h, d)[k].cell]>>]
           Body(g, N) == [d \in 0..N |-> E(g, d)]
           f == CHOOSE g : g = Body(g, M)
           T == {N \in 0..M : \E g : g = Body(g, N)}
<1>1. M \in Nat
  BY DataParts
<1>2. \A d : Content(h, d) = f[d]
  BY DEF Content
<1>3. ASSUME NEW d \in 0..M, NEW g1, NEW g2, \A i \in 0..d - 1 : g1[i] = g2[i]
      PROVE  E(g1, d) = E(g2, d)
  BY <1>3, DataParts
<1>4. \A g, d : E(g, d) = [k \in DOMAIN Data(h, d) |-> <<Data(h, d)[k].id, g[Data(h, d)[k].cell]>>]
  OBVIOUS
<1> HIDE DEF E
<1>5. 0 \in T
  <2> DEFINE g == [d \in 0..0 |-> E(0, 0)]
  <2>1. E(g, 0) = E(0, 0)
    <3> HIDE DEF g
    <3>1. 0 \in 0..M /\ \A i \in 0..0 - 1 : g[i] = 0[i]
      BY <1>1
    <3> QED BY <1>3, <3>1
  <2>2. g = Body(g, 0)
    BY <2>1
  <2> HIDE DEF g, Body
  <2> QED BY <1>1, <2>2
<1>6. ASSUME NEW N \in 0..M - 1, N \in T PROVE N + 1 \in T
  <2>1. PICK g : g = Body(g, N)
    BY <1>6
  <2> DEFINE e == [d \in 0..N + 1 |-> IF d = N + 1 THEN E(g, N + 1) ELSE g[d]]
  <2>2. \A d \in 0..N : e[d] = g[d] /\ g[d] = E(g, d)
    BY <2>1
  <2>3. e[N + 1] = E(g, N + 1) /\ e = [d \in 0..N + 1 |-> e[d]]
    OBVIOUS
  <2> HIDE DEF e
  <2>4. ASSUME NEW d \in 0..N + 1 PROVE e[d] = E(e, d)
    <3>1. d \in 0..M /\ \A i \in 0..d - 1 : i \in 0..N
      BY <1>1
    <3>2. \A i \in 0..d - 1 : e[i] = g[i]
      BY <2>2, <3>1
    <3>3. E(e, d) = E(g, d)
      BY <1>3, <3>1, <3>2
    <3>4. d = N + 1 \/ d \in 0..N
      BY <1>1
    <3> QED BY <2>2, <2>3, <3>3, <3>4
  <2>5. e = Body(e, N + 1)
    BY <2>3, <2>4
  <2>6. N + 1 \in 0..M
    BY <1>1
  <2> HIDE DEF Body
  <2> QED BY <2>5, <2>6
<1> HIDE DEF T, M
<1>7. 0..M \subseteq T
  BY <1>1, <1>5, <1>6, IntervalInduction
<1> HIDE DEF Body
<1>8. PICK g : g = Body(g, M)
  BY <1>1, <1>7 DEF T
<1>9. f = Body(f, M)
  BY <1>8
<1> HIDE DEF f
<1>10. f[c] = E(f, c)
  BY <1>9 DEF Body, M
<1> QED BY <1>2, <1>4, <1>10 DEF HasContent

\* A set of cells that two heaps have in common, with all the cells their elements
\* refer to, has the same content in both.
SameContent(g, h, S) == \A c \in S : Content(g, c) = Content(h, c)

LEMMA ContentAgrees ==
  ASSUME NEW g, NEW h, CellsOK(g), CellsOK(h), NEW S,
         S \subseteq 0..Len(g.cell), S \subseteq 0..Len(h.cell),
         \A c \in S : Data(g, c) = Data(h, c),
         \A c \in S : \A k \in DOMAIN Data(h, c) : Data(h, c)[k].cell \in S
  PROVE  SameContent(g, h, S)
<1> DEFINE M == Len(h.cell)
           T == {n \in 0..M : \A c \in S : c <= n => Content(g, c) = Content(h, c)}
<1>1. M \in Nat /\ \A c \in S : c \in Nat
  BY DataParts
<1>2. ASSUME NEW c \in S, \A d \in S : d < c => Content(g, d) = Content(h, d)
      PROVE  Content(g, c) = Content(h, c)
  <2>1. HasContent(g, c) /\ HasContent(h, c)
    BY ContentUnfolds
  <2>2. /\ Data(g, c) = Data(h, c)
        /\ \A k \in DOMAIN Data(h, c) : Data(h, c)[k].cell \in S /\ Data(h, c)[k].cell < c
    BY <1>1, DataParts
  <2>3. \A k \in DOMAIN Data(h, c) : Content(g, Data(h, c)[k].cell) = Content(h, Data(h, c)[k].cell)
    BY <1>2, <2>2
  <2> QED BY <2>1, <2>2, <2>3 DEF HasContent
<1>3. 0 \in T
  <2>1. ASSUME NEW c \in S, c <= 0 PROVE Content(g, c) = Content(h, c)
    <3>1. c \in Nat /\ \A d \in S : d \in Nat
      BY <1>1
    <3>2. \A d \in S : ~(d < c)
      BY <2>1, <3>1
    <3> QED BY <1>2, <3>2
  <2>2. 0 \in 0..M
    BY <1>1
  <2> QED BY <2>1, <2>2
<1>4. ASSUME NEW n \in 0..M - 1, n \in T PROVE n + 1 \in T
  <2>1. ASSUME NEW c \in S, c <= n + 1 PROVE Content(g, c) = Content(h, c)
    <3>1. \A d \in S : d < c => d <= n
      BY <1>1, <2>1
    <3> QED BY <1>2, <1>4, <3>1
  <2> QED BY <1>1, <2>1
<1> HIDE DEF T
<1>5. 0..M \subseteq T
  BY <1>1, <1>3, <1>4, IntervalInduction
<1>6. M \in T
  BY <1>1, <1>5
<1> QED BY <1>1, <1>6 DEF T, SameContent

-----------------------------------------------------------------------------
(* The operations on the heap *)

\* The types of the parts of a heap.
LEMMA HeapParts ==
  ASSUME NEW V, NEW h, HeapTyped(h, V)
  PROVE  /\ Len(h.forest) \in Nat /\ Len(h.cell) \in Nat
         /\ DOMAIN h.forest = 1..Len(h.forest) /\ DOMAIN h.cell = 1..Len(h.cell)
         /\ \A f \in 1..Len(h.forest) : h.forest[f] \in ForestType(V, Len(h.cell))
         /\ \A c \in 1..Len(h.cell) : h.cell[c] \in Seq(ElementType(V))
         /\ \A v \in DOMAIN h.node :
            h.node[v] \in NodeType(Len(h.forest)) /\ v \in Updates \cup {Root}
         /\ \A v \in DOMAIN h.tree : h.tree[v] \in 1..Len(h.forest) /\ v \in Updates
BY DEF HeapTyped

LEMMA CellParts ==
  ASSUME NEW V, NEW h, HeapTyped(h, V), NEW c \in 1..Len(h.cell)
  PROVE  /\ Len(h.cell[c]) \in Nat /\ DOMAIN h.cell[c] = 1..Len(h.cell[c])
         /\ \A k \in 1..Len(h.cell[c]) : /\ h.cell[c][k].id \in Updates
                                         /\ h.cell[c][k].hash \in V /\ h.cell[c][k].cell \in Nat
<1>1. h.cell[c] \in Seq(ElementType(V))
  BY HeapParts
<1>2. \A k \in 1..Len(h.cell[c]) : h.cell[c][k] \in ElementType(V)
  BY <1>1
<1> QED BY <1>1, <1>2, LenProperties DEF ElementType

\* A typed heap has data as the lemmas on content need it.
LEMMA TypedCells ==
  ASSUME NEW V, NEW h, HeapTyped(h, V), CellsAreEarlier(h)
  PROVE  CellsOK(h)
BY DEF HeapTyped, CellsOK

\* Only lists, siblings and dummies differ.
SameValues(g, h) ==
  /\ g.cell = h.cell /\ g.tree = h.tree /\ DOMAIN g.node = DOMAIN h.node
  /\ Len(g.forest) = Len(h.forest)
  /\ \A v \in DOMAIN h.node : g.node[v].children = h.node[v].children
     /\ g.node[v].final = h.node[v].final
  /\ \A f \in 1..Len(h.forest) : /\ g.forest[f].final = h.forest[f].final
                                 /\ g.forest[f].hash = h.forest[f].hash
                                 /\ g.forest[f].cell = h.forest[f].cell

\* The same data has the same content.
LEMMA SameCells ==
  ASSUME NEW g, NEW h, CellsOK(h), g.cell = h.cell
  PROVE  SameContent(g, h, 0..Len(h.cell))
<1> DEFINE S == 0..Len(h.cell)
<1>1. CellsOK(g) /\ Len(g.cell) = Len(h.cell)
  BY DEF CellsOK, CellsAreEarlier
<1>2. \A c \in S : Data(g, c) = Data(h, c)
  BY DEF Data
<1>3. \A c \in S : \A k \in DOMAIN Data(h, c) : Data(h, c)[k].cell \in S
  <2> SUFFICES ASSUME NEW c \in S, NEW k \in DOMAIN Data(h, c) PROVE Data(h, c)[k].cell \in S
    OBVIOUS
  <2>1. Data(h, c)[k].cell \in 0..c - 1 /\ Len(h.cell) \in Nat
    BY DataParts
  <2> QED BY <2>1
<1>4. S \subseteq 0..Len(g.cell) /\ S \subseteq 0..Len(h.cell)
  BY <1>1
<1> HIDE DEF S
<1>5. SameContent(g, h, S)
  BY <1>1, <1>2, <1>3, <1>4, ContentAgrees
<1> QED BY <1>5 DEF S

\* To rearrange the layout keeps the invariant, if what is final stays so.
LEMMA Rearranged ==
  ASSUME NEW V, NEW B, NEW changed, NEW g, NEW h, HeapInv(h, V, B, changed), HeapTyped(g, V),
         Attached(g),
         SameValues(g, h), ListedOnce(g),
         \A v : InFinal(h, v) => InFinal(g, v)
  PROVE  HeapInv(g, V, B, changed)
<1>1. /\ HeapTyped(h, V) /\ CellsAreEarlier(h) /\ OneOwner(h) /\ Placed(h, B) /\ Copies(h)
      /\ (changed \/ Sound(h)) /\ InOnePlace(h, B)
      /\ RootAndFinals(h)
  BY DEF HeapInv
<1>2. \A v, f : Owns(g, v, f) <=> Owns(h, v, f)
  BY DEF Owns, SameValues
<1>3. g.cell = h.cell /\ Len(g.forest) = Len(h.forest)
  BY DEF SameValues
<1>4. \A v, c : RefersTo(g, v, c) <=> RefersTo(h, v, c)
  BY <1>2, <1>3 DEF RefersTo, SameValues
<1>5. CellsAreEarlier(g) /\ Placed(g, B) /\ InOnePlace(g, B)
  BY <1>1, <1>3 DEF CellsAreEarlier, Placed, InOnePlace
<1>6. OneOwner(g)
  BY <1>1, <1>2, <1>3, <1>4 DEF OneOwner
<1>7. Copies(g)
  <2> SUFFICES ASSUME NEW v \in DOMAIN h.tree
               PROVE  /\ g.forest[h.tree[v]].cell # 0
                      /\ v \in DOMAIN g.node /\ g.node[v].children # h.tree[v]
                         /\ g.forest[g.node[v].children].cell = g.forest[h.tree[v]].cell
                            => g.node[v].final
    BY DEF Copies, SameValues
  <2>1. h.tree[v] \in 1..Len(h.forest)
    BY <1>1, HeapParts
  <2>2. v \in DOMAIN h.node => h.node[v].children \in 1..Len(h.forest)
    BY <1>1, HeapParts DEF NodeType
  <2> QED BY <1>1, <2>1, <2>2 DEF Copies, SameValues
<1>8. ASSUME ~changed PROVE Sound(g)
  <2>1. \A c \in 0..Len(h.cell) : Content(g, c) = Content(h, c)
    BY <1>1, <1>3, TypedCells, SameCells DEF SameContent
  <2>2. ASSUME NEW c \in 1..Len(h.cell), NEW k \in 1..Len(h.cell[c])
        PROVE  h.cell[c][k].hash = Content(g, h.cell[c][k].cell)
    <3>1. h.cell[c][k].cell \in 0..c - 1 /\ Len(h.cell) \in Nat
      BY <1>1, HeapParts DEF CellsAreEarlier
    <3>2. h.cell[c][k].cell \in 0..Len(h.cell)
      BY <3>1
    <3> QED BY <1>1, <1>8, <2>1, <3>2 DEF Sound
  <2>3. ASSUME NEW f \in 1..Len(h.forest), NEW v \in Updates \cup {Root}, Owns(g, v, f)
        PROVE  g.forest[f].hash = Content(g, g.forest[f].cell)
    <3>1. g.forest[f].hash = h.forest[f].hash /\ g.forest[f].cell = h.forest[f].cell
      BY DEF SameValues
    <3>2. h.forest[f].cell \in 0..Len(h.cell)
      BY <1>1, HeapParts DEF ForestType
    <3> QED BY <1>1, <1>2, <1>8, <2>1, <2>3, <3>1, <3>2 DEF Sound
  <2> QED BY <1>3, <2>2, <2>3 DEF Sound
<1>9. RootAndFinals(g)
  BY <1>1, <1>3 DEF RootAndFinals, SameValues, HeapTyped
<1> QED BY <1>5, <1>6, <1>7, <1>8, <1>9 DEF HeapInv

\* disattach keeps the invariant and all hashes and data.
LEMMA DisattachInv ==
  ASSUME NEW V, NEW B, NEW changed, NEW h, HeapInv(h, V, B, changed), NEW u \in Updates,
         CanDisattach(h, u)
  PROVE  HeapInv(Disattach(h, u), V, B, changed) /\ SameValues(Disattach(h, u), h)
         /\ Siblings(Disattach(h, u), u) = 0
<1> DEFINE g == Disattach(h, u)
           s == Siblings(h, u)
<1>1. CASE s = 0
  <2>1. g = h
    BY <1>1 DEF Disattach
  <2> QED BY <1>1, <2>1 DEF SameValues
<1>2. CASE s # 0
  <2> DEFINE rest == Rest(h.forest[s].list, u)
  <2>1. HeapTyped(h, V) /\ Attached(h) /\ ListedOnce(h)
    BY DEF HeapInv
  <2>2. u \in DOMAIN h.node /\ s = h.node[u].siblings /\ s \in 1..Len(h.forest)
        /\ ~h.forest[s].final
    <3>1. u \in DOMAIN h.node /\ s = h.node[u].siblings
      BY <1>2 DEF Siblings
    <3>2. h.node[u] \in NodeType(Len(h.forest)) /\ Len(h.forest) \in Nat
      BY <2>1, <3>1, HeapParts
    <3>3. s \in 0..Len(h.forest)
      BY <3>1, <3>2 DEF NodeType
    <3> QED BY <1>2, <3>1, <3>2, <3>3 DEF CanDisattach
  <2>3. /\ g.node = [h.node EXCEPT ![u].siblings = 0]
        /\ g.forest = [h.forest EXCEPT ![s].list = rest]
        /\ g.cell = h.cell /\ g.tree = h.tree
        /\ g = [node |-> g.node, forest |-> g.forest, cell |-> g.cell, tree |-> g.tree]
    <3>1. g = [h EXCEPT !.node[u].siblings = 0, !.forest[s].list = rest]
      BY <1>2, <2>2 DEF Disattach
    <3>2. h = [node |-> h.node, forest |-> h.forest, cell |-> h.cell, tree |-> h.tree]
      BY <2>1 DEF HeapTyped
    <3> HIDE DEF g, s, rest
    <3> QED BY <3>1, <3>2
  <2>4. /\ h.forest[s] \in ForestType(V, Len(h.cell)) /\ h.forest[s].list \in Seq(Updates)
        /\ Len(h.forest) \in Nat /\ DOMAIN h.forest = 1..Len(h.forest)
    BY <2>1, <2>2, HeapParts DEF ForestType
  <2>5. rest \in Seq(Updates) /\ NoRepeats(rest) /\ \A i \in 1..Len(rest) :
        rest[i] # u /\ \E k \in 1..Len(h.forest[s].list) : rest[i] = h.forest[s].list[k]
    <3> DEFINE list == h.forest[s].list
               at == {k \in DOMAIN list : list[k] # u}
    <3>1. SelectedElements(at, list) /\ Selected(at, list) \in Seq(Updates)
      BY <2>4, SelectedFrom
    <3>2. rest = Selected(at, list)
      BY DEF Rest
    <3>3. NoRepeats(Selected(at, list))
      <4>1. NoRepeats(list)
        BY <2>1, <2>2 DEF ListedOnce
      <4> QED BY <2>4, <4>1, SelectedNoRepeats
    <3> HIDE DEF rest
    <3> QED BY <3>1, <3>2, <3>3 DEF SelectedElements
  <2> HIDE DEF g, s, rest
  <2>6. /\ DOMAIN g.node = DOMAIN h.node /\ \A v \in DOMAIN h.node : v # u => g.node[v] = h.node[v]
        /\ g.node[u] = [h.node[u] EXCEPT !.siblings = 0]
    BY <2>2, <2>3
  <2>7. /\ Len(g.forest) = Len(h.forest) /\ \A f \in 1..Len(h.forest) :
           f # s => g.forest[f] = h.forest[f]
        /\ g.forest[s] = [h.forest[s] EXCEPT !.list = rest] /\ DOMAIN g.forest = 1..Len(h.forest)
    BY <2>2, <2>3, <2>4
  <2>8. /\ g.node[u] \in NodeType(Len(h.forest)) /\ g.node[u].siblings = 0
        /\ g.node[u].children = h.node[u].children
        /\ g.node[u].final = h.node[u].final /\ h.node[u] \in NodeType(Len(h.forest))
    <3>1. h.node[u] \in NodeType(Len(h.forest))
      BY <2>1, <2>2, HeapParts
    <3> DEFINE n == h.node[u]
    <3> HIDE DEF n
    <3>2. n \in NodeType(Len(h.forest)) /\ g.node[u] = [n EXCEPT !.siblings = 0]
      BY <2>6, <3>1 DEF n
    <3>3. [n EXCEPT !.siblings = 0] \in NodeType(Len(h.forest))
          /\ [n EXCEPT !.siblings = 0].siblings = 0
          /\ [n EXCEPT !.siblings = 0].children = n.children
          /\ [n EXCEPT !.siblings = 0].final = n.final
      BY <2>4, <3>2 DEF NodeType
    <3> QED BY <3>1, <3>2, <3>3 DEF n
  <2>9. /\ g.forest[s] \in ForestType(V, Len(h.cell)) /\ g.forest[s].list = rest
        /\ g.forest[s].final = h.forest[s].final
        /\ g.forest[s].hash = h.forest[s].hash /\ g.forest[s].cell = h.forest[s].cell
    <3> DEFINE t == h.forest[s]
    <3> HIDE DEF t
    <3>1. t \in ForestType(V, Len(h.cell)) /\ g.forest[s] = [t EXCEPT !.list = rest]
      BY <2>4, <2>7 DEF t
    <3> QED BY <2>5, <3>1 DEF ForestType, t
  <2>10. SameValues(g, h)
    BY <2>2, <2>3, <2>6, <2>7, <2>8, <2>9 DEF SameValues
  <2>11. HeapTyped(g, V)
    <3>1. g.forest \in Seq(ForestType(V, Len(h.cell)))
      <4>1. \A f \in 1..Len(h.forest) : g.forest[f] \in ForestType(V, Len(h.cell))
        BY <2>1, <2>7, <2>9, HeapParts
      <4>2. h.forest \in Seq(ForestType(V, Len(h.cell)))
        BY <2>1 DEF HeapTyped
      <4> QED BY <2>2, <2>3, <2>9, <4>2
    <3>2. g.node \in [DOMAIN g.node -> NodeType(Len(g.forest))]
      <4>1. \A v \in DOMAIN h.node : g.node[v] \in NodeType(Len(h.forest))
        BY <2>1, <2>6, <2>8, HeapParts
      <4> QED BY <2>3, <2>6, <2>7, <4>1
    <3> QED BY <2>1, <2>3, <2>6, <2>7, <3>1, <3>2 DEF HeapTyped
  <2>12. Attached(g)
    <3> SUFFICES ASSUME NEW f \in 1..Len(h.forest), NEW k \in 1..Len(g.forest[f].list)
                 PROVE  g.forest[f].list[k] \in DOMAIN g.node
                        /\ g.node[g.forest[f].list[k]].siblings = f
      BY <2>7 DEF Attached
    <3>1. CASE f = s
      <4>1. PICK i \in 1..Len(h.forest[s].list) : rest[k] # u /\ rest[k] = h.forest[s].list[i]
        BY <2>5, <2>9, <3>1
      <4>2. rest[k] \in DOMAIN h.node /\ h.node[rest[k]].siblings = s
        BY <2>1, <2>2, <4>1 DEF Attached
      <4> QED BY <2>6, <2>9, <3>1, <4>1, <4>2
    <3>2. CASE f # s
      <4>1. g.forest[f] = h.forest[f]
        BY <2>7, <3>2
      <4> DEFINE v == h.forest[f].list[k]
      <4>2. v \in DOMAIN h.node /\ h.node[v].siblings = f
        BY <2>1, <4>1 DEF Attached
      <4>3. v # u
        BY <2>2, <3>2, <4>2
      <4> QED BY <2>6, <4>1, <4>2, <4>3
    <3> QED BY <3>1, <3>2
  <2>13. ASSUME NEW v, InFinal(h, v) PROVE InFinal(g, v)
    <3>1. v # u
      BY <2>2, <2>13 DEF InFinal
    <3>2. v \in DOMAIN h.node /\ g.node[v] = h.node[v] /\ h.node[v].siblings # 0
          /\ h.forest[h.node[v].siblings].final
      BY <2>6, <2>13, <3>1 DEF InFinal
    <3>3. h.node[v].siblings \in 1..Len(h.forest)
      <4>1. h.node[v].siblings \in 0..Len(h.forest)
        BY <2>1, <3>2, HeapParts DEF NodeType
      <4> QED BY <2>4, <3>2, <4>1
    <3> QED BY <2>6, <2>10, <3>2, <3>3 DEF InFinal, SameValues
  <2>15. ListedOnce(g)
    <3>1. \A f \in 1..Len(h.forest) : f # s => g.forest[f].list = h.forest[f].list
      BY <2>7
    <3> QED BY <2>1, <2>5, <2>7, <2>9, <3>1 DEF ListedOnce
  <2>14. HeapInv(g, V, B, changed)
    BY <2>15, <2>10, <2>11, <2>12, <2>13, Rearranged
  <2> QED BY <2>2, <2>6, <2>8, <2>10, <2>14 DEF Siblings, g
<1> QED BY <1>1, <1>2

\* push keeps the invariant.
LEMMA PushInv ==
  ASSUME NEW V, NEW B, NEW changed, NEW h, HeapInv(h, V, B, changed), NEW u \in Updates,
         u \in DOMAIN h.node,
         NEW p \in DOMAIN h.node, CanPush(h, p, u)
  PROVE  HeapInv(Push(h, p, u), V, B, changed)
<1> DEFINE g == Push(h, p, u)
           s == h.node[p].children
<1>1. CASE IsThere(h, p, u)
  BY <1>1 DEF Push
<1>2. CASE ~IsThere(h, p, u)
  <2> DEFINE longer == Append(h.forest[s].list, u)
  <2>1. HeapTyped(h, V) /\ Attached(h) /\ ListedOnce(h)
    BY DEF HeapInv
  <2>2. h.node[u].siblings = 0 /\ ~h.forest[s].final /\ s \in 1..Len(h.forest)
        /\ h.node[u] \in NodeType(Len(h.forest))
    BY <1>2, <2>1, HeapParts DEF CanPush, NodeType
  <2>3. /\ g.node = [h.node EXCEPT ![u].siblings = s]
        /\ g.forest = [h.forest EXCEPT ![s].list = longer]
        /\ g.cell = h.cell /\ g.tree = h.tree
        /\ g = [node |-> g.node, forest |-> g.forest, cell |-> g.cell, tree |-> g.tree]
    <3>1. g = [h EXCEPT !.node[u].siblings = s, !.forest[s].list = longer]
      BY <1>2 DEF Push
    <3>2. h = [node |-> h.node, forest |-> h.forest, cell |-> h.cell, tree |-> h.tree]
      BY <2>1 DEF HeapTyped
    <3> HIDE DEF g, s, longer
    <3> QED BY <3>1, <3>2
  <2>4. /\ h.forest[s] \in ForestType(V, Len(h.cell)) /\ h.forest[s].list \in Seq(Updates)
        /\ Len(h.forest) \in Nat /\ DOMAIN h.forest = 1..Len(h.forest)
    BY <2>1, <2>2, HeapParts DEF ForestType
  <2>5. /\ longer \in Seq(Updates) /\ Len(longer) = Len(h.forest[s].list) + 1
        /\ longer[Len(longer)] = u
        /\ Len(h.forest[s].list) \in Nat /\ \A k \in 1..Len(h.forest[s].list) :
           longer[k] = h.forest[s].list[k]
    <3> DEFINE list == h.forest[s].list
    <3>1. list \in Seq(Updates) /\ longer = Append(list, u)
      BY <2>4
    <3> HIDE DEF list, longer
    <3>2. /\ longer \in Seq(Updates) /\ Len(longer) = Len(list) + 1 /\ longer[Len(longer)] = u
          /\ Len(list) \in Nat /\ \A k \in 1..Len(list) : longer[k] = list[k]
      BY <3>1
    <3> QED BY <3>2 DEF list
  <2> HIDE DEF g, s, longer
  <2>6. /\ DOMAIN g.node = DOMAIN h.node /\ \A v \in DOMAIN h.node : v # u => g.node[v] = h.node[v]
        /\ g.node[u] = [h.node[u] EXCEPT !.siblings = s]
    BY <2>3
  <2>7. /\ Len(g.forest) = Len(h.forest) /\ \A f \in 1..Len(h.forest) :
           f # s => g.forest[f] = h.forest[f]
        /\ g.forest[s] = [h.forest[s] EXCEPT !.list = longer] /\ DOMAIN g.forest = 1..Len(h.forest)
    BY <2>2, <2>3, <2>4
  <2>8. /\ g.node[u] \in NodeType(Len(h.forest)) /\ g.node[u].siblings = s
        /\ g.node[u].children = h.node[u].children
        /\ g.node[u].final = h.node[u].final
    <3> DEFINE n == h.node[u]
    <3> HIDE DEF n
    <3>1. n \in NodeType(Len(h.forest)) /\ g.node[u] = [n EXCEPT !.siblings = s]
      BY <2>2, <2>6 DEF n
    <3>2. /\ [n EXCEPT !.siblings = s] \in NodeType(Len(h.forest))
          /\ [n EXCEPT !.siblings = s].siblings = s
          /\ [n EXCEPT !.siblings = s].children = n.children
          /\ [n EXCEPT !.siblings = s].final = n.final
      BY <2>2, <2>4, <3>1 DEF NodeType
    <3> QED BY <3>1, <3>2 DEF n
  <2>9. /\ g.forest[s] \in ForestType(V, Len(h.cell)) /\ g.forest[s].list = longer
        /\ g.forest[s].final = h.forest[s].final
        /\ g.forest[s].hash = h.forest[s].hash /\ g.forest[s].cell = h.forest[s].cell
    <3> DEFINE t == h.forest[s]
    <3> HIDE DEF t
    <3>1. t \in ForestType(V, Len(h.cell)) /\ g.forest[s] = [t EXCEPT !.list = longer]
      BY <2>4, <2>7 DEF t
    <3> QED BY <2>5, <3>1 DEF ForestType, t
  <2>10. SameValues(g, h)
    BY <2>2, <2>3, <2>6, <2>7, <2>8, <2>9 DEF SameValues
  <2>11. HeapTyped(g, V)
    <3>1. g.forest \in Seq(ForestType(V, Len(h.cell)))
      <4>1. h.forest \in Seq(ForestType(V, Len(h.cell)))
        BY <2>1 DEF HeapTyped
      <4> QED BY <2>2, <2>3, <2>9, <4>1
    <3>2. g.node \in [DOMAIN g.node -> NodeType(Len(g.forest))]
      <4>1. \A v \in DOMAIN h.node : g.node[v] \in NodeType(Len(h.forest))
        BY <2>1, <2>6, <2>8, HeapParts
      <4> QED BY <2>3, <2>6, <2>7, <4>1
    <3> QED BY <2>1, <2>3, <2>6, <2>7, <3>1, <3>2 DEF HeapTyped
  <2>12. Attached(g)
    <3> SUFFICES ASSUME NEW f \in 1..Len(h.forest), NEW k \in 1..Len(g.forest[f].list)
                 PROVE  g.forest[f].list[k] \in DOMAIN g.node
                        /\ g.node[g.forest[f].list[k]].siblings = f
      BY <2>7 DEF Attached
    <3>1. CASE f = s /\ k = Len(longer)
      BY <2>5, <2>6, <2>8, <2>9, <3>1
    <3>2. ASSUME k \in 1..Len(h.forest[f].list), g.forest[f].list[k] = h.forest[f].list[k]
          PROVE  g.forest[f].list[k] \in DOMAIN g.node /\ g.node[g.forest[f].list[k]].siblings = f
      <4> DEFINE v == h.forest[f].list[k]
      <4>1. v \in DOMAIN h.node /\ h.node[v].siblings = f
        BY <2>1, <3>2 DEF Attached
      <4>2. v # u
        BY <2>2, <2>4, <4>1
      <4> QED BY <2>6, <3>2, <4>1, <4>2
    <3>3. CASE f = s /\ k # Len(longer)
      BY <2>5, <2>9, <3>2, <3>3
    <3>4. CASE f # s
      BY <2>7, <3>2, <3>4
    <3> QED BY <3>1, <3>3, <3>4
  <2>13. ASSUME NEW v, InFinal(h, v) PROVE InFinal(g, v)
    <3>1. v # u
      BY <2>2, <2>13 DEF InFinal
    <3>2. v \in DOMAIN h.node /\ g.node[v] = h.node[v] /\ h.node[v].siblings # 0
          /\ h.forest[h.node[v].siblings].final
      BY <2>6, <2>13, <3>1 DEF InFinal
    <3>3. h.node[v].siblings \in 1..Len(h.forest)
      <4>1. h.node[v].siblings \in 0..Len(h.forest)
        BY <2>1, <3>2, HeapParts DEF NodeType
      <4> QED BY <2>4, <3>2, <4>1
    <3> QED BY <2>6, <2>10, <3>2, <3>3 DEF InFinal, SameValues
  <2>15. ListedOnce(g)
    <3>1. \A f \in 1..Len(h.forest) : f # s => g.forest[f].list = h.forest[f].list
      BY <2>7
    <3>2. NoRepeats(longer)
      <4>1. ~IsIn(u, h.forest[s].list)
        <5>1. ASSUME NEW k \in 1..Len(h.forest[s].list), h.forest[s].list[k] = u PROVE FALSE
          <6>1. h.node[u].siblings = s
            BY <2>1, <2>2, <5>1 DEF Attached
          <6> QED BY <2>2, <2>4, <6>1
        <5> QED BY <5>1 DEF IsIn
      <4>2. NoRepeats(h.forest[s].list)
        BY <2>1, <2>2 DEF ListedOnce
      <4> QED BY <2>4, <4>1, <4>2, AppendNoRepeats DEF longer
    <3> QED BY <2>1, <2>7, <2>9, <3>1, <3>2 DEF ListedOnce
  <2>14. HeapInv(g, V, B, changed)
    BY <2>15, <2>10, <2>11, <2>12, <2>13, Rearranged
  <2> QED BY <2>14 DEF g
<1> QED BY <1>1, <1>2

\* An optional child is marked: the invariant does not depend on the mark.
LEMMA DummyInv ==
  ASSUME NEW V, NEW B, NEW changed, NEW h, HeapInv(h, V, B, changed), NEW u \in DOMAIN h.node,
         NEW d \in BOOLEAN
  PROVE  HeapInv([h EXCEPT !.node[u].dummy = d], V, B, changed)
<1> DEFINE g == [h EXCEPT !.node[u].dummy = d]
<1>1. HeapTyped(h, V) /\ Attached(h) /\ ListedOnce(h)
  BY DEF HeapInv
<1>2. /\ g.node = [h.node EXCEPT ![u].dummy = d] /\ g.forest = h.forest /\ g.cell = h.cell
      /\ g.tree = h.tree
      /\ g = [node |-> g.node, forest |-> g.forest, cell |-> g.cell, tree |-> g.tree]
  <2>1. h = [node |-> h.node, forest |-> h.forest, cell |-> h.cell, tree |-> h.tree]
    BY <1>1 DEF HeapTyped
  <2> QED BY <2>1
<1> HIDE DEF g
<1>3. /\ DOMAIN g.node = DOMAIN h.node /\ \A v \in DOMAIN h.node : v # u => g.node[v] = h.node[v]
      /\ g.node[u] = [h.node[u] EXCEPT !.dummy = d]
  BY <1>2
<1>4. /\ g.node[u] \in NodeType(Len(h.forest)) /\ g.node[u].siblings = h.node[u].siblings
      /\ g.node[u].children = h.node[u].children /\ g.node[u].final = h.node[u].final
  <2> DEFINE n == h.node[u]
  <2> HIDE DEF n
  <2>1. n \in NodeType(Len(h.forest)) /\ g.node[u] = [n EXCEPT !.dummy = d]
    BY <1>1, <1>3, HeapParts DEF n
  <2>2. /\ [n EXCEPT !.dummy = d] \in NodeType(Len(h.forest))
        /\ [n EXCEPT !.dummy = d].siblings = n.siblings
        /\ [n EXCEPT !.dummy = d].children = n.children /\ [n EXCEPT !.dummy = d].final = n.final
    BY <2>1 DEF NodeType
  <2> QED BY <2>1, <2>2 DEF n
<1>5. \A v \in DOMAIN h.node : /\ g.node[v].siblings = h.node[v].siblings
                               /\ g.node[v].children = h.node[v].children
                               /\ g.node[v].final = h.node[v].final
                               /\ g.node[v] \in NodeType(Len(h.forest))
  BY <1>1, <1>3, <1>4, HeapParts
<1>6. SameValues(g, h)
  BY <1>2, <1>3, <1>5 DEF SameValues
<1>7. HeapTyped(g, V)
  <2>1. g.node \in [DOMAIN g.node -> NodeType(Len(g.forest))]
    BY <1>2, <1>3, <1>5
  <2> QED BY <1>1, <1>2, <1>3, <2>1 DEF HeapTyped
<1>8. Attached(g)
  BY <1>1, <1>2, <1>3, <1>5 DEF Attached
<1>9. \A v : InFinal(h, v) => InFinal(g, v)
  BY <1>2, <1>3, <1>5 DEF InFinal
<1>11. ListedOnce(g)
  BY <1>1, <1>2 DEF ListedOnce
<1>10. HeapInv(g, V, B, changed)
  BY <1>11, <1>6, <1>7, <1>8, <1>9, Rearranged
<1> QED BY <1>10 DEF g

\* No data is no content.
LEMMA ContentNone ==
  ASSUME NEW h, CellsOK(h)
  PROVE  Content(h, 0) = <<>>
<1>1. Len(h.cell) \in Nat
  BY DEF CellsOK
<1>2. HasContent(h, 0) /\ Data(h, 0) = <<>>
  BY <1>1, ContentUnfolds, DataParts
<1> QED BY <1>2 DEF HasContent

\* The node of u is new, the others and the trees are as before.
NodeMade(g, h, u, V, B, changed) ==
  /\ HeapInv(g, V, B, changed) /\ DOMAIN g.node = DOMAIN h.node \cup {u} /\ g.tree = h.tree

\* A new node has no children, or those of the tree of its update.
LEMMA NodeInv ==
  ASSUME NEW V, NEW B, NEW changed, NEW h, HeapInv(h, V, B, changed), NEW u \in Updates,
         NEW fin \in BOOLEAN,
         NEW new \in ForestType(V, Len(h.cell)), new.list = <<>>, new.final => new.cell # 0,
         \/ new.cell = 0 /\ new.hash = <<>>
         \/ /\ fin = TRUE /\ u \in DOMAIN h.tree
            /\ new.hash = h.forest[h.tree[u]].hash /\ new.cell = h.forest[h.tree[u]].cell
  PROVE  NodeMade(Node(h, u, fin, new), h, u, V, B, changed)
<1> DEFINE g == Node(h, u, fin, new)
           n == Len(h.forest) + 1
           old == IF u \in DOMAIN h.node THEN h.node[u] ELSE [siblings |-> 0, dummy |-> FALSE]
           node == [final |-> fin, children |-> n, siblings |-> old.siblings, dummy |-> old.dummy]
<1>1. /\ HeapTyped(h, V) /\ CellsAreEarlier(h) /\ Attached(h) /\ OneOwner(h) /\ Placed(h, B)
      /\ Copies(h) /\ (changed \/ Sound(h))
      /\ ListedOnce(h) /\ InOnePlace(h, B)
      /\ CellsOK(h) /\ RootAndFinals(h)
  BY TypedCells DEF HeapInv
<1>2. /\ Len(h.forest) \in Nat /\ Len(h.cell) \in Nat /\ Len(Append(h.forest, new)) = n
      /\ Append(h.forest, new) \in Seq(ForestType(V, Len(h.cell)))
      /\ Append(h.forest, new)[n] = new /\ \A f \in 1..Len(h.forest) :
         Append(h.forest, new)[f] = h.forest[f]
  <2> DEFINE T == ForestType(V, Len(h.cell))
             q == h.forest
  <2>1. q \in Seq(T) /\ Len(h.cell) \in Nat /\ new \in T
    BY <1>1, HeapParts DEF HeapTyped
  <2> HIDE DEF T, q
  <2>2. /\ Len(q) \in Nat /\ Len(Append(q, new)) = Len(q) + 1 /\ Append(q, new) \in Seq(T)
        /\ Append(q, new)[Len(q) + 1] = new /\ \A f \in 1..Len(q) : Append(q, new)[f] = q[f]
    BY <2>1
  <2> QED BY <2>1, <2>2 DEF T, q
<1>3. /\ g.forest = Append(h.forest, new) /\ g.node = With(h.node, u, node) /\ g.cell = h.cell
      /\ g.tree = h.tree
      /\ g = [node |-> g.node, forest |-> g.forest, cell |-> g.cell, tree |-> g.tree]
  <2>1. h = [node |-> h.node, forest |-> h.forest, cell |-> h.cell, tree |-> h.tree]
    BY <1>1 DEF HeapTyped
  <2> DEFINE t == NewForest(h, new)
  <2>2. t = [h EXCEPT !.forest = Append(@, new)]
    BY DEF NewForest
  <2>3. t = [node |-> h.node, forest |-> Append(h.forest, new), cell |-> h.cell, tree |-> h.tree]
    BY <2>1, <2>2
  <2>4. g = [t EXCEPT !.node = With(@, u,
              [final |-> fin, children |-> Len(t.forest),
               siblings |-> old.siblings, dummy |-> old.dummy])]
    BY DEF Node
  <2>5. Len(t.forest) = n
    BY <1>2, <2>3
  <2>6. g = [t EXCEPT !.node = With(@, u, node)]
    BY <2>4, <2>5
  <2> HIDE DEF g, t, node
  <2> QED BY <2>3, <2>6
<1> HIDE DEF g
<1>4. /\ DOMAIN g.node = DOMAIN h.node \cup {u} /\ g.node[u] = node
      /\ \A v \in DOMAIN h.node : v # u => g.node[v] = h.node[v]
  <2> HIDE DEF node
  <2> QED BY <1>3 DEF With
<1>5. /\ old.siblings \in 0..Len(h.forest) /\ old.dummy \in BOOLEAN
      /\ u \in DOMAIN h.node => old.siblings = h.node[u].siblings
  <2>1. CASE u \in DOMAIN h.node
    BY <1>1, <2>1, HeapParts DEF NodeType
  <2>2. CASE u \notin DOMAIN h.node
    BY <1>2, <2>2
  <2> QED BY <2>1, <2>2
<1> HIDE DEF old
<1>6. /\ g.node[u] \in NodeType(n) /\ g.node[u].children = n
      /\ g.node[u].siblings = old.siblings /\ g.node[u].final = fin
  BY <1>2, <1>4, <1>5 DEF NodeType
<1> HIDE DEF node
<1>7. /\ Len(g.forest) = n /\ g.forest[n] = new /\ \A f \in 1..Len(h.forest) :
         g.forest[f] = h.forest[f]
      /\ \A f \in 1..n : f = n \/ f \in 1..Len(h.forest)
  BY <1>2, <1>3
<1>8. ASSUME NEW v \in DOMAIN h.node
      PROVE  /\ h.node[v] \in NodeType(n) /\ h.node[v].siblings \in 0..Len(h.forest)
                /\ h.node[v].children \in 1..Len(h.forest)
             /\ v \in DOMAIN g.node /\ g.node[v].siblings = h.node[v].siblings
  <2>1. h.node[v] \in NodeType(Len(h.forest))
    BY <1>1, HeapParts
  <2>2. /\ h.node[v] \in NodeType(n) /\ h.node[v].siblings \in 0..Len(h.forest)
        /\ h.node[v].children \in 1..Len(h.forest)
    BY <1>2, <2>1 DEF NodeType
  <2>3. v \in DOMAIN g.node /\ g.node[v].siblings = h.node[v].siblings
    BY <1>4, <1>5, <1>6
  <2> QED BY <2>2, <2>3
<1>9. HeapTyped(g, V)
  <2>1. g.node \in [DOMAIN g.node -> NodeType(n)]
    <3>1. \A v \in DOMAIN g.node : g.node[v] \in NodeType(n)
      BY <1>4, <1>6, <1>8
    <3>2. g.node = [v \in DOMAIN g.node |-> g.node[v]]
      BY <1>3 DEF With
    <3> QED BY <3>1, <3>2
  <2>2. h.tree \in [DOMAIN h.tree -> 1..n]
    <3>1. h.tree \in [DOMAIN h.tree -> 1..Len(h.forest)]
      BY <1>1 DEF HeapTyped
    <3>2. 1..Len(h.forest) \subseteq 1..n
      BY <1>2
    <3> HIDE DEF n
    <3> QED BY <3>1, <3>2
  <2> QED BY <1>1, <1>2, <1>3, <1>4, <1>7, <2>1, <2>2 DEF HeapTyped
<1>10. Attached(g)
  <2> SUFFICES ASSUME NEW f \in 1..n, NEW k \in 1..Len(g.forest[f].list)
               PROVE  g.forest[f].list[k] \in DOMAIN g.node
                      /\ g.node[g.forest[f].list[k]].siblings = f
    BY <1>7 DEF Attached
  <2>1. f \in 1..Len(h.forest) /\ g.forest[f] = h.forest[f]
    <3>1. f # n
      <4>1. Len(<<>>) = 0 /\ 1..0 = {}
        BY EmptySeq
      <4> QED BY <1>7, <4>1
    <3> QED BY <1>7, <3>1
  <2>2. h.forest[f].list[k] \in DOMAIN h.node /\ h.node[h.forest[f].list[k]].siblings = f
    BY <1>1, <2>1 DEF Attached
  <2> QED BY <1>8, <2>1, <2>2
<1>11. ASSUME NEW v, NEW f \in 1..n, Owns(g, v, f)
       PROVE  (f \in 1..Len(h.forest) /\ Owns(h, v, f)) \/ (f = n /\ v = u)
  <2>1. CASE v \in DOMAIN h.tree /\ h.tree[v] = f
    BY <1>1, <2>1, HeapParts DEF Owns
  <2>2. CASE v \in DOMAIN g.node /\ g.node[v].children = f
    BY <1>4, <1>6, <1>8, <2>2 DEF Owns
  <2> QED BY <1>3, <1>11, <2>1, <2>2 DEF Owns
<1>12. u \in DOMAIN h.tree => h.tree[u] \in 1..Len(h.forest) /\ Owns(h, u, h.tree[u])
  BY <1>1, HeapParts DEF Owns
<1>13. ASSUME NEW v, NEW c \in 1..Len(h.cell), RefersTo(g, v, c) PROVE RefersTo(h, v, c)
  <2>1. CASE \E d \in 1..Len(g.cell) : \E k \in 1..Len(g.cell[d]) :
             g.cell[d][k].id = v /\ g.cell[d][k].cell = c
    BY <1>3, <2>1 DEF RefersTo
  <2>2. CASE \E f \in 1..Len(g.forest) : Owns(g, v, f) /\ g.forest[f].cell = c
    <3>1. PICK f \in 1..n : Owns(g, v, f) /\ g.forest[f].cell = c
      BY <1>7, <2>2
    <3>2. CASE f \in 1..Len(h.forest) /\ Owns(h, v, f)
      BY <1>7, <3>1, <3>2 DEF RefersTo
    <3>3. CASE f = n /\ v = u
      <4>1. new.cell = c /\ c # 0
        BY <1>2, <1>7, <3>1, <3>3
      <4>2. u \in DOMAIN h.tree /\ h.forest[h.tree[u]].cell = c
        BY <4>1
      <4> QED BY <1>12, <3>3, <4>2 DEF RefersTo
    <3> QED BY <1>11, <3>1, <3>2, <3>3
  <2> QED BY <1>13, <2>1, <2>2 DEF RefersTo
<1>14. OneOwner(g)
  <2>1. ASSUME NEW f \in 1..n, NEW v \in Updates \cup {Root}, NEW w \in Updates \cup {Root},
               Owns(g, v, f), Owns(g, w, f)
        PROVE  v = w
    <3>1. f = n => v = u /\ w = u
      BY <1>2, <1>11, <2>1
    <3>2. f # n => f \in 1..Len(h.forest) /\ Owns(h, v, f) /\ Owns(h, w, f)
      BY <1>11, <2>1
    <3> QED BY <1>1, <3>1, <3>2 DEF OneOwner
  <2>2. ASSUME NEW c \in 1..Len(h.cell), NEW v \in Updates \cup {Root},
               NEW w \in Updates \cup {Root}, RefersTo(g, v, c), RefersTo(g, w, c)
        PROVE  v = w
    BY <1>1, <1>13, <2>2 DEF OneOwner
  <2> QED BY <1>3, <1>7, <2>1, <2>2 DEF OneOwner
<1>15. ASSUME NEW v, InFinal(h, v) PROVE InFinal(g, v)
  <2>1. v \in DOMAIN h.node /\ h.node[v].siblings # 0 /\ h.forest[h.node[v].siblings].final
    BY <1>15 DEF InFinal
  <2>2. h.node[v].siblings \in 1..Len(h.forest)
    BY <1>2, <1>8, <2>1
  <2> QED BY <1>7, <1>8, <2>1, <2>2 DEF InFinal
<1>16. Placed(g, B) /\ CellsAreEarlier(g) /\ InOnePlace(g, B)
  BY <1>1, <1>3, <1>15 DEF Placed, CellsAreEarlier, InOnePlace
<1>21. ListedOnce(g)
  <2>1. NoRepeats(new.list)
    BY EmptySeq DEF NoRepeats
  <2> QED BY <1>1, <1>7, <2>1 DEF ListedOnce
<1>17. Copies(g)
  <2> SUFFICES ASSUME NEW v \in DOMAIN h.tree
               PROVE  /\ g.forest[h.tree[v]].cell # 0
                      /\ v \in DOMAIN g.node /\ g.node[v].children # h.tree[v]
                         /\ g.forest[g.node[v].children].cell = g.forest[h.tree[v]].cell
                            => g.node[v].final
    BY <1>3 DEF Copies
  <2>1. h.tree[v] \in 1..Len(h.forest) /\ g.forest[h.tree[v]] = h.forest[h.tree[v]]
        /\ h.forest[h.tree[v]].cell # 0
    BY <1>1, <1>7, HeapParts DEF Copies
  <2>2. CASE v = u
    <3>1. g.node[v].final = fin /\ g.forest[g.node[v].children] = new
      BY <1>6, <1>7, <2>2
    <3> QED BY <2>1, <3>1
  <2>3. CASE v # u
    <3>1. v \in DOMAIN g.node => v \in DOMAIN h.node /\ g.node[v] = h.node[v]
          /\ h.node[v].children \in 1..Len(h.forest)
      BY <1>4, <1>8, <2>3
    <3> QED BY <1>1, <1>7, <2>1, <3>1 DEF Copies
  <2> QED BY <2>2, <2>3
<1>18. ASSUME ~changed PROVE Sound(g)
  <2>1. \A c \in 0..Len(h.cell) : Content(g, c) = Content(h, c)
    BY <1>1, <1>3, SameCells DEF SameContent
  <2>2. ASSUME NEW c \in 1..Len(h.cell), NEW k \in 1..Len(h.cell[c])
        PROVE  h.cell[c][k].hash = Content(g, h.cell[c][k].cell)
    <3>1. h.cell[c][k].cell \in 0..c - 1 /\ Len(h.cell) \in Nat
      BY <1>1, HeapParts DEF CellsAreEarlier
    <3>2. h.cell[c][k].cell \in 0..Len(h.cell)
      BY <3>1
    <3> QED BY <1>1, <1>18, <2>1, <3>2 DEF Sound
  <2>3. ASSUME NEW f \in 1..Len(h.forest), NEW v \in Updates \cup {Root}, Owns(h, v, f)
        PROVE  h.forest[f].hash = Content(g, h.forest[f].cell)
    <3>1. h.forest[f].cell \in 0..Len(h.cell)
      BY <1>1, HeapParts DEF ForestType
    <3> QED BY <1>1, <1>18, <2>1, <2>3, <3>1 DEF Sound
  <2>4. new.hash = Content(g, new.cell)
    <3>1. CASE new.cell = 0 /\ new.hash = <<>>
      <4>1. Content(g, 0) = Content(h, 0) /\ Content(h, 0) = <<>>
        BY <1>1, <1>2, <2>1, ContentNone
      <4> QED BY <3>1, <4>1
    <3>2. CASE u \in DOMAIN h.tree /\ new.hash = h.forest[h.tree[u]].hash
               /\ new.cell = h.forest[h.tree[u]].cell
      BY <1>12, <2>3, <3>2
    <3> QED BY <3>1, <3>2
  <2>5. ASSUME NEW f \in 1..n, NEW v \in Updates \cup {Root}, Owns(g, v, f)
        PROVE  g.forest[f].hash = Content(g, g.forest[f].cell)
    BY <1>7, <1>11, <2>3, <2>4, <2>5
  <2> QED BY <1>3, <1>7, <2>2, <2>5 DEF Sound
<1>20. RootAndFinals(g)
  <2>1. g.node[Root] = h.node[Root]
    BY <1>1, <1>4, UpdatesAssumption DEF HeapTyped
  <2> QED BY <1>1, <1>7, <2>1 DEF RootAndFinals
<1>19. HeapInv(g, V, B, changed)
  BY <1>20, <1>21, <1>9, <1>10, <1>14, <1>16, <1>17, <1>18 DEF HeapInv
<1> QED BY <1>3, <1>4, <1>19 DEF g, NodeMade

\* In g forest f, of h or a new one, is final with the data, of trees that h has.
BecomesFinal(g, h, f, data) ==
  /\ g = [node |-> h.node, forest |-> g.forest, cell |-> Append(h.cell, data), tree |-> h.tree]
  /\ Len(g.forest) \in Nat /\ g.forest = [i \in 1..Len(g.forest) |-> g.forest[i]]
  /\ 1..Len(g.forest) = 1..Len(h.forest) \cup {f}
  /\ g.forest[f] = Final(HashOf(data), Len(h.cell) + 1)
  /\ \A i \in 1..Len(h.forest) : i # f => g.forest[i] = h.forest[i]

AreTrees(h, data) ==
  \A k \in 1..Len(data) : \E i \in 1..Len(h.forest) :
    Owns(h, data[k].id, i) /\ data[k].hash = h.forest[i].hash /\ data[k].cell = h.forest[i].cell

\* Types grow with the hashes and the data that there are.
LEMMA WiderTypes ==
  ASSUME NEW V, NEW W, V \subseteq W, NEW m \in Nat, NEW n \in Nat, m <= n
  PROVE  /\ ForestType(V, m) \subseteq ForestType(W, n)
         /\ Seq(ElementType(V)) \subseteq Seq(ElementType(W))
         /\ Seq(Seq(ElementType(V))) \subseteq Seq(Seq(ElementType(W)))
<1>1. 0..m \subseteq 0..n
  OBVIOUS
<1>2. ForestType(V, m) \subseteq ForestType(W, n)
  BY <1>1 DEF ForestType
<1>3. ElementType(V) \subseteq ElementType(W)
  BY DEF ElementType
<1>4. \A S, T : S \subseteq T => Seq(S) \subseteq Seq(T)
  OBVIOUS
<1> QED BY <1>2, <1>3, <1>4

\* The update of the k-th tree is in the data nowhere else, and in none before it.
NewInData(h, data, k) ==
  /\ \A j \in 1..Len(data) : data[j].id = data[k].id => j = k
  /\ \A c \in 1..Len(h.cell) : \A j \in 1..Len(h.cell[c]) : h.cell[c][j].id # data[k].id

\* A forest that becomes final has the hash of its data, and the data of every
\* other one stays as it is.
LEMMA FinalForestInv ==
  ASSUME NEW V, NEW B, NEW changed, NEW C, B \subseteq C, NEW h, HeapInv(h, V, B, changed), NEW g,
         NEW f \in 1..Len(h.forest) + 1, NEW data \in Seq(ElementType(V)),
         BecomesFinal(g, h, f, data), AreTrees(h, data),
         \A k \in 1..Len(data) :
           data[k].id \in C \/ (InFinal(g, data[k].id) /\ NewInData(h, data, k))
  PROVE  HeapInv(g, V \cup {HashOf(data)}, C, changed)
<1> DEFINE W == V \cup {HashOf(data)}
           new == Final(HashOf(data), Len(h.cell) + 1)
           n == Len(g.forest)
           c == Len(h.cell) + 1
<1>1. /\ HeapTyped(h, V) /\ CellsAreEarlier(h) /\ Attached(h) /\ OneOwner(h) /\ Placed(h, B)
      /\ Copies(h) /\ (changed \/ Sound(h))
      /\ ListedOnce(h) /\ InOnePlace(h, B)
      /\ CellsOK(h) /\ RootAndFinals(h)
  BY TypedCells DEF HeapInv
<1>2. Len(h.forest) \in Nat /\ Len(h.cell) \in Nat /\ c \in Nat /\ c # 0
  BY <1>1, HeapParts
<1>3. /\ Append(h.cell, data) \in Seq(Seq(ElementType(V))) /\ Len(Append(h.cell, data)) = c
      /\ Append(h.cell, data)[c] = data /\ \A d \in 1..Len(h.cell) :
         Append(h.cell, data)[d] = h.cell[d]
      /\ \A d \in 1..c : d = c \/ d \in 1..Len(h.cell)
  <2> DEFINE q == h.cell
             T == Seq(ElementType(V))
  <2>1. q \in Seq(T) /\ data \in T
    BY <1>1 DEF HeapTyped
  <2> HIDE DEF q, T
  <2>2. /\ Len(q) \in Nat /\ Append(q, data) \in Seq(T) /\ Len(Append(q, data)) = Len(q) + 1
        /\ Append(q, data)[Len(q) + 1] = data /\ \A d \in 1..Len(q) : Append(q, data)[d] = q[d]
    BY <2>1
  <2>3. \A d \in 1..Len(q) + 1 : d = Len(q) + 1 \/ d \in 1..Len(q)
    BY <2>2
  <2> QED BY <2>2, <2>3 DEF q, T
<1>4. /\ g.node = h.node /\ g.tree = h.tree /\ g.cell = Append(h.cell, data)
      /\ g = [node |-> g.node, forest |-> g.forest, cell |-> g.cell, tree |-> g.tree]
      /\ n \in Nat /\ g.forest = [i \in 1..n |-> g.forest[i]] /\ 1..n = 1..Len(h.forest) \cup {f}
      /\ g.forest[f] = new /\ \A i \in 1..Len(h.forest) : i # f => g.forest[i] = h.forest[i]
  <2>1. g = [node |-> h.node, forest |-> g.forest, cell |-> Append(h.cell, data), tree |-> h.tree]
    BY DEF BecomesFinal
  <2>2. g.node = h.node /\ g.tree = h.tree /\ g.cell = Append(h.cell, data)
    BY <2>1
  <2> QED BY <2>1, <2>2 DEF BecomesFinal
<1>5. Len(g.cell) = c /\ g.cell[c] = data /\ \A d \in 1..Len(h.cell) : g.cell[d] = h.cell[d]
  BY <1>3, <1>4
<1>6. /\ new.final = TRUE /\ new.list = <<>> /\ new.hash = HashOf(data) /\ new.cell = c
      /\ new \in ForestType(W, c)
  <2>1. /\ new.final = TRUE /\ new.list = <<>> /\ new.hash = HashOf(data) /\ new.cell = c
        /\ new = [final |-> TRUE, list |-> <<>>, hash |-> HashOf(data), cell |-> c]
    BY DEF Final
  <2>2. HashOf(data) \in W /\ c \in 0..c /\ <<>> \in Seq(Updates)
    BY <1>2, EmptySeq
  <2> HIDE DEF new, W, c
  <2> QED BY <2>1, <2>2 DEF ForestType
<1> HIDE DEF new
<1>7. ASSUME NEW k \in 1..Len(data)
      PROVE  data[k].id \in Updates /\ data[k].hash \in V /\ data[k].cell \in 0..Len(h.cell)
  <2>1. data[k] \in ElementType(V)
    OBVIOUS
  <2>2. PICK i \in 1..Len(h.forest) : data[k].cell = h.forest[i].cell
    BY DEF AreTrees
  <2>3. h.forest[i].cell \in 0..Len(h.cell)
    BY <1>1, HeapParts DEF ForestType
  <2> QED BY <2>1, <2>2, <2>3 DEF ElementType
<1>8. HeapTyped(g, W)
  <2>1. ForestType(V, Len(h.cell)) \subseteq ForestType(W, c)
        /\ Seq(Seq(ElementType(V))) \subseteq Seq(Seq(ElementType(W)))
    <3>1. V \subseteq W /\ Len(h.cell) <= c
      BY <1>2
    <3> HIDE DEF W, c
    <3> QED BY <1>2, <3>1, WiderTypes
  <2>2. g.forest \in Seq(ForestType(W, c))
    <3>1. \A i \in 1..n : g.forest[i] \in ForestType(W, c)
      BY <1>1, <1>4, <1>6, <2>1, HeapParts
    <3> DEFINE q == g.forest
               T == ForestType(W, c)
    <3>2. n \in Nat /\ q = [i \in 1..n |-> q[i]] /\ \A i \in 1..n : q[i] \in T
      BY <1>4, <3>1
    <3> HIDE DEF n, c, W, q, T
    <3>3. q \in [1..n -> T]
      BY <3>2
    <3>4. q \in Seq(T)
      BY <3>2, <3>3, SeqDef
    <3> QED BY <3>4 DEF q, T
  <2>3. g.cell \in Seq(Seq(ElementType(W)))
    BY <1>3, <1>4, <2>1
  <2>4. 1..Len(h.forest) \subseteq 1..n /\ 0..Len(h.forest) \subseteq 0..n
    BY <1>2, <1>4
  <2>5. h.node \in [DOMAIN h.node -> NodeType(n)] /\ h.tree \in [DOMAIN h.tree -> 1..n]
    <3>1. NodeType(Len(h.forest)) \subseteq NodeType(n)
      BY <2>4 DEF NodeType
    <3>2. h.node \in [DOMAIN h.node -> NodeType(Len(h.forest))]
          /\ h.tree \in [DOMAIN h.tree -> 1..Len(h.forest)]
      BY <1>1 DEF HeapTyped
    <3> HIDE DEF n
    <3> QED BY <2>4, <3>1, <3>2
  <2>6. <<>> \in W /\ DOMAIN h.node \subseteq Updates \cup {Root} /\ Root \in DOMAIN h.node
        /\ DOMAIN h.tree \subseteq Updates
    BY <1>1 DEF HeapTyped
  <2> HIDE DEF W
  <2> QED BY <1>4, <1>5, <2>2, <2>3, <2>5, <2>6 DEF HeapTyped
<1>9. CellsAreEarlier(g)
  <2> SUFFICES ASSUME NEW d \in 1..c, NEW k \in 1..Len(g.cell[d])
               PROVE g.cell[d][k].cell \in 0..d - 1
    BY <1>5 DEF CellsAreEarlier
  <2>1. CASE d = c
    BY <1>2, <1>5, <1>7, <2>1
  <2>2. CASE d \in 1..Len(h.cell)
    BY <1>1, <1>5, <2>2 DEF CellsAreEarlier
  <2> QED BY <1>3, <2>1, <2>2
<1>10. Attached(g)
  <2> SUFFICES ASSUME NEW i \in 1..n, NEW k \in 1..Len(g.forest[i].list)
               PROVE  g.forest[i].list[k] \in DOMAIN g.node
                      /\ g.node[g.forest[i].list[k]].siblings = i
    BY DEF Attached
  <2>1. i # f
    <3>1. Len(<<>>) = 0 /\ 1..0 = {}
      BY EmptySeq
    <3> QED BY <1>4, <1>6, <3>1
  <2>2. i \in 1..Len(h.forest) /\ g.forest[i] = h.forest[i]
    BY <1>4, <2>1
  <2> QED BY <1>1, <1>4, <2>2 DEF Attached
<1>11. \A v, i : Owns(g, v, i) <=> Owns(h, v, i)
  BY <1>4 DEF Owns
<1>12. ASSUME NEW v, NEW i, Owns(h, v, i) PROVE i \in 1..Len(h.forest)
  BY <1>1, <1>12, HeapParts DEF Owns, NodeType
<1>13. ASSUME NEW v, NEW d \in 1..Len(h.cell), RefersTo(g, v, d) PROVE RefersTo(h, v, d)
  <2>1. ASSUME NEW e \in 1..c, NEW k \in 1..Len(g.cell[e]), g.cell[e][k].id = v,
               g.cell[e][k].cell = d
        PROVE  RefersTo(h, v, d)
    <3>1. CASE e = c
      <4>1. g.cell[e] = data
        BY <1>5, <3>1
      <4>2. PICK i \in 1..Len(h.forest) : Owns(h, data[k].id, i) /\ data[k].cell = h.forest[i].cell
        BY <2>1, <4>1 DEF AreTrees
      <4> QED BY <2>1, <4>1, <4>2 DEF RefersTo
    <3>2. CASE e \in 1..Len(h.cell)
      <4>1. g.cell[e] = h.cell[e]
        BY <1>5, <3>2
      <4> QED BY <2>1, <3>2, <4>1 DEF RefersTo
    <3> QED BY <1>3, <3>1, <3>2
  <2>2. ASSUME NEW i \in 1..n, Owns(g, v, i), g.forest[i].cell = d PROVE RefersTo(h, v, d)
    <3>1. i # f
      BY <1>2, <1>4, <1>6, <2>2
    <3>2. i \in 1..Len(h.forest) /\ g.forest[i] = h.forest[i]
      BY <1>4, <3>1
    <3> QED BY <1>11, <2>2, <3>2 DEF RefersTo
  <2> QED BY <1>5, <1>13, <2>1, <2>2 DEF RefersTo
<1>14. ASSUME NEW v, RefersTo(g, v, c) PROVE Owns(h, v, f) /\ f \in 1..Len(h.forest)
  <2>1. ASSUME NEW e \in 1..c, NEW k \in 1..Len(g.cell[e]) PROVE g.cell[e][k].cell # c
    <3>1. g.cell[e][k].cell \in 0..e - 1
      BY <1>5, <1>9 DEF CellsAreEarlier
    <3> QED BY <1>2, <3>1
  <2>2. PICK i \in 1..n : Owns(g, v, i) /\ g.forest[i].cell = c
    BY <1>5, <1>14, <2>1 DEF RefersTo
  <2>3. i \in 1..Len(h.forest)
    BY <1>11, <1>12, <2>2
  <2>4. i = f
    <3> SUFFICES ASSUME i # f PROVE FALSE
      OBVIOUS
    <3>1. h.forest[i].cell = c
      BY <1>4, <2>2, <2>3
    <3>2. h.forest[i].cell \in 0..Len(h.cell)
      BY <1>1, <2>3, HeapParts DEF ForestType
    <3> QED BY <1>2, <3>1, <3>2
  <2> QED BY <1>11, <2>2, <2>3, <2>4
<1>15. OneOwner(g)
  <2>1. ASSUME NEW i \in 1..n, NEW v \in Updates \cup {Root}, NEW w \in Updates \cup {Root},
               Owns(g, v, i), Owns(g, w, i)
        PROVE  v = w
    BY <1>1, <1>11, <1>12, <2>1 DEF OneOwner
  <2>2. ASSUME NEW d \in 1..c, NEW v \in Updates \cup {Root}, NEW w \in Updates \cup {Root},
               RefersTo(g, v, d), RefersTo(g, w, d)
        PROVE  v = w
    <3>1. CASE d = c
      BY <1>1, <1>14, <2>2, <3>1 DEF OneOwner
    <3>2. CASE d \in 1..Len(h.cell)
      BY <1>1, <1>13, <2>2, <3>2 DEF OneOwner
    <3> QED BY <1>3, <3>1, <3>2
  <2> QED BY <1>5, <2>1, <2>2 DEF OneOwner
<1>16. ASSUME NEW v, InFinal(h, v) PROVE InFinal(g, v)
  <2>1. v \in DOMAIN h.node /\ h.node[v].siblings # 0 /\ h.forest[h.node[v].siblings].final
    BY <1>16 DEF InFinal
  <2>2. h.node[v].siblings \in 1..Len(h.forest)
    <3>1. h.node[v].siblings \in 0..Len(h.forest)
      BY <1>1, <2>1, HeapParts DEF NodeType
    <3> QED BY <1>2, <2>1, <3>1
  <2>3. g.forest[h.node[v].siblings].final
    BY <1>4, <1>6, <2>1, <2>2
  <2> QED BY <1>4, <2>1, <2>3 DEF InFinal
<1>17. Placed(g, C)
  <2> SUFFICES ASSUME NEW d \in 1..c, NEW k \in 1..Len(g.cell[d])
               PROVE  g.cell[d][k].id \in C \/ InFinal(g, g.cell[d][k].id)
    BY <1>5 DEF Placed
  <2>1. CASE d = c
    BY <1>5, <2>1
  <2>2. CASE d \in 1..Len(h.cell)
    BY <1>1, <1>5, <1>16, <2>2 DEF Placed
  <2> QED BY <1>3, <2>1, <2>2
<1>18. ASSUME NEW i \in 1..Len(h.forest)
       PROVE  /\ h.forest[i].cell \in 0..Len(h.cell) /\ h.forest[i].cell # c
              /\ i = f => g.forest[i].cell = c /\ c # 0
              /\ i # f => g.forest[i] = h.forest[i]
  <2>1. h.forest[i].cell \in 0..Len(h.cell)
    BY <1>1, HeapParts DEF ForestType
  <2> QED BY <1>2, <1>4, <1>6, <2>1
<1>19. Copies(g)
  <2> SUFFICES ASSUME NEW v \in DOMAIN h.tree
               PROVE  /\ g.forest[h.tree[v]].cell # 0
                      /\ v \in DOMAIN h.node /\ h.node[v].children # h.tree[v]
                         /\ g.forest[h.node[v].children].cell = g.forest[h.tree[v]].cell
                            => h.node[v].final
    BY <1>4 DEF Copies
  <2>1. h.tree[v] \in 1..Len(h.forest)
        /\ (v \in DOMAIN h.node => h.node[v].children \in 1..Len(h.forest))
    BY <1>1, HeapParts DEF NodeType
  <2> DEFINE i == h.tree[v]
             j == h.node[v].children
  <2>2. /\ h.forest[i].cell # 0
        /\ v \in DOMAIN h.node /\ j # i /\ h.forest[j].cell = h.forest[i].cell => h.node[v].final
    BY <1>1 DEF Copies
  <2>3. i \in 1..Len(h.forest) /\ (v \in DOMAIN h.node => j \in 1..Len(h.forest))
    BY <2>1
  <2> HIDE DEF c, i, j
  <2>4. g.forest[i].cell # 0
    BY <1>18, <2>2, <2>3
  <2>5. v \in DOMAIN h.node /\ j # i /\ g.forest[j].cell = g.forest[i].cell => h.node[v].final
    BY <1>18, <2>2, <2>3
  <2> QED BY <2>4, <2>5 DEF i, j
<1>27. InOnePlace(g, C)
  <2> SUFFICES ASSUME NEW a \in 1..c, NEW d \in 1..c, NEW j \in 1..Len(g.cell[a]),
                      NEW k \in 1..Len(g.cell[d]), g.cell[a][j].id = g.cell[d][k].id,
                      g.cell[a][j].id \notin C
               PROVE  a = d /\ j = k
    <3>1. Len(g.cell) = c
      BY <1>5
    <3> HIDE DEF c, n, W
    <3> QED BY <3>1 DEF InOnePlace
  <2>1. CASE a \in 1..Len(h.cell) /\ d \in 1..Len(h.cell)
    <3>1. g.cell[a] = h.cell[a] /\ g.cell[d] = h.cell[d]
      BY <1>5, <2>1
    <3>2. h.cell[a][j].id \in B \/ (a = d /\ j = k)
      BY <1>1, <2>1, <3>1 DEF InOnePlace
    <3> QED BY <3>1, <3>2
  <2>2. ASSUME NEW i \in 1..Len(data), NEW b \in 1..Len(h.cell), NEW m \in 1..Len(h.cell[b]),
               h.cell[b][m].id = data[i].id, data[i].id \notin C
        PROVE  FALSE
    BY <2>2 DEF NewInData
  <2>3. CASE a = c /\ d = c
    BY <1>5, <2>3 DEF NewInData
  <2>4. CASE a = c /\ d \in 1..Len(h.cell)
    BY <1>5, <2>2, <2>4
  <2>5. CASE a \in 1..Len(h.cell) /\ d = c
    BY <1>5, <2>2, <2>5
  <2> QED BY <1>3, <2>1, <2>3, <2>4, <2>5
<1>28. ListedOnce(g)
  <2>1. NoRepeats(new.list)
    BY <1>6, EmptySeq DEF NoRepeats
  <2>2. \A i \in 1..n : i = f \/ (i \in 1..Len(h.forest) /\ g.forest[i] = h.forest[i])
    BY <1>4
  <2> QED BY <1>1, <1>4, <2>1, <2>2 DEF ListedOnce
<1>20. RootAndFinals(g)
  <2>1. \A i \in 1..n : g.forest[i].final => g.forest[i].cell # 0
    BY <1>1, <1>2, <1>4, <1>6 DEF RootAndFinals
  <2> QED BY <1>1, <1>4, <2>1 DEF RootAndFinals
<1>21. CellsOK(g)
  BY <1>8, <1>9, TypedCells
<1>22. ASSUME NEW d \in 0..Len(h.cell) PROVE Content(g, d) = Content(h, d)
  <2> DEFINE S == 0..Len(h.cell)
  <2>1. S \subseteq 0..Len(g.cell) /\ S \subseteq 0..Len(h.cell)
    BY <1>2, <1>5
  <2>2. \A e \in S : Data(g, e) = Data(h, e)
    BY <1>2, <1>5 DEF Data, NoCell
  <2>3. ASSUME NEW e \in S, NEW k \in DOMAIN Data(h, e) PROVE Data(h, e)[k].cell \in S
    <3>1. Data(h, e)[k].cell \in 0..e - 1
      BY <1>1, DataParts
    <3> QED BY <1>2, <3>1
  <2> HIDE DEF S
  <2>4. SameContent(g, h, S)
    BY <1>1, <1>21, <2>1, <2>2, <2>3, ContentAgrees
  <2> QED BY <2>4 DEF S, SameContent
<1>23. ASSUME ~changed, NEW i \in 1..Len(h.forest), NEW v \in Updates \cup {Root}, Owns(h, v, i)
       PROVE  h.forest[i].hash = Content(g, h.forest[i].cell)
  BY <1>1, <1>18, <1>22, <1>23 DEF Sound
<1>24. ASSUME ~changed, NEW k \in 1..Len(data) PROVE data[k].hash = Content(g, data[k].cell)
  <2>1. PICK i \in 1..Len(h.forest) : Owns(h, data[k].id, i)
             /\ data[k].hash = h.forest[i].hash /\ data[k].cell = h.forest[i].cell
    BY DEF AreTrees
  <2> QED BY <1>7, <1>23, <1>24, <2>1
<1>25. ASSUME ~changed PROVE Content(g, c) = HashOf(data)
  <2>1. Data(g, c) = data /\ c \in 0..Len(g.cell)
    BY <1>2, <1>5 DEF Data, NoCell
  <2>2. HasContent(g, c)
    BY <1>21, <2>1, ContentUnfolds
  <2>3. DOMAIN data = 1..Len(data)
    OBVIOUS
  <2>4. Content(g, c) = [k \in DOMAIN data |-> <<data[k].id, Content(g, data[k].cell)>>]
    BY <2>1, <2>2 DEF HasContent
  <2> HIDE DEF c
  <2> QED BY <1>24, <1>25, <2>3, <2>4 DEF HashOf
<1>26. ASSUME ~changed PROVE Sound(g)
  <2>1. ASSUME NEW d \in 1..c, NEW k \in 1..Len(g.cell[d])
        PROVE g.cell[d][k].hash = Content(g, g.cell[d][k].cell)
    <3>1. CASE d = c
      BY <1>5, <1>24, <1>26, <3>1
    <3>2. CASE d \in 1..Len(h.cell)
      <4>1. g.cell[d] = h.cell[d]
        BY <1>5, <3>2
      <4>2. h.cell[d][k].cell \in 0..d - 1
        BY <1>1, <3>2, <4>1 DEF CellsAreEarlier
      <4>3. h.cell[d][k].cell \in 0..Len(h.cell)
        BY <1>2, <3>2, <4>2
      <4> QED BY <1>1, <1>22, <1>26, <3>2, <4>1, <4>3 DEF Sound
    <3> QED BY <1>3, <3>1, <3>2
  <2>2. ASSUME NEW i \in 1..n, NEW v \in Updates \cup {Root}, Owns(g, v, i)
        PROVE  g.forest[i].hash = Content(g, g.forest[i].cell)
    <3>1. i \in 1..Len(h.forest) /\ Owns(h, v, i)
      BY <1>11, <1>12, <2>2
    <3>2. CASE i = f
      BY <1>4, <1>6, <1>25, <1>26, <3>2
    <3>3. CASE i # f
      BY <1>18, <1>23, <1>26, <3>1, <3>3
    <3> QED BY <3>2, <3>3
  <2> QED BY <1>5, <2>1, <2>2 DEF Sound
<1> QED BY <1>8, <1>9, <1>10, <1>15, <1>17, <1>19, <1>20, <1>26, <1>27, <1>28 DEF HeapInv

\* Nodes and trees are the same, and the invariant holds with some hashes.
SameNodes(g, h) == g.node = h.node /\ g.tree = h.tree /\ Len(g.forest) = Len(h.forest)
SomeInv(h, B, changed) == \E V : HeapInv(h, V, B, changed)

\* finalize of one forest takes the nodes that are in its list, which belong to
\* that list alone.
LEMMA FinalizeOneInv ==
  ASSUME NEW B, NEW changed, NEW h, SomeInv(h, B, changed), NEW f \in 1..Len(h.forest)
  PROVE  /\ SomeInv(FinalizeOne(h, f), B, changed) /\ SameNodes(FinalizeOne(h, f), h)
         /\ FinalizeOne(h, f).forest[f].final
<1> DEFINE g == FinalizeOne(h, f)
           list == h.forest[f].list
           at == {k \in DOMAIN list : ~h.node[list[k]].dummy}
           kept == Selected(at, list)
           Tree(u) == [id |-> u, hash |-> h.forest[h.node[u].children].hash,
             cell |-> h.forest[h.node[u].children].cell]
           data == [k \in DOMAIN kept |-> Tree(kept[k])]
           new == Final(HashOf(data), Len(h.cell) + 1)
<1>1. CASE h.forest[f].final
  <2>1. g = h
    BY <1>1 DEF FinalizeOne
  <2> QED BY <1>1, <2>1 DEF SameNodes
<1>2. CASE ~h.forest[f].final
  <2>1. PICK V : HeapInv(h, V, B, changed)
    BY DEF SomeInv
  <2>2. HeapTyped(h, V) /\ Attached(h) /\ ListedOnce(h) /\ Placed(h, B)
    BY <2>1 DEF HeapInv
  <2>3. g = [h EXCEPT !.cell = Append(@, data), !.forest[f] = new]
    BY <1>2 DEF FinalizeOne, Hashed
  <2>4. /\ h = [node |-> h.node, forest |-> h.forest, cell |-> h.cell, tree |-> h.tree]
        /\ DOMAIN h.forest = 1..Len(h.forest) /\ Len(h.forest) \in Nat
        /\ h.forest[f].list \in Seq(Updates)
    BY <2>2, HeapParts DEF HeapTyped, ForestType
  <2>5. SelectedElements(at, list) /\ kept \in Seq(Updates) /\ NoRepeats(kept)
    <3>1. NoRepeats(list)
      BY <2>2 DEF ListedOnce
    <3> HIDE DEF list, at
    <3> QED BY <2>4, <3>1, SelectedFrom, SelectedNoRepeats DEF list
  <2>6. ASSUME NEW k \in 1..Len(kept)
        PROVE  kept[k] \in Updates /\ kept[k] \in DOMAIN h.node /\ h.node[kept[k]].siblings = f
    <3>1. PICK i \in 1..Len(list) : kept[k] = list[i]
      BY <2>5 DEF SelectedElements
    <3>2. kept[k] \in Updates
      <4> HIDE DEF kept
      <4> QED BY <2>5
    <3> QED BY <2>2, <3>1, <3>2 DEF Attached
  <2>7. ASSUME NEW u \in DOMAIN h.node, u \in Updates
        PROVE  /\ Tree(u) \in ElementType(V) /\ Tree(u).id = u
               /\ \E i \in 1..Len(h.forest) : Owns(h, u, i) /\ Tree(u).hash = h.forest[i].hash
                  /\ Tree(u).cell = h.forest[i].cell
    <3> DEFINE c == h.node[u].children
    <3>1. c \in 1..Len(h.forest) /\ Owns(h, u, c) /\ Len(h.cell) \in Nat
      BY <2>2, HeapParts DEF NodeType, Owns
    <3> HIDE DEF c
    <3>2. h.forest[c].hash \in V /\ h.forest[c].cell \in Nat
      BY <2>2, <3>1, HeapParts DEF ForestType
    <3> QED BY <2>7, <3>1, <3>2 DEF ElementType, c
  <2> HIDE DEF Tree, kept
  <2>8. DOMAIN data = 1..Len(kept) /\ Len(kept) \in Nat
    BY <2>5
  <2>9. data \in Seq(ElementType(V)) /\ Len(data) = Len(kept) /\ \A k \in 1..Len(data) :
        data[k] = Tree(kept[k])
    <3>1. \A k \in 1..Len(kept) : Tree(kept[k]) \in ElementType(V)
      BY <2>6, <2>7
    <3>2. data = [k \in 1..Len(kept) |-> Tree(kept[k])]
      BY <2>8
    <3> HIDE DEF data
    <3>3. data \in [1..Len(kept) -> ElementType(V)]
      BY <3>1, <3>2
    <3>4. data \in Seq(ElementType(V))
      BY <2>8, <3>3, SeqDef
    <3>5. Len(data) = Len(kept)
      BY <2>8, <3>3, <3>4, LenProperties
    <3> QED BY <3>2, <3>4, <3>5
  <2> HIDE DEF data, new, g
  <2>10. /\ g = [node |-> h.node, forest |-> g.forest, cell |-> Append(h.cell, data),
            tree |-> h.tree]
         /\ g.forest = [h.forest EXCEPT ![f] = new] /\ g.node = h.node /\ g.tree = h.tree
    BY <2>3, <2>4
  <2>11. /\ Len(g.forest) = Len(h.forest) /\ DOMAIN g.forest = 1..Len(h.forest)
         /\ g.forest[f] = new /\ \A i \in 1..Len(h.forest) : i # f => g.forest[i] = h.forest[i]
         /\ g.forest = [i \in 1..Len(h.forest) |-> g.forest[i]]
    <3>1. DOMAIN g.forest = 1..Len(h.forest) /\ g.forest = [i \in 1..Len(h.forest) |-> g.forest[i]]
      BY <2>4, <2>10
    <3>2. Len(g.forest) = Len(h.forest)
      BY <2>4, <3>1
    <3> QED BY <2>4, <2>10, <3>1, <3>2
  <2>12. BecomesFinal(g, h, f, data)
    <3>1. 1..Len(h.forest) = 1..Len(h.forest) \cup {f}
      OBVIOUS
    <3>2. Len(g.forest) \in Nat /\ g.forest = [i \in 1..Len(g.forest) |-> g.forest[i]]
          /\ 1..Len(g.forest) = 1..Len(h.forest) \cup {f}
      BY <2>4, <2>11, <3>1
    <3> QED BY <2>10, <2>11, <3>2 DEF BecomesFinal, new
  <2>13. AreTrees(h, data)
    <3> SUFFICES ASSUME NEW k \in 1..Len(data)
                 PROVE  \E i \in 1..Len(h.forest) :
                          Owns(h, data[k].id, i) /\ data[k].hash = h.forest[i].hash
                            /\ data[k].cell = h.forest[i].cell
      BY DEF AreTrees
    <3>1. kept[k] \in Updates /\ kept[k] \in DOMAIN h.node /\ data[k] = Tree(kept[k])
      BY <2>6, <2>9
    <3>2. data[k].id = kept[k]
      BY <2>7, <3>1
    <3> QED BY <2>7, <3>1, <3>2
  <2>14. g.forest[f].final
    BY <2>11 DEF new, Final
  <2>15. ASSUME NEW k \in 1..Len(data) PROVE InFinal(g, data[k].id)
    <3>1. /\ kept[k] \in Updates /\ kept[k] \in DOMAIN h.node /\ h.node[kept[k]].siblings = f
          /\ data[k] = Tree(kept[k])
      BY <2>6, <2>9
    <3>2. data[k].id = kept[k]
      BY <2>7, <3>1
    <3> QED BY <2>4, <2>10, <2>14, <3>1, <3>2 DEF InFinal
\* Data that is there is that of updates in final forests, or of values.
  <2>17. ASSUME NEW k \in 1..Len(data) PROVE data[k].id \in B \/ NewInData(h, data, k)
    <3>1. \A j \in 1..Len(data) : kept[j] \in DOMAIN h.node /\ h.node[kept[j]].siblings = f
          /\ data[j].id = kept[j]
      BY <2>6, <2>7, <2>9
    <3>2. \A j \in 1..Len(data) : data[j].id = data[k].id => j = k
      BY <2>5, <2>9, <3>1 DEF NoRepeats
    <3>3. ASSUME NEW c \in 1..Len(h.cell), NEW j \in 1..Len(h.cell[c]),
                 h.cell[c][j].id = data[k].id
          PROVE  data[k].id \in B
      <4>1. data[k].id \in B \/ InFinal(h, data[k].id)
        BY <2>2, <3>3 DEF Placed
      <4>2. ~InFinal(h, data[k].id)
        BY <1>2, <3>1 DEF InFinal
      <4> QED BY <4>1, <4>2
    <3> QED BY <3>2, <3>3 DEF NewInData
  <2>16. HeapInv(g, V \cup {HashOf(data)}, B, changed)
    <3>1. f \in 1..Len(h.forest) + 1
      BY <2>4
    <3> QED BY <2>1, <2>9, <2>12, <2>13, <2>15, <2>17, <3>1, FinalForestInv
  <2> QED BY <2>10, <2>11, <2>14, <2>16 DEF SameNodes, SomeInv, g
<1> QED BY <1>1, <1>2

\* getOrCreate of an account update keeps the invariant ...
LEMMA GetOrCreateInv ==
  ASSUME NEW B, NEW changed, NEW h, SomeInv(h, B, changed), NEW u \in Updates
  PROVE  /\ SomeInv(GetOrCreate(h, u), B, changed) /\ GetOrCreate(h, u).tree = h.tree
         /\ DOMAIN GetOrCreate(h, u).node = DOMAIN h.node \cup {u}
<1>1. CASE u \in DOMAIN h.node /\ ~h.node[u].final
  <2>1. GetOrCreate(h, u) = h
    BY <1>1 DEF GetOrCreate
  <2> QED BY <1>1, <2>1
<1>2. CASE ~(u \in DOMAIN h.node /\ ~h.node[u].final)
  <2>1. GetOrCreate(h, u) = Node(h, u, FALSE, Mutable(<<>>))
    BY <1>2 DEF GetOrCreate
  <2>2. PICK V : HeapInv(h, V, B, changed)
    BY DEF SomeInv
  <2>3. <<>> \in V /\ Len(h.cell) \in Nat /\ <<>> \in Seq(Updates)
    BY <2>2, HeapParts, EmptySeq DEF HeapInv, HeapTyped
  <2>4. /\ Mutable(<<>>) \in ForestType(V, Len(h.cell)) /\ Mutable(<<>>).list = <<>>
        /\ ~Mutable(<<>>).final
        /\ Mutable(<<>>).cell = 0 /\ Mutable(<<>>).hash = <<>>
    BY <2>3 DEF Mutable, ForestType, NoCell
  <2> DEFINE g == Node(h, u, FALSE, Mutable(<<>>))
  <2>5. HeapInv(g, V, B, changed) /\ DOMAIN g.node = DOMAIN h.node \cup {u} /\ g.tree = h.tree
    <3> DEFINE new == Mutable(<<>>)
               fin == FALSE
    <3>1. /\ fin \in BOOLEAN /\ new \in ForestType(V, Len(h.cell)) /\ new.list = <<>>
          /\ (new.final => new.cell # 0) /\ new.cell = 0 /\ new.hash = <<>>
      BY <2>4
    <3> HIDE DEF new, fin
    <3>2. NodeMade(Node(h, u, fin, new), h, u, V, B, changed)
      BY <2>2, <3>1, NodeInv
    <3> QED BY <3>2 DEF new, fin, NodeMade
  <2> QED BY <2>1, <2>5 DEF SomeInv
<1> QED BY <1>1, <1>2

\* ... and that of a tree.
LEMMA GetOrCreateTreeInv ==
  ASSUME NEW B, NEW changed, NEW h, SomeInv(h, B, changed), NEW u \in DOMAIN h.tree
  PROVE  /\ SomeInv(GetOrCreateTree(h, u), B, changed)
         /\ DOMAIN GetOrCreateTree(h, u).node = DOMAIN h.node \cup {u}
<1> DEFINE t == h.forest[h.tree[u]]
           new == Final(t.hash, t.cell)
<1>1. CASE u \in DOMAIN h.node /\ h.node[u].final
  <2>1. GetOrCreateTree(h, u) = h
    BY <1>1 DEF GetOrCreateTree
  <2> QED BY <1>1, <2>1
<1>2. CASE ~(u \in DOMAIN h.node /\ h.node[u].final)
  <2>1. GetOrCreateTree(h, u) = Node(h, u, TRUE, new)
    BY <1>2 DEF GetOrCreateTree
  <2>2. PICK V : HeapInv(h, V, B, changed)
    BY DEF SomeInv
  <2>3. /\ t \in ForestType(V, Len(h.cell)) /\ u \in Updates /\ t.cell # 0 /\ <<>> \in Seq(Updates)
    BY <2>2, HeapParts, EmptySeq DEF HeapInv, Copies
  <2>4. /\ new = [final |-> TRUE, list |-> <<>>, hash |-> t.hash, cell |-> t.cell]
        /\ new.list = <<>> /\ new.hash = t.hash /\ new.cell = t.cell
    BY DEF Final
  <2>5. new \in ForestType(V, Len(h.cell))
    BY <2>3, <2>4 DEF ForestType
  <2> HIDE DEF new
  <2> DEFINE fin == TRUE
  <2>6. fin \in BOOLEAN /\ fin = TRUE /\ (new.final => new.cell # 0)
    BY <2>3, <2>4
  <2> HIDE DEF fin
  <2>7. NodeMade(Node(h, u, fin, new), h, u, V, B, changed)
    BY <2>2, <2>3, <2>4, <2>5, <2>6, NodeInv
  <2> QED BY <2>1, <2>7 DEF SomeInv, fin, NodeMade
<1> QED BY <1>1, <1>2

\* finalize descends to forests of the heap.
LEMMA ForestsBelowTyped ==
  ASSUME NEW B, NEW changed, NEW h, SomeInv(h, B, changed), NEW f \in 1..Len(h.forest)
  PROVE  ForestsBelow(h, f) \in Seq(1..Len(h.forest))
<1> DEFINE M == Cardinality(Updates)
           F == 1..Len(h.forest)
           Below(x, g) == Flattened([k \in DOMAIN h.forest[g].list |->
                           LET c == h.node[h.forest[g].list[k]].children IN Append(x[c], c)])
           E(x, n) == [g \in DOMAIN h.forest |-> IF n = 0 \/ h.forest[g].final THEN <<>>
             ELSE Below(x, g)]
           Body(b, m) == [n \in 0..m |-> E(b[n - 1], n)]
           b0 == CHOOSE b : b = Body(b, M)
           T == {m \in 0..M : \E b : b = Body(b, m)}
<1>1. M \in Nat
  BY UpdatesAssumption, FS_CardinalityType
<1>2. ForestsBelow(h, f) = b0[M][f]
  BY DEF ForestsBelow
<1>3. PICK V : HeapTyped(h, V) /\ Attached(h)
  BY DEF SomeInv, HeapInv
<1>4. DOMAIN h.forest = F /\ \A g \in F : h.forest[g].list \in Seq(Updates)
  BY <1>3, HeapParts DEF ForestType
<1>5. ASSUME NEW x \in [F -> Seq(F)], NEW g \in F PROVE Below(x, g) \in Seq(F)
  <2> DEFINE list == h.forest[g].list
             Entry(k) == LET c == h.node[list[k]].children IN Append(x[c], c)
             nexts == [k \in DOMAIN list |-> Entry(k)]
  <2>1. list \in Seq(Updates) /\ DOMAIN list = 1..Len(list) /\ Len(list) \in Nat
    BY <1>4, LenProperties
  <2>2. ASSUME NEW k \in 1..Len(list) PROVE Entry(k) \in Seq(F)
    <3> DEFINE c == h.node[list[k]].children
    <3>1. list[k] \in DOMAIN h.node
      BY <1>3, <2>2 DEF Attached
    <3>2. c \in F
      BY <1>3, <3>1, HeapParts DEF NodeType
    <3> HIDE DEF c, F
    <3>3. Append(x[c], c) \in Seq(F)
      BY <3>2, AppendProperties
    <3> QED BY <3>3 DEF c
  <2>3. Below(x, g) = Flattened(nexts)
    OBVIOUS
  <2> HIDE DEF list, F
  <2>4. nexts \in [1..Len(list) -> Seq(F)]
    BY <2>1, <2>2
  <2>5. nexts \in Seq(Seq(F))
    BY <2>1, <2>4, SeqDef
  <2> QED BY <2>3, <2>5, FlattenedSteps
<1>6. ASSUME NEW x, NEW n, n = 0 \/ x \in [F -> Seq(F)] PROVE E(x, n) \in [F -> Seq(F)]
  BY <1>4, <1>5, <1>6, EmptySeq
<1>7. ASSUME NEW x, NEW y PROVE E(x, 0) = E(y, 0)
  OBVIOUS
<1> HIDE DEF E
<1>8. 0 \in T
  <2> DEFINE b == [n \in 0..0 |-> E(0, 0)]
  <2>1. b[0 - 1] = b[0 - 1] /\ E(b[0 - 1], 0) = E(0, 0)
    BY <1>7
  <2>2. b = Body(b, 0)
    BY <2>1
  <2> HIDE DEF b, Body
  <2> QED BY <1>1, <2>2
<1>9. ASSUME NEW m \in 0..M - 1, m \in T PROVE m + 1 \in T
  <2>1. PICK b : b = Body(b, m)
    BY <1>9
  <2> DEFINE e == [n \in 0..m + 1 |-> IF n = m + 1 THEN E(b[m], m + 1) ELSE b[n]]
  <2>2. \A n \in 0..m : e[n] = b[n] /\ b[n] = E(b[n - 1], n)
    BY <2>1
  <2>3. e[m + 1] = E(b[m], m + 1) /\ e = [n \in 0..m + 1 |-> e[n]]
    OBVIOUS
  <2> HIDE DEF e
  <2>4. ASSUME NEW n \in 0..m + 1 PROVE e[n] = E(e[n - 1], n)
    <3>1. CASE n = 0
      BY <1>1, <1>7, <2>2, <3>1
    <3>2. CASE n = m + 1
      <4>1. n - 1 = m /\ m \in 0..m
        BY <1>1, <3>2
      <4> QED BY <2>2, <2>3, <3>2, <4>1
    <3>3. CASE n \in 1..m
      <4>1. n - 1 \in 0..m /\ n \in 0..m
        BY <1>1, <3>3
      <4> QED BY <2>2, <4>1
    <3> QED BY <1>1, <3>1, <3>2, <3>3
  <2>5. e = Body(e, m + 1)
    BY <2>3, <2>4
  <2>6. m + 1 \in 0..M
    BY <1>1
  <2> HIDE DEF Body
  <2> QED BY <2>5, <2>6
<1> HIDE DEF T, M
<1>10. 0..M \subseteq T
  BY <1>1, <1>8, <1>9, IntervalInduction
<1> HIDE DEF Body
<1>11. PICK b : b = Body(b, M)
  BY <1>1, <1>10 DEF T
<1>12. b0 = Body(b0, M)
  BY <1>11
<1> HIDE DEF b0
<1>13. \A n \in 0..M : b0[n] = E(b0[n - 1], n)
  BY <1>12 DEF Body
<1> DEFINE typed == {n \in 0..M : b0[n] \in [F -> Seq(F)]}
<1>14. 0 \in typed
  BY <1>1, <1>6, <1>13
<1>15. ASSUME NEW n \in 0..M - 1, n \in typed PROVE n + 1 \in typed
  <2>1. n + 1 \in 0..M /\ (n + 1) - 1 = n
    BY <1>1
  <2>2. b0[n + 1] = E(b0[n], n + 1)
    BY <1>13, <2>1
  <2> QED BY <1>6, <1>15, <2>1, <2>2
<1> HIDE DEF typed, F
<1>16. 0..M \subseteq typed
  BY <1>1, <1>14, <1>15, IntervalInduction
<1>17. b0[M] \in [F -> Seq(F)]
  BY <1>1, <1>16 DEF typed
<1>18. f \in F
  BY DEF F
<1> QED BY <1>2, <1>17, <1>18 DEF F

\* finalize ends with a heap of the same nodes in which the forest is final.
FinalizeStates(w, h, f, order) ==
  /\ w[0] = h /\ \A k \in 1..Len(order) : w[k] = FinalizeOne(w[k - 1], order[k])
  /\ Finalize(h, f) = FinalizeOne(w[Len(order)], f)

\* finalize is a sequence of steps, one per forest.
LEMMA FinalizeUnfolds ==
  ASSUME NEW h, NEW f, NEW D, ForestsBelow(h, f) \in Seq(D)
  PROVE  \E w : FinalizeStates(w, h, f, ForestsBelow(h, f))
<1> DEFINE order == ForestsBelow(h, f)
           N == Len(order)
           E(x, k) == FinalizeOne(x, order[k])
           Body(w, m) == [k \in 0..m |-> IF k = 0 THEN h ELSE E(w[k - 1], k)]
           upTo == CHOOSE w : w = Body(w, N)
           T == {m \in 0..N : \E w : w = Body(w, m)}
<1>1. N \in Nat
  BY LenProperties
<1>2. Finalize(h, f) = FinalizeOne(upTo[N], f)
  BY DEF Finalize
<1> HIDE DEF order
<1>3. \A x, k : E(x, k) = FinalizeOne(x, order[k])
  OBVIOUS
<1> HIDE DEF E, N
<1>4. 0 \in T
  <2> DEFINE w == [k \in 0..0 |-> h]
  <2>1. w = Body(w, 0)
    OBVIOUS
  <2> HIDE DEF w, Body
  <2> QED BY <1>1, <2>1
<1>5. ASSUME NEW m \in 0..N - 1, m \in T PROVE m + 1 \in T
  <2>1. PICK w : w = Body(w, m)
    BY <1>5
  <2> DEFINE e == [k \in 0..m + 1 |-> IF k = m + 1 THEN E(w[m], m + 1) ELSE w[k]]
  <2>2. \A k \in 0..m : e[k] = w[k] /\ w[k] = IF k = 0 THEN h ELSE E(w[k - 1], k)
    BY <2>1
  <2>3. e[m + 1] = E(w[m], m + 1) /\ e = [k \in 0..m + 1 |-> e[k]]
    OBVIOUS
  <2> HIDE DEF e
  <2>4. ASSUME NEW k \in 0..m + 1 PROVE e[k] = IF k = 0 THEN h ELSE E(e[k - 1], k)
    <3>1. CASE k = 0
      BY <1>1, <2>2, <3>1
    <3>2. CASE k = m + 1
      <4>1. k - 1 = m /\ m \in 0..m /\ k # 0
        BY <1>1, <3>2
      <4> QED BY <2>2, <2>3, <3>2, <4>1
    <3>3. CASE k \in 1..m
      <4>1. k - 1 \in 0..m /\ k \in 0..m /\ k # 0
        BY <1>1, <3>3
      <4> QED BY <2>2, <4>1
    <3> QED BY <1>1, <3>1, <3>2, <3>3
  <2>5. e = Body(e, m + 1)
    BY <2>3, <2>4
  <2>6. m + 1 \in 0..N
    BY <1>1
  <2> HIDE DEF Body
  <2> QED BY <2>5, <2>6
<1> HIDE DEF T
<1>6. 0..N \subseteq T
  BY <1>1, <1>4, <1>5, IntervalInduction
<1> HIDE DEF Body
<1>7. PICK w : w = Body(w, N)
  BY <1>1, <1>6 DEF T
<1>8. upTo = Body(upTo, N)
  BY <1>7
<1> HIDE DEF upTo
<1>9. upTo[0] = h /\ \A k \in 1..N : upTo[k] = E(upTo[k - 1], k)
  <2>1. \A k \in 0..N : upTo[k] = IF k = 0 THEN h ELSE E(upTo[k - 1], k)
    BY <1>8 DEF Body
  <2>2. 0 \in 0..N /\ \A k \in 1..N : k \in 0..N /\ k # 0
    BY <1>1
  <2> QED BY <2>1, <2>2
<1>10. FinalizeStates(upTo, h, f, order)
  BY <1>2, <1>3, <1>9 DEF FinalizeStates, N
<1> QED BY <1>10 DEF order

\* Every step keeps the invariant and the nodes, and the last one makes the
\* forest final.
LEMMA FinalizeInv ==
  ASSUME NEW B, NEW changed, NEW h, SomeInv(h, B, changed), NEW f \in 1..Len(h.forest)
  PROVE  /\ SomeInv(Finalize(h, f), B, changed) /\ SameNodes(Finalize(h, f), h)
         /\ Finalize(h, f).forest[f].final
<1> DEFINE order == ForestsBelow(h, f)
           N == Len(order)
<1>1. order \in Seq(1..Len(h.forest)) /\ N \in Nat
  BY ForestsBelowTyped, LenProperties
<1>2. PICK w : FinalizeStates(w, h, f, order)
  BY <1>1, FinalizeUnfolds
<1> HIDE DEF order
<1>3. \A k \in 1..N : order[k] \in 1..Len(h.forest)
  BY <1>1
<1> DEFINE T == {k \in 0..N : SomeInv(w[k], B, changed) /\ SameNodes(w[k], h)}
<1>4. 0 \in T
  BY <1>1, <1>2 DEF FinalizeStates, SameNodes
<1>5. ASSUME NEW k \in 0..N - 1, k \in T PROVE k + 1 \in T
  <2>1. k + 1 \in 1..N /\ k + 1 \in 0..N /\ (k + 1) - 1 = k
    BY <1>1
  <2>2. w[k + 1] = FinalizeOne(w[k], order[k + 1])
    BY <1>2, <2>1 DEF FinalizeStates
  <2>3. SomeInv(w[k], B, changed) /\ SameNodes(w[k], h)
    BY <1>5
  <2>4. order[k + 1] \in 1..Len(w[k].forest)
    BY <1>3, <2>1, <2>3 DEF SameNodes
  <2>5. SomeInv(FinalizeOne(w[k], order[k + 1]), B, changed)
        /\ SameNodes(FinalizeOne(w[k], order[k + 1]), w[k])
    BY <2>3, <2>4, FinalizeOneInv
  <2>6. SameNodes(w[k + 1], h)
    BY <2>2, <2>3, <2>5 DEF SameNodes
  <2> QED BY <2>1, <2>2, <2>5, <2>6
<1> HIDE DEF T, N
<1>6. 0..N \subseteq T
  BY <1>1, <1>4, <1>5, IntervalInduction
<1>7. SomeInv(w[N], B, changed) /\ SameNodes(w[N], h)
  BY <1>1, <1>6 DEF T
<1>8. f \in 1..Len(w[N].forest) /\ Finalize(h, f) = FinalizeOne(w[N], f)
  BY <1>2, <1>7 DEF SameNodes, FinalizeStates, N
<1>9. /\ SomeInv(FinalizeOne(w[N], f), B, changed) /\ SameNodes(FinalizeOne(w[N], f), w[N])
      /\ FinalizeOne(w[N], f).forest[f].final
  BY <1>7, <1>8, FinalizeOneInv
<1> QED BY <1>7, <1>8, <1>9 DEF SameNodes

\* Only forests of the heap belong to updates.
LEMMA OwnedForests ==
  ASSUME NEW V, NEW h, HeapTyped(h, V), NEW v, NEW i, Owns(h, v, i)
  PROVE  i \in 1..Len(h.forest) /\ v \in Updates \cup {Root}
BY HeapParts DEF Owns, NodeType

\* The forest becomes the tree of u, to which it belongs already or newly.
LEMMA TreeInv ==
  ASSUME NEW B, NEW changed, NEW h, SomeInv(h, B, changed), NEW u \in Updates,
         NEW f \in 1..Len(h.forest),
         h.forest[f].cell # 0,
         changed \/ h.forest[f].hash = Content(h, h.forest[f].cell),
         \A v \in Updates \cup {Root} : Owns(h, v, f) \/ RefersTo(h, v, h.forest[f].cell) => v = u,
         u \in DOMAIN h.node => h.node[u].children = f
  PROVE  SomeInv([h EXCEPT !.tree = With(@, u, f)], B, changed)
<1> DEFINE g == [h EXCEPT !.tree = With(@, u, f)]
<1> PICK V : HeapInv(h, V, B, changed)
  BY DEF SomeInv
<1>1. /\ HeapTyped(h, V) /\ CellsAreEarlier(h) /\ Attached(h) /\ OneOwner(h) /\ Placed(h, B)
      /\ Copies(h) /\ (changed \/ Sound(h))
      /\ ListedOnce(h) /\ InOnePlace(h, B)
      /\ CellsOK(h) /\ RootAndFinals(h)
  BY TypedCells DEF HeapInv
<1>2. /\ g.forest = h.forest /\ g.node = h.node /\ g.cell = h.cell /\ g.tree = With(h.tree, u, f)
      /\ g = [node |-> g.node, forest |-> g.forest, cell |-> g.cell, tree |-> g.tree]
  <2>1. h = [node |-> h.node, forest |-> h.forest, cell |-> h.cell, tree |-> h.tree]
    BY <1>1 DEF HeapTyped
  <2> QED BY <2>1
<1> HIDE DEF g
<1>3. /\ DOMAIN g.tree = DOMAIN h.tree \cup {u} /\ g.tree[u] = f
      /\ \A v \in DOMAIN h.tree : v # u => g.tree[v] = h.tree[v]
      /\ g.tree = [v \in DOMAIN h.tree \cup {u} |-> g.tree[v]]
  BY <1>2 DEF With
<1>4. HeapTyped(g, V)
  <2>1. \A v \in DOMAIN h.tree : h.tree[v] \in 1..Len(h.forest) /\ v \in Updates
    BY <1>1, HeapParts
  <2>2. \A v \in DOMAIN g.tree : g.tree[v] \in 1..Len(h.forest)
    BY <1>3, <2>1
  <2>3. g.tree \in [DOMAIN g.tree -> 1..Len(h.forest)]
    BY <1>3, <2>2
  <2>4. DOMAIN g.tree \subseteq Updates
    BY <1>3, <2>1
  <2> QED BY <1>1, <1>2, <2>3, <2>4 DEF HeapTyped
<1>5. CellsAreEarlier(g) /\ Attached(g) /\ Placed(g, B) /\ RootAndFinals(g)
  <2>1. CellsAreEarlier(g)
    BY <1>1, <1>2 DEF CellsAreEarlier
  <2>2. Attached(g)
    BY <1>1, <1>2 DEF Attached
  <2>3. Placed(g, B)
    <3>1. \A v : InFinal(g, v) <=> InFinal(h, v)
      BY <1>2 DEF InFinal
    <3> QED BY <1>1, <1>2, <3>1 DEF Placed
  <2>4. RootAndFinals(g)
    BY <1>1, <1>2 DEF RootAndFinals
  <2> QED BY <2>1, <2>2, <2>3, <2>4
<1>6. ASSUME NEW v, NEW i, Owns(g, v, i) PROVE Owns(h, v, i) \/ (v = u /\ i = f)
  BY <1>2, <1>3, <1>6 DEF Owns
<1>7. ASSUME NEW v, NEW c, RefersTo(g, v, c)
      PROVE RefersTo(h, v, c) \/ (v = u /\ c = h.forest[f].cell)
  BY <1>2, <1>6, <1>7 DEF RefersTo
<1>8. OneOwner(g)
  <2>1. ASSUME NEW i \in 1..Len(h.forest), NEW v \in Updates \cup {Root},
               NEW w \in Updates \cup {Root}, Owns(g, v, i), Owns(g, w, i)
        PROVE  v = w
    BY <1>1, <1>6, <2>1 DEF OneOwner
  <2>2. ASSUME NEW c \in 1..Len(h.cell), NEW v \in Updates \cup {Root},
               NEW w \in Updates \cup {Root}, RefersTo(g, v, c), RefersTo(g, w, c)
        PROVE  v = w
    BY <1>1, <1>7, <2>2 DEF OneOwner
  <2> QED BY <1>2, <2>1, <2>2 DEF OneOwner
<1>9. Copies(g)
  <2> SUFFICES ASSUME NEW v \in DOMAIN g.tree
               PROVE  /\ h.forest[g.tree[v]].cell # 0
                      /\ v \in DOMAIN h.node /\ h.node[v].children # g.tree[v]
                         /\ h.forest[h.node[v].children].cell = h.forest[g.tree[v]].cell
                            => h.node[v].final
    BY <1>2 DEF Copies
  <2>1. CASE v = u
    BY <1>3, <2>1
  <2>2. CASE v # u
    BY <1>1, <1>3, <2>2 DEF Copies
  <2> QED BY <2>1, <2>2
<1>11. ListedOnce(g) /\ InOnePlace(g, B)
  BY <1>1, <1>2 DEF ListedOnce, InOnePlace
<1>10. ASSUME ~changed PROVE Sound(g)
  <2>1. \A c \in 0..Len(h.cell) : Content(g, c) = Content(h, c)
    BY <1>1, <1>2, SameCells DEF SameContent
  <2>2. ASSUME NEW c \in 1..Len(h.cell), NEW k \in 1..Len(h.cell[c])
        PROVE  h.cell[c][k].hash = Content(g, h.cell[c][k].cell)
    <3>1. h.cell[c][k].cell \in 0..c - 1 /\ Len(h.cell) \in Nat
      BY <1>1, HeapParts DEF CellsAreEarlier
    <3>2. h.cell[c][k].cell \in 0..Len(h.cell)
      BY <3>1
    <3> QED BY <1>1, <1>10, <2>1, <3>2 DEF Sound
  <2>3. ASSUME NEW i \in 1..Len(h.forest), NEW v \in Updates \cup {Root}, Owns(g, v, i)
        PROVE  h.forest[i].hash = Content(g, h.forest[i].cell)
    <3>1. h.forest[i].cell \in 0..Len(h.cell)
      BY <1>1, HeapParts DEF ForestType
    <3>2. h.forest[i].hash = Content(h, h.forest[i].cell)
      BY <1>1, <1>6, <1>10, <2>3 DEF Sound
    <3> QED BY <2>1, <3>1, <3>2
  <2> QED BY <1>2, <2>2, <2>3 DEF Sound
<1> QED BY <1>4, <1>5, <1>8, <1>9, <1>10, <1>11 DEF HeapInv, SomeInv, g

\* A tree that the layout does not have yet: its forest is new and empty.
NewTree(h) == [NewForest(h, Final(<<>>, Len(h.cell) + 1)) EXCEPT !.cell = Append(@, <<>>)]

\* extractTree of an update that is not in the layout keeps the invariant.
LEMMA NewTreeInv ==
  ASSUME NEW B, NEW changed, NEW h, SomeInv(h, B, changed), NEW u \in Updates,
         u \notin DOMAIN h.node
  PROVE  SomeInv([NewTree(h) EXCEPT !.tree = With(@, u, Len(NewTree(h).forest))], B, changed)
<1> DEFINE g == NewTree(h)
           n == Len(h.forest) + 1
           c == Len(h.cell) + 1
           data == <<>>
           new == Final(data, c)
<1> PICK V : HeapInv(h, V, B, changed)
  BY DEF SomeInv
<1>1. HeapTyped(h, V) /\ CellsAreEarlier(h)
  BY DEF HeapInv
<1>2. /\ Len(h.forest) \in Nat /\ Len(h.cell) \in Nat /\ n \in Nat /\ c \in Nat
      /\ h.forest \in Seq(ForestType(V, Len(h.cell)))
      /\ h = [node |-> h.node, forest |-> h.forest, cell |-> h.cell, tree |-> h.tree]
  BY <1>1, HeapParts DEF HeapTyped
<1>3. HashOf(data) = data /\ Len(data) = 0 /\ data \in Seq(ElementType(V))
  <2>1. DOMAIN data = {}
    OBVIOUS
  <2> QED BY <2>1, EmptySeq DEF HashOf
<1>4. /\ g = [node |-> h.node, forest |-> g.forest, cell |-> Append(h.cell, data), tree |-> h.tree]
      /\ g.forest = Append(h.forest, new) /\ g.node = h.node /\ g.tree = h.tree
      /\ g.cell = Append(h.cell, data)
  <2> DEFINE t == NewForest(h, new)
  <2>1. t = [h EXCEPT !.forest = Append(@, new)]
    BY DEF NewForest
  <2>2. t = [node |-> h.node, forest |-> Append(h.forest, new), cell |-> h.cell, tree |-> h.tree]
    BY <1>2, <2>1
  <2>3. g = [t EXCEPT !.cell = Append(@, data)]
    BY DEF NewTree
  <2> HIDE DEF g, t, new, data
  <2> QED BY <2>2, <2>3
<1>5. /\ Len(g.forest) = n /\ g.forest = [i \in 1..n |-> g.forest[i]]
      /\ 1..n = 1..Len(h.forest) \cup {n}
      /\ g.forest[n] = new /\ \A i \in 1..Len(h.forest) : g.forest[i] = h.forest[i]
  <2> DEFINE q == h.forest
             T == ForestType(V, Len(h.cell))
  <2>1. q \in Seq(T) /\ Len(q) \in Nat
    BY <1>2
  <2> HIDE DEF T, q, new
  <2>2. /\ Len(Append(q, new)) = Len(q) + 1
        /\ Append(q, new) = [i \in 1..Len(q) + 1 |-> Append(q, new)[i]]
        /\ Append(q, new)[Len(q) + 1] = new /\ \A i \in 1..Len(q) : Append(q, new)[i] = q[i]
    <3> DEFINE U == T \cup {new}
               s == Append(q, new)
    <3>1. q \in Seq(U) /\ new \in U
      <4>1. T \subseteq U
        OBVIOUS
      <4> QED BY <2>1, <4>1, SeqMonotonic
    <3> HIDE DEF U
    <3>2. s \in Seq(U) /\ Len(s) = Len(q) + 1 /\ s[Len(q) + 1] = new /\ \A i \in 1..Len(q) :
          s[i] = q[i]
      BY <3>1, AppendProperties
    <3> HIDE DEF s
    <3>3. s = [i \in 1..Len(s) |-> s[i]]
      BY <3>2
    <3> QED BY <3>2, <3>3 DEF s
  <2>3. 1..Len(q) + 1 = 1..Len(q) \cup {Len(q) + 1}
    <3> DEFINE m == Len(q)
    <3>1. m \in Nat
      BY <2>1
    <3> HIDE DEF m
    <3>2. \A i : i \in 1..m + 1 <=> i \in 1..m \cup {m + 1}
      BY <3>1
    <3>3. 1..m + 1 = 1..m \cup {m + 1}
      BY <3>2
    <3> QED BY <3>3 DEF m
  <2> QED BY <1>4, <2>2, <2>3 DEF q
<1> HIDE DEF g
<1>6. BecomesFinal(g, h, n, data)
  <2>1. g.forest[n] = Final(HashOf(data), Len(h.cell) + 1)
    BY <1>3, <1>5
  <2> HIDE DEF data, new
  <2> QED BY <1>2, <1>4, <1>5, <2>1 DEF BecomesFinal
<1>7. HeapInv(g, V \cup {HashOf(data)}, B, changed)
  <2>1. AreTrees(h, data) /\ \A k \in 1..Len(data) :
        data[k].id \in B \/ (InFinal(g, data[k].id) /\ NewInData(h, data, k))
    <3> HIDE DEF data
    <3>1. \A k : k \notin 1..Len(data)
      BY <1>3
    <3> QED BY <3>1 DEF AreTrees
  <2>2. n \in 1..Len(h.forest) + 1
    BY <1>2
  <2> HIDE DEF data, n
  <2> QED BY <1>3, <1>6, <2>1, <2>2, FinalForestInv
<1>8. new.cell = c /\ new.hash = data /\ c # 0
  BY <1>2 DEF Final
<1>9. CellsAreEarlier(g) /\ CellsOK(g) /\ Len(g.cell) = c /\ g.cell[c] = data
  <2>1. CellsAreEarlier(g) /\ CellsOK(g)
    BY <1>7, TypedCells DEF HeapInv
  <2>2. h.cell \in Seq(Seq(ElementType(V)))
    BY <1>1 DEF HeapTyped
  <2> DEFINE q == h.cell
  <2> HIDE DEF data, q
  <2>3. Len(Append(q, data)) = Len(q) + 1 /\ Append(q, data)[Len(q) + 1] = data
    BY <2>2, AppendProperties, LenProperties DEF q
  <2> QED BY <1>4, <2>1, <2>3 DEF q
<1>10. Content(g, c) = data
  <2>1. c \in 0..Len(g.cell) /\ Data(g, c) = data
    BY <1>2, <1>9 DEF Data, NoCell
  <2>2. HasContent(g, c)
    BY <1>9, <2>1, ContentUnfolds
  <2>3. DOMAIN data = {}
    OBVIOUS
  <2> QED BY <2>1, <2>2, <2>3 DEF HasContent
<1>11. ASSUME NEW v, NEW i, Owns(g, v, i) PROVE i \in 1..Len(h.forest)
  <2>1. Owns(h, v, i)
    BY <1>4, <1>11 DEF Owns
  <2> QED BY <1>1, <2>1, OwnedForests
<1>12. ASSUME NEW v, RefersTo(g, v, c) PROVE FALSE
  <2>1. ASSUME NEW d \in 1..c, NEW k \in 1..Len(g.cell[d]) PROVE g.cell[d][k].cell # c
    <3>1. g.cell[d][k].cell \in 0..d - 1
      BY <1>9 DEF CellsAreEarlier
    <3> QED BY <1>2, <3>1
  <2>2. PICK i \in 1..Len(g.forest) : Owns(g, v, i) /\ g.forest[i].cell = c
    BY <1>9, <1>12, <2>1 DEF RefersTo
  <2>3. i \in 1..Len(h.forest) /\ h.forest[i].cell = c
    BY <1>5, <1>11, <2>2
  <2>4. h.forest[i].cell \in 0..Len(h.cell)
    BY <1>1, <2>3, HeapParts DEF ForestType
  <2> QED BY <1>2, <2>3, <2>4
<1>13. SomeInv([g EXCEPT !.tree = With(@, u, n)], B, changed)
  <2>1. n \in 1..Len(g.forest) /\ g.forest[n].cell = c
    BY <1>2, <1>5, <1>8
  <2>2. g.forest[n].hash = Content(g, g.forest[n].cell) /\ g.forest[n].cell # 0
    BY <1>5, <1>8, <1>10, <2>1
  <2>3. \A v \in Updates \cup {Root} : Owns(g, v, n) \/ RefersTo(g, v, g.forest[n].cell) => v = u
    BY <1>2, <1>11, <1>12, <2>1
  <2>4. SomeInv(g, B, changed) /\ (u \in DOMAIN g.node => g.node[u].children = n)
    BY <1>4, <1>7 DEF SomeInv
  <2>5. changed \/ g.forest[n].hash = Content(g, g.forest[n].cell)
    BY <2>2
  <2> HIDE DEF n, c
  <2> QED BY <2>1, <2>2, <2>3, <2>4, <2>5, TreeInv
<1> QED BY <1>5, <1>13 DEF g

\* A tree of the layout: its forest is final and belongs to the update.
LEMMA OldTreeInv ==
  ASSUME NEW B, NEW changed, NEW h, SomeInv(h, B, changed), NEW u \in Updates, u \in DOMAIN h.node,
         h.forest[h.node[u].children].final
  PROVE  SomeInv([h EXCEPT !.tree = With(@, u, h.node[u].children)], B, changed)
<1> DEFINE f == h.node[u].children
           c == h.forest[f].cell
<1>1. PICK V : HeapInv(h, V, B, changed)
  BY DEF SomeInv
<1>2. HeapTyped(h, V) /\ OneOwner(h) /\ (changed \/ Sound(h)) /\ RootAndFinals(h)
  BY <1>1 DEF HeapInv
<1>3. f \in 1..Len(h.forest) /\ Owns(h, u, f)
  BY <1>2, HeapParts DEF NodeType, Owns
<1>4. c \in 1..Len(h.cell) /\ c # 0
  <2>1. c \in 0..Len(h.cell) /\ c # 0 /\ Len(h.cell) \in Nat
    BY <1>2, <1>3, HeapParts DEF ForestType, RootAndFinals
  <2> QED BY <2>1
<1> HIDE DEF f
<1>5. changed \/ h.forest[f].hash = Content(h, c)
  BY <1>2, <1>3 DEF Sound
<1>6. RefersTo(h, u, c)
  BY <1>3 DEF RefersTo
<1>7. \A v \in Updates \cup {Root} : Owns(h, v, f) \/ RefersTo(h, v, c) => v = u
  BY <1>2, <1>3, <1>4, <1>6 DEF OneOwner
<1>8. SomeInv([h EXCEPT !.tree = With(@, u, f)], B, changed)
  <2>1. u \in DOMAIN h.node => h.node[u].children = f
    BY DEF f
  <2> QED BY <1>3, <1>4, <1>5, <1>7, <2>1, TreeInv
<1> QED BY <1>8 DEF f

\* What tree.approve(update) makes of the tree of t.
InFront(h, t, u) ==
  LET f == h.tree[t]
      e == <<[id |-> u, hash |-> <<>>, cell |-> NoCell]>>
  IN  [h EXCEPT !.forest[f].hash = HashOf(e) \o @, !.cell[h.forest[f].cell] = e \o @]

\* Sequence s is t with e in front.
PutsInFront(s, t, e) ==
  /\ Len(s) = Len(t) + 1 /\ s[1] = e /\ \A k \in 1..Len(t) : s[k + 1] = t[k]
  /\ \A k \in 1..Len(s) : k = 1 \/ (k - 1 \in 1..Len(t) /\ s[k] = t[k - 1])

\* What concatenation with a single element does.
LEMMA InFrontOf ==
  ASSUME NEW S, NEW t \in Seq(S), NEW e \in S
  PROVE  <<e>> \o t \in Seq(S) /\ PutsInFront(<<e>> \o t, t, e)
<1> DEFINE s == <<e>> \o t
<1>1. /\ s \in Seq(S) /\ Len(s) = Len(t) + 1 /\ Len(t) \in Nat
      /\ s[1] = e /\ \A k \in 1..Len(t) : s[k + 1] = t[k]
  OBVIOUS
<1> HIDE DEF s
<1>2. \A k \in 1..Len(s) : k = 1 \/ (k - 1 \in 1..Len(t) /\ (k - 1) + 1 = k)
  BY <1>1
<1>3. PutsInFront(s, t, e)
  BY <1>1, <1>2 DEF PutsInFront
<1> QED BY <1>1, <1>3 DEF s

\* To put an update in front of the children of a tree changes data in place, but
\* only data that nothing refers to except the tree, if it was put nowhere yet.
LEMMA TreeApproveInv ==
  ASSUME NEW B, NEW changed, NEW h, SomeInv(h, B, changed), NEW t \in DOMAIN h.tree,
         NEW u \in Updates,
         ~changed => t \notin B,
         ~changed /\ t \in DOMAIN h.node => ~h.node[t].final /\ h.node[t].siblings = 0
  PROVE  SomeInv(InFront(h, t, u), B \cup {u}, changed)
<1> DEFINE g == InFront(h, t, u)
           f == h.tree[t]
           c == h.forest[f].cell
           e == [id |-> u, hash |-> <<>>, cell |-> 0]
           x == HashOf(<<e>>) \o h.forest[f].hash
           data == <<e>> \o h.cell[c]
<1> PICK V : HeapInv(h, V, B, changed)
  BY DEF SomeInv
<1> DEFINE W == V \cup {x}
<1>1. /\ HeapTyped(h, V) /\ CellsAreEarlier(h) /\ Attached(h) /\ OneOwner(h) /\ Placed(h, B)
      /\ Copies(h) /\ (changed \/ Sound(h))
      /\ ListedOnce(h) /\ InOnePlace(h, B)
      /\ CellsOK(h) /\ RootAndFinals(h)
  BY TypedCells DEF HeapInv
<1>2. f \in 1..Len(h.forest) /\ Owns(h, t, f) /\ t \in Updates
  BY <1>1, HeapParts DEF Owns
<1>3. c \in 1..Len(h.cell) /\ c # 0 /\ Len(h.cell) \in Nat /\ Len(h.forest) \in Nat
  <2>1. c \in 0..Len(h.cell) /\ c # 0 /\ Len(h.cell) \in Nat /\ Len(h.forest) \in Nat
    BY <1>1, <1>2, HeapParts DEF ForestType, Copies
  <2> QED BY <2>1
<1>4. RefersTo(h, t, c)
  BY <1>2 DEF RefersTo
<1>5. \A v \in Updates \cup {Root} : RefersTo(h, v, c) => v = t
  BY <1>1, <1>2, <1>3, <1>4 DEF OneOwner
\* No element refers to the data: its update would be t, which is in no list and
\* in none as a value.
<1>6. ASSUME ~changed, NEW d \in 1..Len(h.cell), NEW k \in 1..Len(h.cell[d])
      PROVE h.cell[d][k].cell # c
  <2> SUFFICES ASSUME h.cell[d][k].cell = c PROVE FALSE
    OBVIOUS
  <2>1. h.cell[d][k].id = t
    <3>1. RefersTo(h, h.cell[d][k].id, c) /\ h.cell[d][k].id \in Updates
      BY <1>1, CellParts DEF RefersTo
    <3> QED BY <1>5, <3>1
  <2>2. InFinal(h, t)
    BY <1>1, <1>6, <2>1 DEF Placed
  <2> QED BY <1>6, <2>2 DEF InFinal
\* Nor does a forest but the tree itself: a copy is the tree put into the layout.
<1>7. ASSUME ~changed, NEW i \in 1..Len(h.forest), NEW v \in Updates \cup {Root},
             Owns(h, v, i), i # f
      PROVE  h.forest[i].cell # c
  <2> SUFFICES ASSUME h.forest[i].cell = c PROVE FALSE
    OBVIOUS
  <2>1. v = t
    BY <1>5, <1>7 DEF RefersTo
  <2>2. t \in DOMAIN h.node /\ h.node[t].children = i
    BY <1>7, <2>1 DEF Owns
  <2> QED BY <1>1, <1>7, <2>2 DEF Copies
<1>8. h.cell[c] \in Seq(ElementType(V)) /\ e \in ElementType(V) /\ e.id = u /\ e.hash = <<>>
      /\ e.cell = 0
  BY <1>1, <1>3, HeapParts DEF HeapTyped, ElementType
<1>9. data \in Seq(ElementType(V)) /\ PutsInFront(data, h.cell[c], e)
  <2> DEFINE q == h.cell[c]
             T == ElementType(V)
  <2>1. q \in Seq(T) /\ e \in T
    BY <1>8
  <2> HIDE DEF q, T, e
  <2>2. <<e>> \o q \in Seq(T) /\ PutsInFront(<<e>> \o q, q, e)
    BY <2>1, InFrontOf
  <2> QED BY <2>2 DEF q, T
<1> HIDE DEF e
<1>10. /\ g.forest = [h.forest EXCEPT ![f].hash = x] /\ g.cell = [h.cell EXCEPT ![c] = data]
       /\ g.node = h.node /\ g.tree = h.tree
       /\ g = [node |-> g.node, forest |-> g.forest, cell |-> g.cell, tree |-> g.tree]
  <2>1. g = [h EXCEPT !.forest[f].hash = x, !.cell[c] = data]
    BY DEF InFront, NoCell, e
  <2>2. h = [node |-> h.node, forest |-> h.forest, cell |-> h.cell, tree |-> h.tree]
    BY <1>1 DEF HeapTyped
  <2> HIDE DEF g, f, c, x, data
  <2> QED BY <2>1, <2>2
<1> HIDE DEF g, data, x
<1>11. DOMAIN h.forest = 1..Len(h.forest) /\ DOMAIN h.cell = 1..Len(h.cell)
       /\ h.forest[f] \in ForestType(V, Len(h.cell))
  BY <1>1, <1>2, HeapParts
<1> HIDE DEF f
<1>12. /\ Len(g.forest) = Len(h.forest) /\ \A i \in 1..Len(h.forest) :
          i # f => g.forest[i] = h.forest[i]
       /\ g.forest[f] = [h.forest[f] EXCEPT !.hash = x]
       /\ DOMAIN g.forest = 1..Len(h.forest)
  BY <1>2, <1>3, <1>10, <1>11
<1>13. /\ g.forest[f] \in ForestType(W, Len(h.cell)) /\ g.forest[f].hash = x
       /\ g.forest[f].list = h.forest[f].list /\ g.forest[f].cell = c
       /\ g.forest[f].final = h.forest[f].final
  <2> DEFINE r == h.forest[f]
  <2>1. r \in ForestType(V, Len(h.cell)) /\ g.forest[f] = [r EXCEPT !.hash = x]
    BY <1>11, <1>12
  <2> HIDE DEF r
  <2>2. /\ [r EXCEPT !.hash = x] \in ForestType(W, Len(h.cell)) /\ [r EXCEPT !.hash = x].hash = x
        /\ [r EXCEPT !.hash = x].list = r.list /\ [r EXCEPT !.hash = x].cell = r.cell
        /\ [r EXCEPT !.hash = x].final = r.final
    BY <2>1 DEF ForestType
  <2> QED BY <2>1, <2>2 DEF r
<1> HIDE DEF c
<1>14. /\ Len(g.cell) = Len(h.cell) /\ g.cell[c] = data /\ \A d \in 1..Len(h.cell) :
          d # c => g.cell[d] = h.cell[d]
       /\ DOMAIN g.cell = 1..Len(h.cell)
  BY <1>3, <1>10, <1>11
<1>15. \A i \in 1..Len(h.forest) : /\ g.forest[i].list = h.forest[i].list
                                      /\ g.forest[i].cell = h.forest[i].cell
                                   /\ g.forest[i].final = h.forest[i].final
  BY <1>12, <1>13 DEF c
\* An element of g is the new one or one of h, of the same cell.
<1>16. ASSUME NEW d \in 1..Len(h.cell), NEW k \in 1..Len(g.cell[d])
       PROVE  g.cell[d][k] = e \/ \E j \in 1..Len(h.cell[d]) : g.cell[d][k] = h.cell[d][j]
  <2>1. CASE d = c
    BY <1>9, <1>14, <2>1 DEF PutsInFront
  <2>2. CASE d # c
    BY <1>14, <2>2
  <2> QED BY <2>1, <2>2
<1>17. HeapTyped(g, W)
  <2>1. /\ ForestType(V, Len(h.cell)) \subseteq ForestType(W, Len(h.cell))
        /\ Seq(ElementType(V)) \subseteq Seq(ElementType(W))
    <3>1. V \subseteq W /\ Len(h.cell) <= Len(h.cell)
      BY <1>3
    <3> HIDE DEF W
    <3> QED BY <1>3, <3>1, WiderTypes
  <2>2. g.forest \in Seq(ForestType(W, Len(h.cell)))
    <3> DEFINE T == ForestType(W, Len(h.cell))
               m == Len(h.forest)
               q == g.forest
    <3>1. \A i \in 1..m : q[i] \in T
      BY <1>1, <1>12, <1>13, <2>1, HeapParts
    <3>2. q = [i \in 1..m |-> q[i]] /\ m \in Nat
      BY <1>3, <1>10, <1>11
    <3> HIDE DEF T, m, q
    <3>3. q \in [1..m -> T]
      BY <3>1, <3>2
    <3>4. q \in Seq(T)
      BY <3>2, <3>3, SeqDef
    <3> QED BY <3>4 DEF T, q
  <2>3. g.cell \in Seq(Seq(ElementType(W)))
    <3> DEFINE T == Seq(ElementType(W))
               m == Len(h.cell)
               q == g.cell
    <3>1. \A i \in 1..m : q[i] \in T
      BY <1>1, <1>9, <1>14, <2>1, HeapParts
    <3>2. q = [i \in 1..m |-> q[i]] /\ m \in Nat
      BY <1>3, <1>10, <1>11
    <3> HIDE DEF T, m, q
    <3>3. q \in [1..m -> T]
      BY <3>1, <3>2
    <3>4. q \in Seq(T)
      BY <3>2, <3>3, SeqDef
    <3> QED BY <3>4 DEF T, q
  <2>4. <<>> \in W
    BY <1>1 DEF HeapTyped
  <2> HIDE DEF W
  <2> QED BY <1>1, <1>10, <1>12, <1>14, <2>2, <2>3, <2>4 DEF HeapTyped
<1>18. CellsAreEarlier(g)
  <2> SUFFICES ASSUME NEW d \in 1..Len(h.cell), NEW k \in 1..Len(g.cell[d])
               PROVE g.cell[d][k].cell \in 0..d - 1
    BY <1>14 DEF CellsAreEarlier
  <2>1. CASE g.cell[d][k] = e
    BY <1>3, <1>8, <2>1
  <2>2. CASE \E j \in 1..Len(h.cell[d]) : g.cell[d][k] = h.cell[d][j]
    BY <1>1, <2>2 DEF CellsAreEarlier
  <2> QED BY <1>16, <2>1, <2>2
<1>19. Attached(g)
  BY <1>1, <1>10, <1>12, <1>15 DEF Attached
<1>20. \A v, i : Owns(g, v, i) <=> Owns(h, v, i)
  BY <1>10 DEF Owns
<1>21. ASSUME NEW v, NEW d \in 1..Len(h.cell), RefersTo(g, v, d) PROVE RefersTo(h, v, d)
  <2>1. ASSUME NEW b \in 1..Len(h.cell), NEW k \in 1..Len(g.cell[b]), g.cell[b][k].id = v,
               g.cell[b][k].cell = d
        PROVE  RefersTo(h, v, d)
    <3>1. g.cell[b][k] # e
      BY <1>3, <1>8, <2>1
    <3> QED BY <1>16, <2>1, <3>1 DEF RefersTo
  <2>2. ASSUME NEW i \in 1..Len(h.forest), Owns(g, v, i), g.forest[i].cell = d
        PROVE RefersTo(h, v, d)
    BY <1>15, <1>20, <2>2 DEF RefersTo
  <2> QED BY <1>12, <1>14, <1>21, <2>1, <2>2 DEF RefersTo
<1>22. OneOwner(g)
  <2>1. ASSUME NEW i \in 1..Len(h.forest), NEW v \in Updates \cup {Root},
               NEW w \in Updates \cup {Root}, Owns(g, v, i), Owns(g, w, i)
        PROVE  v = w
    BY <1>1, <1>20, <2>1 DEF OneOwner
  <2>2. ASSUME NEW d \in 1..Len(h.cell), NEW v \in Updates \cup {Root},
               NEW w \in Updates \cup {Root}, RefersTo(g, v, d), RefersTo(g, w, d)
        PROVE  v = w
    BY <1>1, <1>21, <2>2 DEF OneOwner
  <2> QED BY <1>12, <1>14, <2>1, <2>2 DEF OneOwner
<1>23. ASSUME NEW v, InFinal(h, v) PROVE InFinal(g, v)
  <2>1. v \in DOMAIN h.node /\ h.node[v].siblings # 0 /\ h.forest[h.node[v].siblings].final
    BY <1>23 DEF InFinal
  <2>2. h.node[v].siblings \in 1..Len(h.forest)
    <3>1. h.node[v].siblings \in 0..Len(h.forest)
      BY <1>1, <2>1, HeapParts DEF NodeType
    <3> QED BY <1>3, <2>1, <3>1
  <2> QED BY <1>10, <1>15, <2>1, <2>2 DEF InFinal
<1>24. Placed(g, B \cup {u})
  <2> SUFFICES ASSUME NEW d \in 1..Len(h.cell), NEW k \in 1..Len(g.cell[d])
               PROVE  g.cell[d][k].id \in B \cup {u} \/ InFinal(g, g.cell[d][k].id)
    BY <1>14 DEF Placed
  <2>1. CASE g.cell[d][k] = e
    BY <1>8, <2>1
  <2>2. CASE \E j \in 1..Len(h.cell[d]) : g.cell[d][k] = h.cell[d][j]
    BY <1>1, <1>23, <2>2 DEF Placed
  <2> QED BY <1>16, <2>1, <2>2
<1>25. Copies(g)
  <2> SUFFICES ASSUME NEW v \in DOMAIN h.tree
               PROVE  /\ g.forest[h.tree[v]].cell # 0
                      /\ v \in DOMAIN h.node /\ h.node[v].children # h.tree[v]
                         /\ g.forest[h.node[v].children].cell = g.forest[h.tree[v]].cell
                            => h.node[v].final
    BY <1>10 DEF Copies
  <2>1. h.tree[v] \in 1..Len(h.forest)
        /\ (v \in DOMAIN h.node => h.node[v].children \in 1..Len(h.forest))
    BY <1>1, HeapParts DEF NodeType
  <2> QED BY <1>1, <1>15, <2>1 DEF Copies
<1>33. ListedOnce(g)
  BY <1>1, <1>12, <1>15 DEF ListedOnce
\* The other elements only move.
<1>34. InOnePlace(g, B \cup {u})
  <2> DEFINE WasAt(a, j) == IF a = c THEN j - 1 ELSE j
  <2>1. ASSUME NEW a \in 1..Len(h.cell), NEW j \in 1..Len(g.cell[a]), g.cell[a][j].id # u
        PROVE  WasAt(a, j) \in 1..Len(h.cell[a]) /\ g.cell[a][j] = h.cell[a][WasAt(a, j)]
    <3>1. CASE a = c
      <4>1. j # 1
        BY <1>8, <1>9, <1>14, <2>1, <3>1 DEF PutsInFront
      <4> QED BY <1>9, <1>14, <3>1, <4>1 DEF PutsInFront
    <3>2. CASE a # c
      BY <1>14, <3>2
    <3> QED BY <3>1, <3>2
  <2>2. ASSUME NEW a \in 1..Len(h.cell), NEW d \in 1..Len(h.cell), NEW j \in 1..Len(g.cell[a]),
               NEW k \in 1..Len(g.cell[d]), g.cell[a][j].id = g.cell[d][k].id,
               g.cell[a][j].id \notin B \cup {u}
        PROVE  a = d /\ j = k
    <3>1. /\ WasAt(a, j) \in 1..Len(h.cell[a]) /\ g.cell[a][j] = h.cell[a][WasAt(a, j)]
          /\ WasAt(d, k) \in 1..Len(h.cell[d]) /\ g.cell[d][k] = h.cell[d][WasAt(d, k)]
      BY <2>1, <2>2
    <3>2. a = d /\ WasAt(a, j) = WasAt(d, k)
      <4> HIDE DEF WasAt
      <4> QED BY <1>1, <2>2, <3>1 DEF InOnePlace
    <3> QED BY <3>2
  <2> QED BY <1>14, <2>2 DEF InOnePlace
<1>26. RootAndFinals(g)
  BY <1>1, <1>10, <1>12, <1>15 DEF RootAndFinals
<1>27. CellsOK(g)
  BY <1>17, <1>18, TypedCells
<1>28. ASSUME ~changed, NEW d \in 0..Len(h.cell), d # c PROVE Content(g, d) = Content(h, d)
  <2> DEFINE S == 0..Len(h.cell) \ {c}
  <2>1. S \subseteq 0..Len(g.cell) /\ S \subseteq 0..Len(h.cell)
    BY <1>14
  <2>2. \A b \in S : Data(g, b) = Data(h, b)
    BY <1>3, <1>14 DEF Data, NoCell
  <2>3. ASSUME NEW b \in S, NEW k \in DOMAIN Data(h, b) PROVE Data(h, b)[k].cell \in S
    <3>1. b \in 0..Len(h.cell) /\ Data(h, b)[k].cell \in 0..b - 1
      BY <1>1, DataParts
    <3>2. b \in 1..Len(h.cell) /\ Data(h, b) = h.cell[b]
      BY <1>1, <1>3, <3>1, DataParts
    <3>3. k \in 1..Len(h.cell[b])
      BY <1>1, <3>2, CellParts
    <3>4. Data(h, b)[k].cell # c
      BY <1>6, <1>28, <3>2, <3>3
    <3> QED BY <1>3, <3>1, <3>4
  <2>4. d \in S
    BY <1>28
  <2> HIDE DEF S
  <2>5. SameContent(g, h, S)
    BY <1>1, <1>27, <2>1, <2>2, <2>3, ContentAgrees
  <2> QED BY <2>4, <2>5 DEF SameContent
<1>29. ~changed => \A d \in 1..Len(h.cell) : \A k \in 1..Len(h.cell[d]) :
       h.cell[d][k].hash = Content(g, h.cell[d][k].cell)
  <2> SUFFICES ASSUME ~changed, NEW d \in 1..Len(h.cell), NEW k \in 1..Len(h.cell[d])
               PROVE  h.cell[d][k].hash = Content(g, h.cell[d][k].cell)
    OBVIOUS
  <2>1. h.cell[d][k].cell \in 0..d - 1
    BY <1>1 DEF CellsAreEarlier
  <2>2. h.cell[d][k].cell \in 0..Len(h.cell) /\ h.cell[d][k].cell # c
    BY <1>3, <1>6, <2>1
  <2> QED BY <1>1, <1>28, <2>2 DEF Sound
<1>30. e.hash = Content(g, e.cell)
  BY <1>8, <1>27, ContentNone
<1>31. ASSUME ~changed PROVE Content(g, c) = x
  <2>1. h.forest[f].hash = Content(h, c)
    BY <1>1, <1>2, <1>31 DEF Sound, c
  <2> DEFINE old == h.cell[c]
             y == [k \in DOMAIN old |-> <<old[k].id, old[k].hash>>]
             z == [k \in DOMAIN data |-> <<data[k].id, data[k].hash>>]
  <2>2. Content(h, c) = y
    <3>1. Data(h, c) = old /\ c \in 0..Len(h.cell) /\ DOMAIN old = 1..Len(old)
      BY <1>1, <1>3, CellParts DEF Data, NoCell
    <3>2. HasContent(h, c)
      BY <1>1, <3>1, ContentUnfolds
    <3>3. \A k \in DOMAIN old : old[k].hash = Content(h, old[k].cell)
      BY <1>1, <1>3, <1>31, <3>1 DEF Sound
    <3> QED BY <3>1, <3>2, <3>3 DEF HasContent
  <2>3. Content(g, c) = z
    <3>1. Data(g, c) = data /\ c \in 0..Len(g.cell) /\ DOMAIN data = 1..Len(data)
      BY <1>3, <1>9, <1>14 DEF Data, NoCell
    <3>2. HasContent(g, c)
      BY <1>27, <3>1, ContentUnfolds
    <3>3. \A k \in DOMAIN data : data[k].hash = Content(g, data[k].cell)
      <4> SUFFICES ASSUME NEW k \in 1..Len(data) PROVE data[k].hash = Content(g, data[k].cell)
        BY <3>1
      <4>1. CASE data[k] = e
        BY <1>30, <4>1
      <4>2. CASE \E j \in 1..Len(h.cell[c]) : data[k] = h.cell[c][j]
        BY <1>3, <1>29, <1>31, <4>2
      <4> QED BY <1>3, <1>14, <1>16, <4>1, <4>2
    <3> QED BY <3>1, <3>2, <3>3 DEF HasContent
  <2>4. x = z
    <3> DEFINE p == <<u, <<>>>>
    <3>1. HashOf(<<e>>) = <<p>>
      <4>1. DOMAIN <<e>> = 1..1 /\ <<e>>[1] = e /\ <<p>> = [k \in 1..1 |-> p]
        OBVIOUS
      <4> HIDE DEF p
      <4>2. HashOf(<<e>>) = [k \in 1..1 |-> <<<<e>>[k].id, <<e>>[k].hash>>]
        BY <4>1 DEF HashOf
      <4>3. <<e.id, e.hash>> = p
        BY <1>8 DEF p
      <4>4. \A k \in 1..1 : <<<<e>>[k].id, <<e>>[k].hash>> = p
        BY <4>1, <4>3
      <4> QED BY <4>1, <4>2, <4>4
    <3>2. x = <<p>> \o y
      BY <2>1, <2>2, <3>1 DEF x
    <3> DEFINE P == Updates \X V
    <3>3. old \in Seq(ElementType(V)) /\ Len(old) \in Nat /\ DOMAIN old = 1..Len(old)
      BY <1>8, LenProperties
    <3>4. \A k \in 1..Len(old) : <<old[k].id, old[k].hash>> \in P
      BY <1>1, <1>3, CellParts
    <3>5. y \in Seq(P) /\ Len(y) = Len(old) /\ \A k \in 1..Len(old) :
          y[k] = <<old[k].id, old[k].hash>>
      <4> HIDE DEF P, old
      <4>1. y \in [1..Len(old) -> P] /\ \A k \in 1..Len(old) : y[k] = <<old[k].id, old[k].hash>>
        BY <3>3, <3>4
      <4> HIDE DEF y
      <4>2. y \in Seq(P)
        BY <3>3, <4>1, SeqDef
      <4> QED BY <3>3, <4>1, <4>2, LenProperties
    <3>6. p \in P
      BY <1>1 DEF HeapTyped
    <3> HIDE DEF p, P, y
    <3>7. x \in Seq(P) /\ PutsInFront(x, y, p)
      BY <3>2, <3>5, <3>6, InFrontOf
    <3>8. p = <<e.id, e.hash>>
      BY <1>8 DEF p
    <3>9. DOMAIN data = 1..Len(data) /\ Len(data) = Len(old) + 1
      BY <1>9 DEF PutsInFront
    <3>10. ASSUME NEW k \in 1..Len(old) + 1 PROVE x[k] = <<data[k].id, data[k].hash>>
      <4>1. CASE k = 1
        BY <1>9, <3>7, <3>8, <4>1 DEF PutsInFront
      <4>2. CASE k # 1
        <5>1. k \in 1..Len(data) /\ k \in 1..Len(x)
          BY <3>5, <3>7, <3>9 DEF PutsInFront
        <5>2. k - 1 \in 1..Len(old) /\ data[k] = old[k - 1]
          BY <1>9, <4>2, <5>1 DEF PutsInFront
        <5>3. x[k] = y[k - 1]
          BY <3>7, <4>2, <5>1 DEF PutsInFront
        <5> QED BY <3>5, <5>2, <5>3
      <4> QED BY <4>1, <4>2
    <3>11. x = [k \in 1..Len(old) + 1 |-> x[k]]
      <4>1. Len(x) = Len(old) + 1
        BY <3>5, <3>7 DEF PutsInFront
      <4> HIDE DEF old
      <4> QED BY <3>7, <4>1
    <3> QED BY <3>9, <3>10, <3>11
  <2> QED BY <2>3, <2>4
<1>32. ASSUME ~changed PROVE Sound(g)
  <2>1. ASSUME NEW d \in 1..Len(h.cell), NEW k \in 1..Len(g.cell[d])
        PROVE g.cell[d][k].hash = Content(g, g.cell[d][k].cell)
    BY <1>16, <1>29, <1>30, <1>32
  <2>2. ASSUME NEW i \in 1..Len(h.forest), NEW v \in Updates \cup {Root}, Owns(h, v, i)
        PROVE  g.forest[i].hash = Content(g, g.forest[i].cell)
    <3>1. CASE i = f
      BY <1>13, <1>31, <1>32, <3>1
    <3>2. CASE i # f
      <4>1. h.forest[i].cell \in 0..Len(h.cell) /\ h.forest[i].cell # c
        BY <1>1, <1>7, <1>32, <2>2, <3>2, HeapParts DEF ForestType
      <4> QED BY <1>1, <1>12, <1>28, <1>32, <2>2, <3>2, <4>1 DEF Sound
    <3> QED BY <3>1, <3>2
  <2> QED BY <1>12, <1>14, <1>20, <2>1, <2>2 DEF Sound
<1> QED BY <1>17, <1>18, <1>19, <1>22, <1>24, <1>25, <1>26, <1>32, <1>33, <1>34 DEF HeapInv,
    SomeInv, g

\* What setChildren makes of the forest f: the tree of u is all there is in it.
OneTree(h, f, u) ==
  LET t == h.forest[h.tree[u]]
      e == <<[id |-> u, hash |-> t.hash, cell |-> t.cell]>>
  IN  [h EXCEPT !.cell = Append(@, e), !.forest[f] = Final(HashOf(e), Len(h.cell) + 1)]

\* The tree is approved as a forest: it may be in the layout and be approved
\* there too, which is why its update counts as put there by value.
LEMMA OneTreeInv ==
  ASSUME NEW B, NEW changed, NEW h, SomeInv(h, B, changed), NEW u \in DOMAIN h.tree,
         NEW f \in 1..Len(h.forest)
  PROVE  SomeInv(OneTree(h, f, u), B \cup {u}, changed)
<1> DEFINE g == OneTree(h, f, u)
           i == h.tree[u]
           x == [id |-> u, hash |-> h.forest[i].hash, cell |-> h.forest[i].cell]
           e == <<x>>
           new == Final(HashOf(e), Len(h.cell) + 1)
<1> PICK V : HeapInv(h, V, B, changed)
  BY DEF SomeInv
<1>1. HeapTyped(h, V)
  BY DEF HeapInv
<1>2. i \in 1..Len(h.forest) /\ Owns(h, u, i) /\ u \in Updates
  BY <1>1, HeapParts DEF Owns
<1>3. /\ x \in ElementType(V) /\ x.id = u /\ x.hash = h.forest[i].hash /\ x.cell = h.forest[i].cell
  <2>1. h.forest[i].hash \in V /\ h.forest[i].cell \in Nat
    BY <1>1, <1>2, HeapParts DEF ForestType
  <2> HIDE DEF i
  <2> QED BY <1>2, <2>1 DEF ElementType
<1> HIDE DEF x
<1>4. e \in Seq(ElementType(V)) /\ Len(e) = 1 /\ e[1] = x
  BY <1>3
<1>5. /\ g.forest = [h.forest EXCEPT ![f] = new] /\ g.node = h.node /\ g.tree = h.tree
      /\ g = [node |-> h.node, forest |-> g.forest, cell |-> Append(h.cell, e), tree |-> h.tree]
  <2>1. g = [h EXCEPT !.cell = Append(@, e), !.forest[f] = new]
    BY DEF OneTree, x
  <2>2. h = [node |-> h.node, forest |-> h.forest, cell |-> h.cell, tree |-> h.tree]
    BY <1>1 DEF HeapTyped
  <2> HIDE DEF g, e, new
  <2> QED BY <2>1, <2>2
<1> HIDE DEF g, e, i, new
<1>6. DOMAIN h.forest = 1..Len(h.forest) /\ Len(h.forest) \in Nat
  BY <1>1, HeapParts
<1>7. /\ Len(g.forest) = Len(h.forest) /\ g.forest[f] = new
      /\ \A k \in 1..Len(h.forest) : k # f => g.forest[k] = h.forest[k]
      /\ g.forest = [k \in 1..Len(h.forest) |-> g.forest[k]]
  <2>1. DOMAIN g.forest = 1..Len(h.forest) /\ g.forest = [k \in 1..Len(h.forest) |-> g.forest[k]]
    BY <1>5, <1>6
  <2>2. Len(g.forest) = Len(h.forest)
    BY <1>6, <2>1
  <2> QED BY <1>5, <1>6, <2>1, <2>2
<1>8. BecomesFinal(g, h, f, e)
  <2>1. 1..Len(h.forest) = 1..Len(h.forest) \cup {f}
    OBVIOUS
  <2>2. Len(g.forest) \in Nat /\ g.forest = [k \in 1..Len(g.forest) |-> g.forest[k]]
        /\ 1..Len(g.forest) = 1..Len(h.forest) \cup {f}
    BY <1>6, <1>7, <2>1
  <2> QED BY <1>5, <1>7, <2>2 DEF BecomesFinal, new
<1>9. \A k \in 1..Len(e) : e[k] = x
  BY <1>4
<1>10. AreTrees(h, e)
  BY <1>2, <1>3, <1>9 DEF AreTrees
<1>11. \A k \in 1..Len(e) :
         e[k].id \in B \cup {u} \/ (InFinal(g, e[k].id) /\ NewInData(h, e, k))
  BY <1>3, <1>9
<1>12. HeapInv(g, V \cup {HashOf(e)}, B \cup {u}, changed)
  <2>1. B \subseteq B \cup {u} /\ f \in 1..Len(h.forest) + 1
    BY <1>6
  <2> QED BY <1>4, <1>8, <1>10, <1>11, <2>1, FinalForestInv
<1> QED BY <1>12 DEF SomeInv, g

\* The layout begins with the empty forest of its root.
LEMMA EmptyHeapInv == SomeInv(EmptyHeap, {}, FALSE)
<1> DEFINE h == EmptyHeap
           V == {<<>>}
           n == [final |-> FALSE, children |-> 1, siblings |-> 0, dummy |-> FALSE]
           m == Mutable(<<>>)
<1>1. /\ h.node = [u \in {Root} |-> n] /\ h.forest = <<m>> /\ h.cell = <<>> /\ h.tree = EmptyMap
      /\ h = [node |-> h.node, forest |-> h.forest, cell |-> h.cell, tree |-> h.tree]
  BY DEF EmptyHeap
<1>2. /\ m.final = FALSE /\ m.list = <<>> /\ m.hash = <<>> /\ m.cell = 0
      /\ <<>> \in Seq(Updates) /\ Len(<<>>) = 0
      /\ m \in ForestType(V, 0)
  <2>1. <<>> \in Seq(Updates) /\ Len(<<>>) = 0 /\ 0 \in 0..0
    BY EmptySeq
  <2> QED BY <2>1 DEF Mutable, NoCell, ForestType
<1>3. n \in NodeType(1) /\ n.children = 1 /\ n.siblings = 0
  BY DEF NodeType
<1> HIDE DEF h, n, m
<1>4. /\ Len(h.forest) = 1 /\ h.forest \in Seq(ForestType(V, 0)) /\ h.forest[1] = m
      /\ \A f \in 1..Len(h.forest) : h.forest[f] = m
  BY <1>1, <1>2
<1>5. DOMAIN h.node = {Root} /\ h.node[Root] = n
  BY <1>1
<1>6. Len(h.cell) = 0 /\ h.cell \in Seq(Seq(ElementType(V))) /\ \A c : c \notin 1..Len(h.cell)
  <2>1. Len(h.cell) = 0 /\ h.cell \in Seq(Seq(ElementType(V)))
    BY <1>1, EmptySeq
  <2> QED BY <2>1
<1>7. DOMAIN h.tree = {} /\ h.tree = EmptyMap
  BY <1>1 DEF EmptyMap
<1>8. HeapTyped(h, V)
  <2>1. h.node \in [DOMAIN h.node -> NodeType(Len(h.forest))]
    BY <1>1, <1>3, <1>4
  <2>2. h.tree \in [DOMAIN h.tree -> 1..Len(h.forest)]
    BY <1>7 DEF EmptyMap
  <2> QED BY <1>1, <1>4, <1>5, <1>6, <1>7, <2>1, <2>2 DEF HeapTyped
<1>9. CellsAreEarlier(h) /\ Placed(h, {}) /\ InOnePlace(h, {})
  BY <1>6 DEF CellsAreEarlier, Placed, InOnePlace
<1>16. ListedOnce(h)
  BY <1>2, <1>4 DEF ListedOnce, NoRepeats
<1>10. Attached(h)
  <2>1. \A k : k \notin 1..Len(<<>>)
    BY <1>2
  <2> QED BY <1>2, <1>4, <2>1 DEF Attached
<1>11. \A v, f : Owns(h, v, f) => v = Root
  BY <1>5, <1>7 DEF Owns
<1>12. OneOwner(h)
  BY <1>6, <1>11 DEF OneOwner
<1>13. Copies(h) /\ RootAndFinals(h)
  BY <1>2, <1>3, <1>4, <1>5, <1>7 DEF Copies, RootAndFinals
<1>14. Sound(h)
  <2>1. CellsOK(h)
    BY <1>8, <1>9, TypedCells
  <2>2. Content(h, 0) = <<>>
    BY <2>1, ContentNone
  <2>3. \A f \in 1..Len(h.forest) : h.forest[f].hash = Content(h, h.forest[f].cell)
    BY <1>2, <1>4, <2>2
  <2> QED BY <1>6, <2>3 DEF Sound
<1>15. HeapInv(h, V, {}, FALSE)
  BY <1>8, <1>9, <1>10, <1>12, <1>13, <1>14, <1>16 DEF HeapInv
<1> QED BY <1>15 DEF SomeInv, h

-----------------------------------------------------------------------------
(* Forests as values, level by level *)

\* Forests are built by levels ...
LEMMA ForestLevels ==
  /\ ForestsUpTo[0] = {<<>>}
  /\ \A n \in 1..MaxLevels : ForestsUpTo[n] = Seq(Updates \X ForestsUpTo[n - 1])
<1> DEFINE E(x) == Seq(Updates \X x)
           Body(g, m) == [n \in 0..m |-> IF n = 0 THEN {<<>>} ELSE E(g[n - 1])]
           f == CHOOSE g : g = Body(g, MaxLevels)
           T == {m \in 0..MaxLevels : \E g : g = Body(g, m)}
<1>1. MaxLevels \in Nat
  BY UpdatesAssumption
<1>2. ForestsUpTo = f
  BY DEF ForestsUpTo
<1>3. \A x : E(x) = Seq(Updates \X x)
  OBVIOUS
<1> HIDE DEF E
<1>4. 0 \in T
  <2> DEFINE g == [n \in 0..0 |-> {<<>>}]
  <2>1. g = Body(g, 0)
    OBVIOUS
  <2> HIDE DEF g, Body
  <2> QED BY <1>1, <2>1
<1>5. ASSUME NEW m \in 0..MaxLevels - 1, m \in T PROVE m + 1 \in T
  <2>1. PICK g : g = Body(g, m)
    BY <1>5
  <2> DEFINE h == [n \in 0..m + 1 |-> IF n = m + 1 THEN E(g[m]) ELSE g[n]]
  <2>2. h = Body(h, m + 1)
    <3>1. \A n \in 0..m : h[n] = g[n]
      OBVIOUS
    <3>2. \A n \in 0..m : g[n] = IF n = 0 THEN {<<>>} ELSE E(g[n - 1])
      BY <2>1
    <3>3. ASSUME NEW n \in 0..m + 1 PROVE h[n] = IF n = 0 THEN {<<>>} ELSE E(h[n - 1])
      <4>1. CASE n = m + 1
        BY <3>1, <4>1
      <4>2. CASE n \in 0..m
        <5>1. n # 0 => n - 1 \in 0..m
          BY <4>2
        <5>2. n = 0 \/ h[n - 1] = g[n - 1]
          BY <3>1, <5>1
        <5>3. h[n] = g[n]
          BY <3>1, <4>2
        <5>4. g[n] = IF n = 0 THEN {<<>>} ELSE E(g[n - 1])
          BY <3>2, <4>2
        <5> QED BY ONLY <5>2, <5>3, <5>4
      <4> QED BY <4>1, <4>2
    <3> HIDE DEF h
    <3>4. h = [n \in 0..m + 1 |-> h[n]]
      BY DEF h
    <3> QED BY <3>3, <3>4
  <2>3. m + 1 \in 0..MaxLevels
    BY <1>1
  <2> HIDE DEF h, Body
  <2> QED BY <2>2, <2>3
<1> HIDE DEF T
<1>6. 0..MaxLevels \subseteq T
  BY <1>1, <1>4, <1>5, IntervalInduction
<1> HIDE DEF Body
<1>7. PICK g : g = Body(g, MaxLevels)
  BY <1>1, <1>6 DEF T
<1>8. f = Body(f, MaxLevels)
  BY <1>7
<1> HIDE DEF f
<1> USE DEF Body
<1>9. \A n \in 0..MaxLevels : f[n] = IF n = 0 THEN {<<>>} ELSE E(f[n - 1])
  BY <1>8
<1>10. f[0] = {<<>>} /\ \A n \in 1..MaxLevels : f[n] = E(f[n - 1])
  BY <1>1, <1>9
<1> QED BY <1>2, <1>3, <1>10

\* ... which contain the ones below.
LEMMA ForestsGrow ==
  /\ \A n \in 0..MaxLevels : <<>> \in ForestsUpTo[n]
  /\ \A n \in 1..MaxLevels : ForestsUpTo[n - 1] \subseteq ForestsUpTo[n]
  /\ \A n \in 0..MaxLevels : ForestsUpTo[n] \subseteq Forests
<1>1. MaxLevels \in Nat
  BY UpdatesAssumption
<1>2. ASSUME NEW n \in 0..MaxLevels PROVE <<>> \in ForestsUpTo[n]
  <2>1. \A S : <<>> \in Seq(S)
    BY EmptySeq
  <2>2. n = 0 \/ n \in 1..MaxLevels
    BY <1>1
  <2> QED BY <2>1, <2>2, ForestLevels
<1> DEFINE T == {n \in 0..MaxLevels : n = 0 \/ ForestsUpTo[n - 1] \subseteq ForestsUpTo[n]}
<1>3. 0 \in T
  BY <1>1
<1>4. ASSUME NEW n \in 0..MaxLevels - 1, n \in T PROVE n + 1 \in T
  <2>1. n + 1 \in 1..MaxLevels /\ n \in 0..MaxLevels /\ (n + 1) - 1 = n
    BY <1>1
  <2>2. ForestsUpTo[n + 1] = Seq(Updates \X ForestsUpTo[n])
    BY <2>1, ForestLevels
  <2>3. ForestsUpTo[n] \subseteq ForestsUpTo[n + 1]
    <3>1. CASE n = 0
      <4>1. <<>> \in ForestsUpTo[n + 1]
        BY <1>2, <2>1
      <4> QED BY <3>1, <4>1, ForestLevels
    <3>2. CASE n # 0
      <4>1. n \in 1..MaxLevels
        BY <2>1, <3>2
      <4>2. ForestsUpTo[n] = Seq(Updates \X ForestsUpTo[n - 1])
            /\ ForestsUpTo[n - 1] \subseteq ForestsUpTo[n]
        BY <1>4, <3>2, <4>1, ForestLevels
      <4>3. \A A, B : A \subseteq B => Seq(A) \subseteq Seq(B)
        OBVIOUS
      <4>4. Updates \X ForestsUpTo[n - 1] \subseteq Updates \X ForestsUpTo[n]
        BY <4>2
      <4>5. Seq(Updates \X ForestsUpTo[n - 1]) \subseteq Seq(Updates \X ForestsUpTo[n])
        BY <4>3, <4>4
      <4> QED BY <2>2, <4>2, <4>5
    <3> QED BY <3>1, <3>2
  <2> QED BY <2>1, <2>3
<1> HIDE DEF T
<1>5. 0..MaxLevels \subseteq T
  BY <1>1, <1>3, <1>4, IntervalInduction
<1>6. ASSUME NEW n \in 1..MaxLevels PROVE ForestsUpTo[n - 1] \subseteq ForestsUpTo[n]
  <2>1. n \in 0..MaxLevels /\ n # 0
    BY <1>1
  <2> QED BY <1>5, <2>1 DEF T
<1> DEFINE S == {k \in 0..MaxLevels : ForestsUpTo[MaxLevels - k] \subseteq Forests}
<1>7. 0 \in S
  BY <1>1 DEF Forests
<1>8. ASSUME NEW k \in 0..MaxLevels - 1, k \in S PROVE k + 1 \in S
  <2>1. MaxLevels - k \in 1..MaxLevels /\ (MaxLevels - k) - 1 = MaxLevels - (k + 1)
        /\ k + 1 \in 0..MaxLevels
    BY <1>1
  <2>2. ForestsUpTo[MaxLevels - (k + 1)] \subseteq ForestsUpTo[MaxLevels - k]
    BY <1>6, <2>1
  <2> QED BY <1>8, <2>1, <2>2
<1> HIDE DEF S
<1>9. 0..MaxLevels \subseteq S
  BY <1>1, <1>7, <1>8, IntervalInduction
<1>10. ASSUME NEW n \in 0..MaxLevels PROVE ForestsUpTo[n] \subseteq Forests
  <2>1. MaxLevels - n \in 0..MaxLevels /\ MaxLevels - (MaxLevels - n) = n
    BY <1>1
  <2> QED BY <1>9, <2>1 DEF S
<1> QED BY <1>2, <1>6, <1>10

\* The trees of a forest that is sent: an account update and a forest of its own.
LEMMA ForestParts ==
  ASSUME NEW f \in Forests
  PROVE  /\ f \in Seq(Updates \X Forests)
         /\ f # <<>> => Head(f) \in Updates \X Forests /\ Tail(f) \in Forests
<1>1. MaxLevels \in Nat
  BY UpdatesAssumption
<1>2. MaxLevels = 0 => f = <<>>
  BY ForestLevels DEF Forests
<1>3. ASSUME MaxLevels # 0
      PROVE  /\ Forests = Seq(Updates \X ForestsUpTo[MaxLevels - 1])
             /\ ForestsUpTo[MaxLevels - 1] \subseteq Forests
  <2>1. MaxLevels \in 1..MaxLevels /\ MaxLevels - 1 \in 0..MaxLevels
    BY <1>1, <1>3
  <2> QED BY <2>1, ForestLevels, ForestsGrow DEF Forests
<1>4. f \in Seq(Updates \X Forests)
  <2>1. CASE MaxLevels = 0
    BY <1>2, <2>1, EmptySeq
  <2>2. CASE MaxLevels # 0
    <3>1. Updates \X ForestsUpTo[MaxLevels - 1] \subseteq Updates \X Forests
      BY <1>3, <2>2
    <3>2. \A A, B : A \subseteq B => Seq(A) \subseteq Seq(B)
      OBVIOUS
    <3> HIDE DEF Forests
    <3>3. Seq(Updates \X ForestsUpTo[MaxLevels - 1]) \subseteq Seq(Updates \X Forests)
      BY <3>1, <3>2
    <3> QED BY <1>3, <2>2, <3>3
  <2> QED BY <2>1, <2>2
<1>5. ASSUME f # <<>> PROVE Head(f) \in Updates \X Forests /\ Tail(f) \in Forests
  <2>1. MaxLevels # 0
    BY <1>2, <1>5
  <2>2. \A S, s : s \in Seq(S) /\ s # <<>> => Head(s) \in S /\ Tail(s) \in Seq(S)
    BY HeadTailProperties
  <2> QED BY <1>3, <1>4, <1>5, <2>1, <2>2
<1> QED BY <1>4, <1>5

\* toFlatList of a forest is tree by tree: the update, then what is below it, at
\* whatever level the forest is looked at.
FlatTrees(f) == [k \in DOMAIN f |-> <<f[k][1]>> \o Flat(f[k][2])]

LEMMA FlatUnfolds ==
  /\ Flat(<<>>) = <<>>
  /\ \A f \in Forests : Flat(f) \in Seq(Updates) /\ Flat(f) = Flattened(FlatTrees(f))
<1> DEFINE D(x, f) == [k \in DOMAIN f |-> <<f[k][1]>> \o x[f[k][2]]]
           E(x, n) == [f \in ForestsUpTo[n] |-> Flattened(D(x, f))]
           Body(g, N) == [n \in 0..N |-> E(g[n - 1], n)]
           v == CHOOSE g : g = Body(g, MaxLevels)
           T == {N \in 0..MaxLevels : \E g : g = Body(g, N)}
<1>1. MaxLevels \in Nat
  BY UpdatesAssumption
<1>2. \A f : Flat(f) = v[MaxLevels][f]
  BY DEF Flat
<1>3. \A x : D(x, <<>>) = <<>>
  OBVIOUS
<1>4. \A x, f : /\ D(x, f) = [k \in DOMAIN f |-> D(x, f)[k]]
                /\ DOMAIN D(x, f) = DOMAIN f
                /\ \A k \in DOMAIN f : D(x, f)[k] = <<f[k][1]>> \o x[f[k][2]]
  OBVIOUS
<1> HIDE DEF D
<1>5. \A x, n : E(x, n) = [f \in ForestsUpTo[n] |-> Flattened(D(x, f))]
  OBVIOUS
<1>6. \A x, y : E(x, 0) = E(y, 0)
  BY <1>3, ForestLevels
<1> HIDE DEF E
<1>7. 0 \in T
  <2> DEFINE g == [n \in 0..0 |-> E(0, 0)]
  <2>1. g = Body(g, 0)
    BY <1>6
  <2> HIDE DEF g, Body
  <2> QED BY <1>1, <2>1
<1>8. ASSUME NEW N \in 0..MaxLevels - 1, N \in T PROVE N + 1 \in T
  <2>1. PICK g : g = Body(g, N)
    BY <1>8
  <2> DEFINE h == [n \in 0..N + 1 |-> IF n = N + 1 THEN E(g[N], N + 1) ELSE g[n]]
  <2>2. h = Body(h, N + 1)
    <3>1. \A n \in 0..N : h[n] = g[n]
      OBVIOUS
    <3>2. \A n \in 0..N : g[n] = E(g[n - 1], n)
      BY <2>1
    <3>3. ASSUME NEW n \in 0..N + 1 PROVE h[n] = E(h[n - 1], n)
      <4>1. CASE n = N + 1
        BY <3>1, <4>1
      <4>2. CASE n = 0
        BY <1>6, <3>1, <3>2, <4>2
      <4>3. CASE n \in 1..N
        <5>1. n - 1 \in 0..N /\ n \in 0..N
          BY <4>3
        <5>2. h[n - 1] = g[n - 1] /\ h[n] = g[n] /\ g[n] = E(g[n - 1], n)
          BY <3>1, <3>2, <5>1
        <5> QED BY ONLY <5>2
      <4> QED BY <4>1, <4>2, <4>3
    <3> HIDE DEF h
    <3>4. h = [n \in 0..N + 1 |-> h[n]]
      BY DEF h
    <3> QED BY <3>3, <3>4
  <2>3. N + 1 \in 0..MaxLevels
    BY <1>1
  <2> HIDE DEF h, Body
  <2> QED BY <2>2, <2>3
<1> HIDE DEF T
<1>9. 0..MaxLevels \subseteq T
  BY <1>1, <1>7, <1>8, IntervalInduction
<1> HIDE DEF Body
<1>10. PICK g : g = Body(g, MaxLevels)
  BY <1>1, <1>9 DEF T
<1>11. v = Body(v, MaxLevels)
  BY <1>10
<1> HIDE DEF v
<1>12. \A n \in 0..MaxLevels : v[n] = E(v[n - 1], n)
  BY <1>11 DEF Body
<1>13. ASSUME NEW n \in 0..MaxLevels, NEW f \in ForestsUpTo[n]
       PROVE  v[n][f] = Flattened(D(v[n - 1], f))
  BY <1>5, <1>12
\* Typing, and at level 0
<1> DEFINE typed == {n \in 0..MaxLevels : \A f \in ForestsUpTo[n] : v[n][f] \in Seq(Updates)}
           agree == {n \in 0..MaxLevels :
                       n = 0 \/ \A f \in ForestsUpTo[n - 1] : v[n][f] = v[n - 1][f]}
<1>14. Flattened(<<>>) = <<>> /\ <<>> \in Seq(Updates)
  BY EmptySeq, FlattenedSteps
<1>15. ASSUME NEW n \in 0..MaxLevels PROVE v[n][<<>>] = <<>>
  <2>1. <<>> \in ForestsUpTo[n]
    BY ForestsGrow
  <2>2. v[n][<<>>] = Flattened(D(v[n - 1], <<>>))
    BY <1>13, <2>1
  <2> QED BY <1>3, <1>14, <2>2
<1>16. 0 \in typed /\ 0 \in agree
  <2>1. 0 \in 0..MaxLevels /\ ForestsUpTo[0] = {<<>>}
    BY <1>1, ForestLevels
  <2>2. v[0][<<>>] = <<>>
    BY <1>15, <2>1
  <2>3. \A f \in ForestsUpTo[0] : v[0][f] \in Seq(Updates)
    BY <1>14, <2>1, <2>2
  <2> QED BY <2>1, <2>3
<1>17. ASSUME NEW n \in 0..MaxLevels - 1, NEW f \in ForestsUpTo[n + 1], n \in typed
       PROVE  D(v[n], f) \in Seq(Seq(Updates))
  <2>1. n + 1 \in 1..MaxLevels /\ (n + 1) - 1 = n
    BY <1>1
  <2>2. f \in Seq(Updates \X ForestsUpTo[n])
    BY <2>1, ForestLevels
  <2>3. DOMAIN f = 1..Len(f) /\ Len(f) \in Nat
    BY <2>2
  <2> DEFINE w == v[n]
             s == D(w, f)
  <2>4. ASSUME NEW k \in 1..Len(f) PROVE s[k] \in Seq(Updates)
    <3> DEFINE x == f[k][1]
               r == w[f[k][2]]
    <3>1. f[k] \in Updates \X ForestsUpTo[n]
      BY <2>2, <2>4
    <3>2. x \in Updates /\ r \in Seq(Updates)
      BY <1>17, <3>1
    <3>3. s[k] = <<x>> \o r
      <4> HIDE DEF w
      <4> QED BY <1>4, <2>3
    <3> HIDE DEF x, r, s
    <3>4. <<x>> \in Seq(Updates)
      BY <3>2
    <3> QED BY <3>2, <3>3, <3>4, ConcatProperties
  <2>5. s = [k \in 1..Len(f) |-> s[k]]
    <3> HIDE DEF w
    <3> QED BY <1>4, <2>3
  <2> HIDE DEF s
  <2>6. s \in Seq(Seq(Updates))
    BY <2>3, <2>4, <2>5
  <2> QED BY <2>6 DEF s
<1>18. ASSUME NEW n \in 0..MaxLevels - 1, n \in typed PROVE n + 1 \in typed
  <2>1. n + 1 \in 0..MaxLevels /\ (n + 1) - 1 = n
    BY <1>1
  <2>2. ASSUME NEW f \in ForestsUpTo[n + 1] PROVE v[n + 1][f] \in Seq(Updates)
    <3>1. v[n + 1][f] = Flattened(D(v[n], f))
      BY <1>13, <2>1
    <3>2. D(v[n], f) \in Seq(Seq(Updates))
      BY <1>17, <1>18
    <3> QED BY <3>1, <3>2, FlattenedSteps
  <2> QED BY <2>1, <2>2
<1> HIDE DEF typed
<1>19. 0..MaxLevels \subseteq typed
  BY <1>1, <1>16, <1>18, IntervalInduction
\* A deeper level agrees with the one below it.
<1>20. ASSUME NEW n \in 0..MaxLevels - 1, n \in agree PROVE n + 1 \in agree
  <2>1. n + 1 \in 1..MaxLevels /\ n + 1 \in 0..MaxLevels /\ (n + 1) - 1 = n /\ n \in 0..MaxLevels
    BY <1>1
  <2>2. ASSUME NEW f \in ForestsUpTo[n] PROVE v[n + 1][f] = v[n][f]
    <3>1. f \in ForestsUpTo[n + 1]
      BY <2>1, ForestsGrow
    <3>2. v[n + 1][f] = Flattened(D(v[n], f)) /\ v[n][f] = Flattened(D(v[n - 1], f))
      BY <1>13, <2>1, <3>1
    <3>3. CASE n = 0
      BY <1>3, <3>2, <3>3, ForestLevels
    <3>4. CASE n # 0
      <4>1. n \in 1..MaxLevels
        BY <2>1, <3>4
      <4>2. f \in Seq(Updates \X ForestsUpTo[n - 1])
        BY <4>1, ForestLevels
      <4> DEFINE x == v[n]
                 y == v[n - 1]
      <4>3. ASSUME NEW k \in DOMAIN f PROVE D(x, f)[k] = D(y, f)[k]
        <5>1. f[k][2] \in ForestsUpTo[n - 1]
          BY <4>2
        <5>2. x[f[k][2]] = y[f[k][2]]
          BY <1>20, <3>4, <5>1
        <5> HIDE DEF x, y
        <5>3. D(x, f)[k] = <<f[k][1]>> \o x[f[k][2]] /\ D(y, f)[k] = <<f[k][1]>> \o y[f[k][2]]
          BY <1>4
        <5> QED BY <5>2, <5>3
      <4> HIDE DEF x, y
      <4>4. D(x, f) = D(y, f)
        BY <1>4, <4>3
      <4> QED BY <3>2, <4>4 DEF x, y
    <3> QED BY <3>3, <3>4
  <2> QED BY <2>1, <2>2
<1> HIDE DEF agree
<1>21. 0..MaxLevels \subseteq agree
  BY <1>1, <1>16, <1>20, IntervalInduction
<1>22. ASSUME NEW f \in Forests PROVE Flat(f) \in Seq(Updates)
  BY <1>1, <1>2, <1>19 DEF typed, Forests
<1>23. ASSUME NEW f \in Forests PROVE Flat(f) = Flattened(FlatTrees(f))
  <2>1. f \in ForestsUpTo[MaxLevels] /\ MaxLevels \in 0..MaxLevels
    BY <1>1 DEF Forests
  <2>2. Flat(f) = Flattened(D(v[MaxLevels - 1], f))
    BY <1>2, <1>13, <2>1
  <2>3. CASE MaxLevels = 0
    <3>1. f = <<>>
      BY <2>1, <2>3, ForestLevels
    <3>2. FlatTrees(<<>>) = <<>>
      BY DEF FlatTrees
    <3> QED BY <1>3, <2>2, <3>1, <3>2
  <2>4. CASE MaxLevels # 0
    <3>1. MaxLevels \in 1..MaxLevels
      BY <1>1, <2>4
    <3>2. f \in Seq(Updates \X ForestsUpTo[MaxLevels - 1])
      BY <2>1, <3>1, ForestLevels
    <3> DEFINE y == v[MaxLevels - 1]
    <3>3. ASSUME NEW k \in DOMAIN f PROVE D(y, f)[k] = <<f[k][1]>> \o Flat(f[k][2])
      <4>1. f[k][2] \in ForestsUpTo[MaxLevels - 1]
        BY <3>2
      <4>2. v[MaxLevels][f[k][2]] = y[f[k][2]]
        BY <1>21, <2>1, <2>4, <4>1 DEF agree
      <4> HIDE DEF y
      <4> QED BY <1>2, <1>4, <4>2
    <3> HIDE DEF y
    <3>4. D(y, f) = FlatTrees(f)
      BY <1>4, <3>3 DEF FlatTrees
    <3> QED BY <2>2, <3>4 DEF y
  <2> QED BY <2>3, <2>4
<1>24. Flat(<<>>) = <<>>
  BY <1>1, <1>2, <1>15
<1> QED BY <1>22, <1>23, <1>24

\* The updates of a forest that were copied, tree by tree.
CopiedOfTree(B, t) == IF t[1] \in B THEN {t[1]} \cup ToSet(Flat(t[2])) ELSE Copied(B, t[2])

LEMMA CopiedUnfolds ==
  ASSUME NEW B, NEW f \in Forests
  PROVE  Copied(B, f) = UNION {CopiedOfTree(B, f[k]) : k \in DOMAIN f}
<1> DEFINE D(x, t) == IF t[1] \in B THEN {t[1]} \cup ToSet(Flat(t[2])) ELSE x[t[2]]
           A(x, q) == UNION {D(x, t) : t \in ToSet(q)}
           E(x, n) == [q \in ForestsUpTo[n] |-> A(x, q)]
           Body(g, N) == [n \in 0..N |-> E(g[n - 1], n)]
           v == CHOOSE g : g = Body(g, MaxLevels)
           T == {N \in 0..MaxLevels : \E g : g = Body(g, N)}
<1>1. MaxLevels \in Nat
  BY UpdatesAssumption
<1>2. \A q : Copied(B, q) = v[MaxLevels][q]
  BY DEF Copied
<1>3. \A x : A(x, <<>>) = {}
  BY DEF ToSet
<1>4. \A x, t : D(x, t) = IF t[1] \in B THEN {t[1]} \cup ToSet(Flat(t[2])) ELSE x[t[2]]
  OBVIOUS
<1> HIDE DEF D
<1>5. \A x, q : A(x, q) = UNION {D(x, q[k]) : k \in DOMAIN q}
  BY DEF ToSet
<1> HIDE DEF A
<1>d. \A x, n : E(x, n) = [q \in ForestsUpTo[n] |-> A(x, q)]
  OBVIOUS
<1>6. \A x, y : E(x, 0) = E(y, 0)
  BY <1>3, ForestLevels
<1> HIDE DEF E
<1>7. 0 \in T
  <2> DEFINE g == [n \in 0..0 |-> E(0, 0)]
  <2>1. g = Body(g, 0)
    BY <1>6
  <2> HIDE DEF g, Body
  <2> QED BY <1>1, <2>1
<1>8. ASSUME NEW N \in 0..MaxLevels - 1, N \in T PROVE N + 1 \in T
  <2>1. PICK g : g = Body(g, N)
    BY <1>8
  <2> DEFINE h == [n \in 0..N + 1 |-> IF n = N + 1 THEN E(g[N], N + 1) ELSE g[n]]
  <2>2. h = Body(h, N + 1)
    <3>1. \A n \in 0..N : h[n] = g[n]
      OBVIOUS
    <3>2. \A n \in 0..N : g[n] = E(g[n - 1], n)
      BY <2>1
    <3>3. ASSUME NEW n \in 0..N + 1 PROVE h[n] = E(h[n - 1], n)
      <4>1. CASE n = N + 1
        BY <3>1, <4>1
      <4>2. CASE n = 0
        BY <1>6, <3>1, <3>2, <4>2
      <4>3. CASE n \in 1..N
        <5>1. n - 1 \in 0..N /\ n \in 0..N
          BY <4>3
        <5>2. h[n - 1] = g[n - 1] /\ h[n] = g[n] /\ g[n] = E(g[n - 1], n)
          BY <3>1, <3>2, <5>1
        <5> QED BY ONLY <5>2
      <4> QED BY <4>1, <4>2, <4>3
    <3> HIDE DEF h
    <3>4. h = [n \in 0..N + 1 |-> h[n]]
      BY DEF h
    <3> QED BY <3>3, <3>4
  <2>3. N + 1 \in 0..MaxLevels
    BY <1>1
  <2> HIDE DEF h, Body
  <2> QED BY <2>2, <2>3
<1> HIDE DEF T
<1>9. 0..MaxLevels \subseteq T
  BY <1>1, <1>7, <1>8, IntervalInduction
<1> HIDE DEF Body
<1>10. PICK g : g = Body(g, MaxLevels)
  BY <1>1, <1>9 DEF T
<1>11. v = Body(v, MaxLevels)
  BY <1>10
<1> HIDE DEF v
<1>12. \A n \in 0..MaxLevels : v[n] = E(v[n - 1], n)
  BY <1>11 DEF Body
<1>13. ASSUME NEW n \in 0..MaxLevels, NEW q \in ForestsUpTo[n]
       PROVE  v[n][q] = A(v[n - 1], q)
  BY <1>d, <1>12
\* A deeper level agrees with the one below it.
<1> DEFINE agree == {n \in 0..MaxLevels :
                       n = 0 \/ \A q \in ForestsUpTo[n - 1] : v[n][q] = v[n - 1][q]}
<1>14. 0 \in agree
  BY <1>1
<1>15. ASSUME NEW n \in 0..MaxLevels - 1, n \in agree PROVE n + 1 \in agree
  <2>1. n + 1 \in 1..MaxLevels /\ n + 1 \in 0..MaxLevels /\ (n + 1) - 1 = n /\ n \in 0..MaxLevels
    BY <1>1
  <2>2. ASSUME NEW q \in ForestsUpTo[n] PROVE v[n + 1][q] = v[n][q]
    <3>1. q \in ForestsUpTo[n + 1]
      BY <2>1, ForestsGrow
    <3>2. v[n + 1][q] = A(v[n], q) /\ v[n][q] = A(v[n - 1], q)
      BY <1>13, <2>1, <3>1
    <3>3. CASE n = 0
      BY <1>3, <3>2, <3>3, ForestLevels
    <3>4. CASE n # 0
      <4>1. n \in 1..MaxLevels
        BY <2>1, <3>4
      <4>2. q \in Seq(Updates \X ForestsUpTo[n - 1])
        BY <4>1, ForestLevels
      <4> DEFINE x == v[n]
                 y == v[n - 1]
      <4>3. ASSUME NEW k \in DOMAIN q PROVE D(x, q[k]) = D(y, q[k])
        <5>1. q[k][2] \in ForestsUpTo[n - 1]
          BY <4>2
        <5>2. x[q[k][2]] = y[q[k][2]]
          BY <1>15, <3>4, <5>1
        <5> HIDE DEF x, y
        <5> QED BY <1>4, <5>2
      <4> HIDE DEF x, y
      <4>4. A(x, q) = A(y, q)
        <5>1. {D(x, q[k]) : k \in DOMAIN q} = {D(y, q[k]) : k \in DOMAIN q}
          BY <4>3
        <5> QED BY <1>5, <5>1
      <4> QED BY <3>2, <4>4 DEF x, y
    <3> QED BY <3>3, <3>4
  <2> QED BY <2>1, <2>2
<1> HIDE DEF agree
<1>16. 0..MaxLevels \subseteq agree
  BY <1>1, <1>14, <1>15, IntervalInduction
<1>17. f \in ForestsUpTo[MaxLevels] /\ MaxLevels \in 0..MaxLevels
  BY <1>1 DEF Forests
<1> DEFINE y == v[MaxLevels - 1]
<1>18. Copied(B, f) = UNION {D(y, f[k]) : k \in DOMAIN f}
  BY <1>2, <1>5, <1>13, <1>17
<1>19. ASSUME NEW k \in DOMAIN f PROVE D(y, f[k]) = CopiedOfTree(B, f[k])
  <2>1. MaxLevels # 0
    <3> SUFFICES ASSUME MaxLevels = 0 PROVE FALSE
      OBVIOUS
    <3>1. f = <<>> /\ DOMAIN <<>> = {}
      BY <1>17, ForestLevels
    <3> QED BY <3>1
  <2>2. MaxLevels \in 1..MaxLevels
    BY <1>1, <2>1
  <2>3. f \in Seq(Updates \X ForestsUpTo[MaxLevels - 1])
    BY <1>17, <2>2, ForestLevels
  <2>4. f[k][2] \in ForestsUpTo[MaxLevels - 1]
    BY <2>3
  <2>5. v[MaxLevels][f[k][2]] = y[f[k][2]]
    BY <1>16, <1>17, <2>1, <2>4 DEF agree
  <2>6. Copied(B, f[k][2]) = y[f[k][2]]
    BY <1>2, <2>5
  <2> HIDE DEF y
  <2> QED BY <1>4, <2>6 DEF CopiedOfTree
<1> HIDE DEF y
<1>20. {D(y, f[k]) : k \in DOMAIN f} = {CopiedOfTree(B, f[k]) : k \in DOMAIN f}
  BY <1>19
<1> QED BY <1>18, <1>20

-----------------------------------------------------------------------------
(* That an account update is sent once: what is reached from data without      *)
(* passing an update that was put there as a value.                            *)

PassesOn(h, B, r) ==
  \A c \in 1..Len(h.cell) : \A k \in 1..Len(h.cell[c]) :
    h.cell[c][k].id \notin B => {h.cell[c][k].id} \cup r[h.cell[c][k].cell] \subseteq r[c]

Reached(h, B, c) ==
  {x \in Updates : \A r \in [0..Len(h.cell) -> SUBSET Updates] : PassesOn(h, B, r) => x \in r[c]}

\* Something of the data of c that is no value, or is below it, is the update.
ReachedBy(h, B, c, x) ==
  /\ c # 0
  /\ \E k \in 1..Len(h.cell[c]) :
       h.cell[c][k].id \notin B /\ (h.cell[c][k].id = x \/ x \in Reached(h, B, h.cell[c][k].cell))

OccursUpTo(h, c, x) ==
  \E d \in 1..Len(h.cell) : d <= c /\ \E k \in 1..Len(h.cell[d]) : h.cell[d][k].id = x

\* Elements of cells, as the lemmas below use them.
LEMMA CellElements ==
  ASSUME NEW V, NEW h, HeapTyped(h, V), CellsAreEarlier(h), NEW c \in 1..Len(h.cell),
         NEW k \in 1..Len(h.cell[c])
  PROVE  /\ Len(h.cell) \in Nat /\ c \in 0..Len(h.cell)
         /\ h.cell[c][k].id \in Updates
         /\ h.cell[c][k].cell \in 0..c - 1 /\ h.cell[c][k].cell \in 0..Len(h.cell)
<1>1. Len(h.cell) \in Nat /\ h.cell[c][k].id \in Updates
  BY HeapParts, CellParts
<1>2. h.cell[c][k].cell \in 0..c - 1
  BY DEF CellsAreEarlier
<1> QED BY <1>1, <1>2

LEMMA ReachedIntro ==
  ASSUME NEW V, NEW B, NEW h, HeapTyped(h, V), CellsAreEarlier(h), NEW c \in 1..Len(h.cell),
         NEW k \in 1..Len(h.cell[c]), h.cell[c][k].id \notin B
  PROVE  {h.cell[c][k].id} \cup Reached(h, B, h.cell[c][k].cell) \subseteq Reached(h, B, c)
<1> DEFINE e == h.cell[c][k]
<1>1. e.id \in Updates
  BY CellElements
<1>2. ASSUME NEW x \in {e.id} \cup Reached(h, B, e.cell),
             NEW r \in [0..Len(h.cell) -> SUBSET Updates], PassesOn(h, B, r)
      PROVE  x \in Updates /\ x \in r[c]
  <2>1. {e.id} \cup r[e.cell] \subseteq r[c]
    BY <1>2 DEF PassesOn
  <2>2. x = e.id \/ (x \in Updates /\ x \in r[e.cell])
    BY <1>2 DEF Reached
  <2> QED BY <1>1, <2>1, <2>2
<1>3. \A x \in {e.id} \cup Reached(h, B, e.cell) : x \in Updates
  BY <1>1 DEF Reached
<1> QED BY <1>2, <1>3 DEF Reached

\* Every set that passes on what it has is all that is reached.
LEMMA ReachedLeast ==
  ASSUME NEW B, NEW h, NEW c, NEW x \in Reached(h, B, c),
         NEW r \in [0..Len(h.cell) -> SUBSET Updates], PassesOn(h, B, r)
  PROVE  x \in r[c]
BY DEF Reached

LEMMA ReachedCases ==
  ASSUME NEW V, NEW B, NEW h, HeapTyped(h, V), CellsAreEarlier(h), NEW c \in 0..Len(h.cell),
         NEW x \in Reached(h, B, c)
  PROVE  ReachedBy(h, B, c, x) /\ x \notin B /\ OccursUpTo(h, c, x)
<1> DEFINE r == [d \in 0..Len(h.cell) |-> {y \in Updates : ReachedBy(h, B, d, y)}]
           s == [d \in 0..Len(h.cell) |-> {y \in Updates : y \notin B /\ OccursUpTo(h, d, y)}]
<1>1. r \in [0..Len(h.cell) -> SUBSET Updates] /\ s \in [0..Len(h.cell) -> SUBSET Updates]
  OBVIOUS
<1>2. ASSUME NEW d \in 1..Len(h.cell), NEW k \in 1..Len(h.cell[d]), h.cell[d][k].id \notin B
      PROVE  /\ {h.cell[d][k].id} \cup r[h.cell[d][k].cell] \subseteq r[d]
             /\ {h.cell[d][k].id} \cup s[h.cell[d][k].cell] \subseteq s[d]
  <2> DEFINE e == h.cell[d][k]
  <2>1. /\ Len(h.cell) \in Nat /\ d \in 0..Len(h.cell) /\ e.id \in Updates
        /\ e.cell \in 0..d - 1 /\ e.cell \in 0..Len(h.cell)
    BY CellElements
  <2>2. d # 0 /\ d \in Nat
    BY <2>1
  <2> HIDE DEF e
  <2>3. r[d] = {y \in Updates : ReachedBy(h, B, d, y)}
        /\ r[e.cell] = {y \in Updates : ReachedBy(h, B, e.cell, y)}
    BY <2>1
  <2>4. s[d] = {y \in Updates : y \notin B /\ OccursUpTo(h, d, y)}
        /\ s[e.cell] = {y \in Updates : y \notin B /\ OccursUpTo(h, e.cell, y)}
    BY <2>1
  <2> HIDE DEF r, s
  <2>5. ReachedBy(h, B, d, e.id)
    BY <1>2, <2>2 DEF ReachedBy, e
  <2>6. ASSUME NEW y \in Updates, ReachedBy(h, B, e.cell, y) PROVE ReachedBy(h, B, d, y)
    <3>1. PICK j \in 1..Len(h.cell[e.cell]) :
            /\ h.cell[e.cell][j].id \notin B
            /\ \/ h.cell[e.cell][j].id = y
               \/ y \in Reached(h, B, h.cell[e.cell][j].cell)
      BY <2>6 DEF ReachedBy
    <3>2. e.cell \in 1..Len(h.cell)
      BY <2>1, <2>6 DEF ReachedBy
    <3>3. y \in Reached(h, B, e.cell)
      BY <3>1, <3>2, ReachedIntro
    <3> QED BY <1>2, <2>2, <3>3 DEF ReachedBy, e
  <2>7. OccursUpTo(h, d, e.id)
    BY <2>1, <2>2 DEF OccursUpTo, e
  <2>8. ASSUME NEW y, OccursUpTo(h, e.cell, y) PROVE OccursUpTo(h, d, y)
    BY <2>1, <2>2, <2>8 DEF OccursUpTo
  <2>9. e.id \notin B
    BY <1>2 DEF e
  <2>10. {e.id} \cup r[e.cell] \subseteq r[d]
    BY <2>1, <2>3, <2>5, <2>6
  <2>11. {e.id} \cup s[e.cell] \subseteq s[d]
    BY <2>1, <2>4, <2>7, <2>8, <2>9
  <2> QED BY <2>10, <2>11 DEF e
<1> HIDE DEF r, s
<1>3. PassesOn(h, B, r) /\ PassesOn(h, B, s)
  BY <1>2 DEF PassesOn
<1>4. x \in r[c] /\ x \in s[c]
  BY <1>1, <1>3, ReachedLeast
<1> QED BY <1>4 DEF r, s

\* What is no value and is in one cell is not reached from an earlier one.
LEMMA NotReachedEarlier ==
  ASSUME NEW V, NEW B, NEW h, HeapTyped(h, V), CellsAreEarlier(h), InOnePlace(h, B),
         NEW c \in 1..Len(h.cell), NEW k \in 1..Len(h.cell[c]), h.cell[c][k].id \notin B,
         NEW d \in 0..Len(h.cell), d < c
  PROVE  h.cell[c][k].id \notin Reached(h, B, d)
<1> SUFFICES ASSUME h.cell[c][k].id \in Reached(h, B, d) PROVE FALSE
  OBVIOUS
<1>1. OccursUpTo(h, d, h.cell[c][k].id)
  BY ReachedCases
<1>2. PICK b \in 1..Len(h.cell) : b <= d /\ \E j \in 1..Len(h.cell[b]) :
        h.cell[b][j].id = h.cell[c][k].id
  BY <1>1 DEF OccursUpTo
<1>3. b = c
  BY <1>2 DEF InOnePlace
<1>4. Len(h.cell) \in Nat
  BY HeapParts
<1> QED BY <1>2, <1>3, <1>4

\* If an update is reached from two cells, then what refers to the earlier one is
\* reached from the later one.
Meets(h, B, c, d) ==
  (\E x \in Updates : x \in Reached(h, B, c) /\ x \in Reached(h, B, d))
    => \E v \in Reached(h, B, d) : RefersTo(h, v, c)

LEMMA ReachedMeet ==
  ASSUME NEW V, NEW B, NEW h, HeapTyped(h, V), CellsAreEarlier(h), InOnePlace(h, B), OneOwner(h)
  PROVE  \A d \in 1..Len(h.cell) : \A c \in 1..d - 1 : Meets(h, B, c, d)
<1> DEFINE N == Len(h.cell)
           T == {n \in 0..N : \A d \in 1..n : \A c \in 1..d - 1 : Meets(h, B, c, d)}
<1>1. N \in Nat
  BY HeapParts
<1>2. 0 \in T
  <2>1. 0 \in 0..N /\ \A d : d \notin 1..0
    BY <1>1
  <2> QED BY <2>1
<1>3. ASSUME NEW n \in 0..N - 1, n \in T PROVE n + 1 \in T
  <2> DEFINE d == n + 1
  <2>1. d \in 1..N /\ d \in 0..N /\ \A i \in 1..d : i \in 1..n \/ i = d
    BY <1>1
  <2>2. ASSUME NEW c \in 1..d - 1, NEW x \in Updates, x \in Reached(h, B, c), x \in Reached(h, B, d)
        PROVE  \E v \in Reached(h, B, d) : RefersTo(h, v, c)
    <3>1. c \in 1..N /\ c \in 0..N /\ c \in 1..n /\ c < d
      BY <1>1, <2>1
    <3>2. PICK k \in 1..Len(h.cell[d]) :
            h.cell[d][k].id \notin B
            /\ (h.cell[d][k].id = x \/ x \in Reached(h, B, h.cell[d][k].cell))
      <4>1. ReachedBy(h, B, d, x)
        BY <2>1, <2>2, ReachedCases
      <4> QED BY <4>1 DEF ReachedBy
    <3> DEFINE u == h.cell[d][k].id
               e == h.cell[d][k].cell
    <3>3. u \in Updates /\ e \in 0..d - 1 /\ e \in 0..N
      BY <2>1, CellElements
    <3>4. {u} \cup Reached(h, B, e) \subseteq Reached(h, B, d)
      BY <2>1, <3>2, ReachedIntro
    <3>5. u \notin Reached(h, B, c)
      BY <2>1, <3>1, <3>2, NotReachedEarlier
    <3>6. RefersTo(h, u, e)
      BY <2>1 DEF RefersTo
    <3>7. u \notin B /\ (u = x \/ x \in Reached(h, B, e))
      BY <3>2
    <3> HIDE DEF u, e, d
    <3>8. x \in Reached(h, B, e)
      BY <2>2, <3>5, <3>7
    <3>9. e # 0
      <4>1. ReachedBy(h, B, e, x)
        BY <3>3, <3>8, ReachedCases
      <4> QED BY <4>1 DEF ReachedBy
    <3>10. e \in 1..n /\ (e = c \/ (e \in 1..c - 1) \/ c \in 1..e - 1)
      BY <1>1, <3>1, <3>3, <3>9 DEF d
    <3>11. CASE e = c
      BY <3>4, <3>6, <3>11
    <3>12. CASE c \in 1..e - 1
      <4>1. Meets(h, B, c, e)
        BY <1>3, <3>10, <3>12
      <4>2. PICK v \in Reached(h, B, e) : RefersTo(h, v, c)
        BY <2>2, <3>8, <4>1 DEF Meets
      <4> QED BY <3>4, <4>2
    <3>13. CASE e \in 1..c - 1
      <4>1. Meets(h, B, e, c)
        BY <1>3, <3>1, <3>13
      <4>2. PICK v \in Reached(h, B, c) : RefersTo(h, v, e)
        BY <2>2, <3>8, <4>1 DEF Meets
      <4>3. v \in Updates
        BY <4>2 DEF Reached
      <4>4. e \in 1..N
        BY <1>1, <3>3, <3>9
      <4>5. v = u
        BY <3>3, <3>6, <4>2, <4>3, <4>4 DEF OneOwner
      <4> QED BY <3>5, <4>2, <4>5
    <3> QED BY <3>10, <3>11, <3>12, <3>13
  <2>3. \A c \in 1..d - 1 : Meets(h, B, c, d)
    BY <2>2 DEF Meets
  <2>4. \A i \in 1..n : \A c \in 1..i - 1 : Meets(h, B, c, i)
    BY <1>3
  <2> HIDE DEF d
  <2>5. \A i \in 1..d : \A c \in 1..i - 1 : Meets(h, B, c, i)
    BY <2>1, <2>3, <2>4
  <2> QED BY <2>1, <2>5 DEF d
<1> HIDE DEF T
<1>4. N \in T
  <2>1. 0..N \subseteq T
    BY <1>1, <1>2, <1>3, IntervalInduction
  <2> QED BY <1>1, <2>1
<1> QED BY <1>4 DEF T

\* Two updates of the same data that are no values have nothing below them in common.
LEMMA ReachedApart ==
  ASSUME NEW V, NEW B, NEW h, HeapTyped(h, V), CellsAreEarlier(h), InOnePlace(h, B), OneOwner(h),
         NEW c \in 1..Len(h.cell), NEW j \in 1..Len(h.cell[c]), NEW k \in 1..Len(h.cell[c]),
         h.cell[c][j].id \notin B, h.cell[c][k].id \notin B, j # k
  PROVE  /\ h.cell[c][j].id # h.cell[c][k].id
         /\ h.cell[c][j].id \notin Reached(h, B, h.cell[c][k].cell)
         /\ h.cell[c][k].id \notin Reached(h, B, h.cell[c][j].cell)
         /\ Reached(h, B, h.cell[c][j].cell) \cap Reached(h, B, h.cell[c][k].cell) = {}
<1>1. ASSUME NEW i \in 1..Len(h.cell[c]), NEW m \in 1..Len(h.cell[c]), i # m,
             h.cell[c][i].id \notin B, h.cell[c][m].id \notin B
      PROVE  /\ h.cell[c][i].id # h.cell[c][m].id
             /\ h.cell[c][i].id \notin Reached(h, B, h.cell[c][m].cell)
  <2>1. h.cell[c][i].id # h.cell[c][m].id
    BY <1>1 DEF InOnePlace
  <2>2. /\ h.cell[c][m].cell \in 0..Len(h.cell) /\ h.cell[c][m].cell \in 0..c - 1
        /\ Len(h.cell) \in Nat
    BY <1>1, CellElements
  <2>3. h.cell[c][m].cell < c
    BY <2>2
  <2> QED BY <1>1, <2>1, <2>2, <2>3, NotReachedEarlier
<1>2. ASSUME NEW i \in 1..Len(h.cell[c]), NEW m \in 1..Len(h.cell[c]), i # m,
             h.cell[c][i].id \notin B, h.cell[c][m].id \notin B,
             h.cell[c][i].cell <= h.cell[c][m].cell,
             NEW x \in Reached(h, B, h.cell[c][i].cell), x \in Reached(h, B, h.cell[c][m].cell)
      PROVE  FALSE
  <2> DEFINE u == h.cell[c][i].id
             w == h.cell[c][m].id
             e == h.cell[c][i].cell
             f == h.cell[c][m].cell
  <2>1. u # w /\ u \notin Reached(h, B, f)
    BY <1>1, <1>2
  <2>2. /\ u \in Updates /\ w \in Updates /\ e \in 0..Len(h.cell) /\ f \in 0..Len(h.cell)
        /\ Len(h.cell) \in Nat
    BY <1>2, CellElements
  <2>3. RefersTo(h, u, e) /\ RefersTo(h, w, f)
    BY <1>2 DEF RefersTo
  <2>4. e <= f /\ x \in Reached(h, B, e) /\ x \in Reached(h, B, f)
    BY <1>2
  <2> HIDE DEF u, w, e, f
  <2>5. e # 0
    <3>1. ReachedBy(h, B, e, x)
      BY <2>2, <2>4, ReachedCases
    <3> QED BY <3>1 DEF ReachedBy
  <2>6. e \in 1..Len(h.cell) /\ f \in 1..Len(h.cell)
    BY <2>2, <2>4, <2>5
  <2>7. CASE e = f
    BY <2>1, <2>2, <2>3, <2>6, <2>7 DEF OneOwner
  <2>8. CASE e # f
    <3>1. e \in 1..f - 1
      BY <2>4, <2>6, <2>8
    <3>2. Meets(h, B, e, f) /\ x \in Updates
      BY <2>4, <2>6, <3>1, ReachedMeet DEF Reached
    <3>3. PICK v \in Reached(h, B, f) : RefersTo(h, v, e)
      BY <2>4, <3>2 DEF Meets
    <3>4. v \in Updates
      BY <3>3 DEF Reached
    <3>5. v = u
      BY <2>2, <2>3, <2>6, <3>3, <3>4 DEF OneOwner
    <3> QED BY <2>1, <3>3, <3>5
  <2> QED BY <2>7, <2>8
<1>3. h.cell[c][j].cell \in Nat /\ h.cell[c][k].cell \in Nat
  <2>1. h.cell[c][j].cell \in 0..Len(h.cell) /\ h.cell[c][k].cell \in 0..Len(h.cell)
    BY CellElements
  <2> QED BY <2>1
<1>4. h.cell[c][j].cell <= h.cell[c][k].cell \/ h.cell[c][k].cell <= h.cell[c][j].cell
  BY <1>3
<1>5. \A x : ~(x \in Reached(h, B, h.cell[c][j].cell) /\ x \in Reached(h, B, h.cell[c][k].cell))
  BY <1>2, <1>4
<1> QED BY <1>1, <1>5

\* What is sent of the data of a cell has everything once that was not copied.
ReachedOnce(h, B, c) ==
  Content(h, c) \in Forests =>
    \A x : x \notin Copied(B, Content(h, c)) =>
      /\ IsIn(x, Flat(Content(h, c))) => x \in Reached(h, B, c)
      /\ AtMostOnce(x, Flat(Content(h, c)))

\* The same for one tree of that data: its update and what is below it.
TreeOnce(h, B, e, x) ==
  LET tree == <<e.id>> \o Flat(Content(h, e.cell))
  IN  /\ IsIn(x, tree) => e.id \notin B /\ (x = e.id \/ x \in Reached(h, B, e.cell))
      /\ AtMostOnce(x, tree)

LEMMA TreeReachedOnce ==
  ASSUME NEW V, NEW B, NEW h, HeapTyped(h, V), CellsAreEarlier(h), InOnePlace(h, B),
         NEW c \in 1..Len(h.cell), NEW k \in 1..Len(h.cell[c]), NEW x,
         ReachedOnce(h, B, h.cell[c][k].cell), Content(h, h.cell[c][k].cell) \in Forests,
         x \notin CopiedOfTree(B, <<h.cell[c][k].id, Content(h, h.cell[c][k].cell)>>)
  PROVE  TreeOnce(h, B, h.cell[c][k], x)
<1> DEFINE e == h.cell[c][k]
           sub == Content(h, e.cell)
           flat == Flat(sub)
           own == <<e.id>>
<1>1. /\ Len(h.cell) \in Nat /\ e.id \in Updates /\ e.cell \in 0..c - 1 /\ e.cell \in 0..Len(h.cell)
  BY CellElements
<1>2. flat \in Seq(Updates)
  BY FlatUnfolds
<1>3. e.cell < c /\ e.id \notin B => e.id \notin Reached(h, B, e.cell)
  BY <1>1, NotReachedEarlier
<1>4. /\ sub \in Forests /\ x \notin CopiedOfTree(B, <<e.id, sub>>)
      /\ x \notin Copied(B, sub) =>
           (IsIn(x, flat) => x \in Reached(h, B, e.cell)) /\ AtMostOnce(x, flat)
  BY DEF ReachedOnce
<1>5. e.cell < c
  BY <1>1
<1> HIDE DEF e
<1>6. own \in Seq(Updates) /\ Len(own) = 1 /\ own[1] = e.id
  BY <1>1
<1> HIDE DEF sub, flat, own
<1>7. AtMostOnce(x, own) /\ (IsIn(x, own) <=> x = e.id)
  BY <1>6 DEF AtMostOnce, IsIn
<1>8. /\ IsIn(x, own \o flat) <=> IsIn(x, own) \/ IsIn(x, flat)
      /\ AtMostOnce(x, own) /\ AtMostOnce(x, flat) /\ ~(IsIn(x, own) /\ IsIn(x, flat))
         => AtMostOnce(x, own \o flat)
  BY <1>2, <1>6, ConcatOnce
<1>9. CASE e.id \in B
  <2>1. x # e.id /\ x \notin ToSet(flat)
    BY <1>4, <1>9 DEF CopiedOfTree, flat
  <2>2. ~IsIn(x, flat)
    BY <1>2, <2>1 DEF IsIn, ToSet
  <2>3. AtMostOnce(x, flat)
    BY <2>2 DEF AtMostOnce, IsIn
  <2> QED BY <1>7, <1>8, <2>1, <2>2, <2>3 DEF TreeOnce, e, flat, sub, own
<1>10. CASE e.id \notin B
  <2>1. x \notin Copied(B, sub)
    BY <1>4, <1>10 DEF CopiedOfTree
  <2>2. (IsIn(x, flat) => x \in Reached(h, B, e.cell)) /\ AtMostOnce(x, flat)
    BY <1>4, <2>1
  <2>3. ~(IsIn(x, own) /\ IsIn(x, flat))
    BY <1>3, <1>5, <1>7, <1>10, <2>2
  <2> QED BY <1>7, <1>8, <1>10, <2>2, <2>3 DEF TreeOnce, e, flat, sub, own
<1> QED BY <1>9, <1>10

LEMMA CellReachedOnce ==
  ASSUME NEW V, NEW B, NEW h, HeapTyped(h, V), CellsAreEarlier(h), InOnePlace(h, B), OneOwner(h),
         NEW c \in 0..Len(h.cell), \A d \in 0..c - 1 : ReachedOnce(h, B, d)
  PROVE  ReachedOnce(h, B, c)
<1> DEFINE F == Content(h, c)
           s == FlatTrees(F)
           n == Len(h.cell[c])
<1> SUFFICES ASSUME F \in Forests, NEW x, x \notin Copied(B, F)
             PROVE  (IsIn(x, Flat(F)) => x \in Reached(h, B, c)) /\ AtMostOnce(x, Flat(F))
  BY DEF ReachedOnce
<1>1. CellsOK(h)
  BY TypedCells
<1>2. CASE c = 0
  <2>1. F = <<>> /\ Flat(<<>>) = <<>> /\ Len(<<>>) = 0
    BY <1>1, <1>2, ContentNone, FlatUnfolds
  <2>2. \A k : k \notin 1..Len(<<>>)
    BY <2>1
  <2> QED BY <2>1, <2>2 DEF IsIn, AtMostOnce
<1>3. CASE c # 0
  <2>1. Len(h.cell) \in Nat /\ c \in 1..Len(h.cell) /\ Data(h, c) = h.cell[c]
    BY <1>1, <1>3, DataParts
  <2>2. n \in Nat /\ DOMAIN h.cell[c] = 1..n
    BY <2>1, CellParts
  <2>3. F = [k \in 1..n |-> <<h.cell[c][k].id, Content(h, h.cell[c][k].cell)>>]
    BY <1>1, <2>1, <2>2, ContentUnfolds DEF HasContent
  <2>4. /\ DOMAIN F = 1..n
        /\ \A k \in 1..n : F[k] = <<h.cell[c][k].id, Content(h, h.cell[c][k].cell)>>
    BY <2>3
  <2>5. F \in Seq(Updates \X Forests)
    BY ForestParts
  <2>6. ASSUME NEW k \in 1..n
        PROVE  h.cell[c][k].id \in Updates /\ Content(h, h.cell[c][k].cell) \in Forests
    <3>1. F[k] \in Updates \X Forests
      BY <2>4, <2>5, <2>6
    <3> QED BY <2>4, <3>1
  <2>7. Copied(B, F) = UNION {CopiedOfTree(B, F[k]) : k \in 1..n}
    <3> HIDE DEF F
    <3> QED BY <2>4, CopiedUnfolds
  <2>8. Flat(F) = Flattened(s)
    <3> HIDE DEF F
    <3> QED BY FlatUnfolds
  <2>9. s = [k \in 1..n |-> <<h.cell[c][k].id>> \o Flat(Content(h, h.cell[c][k].cell))]
    <3> HIDE DEF F
    <3> QED BY <2>4 DEF FlatTrees
  <2> HIDE DEF F, s, n
  <2>10. ASSUME NEW k \in 1..n
         PROVE  /\ s[k] \in Seq(Updates)
                /\ IsIn(x, s[k]) => h.cell[c][k].id \notin B
                     /\ (x = h.cell[c][k].id \/ x \in Reached(h, B, h.cell[c][k].cell))
                /\ AtMostOnce(x, s[k])
    <3> DEFINE e == h.cell[c][k]
               flat == Flat(Content(h, e.cell))
    <3>1. k \in 1..Len(h.cell[c]) /\ e.cell \in 0..c - 1
      BY <2>1, CellElements DEF n
    <3>2. ReachedOnce(h, B, e.cell)
      BY <3>1
    <3>3. x \notin CopiedOfTree(B, <<e.id, Content(h, e.cell)>>)
      BY <2>4, <2>7
    <3>4. TreeOnce(h, B, e, x)
      BY <2>1, <2>6, <3>1, <3>2, <3>3, TreeReachedOnce
    <3>5. s[k] = <<e.id>> \o flat
      BY <2>9
    <3>6. e.id \in Updates /\ flat \in Seq(Updates)
      BY <2>6, FlatUnfolds
    <3> HIDE DEF e, flat
    <3>7. s[k] \in Seq(Updates)
      BY <3>5, <3>6
    <3> QED BY <3>4, <3>5, <3>7 DEF TreeOnce, e, flat
  <2>11. s \in Seq(Seq(Updates)) /\ Len(s) = n
    <3>1. s = [k \in 1..n |-> s[k]] /\ DOMAIN s = 1..n
      BY <2>9
    <3>2. \A k \in 1..n : s[k] \in Seq(Updates)
      BY <2>10
    <3> QED BY <2>2, <3>1, <3>2
  <2>12. ASSUME NEW j \in 1..n, NEW k \in 1..n, IsIn(x, s[j]), IsIn(x, s[k]) PROVE j = k
    <3> SUFFICES ASSUME j # k PROVE FALSE
      OBVIOUS
    <3> DEFINE a == h.cell[c][j]
               b == h.cell[c][k]
    <3>1. /\ a.id \notin B /\ (x = a.id \/ x \in Reached(h, B, a.cell))
          /\ b.id \notin B /\ (x = b.id \/ x \in Reached(h, B, b.cell))
      BY <2>10, <2>12
    <3>2. /\ a.id # b.id /\ a.id \notin Reached(h, B, b.cell) /\ b.id \notin Reached(h, B, a.cell)
          /\ Reached(h, B, a.cell) \cap Reached(h, B, b.cell) = {}
      BY <2>1, <3>1, ReachedApart DEF n
    <3> QED BY <3>1, <3>2
  <2>13. OncePerPart(x, s)
    BY <2>10, <2>11, <2>12 DEF OncePerPart
  <2>14. AtMostOnce(x, Flat(F))
    BY <2>8, <2>11, <2>13, FlattenedOnce
  <2>15. ASSUME IsIn(x, Flat(F)) PROVE x \in Reached(h, B, c)
    <3>1. PICK k \in 1..n : IsIn(x, s[k])
      BY <2>8, <2>11, <2>15, FlattenedOnce
    <3>2. h.cell[c][k].id \notin B
          /\ (x = h.cell[c][k].id \/ x \in Reached(h, B, h.cell[c][k].cell))
      BY <2>10, <3>1
    <3>3. {h.cell[c][k].id} \cup Reached(h, B, h.cell[c][k].cell) \subseteq Reached(h, B, c)
      BY <2>1, <3>2, ReachedIntro DEF n
    <3> QED BY <3>2, <3>3
  <2> QED BY <2>14, <2>15
<1> QED BY <1>2, <1>3

LEMMA SentOnce ==
  ASSUME NEW V, NEW B, NEW h, HeapTyped(h, V), CellsAreEarlier(h), InOnePlace(h, B), OneOwner(h)
  PROVE  \A c \in 0..Len(h.cell) : ReachedOnce(h, B, c)
<1> DEFINE N == Len(h.cell)
           T == {n \in 0..N : \A c \in 0..n : ReachedOnce(h, B, c)}
<1>1. N \in Nat
  BY HeapParts
<1>2. 0 \in T
  <2>1. 0 \in 0..N /\ (\A d : d \notin 0..0 - 1) /\ \A c \in 0..0 : c = 0
    BY <1>1
  <2>2. ReachedOnce(h, B, 0)
    BY <2>1, CellReachedOnce
  <2> QED BY <2>1, <2>2
<1>3. ASSUME NEW n \in 0..N - 1, n \in T PROVE n + 1 \in T
  <2>1. n + 1 \in 0..N /\ (n + 1) - 1 = n /\ \A c \in 0..n + 1 : c \in 0..n \/ c = n + 1
    BY <1>1
  <2>2. \A d \in 0..n : ReachedOnce(h, B, d)
    BY <1>3
  <2>3. ReachedOnce(h, B, n + 1)
    BY <2>1, <2>2, CellReachedOnce
  <2> QED BY <2>1, <2>2, <2>3
<1> HIDE DEF T
<1>4. 0..N \subseteq T
  BY <1>1, <1>2, <1>3, IntervalInduction
<1>5. N \in T
  BY <1>1, <1>4
<1> QED BY <1>5 DEF T

-----------------------------------------------------------------------------
(* The operations *)

\* As long as no tree was changed late, every hash on the heap is that of its data;
\* and then the transaction commits to what is sent.  What is sent has an account
\* update once because the data has it in one place.
LayoutInv ==
  /\ CommitsToContent /\ OncePerTransaction
  /\ status = "building" => SomeInv(heap, byValue, late) /\ calls.content = <<>>

\* An operation that ends with a heap for which the invariant holds, or throws.
LEMMA EndsInv ==
  ASSUME LayoutInv, Operation, NEW ok, NEW h, Ends(ok, h), late => late',
         ok => SomeInv(h, byValue', late')
  PROVE  LayoutInv'
<1>1. calls' = calls /\ calls.content = <<>> /\ CommitsToContent'
  BY DEF Ends, LayoutInv, CommitsToContent, Operation
<1>2. ASSUME status' = "building" PROVE SomeInv(heap', byValue', late')
  <2>1. ok /\ heap' = h
    BY <1>2 DEF Ends
  <2> QED BY <2>1
<1>3. OncePerTransaction'
  <2>1. Flat(calls.content) = <<>> /\ DOMAIN <<>> = {}
    BY <1>1, FlatUnfolds
  <2> QED BY <1>1, <2>1 DEF OncePerTransaction
<1> QED BY <1>1, <1>2, <1>3 DEF LayoutInv

\* A heap whose hashes are right is one whose hashes may be wrong.
LEMMA MayBeChanged ==
  ASSUME NEW B, NEW h, NEW changed, NEW more, changed => more, SomeInv(h, B, changed)
  PROVE  SomeInv(h, B, more)
BY DEF SomeInv, HeapInv

\* The lemmas on disattach and push for whatever hashes there are.
LEMMA DisattachSomeInv ==
  ASSUME NEW B, NEW changed, NEW h, SomeInv(h, B, changed), NEW u \in Updates, CanDisattach(h, u)
  PROVE  /\ SomeInv(Disattach(h, u), B, changed) /\ SameValues(Disattach(h, u), h)
         /\ Siblings(Disattach(h, u), u) = 0
BY DisattachInv DEF SomeInv

LEMMA PushSomeInv ==
  ASSUME NEW B, NEW changed, NEW h, SomeInv(h, B, changed), NEW u \in Updates, u \in DOMAIN h.node,
         NEW p \in DOMAIN h.node, CanPush(h, p, u)
  PROVE  SomeInv(Push(h, p, u), B, changed)
BY PushInv DEF SomeInv

\* Every operation of the layout keeps the invariant.
LEMMA PushTopLevelInv ==
  ASSUME LayoutInv, NEW u \in Updates, PushTopLevel(u)
  PROVE  LayoutInv'
<1> DEFINE h == GetOrCreate(heap, u)
           ok == CanPush(h, Root, u)
<1>1. Operation /\ Ends(ok, Push(h, Root, u)) /\ late' = late /\ byValue' = byValue
  BY DEF PushTopLevel
<1>2. ASSUME ok PROVE SomeInv(Push(h, Root, u), byValue', late')
  <2>1. SomeInv(heap, byValue, late)
    BY <1>1, <1>2 DEF LayoutInv, Operation
  <2>2. SomeInv(h, byValue, late) /\ DOMAIN h.node = DOMAIN heap.node \cup {u}
    BY <2>1, GetOrCreateInv
  <2>3. Root \in DOMAIN heap.node
    BY <2>1 DEF SomeInv, HeapInv, HeapTyped
  <2> QED BY <1>1, <1>2, <2>2, <2>3, PushSomeInv
<1> HIDE DEF ok, h
<1> QED BY <1>1, <1>2, EndsInv

\* The heap in which approve attaches the child to its parent.
LEMMA ParentAndChild ==
  ASSUME NEW B, NEW changed, NEW h, SomeInv(h, B, changed), NEW p \in Updates,
         NEW u \in Updates, CanDisattach(h, u)
  PROVE  /\ SomeInv(GetOrCreate(Disattach(h, u), p), B, changed)
         /\ GetOrCreate(Disattach(h, u), p).tree = h.tree
         /\ SomeInv(GetOrCreate(GetOrCreate(Disattach(h, u), p), u), B, changed)
         /\ {p, u} \subseteq DOMAIN GetOrCreate(GetOrCreate(Disattach(h, u), p), u).node
         /\ p \in DOMAIN GetOrCreate(Disattach(h, u), p).node
<1> DEFINE d == Disattach(h, u)
           g == GetOrCreate(d, p)
<1>1. SomeInv(d, B, changed) /\ d.tree = h.tree
  BY DisattachSomeInv DEF SameValues
<1> HIDE DEF d
<1>2. SomeInv(g, B, changed) /\ g.tree = d.tree /\ DOMAIN g.node = DOMAIN d.node \cup {p}
  BY <1>1, GetOrCreateInv
<1> HIDE DEF g
<1>3. SomeInv(GetOrCreate(g, u), B, changed)
      /\ DOMAIN GetOrCreate(g, u).node = DOMAIN g.node \cup {u}
  BY <1>2, GetOrCreateInv
<1> QED BY <1>1, <1>2, <1>3 DEF d, g

LEMMA ApproveInv ==
  ASSUME LayoutInv, NEW p \in Updates, NEW u \in Updates, Approve(p, u)
  PROVE  LayoutInv'
<1> DEFINE h == GetOrCreate(GetOrCreate(Disattach(heap, u), p), u)
           ok == CanDisattach(heap, u) /\ CanPush(h, p, u)
<1>1. Operation /\ Ends(ok, Push(h, p, u)) /\ late' = late /\ byValue' = byValue
  BY DEF Approve
<1>2. ASSUME ok PROVE SomeInv(Push(h, p, u), byValue', late')
  <2>1. SomeInv(heap, byValue, late)
    BY <1>1, <1>2 DEF LayoutInv, Operation
  <2>2. SomeInv(h, byValue, late) /\ {p, u} \subseteq DOMAIN h.node
    BY <1>2, <2>1, ParentAndChild
  <2> QED BY <1>1, <1>2, <2>2, PushSomeInv
<1> HIDE DEF ok, h
<1> QED BY <1>1, <1>2, EndsInv

LEMMA ApproveIfInv ==
  ASSUME LayoutInv, NEW p \in Updates, NEW u \in Updates, NEW isSome \in BOOLEAN,
         ApproveIf(p, u, isSome)
  PROVE  LayoutInv'
<1> DEFINE h == GetOrCreate(GetOrCreate(Disattach(heap, u), p), u)
           g == [h EXCEPT !.node[u].dummy = ~isSome]
           ok == CanDisattach(heap, u) /\ CanPush(g, p, u)
<1>1. Operation /\ Ends(ok, Push(g, p, u)) /\ late' = late /\ byValue' = byValue
  BY DEF ApproveIf
<1>2. ASSUME ok PROVE SomeInv(Push(g, p, u), byValue', late')
  <2>1. SomeInv(heap, byValue, late)
    BY <1>1, <1>2 DEF LayoutInv, Operation
  <2>2. SomeInv(h, byValue, late) /\ {p, u} \subseteq DOMAIN h.node
    BY <1>2, <2>1, ParentAndChild
  <2> HIDE DEF h
  <2>3. SomeInv(g, byValue, late)
    <3>1. PICK V : HeapInv(h, V, byValue, late)
      BY <2>2 DEF SomeInv
    <3> DEFINE d == ~isSome
    <3>2. d \in BOOLEAN /\ u \in DOMAIN h.node
      BY <2>2
    <3> HIDE DEF d
    <3>3. HeapInv([h EXCEPT !.node[u].dummy = d], V, byValue, late)
      BY <3>1, <3>2, DummyInv
    <3> QED BY <3>3 DEF SomeInv, d
  <2>4. DOMAIN g.node = DOMAIN h.node
    <3>1. PICK V : HeapTyped(h, V)
      BY <2>2 DEF SomeInv, HeapInv
    <3>2. h = [node |-> h.node, forest |-> h.forest, cell |-> h.cell, tree |-> h.tree]
      BY <3>1 DEF HeapTyped
    <3>3. g.node = [h.node EXCEPT ![u].dummy = ~isSome]
      BY <3>2
    <3> QED BY <3>3
  <2> HIDE DEF g
  <2> QED BY <1>1, <1>2, <2>2, <2>3, <2>4, PushSomeInv
<1> HIDE DEF ok, g
<1> QED BY <1>1, <1>2, EndsInv

LEMMA ApproveTreeInv ==
  ASSUME LayoutInv, NEW p \in Updates, NEW u \in Updates, ApproveTree(p, u)
  PROVE  LayoutInv'
<1> DEFINE g == GetOrCreate(Disattach(heap, u), p)
           h == GetOrCreateTree(g, u)
           ok == CanDisattach(heap, u) /\ CanPush(h, p, u)
<1>1. Operation /\ Ends(ok, Push(h, p, u)) /\ late' = late /\ byValue' = byValue
      /\ u \in DOMAIN heap.tree
  BY DEF ApproveTree
<1>2. ASSUME ok PROVE SomeInv(Push(h, p, u), byValue', late')
  <2>1. SomeInv(heap, byValue, late)
    BY <1>1, <1>2 DEF LayoutInv, Operation
  <2>2. SomeInv(g, byValue, late) /\ g.tree = heap.tree /\ p \in DOMAIN g.node
    BY <1>2, <2>1, ParentAndChild
  <2> HIDE DEF g
  <2>3. u \in DOMAIN g.tree
    BY <1>1, <2>2
  <2>4. SomeInv(h, byValue, late) /\ DOMAIN h.node = DOMAIN g.node \cup {u}
    BY <2>2, <2>3, GetOrCreateTreeInv
  <2> QED BY <1>1, <1>2, <2>2, <2>4, PushSomeInv
<1> HIDE DEF ok, h
<1> QED BY <1>1, <1>2, EndsInv

LEMMA ApproveForestInv ==
  ASSUME LayoutInv, NEW p \in Updates, NEW u \in Updates, ApproveForest(p, u)
  PROVE  LayoutInv'
<1> DEFINE h == GetOrCreate(heap, p)
           f == h.node[p].children
           ok == h.forest[f].final \/ h.forest[f].list = <<>>
<1>1. /\ Operation /\ Ends(ok, OneTree(h, f, u)) /\ late' = late /\ byValue' = byValue \cup {u}
      /\ u \in DOMAIN heap.tree
  BY DEF ApproveForest, OneTree
<1>2. ASSUME ok PROVE SomeInv(OneTree(h, f, u), byValue', late')
  <2>1. SomeInv(heap, byValue, late)
    BY <1>1, <1>2 DEF LayoutInv, Operation
  <2>2. SomeInv(h, byValue, late) /\ h.tree = heap.tree /\ p \in DOMAIN h.node
    BY <2>1, GetOrCreateInv
  <2>3. f \in 1..Len(h.forest)
    BY <2>2, HeapParts DEF SomeInv, HeapInv, NodeType
  <2> HIDE DEF f, h
  <2> QED BY <1>1, <2>2, <2>3, OneTreeInv
<1> HIDE DEF ok, h, f
<1> QED BY <1>1, <1>2, EndsInv

LEMMA UnlinkInv ==
  ASSUME LayoutInv, NEW u \in Updates, Unlink(u)
  PROVE  LayoutInv'
<1> DEFINE h == Disattach(heap, u)
           ok == CanDisattach(heap, u)
<1>1. Operation /\ Ends(ok, h) /\ late' = late /\ byValue' = byValue
  BY DEF Unlink
<1>2. ASSUME ok PROVE SomeInv(h, byValue', late')
  BY <1>1, <1>2, DisattachSomeInv DEF LayoutInv, Operation
<1> HIDE DEF ok, h
<1> QED BY <1>1, <1>2, EndsInv

LEMMA ExtractInv ==
  ASSUME LayoutInv, NEW u \in Updates, Extract(u)
  PROVE  LayoutInv'
<1> DEFINE d == Disattach(heap, u)
           c == heap.node[u].children
           h == IF u \in DOMAIN heap.node THEN Finalize(d, c) ELSE NewTree(heap)
           f == IF u \in DOMAIN heap.node THEN c ELSE Len(h.forest)
           ok == CanDisattach(heap, u) /\ u \notin Under(d, u)
           g == [h EXCEPT !.tree = With(@, u, f)]
<1>1. Operation /\ Ends(ok, g) /\ late' = late /\ byValue' = byValue
  BY DEF Extract, NewTree
<1>2. ASSUME ok PROVE SomeInv(g, byValue', late')
  <2>1. SomeInv(heap, byValue, late)
    BY <1>1, <1>2 DEF LayoutInv, Operation
  <2>2. CASE u \in DOMAIN heap.node
    <3>1. SomeInv(d, byValue, late) /\ SameValues(d, heap)
      BY <1>2, <2>1, DisattachSomeInv
    <3> HIDE DEF d
    <3>2. u \in DOMAIN d.node /\ d.node[u].children = c
      BY <2>2, <3>1 DEF SameValues
    <3>3. c \in 1..Len(d.forest)
      BY <3>1, <3>2, HeapParts DEF SomeInv, HeapInv, NodeType
    <3> DEFINE x == Finalize(d, c)
    <3> HIDE DEF c
    <3>4. SomeInv(x, byValue, late) /\ SameNodes(x, d) /\ x.forest[c].final
      BY <3>1, <3>3, FinalizeInv
    <3>5. u \in DOMAIN x.node /\ x.node[u].children = c
      BY <3>2, <3>4 DEF SameNodes
    <3>6. g = [x EXCEPT !.tree = With(@, u, c)]
      BY <2>2
    <3> HIDE DEF x, g
    <3>7. SomeInv([x EXCEPT !.tree = With(@, u, x.node[u].children)], byValue, late)
      BY <3>4, <3>5, OldTreeInv
    <3> QED BY <1>1, <3>5, <3>6, <3>7
  <2>3. CASE u \notin DOMAIN heap.node
    <3>1. SomeInv([NewTree(heap) EXCEPT !.tree = With(@, u, Len(NewTree(heap).forest))],
          byValue, late)
      BY <2>1, <2>3, NewTreeInv
    <3> QED BY <1>1, <2>3, <3>1
  <2> QED BY <2>2, <2>3
<1> HIDE DEF ok, g
<1> QED BY <1>1, <1>2, EndsInv

LEMMA TreeApproveKeepsInv ==
  ASSUME LayoutInv, NEW t \in Updates, NEW u \in Updates, TreeApprove(t, u)
  PROVE  LayoutInv'
<1> DEFINE h == Disattach(heap, u)
           ok == CanDisattach(heap, u)
<1>1. /\ Operation /\ Ends(ok, InFront(h, t, u)) /\ late' = (late \/ t \in byValue \/ InLayout(t))
      /\ byValue' = byValue \cup {u} /\ t \in DOMAIN heap.tree /\ t # u
  BY DEF TreeApprove, InFront
<1>2. ASSUME ok PROVE SomeInv(InFront(h, t, u), byValue', late')
  <2>1. SomeInv(heap, byValue, late')
    <3>1. SomeInv(heap, byValue, late) /\ (late => late')
      BY <1>1 DEF LayoutInv, Operation
    <3> QED BY <3>1, MayBeChanged
  <2>2. SomeInv(h, byValue, late') /\ SameValues(h, heap)
    BY <1>2, <2>1, DisattachSomeInv
  <2>3. ASSUME ~late', t \in DOMAIN h.node PROVE ~h.node[t].final /\ h.node[t].siblings = 0
    <3>1. t \in DOMAIN heap.node /\ h.node[t].final = heap.node[t].final
      BY <2>2, <2>3 DEF SameValues
    <3>2. ~heap.node[t].final /\ heap.node[t].siblings = 0
      BY <1>1, <2>3, <3>1 DEF InLayout
    <3>3. h.node[t] = heap.node[t]
      <4>1. PICK V : HeapTyped(heap, V)
        BY <2>1 DEF SomeInv, HeapInv
      <4>2. CASE Siblings(heap, u) = 0
        BY <4>2 DEF Disattach
      <4>3. CASE Siblings(heap, u) # 0
        <5> DEFINE s == heap.node[u].siblings
                   rest == Rest(heap.forest[s].list, u)
        <5>1. h = [heap EXCEPT !.node[u].siblings = 0, !.forest[s].list = rest]
          BY <4>3 DEF Disattach
        <5>2. heap = [node |-> heap.node, forest |-> heap.forest, cell |-> heap.cell,
              tree |-> heap.tree]
          BY <4>1 DEF HeapTyped
        <5> HIDE DEF h, rest, s
        <5>3. h.node = [heap.node EXCEPT ![u].siblings = 0]
          BY <5>1, <5>2
        <5> QED BY <1>1, <3>1, <5>3
      <4> QED BY <4>2, <4>3
    <3> QED BY <3>2, <3>3
  <2>4. t \in DOMAIN h.tree
    BY <1>1, <2>2 DEF SameValues
  <2>5. ~late' => t \notin byValue
    BY <1>1
  <2> HIDE DEF h
  <2> QED BY <1>1, <2>2, <2>3, <2>4, <2>5, TreeApproveInv
<1> HIDE DEF ok, h
<1> QED BY <1>1, <1>2, EndsInv

LEMMA FinalizeChildrenInv ==
  ASSUME LayoutInv, FinalizeChildren
  PROVE  LayoutInv'
<1> DEFINE h == Finalize(heap, 1)
           c == h.forest[1].cell
<1>1. /\ status = "building" /\ status' = "final" /\ late' = late /\ byValue' = byValue
      /\ calls' = [hash |-> h.forest[1].hash, content |-> Content(h, c)]
      /\ Content(h, c) \in Forests
  BY DEF FinalizeChildren
<1>2. SomeInv(heap, byValue, late)
  BY <1>1 DEF LayoutInv
<1>3. PICK V : HeapTyped(heap, V) /\ RootAndFinals(heap)
  BY <1>2 DEF SomeInv, HeapInv
<1>4. Root \in DOMAIN heap.node /\ heap.node[Root].children = 1 /\ 1 \in 1..Len(heap.forest)
  BY <1>3, HeapParts DEF HeapTyped, RootAndFinals, NodeType
<1>5. SomeInv(h, byValue, late) /\ SameNodes(h, heap)
  BY <1>2, <1>4, FinalizeInv
<1> HIDE DEF h
<1>6. Owns(h, Root, 1) /\ 1 \in 1..Len(h.forest)
  BY <1>4, <1>5 DEF SameNodes, Owns
<1>7. ~late => h.forest[1].hash = Content(h, c)
  BY <1>5, <1>6 DEF SomeInv, HeapInv, Sound
<1>8. OncePerTransaction'
  <2>1. PICK W : HeapInv(h, W, byValue, late)
    BY <1>5 DEF SomeInv
  <2>2. c \in 0..Len(h.cell)
    BY <1>6, <2>1, HeapParts DEF HeapInv, ForestType
  <2>3. ASSUME NEW x, x \notin Copied(byValue, Content(h, c))
        PROVE  AtMostOnce(x, Flat(Content(h, c)))
    <3>1. ReachedOnce(h, byValue, c)
      BY <2>1, <2>2, SentOnce DEF HeapInv
    <3> QED BY <1>1, <2>3, <3>1 DEF ReachedOnce
  <2>4. Flat(Content(h, c)) \in Seq(Updates)
    BY <1>1, FlatUnfolds
  <2> DEFINE flat == Flat(Content(h, c))
  <2>5. ASSUME NEW j \in DOMAIN flat, NEW k \in DOMAIN flat, j < k, flat[j] = flat[k]
        PROVE  flat[j] \in Copied(byValue, Content(h, c))
    <3>1. j \in 1..Len(flat) /\ k \in 1..Len(flat) /\ j # k
      BY <2>4, <2>5
    <3>2. ~AtMostOnce(flat[j], flat)
      BY <2>5, <3>1 DEF AtMostOnce
    <3> QED BY <2>3, <3>2
  <2> QED BY <1>1, <2>5 DEF OncePerTransaction
<1> QED BY <1>1, <1>7, <1>8 DEF LayoutInv, CommitsToContent

\* For any number of account updates and operations, in any order: as long as no
\* tree was changed after it was put somewhere, all hashes are those of their data.
THEOREM LayoutInvHolds == LayoutSpec => []LayoutInv
<1>1. LayoutInit => LayoutInv
  <2> SUFFICES ASSUME LayoutInit PROVE LayoutInv
    OBVIOUS
  <2>1. Flat(<<>>) = <<>> /\ DOMAIN <<>> = {}
    BY FlatUnfolds
  <2> QED BY <2>1, EmptyHeapInv DEF LayoutInit, LayoutInv, CommitsToContent, OncePerTransaction
<1>2. LayoutInv /\ [LayoutNext]_layoutVars => LayoutInv'
  <2> SUFFICES ASSUME LayoutInv, [LayoutNext]_layoutVars PROVE LayoutInv'
    OBVIOUS
  <2>1. CASE UNCHANGED layoutVars
    BY <2>1 DEF layoutVars, LayoutInv, CommitsToContent, OncePerTransaction
  <2>2. CASE FinalizeChildren
    BY <2>2, FinalizeChildrenInv
  <2>3. ASSUME NEW p \in Updates, NEW u \in Updates,
               Approve(p, u) \/ ApproveIf(p, u, TRUE) \/ ApproveIf(p, u, FALSE)
        PROVE  LayoutInv'
    BY <2>3, ApproveInv, ApproveIfInv
  <2>4. ASSUME NEW p \in Updates, NEW u \in Updates,
               ApproveTree(p, u) \/ ApproveForest(p, u) \/ TreeApprove(p, u)
        PROVE  LayoutInv'
    BY <2>4, ApproveTreeInv, ApproveForestInv, TreeApproveKeepsInv
  <2>5. ASSUME NEW u \in Updates, PushTopLevel(u) \/ Unlink(u) \/ Extract(u)
        PROVE  LayoutInv'
    BY <2>5, PushTopLevelInv, UnlinkInv, ExtractInv
  <2> QED BY <2>1, <2>2, <2>3, <2>4, <2>5 DEF LayoutNext, Operate
<1> QED BY <1>1, <1>2, PTL DEF LayoutSpec

\* The hash that finalizeChildren returns is that of what is sent, unless a tree
\* was changed after it was put somewhere.
THEOREM CommitsToContentHolds == LayoutSpec => []CommitsToContent
<1>1. LayoutInv => CommitsToContent
  BY DEF LayoutInv
<1> QED BY <1>1, LayoutInvHolds, PTL

\* No account update is sent twice, unless it was put into a tree or a forest as a
\* value, with what is below it.
THEOREM OncePerTransactionHolds == LayoutSpec => []OncePerTransaction
<1>1. LayoutInv => OncePerTransaction
  BY DEF LayoutInv
<1> QED BY <1>1, LayoutInvHolds, PTL

\* The token contract changes nothing of the layout.
THEOREM TokenBuildsLayout == TokenSpec => LayoutSpec
<1>1. TokenInit => LayoutInit
  BY DEF TokenInit
<1>2. [TokenNext]_allVars => [LayoutNext]_layoutVars
  BY DEF TokenNext, allVars, ForEachUpdate, IteratorNext, AssertFinished
<1> QED BY <1>1, <1>2, PTL DEF TokenSpec, LayoutSpec

-----------------------------------------------------------------------------
(* The iterator of TokenForest: what is visited of forests *)

\* What is visited of one tree, and of each tree of a forest.
VisitsTree(kinds, t, mayUse) ==
  <<t[1]>> \o IF kinds[t[1]] = mayUse THEN Visits(kinds, t[2], "inherit") ELSE <<>>
VisitsTrees(kinds, f, mayUse) == [k \in DOMAIN f |-> VisitsTree(kinds, f[k], mayUse)]

\* Visits does not depend on the level at which a forest is looked at.
LEMMA VisitsUnfolds ==
  ASSUME NEW kinds \in [Updates -> Kinds]
  PROVE  /\ \A m \in Kinds, f \in Forests : Visits(kinds, f, m) \in Seq(Updates)
         /\ \A m \in Kinds, f \in Forests :
            Visits(kinds, f, m) = Flattened(VisitsTrees(kinds, f, m))
<1> DEFINE D(x, m, f) == [k \in DOMAIN f |->
             <<f[k][1]>> \o IF kinds[f[k][1]] = m THEN x["inherit"][f[k][2]] ELSE <<>>]
           E(x, n) == [m \in Kinds |-> [f \in ForestsUpTo[n] |-> Flattened(D(x, m, f))]]
           Body(g, N) == [n \in 0..N |-> E(g[n - 1], n)]
           v == CHOOSE g : g = Body(g, MaxLevels)
           T == {N \in 0..MaxLevels : \E g : g = Body(g, N)}
<1>1. MaxLevels \in Nat
  BY UpdatesAssumption
<1>2. \A m, f : Visits(kinds, f, m) = v[MaxLevels][m][f]
  BY DEF Visits
<1>3. \A x, m : D(x, m, <<>>) = <<>>
  OBVIOUS
<1>4. \A x, m, f : /\ DOMAIN D(x, m, f) = DOMAIN f
                   /\ \A k \in DOMAIN f : D(x, m, f)[k] =
                        <<f[k][1]>> \o IF kinds[f[k][1]] = m THEN x["inherit"][f[k][2]] ELSE <<>>
  OBVIOUS
<1>d. \A x, m, f : D(x, m, f) = [k \in DOMAIN f |-> D(x, m, f)[k]]
  OBVIOUS
<1> HIDE DEF D
<1>5. \A x, n : E(x, n) = [m \in Kinds |-> [f \in ForestsUpTo[n] |-> Flattened(D(x, m, f))]]
  OBVIOUS
<1>6. \A x, y : E(x, 0) = E(y, 0)
  BY <1>3, ForestLevels
<1> HIDE DEF E
<1>7. 0 \in T
  <2> DEFINE g == [n \in 0..0 |-> E(0, 0)]
  <2>1. g = Body(g, 0)
    BY <1>6
  <2> HIDE DEF g, Body
  <2> QED BY <1>1, <2>1
<1>8. ASSUME NEW N \in 0..MaxLevels - 1, N \in T PROVE N + 1 \in T
  <2>1. PICK g : g = Body(g, N)
    BY <1>8
  <2> DEFINE h == [n \in 0..N + 1 |-> IF n = N + 1 THEN E(g[N], N + 1) ELSE g[n]]
  <2>2. h = Body(h, N + 1)
    <3>1. \A n \in 0..N : h[n] = g[n]
      OBVIOUS
    <3>2. \A n \in 0..N : g[n] = E(g[n - 1], n)
      BY <2>1
    <3>3. ASSUME NEW n \in 0..N + 1 PROVE h[n] = E(h[n - 1], n)
      <4>1. CASE n = N + 1
        BY <3>1, <4>1
      <4>2. CASE n = 0
        BY <1>6, <3>1, <3>2, <4>2
      <4>3. CASE n \in 1..N
        <5>1. n - 1 \in 0..N /\ n \in 0..N
          BY <4>3
        <5>2. h[n - 1] = g[n - 1] /\ h[n] = g[n] /\ g[n] = E(g[n - 1], n)
          BY <3>1, <3>2, <5>1
        <5> QED BY ONLY <5>2
      <4> QED BY <4>1, <4>2, <4>3
    <3> HIDE DEF h
    <3>4. h = [n \in 0..N + 1 |-> h[n]]
      BY DEF h
    <3> QED BY <3>3, <3>4
  <2>3. N + 1 \in 0..MaxLevels
    BY <1>1
  <2> HIDE DEF h, Body
  <2> QED BY <2>2, <2>3
<1> HIDE DEF T
<1>9. 0..MaxLevels \subseteq T
  BY <1>1, <1>7, <1>8, IntervalInduction
<1> HIDE DEF Body
<1>10. PICK g : g = Body(g, MaxLevels)
  BY <1>1, <1>9 DEF T
<1>11. v = Body(v, MaxLevels)
  BY <1>10
<1> HIDE DEF v
<1>12. \A n \in 0..MaxLevels : v[n] = E(v[n - 1], n)
  BY <1>11 DEF Body
<1>13. ASSUME NEW n \in 0..MaxLevels, NEW m \in Kinds, NEW f \in ForestsUpTo[n]
       PROVE  v[n][m][f] = Flattened(D(v[n - 1], m, f))
  BY <1>5, <1>12
\* Typing
<1> DEFINE typed == {n \in 0..MaxLevels : \A m \in Kinds, f \in ForestsUpTo[n] :
    v[n][m][f] \in Seq(Updates)}
<1>14. Flattened(<<>>) = <<>> /\ <<>> \in Seq(Updates)
  BY EmptySeq, FlattenedSteps
<1>15. 0 \in typed
  <2>1. ASSUME NEW m \in Kinds, NEW f \in ForestsUpTo[0] PROVE v[0][m][f] \in Seq(Updates)
    <3>1. f = <<>> /\ 0 \in 0..MaxLevels
      BY <1>1, ForestLevels
    <3>2. v[0][m][f] = Flattened(D(v[0 - 1], m, f))
      BY <1>13, <3>1
    <3>3. D(v[0 - 1], m, <<>>) = <<>>
      BY <1>3
    <3> QED BY <1>14, <3>1, <3>2, <3>3
  <2> QED BY <1>1, <2>1
<1>16. ASSUME NEW n \in 0..MaxLevels - 1, NEW m \in Kinds, NEW f \in ForestsUpTo[n + 1], n \in typed
       PROVE  D(v[n], m, f) \in Seq(Seq(Updates))
  <2>1. n + 1 \in 1..MaxLevels /\ (n + 1) - 1 = n
    BY <1>1
  <2>2. f \in Seq(Updates \X ForestsUpTo[n])
    BY <2>1, ForestLevels
  <2>3. DOMAIN f = 1..Len(f) /\ Len(f) \in Nat
    BY <2>2
  <2> DEFINE w == v[n]
  <2>c. /\ DOMAIN D(w, m, f) = DOMAIN f
        /\ \A k \in DOMAIN f : D(w, m, f)[k] =
             <<f[k][1]>> \o IF kinds[f[k][1]] = m THEN w["inherit"][f[k][2]] ELSE <<>>
    <3> HIDE DEF w
    <3> QED BY <1>4
  <2>d. \A k \in DOMAIN f : D(v[n], m, f)[k] =
          <<f[k][1]>> \o IF kinds[f[k][1]] = m THEN v[n]["inherit"][f[k][2]] ELSE <<>>
    BY <2>c
  <2>4. ASSUME NEW k \in 1..Len(f) PROVE D(v[n], m, f)[k] \in Seq(Updates)
    <3>1. f[k] \in Updates \X ForestsUpTo[n]
      BY <2>2, <2>4
    <3>2. f[k][1] \in Updates /\ f[k][2] \in ForestsUpTo[n]
      BY <3>1
    <3>3. v[n]["inherit"][f[k][2]] \in Seq(Updates)
      BY <1>16, <3>2 DEF Kinds
    <3> DEFINE x == f[k][1]
               r == v[n]["inherit"][f[k][2]]
    <3>4. D(v[n], m, f)[k] = <<x>> \o (IF kinds[x] = m THEN r ELSE <<>>)
      BY <2>3, <2>d
    <3>5. x \in Updates /\ r \in Seq(Updates)
      BY <3>2, <3>3
    <3> HIDE DEF x, r
    <3>6. <<x>> \in Seq(Updates)
      BY <3>5
    <3>7. <<x>> \o r \in Seq(Updates) /\ <<x>> \o <<>> \in Seq(Updates)
      BY <3>5, <3>6, <1>14, ConcatProperties
    <3> QED BY <3>4, <3>7
  <2>5. DOMAIN D(v[n], m, f) = 1..Len(f)
    BY <1>4, <2>3
  <2>6. D(v[n], m, f) = [k \in 1..Len(f) |-> D(v[n], m, f)[k]]
    BY <1>d, <2>3
  <2> DEFINE s == D(v[n], m, f)
  <2>7. \A k \in 1..Len(f) : s[k] \in Seq(Updates)
    BY <2>4
  <2>8. s = [k \in 1..Len(f) |-> s[k]]
    BY <2>6
  <2> HIDE DEF s
  <2>9. s \in Seq(Seq(Updates))
    BY <2>3, <2>7, <2>8
  <2> QED BY <2>9 DEF s
<1>17. ASSUME NEW n \in 0..MaxLevels - 1, n \in typed PROVE n + 1 \in typed
  <2>1. n + 1 \in 0..MaxLevels /\ (n + 1) - 1 = n
    BY <1>1
  <2>2. ASSUME NEW m \in Kinds, NEW f \in ForestsUpTo[n + 1] PROVE v[n + 1][m][f] \in Seq(Updates)
    <3>1. v[n + 1][m][f] = Flattened(D(v[n], m, f))
      BY <1>13, <2>1
    <3>2. D(v[n], m, f) \in Seq(Seq(Updates))
      BY <1>16, <1>17
    <3> QED BY <3>1, <3>2, FlattenedSteps
  <2> QED BY <2>1, <2>2
<1> HIDE DEF typed
<1>18. 0..MaxLevels \subseteq typed
  BY <1>1, <1>15, <1>17, IntervalInduction
\* A deeper level agrees with the one below it.
<1> DEFINE agree == {n \in 0..MaxLevels : \A m \in Kinds :
    n = 0 \/ \A f \in ForestsUpTo[n - 1] : v[n][m][f] = v[n - 1][m][f]}
<1>19. 0 \in agree
  BY <1>1
<1>20. ASSUME NEW n \in 0..MaxLevels - 1, n \in agree PROVE n + 1 \in agree
  <2>1. n + 1 \in 1..MaxLevels /\ n + 1 \in 0..MaxLevels /\ (n + 1) - 1 = n /\ n \in 0..MaxLevels
    BY <1>1
  <2>2. ASSUME NEW m \in Kinds, NEW f \in ForestsUpTo[n] PROVE v[n + 1][m][f] = v[n][m][f]
    <3>1. f \in ForestsUpTo[n + 1]
      BY <2>1, ForestsGrow
    <3>2. v[n + 1][m][f] = Flattened(D(v[n], m, f)) /\ v[n][m][f] = Flattened(D(v[n - 1], m, f))
      BY <1>13, <2>1, <3>1
    <3>3. CASE n = 0
      BY <1>3, <3>2, <3>3, ForestLevels
    <3>4. CASE n # 0
      <4>1. n \in 1..MaxLevels
        BY <2>1, <3>4
      <4>2. f \in Seq(Updates \X ForestsUpTo[n - 1])
        BY <4>1, ForestLevels
      <4>3. ASSUME NEW k \in DOMAIN f PROVE D(v[n], m, f)[k] = D(v[n - 1], m, f)[k]
        <5>1. f[k][2] \in ForestsUpTo[n - 1]
          BY <4>2
        <5>2. v[n]["inherit"][f[k][2]] = v[n - 1]["inherit"][f[k][2]]
          BY <1>20, <3>4, <5>1 DEF Kinds
        <5> DEFINE x == v[n]
                   y == v[n - 1]
        <5>3. D(x, m, f)[k] = <<f[k][1]>> \o IF kinds[f[k][1]] = m THEN x["inherit"][f[k][2]]
              ELSE <<>>
          BY <1>4
        <5>4. D(y, m, f)[k] = <<f[k][1]>> \o IF kinds[f[k][1]] = m THEN y["inherit"][f[k][2]]
              ELSE <<>>
          BY <1>4
        <5>5. x["inherit"][f[k][2]] = y["inherit"][f[k][2]]
          BY <5>2
        <5>6. D(x, m, f)[k] = D(y, m, f)[k]
          BY ONLY <5>3, <5>4, <5>5
        <5> QED BY <5>6
      <4>4. D(v[n], m, f) = D(v[n - 1], m, f)
        BY <1>d, <4>3
      <4> QED BY <3>2, <4>4
    <3> QED BY <3>3, <3>4
  <2> QED BY <2>1, <2>2
<1> HIDE DEF agree
<1>21. 0..MaxLevels \subseteq agree
  BY <1>1, <1>19, <1>20, IntervalInduction
<1>22. ASSUME NEW m \in Kinds, NEW f \in Forests PROVE Visits(kinds, f, m) \in Seq(Updates)
  BY <1>1, <1>2, <1>18 DEF typed, Forests
<1>23. ASSUME NEW m \in Kinds, NEW f \in Forests
       PROVE  Visits(kinds, f, m) = Flattened(VisitsTrees(kinds, f, m))
  <2>1. f \in ForestsUpTo[MaxLevels] /\ MaxLevels \in 0..MaxLevels
    BY <1>1 DEF Forests
  <2>2. Visits(kinds, f, m) = Flattened(D(v[MaxLevels - 1], m, f))
    BY <1>2, <1>13, <2>1
  <2>3. CASE MaxLevels = 0
    <3>1. f = <<>>
      BY <2>1, <2>3, ForestLevels
    <3>2. VisitsTrees(kinds, <<>>, m) = <<>>
      BY DEF VisitsTrees
    <3> QED BY <1>3, <2>2, <3>1, <3>2
  <2>4. CASE MaxLevels # 0
    <3>1. MaxLevels \in 1..MaxLevels
      BY <1>1, <2>4
    <3>2. f \in Seq(Updates \X ForestsUpTo[MaxLevels - 1])
      BY <2>1, <3>1, ForestLevels
    <3>3. ASSUME NEW k \in DOMAIN f PROVE D(v[MaxLevels - 1], m, f)[k] = VisitsTree(kinds, f[k], m)
      <4>1. f[k][2] \in ForestsUpTo[MaxLevels - 1]
        BY <3>2
      <4>2. v[MaxLevels]["inherit"][f[k][2]] = v[MaxLevels - 1]["inherit"][f[k][2]]
        BY <1>21, <2>1, <2>4, <4>1 DEF agree, Kinds
      <4>3. Visits(kinds, f[k][2], "inherit") = v[MaxLevels - 1]["inherit"][f[k][2]]
        BY <1>2, <4>2
      <4> QED BY <1>4, <4>3 DEF VisitsTree
    <3>4. D(v[MaxLevels - 1], m, f) = VisitsTrees(kinds, f, m)
      BY <1>d, <3>3 DEF VisitsTrees
    <3> QED BY <2>2, <3>4
  <2> QED BY <2>3, <2>4
<1> QED BY <1>22, <1>23

\* A forest is visited tree by tree: first its head, then what is below the head.
VisitsHead(kinds, f, mayUse) ==
  Visits(kinds, f, mayUse) = VisitsTree(kinds, Head(f), mayUse) \o Visits(kinds, Tail(f), mayUse)

LEMMA VisitsSteps ==
  ASSUME NEW kinds \in [Updates -> Kinds], NEW m \in Kinds
  PROVE  /\ Visits(kinds, <<>>, m) = <<>>
         /\ \A t \in Updates \X Forests : VisitsTree(kinds, t, m) \in Seq(Updates)
         /\ \A f \in Forests : f # <<>> => VisitsHead(kinds, f, m)
<1>1. <<>> \in Forests
  BY UpdatesAssumption, ForestsGrow
<1>2. <<>> \in Seq(Updates) /\ <<>> \in Seq(Seq(Updates))
  BY EmptySeq
<1>3. Visits(kinds, <<>>, m) = <<>>
  <2>1. VisitsTrees(kinds, <<>>, m) = <<>>
    BY DEF VisitsTrees
  <2> QED BY <1>1, <1>2, <2>1, VisitsUnfolds, FlattenedSteps
<1>4. ASSUME NEW t \in Updates \X Forests PROVE VisitsTree(kinds, t, m) \in Seq(Updates)
  <2> DEFINE below == Visits(kinds, t[2], "inherit")
  <2>1. t[1] \in Updates /\ below \in Seq(Updates)
    BY VisitsUnfolds DEF Kinds
  <2>2. VisitsTree(kinds, t, m) = <<t[1]>> \o (IF kinds[t[1]] = m THEN below ELSE <<>>)
    BY DEF VisitsTree
  <2> HIDE DEF below
  <2>3. <<t[1]>> \in Seq(Updates)
    BY <2>1
  <2>4. <<t[1]>> \o below \in Seq(Updates) /\ <<t[1]>> \o <<>> \in Seq(Updates)
    BY <1>2, <2>1, <2>3, ConcatProperties
  <2> QED BY <2>2, <2>4
<1>5. ASSUME NEW f \in Forests, f # <<>> PROVE VisitsHead(kinds, f, m)
  <2> DEFINE first == VisitsTree(kinds, Head(f), m)
             s == VisitsTrees(kinds, Tail(f), m)
             all == VisitsTrees(kinds, f, m)
  <2>1. f \in Seq(Updates \X Forests) /\ Head(f) \in Updates \X Forests /\ Tail(f) \in Forests
    BY <1>5, ForestParts
  <2>2. Tail(f) \in Seq(Updates \X Forests)
    BY <2>1, ForestParts
  <2>3. first \in Seq(Updates)
    BY <1>4, <2>1
  <2>4. /\ Len(f) \in Nat /\ Len(f) > 0 /\ Len(Tail(f)) = Len(f) - 1
        /\ DOMAIN f = 1..Len(f) /\ DOMAIN Tail(f) = 1..Len(f) - 1
        /\ Head(f) = f[1] /\ \A k \in 1..Len(f) - 1 : Tail(f)[k] = f[k + 1]
    BY <1>5, <2>1, <2>2
  <2>5. /\ s = [k \in 1..Len(f) - 1 |-> VisitsTree(kinds, f[k + 1], m)]
        /\ all = [k \in 1..Len(f) |-> VisitsTree(kinds, f[k], m)]
    BY <2>4 DEF VisitsTrees
  <2>6. \A k \in 1..Len(f) : VisitsTree(kinds, f[k], m) \in Seq(Updates)
    BY <1>4, <2>1, <2>4
  <2> HIDE DEF s, all
  <2>7. s \in Seq(Seq(Updates)) /\ all \in Seq(Seq(Updates)) /\ Len(s) = Len(f) - 1
        /\ Len(all) = Len(f)
    BY <2>4, <2>5, <2>6
  <2>8. first = VisitsTree(kinds, f[1], m)
    BY <2>4
  <2> HIDE DEF first
  <2>9. all = <<first>> \o s
    BY <2>3, <2>4, <2>5, <2>7, <2>8
  <2>10. <<first>> \in Seq(Seq(Updates)) /\ <<first>> = Append(<<>>, first)
    BY <2>3
  <2>11. Flattened(<<first>>) = <<>> \o first
    BY <1>2, <2>3, <2>10, FlattenedSteps
  <2>12. Flattened(<<first>>) = first
    BY <2>3, <2>11, ConcatEmptySeq
  <2>13. FlattensConcat(<<first>>, s)
    BY <2>7, <2>10, FlattenedConcat
  <2>14. Flattened(all) = first \o Flattened(s)
    BY <2>9, <2>12, <2>13 DEF FlattensConcat
  <2>15. Visits(kinds, f, m) = Flattened(all) /\ Visits(kinds, Tail(f), m) = Flattened(s)
    BY <2>1, VisitsUnfolds DEF s, all
  <2> QED BY <2>14, <2>15 DEF VisitsHead, first
<1> QED BY <1>3, <1>4, <1>5

-----------------------------------------------------------------------------
(* What the iterator still has to visit: the rest of each layer. *)

Layers == [rest : Forests, mayUse : Kinds \ {"self"}]

LayerVisits(kinds, layer) == Visits(kinds, layer.rest, layer.mayUse)
Remaining(kinds, layers) == Flattened([k \in DOMAIN layers |-> LayerVisits(kinds, layers[k])])

RemainsFirst(kinds, layer, layers) ==
  Remaining(kinds, <<layer>> \o layers) = LayerVisits(kinds, layer) \o Remaining(kinds, layers)

\* What remains of a stack of layers begins with what remains of its top.
LEMMA RemainingSteps ==
  ASSUME NEW kinds \in [Updates -> Kinds]
  PROVE  /\ Remaining(kinds, <<>>) = <<>>
         /\ \A layer \in Layers : LayerVisits(kinds, layer) \in Seq(Updates)
         /\ \A layers \in Seq(Layers) : Remaining(kinds, layers) \in Seq(Updates)
         /\ \A layer \in Layers, layers \in Seq(Layers) : RemainsFirst(kinds, layer, layers)
<1> DEFINE M(layers) == [k \in DOMAIN layers |-> LayerVisits(kinds, layers[k])]
<1>1. <<>> \in Seq(Updates) /\ <<>> \in Seq(Seq(Updates))
  BY EmptySeq
<1>2. Remaining(kinds, <<>>) = <<>>
  <2>1. M(<<>>) = <<>>
    OBVIOUS
  <2> QED BY <1>1, <2>1, FlattenedSteps DEF Remaining
<1>3. ASSUME NEW layer \in Layers PROVE LayerVisits(kinds, layer) \in Seq(Updates)
  <2>1. layer.rest \in Forests /\ layer.mayUse \in Kinds
    BY DEF Layers
  <2> QED BY <2>1, VisitsUnfolds DEF LayerVisits
<1>4. ASSUME NEW layers \in Seq(Layers)
      PROVE  M(layers) \in Seq(Seq(Updates)) /\ Len(M(layers)) = Len(layers)
  <2>1. \A k \in 1..Len(layers) : LayerVisits(kinds, layers[k]) \in Seq(Updates)
    BY <1>3
  <2> QED BY <2>1
<1>5. ASSUME NEW layers \in Seq(Layers) PROVE Remaining(kinds, layers) \in Seq(Updates)
  BY <1>4, FlattenedSteps DEF Remaining
<1>6. ASSUME NEW layer \in Layers, NEW layers \in Seq(Layers)
      PROVE  RemainsFirst(kinds, layer, layers)
  <2> DEFINE first == LayerVisits(kinds, layer)
             both == <<layer>> \o layers
             s == M(layers)
             all == M(both)
  <2>1. /\ both \in Seq(Layers) /\ Len(both) = Len(layers) + 1 /\ Len(layers) \in Nat
        /\ both[1] = layer /\ \A k \in 1..Len(layers) : both[k + 1] = layers[k]
    OBVIOUS
  <2>2. first \in Seq(Updates)
    BY <1>3
  <2> HIDE DEF both
  <2>3. s \in Seq(Seq(Updates)) /\ all \in Seq(Seq(Updates)) /\ Len(s) = Len(layers)
        /\ Len(all) = Len(layers) + 1
    BY <1>4, <2>1
  <2>4. /\ all[1] = first /\ \A k \in 1..Len(layers) : all[k + 1] = s[k]
    BY <2>1
  <2> HIDE DEF s, all, first
  <2>5. all = <<first>> \o s
    <3>1. <<first>> \o s \in Seq(Seq(Updates)) /\ Len(<<first>> \o s) = Len(layers) + 1
      BY <2>1, <2>2, <2>3
    <3>2. ASSUME NEW k \in 1..Len(layers) + 1 PROVE all[k] = (<<first>> \o s)[k]
      <4>1. CASE k = 1
        BY <2>2, <2>3, <2>4, <4>1
      <4>2. CASE k # 1
        <5>1. k - 1 \in 1..Len(layers) /\ (k - 1) + 1 = k
          BY <2>1, <4>2
        <5>2. (<<first>> \o s)[k] = s[k - 1]
          BY <2>1, <2>2, <2>3, <5>1
        <5> QED BY <2>4, <5>1, <5>2
      <4> QED BY <4>1, <4>2
    <3> DEFINE t == <<first>> \o s
    <3> HIDE DEF t
    <3> QED BY <2>3, <3>1, <3>2, SeqEqual DEF t
  <2>6. <<first>> \in Seq(Seq(Updates)) /\ <<first>> = Append(<<>>, first)
    BY <2>2
  <2>7. Flattened(<<first>>) = <<>> \o first
    BY <1>1, <2>2, <2>6, FlattenedSteps
  <2>8. Flattened(<<first>>) = first
    BY <2>2, <2>7, ConcatEmptySeq
  <2>9. FlattensConcat(<<first>>, s)
    BY <2>3, <2>6, FlattenedConcat
  <2>10. Flattened(all) = first \o Flattened(s)
    BY <2>5, <2>8, <2>9 DEF FlattensConcat
  <2>11. Remaining(kinds, both) = Flattened(all) /\ Remaining(kinds, layers) = Flattened(s)
    BY DEF Remaining, s, all
  <2> QED BY <2>10, <2>11 DEF RemainsFirst, both, first
<1> QED BY <1>2, <1>3, <1>5, <1>6

-----------------------------------------------------------------------------
(* The invariant of the iteration *)

SeenAndRemaining ==
  visited \o Remaining(kind, <<currentLayer>> \o unfinished) = Visits(kind, calls.hash, "own")

\* The layers that were left have something left, and the one visited has if
\* there are any: the iterator goes up before it returns.
NoEmptyLayers ==
  /\ \A k \in 1..Len(unfinished) : unfinished[k].rest # <<>>
  /\ unfinished # <<>> => currentLayer.rest # <<>>

TokenTypeOK ==
  /\ verdict \in {"none", "iterating", "approved", "exceeded"}
  /\ status = "final" => calls.hash \in Forests
  /\ step \in 0..MaxUpdates /\ visited \in Seq(Updates) /\ kind \in [Updates -> Kinds]
  /\ currentLayer \in Layers /\ unfinished \in Seq(Layers)

IterationInv ==
  /\ TokenTypeOK /\ NoEmptyLayers
  /\ verdict = "none" => visited = <<>> /\ unfinished = <<>> /\ step = 0
  /\ verdict # "none" => status = "final" /\ SeenAndRemaining
  /\ currentLayer.rest # <<>> => Len(visited) = step
  /\ verdict = "approved" => currentLayer.rest = <<>>
  /\ verdict = "exceeded" => currentLayer.rest # <<>> /\ step = MaxUpdates

LEMMA IterationInvInit == TokenInit => IterationInv
<1> SUFFICES ASSUME TokenInit PROVE IterationInv
  OBVIOUS
<1>1. <<>> \in Forests
  BY UpdatesAssumption, ForestsGrow
<1>2. Layer(<<>>, "no") \in Layers
  BY <1>1 DEF Layer, Layers, Kinds
<1>3. <<>> \in Seq(Updates) /\ <<>> \in Seq(Layers) /\ Len(<<>>) = 0
  BY EmptySeq
<1>4. currentLayer.rest = <<>> /\ status = "building"
  BY DEF TokenInit, Layer, LayoutInit
<1>5. TokenTypeOK
  BY <1>2, <1>3, <1>4, MaxUpdatesAssumption DEF TokenInit, TokenTypeOK, Kinds
<1>6. NoEmptyLayers
  BY <1>3 DEF TokenInit, NoEmptyLayers
<1> QED BY <1>4, <1>5, <1>6 DEF IterationInv, TokenInit

\* The layout changes nothing of the iteration, and not after finalizeChildren.
LEMMA LayoutSteps ==
  ASSUME LayoutNext
  PROVE  status = "building" /\ (status' = "final" => calls'.hash \in Forests)
<1>1. CASE FinalizeChildren
  <2> DEFINE sent == [hash |-> Finalize(heap, 1).forest[1].hash,
                      content |-> Content(Finalize(heap, 1), Finalize(heap, 1).forest[1].cell)]
  <2>1. {sent.hash, sent.content} \subseteq Forests /\ calls' = sent /\ status = "building"
    BY <1>1, Zenon DEF FinalizeChildren
  <2> HIDE DEF sent
  <2> QED BY <2>1
<1>2. ASSUME NEW ok, NEW h, Operation, Ends(ok, h) PROVE status = "building" /\ status' # "final"
  BY <1>2 DEF Operation, Ends
<1>3. ASSUME NEW p, NEW u, Operate(p, u) PROVE status = "building" /\ status' # "final"
  BY <1>2, <1>3, Zenon DEF Operate, Approve, ApproveIf, ApproveTree, ApproveForest,
    TreeApprove, PushTopLevel, Unlink, Extract
<1> QED BY <1>1, <1>3 DEF LayoutNext

\* Hence the invariant holds while the layout is built ...
LEMMA IterationInvLayout ==
  ASSUME IterationInv, LayoutNext, UNCHANGED tokenVars
  PROVE  IterationInv'
<1>1. verdict = "none" /\ (status' = "final" => calls'.hash \in Forests)
  BY LayoutSteps DEF IterationInv
<1> QED BY <1>1 DEF IterationInv, tokenVars, TokenTypeOK, NoEmptyLayers

\* ... when the iterator is created, with the whole forest before it ...
LEMMA IterationInvForEach ==
  ASSUME IterationInv, ForEachUpdate
  PROVE  IterationInv'
<1>1. /\ status = "final" /\ verdict = "none" /\ kind' \in [Updates -> Kinds]
      /\ currentLayer' = Layer(calls.hash, "own") /\ verdict' = "iterating"
      /\ UNCHANGED <<layoutVars, unfinished, step, visited>>
  BY DEF ForEachUpdate
<1>2. calls.hash \in Forests /\ status' = "final" /\ calls' = calls
  BY <1>1 DEF IterationInv, TokenTypeOK, layoutVars
<1>3. visited' = <<>> /\ unfinished' = <<>> /\ step' = 0
  BY <1>1 DEF IterationInv
<1>4. currentLayer' \in Layers /\ currentLayer'.rest = calls.hash /\ currentLayer'.mayUse = "own"
  BY <1>1, <1>2 DEF Layer, Layers, Kinds
<1>5. <<>> \in Seq(Updates) /\ <<>> \in Seq(Layers) /\ Len(<<>>) = 0
  BY EmptySeq
<1>6. TokenTypeOK' /\ NoEmptyLayers'
  BY <1>1, <1>2, <1>3, <1>4, <1>5, MaxUpdatesAssumption DEF TokenTypeOK, NoEmptyLayers
<1>7. SeenAndRemaining'
  <2> DEFINE layer == currentLayer'
             k == kind'
             hash == calls'.hash
  <2>1. k \in [Updates -> Kinds] /\ layer \in Layers
        /\ LayerVisits(k, layer) = Visits(k, hash, "own")
    BY <1>1, <1>2, <1>4 DEF LayerVisits
  <2> SUFFICES <<>> \o Remaining(k, <<layer>> \o <<>>) = Visits(k, hash, "own")
    BY <1>3 DEF SeenAndRemaining
  <2> HIDE DEF layer, k, hash
  <2>2. RemainsFirst(k, layer, <<>>) /\ Remaining(k, <<>>) = <<>>
        /\ LayerVisits(k, layer) \in Seq(Updates)
    BY <1>5, <2>1, RemainingSteps
  <2>3. Remaining(k, <<layer>> \o <<>>) = LayerVisits(k, layer) \o <<>>
    BY <2>2 DEF RemainsFirst
  <2>4. LayerVisits(k, layer) \o <<>> = LayerVisits(k, layer) /\ <<>>
        \o LayerVisits(k, layer) = LayerVisits(k, layer)
    BY <2>2, ConcatEmptySeq
  <2> QED BY <2>1, <2>3, <2>4
<1> QED BY <1>1, <1>2, <1>3, <1>5, <1>6, <1>7 DEF IterationInv

\* Concatenation of four sequences, from the left and from the right.
Associates(a, b, c, d) == ((a \o b) \o c) \o d = a \o (b \o (c \o d))

LEMMA ConcatFour ==
  ASSUME NEW T, NEW a \in Seq(T), NEW b \in Seq(T), NEW c \in Seq(T), NEW d \in Seq(T)
  PROVE  Associates(a, b, c, d)
<1> DEFINE ab == a \o b
           cd == c \o d
<1>1. ab \in Seq(T) /\ cd \in Seq(T)
  OBVIOUS
<1> HIDE DEF ab, cd
<1>2. (ab \o c) \o d = ab \o (c \o d)
  BY <1>1, ConcatAssociative
<1> USE DEF ab
<1>3. (a \o b) \o cd = a \o (b \o cd)
  BY <1>1, ConcatAssociative
<1> QED BY <1>2, <1>3 DEF cd, Associates

\* One step of the iterator: the head of the layer is visited; what remains is
\* what is below it, unless it is skipped, and then the layers.
HeadVisited(kinds, layer, layers, child, left) ==
  Remaining(kinds, <<layer>> \o layers) =
    <<Head(layer.rest)[1]>> \o (Visits(kinds, child, "inherit") \o Remaining(kinds, left))

LEMMA NextRemaining ==
  ASSUME NEW kinds \in [Updates -> Kinds], NEW layer \in Layers, NEW layers \in Seq(Layers),
         layer.rest # <<>>, NEW child \in Forests, NEW left \in Seq(Layers), NEW tail \in Layers,
         tail.rest = Tail(layer.rest), tail.mayUse = layer.mayUse,
         kinds[Head(layer.rest)[1]] = layer.mayUse => child = Head(layer.rest)[2],
         kinds[Head(layer.rest)[1]] # layer.mayUse => child = <<>>,
         left = IF tail.rest # <<>> THEN <<tail>> \o layers ELSE layers
  PROVE  HeadVisited(kinds, layer, layers, child, left)
<1> DEFINE f == layer.rest
           m == layer.mayUse
           e == Head(f)
           below == Visits(kinds, child, "inherit")
           rest == Visits(kinds, Tail(f), m)
           others == Remaining(kinds, layers)
<1>1. f \in Forests /\ m \in Kinds /\ f # <<>>
  BY DEF Layers
<1>2. e \in Updates \X Forests /\ Tail(f) \in Forests
  BY <1>1, ForestParts
<1>3. VisitsHead(kinds, f, m) /\ Visits(kinds, <<>>, "inherit") = <<>>
      /\ Visits(kinds, <<>>, m) = <<>>
  BY <1>1, VisitsSteps DEF Kinds
<1>4. VisitsTree(kinds, e, m) = <<e[1]>> \o below
  BY <1>3 DEF VisitsTree
<1>5. below \in Seq(Updates) /\ rest \in Seq(Updates) /\ others \in Seq(Updates)
      /\ <<e[1]>> \in Seq(Updates)
  <2>1. below \in Seq(Updates) /\ rest \in Seq(Updates)
    <3>1. "inherit" \in Kinds
      BY DEF Kinds
    <3> HIDE DEF f, m
    <3> QED BY <1>1, <1>2, <3>1, VisitsUnfolds
  <2>2. others \in Seq(Updates)
    BY RemainingSteps
  <2>3. e[1] \in Updates
    BY <1>2
  <2> HIDE DEF e
  <2> QED BY <2>1, <2>2, <2>3
<1>6. LayerVisits(kinds, layer) = (<<e[1]>> \o below) \o rest
  BY <1>3, <1>4 DEF LayerVisits, VisitsHead
<1>7. Remaining(kinds, <<layer>> \o layers) = LayerVisits(kinds, layer) \o others
  <2>1. RemainsFirst(kinds, layer, layers)
    BY RemainingSteps
  <2> QED BY <2>1 DEF RemainsFirst
<1>8. Remaining(kinds, left) = rest \o others
  <2>1. LayerVisits(kinds, tail) = rest
    BY DEF LayerVisits
  <2>2. CASE tail.rest # <<>>
    <3>1. RemainsFirst(kinds, tail, layers)
      BY RemainingSteps
    <3> QED BY <2>1, <2>2, <3>1 DEF RemainsFirst
  <2>3. CASE tail.rest = <<>>
    <3>1. rest = <<>> /\ left = layers
      BY <1>3, <2>3
    <3> QED BY <1>5, <3>1, ConcatEmptySeq
  <2> QED BY <2>2, <2>3
<1> DEFINE x == <<e[1]>>
<1>9. x \in Seq(Updates)
  BY <1>5
<1> HIDE DEF x, below, rest, others
<1>10. ((x \o below) \o rest) \o others = x \o (below \o (rest \o others))
  <2>1. x \in Seq(Updates) /\ below \in Seq(Updates) /\ rest \in Seq(Updates)
        /\ others \in Seq(Updates)
    BY <1>5, <1>9
  <2>2. Associates(x, below, rest, others)
    BY <2>1, ConcatFour
  <2> QED BY <2>2 DEF Associates
<1>11. Remaining(kinds, <<layer>> \o layers) = x \o (below \o Remaining(kinds, left))
  BY <1>6, <1>7, <1>8, <1>10 DEF x
<1> QED BY <1>11 DEF HeadVisited, x, below

\* ... in each of its steps, which moves the next update from what remains to what
\* was visited ...
LEMMA IterationInvNext ==
  ASSUME IterationInv, IteratorNext
  PROVE  IterationInv'
<1> DEFINE dummy  == currentLayer.rest = <<>>
           e      == Head(currentLayer.rest)
           layer  == [currentLayer EXCEPT !.rest = IF dummy THEN <<>> ELSE Tail(@)]
           child  == IF dummy \/ Skips(e[1], layer.mayUse) THEN <<>> ELSE e[2]
           pushed == PushUnfinished(layer, child)
<1>1. /\ verdict = "iterating" /\ step < MaxUpdates /\ step' = step + 1
      /\ visited' = IF dummy THEN visited ELSE Append(visited, e[1])
      /\ \/ child # <<>> /\ currentLayer' = Layer(child, "inherit") /\ unfinished' = pushed
         \/ /\ child = <<>> /\ pushed # <<>>
            /\ currentLayer' = Head(pushed) /\ unfinished' = Tail(pushed)
         \/ /\ child = <<>> /\ pushed = <<>>
            /\ currentLayer' = Layer(<<>>, "no") /\ unfinished' = <<>>
      /\ UNCHANGED <<layoutVars, kind, verdict>>
  BY DEF IteratorNext
<1>2. /\ TokenTypeOK /\ NoEmptyLayers /\ SeenAndRemaining /\ status = "final"
      /\ currentLayer.rest # <<>> => Len(visited) = step
  BY <1>1 DEF IterationInv
<1>3. /\ calls' = calls /\ status' = status /\ kind' = kind /\ verdict' = verdict
      /\ step \in 0..MaxUpdates /\ visited \in Seq(Updates) /\ kind \in [Updates -> Kinds]
      /\ currentLayer \in Layers /\ unfinished \in Seq(Layers) /\ calls.hash \in Forests
  BY <1>1, <1>2 DEF TokenTypeOK, layoutVars
<1>4. step' \in 0..MaxUpdates
  BY <1>1, <1>3, MaxUpdatesAssumption
<1>5. <<>> \in Forests /\ <<>> \in Seq(Updates) /\ <<>> \in Seq(Layers) /\ Len(<<>>) = 0
  BY UpdatesAssumption, ForestsGrow, EmptySeq
<1>6. /\ layer \in Layers /\ layer.mayUse = currentLayer.mayUse
      /\ layer.rest = IF dummy THEN <<>> ELSE Tail(currentLayer.rest)
      /\ dummy \/ e \in Updates \X Forests
  <2>1. currentLayer.rest \in Forests /\ currentLayer.mayUse \in Kinds \ {"self"}
    BY <1>3 DEF Layers
  <2>2. dummy \/ (e \in Updates \X Forests /\ Tail(currentLayer.rest) \in Forests)
    BY <2>1, ForestParts
  <2>3. layer = [rest |-> IF dummy THEN <<>> ELSE Tail(currentLayer.rest),
        mayUse |-> currentLayer.mayUse]
    <3> DEFINE c == currentLayer
               r == IF dummy THEN <<>> ELSE Tail(c.rest)
    <3>1. c = [rest |-> c.rest, mayUse |-> c.mayUse]
      BY <1>3 DEF Layers
    <3>2. layer = [c EXCEPT !.rest = r]
      OBVIOUS
    <3> HIDE DEF c, r, layer
    <3>3. layer = [rest |-> r, mayUse |-> c.mayUse]
      BY <3>1, <3>2
    <3> QED BY <3>3 DEF c, r
  <2> QED BY <1>5, <2>1, <2>2, <2>3 DEF Layers
<1>7. child \in Forests
  BY <1>5, <1>6
<1>8. pushed = (IF layer.rest # <<>> THEN <<layer>> \o unfinished ELSE unfinished)
  BY DEF PushUnfinished
<1>9. pushed \in Seq(Layers) /\ \A k \in 1..Len(pushed) : pushed[k].rest # <<>>
  <2> DEFINE l == layer
             ls == unfinished
             both == <<l>> \o ls
  <2>1. l \in Layers /\ ls \in Seq(Layers) /\ \A k \in 1..Len(ls) : ls[k].rest # <<>>
    BY <1>2, <1>3, <1>6 DEF NoEmptyLayers
  <2>2. pushed = IF l.rest # <<>> THEN <<l>> \o ls ELSE ls
    BY <1>8
  <2> HIDE DEF l, ls, pushed
  <2>3. /\ both \in Seq(Layers) /\ Len(both) = Len(ls) + 1 /\ both[1] = l
        /\ Len(ls) \in Nat /\ \A k \in 1..Len(both) :
           k = 1 \/ (k - 1 \in 1..Len(ls) /\ both[k] = ls[k - 1])
    BY <2>1
  <2>4. l.rest # <<>> => \A k \in 1..Len(both) : both[k].rest # <<>>
    BY <2>1, <2>3
  <2> QED BY <2>1, <2>2, <2>3, <2>4
<1> HIDE DEF pushed, child
\* What remains before and after the step.
<1>10. Visits(kind, <<>>, "inherit") = <<>> /\ Visits(kind, <<>>, "no") = <<>>
       /\ Visits(kind, child, "inherit") \in Seq(Updates)
  BY <1>3, <1>7, VisitsSteps, VisitsUnfolds DEF Kinds
<1>11. /\ currentLayer' \in Layers /\ unfinished' \in Seq(Layers) /\ NoEmptyLayers'
       /\ Remaining(kind, <<currentLayer'>> \o unfinished') = Visits(kind, child, "inherit")
          \o Remaining(kind, pushed)
       /\ currentLayer'.rest = <<>> \/ child # <<>> \/ pushed # <<>>
  <2>0. Remaining(kind, pushed) \in Seq(Updates)
    BY <1>3, <1>9, RemainingSteps
  <2>1. CASE child # <<>> /\ currentLayer' = Layer(child, "inherit") /\ unfinished' = pushed
    <3>1. currentLayer' \in Layers
          /\ LayerVisits(kind, currentLayer') = Visits(kind, child, "inherit")
          /\ currentLayer'.rest = child
      BY <1>7, <2>1 DEF Layer, Layers, Kinds, LayerVisits
    <3>2. RemainsFirst(kind, currentLayer', pushed)
      BY <1>3, <1>9, <3>1, RemainingSteps
    <3>3. NoEmptyLayers'
      BY <1>9, <2>1, <3>1 DEF NoEmptyLayers
    <3> QED BY <1>9, <2>1, <3>1, <3>2, <3>3 DEF RemainsFirst
  <2>2. CASE child = <<>> /\ pushed # <<>> /\ currentLayer' = Head(pushed)
             /\ unfinished' = Tail(pushed)
    <3> DEFINE ls == pushed
    <3>1. ls \in Seq(Layers) /\ ls # <<>> /\ \A k \in 1..Len(ls) : ls[k].rest # <<>>
      BY <1>9, <2>2
    <3> HIDE DEF ls
    <3>2. /\ Head(ls) \in Layers /\ Tail(ls) \in Seq(Layers) /\ <<Head(ls)>> \o Tail(ls) = ls
          /\ Head(ls) = ls[1] /\ 1 \in 1..Len(ls) /\ Len(ls) \in Nat /\ Len(Tail(ls)) = Len(ls) - 1
          /\ \A k \in 1..Len(Tail(ls)) : Tail(ls)[k] = ls[k + 1]
      BY <3>1
    <3>3. \A k \in 1..Len(Tail(ls)) : k + 1 \in 1..Len(ls)
      BY <3>2
    <3>4. NoEmptyLayers'
      BY <2>2, <3>1, <3>2, <3>3 DEF NoEmptyLayers, ls
    <3>5. Remaining(kind, <<currentLayer'>> \o unfinished') = Remaining(kind, pushed)
      BY <2>2, <3>2 DEF ls
    <3>6. Visits(kind, child, "inherit") \o Remaining(kind, pushed) = Remaining(kind, pushed)
      BY <1>10, <2>0, <2>2, ConcatEmptySeq
    <3> QED BY <2>2, <3>2, <3>4, <3>5, <3>6 DEF ls
  <2>3. CASE child = <<>> /\ pushed = <<>> /\ currentLayer' = Layer(<<>>, "no")
             /\ unfinished' = <<>>
    <3>1. currentLayer' \in Layers /\ LayerVisits(kind, currentLayer') = <<>>
          /\ currentLayer'.rest = <<>>
      BY <1>5, <1>10, <2>3 DEF Layer, Layers, Kinds, LayerVisits
    <3>2. RemainsFirst(kind, currentLayer', <<>>) /\ Remaining(kind, <<>>) = <<>>
      BY <1>3, <1>5, <3>1, RemainingSteps
    <3>3. NoEmptyLayers'
      BY <1>5, <2>3 DEF NoEmptyLayers
    <3> QED BY <1>5, <1>10, <2>3, <3>1, <3>2, <3>3 DEF RemainsFirst
  <2> QED BY <1>1, <2>1, <2>2, <2>3
<1>12. CASE dummy
  <2>1. unfinished = <<>> /\ layer.rest = <<>> /\ child = <<>> /\ visited' = visited
    BY <1>1, <1>2, <1>6, <1>12 DEF NoEmptyLayers, child
  <2>2. pushed = <<>>
    BY <1>8, <2>1
  <2>3. currentLayer'.rest = <<>>
    BY <1>11, <2>1, <2>2
  <2>4. Remaining(kind, <<currentLayer>> \o unfinished) = <<>>
    <3>1. LayerVisits(kind, currentLayer) = <<>>
      <4>1. currentLayer.mayUse \in Kinds
        BY <1>3 DEF Layers
      <4> QED BY <1>3, <1>12, <4>1, VisitsSteps DEF LayerVisits
    <3>2. RemainsFirst(kind, currentLayer, <<>>) /\ Remaining(kind, <<>>) = <<>>
      BY <1>3, <1>5, RemainingSteps
    <3> QED BY <1>5, <2>1, <3>1, <3>2, ConcatEmptySeq DEF RemainsFirst
  <2>5. Remaining(kind, <<currentLayer'>> \o unfinished') = <<>>
    <3>1. Remaining(kind, <<>>) = <<>>
      BY <1>3, RemainingSteps
    <3>2. <<>> \o <<>> = <<>>
      BY <1>5, ConcatEmptySeq
    <3> QED BY <1>10, <1>11, <2>1, <2>2, <3>1, <3>2
  <2>6. SeenAndRemaining'
    BY <1>2, <1>3, <2>1, <2>4, <2>5 DEF SeenAndRemaining
  <2>7. TokenTypeOK'
    BY <1>2, <1>3, <1>4, <1>11, <2>1 DEF TokenTypeOK
  <2> QED BY <1>1, <1>2, <1>3, <1>11, <2>3, <2>6, <2>7 DEF IterationInv
<1>13. CASE ~dummy
  <2> DEFINE v == visited
             x == e[1]
             more == Visits(kind, child, "inherit") \o Remaining(kind, pushed)
  <2>1. x \in Updates /\ visited' = Append(v, x) /\ v \in Seq(Updates)
    BY <1>1, <1>3, <1>6, <1>13
  <2>2. HeadVisited(kind, currentLayer, unfinished, child, pushed)
    <3> DEFINE l == layer
    <3>1. l \in Layers /\ l.rest = Tail(currentLayer.rest) /\ l.mayUse = currentLayer.mayUse
      BY <1>6, <1>13
    <3>2. currentLayer.mayUse # "self" /\ currentLayer.rest # <<>>
      BY <1>3, <1>13 DEF Layers
    <3>3. /\ kind[x] = currentLayer.mayUse => child = e[2]
          /\ kind[x] # currentLayer.mayUse => child = <<>>
      BY <1>6, <1>13, <3>2 DEF child, Skips
    <3>4. pushed = IF l.rest # <<>> THEN <<l>> \o unfinished ELSE unfinished
      BY <1>8
    <3> HIDE DEF l
    <3> QED BY <1>3, <1>7, <1>9, <3>1, <3>2, <3>3, <3>4, NextRemaining
  <2>3. Remaining(kind, <<currentLayer>> \o unfinished) = <<x>> \o more
    BY <2>2 DEF HeadVisited
  <2>4. more \in Seq(Updates) /\ Remaining(kind, <<currentLayer'>> \o unfinished') = more
    <3>1. Remaining(kind, pushed) \in Seq(Updates)
      BY <1>3, <1>9, RemainingSteps
    <3> QED BY <1>10, <1>11, <3>1, ConcatProperties
  <2> HIDE DEF v, x, more
  <2>5. Append(v, x) \o more = v \o (<<x>> \o more) /\ Append(v, x) \in Seq(Updates)
        /\ Len(Append(v, x)) = Len(v) + 1
    BY <2>1, <2>4
  <2>6. SeenAndRemaining'
    BY <1>2, <1>3, <2>1, <2>3, <2>4, <2>5 DEF SeenAndRemaining, v
  <2>7. TokenTypeOK'
    BY <1>2, <1>3, <1>4, <1>11, <2>1, <2>5 DEF TokenTypeOK
  <2>8. Len(visited') = step'
    BY <1>1, <1>2, <1>13, <2>1, <2>5 DEF v
  <2> QED BY <1>1, <1>2, <1>3, <1>11, <2>6, <2>7, <2>8 DEF IterationInv
<1> QED BY <1>12, <1>13

\* ... and when the contract asks whether it is finished.
LEMMA IterationInvFinished ==
  ASSUME IterationInv, AssertFinished
  PROVE  IterationInv'
BY DEF IterationInv, AssertFinished, TokenTypeOK, NoEmptyLayers, SeenAndRemaining, layoutVars

\* For any forest and any bound on its updates: what the iterator has visited and
\* what it still has on its stack make up what the contract must see.
THEOREM IterationInvHolds == TokenSpec => []IterationInv
<1>1. IterationInv /\ [TokenNext]_allVars => IterationInv'
  <2> SUFFICES ASSUME IterationInv, [TokenNext]_allVars PROVE IterationInv'
    OBVIOUS
  <2>1. CASE UNCHANGED allVars
    BY <2>1 DEF allVars, tokenVars, layoutVars, IterationInv, TokenTypeOK, NoEmptyLayers,
      SeenAndRemaining
  <2> QED BY <2>1, IterationInvLayout, IterationInvForEach, IterationInvNext,
      IterationInvFinished DEF TokenNext
<1> QED BY <1>1, IterationInvInit, PTL DEF TokenSpec

\* A token contract approves a forest only when it has seen, once and in order, all
\* updates that may use its token, and refuses it only if there are too many.
THEOREM ApprovesWhatItSawHolds == TokenSpec => []ApprovesWhatItSaw
<1>1. IterationInv => ApprovesWhatItSaw
  <2> SUFFICES ASSUME IterationInv PROVE ApprovesWhatItSaw
    OBVIOUS
  <2> DEFINE all == Visits(kind, calls.hash, "own")
             more == Remaining(kind, <<currentLayer>> \o unfinished)
             v == visited
  <2>1. CASE verdict = "none"
    BY <2>1 DEF ApprovesWhatItSaw
  <2>2. CASE verdict # "none"
    <3>1. /\ v \in Seq(Updates) /\ kind \in [Updates -> Kinds] /\ currentLayer \in Layers
          /\ unfinished \in Seq(Layers) /\ v \o more = all /\ MaxUpdates \in Nat
      BY <2>2, MaxUpdatesAssumption DEF IterationInv, TokenTypeOK, SeenAndRemaining
    <3>2. /\ RemainsFirst(kind, currentLayer, unfinished)
          /\ LayerVisits(kind, currentLayer) \in Seq(Updates)
          /\ Remaining(kind, unfinished) \in Seq(Updates)
      BY <3>1, RemainingSteps
    <3>3. more = LayerVisits(kind, currentLayer) \o Remaining(kind, unfinished)
      BY <3>2 DEF RemainsFirst
    <3>4. more \in Seq(Updates)
      BY <3>2, <3>3, ConcatProperties
    <3> HIDE DEF v, more, all
    <3>5. IsPrefix(v, all)
      BY <3>1, <3>4 DEF IsPrefix
    <3>6. ASSUME verdict = "approved" PROVE v = all
      <4>1. currentLayer.rest = <<>> /\ unfinished = <<>> /\ currentLayer.mayUse \in Kinds
        BY <3>1, <3>6 DEF IterationInv, NoEmptyLayers, Layers
      <4>2. LayerVisits(kind, currentLayer) = <<>> /\ Remaining(kind, unfinished) = <<>>
        BY <3>1, <4>1, VisitsSteps, RemainingSteps DEF LayerVisits
      <4>3. more = <<>>
        BY <3>2, <3>3, <4>2, ConcatEmptySeq
      <4> QED BY <3>1, <4>3, ConcatEmptySeq
    <3>7. ASSUME verdict = "exceeded" PROVE Len(all) > MaxUpdates
      <4>1. currentLayer.rest # <<>> /\ Len(v) = MaxUpdates
        BY <3>7 DEF IterationInv, v
      <4>2. /\ currentLayer.rest \in Forests /\ currentLayer.mayUse \in Kinds
            /\ Head(currentLayer.rest) \in Updates \X Forests /\ Tail(currentLayer.rest) \in Forests
        BY <3>1, <4>1, ForestParts DEF Layers
      <4>3. VisitsHead(kind, currentLayer.rest, currentLayer.mayUse)
        BY <3>1, <4>1, <4>2, VisitsSteps
      <4> DEFINE x == Head(currentLayer.rest)[1]
                 b == IF kind[x] = currentLayer.mayUse THEN Visits(kind,
                   Head(currentLayer.rest)[2], "inherit") ELSE <<>>
                 r == Visits(kind, Tail(currentLayer.rest), currentLayer.mayUse)
      <4>4. LayerVisits(kind, currentLayer) = (<<x>> \o b) \o r
        BY <4>3 DEF LayerVisits, VisitsHead, VisitsTree
      <4>5. x \in Updates /\ b \in Seq(Updates) /\ r \in Seq(Updates)
        BY <3>1, <4>2, VisitsUnfolds, EmptySeq DEF Kinds
      <4> HIDE DEF x, b, r
      <4>6. Len((<<x>> \o b) \o r) = 1 + Len(b) + Len(r) /\ Len(b) \in Nat /\ Len(r) \in Nat
        BY <4>5
      <4>7. Len(more) = Len(LayerVisits(kind, currentLayer)) + Len(Remaining(kind,
            unfinished)) /\ Len(Remaining(kind, unfinished)) \in Nat
        BY <3>2, <3>3, ConcatProperties, LenProperties
      <4>8. Len(all) = Len(v) + Len(more)
        BY <3>1, <3>4, ConcatProperties
      <4> QED BY <3>1, <4>1, <4>4, <4>6, <4>7, <4>8
    <3> QED BY <3>5, <3>6, <3>7 DEF ApprovesWhatItSaw, v, all
  <2> QED BY <2>1, <2>2
<1> QED BY <1>1, IterationInvHolds, PTL
=============================================================================
