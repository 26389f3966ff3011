------------------------- MODULE CompileCacheProofs -------------------------
(***************************************************************************)
(* Proofs about CompileCache: what a cache entry shared by processes holds,*)
(* whose key a compile is given and what compiles leave behind, for any    *)
(* number of compiles, processes, circuits, options and faults.            *)
(***************************************************************************)
EXTENDS CompileCache, FiniteSetTheorems, TLAPS

Places == {"new", "leave", "done", "conflict", "dead"} \cup Items
Ops == {"idle", "empty", "read", "header", "data", "dataOpen"}
StackEntries == {<<"default", 0>>} \cup {<<t, 1>> : t \in Compiles}

TypeOK ==
  /\ options \in [Compiles -> {"default", "Cache.None", "forceRecompile"}]
  /\ header \in [Entries -> Content] /\ data \in [Entries -> Content]
  /\ stack \in [Procs -> Seq(StackEntries)]
  /\ srsCache \in [Procs -> {"undefined", "none", "fs"}]
  /\ memory \in [Procs -> SUBSET Entries] /\ register \in [Procs -> BOOLEAN]
  /\ pc \in [Compiles -> Places] /\ op \in [Compiles -> Ops]
  /\ faults \in Nat
  /\ key \in [Compiles -> Content \cup {"nothing"}]
  /\ whole \in [Entries -> BOOLEAN] /\ clean \in [Compiles -> BOOLEAN]
  /\ replaced \subseteq Procs /\ asserted \subseteq Compiles

-----------------------------------------------------------------------------
(* The files *)

\* A file operation belongs to an item.
OpHasItem == \A t \in Compiles : op[t] # "idle" => pc[t] \in Items

\* An entry whose last write is complete is not being written.
WholeIsUnwritten == \A e \in Entries : whole[e] => WritersOf(e) = {}

\* A writer that nobody disturbed is alone and finds its own header.
CleanWriter ==
  \A t \in Compiles : op[t] \in {"data", "dataOpen"} /\ clean[t] =>
    WritersOf(Entry(t)) = {t} /\ header[Entry(t)] = UniqueId(t)

\* A reader that nobody disturbed finds the data of the header it has read.
CleanReader ==
  \A t \in Compiles : op[t] = "read" /\ clean[t] =>
    /\ WritersOf(Entry(t)) = {}
    /\ header[Entry(t)] = UniqueId(t) /\ data[Entry(t)] = UniqueId(t)

FilesInv == OpHasItem /\ WholeIsUnwritten /\ WholeEntriesMatch /\ CleanWriter /\ CleanReader

-----------------------------------------------------------------------------
(* The keys and the globals *)

\* Until a compile has passed its last item, its key is its own or not there.
KeyUntilLeave ==
  \A t \in Compiles : pc[t] \in {"new"} \cup Items => key[t] \in {VersionOf[t], "nothing"}

KeysInv == KeyUntilLeave /\ KeyIsOwn

Running(p) == {t \in Compiles : ProcOf[t] = p /\ InProgress(t)}

\* snarkContext has an entry for each running compile on top of its default.
StackDepth ==
  \A p \in Procs :
    /\ Len(stack[p]) = 1 + Cardinality(Running(p))
    /\ stack[p][1] = <<"default", 0>>

SrsUnset ==
  \A p \in Procs :
    (\A t \in Compiles : ProcOf[t] = p => ~InProgress(t) /\ pc[t] # "conflict")
      => srsCache[p] = "undefined"

\* The register is ahead of the memory of its process only once an empty SRS
\* was replaced.
BasisIsThere == \A p \in Procs : register[p] => "basis" \in memory[p] \/ p \in replaced

GlobalsInv == StackDepth /\ SrsUnset /\ BasisIsThere

Inv == TypeOK /\ FilesInv /\ KeysInv /\ GlobalsInv

-----------------------------------------------------------------------------
(* What the operators give *)

LEMMA ProcOfIsProc == \A t \in Compiles : ProcOf[t] \in Procs /\ VersionOf[t] \in Versions
BY DEF Procs, Versions

LEMMA UniqueIdIsContent ==
  ASSUME NEW t \in Compiles
  PROVE  /\ UniqueId(t) \in Content /\ VersionOf[t] \in Content
         /\ UniqueId(t) \notin {"absent", "torn"}
BY ProcOfIsProc, CompileAssumption DEF UniqueId, Content

LEMMA EntryIsEntry ==
  ASSUME NEW t \in Compiles, pc[t] \in Items
  PROVE  Entry(t) \in Entries
BY DEF Entry, Items, Entries

LEMMA NextItemIs ==
  /\ NextItem["srs"] = "basis" /\ NextItem["basis"] = "basisAgain"
  /\ NextItem["basisAgain"] = "key" /\ NextItem["key"] = "leave"
BY DEF NextItem, Items

\* Going on to the next item.
LEMMA AdvanceIs ==
  ASSUME TypeOK, NEW t \in Compiles, pc[t] \in Items, Advance(t)
  PROVE  /\ pc' \in [Compiles -> Places] /\ op' \in [Compiles -> Ops]
         /\ clean' \in [Compiles -> BOOLEAN]
         /\ \A u \in Compiles \ {t} : pc'[u] = pc[u] /\ op'[u] = op[u] /\ clean'[u] = clean[u]
         /\ op'[t] = "idle" /\ pc'[t] \in Items \cup {"leave"} /\ pc[t] # "conflict"
         /\ pc[t] = "key" => pc'[t] = "leave" /\ clean'[t] = clean[t]
<1>1. /\ pc \in [Compiles -> Places] /\ op \in [Compiles -> Ops]
      /\ clean \in [Compiles -> BOOLEAN]
  BY DEF TypeOK
<1>2. NextItem[pc[t]] \in Items \cup {"leave"} /\ (pc[t] = "key" => NextItem[pc[t]] = "leave")
  BY NextItemIs DEF Items
<1>3. /\ pc' = [pc EXCEPT ![t] = NextItem[pc[t]]]
      /\ op' = [op EXCEPT ![t] = "idle"]
  BY DEF Advance
<1>4. \/ clean' = clean
      \/ clean' = [clean EXCEPT ![t] = TRUE] /\ pc[t] # "key"
  BY DEF Advance
<1>5. pc' \in [Compiles -> Places] /\ pc'[t] = NextItem[pc[t]]
      /\ \A u \in Compiles \ {t} : pc'[u] = pc[u]
  BY <1>1, <1>2, <1>3 DEF Places
<1>6. /\ op' \in [Compiles -> Ops] /\ op'[t] = "idle"
      /\ \A u \in Compiles \ {t} : op'[u] = op[u]
  BY <1>1, <1>3 DEF Ops
<1>7. /\ clean' \in [Compiles -> BOOLEAN] /\ (pc[t] = "key" => clean'[t] = clean[t])
      /\ \A u \in Compiles \ {t} : clean'[u] = clean[u]
  BY <1>1, <1>4
<1>8. pc[t] # "conflict"
  BY DEF Items
<1> QED BY <1>2, <1>5, <1>6, <1>7, <1>8

\* What a compile got: its key, or the process's SRS or basis.
LEMMA ObtainIs ==
  ASSUME TypeOK, NEW t \in Compiles, pc[t] \in Items, NEW content \in Content, Obtain(t, content)
  PROVE  /\ key' \in [Compiles -> Content \cup {"nothing"}]
         /\ memory' \in [Procs -> SUBSET Entries]
         /\ \A u \in Compiles \ {t} : key'[u] = key[u]
         /\ pc[t] = "key" => key'[t] = content
         /\ pc[t] # "key" =>
              key' = key /\ (Entry(t) \in memory'[ProcOf[t]] \/ ProcOf[t] \in replaced)
         /\ \A p \in Procs : memory[p] \subseteq memory'[p]
<1>1. /\ key \in [Compiles -> Content \cup {"nothing"}]
      /\ memory \in [Procs -> SUBSET Entries] /\ ProcOf[t] \in Procs
  BY ProcOfIsProc DEF TypeOK
<1>2. CASE pc[t] = "key"
  <2>1. key' = [key EXCEPT ![t] = content] /\ UNCHANGED memory
    BY <1>2 DEF Obtain
  <2> QED BY <1>1, <1>2, <2>1
<1>3. CASE pc[t] # "key"
  <2>1. /\ UNCHANGED key
        /\ \/ memory' = [memory EXCEPT ![ProcOf[t]] = @ \cup {Entry(t)}]
           \/ ProcOf[t] \in replaced /\ UNCHANGED memory
    BY <1>3 DEF Obtain
  <2> QED BY <1>1, <1>3, <2>1, EntryIsEntry
<1> QED BY <1>2, <1>3

\* Computing an item: it is the compile's own, and is written or not.
LEMMA ComputeIs ==
  ASSUME TypeOK, NEW t \in Compiles, pc[t] \in Items, Compute(t)
  PROVE  /\ pc' \in [Compiles -> Places] /\ op' \in [Compiles -> Ops]
         /\ clean' \in [Compiles -> BOOLEAN]
         /\ key' \in [Compiles -> Content \cup {"nothing"}]
         /\ memory' \in [Procs -> SUBSET Entries]
         /\ \A u \in Compiles \ {t} :
              pc'[u] = pc[u] /\ op'[u] = op[u] /\ clean'[u] = clean[u] /\ key'[u] = key[u]
         /\ op'[t] \in {"header", "idle"} /\ pc'[t] \in Items \cup {"leave"}
         /\ op'[t] = "header" => pc'[t] \in Items
         /\ key'[t] \in {key[t], VersionOf[t]}
         /\ \A p \in Procs : memory[p] \subseteq memory'[p]
<1>1. /\ key' \in [Compiles -> Content \cup {"nothing"}]
      /\ memory' \in [Procs -> SUBSET Entries]
      /\ \A u \in Compiles \ {t} : key'[u] = key[u]
      /\ key'[t] \in {key[t], VersionOf[t]}
      /\ \A p \in Procs : memory[p] \subseteq memory'[p]
  <2>1. VersionOf[t] \in Content /\ Obtain(t, VersionOf[t])
    BY UniqueIdIsContent DEF Compute
  <2> QED BY <2>1, ObtainIs
<1>2. CASE CacheFor(t) = "fs"
  <2>1. op' = [op EXCEPT ![t] = "header"] /\ UNCHANGED <<pc, clean>>
    BY <1>2 DEF Compute
  <2> QED BY <1>1, <2>1 DEF TypeOK, Ops
<1>3. CASE CacheFor(t) # "fs"
  <2>1. Advance(t)
    BY <1>3 DEF Compute
  <2> QED BY <1>1, <2>1, AdvanceIs
<1> QED BY <1>2, <1>3

-----------------------------------------------------------------------------
(* What each part of the invariant depends on *)

\* Compiles that stop or have yet to write do no harm to the entries.
LEMMA FilesKept ==
  ASSUME FilesInv, UNCHANGED files,
         \A u \in Compiles : \/ op'[u] = op[u] /\ pc'[u] = pc[u] /\ (clean'[u] => clean[u])
                             \/ op'[u] = "idle"
                             \/ op'[u] \in {"header", "empty"} /\ pc'[u] \in Items
  PROVE  FilesInv'
<1> USE DEF FilesInv, files, Writing
<1>1. \A u \in Compiles : op'[u] \in {"data", "dataOpen", "read"} =>
        op[u] = op'[u] /\ pc'[u] = pc[u] /\ Entry(u)' = Entry(u) /\ UniqueId(u)' = UniqueId(u)
        /\ (clean'[u] => clean[u])
  BY DEF Entry, UniqueId
<1>2. \A e : WritersOf(e)' \subseteq WritersOf(e)
  BY <1>1 DEF WritersOf
<1>3. OpHasItem'
  BY DEF OpHasItem
<1>4. WholeIsUnwritten' /\ WholeEntriesMatch'
  BY <1>2 DEF WholeIsUnwritten, WholeEntriesMatch
<1>5. CleanReader'
  BY <1>1, <1>2 DEF CleanReader
<1>6. CleanWriter'
  <2> SUFFICES ASSUME NEW u \in Compiles, op'[u] \in {"data", "dataOpen"}, clean'[u]
               PROVE  (WritersOf(Entry(u)) = {u} /\ header[Entry(u)] = UniqueId(u))'
    BY DEF CleanWriter
  <2>1. WritersOf(Entry(u)) = {u} /\ header[Entry(u)] = UniqueId(u)
    BY <1>1 DEF CleanWriter
  <2>2. u \in WritersOf(Entry(u))'
    BY DEF WritersOf
  <2> QED BY <1>1, <1>2, <2>1, <2>2
<1> QED BY <1>3, <1>4, <1>5, <1>6

LEMMA KeysKept ==
  ASSUME KeysInv, UNCHANGED key,
         \A u \in Compiles : /\ pc'[u] \in {"new"} \cup Items => pc[u] \in {"new"} \cup Items
                             /\ clean'[u] => clean[u] \/ pc[u] \in Items
  PROVE  KeysInv'
BY DEF KeysInv, KeyUntilLeave, KeyIsOwn

LEMMA GlobalsKept ==
  ASSUME GlobalsInv, UNCHANGED <<stack, srsCache>>,
         \A u \in Compiles : /\ InProgress(u)' <=> InProgress(u)
                             /\ pc'[u] = "conflict" <=> pc[u] = "conflict",
         BasisIsThere'
  PROVE  GlobalsInv'
<1>1. \A p : Running(p)' = Running(p)
  BY DEF Running
<1> QED BY <1>1 DEF GlobalsInv, StackDepth, SrsUnset

LEMMA RunningIsFinite ==
  ASSUME NEW p
  PROVE  IsFiniteSet(Running(p)) /\ Cardinality(Running(p)) \in Nat
<1>1. Running(p) \subseteq Compiles
  BY DEF Running
<1> QED BY <1>1, CompileAssumption, FS_Subset, FS_CardinalityType

-----------------------------------------------------------------------------
(* The invariant and the steps *)

LEMMA InitInv == Init => Inv
<1> SUFFICES ASSUME Init PROVE Inv
  OBVIOUS
<1> USE DEF Init
<1>1. \A p \in Procs : stack[p] = Default /\ Len(Default) = 1 /\ Default[1] = <<"default", 0>>
                       /\ Default \in Seq(StackEntries)
  BY DEF Default, StackEntries
<1>2. TypeOK
  <2>1. options \in [Compiles -> {"default", "Cache.None", "forceRecompile"}]
    BY CompileAssumption
  <2>2. stack \in [Procs -> Seq(StackEntries)]
    BY <1>1
  <2>3. header \in [Entries -> Content] /\ data \in [Entries -> Content]
        /\ key \in [Compiles -> Content \cup {"nothing"}]
    BY DEF Content
  <2>4. pc \in [Compiles -> Places] /\ op \in [Compiles -> Ops] /\ faults \in Nat
    BY DEF Places, Ops
  <2>5. /\ srsCache \in [Procs -> {"undefined", "none", "fs"}]
        /\ memory \in [Procs -> SUBSET Entries] /\ register \in [Procs -> BOOLEAN]
        /\ whole \in [Entries -> BOOLEAN] /\ clean \in [Compiles -> BOOLEAN]
    OBVIOUS
  <2> QED BY <2>1, <2>2, <2>3, <2>4, <2>5 DEF TypeOK
<1>3. FilesInv
  BY DEF FilesInv, OpHasItem, WholeIsUnwritten, WholeEntriesMatch, CleanWriter, CleanReader,
         WritersOf, Writing
<1>4. KeysInv
  BY DEF KeysInv, KeyUntilLeave, KeyIsOwn
<1>5. GlobalsInv
  <2>1. \A p \in Procs : Running(p) = {}
    BY DEF Running, InProgress, Items
  <2>2. Cardinality({}) = 0
    BY FS_EmptySet
  <2>3. StackDepth
    <3> SUFFICES ASSUME NEW p \in Procs
                 PROVE  Len(stack[p]) = 1 + Cardinality(Running(p)) /\ stack[p][1] = <<"default", 0>>
      BY DEF StackDepth
    <3>1. Cardinality(Running(p)) = 0 /\ Len(stack[p]) = 1
      BY <1>1, <2>1, <2>2
    <3>2. stack[p][1] = <<"default", 0>>
      BY <1>1
    <3> QED BY <3>1, <3>2
  <2>4. SrsUnset /\ BasisIsThere
    BY DEF SrsUnset, BasisIsThere
  <2> QED BY <2>3, <2>4 DEF GlobalsInv
<1> QED BY <1>2, <1>3, <1>4, <1>5 DEF Inv

\* A compile that begins enters the context and sets the cache.
LEMMA BeginInv ==
  ASSUME Inv, NEW t \in Compiles, Begin(t)
  PROVE  Inv'
<1> DEFINE p == ProcOf[t]
<1>1. /\ pc[t] = "new" /\ op[t] = "idle" /\ p \in Procs
      /\ pc' = [pc EXCEPT ![t] = "srs"]
      /\ stack' = [stack EXCEPT ![p] = Append(@, <<t, 1>>)]
      /\ srsCache' = [srsCache EXCEPT ![p] = CacheOf(t)]
      /\ UNCHANGED <<faults, options, memory, register, op, key, clean, replaced, asserted, files>>
  BY ProcOfIsProc DEF Begin, Idle, Entered
<1> HIDE DEF p
<1>2. \A u \in Compiles : u # t => pc'[u] = pc[u]
  BY <1>1
<1>3. /\ pc \in [Compiles -> Places] /\ stack \in [Procs -> Seq(StackEntries)]
      /\ <<t, 1>> \in StackEntries /\ CacheOf(t) \in {"none", "fs"}
  BY DEF Inv, TypeOK, StackEntries, CacheOf
<1>4. /\ pc'[t] = "srs" /\ stack'[p] = Append(stack[p], <<t, 1>>)
      /\ \A q \in Procs : q # p => stack'[q] = stack[q] /\ srsCache'[q] = srsCache[q]
  BY <1>1, <1>3 DEF Inv, TypeOK
<1>5. TypeOK'
  <2>1. stack' \in [Procs -> Seq(StackEntries)] /\ pc' \in [Compiles -> Places]
    BY <1>1, <1>3 DEF Places, Items
  <2> QED BY <1>1, <1>3, <2>1 DEF Inv, TypeOK, files
<1>6. FilesInv'
  <2>1. \A u \in Compiles : op'[u] = op[u] /\ clean'[u] = clean[u]
                            /\ (u # t => pc'[u] = pc[u]) /\ op'[t] = "idle"
    BY <1>1, <1>2
  <2> QED BY <1>1, <2>1, FilesKept DEF Inv
<1>7. KeysInv'
  BY <1>1, <1>2, KeysKept DEF Inv
<1>8. GlobalsInv'
  <2>1. Running(p)' = Running(p) \cup {t} /\ t \notin Running(p)
    BY <1>1, <1>2, <1>4 DEF Running, InProgress, Items, p
  <2>2. \A q : q # p => Running(q)' = Running(q)
    BY <1>1, <1>2, <1>4 DEF Running, InProgress, p
  <2>3. Cardinality(Running(p)') = Cardinality(Running(p)) + 1
    BY <2>1, RunningIsFinite, FS_AddElement
  <2>4. Len(stack[p]) = 1 + Cardinality(Running(p)) /\ stack[p] \in Seq(StackEntries)
        /\ Cardinality(Running(p)) \in Nat /\ stack[p][1] = <<"default", 0>>
    BY <1>1, <1>3, RunningIsFinite DEF Inv, GlobalsInv, StackDepth
  <2>5. Len(stack'[p]) = Len(stack[p]) + 1 /\ stack'[p][1] = stack[p][1]
    BY <1>4, <2>4
  <2>6. StackDepth'
    <3> SUFFICES ASSUME NEW q \in Procs
                 PROVE  /\ Len(stack'[q]) = 1 + Cardinality(Running(q)')
                        /\ stack'[q][1] = <<"default", 0>>
      BY DEF StackDepth
    <3>1. CASE q = p
      BY <2>3, <2>4, <2>5, <3>1
    <3>2. CASE q # p
      BY <1>4, <2>2, <3>2 DEF Inv, GlobalsInv, StackDepth
    <3> QED BY <3>1, <3>2
  <2>7. SrsUnset'
    <3> SUFFICES ASSUME NEW q \in Procs,
                        \A u \in Compiles : ProcOf[u] = q => ~InProgress(u)' /\ pc'[u] # "conflict"
                 PROVE  srsCache'[q] = "undefined"
      BY DEF SrsUnset
    <3>1. InProgress(t)'
      BY <1>4 DEF InProgress, Items
    <3>2. q # p
      BY <3>1 DEF p
    <3>3. \A u \in Compiles : ProcOf[u] = q => u # t
      BY <3>2 DEF p
    <3>4. \A u \in Compiles : ProcOf[u] = q => ~InProgress(u) /\ pc[u] # "conflict"
      BY <1>2, <3>3 DEF InProgress
    <3> QED BY <1>4, <3>2, <3>4 DEF Inv, GlobalsInv, SrsUnset
  <2>8. BasisIsThere'
    BY <1>1 DEF Inv, GlobalsInv, BasisIsThere
  <2> QED BY <2>6, <2>7, <2>8 DEF GlobalsInv
<1> QED BY <1>5, <1>6, <1>7, <1>8 DEF Inv

LEMMA SkipInv ==
  ASSUME Inv, NEW t \in Compiles, Skip(t)
  PROVE  Inv'
<1>1. /\ pc[t] \in Items /\ op[t] = "idle" /\ ProcOf[t] \in Procs
      /\ pc' = [pc EXCEPT ![t] = NextItem[pc[t]]]
      /\ UNCHANGED <<faults, process, files, op, key, clean>>
  BY ProcOfIsProc DEF Skip, Idle
<1>2. NextItem[pc[t]] \in Items \cup {"leave"}
  BY <1>1, NextItemIs DEF Items
<1>3. /\ pc' \in [Compiles -> Places] /\ pc'[t] \in Items \cup {"leave"}
      /\ \A u \in Compiles : u # t => pc'[u] = pc[u]
  BY <1>1, <1>2 DEF Inv, TypeOK, Places
<1>4. TypeOK'
  BY <1>1, <1>3 DEF Inv, TypeOK, process, files
<1>5. FilesInv'
  <2>1. \A u \in Compiles : op'[u] = op[u] /\ clean'[u] = clean[u]
    BY <1>1
  <2> QED BY <1>1, <1>3, <2>1, FilesKept DEF Inv
<1>6. KeysInv'
  BY <1>1, <1>3, KeysKept DEF Inv
<1>7. GlobalsInv'
  <2>1. \A u \in Compiles : /\ InProgress(u)' <=> InProgress(u)
                            /\ pc'[u] = "conflict" <=> pc[u] = "conflict"
    BY <1>1, <1>3 DEF InProgress, Items
  <2>2. BasisIsThere' /\ UNCHANGED <<stack, srsCache>>
    BY <1>1 DEF process, Inv, GlobalsInv, BasisIsThere
  <2> QED BY <2>1, <2>2, GlobalsKept DEF Inv
<1> QED BY <1>4, <1>5, <1>6, <1>7 DEF Inv

\* An SRS without points is deleted; its process is marked.
LEMMA FindsEmptyInv ==
  ASSUME Inv, NEW t \in Compiles, FindsEmpty(t)
  PROVE  Inv'
<1>1. /\ pc[t] = "srs" /\ op[t] = "idle" /\ ProcOf[t] \in Procs /\ faults' = faults + 1
      /\ memory' = [memory EXCEPT ![ProcOf[t]] = {}]
      /\ op' = [op EXCEPT ![t] = "empty"]
      /\ replaced' = replaced \cup {ProcOf[t]}
      /\ UNCHANGED <<options, stack, srsCache, register, asserted, files, pc, key, clean>>
  BY ProcOfIsProc DEF FindsEmpty, Idle
<1>2. op' \in [Compiles -> Ops] /\ op'[t] = "empty" /\ \A u \in Compiles : u # t => op'[u] = op[u]
  BY <1>1 DEF Inv, TypeOK, Ops
<1>3. TypeOK'
  <2>1. memory' \in [Procs -> SUBSET Entries] /\ replaced' \subseteq Procs
    BY <1>1 DEF Inv, TypeOK
  <2> QED BY <1>1, <1>2, <2>1 DEF Inv, TypeOK, files
<1>4. FilesInv'
  <2>1. \A u \in Compiles : \/ op'[u] = op[u] /\ pc'[u] = pc[u] /\ (clean'[u] => clean[u])
                            \/ op'[u] \in {"header", "empty"} /\ pc'[u] \in Items
    BY <1>1, <1>2 DEF Items
  <2> QED BY <1>1, <2>1, FilesKept DEF Inv
<1>5. KeysInv'
  BY <1>1, KeysKept DEF Inv
<1>6. GlobalsInv'
  <2>1. BasisIsThere'
    BY <1>1 DEF Inv, TypeOK, GlobalsInv, BasisIsThere
  <2> QED BY <1>1, <2>1, GlobalsKept DEF Inv, InProgress
<1> QED BY <1>3, <1>4, <1>5, <1>6 DEF Inv

\* The assertion that fails ends its compile.
LEMMA AssertionFailsInv ==
  ASSUME Inv, NEW t \in Compiles, AssertionFails(t)
  PROVE  Inv'
<1>1. /\ pc[t] \in Items /\ op[t] = "idle"
      /\ pc' = [pc EXCEPT ![t] = "leave"]
      /\ asserted' = asserted \cup {t}
      /\ UNCHANGED <<faults, options, stack, srsCache, memory, register, replaced>>
      /\ UNCHANGED <<files, op, key, clean>>
  BY DEF AssertionFails, Registered, Idle, Items
<1>2. /\ pc' \in [Compiles -> Places] /\ pc'[t] = "leave"
      /\ \A u \in Compiles : u # t => pc'[u] = pc[u]
  BY <1>1 DEF Inv, TypeOK, Places
<1>3. TypeOK'
  BY <1>1, <1>2 DEF Inv, TypeOK, files
<1>4. FilesInv'
  <2>1. \A u \in Compiles : op'[u] = op[u] /\ clean'[u] = clean[u]
    BY <1>1
  <2> QED BY <1>1, <1>2, <2>1, FilesKept DEF Inv
<1>5. KeysInv'
  BY <1>1, <1>2, KeysKept DEF Inv
<1>6. GlobalsInv'
  <2>1. \A u \in Compiles : /\ InProgress(u)' <=> InProgress(u)
                            /\ pc'[u] = "conflict" <=> pc[u] = "conflict"
    BY <1>1, <1>2 DEF InProgress, Items
  <2>2. BasisIsThere'
    BY <1>1 DEF Inv, GlobalsInv, BasisIsThere
  <2> QED BY <1>1, <2>1, <2>2, GlobalsKept DEF Inv
<1> QED BY <1>3, <1>4, <1>5, <1>6 DEF Inv

\* A header that is read promises its data, if its write is complete.
LEMMA ReadHeaderInv ==
  ASSUME Inv, NEW t \in Compiles, ReadHeader(t)
  PROVE  Inv'
<1>1. /\ pc[t] \in Items /\ op[t] \in {"idle", "empty"} /\ header[Entry(t)] = UniqueId(t)
      /\ op' = [op EXCEPT ![t] = "read"]
      /\ clean' = [clean EXCEPT ![t] = whole[Entry(t)]]
      /\ UNCHANGED <<faults, process, files, pc, key>>
  BY DEF ReadHeader, MayLoad, Idle, Hits
<1>2. /\ op \in [Compiles -> Ops] /\ clean \in [Compiles -> BOOLEAN]
      /\ Entry(t) \in Entries /\ whole[Entry(t)] \in BOOLEAN
  BY <1>1, EntryIsEntry DEF Inv, TypeOK
<1>3. TypeOK'
  BY <1>1, <1>2 DEF Inv, TypeOK, process, files, Ops
<1>4. /\ op'[t] = "read" /\ clean'[t] = whole[Entry(t)]
      /\ \A u \in Compiles : u # t => op'[u] = op[u] /\ clean'[u] = clean[u]
      /\ \A u \in Compiles : Entry(u)' = Entry(u) /\ UniqueId(u)' = UniqueId(u)
  BY <1>1, <1>2 DEF Entry, UniqueId
<1>5. \A e : WritersOf(e)' = WritersOf(e)
  BY <1>1, <1>4 DEF WritersOf, Writing
<1>6. FilesInv'
  <2> USE DEF Inv, FilesInv, files
  <2>1. OpHasItem'
    BY <1>1, <1>4 DEF OpHasItem
  <2>2. WholeIsUnwritten' /\ WholeEntriesMatch'
    BY <1>1, <1>5 DEF WholeIsUnwritten, WholeEntriesMatch
  <2>3. CleanWriter'
    BY <1>1, <1>4, <1>5 DEF CleanWriter
  <2>4. CleanReader'
    BY <1>1, <1>2, <1>4, <1>5 DEF CleanReader, WholeIsUnwritten, WholeEntriesMatch
  <2> QED BY <2>1, <2>2, <2>3, <2>4
<1>7. KeysInv'
  BY <1>1, <1>4, KeysKept DEF Inv
<1>8. GlobalsInv'
  <2>1. BasisIsThere' /\ UNCHANGED <<stack, srsCache>>
    BY <1>1 DEF process, Inv, GlobalsInv, BasisIsThere
  <2> QED BY <1>1, <2>1, GlobalsKept DEF Inv, InProgress
<1> QED BY <1>3, <1>6, <1>7, <1>8 DEF Inv

\* Whoever computes an item has its own.
LEMMA MissInv ==
  ASSUME Inv, NEW t \in Compiles, Miss(t)
  PROVE  Inv'
<1>1. /\ pc[t] \in Items /\ Compute(t)
      /\ UNCHANGED <<faults, options, stack, srsCache, register, replaced, asserted, files>>
  BY DEF Miss, MayLoad
<1>2. /\ pc' \in [Compiles -> Places] /\ op' \in [Compiles -> Ops]
      /\ clean' \in [Compiles -> BOOLEAN]
      /\ key' \in [Compiles -> Content \cup {"nothing"}]
      /\ memory' \in [Procs -> SUBSET Entries]
      /\ \A u \in Compiles \ {t} :
           pc'[u] = pc[u] /\ op'[u] = op[u] /\ clean'[u] = clean[u] /\ key'[u] = key[u]
      /\ op'[t] \in {"header", "idle"} /\ pc'[t] \in Items \cup {"leave"}
      /\ op'[t] = "header" => pc'[t] \in Items
      /\ key'[t] \in {key[t], VersionOf[t]}
      /\ \A p \in Procs : memory[p] \subseteq memory'[p]
  BY <1>1, ComputeIs DEF Inv
<1>3. TypeOK'
  BY <1>1, <1>2 DEF Inv, TypeOK, files
<1>4. FilesInv'
  BY <1>1, <1>2, FilesKept DEF Inv
<1>5. KeysInv'
  BY <1>1, <1>2 DEF Inv, KeysInv, KeyUntilLeave, KeyIsOwn
<1>6. GlobalsInv'
  <2>1. BasisIsThere'
    BY <1>1, <1>2 DEF Inv, GlobalsInv, BasisIsThere
  <2>2. \A u \in Compiles : /\ InProgress(u)' <=> InProgress(u)
                            /\ pc'[u] = "conflict" <=> pc[u] = "conflict"
    BY <1>1, <1>2 DEF InProgress, Items
  <2> QED BY <1>1, <2>1, <2>2, GlobalsKept DEF Inv
<1> QED BY <1>3, <1>4, <1>5, <1>6 DEF Inv

\* What is read is what the header promised, or was disturbed.
LEMMA ReadDataInv ==
  ASSUME Inv, NEW t \in Compiles, ReadData(t)
  PROVE  Inv'
<1>1. /\ op[t] = "read" /\ pc[t] \in Items
      /\ UNCHANGED <<faults, options, stack, srsCache, replaced, asserted, files>>
      /\ Entry(t) \in Entries /\ data[Entry(t)] \in Content
  BY EntryIsEntry DEF ReadData, Inv, FilesInv, OpHasItem, TypeOK
<1>2. CASE ~Decodes(Entry(t))
  <2>1. Compute(t) /\ UNCHANGED register
    BY <1>2 DEF ReadData
  <2>2. /\ pc' \in [Compiles -> Places] /\ op' \in [Compiles -> Ops]
        /\ clean' \in [Compiles -> BOOLEAN]
        /\ key' \in [Compiles -> Content \cup {"nothing"}]
        /\ memory' \in [Procs -> SUBSET Entries]
        /\ \A u \in Compiles \ {t} :
             pc'[u] = pc[u] /\ op'[u] = op[u] /\ clean'[u] = clean[u] /\ key'[u] = key[u]
        /\ op'[t] \in {"header", "idle"} /\ pc'[t] \in Items \cup {"leave"}
        /\ op'[t] = "header" => pc'[t] \in Items
        /\ key'[t] \in {key[t], VersionOf[t]}
        /\ \A p \in Procs : memory[p] \subseteq memory'[p]
    BY <1>1, <2>1, ComputeIs DEF Inv
  <2>3. TypeOK'
    BY <1>1, <2>1, <2>2 DEF Inv, TypeOK, files
  <2>4. FilesInv'
    BY <1>1, <2>2, FilesKept DEF Inv
  <2>5. KeysInv'
    BY <1>1, <2>2 DEF Inv, KeysInv, KeyUntilLeave, KeyIsOwn
  <2>6. GlobalsInv'
    <3>1. BasisIsThere'
      BY <1>1, <2>1, <2>2 DEF Inv, GlobalsInv, BasisIsThere
    <3>2. \A u \in Compiles : /\ InProgress(u)' <=> InProgress(u)
                              /\ pc'[u] = "conflict" <=> pc[u] = "conflict"
      BY <1>1, <2>2 DEF InProgress, Items
    <3> QED BY <1>1, <3>1, <3>2, GlobalsKept DEF Inv
  <2> QED BY <2>3, <2>4, <2>5, <2>6 DEF Inv
<1>3. CASE Decodes(Entry(t))
  <2>1. Obtain(t, data[Entry(t)]) /\ Advance(t)
    BY <1>3 DEF ReadData
  <2>2. register' = IF SetsRegister(t) THEN [register EXCEPT ![ProcOf[t]] = TRUE] ELSE register
    BY <1>3 DEF ReadData
  <2>3. /\ key' \in [Compiles -> Content \cup {"nothing"}]
        /\ memory' \in [Procs -> SUBSET Entries]
        /\ \A u \in Compiles \ {t} : key'[u] = key[u]
        /\ pc[t] = "key" => key'[t] = data[Entry(t)]
        /\ pc[t] # "key" =>
             key' = key /\ (Entry(t) \in memory'[ProcOf[t]] \/ ProcOf[t] \in replaced)
        /\ \A p \in Procs : memory[p] \subseteq memory'[p]
    BY <1>1, <2>1, ObtainIs DEF Inv
  <2>4. /\ pc' \in [Compiles -> Places] /\ op' \in [Compiles -> Ops]
        /\ clean' \in [Compiles -> BOOLEAN]
        /\ \A u \in Compiles \ {t} : pc'[u] = pc[u] /\ op'[u] = op[u] /\ clean'[u] = clean[u]
        /\ op'[t] = "idle" /\ pc'[t] \in Items \cup {"leave"}
        /\ pc[t] = "key" => pc'[t] = "leave" /\ clean'[t] = clean[t]
    BY <1>1, <2>1, AdvanceIs DEF Inv
  <2>5. TypeOK'
    <3>1. register' \in [Procs -> BOOLEAN]
      BY <2>2 DEF Inv, TypeOK
    <3> QED BY <1>1, <2>3, <2>4, <3>1 DEF Inv, TypeOK, files
  <2>6. FilesInv'
    BY <1>1, <2>4, FilesKept DEF Inv
  <2>7. KeysInv'
    <3>1. CASE pc[t] = "key"
      <4>1. clean'[t] => key'[t] = VersionOf[t]
        BY <1>1, <2>3, <2>4, <3>1 DEF Inv, FilesInv, CleanReader, UniqueId
      <4>2. KeyIsOwn'
        BY <2>3, <2>4, <4>1 DEF Inv, KeysInv, KeyIsOwn
      <4>3. KeyUntilLeave'
        BY <2>3, <2>4, <3>1 DEF Inv, KeysInv, KeyUntilLeave, Items
      <4> QED BY <4>2, <4>3 DEF KeysInv
    <3>2. CASE pc[t] # "key"
      BY <1>1, <2>3, <2>4, <3>2, KeysKept DEF Inv
    <3> QED BY <3>1, <3>2
  <2>8. GlobalsInv'
    <3>1. BasisIsThere'
      <4> SUFFICES ASSUME NEW p \in Procs, register'[p]
                   PROVE  "basis" \in memory'[p] \/ p \in replaced
        BY <1>1 DEF BasisIsThere
      <4>1. CASE register[p]
        BY <2>3, <4>1 DEF Inv, GlobalsInv, BasisIsThere
      <4>2. CASE ~register[p]
        <5>1. SetsRegister(t) /\ p = ProcOf[t]
          BY <2>2, <4>2 DEF Inv, TypeOK
        <5> QED BY <2>3, <5>1 DEF SetsRegister, Entry
      <4> QED BY <4>1, <4>2
    <3>2. \A u \in Compiles : /\ InProgress(u)' <=> InProgress(u)
                              /\ pc'[u] = "conflict" <=> pc[u] = "conflict"
      BY <1>1, <2>4 DEF InProgress, Items
    <3> QED BY <1>1, <3>1, <3>2, GlobalsKept DEF Inv
  <2> QED BY <2>5, <2>6, <2>7, <2>8 DEF Inv
<1> QED BY <1>2, <1>3

\* The three steps of a write leave the globals and the keys alone.
LEMMA WriteKeepsRest ==
  ASSUME Inv, UNCHANGED <<process, key>>,
         \A u \in Compiles : clean'[u] => clean[u] \/ pc[u] \in Items,
         \A u \in Compiles : pc'[u] = pc[u] \/ (pc[u] \in Items /\ pc'[u] \in Items \cup {"leave"})
  PROVE  KeysInv' /\ GlobalsInv'
<1>1. KeysInv'
  BY KeysKept DEF Inv
<1>2. BasisIsThere' /\ UNCHANGED <<stack, srsCache>>
  BY DEF process, Inv, GlobalsInv, BasisIsThere
<1>3. \A u \in Compiles : /\ InProgress(u)' <=> InProgress(u)
                          /\ pc'[u] = "conflict" <=> pc[u] = "conflict"
  BY DEF InProgress, Items
<1> QED BY <1>1, <1>2, <1>3, GlobalsKept DEF Inv

\* A write that starts disturbs whoever reads or writes the entry.
LEMMA WriteHeaderInv ==
  ASSUME Inv, NEW t \in Compiles, WriteHeader(t)
  PROVE  Inv'
<1> DEFINE e == Entry(t)
<1>1. /\ op[t] = "header" /\ pc[t] \in Items /\ e \in Entries
      /\ header' = [header EXCEPT ![e] = UniqueId(t)]
      /\ whole' = [whole EXCEPT ![e] = FALSE]
      /\ clean' = [u \in Compiles |->
           IF u = t THEN WritersOf(e) \subseteq {t}
           ELSE clean[u] /\ ~(op[u] # "idle" /\ Entry(u) = e)]
      /\ op' = [op EXCEPT ![t] = "data"]
      /\ UNCHANGED <<faults, process, data, pc, key>>
  BY EntryIsEntry DEF WriteHeader, HeaderWritten, Inv, FilesInv, OpHasItem
<1> HIDE DEF e
<1>2. /\ op \in [Compiles -> Ops] /\ header \in [Entries -> Content]
      /\ whole \in [Entries -> BOOLEAN] /\ clean \in [Compiles -> BOOLEAN]
  BY DEF Inv, TypeOK
<1>3. TypeOK'
  <2>1. header' \in [Entries -> Content]
    BY <1>1, <1>2, UniqueIdIsContent
  <2>2. clean' \in [Compiles -> BOOLEAN]
    BY <1>1, <1>2
  <2>3. op' \in [Compiles -> Ops] /\ whole' \in [Entries -> BOOLEAN]
    BY <1>1, <1>2 DEF Ops
  <2> QED BY <1>1, <2>1, <2>2, <2>3 DEF Inv, TypeOK, process
<1>4. /\ op'[t] = "data" /\ header'[e] = UniqueId(t) /\ ~whole'[e]
      /\ clean'[t] => WritersOf(e) \subseteq {t}
      /\ \A u \in Compiles : u # t => op'[u] = op[u]
      /\ \A u \in Compiles : u # t /\ clean'[u] => clean[u] /\ ~(op[u] # "idle" /\ Entry(u) = e)
      /\ \A f \in Entries : f # e => header'[f] = header[f] /\ whole'[f] = whole[f]
      /\ \A u \in Compiles : Entry(u)' = Entry(u) /\ UniqueId(u)' = UniqueId(u)
  BY <1>1, <1>2 DEF Entry, UniqueId
<1>5. WritersOf(e)' = WritersOf(e) \cup {t} /\ \A f : f # e => WritersOf(f)' = WritersOf(f)
  BY <1>1, <1>4 DEF WritersOf, Writing, e
<1>6. FilesInv'
  <2> USE DEF Inv, FilesInv
  <2>1. OpHasItem'
    BY <1>1, <1>4 DEF OpHasItem
  <2>2. WholeIsUnwritten' /\ WholeEntriesMatch'
    BY <1>1, <1>4, <1>5 DEF WholeIsUnwritten, WholeEntriesMatch
  <2>3. CleanWriter'
    <3> SUFFICES ASSUME NEW u \in Compiles, op'[u] \in {"data", "dataOpen"}, clean'[u]
                 PROVE  (WritersOf(Entry(u)) = {u} /\ header[Entry(u)] = UniqueId(u))'
      BY DEF CleanWriter
    <3>1. CASE u = t
      BY <1>4, <1>5, <3>1 DEF e
    <3>2. CASE u # t
      <4>1. op[u] \in {"data", "dataOpen"} /\ clean[u] /\ Entry(u) # e
        BY <1>4, <3>2
      <4>2. Entry(u) \in Entries
        BY <4>1, EntryIsEntry DEF OpHasItem
      <4> QED BY <1>4, <1>5, <4>1, <4>2 DEF CleanWriter
    <3> QED BY <3>1, <3>2
  <2>4. CleanReader'
    <3> SUFFICES ASSUME NEW u \in Compiles, op'[u] = "read", clean'[u]
                 PROVE  (/\ WritersOf(Entry(u)) = {} /\ header[Entry(u)] = UniqueId(u)
                         /\ data[Entry(u)] = UniqueId(u))'
      BY DEF CleanReader
    <3>1. u # t /\ op[u] = "read" /\ clean[u] /\ Entry(u) # e
      BY <1>4
    <3>2. Entry(u) \in Entries
      BY <3>1, EntryIsEntry DEF OpHasItem
    <3> QED BY <1>1, <1>4, <1>5, <3>1, <3>2 DEF CleanReader
  <2> QED BY <2>1, <2>2, <2>3, <2>4
<1>7. KeysInv' /\ GlobalsInv'
  BY <1>1, <1>4, WriteKeepsRest
<1> QED BY <1>3, <1>6, <1>7 DEF Inv

\* The data file is emptied: nobody undisturbed is reading it.
LEMMA OpenDataInv ==
  ASSUME Inv, NEW t \in Compiles, OpenData(t)
  PROVE  Inv'
<1> DEFINE e == Entry(t)
<1>1. /\ op[t] = "data" /\ pc[t] \in Items /\ e \in Entries
      /\ data' = [data EXCEPT ![e] = "torn"]
      /\ op' = [op EXCEPT ![t] = "dataOpen"]
      /\ UNCHANGED <<faults, process, header, whole, pc, key, clean>>
  BY EntryIsEntry DEF OpenData, Inv, FilesInv, OpHasItem
<1> HIDE DEF e
<1>2. TypeOK'
  <2>1. data' \in [Entries -> Content] /\ op' \in [Compiles -> Ops]
    BY <1>1 DEF Inv, TypeOK, Content, Ops
  <2> QED BY <1>1, <2>1 DEF Inv, TypeOK, process
<1>3. /\ op'[t] = "dataOpen" /\ \A u \in Compiles : u # t => op'[u] = op[u]
      /\ \A f \in Entries : f # e => data'[f] = data[f]
      /\ \A u \in Compiles : Entry(u)' = Entry(u) /\ UniqueId(u)' = UniqueId(u)
  BY <1>1 DEF Inv, TypeOK, Entry, UniqueId
<1>4. (\A f : WritersOf(f)' = WritersOf(f)) /\ t \in WritersOf(e)
  BY <1>1, <1>3 DEF WritersOf, Writing, e
<1>5. FilesInv'
  <2> USE DEF Inv, FilesInv
  <2>1. OpHasItem'
    BY <1>1, <1>3 DEF OpHasItem
  <2>2. ~whole[e]
    BY <1>1, <1>4 DEF WholeIsUnwritten
  <2>3. WholeIsUnwritten' /\ WholeEntriesMatch'
    BY <1>1, <1>3, <1>4, <2>2 DEF WholeIsUnwritten, WholeEntriesMatch
  <2>4. CleanWriter'
    BY <1>1, <1>3, <1>4 DEF CleanWriter
  <2>5. CleanReader'
    <3> SUFFICES ASSUME NEW u \in Compiles, op'[u] = "read", clean'[u]
                 PROVE  (/\ WritersOf(Entry(u)) = {} /\ header[Entry(u)] = UniqueId(u)
                         /\ data[Entry(u)] = UniqueId(u))'
      BY DEF CleanReader
    <3>1. u # t /\ op[u] = "read" /\ clean[u]
      BY <1>1, <1>3
    <3>2. WritersOf(Entry(u)) = {} /\ Entry(u) # e /\ Entry(u) \in Entries
      BY <1>4, <3>1, EntryIsEntry DEF CleanReader, OpHasItem
    <3> QED BY <1>1, <1>3, <1>4, <3>1, <3>2 DEF CleanReader
  <2> QED BY <2>1, <2>3, <2>4, <2>5
<1>6. KeysInv' /\ GlobalsInv'
  BY <1>1, WriteKeepsRest
<1> QED BY <1>2, <1>5, <1>6 DEF Inv

\* The data of a writer that nobody disturbed goes to its own header.
LEMMA FillDataInv ==
  ASSUME Inv, NEW t \in Compiles, FillData(t)
  PROVE  Inv'
<1> PICK e \in Entries : e = Entry(t)
  BY EntryIsEntry DEF FillData, Inv, FilesInv, OpHasItem
<1>1. /\ op[t] = "dataOpen" /\ pc[t] \in Items
      /\ data' = [data EXCEPT ![e] = UniqueId(t)]
      /\ whole' = [whole EXCEPT ![e] = clean[t]]
      /\ Advance(t)
      /\ UNCHANGED <<faults, process, header, key>>
  BY EntryIsEntry DEF FillData, Inv, FilesInv, OpHasItem
<1>2. /\ pc' \in [Compiles -> Places] /\ op' \in [Compiles -> Ops]
      /\ clean' \in [Compiles -> BOOLEAN]
      /\ \A u \in Compiles \ {t} : pc'[u] = pc[u] /\ op'[u] = op[u] /\ clean'[u] = clean[u]
      /\ op'[t] = "idle" /\ pc'[t] \in Items \cup {"leave"}
      /\ pc[t] = "key" => clean'[t] = clean[t]
  BY <1>1, AdvanceIs DEF Inv
<1>3. TypeOK'
  <2>1. data' \in [Entries -> Content] /\ whole' \in [Entries -> BOOLEAN]
    BY <1>1, UniqueIdIsContent DEF Inv, TypeOK
  <2> QED BY <1>1, <1>2, <2>1 DEF Inv, TypeOK, process
<1>4. /\ data'[e] = UniqueId(t) /\ (whole'[e] <=> clean[t])
      /\ \A f \in Entries : f # e => data'[f] = data[f] /\ whole'[f] = whole[f]
      /\ \A u \in Compiles : u # t => Entry(u)' = Entry(u) /\ UniqueId(u)' = UniqueId(u)
  BY <1>1, <1>2 DEF Inv, TypeOK, Entry, UniqueId
<1>5. /\ t \in WritersOf(e) /\ WritersOf(e)' = WritersOf(e) \ {t}
      /\ \A f : f # e => WritersOf(f)' = WritersOf(f)
  BY <1>1, <1>2, <1>4 DEF WritersOf, Writing
<1>6. FilesInv'
  <2> USE DEF Inv, FilesInv
  <2>1. OpHasItem'
    BY <1>2 DEF OpHasItem
  <2>2. clean[t] => WritersOf(e) = {t} /\ header[e] = UniqueId(t)
    BY <1>1 DEF CleanWriter
  <2>3. WholeIsUnwritten' /\ WholeEntriesMatch'
    BY <1>1, <1>4, <1>5, <2>2 DEF WholeIsUnwritten, WholeEntriesMatch
  <2>4. CleanWriter'
    <3> SUFFICES ASSUME NEW u \in Compiles, op'[u] \in {"data", "dataOpen"}, clean'[u]
                 PROVE  (WritersOf(Entry(u)) = {u} /\ header[Entry(u)] = UniqueId(u))'
      BY DEF CleanWriter
    <3>1. u # t /\ op[u] = op'[u] /\ clean[u]
      BY <1>2
    <3>2. WritersOf(Entry(u)) = {u} /\ header[Entry(u)] = UniqueId(u)
      BY <3>1 DEF CleanWriter
    <3>3. Entry(u) # e
      BY <1>5, <3>1, <3>2
    <3> QED BY <1>1, <1>4, <1>5, <3>1, <3>2, <3>3
  <2>5. CleanReader'
    <3> SUFFICES ASSUME NEW u \in Compiles, op'[u] = "read", clean'[u]
                 PROVE  (/\ WritersOf(Entry(u)) = {} /\ header[Entry(u)] = UniqueId(u)
                         /\ data[Entry(u)] = UniqueId(u))'
      BY DEF CleanReader
    <3>1. u # t /\ op[u] = "read" /\ clean[u]
      BY <1>2
    <3>2. WritersOf(Entry(u)) = {} /\ Entry(u) # e /\ Entry(u) \in Entries
      BY <1>5, <3>1, EntryIsEntry DEF CleanReader, OpHasItem
    <3> QED BY <1>1, <1>4, <1>5, <3>1, <3>2 DEF CleanReader
  <2> QED BY <2>1, <2>3, <2>4, <2>5
<1>7. KeysInv' /\ GlobalsInv'
  <2>1. \A u \in Compiles : clean'[u] => clean[u] \/ pc[u] \in Items
    BY <1>1, <1>2
  <2>2. \A u \in Compiles : pc'[u] = pc[u] \/ (pc[u] \in Items /\ pc'[u] \in Items \cup {"leave"})
    BY <1>1, <1>2
  <2> QED BY <1>1, <2>1, <2>2, WriteKeepsRest
<1> QED BY <1>3, <1>6, <1>7 DEF Inv

\* A write that fails leaves an entry that is not whole.
LEMMA WriteFailsInv ==
  ASSUME Inv, NEW t \in Compiles, WriteFails(t)
  PROVE  Inv'
<1>1. /\ op[t] \in Writing /\ pc[t] \in Items /\ Advance(t) /\ faults' = faults + 1
      /\ UNCHANGED <<process, files, key>>
  BY DEF WriteFails, Writing, Inv, FilesInv, OpHasItem
<1>2. /\ pc' \in [Compiles -> Places] /\ op' \in [Compiles -> Ops]
      /\ clean' \in [Compiles -> BOOLEAN]
      /\ \A u \in Compiles \ {t} : pc'[u] = pc[u] /\ op'[u] = op[u] /\ clean'[u] = clean[u]
      /\ op'[t] = "idle" /\ pc'[t] \in Items \cup {"leave"}
  BY <1>1, AdvanceIs DEF Inv
<1>3. TypeOK'
  BY <1>1, <1>2 DEF Inv, TypeOK, process, files
<1>4. FilesInv'
  BY <1>1, <1>2, FilesKept DEF Inv
<1>5. KeysInv' /\ GlobalsInv'
  <2>1. \A u \in Compiles : clean'[u] => clean[u] \/ pc[u] \in Items
    BY <1>1, <1>2
  <2>2. \A u \in Compiles : pc'[u] = pc[u] \/ (pc[u] \in Items /\ pc'[u] \in Items \cup {"leave"})
    BY <1>1, <1>2
  <2> QED BY <1>1, <2>1, <2>2, WriteKeepsRest
<1> QED BY <1>3, <1>4, <1>5 DEF Inv

LEMMA ThrowsInv ==
  ASSUME Inv, NEW t \in Compiles, Throws(t)
  PROVE  Inv'
<1>1. /\ op[t] = "idle" /\ pc[t] \in Items /\ faults' = faults + 1
      /\ pc' = [pc EXCEPT ![t] = "leave"]
      /\ UNCHANGED <<process, files, op, key, clean>>
  BY DEF Throws, Idle
<1>2. /\ pc' \in [Compiles -> Places] /\ pc'[t] = "leave"
      /\ \A u \in Compiles : u # t => pc'[u] = pc[u]
  BY <1>1 DEF Inv, TypeOK, Places
<1>3. TypeOK'
  BY <1>1, <1>2 DEF Inv, TypeOK, process, files
<1>4. FilesInv'
  <2>1. \A u \in Compiles : op'[u] = op[u] /\ clean'[u] = clean[u]
    BY <1>1
  <2> QED BY <1>1, <1>2, <2>1, FilesKept DEF Inv
<1>5. KeysInv' /\ GlobalsInv'
  BY <1>1, <1>2, WriteKeepsRest
<1> QED BY <1>3, <1>4, <1>5 DEF Inv

\* Leaving pops one entry of the context, in conflict or not.
LEMMA LeaveInv ==
  ASSUME Inv, NEW t \in Compiles, Leave(t)
  PROVE  Inv'
<1> PICK p \in Procs : p = ProcOf[t]
  BY ProcOfIsProc
<1>1. /\ pc[t] = "leave" /\ op[t] = "idle"
      /\ stack' = [stack EXCEPT ![p] = Left(@, <<t, 1>>)]
      /\ UNCHANGED <<faults, options, memory, register, replaced, asserted, files, op, key, clean>>
      /\ \/ pc' = [pc EXCEPT ![t] = "conflict"] /\ UNCHANGED srsCache
         \/ pc' = [pc EXCEPT ![t] = "done"] /\ srsCache' = [srsCache EXCEPT ![p] = "undefined"]
  BY DEF Leave, Idle, Unset
<1>2. /\ pc' \in [Compiles -> Places] /\ pc'[t] \in {"conflict", "done"}
      /\ \A u \in Compiles : u # t => pc'[u] = pc[u]
  BY <1>1 DEF Inv, TypeOK, Places
<1>3. t \in Running(p) /\ Cardinality(Running(p)) # 0 /\ Cardinality(Running(p)) \in Nat
  <2>1. t \in Running(p)
    BY <1>1 DEF Running, InProgress
  <2> QED BY <2>1, RunningIsFinite, FS_EmptySet
<1>4. /\ stack[p] \in Seq(StackEntries) /\ Len(stack[p]) = 1 + Cardinality(Running(p))
      /\ stack[p][1] = <<"default", 0>>
  BY DEF Inv, TypeOK, GlobalsInv, StackDepth
<1>5. /\ Left(stack[p], <<t, 1>>) \in Seq(StackEntries)
      /\ Len(Left(stack[p], <<t, 1>>)) = Len(stack[p]) - 1
      /\ Left(stack[p], <<t, 1>>)[1] = <<"default", 0>>
  BY <1>3, <1>4 DEF Left
<1>6. stack'[p] = Left(stack[p], <<t, 1>>) /\ \A q \in Procs : q # p => stack'[q] = stack[q]
  BY <1>1 DEF Inv, TypeOK
<1>7. TypeOK'
  <2>1. stack' \in [Procs -> Seq(StackEntries)]
    BY <1>1, <1>5 DEF Inv, TypeOK
  <2>2. srsCache' \in [Procs -> {"undefined", "none", "fs"}]
    BY <1>1 DEF Inv, TypeOK
  <2> QED BY <1>1, <1>2, <2>1, <2>2 DEF Inv, TypeOK, files
<1>8. FilesInv'
  <2>1. \A u \in Compiles : op'[u] = op[u] /\ clean'[u] = clean[u]
    BY <1>1
  <2> QED BY <1>1, <1>2, <2>1, FilesKept DEF Inv
<1>9. KeysInv'
  <2>1. pc'[t] \notin {"new"} \cup Items
    BY <1>2 DEF Items
  <2> QED BY <1>1, <1>2, <2>1, KeysKept DEF Inv
<1>10. GlobalsInv'
  <2>1. Running(p)' = Running(p) \ {t}
    BY <1>1, <1>2 DEF Running, InProgress, Items
  <2>2. \A q : q # p => Running(q)' = Running(q)
    BY <1>1, <1>2 DEF Running, InProgress, Items
  <2>3. Cardinality(Running(p)') = Cardinality(Running(p)) - 1
    BY <1>3, <2>1, RunningIsFinite, FS_RemoveElement
  <2>4. StackDepth'
    <3> SUFFICES ASSUME NEW q \in Procs
                 PROVE  /\ Len(stack'[q]) = 1 + Cardinality(Running(q)')
                        /\ stack'[q][1] = <<"default", 0>>
      BY DEF StackDepth
    <3>1. CASE q = p
      <4>1. stack'[q] = Left(stack[p], <<t, 1>>)
        BY <1>6, <3>1
      <4>2. Len(stack'[q]) = 1 + (Cardinality(Running(p)) - 1)
        <5>1. Len(stack'[q]) = Len(stack[p]) - 1
          BY <1>5, <4>1
        <5>2. Len(stack[p]) = 1 + Cardinality(Running(p))
          BY <1>4
        <5>3. Cardinality(Running(p)) \in Nat
          BY <1>3
        <5> QED BY <5>1, <5>2, <5>3
      <4>3. Len(stack'[q]) = 1 + Cardinality(Running(p)')
        BY <2>3, <4>2
      <4>4. stack'[q][1] = <<"default", 0>>
        BY <1>5, <4>1
      <4> QED BY <3>1, <4>3, <4>4
    <3>2. CASE q # p
      BY <1>6, <2>2, <3>2 DEF Inv, GlobalsInv, StackDepth
    <3> QED BY <3>1, <3>2
  <2>5. SrsUnset'
    <3> SUFFICES ASSUME NEW q \in Procs,
                        \A u \in Compiles : ProcOf[u] = q => ~InProgress(u)' /\ pc'[u] # "conflict"
                 PROVE  srsCache'[q] = "undefined"
      BY DEF SrsUnset
    <3>1. CASE q = p
      BY <1>1, <1>2, <3>1 DEF Inv, TypeOK
    <3>2. CASE q # p
      <4>1. \A u \in Compiles : ProcOf[u] = q => ~InProgress(u) /\ pc[u] # "conflict"
        BY <1>2, <3>2 DEF InProgress
      <4> QED BY <1>1, <3>2, <4>1 DEF Inv, TypeOK, GlobalsInv, SrsUnset
    <3> QED BY <3>1, <3>2
  <2>6. BasisIsThere'
    BY <1>1 DEF Inv, GlobalsInv, BasisIsThere
  <2> QED BY <2>4, <2>5, <2>6 DEF GlobalsInv
<1> QED BY <1>7, <1>8, <1>9, <1>10 DEF Inv

\* A process that dies leaves its files as they are and its globals to nobody.
LEMMA CrashInv ==
  ASSUME Inv, NEW p \in Procs, Crash(p)
  PROVE  Inv'
<1>1. /\ faults' = faults + 1
      /\ stack' = [stack EXCEPT ![p] = Default]
      /\ srsCache' = [srsCache EXCEPT ![p] = "undefined"]
      /\ memory' = [memory EXCEPT ![p] = {}]
      /\ register' = [register EXCEPT ![p] = FALSE]
      /\ replaced' = replaced \ {p}
      /\ pc' = [t \in Compiles |-> IF ProcOf[t] = p /\ InProgress(t) THEN "dead" ELSE pc[t]]
      /\ op' = [t \in Compiles |-> IF ProcOf[t] = p THEN "idle" ELSE op[t]]
      /\ UNCHANGED <<options, asserted, files, key, clean>>
  BY DEF Crash
<1>2. Default \in Seq(StackEntries) /\ Len(Default) = 1 /\ Default[1] = <<"default", 0>>
  BY DEF Default, StackEntries
<1>3. /\ \A u \in Compiles : ProcOf[u] # p => pc'[u] = pc[u] /\ op'[u] = op[u]
      /\ \A u \in Compiles : ProcOf[u] = p => op'[u] = "idle" /\ ~InProgress(u)'
      /\ \A u \in Compiles : pc'[u] # pc[u] => pc'[u] = "dead"
  BY <1>1 DEF InProgress, Items
<1>4. TypeOK'
  <2>1. stack' \in [Procs -> Seq(StackEntries)]
    BY <1>1, <1>2 DEF Inv, TypeOK
  <2>2. pc' \in [Compiles -> Places] /\ op' \in [Compiles -> Ops]
    BY <1>1 DEF Inv, TypeOK, Places, Ops
  <2>3. /\ srsCache' \in [Procs -> {"undefined", "none", "fs"}]
        /\ memory' \in [Procs -> SUBSET Entries] /\ register' \in [Procs -> BOOLEAN]
    BY <1>1 DEF Inv, TypeOK
  <2> QED BY <1>1, <2>1, <2>2, <2>3 DEF Inv, TypeOK, files
<1>5. FilesInv'
  <2>1. \A u \in Compiles : \/ op'[u] = op[u] /\ pc'[u] = pc[u] /\ (clean'[u] => clean[u])
                            \/ op'[u] = "idle"
    BY <1>1, <1>3
  <2> QED BY <1>1, <2>1, FilesKept DEF Inv
<1>6. KeysInv'
  <2>1. \A u \in Compiles : pc'[u] \in {"new"} \cup Items => pc[u] \in {"new"} \cup Items
    BY <1>3 DEF Items
  <2> QED BY <1>1, <2>1, KeysKept DEF Inv
<1>7. GlobalsInv'
  <2>1. Running(p)' = {} /\ \A q : q # p => Running(q)' = Running(q)
    BY <1>3 DEF Running, InProgress
  <2>2. Cardinality(Running(p)') = 0
    BY <2>1, FS_EmptySet
  <2>3. /\ stack'[p] = Default /\ srsCache'[p] = "undefined"
        /\ \A q \in Procs : q # p => stack'[q] = stack[q] /\ srsCache'[q] = srsCache[q]
    BY <1>1 DEF Inv, TypeOK
  <2>4. StackDepth'
    <3> SUFFICES ASSUME NEW q \in Procs
                 PROVE  /\ Len(stack'[q]) = 1 + Cardinality(Running(q)')
                        /\ stack'[q][1] = <<"default", 0>>
      BY DEF StackDepth
    <3>1. CASE q = p
      BY <1>2, <2>2, <2>3, <3>1
    <3>2. CASE q # p
      BY <2>1, <2>3, <3>2 DEF Inv, GlobalsInv, StackDepth
    <3> QED BY <3>1, <3>2
  <2>5. SrsUnset'
    <3> SUFFICES ASSUME NEW q \in Procs, q # p,
                        \A u \in Compiles : ProcOf[u] = q => ~InProgress(u)' /\ pc'[u] # "conflict"
                 PROVE  srsCache'[q] = "undefined"
      BY <2>3 DEF SrsUnset
    <3>1. \A u \in Compiles : ProcOf[u] = q => ~InProgress(u) /\ pc[u] # "conflict"
      BY <1>3 DEF InProgress
    <3> QED BY <2>3, <3>1 DEF Inv, GlobalsInv, SrsUnset
  <2>6. BasisIsThere'
    BY <1>1 DEF Inv, TypeOK, GlobalsInv, BasisIsThere
  <2> QED BY <2>4, <2>5, <2>6 DEF GlobalsInv
<1> QED BY <1>4, <1>5, <1>6, <1>7 DEF Inv

\* Every step of a compile, every fault and every crash keeps the invariant.
LEMMA NextKeepsInv == Inv /\ [Next]_vars => Inv'
<1> SUFFICES ASSUME Inv, [Next]_vars PROVE Inv'
  OBVIOUS
<1>1. CASE UNCHANGED vars
  <2>1. UNCHANGED <<options, faults>> /\ UNCHANGED files /\ UNCHANGED <<process, key, pc, op, clean>>
    BY <1>1 DEF vars, files, process
  <2>2. TypeOK'
    BY <2>1 DEF files, process, Inv, TypeOK
  <2>3. FilesInv'
    BY <2>1, FilesKept DEF Inv
  <2>4. KeysInv' /\ GlobalsInv'
    BY <2>1, WriteKeepsRest
  <2> QED BY <2>2, <2>3, <2>4 DEF Inv
<1>2. ASSUME NEW t \in Compiles, Begin(t) \/ Step(t) \/ FindsEmpty(t) \/ WriteFails(t) \/ Throws(t)
      PROVE  Inv'
  BY <1>2, BeginInv, SkipInv, AssertionFailsInv, FindsEmptyInv, ReadHeaderInv, MissInv, ReadDataInv, WriteHeaderInv, OpenDataInv,
     FillDataInv, LeaveInv, WriteFailsInv, ThrowsInv
  DEF Step
<1>3. ASSUME NEW p \in Procs, Crash(p) PROVE Inv'
  BY <1>3, CrashInv
<1> QED BY <1>1, <1>2, <1>3 DEF Next

-----------------------------------------------------------------------------
(* Theorems *)

\* Whatever fails and whichever process dies: undisturbed readers and writers
\* are alone with an entry, and globals belong to running compiles.
THEOREM InvHolds == Spec => []Inv
BY InitInv, NextKeepsInv, PTL DEF Spec

\* The header and the data of an entry whose last write was complete and alone
\* belong together.
THEOREM EntriesMatch == Spec => []WholeEntriesMatch
<1>1. Inv => WholeEntriesMatch
  BY DEF Inv, FilesInv
<1> QED BY <1>1, InvHolds, PTL

\* A compile that no write disturbed never gets the key of another circuit.
THEOREM KeysAreOwn == Spec => []KeyIsOwn
<1>1. Inv => KeyIsOwn
  BY DEF Inv, KeysInv
<1> QED BY <1>1, InvHolds, PTL

\* When no compile of a process runs, its SRS cache is unset, unless leaving the
\* context failed, and the context is its default.
THEOREM GlobalsAreReleased == Spec => []SrsCacheReleased
<1>1. Inv => SrsCacheReleased
  <2> SUFFICES ASSUME Inv, NEW p \in Procs,
                      \A t \in Compiles : ProcOf[t] = p => ~InProgress(t) /\ pc[t] # "conflict"
               PROVE  srsCache[p] = "undefined" /\ stack[p] = Default
    BY DEF SrsCacheReleased
  <2>1. srsCache[p] = "undefined"
    BY DEF Inv, GlobalsInv, SrsUnset
  <2>2. Running(p) = {} /\ Cardinality({}) = 0
    BY FS_EmptySet DEF Running
  <2>3. Len(stack[p]) = 1 + Cardinality(Running(p)) /\ stack[p][1] = <<"default", 0>>
    BY DEF Inv, GlobalsInv, StackDepth
  <2>4. Len(stack[p]) = 1
    BY <2>2, <2>3
  <2>5. stack[p] \in Seq(StackEntries)
    BY DEF Inv, TypeOK
  <2>6. stack[p] = Default
    <3>1. stack[p] = [i \in 1 .. 1 |-> stack[p][i]]
      BY <2>4, <2>5
    <3>2. Default = [i \in 1 .. 1 |-> Default[i]] /\ Default[1] = <<"default", 0>>
      BY DEF Default
    <3> QED BY <2>3, <3>1, <3>2
  <2> QED BY <2>1, <2>6
<1> QED BY <1>1, InvHolds, PTL

\* The assertion that a registered basis is on the SRS fails only where an empty
\* SRS was replaced.
LEMMA StepHasCause ==
  Inv /\ [Next]_vars => \A t \in asserted' \ asserted : ProcOf[t] \in replaced
<1> SUFFICES ASSUME Inv, [Next]_vars, NEW t \in asserted' \ asserted
             PROVE  ProcOf[t] \in replaced
  OBVIOUS
<1>1. PICK u \in Compiles : AssertionFails(u)
  BY DEF Next, Step, vars, process, Begin, Skip, FindsEmpty, ReadHeader, Miss, ReadData, WriteHeader,
         OpenData, FillData, WriteFails, Throws, Leave, Crash
<1>2. t = u /\ pc[u] = "basis" /\ register[ProcOf[u]] /\ "basis" \notin memory[ProcOf[u]]
  BY <1>1 DEF AssertionFails, Registered, Needs
<1> QED BY <1>2, ProcOfIsProc DEF Inv, GlobalsInv, BasisIsThere

\* In every interleaving of compiles, faults and crashes, an assertion that
\* fails is the consequence of an SRS that was found empty.
THEOREM AssertionsHaveCause == Spec => AssertionHasCause
BY StepHasCause, InvHolds, PTL DEF Spec, AssertionHasCause
=============================================================================
