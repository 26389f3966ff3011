---------------------------- MODULE CompileCache ----------------------------
(***************************************************************************)
(* Compiling zkPrograms (lib/proof-system/zkprogram.ts) with the file      *)
(* system cache (lib/proof-system/cache.ts) that processes share: every    *)
(* compile loads the SRS, a Lagrange basis (bindings/crypto/bindings/      *)
(* srs.ts) and its proving key, each from the cache or computed and then   *)
(* written.  A cache entry is two files, a header with the unique id and   *)
(* the data; a process may die, and a write may fail, between any two      *)
(* system calls.  The compiles of one process interleave at their awaits.  *)
(***************************************************************************)
EXTENDS GlobalContext, FiniteSets

CONSTANTS Compiles,  \* calls of compileProgram, each made once
          ProcOf,    \* the process a compile runs in
          VersionOf, \* the circuit it compiles; all are versions of one method
          Choices,   \* the combinations of compile options to consider
          MaxFaults, \* bound on crashes, failed writes, throws and emptied SRSs
          Shared     \* the unique id of the SRS and of the Lagrange basis

Procs    == {ProcOf[t] : t \in Compiles}
Versions == {VersionOf[t] : t \in Compiles}

ASSUME CompileAssumption ==
  /\ IsFiniteSet(Compiles) /\ MaxFaults \in Nat
  /\ Choices \subseteq [Compiles -> {"default", "Cache.None", "forceRecompile"}]
  /\ Shared \notin Versions \cup {"absent", "torn"}
  /\ Versions \cap {"absent", "torn", "nothing"} = {}

VARIABLES
  options,  \* what each compile is called with
  header,   \* per entry, the content of its header file
  data,     \* per entry, whose data the data file holds
  stack,    \* per process, snarkContext
  srsCache, \* per process, the global of bindings/crypto/cache.ts
  memory,   \* per process, srsStore: the SRS, and whether it has the basis on it
  register, \* per process, CacheReadRegister: the basis was read from the cache
  pc,       \* per compile, the item it is loading
  op,       \* per compile, the synchronous operation it is in the middle of
  faults,   \* how many of what MaxFaults bounds there were
  key,      \* per compile, the circuit whose key it got
  whole,    \* history, per entry: its last write ran to the end, and alone
  clean,    \* history, per compile: no write disturbed the entry it read
  replaced, \* history: processes that found their SRS empty and got another one
  asserted  \* history: compiles that failed 'commitment exists after setting'

files   == <<header, data, whole>>
process == <<options, stack, srsCache, memory, register, replaced, asserted>>
vars    == <<options, header, data, stack, srsCache, memory, register, pc, op, faults,
             key, whole, clean, replaced, asserted>>

Entries == {"srs", "basis", "key"}
Items   == {"srs", "basis", "basisAgain", "key"}
Writing == {"header", "data", "dataOpen"}
Content == Versions \cup {Shared, "absent", "torn"}
Default == << <<"default", 0>> >>

Init ==
  /\ options \in Choices
  /\ header = [e \in Entries |-> "absent"] /\ data = [e \in Entries |-> "absent"]
  /\ stack = [p \in Procs |-> Default] /\ srsCache = [p \in Procs |-> "undefined"]
  /\ memory = [p \in Procs |-> {}] /\ register = [p \in Procs |-> FALSE]
  /\ pc = [t \in Compiles |-> "new"] /\ op = [t \in Compiles |-> "idle"]
  /\ faults = 0
  /\ key = [t \in Compiles |-> "nothing"]
  /\ whole = [e \in Entries |-> TRUE] /\ clean = [t \in Compiles |-> TRUE]
  /\ replaced = {} /\ asserted = {}

-----------------------------------------------------------------------------
Entry(t) == IF pc[t] = "basisAgain" THEN "basis" ELSE pc[t]

\* parseHeader, cacheHeaderSrs and cacheHeaderLagrange
UniqueId(t) == IF pc[t] = "key" THEN VersionOf[t] ELSE Shared

CacheOf(t) == IF options[t] = "Cache.None" THEN "none" ELSE "fs"

\* The keys go through the cache of the compile, the SRS through the global one.
CacheFor(t) == IF pc[t] = "key" THEN CacheOf(t) ELSE srsCache[ProcOf[t]]

NextItem == [i \in Items |->
  CASE i = "srs" -> "basis" [] i = "basis" -> "basisAgain"
    [] i = "basisAgain" -> "key" [] i = "key" -> "leave"]

\* Operations are synchronous: the process does nothing else meanwhile.
Idle(p) == \A t \in Compiles : ProcOf[t] = p => op[t] = "idle"
MayLoad(t) == pc[t] \in Items /\ (Idle(ProcOf[t]) \/ op[t] = "empty")
InProgress(t) == pc[t] \in Items \cup {"leave"}

\* What the compile does not have yet, or has but not seen in the cache.
Needs(t) ==
  LET p == ProcOf[t] IN
  CASE pc[t] \in {"srs", "basis"} -> pc[t] \notin memory[p]
    [] pc[t] = "basisAgain" -> srsCache[p] = "fs" /\ ~register[p]
    [] OTHER -> TRUE

\* The writes to an entry that have begun.
WritersOf(e) == {u \in Compiles : op[u] \in Writing \ {"header"} /\ Entry(u) = e}

-----------------------------------------------------------------------------
\* withThreadPool calls back: snarkContext.enter, setSrsCache(cache)
Begin(t) ==
  LET p == ProcOf[t] IN
  /\ pc[t] = "new" /\ Idle(p)
  /\ stack' = [stack EXCEPT ![p] = Entered(@, <<t, 1>>)]
  /\ srsCache' = [srsCache EXCEPT ![p] = CacheOf(t)]
  /\ pc' = [pc EXCEPT ![t] = "srs"]
  /\ UNCHANGED <<faults, options, memory, register, op, key, clean, replaced, asserted, files>>

\* The item is there: the compile goes on to the next one.
Advance(t) ==
  /\ pc' = [pc EXCEPT ![t] = NextItem[pc[t]]]
  /\ op' = [op EXCEPT ![t] = "idle"]
  /\ clean' = IF pc[t] = "key" THEN clean ELSE [clean EXCEPT ![t] = TRUE]

\* The item was computed or read; keys belong to the compile, the rest to the
\* process.  A basis is set on the SRS that the compile holds, which is not the
\* one in the store if that was replaced meanwhile.
Obtain(t, content) ==
  LET p == ProcOf[t] IN
  IF pc[t] = "key"
  THEN key' = [key EXCEPT ![t] = content] /\ UNCHANGED memory
  ELSE /\ \/ memory' = [memory EXCEPT ![p] = @ \cup {Entry(t)}]
          \/ Entry(t) = "basis" /\ p \in replaced /\ UNCHANGED memory
       /\ UNCHANGED key

\* Mutant: the header is not compared with the unique id.
HitsAnyway(t) == header[Entry(t)] # "absent"

\* cache.read up to the header file; a missing file or another id is a miss.
Hits(t) == header[Entry(t)] = UniqueId(t)

\* Cache.None throws on read, and forceRecompile does not look at all.
Reads(t) == CacheFor(t) = "fs" /\ ~(pc[t] = "key" /\ options[t] = "forceRecompile")

\* readCacheLazy trusts the register before it looks at the files.
Registered(t) == pc[t] = "basis" /\ CacheFor(t) # "undefined" /\ register[ProcOf[t]]

\* Nothing to load.
Skip(t) ==
  /\ pc[t] \in Items /\ Idle(ProcOf[t]) /\ ~Needs(t)
  /\ pc' = [pc EXCEPT ![t] = NextItem[@]]
  /\ UNCHANGED <<faults, process, files, op, key, clean>>

\* The stored SRS has no points: it is deleted, with the basis that was on it,
\* and a new one is read or computed at once.  The register is left as it is.
FindsEmpty(t) ==
  LET p == ProcOf[t] IN
  /\ faults < MaxFaults /\ faults' = faults + 1
  /\ pc[t] = "srs" /\ Idle(p) /\ "srs" \in memory[p]
  /\ memory' = [memory EXCEPT ![p] = {}]
  /\ op' = [op EXCEPT ![t] = "empty"]
  /\ replaced' = replaced \cup {p}
  /\ UNCHANGED <<options, stack, srsCache, register, asserted, files, pc, key, clean>>

\* A basis that only the register knows of: assert(c !== undefined) throws.
AssertionFails(t) ==
  /\ Idle(ProcOf[t]) /\ Needs(t) /\ Registered(t)
  /\ pc' = [pc EXCEPT ![t] = "leave"]
  /\ asserted' = asserted \cup {t}
  /\ UNCHANGED <<faults, options, stack, srsCache, memory, register, replaced>>
  /\ UNCHANGED <<files, op, key, clean>>

ReadHeader(t) ==
  /\ MayLoad(t) /\ Needs(t) /\ ~Registered(t)
  /\ Reads(t) /\ Hits(t)
  /\ op' = [op EXCEPT ![t] = "read"]
  /\ clean' = [clean EXCEPT ![t] = whole[Entry(t)]]
  /\ UNCHANGED <<faults, process, files, pc, key>>

\* The item has to be computed, and is written if the cache can be written.
Compute(t) ==
  /\ Obtain(t, VersionOf[t])
  /\ IF CacheFor(t) = "fs"
     THEN op' = [op EXCEPT ![t] = "header"] /\ UNCHANGED <<pc, clean>>
     ELSE Advance(t)

Miss(t) ==
  /\ MayLoad(t) /\ Needs(t) /\ ~Registered(t)
  /\ ~(Reads(t) /\ Hits(t))
  /\ Compute(t)
  /\ UNCHANGED <<faults, options, stack, srsCache, register, replaced, asserted, files>>

Decodes(e) == data[e] \notin {"absent", "torn"}

\* Mutant: the register does not tell the SRS from the basis.
SetsRegisterForSrs(t) == pc[t] # "key"

SetsRegister(t) == pc[t] \in {"basis", "basisAgain"}

ReadData(t) ==
  /\ op[t] = "read"
  /\ \/ /\ Decodes(Entry(t))
        /\ Obtain(t, data[Entry(t)]) /\ Advance(t)
        /\ register' = IF SetsRegister(t) THEN [register EXCEPT ![ProcOf[t]] = TRUE]
                       ELSE register
     \/ /\ ~Decodes(Entry(t))
        /\ Compute(t)
        /\ UNCHANGED register
  /\ UNCHANGED <<faults, options, stack, srsCache, replaced, asserted, files>>

-----------------------------------------------------------------------------
(* cache.write: two writeFileSync; the data file is truncated and then filled *)

\* Mutant: a header that is there is not written again.
HeaderWrittenOnce(t) ==
  IF header[Entry(t)] = "absent" THEN [header EXCEPT ![Entry(t)] = UniqueId(t)] ELSE header

HeaderWritten(t) == [header EXCEPT ![Entry(t)] = UniqueId(t)]

\* A write that starts disturbs those who are reading or writing the entry.  A
\* header cut off in the middle is a miss, as no header at all.
WriteHeader(t) ==
  LET e == Entry(t) IN
  /\ op[t] = "header"
  /\ header' = HeaderWritten(t)
  /\ whole' = [whole EXCEPT ![e] = FALSE]
  /\ clean' = [u \in Compiles |->
       IF u = t THEN WritersOf(e) \subseteq {t}
       ELSE clean[u] /\ ~(op[u] # "idle" /\ Entry(u) = e)]
  /\ op' = [op EXCEPT ![t] = "data"]
  /\ UNCHANGED <<faults, process, data, pc, key>>

OpenData(t) ==
  /\ op[t] = "data"
  /\ data' = [data EXCEPT ![Entry(t)] = "torn"]
  /\ op' = [op EXCEPT ![t] = "dataOpen"]
  /\ UNCHANGED <<faults, process, header, whole, pc, key, clean>>

FillData(t) ==
  /\ op[t] = "dataOpen"
  /\ data' = [data EXCEPT ![Entry(t)] = UniqueId(t)]
  /\ whole' = [whole EXCEPT ![Entry(t)] = clean[t]]
  /\ Advance(t)
  /\ UNCHANGED <<faults, process, header, key>>

\* writeCache catches the error and the compile goes on with what it has.
WriteFails(t) ==
  /\ faults < MaxFaults /\ faults' = faults + 1
  /\ op[t] \in Writing
  /\ Advance(t)
  /\ UNCHANGED <<process, files, key>>

-----------------------------------------------------------------------------
\* The compilation throws between two items, for instance in a user's method.
Throws(t) ==
  /\ faults < MaxFaults /\ faults' = faults + 1
  /\ pc[t] \in Items /\ Idle(ProcOf[t])
  /\ pc' = [pc EXCEPT ![t] = "leave"]
  /\ UNCHANGED <<process, files, op, key, clean>>

\* Mutant: the SRS cache is not reset.
NotUnset(p) == srsCache

Unset(p) == [srsCache EXCEPT ![p] = "undefined"]

\* The finally block: when leave throws, unsetSrsCache is not reached.
Leave(t) ==
  LET p == ProcOf[t] IN
  /\ pc[t] = "leave" /\ Idle(p)
  /\ stack' = [stack EXCEPT ![p] = Left(@, <<t, 1>>)]
  /\ \/ /\ LeaveThrows(stack[p], <<t, 1>>)
        /\ pc' = [pc EXCEPT ![t] = "conflict"]
        /\ UNCHANGED srsCache
     \/ /\ ~LeaveThrows(stack[p], <<t, 1>>)
        /\ pc' = [pc EXCEPT ![t] = "done"]
        /\ srsCache' = Unset(p)
  /\ UNCHANGED <<faults, options, memory, register, replaced, asserted, files, op, key, clean>>

\* The process dies with its compiles; later ones find a new process.
Crash(p) ==
  /\ faults < MaxFaults /\ faults' = faults + 1
  /\ \E t \in Compiles : ProcOf[t] = p /\ InProgress(t)
  /\ stack' = [stack EXCEPT ![p] = Default]
  /\ srsCache' = [srsCache EXCEPT ![p] = "undefined"]
  /\ memory' = [memory EXCEPT ![p] = {}]
  /\ register' = [register EXCEPT ![p] = FALSE]
  /\ replaced' = replaced \ {p}
  /\ pc' = [t \in Compiles |-> IF ProcOf[t] = p /\ InProgress(t) THEN "dead" ELSE pc[t]]
  /\ op' = [t \in Compiles |-> IF ProcOf[t] = p THEN "idle" ELSE op[t]]
  /\ UNCHANGED <<options, asserted, files, key, clean>>

Step(t) ==
  \/ Skip(t) \/ AssertionFails(t) \/ ReadHeader(t) \/ Miss(t) \/ ReadData(t)
  \/ WriteHeader(t) \/ OpenData(t) \/ FillData(t) \/ Leave(t)

Next ==
  \/ \E t \in Compiles : Begin(t) \/ Step(t) \/ FindsEmpty(t) \/ WriteFails(t) \/ Throws(t)
  \/ \E p \in Procs : Crash(p)

Spec == Init /\ [][Next]_vars

-----------------------------------------------------------------------------
\* The two files of an entry belong together whenever its last write ran to the
\* end without another one beside it: neither misses nor failed writes, crashes
\* or readers of before leave a header with the data of another circuit.
WholeEntriesMatch == \A e \in Entries : whole[e] => header[e] = data[e]

\* A compile is given the key of another circuit only if a write disturbed the
\* entry, before it was read by being cut off or while it was read.
KeyIsOwn ==
  \A t \in Compiles : clean[t] => key[t] \in {VersionOf[t], "nothing"}

\* The global SRS cache and context do not outlive the compiles of a process,
\* unless leaving the context failed: then unsetSrsCache was never called.
SrsCacheReleased ==
  \A p \in Procs :
    (\A t \in Compiles : ProcOf[t] = p => ~InProgress(t) /\ pc[t] # "conflict")
      => srsCache[p] = "undefined" /\ stack[p] = Default

\* The assertion that a basis is on the SRS, when the register says that it was
\* read from the cache, fails only in a process whose SRS was replaced since it
\* started: nothing else, no order in which its compiles load their items, write
\* or fail, brings the register and the SRS apart.
AssertionHasCause ==
  [][\A t \in asserted' \ asserted : ProcOf[t] \in replaced]_vars
=============================================================================
