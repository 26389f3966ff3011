----------------------------- MODULE RemoteCall -----------------------------
(***************************************************************************)
(* What the web bindings promise a caller on the main thread: a wasm       *)
(* function that runs elsewhere behaves as a local one.  It runs once,     *)
(* takes the objects that are moved into it, leaves the borrowed ones with *)
(* the caller and hands back what it made.  WorkerRpc implements it.       *)
(***************************************************************************)
CONSTANT Objects   \* wasm objects: arguments and results

VARIABLES phase,  \* of the call in progress, or "broken" for good
          moved,  \* the objects moved into it
          made,   \* the objects it returns
          held,   \* the objects the caller may use
          live    \* the objects that are allocated

vars == <<phase, moved, made, held, live>>

Init == phase = "none" /\ moved = {} /\ made = {} /\ held = live /\ live \subseteq Objects

Begin(m) ==
  /\ phase = "none" /\ m \subseteq held
  /\ phase' = "called" /\ moved' = m /\ held' = held \ m
  /\ UNCHANGED <<made, live>>

\* The function runs once and frees everything it was given to keep.
Run(new) ==
  /\ phase = "called" /\ new \subseteq Objects \ live
  /\ phase' = "ran" /\ made' = new /\ live' = (live \ moved) \cup new
  /\ UNCHANGED <<moved, held>>

Return ==
  /\ phase = "ran"
  /\ phase' = "none" /\ moved' = {} /\ made' = {} /\ held' = held \cup made
  /\ UNCHANGED live

\* The handoff fails: what was moved is lost, and no later call is made.
Break(kept) ==
  /\ phase = "called" /\ kept \subseteq moved
  /\ phase' = "broken" /\ moved' = {} /\ held' = held \cup kept
  /\ UNCHANGED <<made, live>>

\* The garbage collector frees an object the caller has dropped.
Collect(o) ==
  /\ phase \in {"none", "broken"} /\ o \in held
  /\ held' = held \ {o} /\ live' = live \ {o}
  /\ UNCHANGED <<phase, moved, made>>

Next ==
  \/ \E m \in SUBSET Objects : Begin(m) \/ Break(m) \/ Run(m)
  \/ Return
  \/ \E o \in Objects : Collect(o)

Spec == Init /\ [][Next]_vars
=============================================================================
