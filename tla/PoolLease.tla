------------------------------ MODULE PoolLease ------------------------------
(***************************************************************************)
(* What withThreadPool promises its callers, without saying how: a pool    *)
(* that is up as long as somebody inside a run needs it, is stopped only   *)
(* when nobody wants it any more, and is never started or stopped twice at *)
(* once.  ThreadPool implements this module.                               *)
(***************************************************************************)
EXTENDS FiniteSets

CONSTANT Calls   \* the calls of withThreadPool

VARIABLES pool,    \* what the backend's pool is doing
          wanted,  \* the calls that asked for the pool and did not give it back
          inside   \* the calls whose run() is in progress

vars == <<pool, wanted, inside>>

Init == pool = "down" /\ wanted = {} /\ inside = {}

\* A call asks for the pool: it may have to start it, or may find it up.
Request(c) ==
  /\ c \notin wanted
  /\ wanted' = wanted \cup {c}
  /\ \/ pool = "down" /\ pool' = "starting" /\ UNCHANGED inside
     \/ UNCHANGED <<pool, inside>>
     \/ pool = "up" /\ inside' = inside \cup {c} /\ UNCHANGED pool

Start    == pool = "down" /\ wanted # {} /\ pool' = "starting" /\ UNCHANGED <<wanted, inside>>
Started  == pool = "starting" /\ pool' = "up" /\ UNCHANGED <<wanted, inside>>
Failed   == pool \in {"starting", "stopping"} /\ pool' = "failed" /\ UNCHANGED <<wanted, inside>>
Stopped  == pool = "stopping" /\ pool' = "down" /\ UNCHANGED <<wanted, inside>>

Enter(c) ==
  /\ pool = "up" /\ c \in wanted \ inside
  /\ inside' = inside \cup {c}
  /\ UNCHANGED <<pool, wanted>>

\* The last call to leave stops the pool in the same step; no other step does.
Leave(c) ==
  /\ c \in inside
  /\ inside' = inside \ {c}
  /\ wanted' = wanted \ {c}
  /\ pool' = IF wanted = {c} THEN "stopping" ELSE pool

Next ==
  \/ Start \/ Started \/ Failed \/ Stopped
  \/ \E c \in Calls : Request(c) \/ Enter(c) \/ Leave(c)

Spec == Init /\ [][Next]_vars
=============================================================================
