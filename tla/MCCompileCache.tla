-------------------------- MODULE MCCompileCache ---------------------------
(* Instances of CompileCache for TLC: two versions of a program in two      *)
(* processes, two of the compiles in the same one.                          *)
EXTENDS CompileCache
CONSTANTS t1, t2, t3, p1, p2, v1, v2

MCProcOf    == [t \in Compiles |-> IF t = t3 THEN p2 ELSE p1]
MCVersionOf == [t \in Compiles |-> IF t = t1 THEN v1 ELSE v2]
MCChoices   ==
  {[t \in Compiles |-> "default"],
   [t \in Compiles |-> CASE t = t1 -> "default"
                        [] t = t2 -> "Cache.None"
                        [] t = t3 -> "forceRecompile"]}
=============================================================================
