--------------------------- MODULE MCLoggerService ----------------------------
(***************************************************************************)
(* Symmetry for LoggerService: nothing in it tells one task, one node or   *)
(* one sink from another, and it chooses none of them.                     *)
(***************************************************************************)
EXTENDS LoggerService, TLC

Symmetry == Permutations(Tasks) \cup Permutations(Nodes) \cup Permutations(Sinks)
=============================================================================
