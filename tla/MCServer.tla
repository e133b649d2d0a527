------------------------------ MODULE MCServer ------------------------------
(***************************************************************************)
(* Instances of Server for TLC.  Each connection is used once, so the      *)
(* number of connections bounds every counter and every stream.            *)
(***************************************************************************)
EXTENDS Server, TLC

(* Connections are interchangeable: nothing compares or orders them.       *)
Symmetry == Permutations(Conns)
=============================================================================
