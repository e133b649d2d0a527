------------------------------- MODULE MCJoin -------------------------------
(***************************************************************************)
(* Instances of Join for TLC: a client with two attempts and one other     *)
(* client, in a lobby that the client's first attempt and the other fill.  *)
(***************************************************************************)
EXTENDS Join

CONSTANTS m1, m2

Attempts == <<m1, m2>>
=============================================================================
