------------------------ MODULE MCConnectionListener ------------------------
(***************************************************************************)
(* Instances of ConnectionListener for TLC: every connection is made once, *)
(* so their number bounds every sequence.                                  *)
(***************************************************************************)
EXTENDS ConnectionListener, TLC
=============================================================================
