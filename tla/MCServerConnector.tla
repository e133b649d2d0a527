------------------------- MODULE MCServerConnector --------------------------
(***************************************************************************)
(* Instances of ServerConnector for TLC: two attempts, so that a failed    *)
(* one is followed by another, and a timeout of two ticks.                 *)
(***************************************************************************)
EXTENDS ServerConnector
=============================================================================
