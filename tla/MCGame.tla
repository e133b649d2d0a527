------------------------------- MODULE MCGame -------------------------------
(***************************************************************************)
(* GameLayer for TLC: a level four pixels wide with one tile that casts a  *)
(* shadow, one lamp and the player, on a screen that shows four of them.   *)
(***************************************************************************)
EXTENDS GameLayer
=============================================================================
