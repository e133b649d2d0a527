-------------------------- MODULE ConnectionQueue ---------------------------
(***************************************************************************)
(* What ConnectionListener promises its owner: connections are handed out  *)
(* one by one, each once, none forgotten, in the order they were accepted. *)
(***************************************************************************)
EXTENDS Sequences

CONSTANT Conns

VARIABLES waiting,   \* accepted and not handed out
          given      \* handed out, in order

vars == <<waiting, given>>

Init == waiting = <<>> /\ given = <<>>

Accept(c) ==
  /\ waiting' = Append(waiting, c)
  /\ UNCHANGED given

HandOut ==
  /\ waiting # <<>>
  /\ given' = Append(given, Head(waiting))
  /\ waiting' = Tail(waiting)

Next == (\E c \in Conns : Accept(c)) \/ HandOut

Spec == Init /\ [][Next]_vars
=============================================================================
