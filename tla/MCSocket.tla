------------------------------ MODULE MCSocket ------------------------------
(***************************************************************************)
(* Instances of Socket for TLC.  A byte has 8 values; the packets are      *)
(* those a client can get from the server, with one or two player numbers. *)
(***************************************************************************)
EXTENDS Socket

(* What a client is sent while its lobby fills and empties.  A leave       *)
(* packet cannot be read; its bytes are 4, 0, 0, 1, 2, of which 1 and 2    *)
(* look like the types of packets that can.                                *)
Lobby == {JoinResponse(1, 10, TEAM_SPY), PlayerDidJoin(11, TEAM_MERC), PlayerDidLeave(10)}

(* Five-byte packets, one that can be read and one that cannot.            *)
Short == {JoinRequest(9), PlayerDidLeave(10)}

(* Packets arrive whole, in a buffer that holds them all.                  *)
Roomy ==
  [transport |-> "TCP", sendable |-> Lobby, maxSent |-> 3, recvMax |-> 31,
   split |-> FALSE, garbage |-> {0}, maxQueue |-> 3]

(* They arrive in pieces, in a buffer of one packet; unwritten memory is   *)
(* zero, or looks like the type of a join request.                         *)
Tight ==
  [transport |-> "TCP", sendable |-> Short, maxSent |-> 2, recvMax |-> 5,
   split |-> TRUE, garbage |-> {0, 1}, maxQueue |-> 2]

(* Datagrams.                                                              *)
Datagrams ==
  [transport |-> "UDP", sendable |-> Lobby, maxSent |-> 3, recvMax |-> 1024,
   split |-> FALSE, garbage |-> {0}, maxQueue |-> 4]

AllSettings == {Roomy, Tight, Datagrams}

(* One packet, in a buffer that holds it.                                  *)
OnePacket == {[Roomy EXCEPT !.sendable = {JoinRequest(9)}, !.maxSent = 1]}

-----------------------------------------------------------------------------
(* The codec by itself, on 32-bit members around every byte boundary and   *)
(* with other bytes behind the packet in the receive buffer.               *)
Dwords == {0, 1, 7, 8, 63, 64, 511, 512, 2741, 4095}

CodecTrials ==
  [packets |-> {JoinRequest(u) : u \in Dwords}
                 \cup {JoinResponse(r, u, t) : r \in {0, 1}, u \in Dwords, t \in Team}
                 \cup {PlayerDidJoin(u, t) : u \in Dwords, t \in Team},
   ints    |-> {0, 1, 63, 64, 2047} \cup {-1, -64, -65, -2048},
   behinds |-> {<<>>} \cup {[k \in 1 .. n |-> b] : n \in {1, 4}, b \in {0, 1, ByteBase - 1}}]
=============================================================================
