------------------------------ MODULE Protocol ------------------------------
(***************************************************************************)
(* The vocabulary of shared/Protocol.h: teams, packet types and the packet *)
(* classes.  A packet is a record whose fields are the members the class   *)
(* registers with AddField; `response', a C++ bool, is the byte 0 or 1.    *)
(***************************************************************************)
EXTENDS Integers, Sequences

TEAM_SPY  == 0
TEAM_MERC == 1
Team      == {TEAM_SPY, TEAM_MERC}

(* enum PacketType, with the enumerators' values. *)
PacketEnum == [PACKET_UNDEFINED       |-> 0,
               PACKET_JOIN_REQUEST    |-> 1,
               PACKET_JOIN_RESPONSE   |-> 2,
               PACKET_PLAYER_DID_JOIN |-> 3,
               PACKET_PLAYER_DID_LEAVE |-> 4,
               PACKET_SERVER_SHUTDOWN |-> 5]

JoinRequest(port) ==
  [type |-> "PACKET_JOIN_REQUEST", port |-> port]

JoinResponse(response, playerID, team) ==
  [type |-> "PACKET_JOIN_RESPONSE", response |-> response,
   playerID |-> playerID, team |-> team]

PlayerDidJoin(playerID, team) ==
  [type |-> "PACKET_PLAYER_DID_JOIN", playerID |-> playerID, team |-> team]

PlayerDidLeave(playerID) ==
  [type |-> "PACKET_PLAYER_DID_LEAVE", playerID |-> playerID]

ServerShutdown == [type |-> "PACKET_SERVER_SHUTDOWN"]

=============================================================================
