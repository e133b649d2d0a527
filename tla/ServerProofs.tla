---------------------------- MODULE ServerProofs ----------------------------
(***************************************************************************)
(* What holds of Server for every set of connections, every MAX_PLAYERS    *)
(* and every IdMod, whether or not GetPacket ever returns; and, in the     *)
(* second part, what the server tells its clients: what each client's      *)
(* stream begins with, what it adds up to, what a flush leaves queued, and *)
(* how a join changes the balance of the teams.                            *)
(***************************************************************************)
EXTENDS Server, FiniteSetTheorems, TLAPS

-----------------------------------------------------------------------------
(* Lemmas about the sequences the server keeps.                            *)

(* What push_back does to a vector without repetitions.                    *)
LEMMA AppendFacts ==
  ASSUME NEW S, NEW s \in Seq(S), NEW e \in S
  PROVE  /\ Append(s, e) \in Seq(S)
         /\ Elements(Append(s, e)) = Elements(s) \cup {e}
         /\ NoRepeat(s) /\ e \notin Elements(s) => NoRepeat(Append(s, e))
<1>1. Append(s, e) \in Seq(S) /\ Len(Append(s, e)) = Len(s) + 1
  OBVIOUS
<1>2. \A k \in 1 .. Len(s) : Append(s, e)[k] = s[k]
  OBVIOUS
<1>3. Append(s, e)[Len(s) + 1] = e /\ Len(s) \in Nat
  OBVIOUS
<1>4. 1 .. Len(s) + 1 = (1 .. Len(s)) \cup {Len(s) + 1}
  BY <1>3
<1>5. Elements(Append(s, e)) = Elements(s) \cup {e}
  BY <1>1, <1>2, <1>3, <1>4 DEF Elements
<1>6. NoRepeat(s) /\ e \notin Elements(s) => NoRepeat(Append(s, e))
  BY <1>1, <1>2, <1>3, <1>4 DEF Elements, NoRepeat
<1> QED  BY <1>1, <1>5, <1>6

(* The elements of a vector of connections are connections.                *)
LEMMA ElementsOfSeq ==
  ASSUME NEW S, NEW s \in Seq(S)
  PROVE  /\ Elements(s) \subseteq S
         /\ \A k \in 1 .. Len(s) : s[k] \in S /\ s[k] \in Elements(s)
BY DEF Elements

(* What erasing the first element does.                                    *)
LEMMA TailFacts ==
  ASSUME NEW S, NEW s \in Seq(S), s # <<>>
  PROVE  /\ Tail(s) \in Seq(S)
         /\ Head(s) \in Elements(s)
         /\ Elements(Tail(s)) \subseteq Elements(s)
         /\ NoRepeat(s) => NoRepeat(Tail(s)) /\ Head(s) \notin Elements(Tail(s))
<1>1. Tail(s) \in Seq(S) /\ Len(Tail(s)) = Len(s) - 1 /\ Len(s) \in Nat \ {0}
  OBVIOUS
<1>2. \A k \in 1 .. Len(s) - 1 : Tail(s)[k] = s[k + 1]
  OBVIOUS
<1>3. Head(s) = s[1]
  OBVIOUS
<1> QED  BY <1>1, <1>2, <1>3 DEF Elements, NoRepeat

(* What erasing the k-th element does.                                     *)
LEMMA EraseFacts ==
  ASSUME NEW S, NEW s \in Seq(S), NEW k \in 1 .. Len(s)
  PROVE  /\ Erase(s, k) \in Seq(S)
         /\ Len(Erase(s, k)) = Len(s) - 1
         /\ Elements(Erase(s, k)) \subseteq Elements(s)
         /\ NoRepeat(s) => NoRepeat(Erase(s, k)) /\ s[k] \notin Elements(Erase(s, k))
<1>1. Len(s) - 1 \in Nat /\ Len(s) \in Nat
  OBVIOUS
<1>2. Erase(s, k) \in Seq(S) /\ Len(Erase(s, k)) = Len(s) - 1
  BY <1>1 DEF Erase
<1>3. \A n \in 1 .. Len(s) - 1 : Erase(s, k)[n] = IF n < k THEN s[n] ELSE s[n + 1]
  BY <1>1 DEF Erase
<1>4. Elements(Erase(s, k)) \subseteq Elements(s)
  BY <1>1, <1>2, <1>3 DEF Elements
<1>5. NoRepeat(s) => NoRepeat(Erase(s, k)) /\ s[k] \notin Elements(Erase(s, k))
  BY <1>1, <1>2, <1>3 DEF Elements, NoRepeat
<1> QED  BY <1>2, <1>4, <1>5

(* Player numbers are unsigned, and the first IdMod of them differ.        *)
LEMMA PlayerIdFacts ==
  ASSUME NEW n \in Nat
  PROVE  /\ PlayerIdAfter(n) \in 0 .. IdMod - 1
         /\ \A m \in Nat : n < IdMod /\ m < IdMod /\ PlayerIdAfter(m) = PlayerIdAfter(n)
                             => m = n
<1>1. IdMod \in Nat \ {0}
  BY ServerAssumption
<1>2. PlayerIdAfter(n) \in 0 .. IdMod - 1
  BY <1>1 DEF PlayerIdAfter
<1>3. \A m \in Nat : m < IdMod => PlayerIdAfter(m) = IF m = IdMod - 1 THEN 0 ELSE m + 1
  BY <1>1 DEF PlayerIdAfter
<1> QED  BY <1>1, <1>2, <1>3

(* Every packet the server makes is one of Packet.                         *)
LEMMA PacketFacts ==
  ASSUME NEW n \in Nat, NEW t \in Team
  PROVE  /\ JoinResponse(1, PlayerIdAfter(n), t) \in Packet
         /\ JoinResponse(0, 0, TEAM_SPY) \in Packet
         /\ PlayerDidJoin(PlayerIdAfter(n), t) \in Packet
         /\ PlayerDidLeave(PlayerIdAfter(n)) \in Packet
<1>1. PlayerIdAfter(n) \in 0 .. IdMod - 1 /\ 0 \in 0 .. IdMod - 1
  BY PlayerIdFacts, ServerAssumption
<1>2. TEAM_SPY \in Team
  BY DEF TEAM_SPY, Team
<1> QED  BY <1>1, <1>2 DEF Packet

-----------------------------------------------------------------------------
(* The inductive invariant.  RosterSound and UniqueIds do not carry over a *)
(* step by themselves: AddClient pushes a socket that was taken up, and    *)
(* numbered, several steps before, so where the socket may be, that the    *)
(* lobby still has room and that its number is new must be remembered.     *)

PlaceInv ==
  /\ pc \in {"decide", "respond", "broadcast"} => socket \in Conns
  /\ pc \in {"handle", "flush"} => socket = NoSocket
  /\ pc \in {"respond", "broadcast"} => Len(clients) < MAX_PLAYERS
  /\ \A c \in Conns : peer[c] = "none" =>
       c \notin Elements(backlog) \cup Elements(newConnections) \cup Members \cup {socket}

SerialInv ==
  /\ \A c \in Members : serial[c] < issued
  /\ \A c, d \in Members : serial[c] = serial[d] => c = d
  /\ pc = "broadcast" => /\ serial[socket] < issued
                         /\ \A c \in Members : serial[c] # serial[socket]

Inv == TypeOK /\ PlaceInv /\ RosterSound /\ SerialInv

-----------------------------------------------------------------------------
(* Type correctness.                                                       *)

(* AddPacketToQueue keeps the queues and their storage well-typed.         *)
LEMMA QueuedType ==
  ASSUME TypeOK, NEW to, NEW p \in Packet
  PROVE  /\ Queued(to, p) \in [Conns -> Seq(Packet)]
         /\ StorageQueued(to) \in [Conns -> {"none", "owned", "freed", "touched"}]
BY DEF TypeOK, Queued, StorageQueued, PushBack

(* KickClient keeps everything it changes well-typed.                      *)
LEMMA KickClientType ==
  ASSUME TypeOK, NEW k \in 1 .. Len(clients),
         NEW block \in {"none", "owned", "freed", "touched"}, KickClient(k, block)
  PROVE  /\ tcpPktQueue' \in [Conns -> Seq(Packet)]
         /\ storage' \in [Conns -> {"none", "owned", "freed", "touched"}]
         /\ clients' \in Seq(Conns)
<1> DEFINE c == clients[k]
<1>1. c \in Conns /\ serial[c] \in Nat
  BY DEF TypeOK
<1>2. PlayerDidLeave(GetPlayerID(c)) \in Packet
  BY <1>1, PacketFacts DEF GetPlayerID, Team, TEAM_SPY
<1>3. <<>> \in Seq(Packet)
  OBVIOUS
<1>4. tcpPktQueue' \in [Conns -> Seq(Packet)]
  BY <1>1, <1>2, <1>3, QueuedType DEF KickClient
<1>5. storage' \in [Conns -> {"none", "owned", "freed", "touched"}]
  BY <1>1, <1>2, QueuedType DEF KickClient, DestroyVector
<1>6. clients' \in Seq(Conns)
  BY EraseFacts DEF KickClient, TypeOK
<1> QED  BY <1>4, <1>5, <1>6

(* Every step of the server and its surroundings keeps the types; where a  *)
(* connection is (PlaceInv) is needed for the steps that handle one.       *)
LEMMA TypeStep == TypeOK /\ PlaceInv /\ [Next]_vars => TypeOK'
<1> SUFFICES ASSUME TypeOK, PlaceInv, [Next]_vars PROVE TypeOK'
  OBVIOUS
<1> USE ServerAssumption
<1>1. CASE UNCHANGED vars
  BY <1>1 DEF TypeOK, vars, net, client
<1>2. ASSUME NEW c \in Conns, Connect(c) PROVE TypeOK'
  BY <1>2 DEF TypeOK, Connect, client
<1>3. ASSUME NEW c \in Conns, NEW what \in FirstPackets, Arrive(c, what) PROVE TypeOK'
  <2>1. what \in Inbox
    BY <1>3 DEF ServerAssumption, Inbox
  <2> QED  BY <1>3, <2>1 DEF TypeOK, Arrive, client
<1>4. ASSUME NEW c \in Conns, Depart(c) PROVE TypeOK'
  BY <1>4 DEF TypeOK, Depart, client
<1>5. CASE AddNewSocket
  <2>1. Head(backlog) \in Conns /\ Tail(backlog) \in Seq(Conns)
    BY <1>5 DEF TypeOK, AddNewSocket
  <2>2. newConnections' \in Seq(Conns) /\ backlog' \in Seq(Conns)
    BY <1>5, <2>1, AppendFacts DEF TypeOK, AddNewSocket
  <2> QED  BY <1>5, <2>2 DEF TypeOK, AddNewSocket, client
<1>6. CASE GetNewSocket
  <2>1. /\ UNCHANGED <<peer, inbox, wire, backlog, i, clients, issued, serial, team,
                       tcpPktQueue, storage, tcpDisconnect>>
        /\ pc' = "decide" /\ socket' = Head(newConnections)
        /\ newConnections' = Tail(newConnections) /\ newConnections # <<>>
    BY <1>6, Zenon DEF GetNewSocket, client
  <2>2. newConnections' \in Seq(Conns) /\ socket' \in Conns
    BY <2>1 DEF TypeOK
  <2> QED  BY <2>1, <2>2 DEF TypeOK
<1>7. CASE NoNewConnection
  <2>1. /\ UNCHANGED <<peer, inbox, wire, backlog, newConnections, socket, clients, issued,
                       serial, team, tcpPktQueue, storage, tcpDisconnect>>
        /\ pc' = "flush" /\ i' = 1
    BY <1>7, Zenon DEF NoNewConnection, net, client
  <2> QED  BY <2>1 DEF TypeOK
<1>8. CASE Reject
  <2>1. JoinResponse(0, 0, TEAM_SPY) \in Packet
    BY PacketFacts DEF Team, TEAM_SPY
  <2>2. socket \in Conns
    BY <1>8 DEF Reject, PlaceInv
  <2>3. wire' \in [Conns -> Seq(Packet)]
    BY <1>8, <2>1, <2>2 DEF TypeOK, Reject
  <2> QED  BY <1>8, <2>3 DEF TypeOK, Reject, client
<1>9. CASE DropSocket
  BY <1>9 DEF TypeOK, DropSocket, client, Inbox
<1>10. CASE ReadFirstPacket
  BY <1>10 DEF TypeOK, ReadFirstPacket, client, Inbox
<1>11. CASE ClientThrows
  BY <1>11 DEF TypeOK, ClientThrows, net, client
<1>12. CASE MakeClient
  <2>1. socket \in Conns
    BY <1>12 DEF MakeClient, PlaceInv
  <2>2. GetTeamForNextPlayer \in Team
    BY DEF GetTeamForNextPlayer, Team
  <2>3. JoinResponse(1, PlayerIdAfter(issued), GetTeamForNextPlayer) \in Packet
    BY <2>2, PacketFacts DEF TypeOK
  <2> DEFINE answer == JoinResponse(1, PlayerIdAfter(issued), GetTeamForNextPlayer)
  <2>6. \/ wire' = [wire EXCEPT ![socket] = Append(@, answer)]
           /\ pc' = "broadcast" /\ i' = 1 /\ socket' = socket
        \/ wire' = wire /\ pc' = "handle" /\ i' = i /\ socket' = NoSocket
    BY <1>12, Zenon DEF MakeClient
  <2>4. wire' \in [Conns -> Seq(Packet)]
    <3> HIDE DEF answer
    <3>1. Append(wire[socket], answer) \in Seq(Packet)
      BY <2>1, <2>3 DEF TypeOK, answer
    <3> QED  BY <2>6, <2>1, <3>1 DEF TypeOK
  <2>5. issued' \in Nat /\ serial' \in [Conns -> Nat] /\ team' \in [Conns -> Team]
    BY <1>12, <2>1, <2>2 DEF TypeOK, MakeClient
  <2>7. UNCHANGED <<peer, inbox, backlog, newConnections, clients, tcpPktQueue,
                    storage, tcpDisconnect>>
    BY <1>12, Zenon DEF MakeClient
  <2>8. pc' \in {"broadcast", "handle"} /\ i' \in Nat \ {0} /\ socket' \in Conns \cup {NoSocket}
    BY <2>1, <2>6 DEF TypeOK
  <2> QED  BY <2>4, <2>5, <2>7, <2>8 DEF TypeOK
<1>13. CASE BroadcastJoin
  <2>1. socket \in Conns /\ i \in 1 .. Len(clients)
    <3>1. socket \in Conns
      BY <1>13 DEF BroadcastJoin, PlaceInv
    <3>2. i \in Nat \ {0} /\ Len(clients) \in Nat
      BY DEF TypeOK
    <3>3. i <= Len(clients)
      BY <1>13 DEF BroadcastJoin
    <3> QED  BY <3>1, <3>2, <3>3
  <2>2. storage[clients[i]] \in {"none", "owned", "freed", "touched"}
    BY <2>1 DEF TypeOK
  <2>3. PlayerDidJoin(GetPlayerID(socket), team[socket]) \in Packet
    BY <2>1, PacketFacts DEF TypeOK, GetPlayerID
  <2>4. /\ tcpPktQueue' \in [Conns -> Seq(Packet)]
        /\ storage' \in [Conns -> {"none", "owned", "freed", "touched"}]
        /\ clients' \in Seq(Conns)
        /\ i' \in Nat \ {0}
    <3>1. CASE IsConnected(clients[i])
      <4>1. /\ tcpPktQueue' = Queued({clients[i]}, PlayerDidJoin(GetPlayerID(socket), team[socket]))
            /\ storage' = StorageQueued({clients[i]})
            /\ i' = i + 1
            /\ clients' = clients
        BY <1>13, <3>1, Zenon DEF BroadcastJoin
      <4>2. /\ Queued({clients[i]}, PlayerDidJoin(GetPlayerID(socket), team[socket]))
                 \in [Conns -> Seq(Packet)]
            /\ StorageQueued({clients[i]}) \in [Conns -> {"none", "owned", "freed", "touched"}]
        BY <2>3, QueuedType
      <4>3. i' \in Nat \ {0} /\ clients' \in Seq(Conns)
        BY <4>1 DEF TypeOK
      <4> QED  BY <4>1, <4>2, <4>3, Zenon
    <3>2. CASE ~ IsConnected(clients[i])
      <4>1. KickClient(i, storage[clients[i]]) /\ i' = i
        BY <1>13, <3>2, Zenon DEF BroadcastJoin
      <4>2. i' \in Nat \ {0}
        BY <4>1 DEF TypeOK
      <4> DEFINE block == storage[clients[i]]
      <4> HIDE DEF block
      <4>3. block \in {"none", "owned", "freed", "touched"} /\ KickClient(i, block)
        BY <2>2, <4>1 DEF block
      <4> QED  BY <2>1, <4>2, <4>3, KickClientType
    <3> QED  BY <3>1, <3>2
  <2>5. UNCHANGED <<peer, inbox, wire, backlog, newConnections, pc, socket, issued, serial,
                    team, tcpDisconnect>>
    BY <1>13, Zenon DEF BroadcastJoin, net
  <2> QED  BY <2>4, <2>5 DEF TypeOK
<1>14. CASE AddClient
  BY <1>14, AppendFacts DEF TypeOK, PlaceInv, AddClient, net, client
<1>15. CASE FlushClient
  <2>1. clients[i] \in Conns
    BY <1>15 DEF TypeOK, FlushClient
  <2> DEFINE c == clients[i]
  <2>2. \/ UNCHANGED <<wire, tcpPktQueue, storage>>
        \/ /\ wire' = [wire EXCEPT ![c] = @ \o tcpPktQueue[c]]
           /\ tcpPktQueue' = [tcpPktQueue EXCEPT ![c] = <<>>]
           /\ storage' = [storage EXCEPT ![c] = DeleteBuf(@)]
    BY <1>15, Zenon DEF FlushClient
  <2>3. UNCHANGED <<peer, inbox, backlog, newConnections, pc, socket, clients,
                    issued, serial, team, tcpDisconnect>> /\ i' = i + 1
    BY <1>15, Zenon DEF FlushClient
  <2>4. wire[c] \o tcpPktQueue[c] \in Seq(Packet) /\ <<>> \in Seq(Packet)
    BY <2>1 DEF TypeOK
  <2>5. DeleteBuf(storage[c]) \in {"none", "owned", "freed", "touched"}
    BY DEF DeleteBuf
  <2>6. /\ wire' \in [Conns -> Seq(Packet)]
        /\ tcpPktQueue' \in [Conns -> Seq(Packet)]
        /\ storage' \in [Conns -> {"none", "owned", "freed", "touched"}]
    <3>1. c \in Conns
      BY <2>1
    <3> HIDE DEF c
    <3>2. CASE UNCHANGED <<wire, tcpPktQueue, storage>>
      BY <3>2 DEF TypeOK
    <3>3. CASE wire' = [wire EXCEPT ![c] = @ \o tcpPktQueue[c]]
               /\ tcpPktQueue' = [tcpPktQueue EXCEPT ![c] = <<>>]
               /\ storage' = [storage EXCEPT ![c] = DeleteBuf(@)]
      BY <3>1, <3>3, <2>4, <2>5 DEF TypeOK
    <3> QED  BY <2>2, <3>2, <3>3
  <2> QED  BY <2>3, <2>6 DEF TypeOK
<1>16. CASE FlushKick
  <2>1. i \in 1 .. Len(clients)
    BY <1>16 DEF TypeOK, FlushKick
  <2> DEFINE block == IF IsConnected(clients[i]) THEN DeleteBuf(storage[clients[i]])
                                                 ELSE storage[clients[i]]
  <2>2. KickClient(i, block)
    BY <1>16, Zenon DEF FlushKick
  <2>4. block \in {"none", "owned", "freed", "touched"}
    <3>1. storage[clients[i]] \in {"none", "owned", "freed", "touched"}
      BY <2>1 DEF TypeOK
    <3> QED  BY <3>1 DEF DeleteBuf
  <2>3. /\ tcpPktQueue' \in [Conns -> Seq(Packet)]
        /\ storage' \in [Conns -> {"none", "owned", "freed", "touched"}]
        /\ clients' \in Seq(Conns)
    <3> HIDE DEF block
    <3> QED  BY <2>1, <2>2, <2>4, KickClientType
  <2> QED  BY <1>16, <2>3 DEF TypeOK, FlushKick, net
<1>17. CASE EndFlush
  BY <1>17 DEF TypeOK, EndFlush, net, client
<1>18. CASE HeapAbort
  BY <1>18 DEF TypeOK, HeapAbort, net, client
<1> QED
  BY <1>1, <1>2, <1>3, <1>4, <1>5, <1>6, <1>7, <1>8, <1>9, <1>10, <1>11, <1>12,
     <1>13, <1>14, <1>15, <1>16, <1>17, <1>18
     DEF Next, ServerStep, HandleStep, BroadcastStep, FlushStep

-----------------------------------------------------------------------------
(* The rest of the invariant.                                              *)

Safe == PlaceInv /\ RosterSound /\ SerialInv

(* What the roster's part of the invariant needs of a kick.                *)
LEMMA KickClientRoster ==
  ASSUME TypeOK, NEW k \in 1 .. Len(clients), NEW block, KickClient(k, block)
  PROVE  /\ Len(clients') = Len(clients) - 1
         /\ Members' \subseteq Members
         /\ NoRepeat(clients) => NoRepeat(clients')
BY EraseFacts DEF KickClient, TypeOK, Members

(* A step that only shrinks the roster or leaves it alone keeps it sound.  *)
LEMMA ShrinkStep ==
  ASSUME Inv, Members' \subseteq Members, Len(clients') <= Len(clients),
         NoRepeat(clients'), UNCHANGED <<peer, backlog, newConnections, pc, socket,
                                         issued, serial>>,
         Len(clients') \in Nat
  PROVE  Safe'
<1> USE ServerAssumption DEF Inv
<1>1. PlaceInv'
  <2>1. Len(clients) \in Nat
    BY DEF TypeOK
  <2>2. Len(clients) < MAX_PLAYERS => Len(clients') < MAX_PLAYERS
    BY <2>1
  <2> QED  BY <2>2 DEF PlaceInv
<1>2. RosterSound'
  BY DEF RosterSound, TypeOK
<1>3. SerialInv'
  BY DEF SerialInv
<1> QED  BY <1>1, <1>2, <1>3 DEF Safe

(* Every step keeps the roster, the places and the serial numbers sound.   *)
LEMMA SafeStep == Inv /\ [Next]_vars => Safe'
<1> SUFFICES ASSUME Inv, [Next]_vars PROVE Safe'
  OBVIOUS
<1> USE ServerAssumption
<1> USE DEF Inv, Safe
<1>0. Len(clients) \in Nat
  BY DEF TypeOK
<1>1. CASE UNCHANGED vars
  BY <1>1 DEF PlaceInv, RosterSound, SerialInv, Members, vars, net, client
<1>2. ASSUME NEW c \in Conns, Connect(c) PROVE Safe'
  <2>1. Elements(backlog') = Elements(backlog) \cup {c}
        /\ (c \notin Elements(backlog) => NoRepeat(backlog'))
    BY <1>2, AppendFacts DEF Connect, TypeOK, RosterSound
  <2>2. c \notin Elements(backlog) \cup Elements(newConnections) \cup Members \cup {socket}
    BY <1>2 DEF Connect, PlaceInv
  <2>3. UNCHANGED <<newConnections, pc, socket, clients, issued, serial, Members>>
        /\ \A d \in Conns : peer'[d] = "none" => peer[d] = "none" /\ d # c
    BY <1>2 DEF Connect, TypeOK, client, Members
  <2>4. PlaceInv'
    BY <2>1, <2>3 DEF PlaceInv
  <2>5. RosterSound'
    BY <2>1, <2>2, <2>3 DEF RosterSound
  <2>6. SerialInv'
    BY <2>3 DEF SerialInv
  <2> QED  BY <2>4, <2>5, <2>6
<1>3. ASSUME NEW c \in Conns, NEW what \in FirstPackets, Arrive(c, what) PROVE Safe'
  BY <1>3 DEF PlaceInv, RosterSound, SerialInv, Members, Arrive, client
<1>4. ASSUME NEW c \in Conns, Depart(c) PROVE Safe'
  <2>1. UNCHANGED <<backlog, newConnections, pc, socket, clients, issued, serial, Members>>
        /\ \A d \in Conns : peer'[d] = "none" => peer[d] = "none"
    BY <1>4 DEF Depart, TypeOK, client, Members
  <2> QED  BY <2>1 DEF PlaceInv, RosterSound, SerialInv
<1>5. CASE AddNewSocket
  <2> DEFINE c == Head(backlog)
  <2>1. /\ c \in Elements(backlog)
        /\ Elements(backlog') \subseteq Elements(backlog)
        /\ NoRepeat(backlog') /\ c \notin Elements(backlog')
    BY <1>5, TailFacts DEF AddNewSocket, TypeOK, RosterSound
  <2>2. c \in Conns
    BY <1>5 DEF AddNewSocket, TypeOK
  <2>3. /\ Elements(newConnections') = Elements(newConnections) \cup {c}
        /\ c \notin Elements(newConnections) => NoRepeat(newConnections')
    <3>1. newConnections \in Seq(Conns) /\ NoRepeat(newConnections)
      BY DEF TypeOK, RosterSound
    <3>2. newConnections' = Append(newConnections, c)
      BY <1>5 DEF AddNewSocket
    <3> HIDE DEF c
    <3> QED  BY <2>2, <3>1, <3>2, AppendFacts
  <2>4. UNCHANGED <<peer, pc, socket, clients, issued, serial, Members>>
    BY <1>5 DEF AddNewSocket, client, Members
  <2> HIDE DEF c
  <2>5. RosterSound'
    BY <2>1, <2>3, <2>4 DEF RosterSound
  <2>6. PlaceInv'
    BY <2>1, <2>2, <2>3, <2>4 DEF PlaceInv
  <2>7. SerialInv'
    BY <2>4 DEF SerialInv
  <2> QED  BY <2>5, <2>6, <2>7
<1>6. CASE GetNewSocket
  <2> DEFINE c == Head(newConnections)
  <2>1. /\ c \in Elements(newConnections)
        /\ Elements(newConnections') \subseteq Elements(newConnections)
        /\ NoRepeat(newConnections') /\ c \notin Elements(newConnections')
    BY <1>6, TailFacts DEF GetNewSocket, TypeOK, RosterSound
  <2>2. c \in Conns
    BY <1>6 DEF GetNewSocket, TypeOK
  <2>3. UNCHANGED <<peer, backlog, clients, issued, serial, Members>>
        /\ socket' = c /\ pc' = "decide"
    BY <1>6 DEF GetNewSocket, client, Members
  <2> HIDE DEF c
  <2>4. RosterSound'
    BY <2>1, <2>3 DEF RosterSound
  <2>5. PlaceInv'
    BY <2>1, <2>2, <2>3 DEF PlaceInv
  <2>6. SerialInv'
    BY <2>3 DEF SerialInv
  <2> QED  BY <2>4, <2>5, <2>6
<1>7. CASE NoNewConnection
  BY <1>7 DEF NoNewConnection, PlaceInv, RosterSound, SerialInv, Members, net, client
<1>8. ASSUME Reject \/ DropSocket \/ ReadFirstPacket PROVE Safe'
  <2>1. /\ UNCHANGED <<peer, backlog, newConnections, clients, issued, serial, Members>>
        /\ pc = "decide"
        /\ \/ pc' = "handle" /\ socket' = NoSocket
           \/ pc' \in {"spin", "respond"} /\ socket' = socket /\ ~ IsServerFull
    BY <1>8 DEF Reject, DropSocket, ReadFirstPacket, client, Members
  <2>2. NoSocket \notin Elements(backlog) \cup Elements(newConnections) \cup Members
    BY ElementsOfSeq DEF TypeOK, Members
  <2>3. PlaceInv'
    BY <1>0, <2>1, <2>2 DEF PlaceInv, IsServerFull
  <2>4. RosterSound'
    BY <2>1, <2>2 DEF RosterSound
  <2>5. SerialInv'
    BY <2>1 DEF SerialInv
  <2> QED  BY <2>3, <2>4, <2>5
<1>9. CASE ClientThrows
  <2>1. /\ UNCHANGED <<peer, backlog, newConnections, socket, clients, serial, Members>>
        /\ pc' = "aborted" /\ issued' = issued + 1
    BY <1>9 DEF ClientThrows, net, client, Members
  <2>2. \A c \in Members : serial[c] \in Nat
    BY DEF TypeOK, Members, Elements
  <2> QED  BY <2>1, <2>2 DEF PlaceInv, RosterSound, SerialInv, TypeOK
<1>10. CASE MakeClient
  <2>1. /\ UNCHANGED <<peer, backlog, newConnections, clients, Members>>
        /\ pc = "respond"
        /\ issued' = issued + 1
        /\ serial' = [serial EXCEPT ![socket] = issued]
        /\ \/ pc' = "broadcast" /\ socket' = socket
           \/ pc' = "handle" /\ socket' = NoSocket
    BY <1>10, Zenon DEF MakeClient, Members
  <2>2. NoSocket \notin Elements(backlog) \cup Elements(newConnections) \cup Members
    BY ElementsOfSeq DEF TypeOK, Members
  <2>3. socket \in Conns /\ socket \notin Members /\ Members \subseteq Conns
    <3>1. clients \in Seq(Conns)
      BY DEF TypeOK
    <3> QED  BY <2>1, <3>1, ElementsOfSeq DEF PlaceInv, RosterSound, Members
  <2>4. PlaceInv'
    BY <2>1, <2>2 DEF PlaceInv
  <2>5. RosterSound'
    BY <2>1, <2>2 DEF RosterSound
  <2>6. /\ issued \in Nat
        /\ serial'[socket] = issued
        /\ \A c \in Members : serial'[c] = serial[c] /\ serial[c] \in Nat
    BY <2>1, <2>3 DEF TypeOK
  <2>7. SerialInv'
    BY <2>1, <2>3, <2>6 DEF SerialInv
  <2> QED  BY <2>4, <2>5, <2>7
<1>11. CASE BroadcastJoin
  <2>1. UNCHANGED <<peer, backlog, newConnections, pc, socket, issued, serial>>
    BY <1>11, Zenon DEF BroadcastJoin, net
  <2>2. /\ Members' \subseteq Members /\ Len(clients') <= Len(clients)
        /\ NoRepeat(clients') /\ Len(clients') \in Nat
    <3>1. CASE clients' = clients
      BY <1>0, <3>1 DEF Members, RosterSound
    <3>2. CASE KickClient(i, storage[clients[i]])
      <4>1. i \in 1 .. Len(clients)
        BY <1>11 DEF BroadcastJoin, TypeOK
      <4> QED  BY <1>0, <3>2, <4>1, KickClientRoster DEF RosterSound
    <3> QED  BY <1>11, <3>1, <3>2, Zenon DEF BroadcastJoin
  <2> QED  BY <2>1, <2>2, ShrinkStep
<1>12. CASE AddClient
  <2>1. /\ UNCHANGED <<peer, backlog, newConnections, issued, serial>>
        /\ pc = "broadcast" /\ pc' = "handle" /\ socket' = NoSocket
        /\ clients' = Append(clients, socket)
    BY <1>12 DEF AddClient, net, client
  <2>2. socket \in Conns /\ Len(clients) < MAX_PLAYERS /\ socket \notin Members
    BY <2>1 DEF PlaceInv, RosterSound
  <2>3. /\ Members' = Members \cup {socket}
        /\ NoRepeat(clients')
        /\ Len(clients') = Len(clients) + 1
    BY <2>1, <2>2, AppendFacts DEF TypeOK, Members, RosterSound
  <2>4. NoSocket \notin Elements(backlog) \cup Elements(newConnections) \cup Members'
    BY <2>2, <2>3, ElementsOfSeq DEF TypeOK, Members
  <2>5. PlaceInv'
    BY <2>1, <2>3, <2>4 DEF PlaceInv
  <2>6. RosterSound'
    BY <1>0, <2>1, <2>2, <2>3, <2>4 DEF RosterSound
  <2>7. SerialInv'
    BY <2>1, <2>3 DEF SerialInv
  <2> QED  BY <2>5, <2>6, <2>7
<1>13. CASE FlushClient
  <2>1. UNCHANGED <<peer, backlog, newConnections, pc, socket, issued, serial, clients>>
    BY <1>13, Zenon DEF FlushClient
  <2> QED  BY <2>1 DEF PlaceInv, RosterSound, SerialInv, Members
<1>14. CASE FlushKick
  <2>1. UNCHANGED <<peer, backlog, newConnections, pc, socket, issued, serial>>
    BY <1>14, Zenon DEF FlushKick, net
  <2>2. i \in 1 .. Len(clients) /\ \E block : KickClient(i, block)
    <3>1. i \in Nat \ {0} /\ i <= Len(clients)
      BY <1>14 DEF FlushKick, TypeOK
    <3>2. \E block : KickClient(i, block)
      BY <1>14, Zenon DEF FlushKick
    <3> QED  BY <1>0, <3>1, <3>2
  <2>3. /\ Members' \subseteq Members /\ Len(clients') <= Len(clients)
        /\ NoRepeat(clients') /\ Len(clients') \in Nat
    BY <1>0, <2>2, KickClientRoster DEF RosterSound
  <2> QED  BY <2>1, <2>3, ShrinkStep
<1>15. ASSUME EndFlush \/ HeapAbort PROVE Safe'
  <2>1. /\ UNCHANGED <<peer, backlog, newConnections, socket, clients, issued, serial, Members>>
        /\ \/ pc = "flush" /\ pc' = "handle"
           \/ pc' = "aborted"
    BY <1>15, Zenon DEF EndFlush, HeapAbort, net, client, Members
  <2> QED  BY <2>1 DEF PlaceInv, RosterSound, SerialInv
<1> QED
  BY <1>1, <1>2, <1>3, <1>4, <1>5, <1>6, <1>7, <1>8, <1>9, <1>10, <1>11, <1>12,
     <1>13, <1>14, <1>15, Zenon
     DEF Next, ServerStep, HandleStep, BroadcastStep, FlushStep

-----------------------------------------------------------------------------
(* The theorems.                                                           *)

(* The inductive invariant holds when ServerLoop starts.                   *)
LEMMA InvInit == Init => Inv
<1> SUFFICES ASSUME Init PROVE Inv
  OBVIOUS
<1> USE ServerAssumption
<1>1. TypeOK
  BY DEF Init, TypeOK, Inbox, Team, TEAM_SPY
<1>2. Elements(<<>>) = {} /\ NoRepeat(<<>>)
  BY DEF Elements, NoRepeat
<1> QED  BY <1>1, <1>2 DEF Init, Inv, PlaceInv, RosterSound, SerialInv, Members

(* The inductive invariant: types, where each connection is, the soundness *)
(* of the roster and the order of the serial numbers.                      *)
THEOREM Invariance == Spec => []Inv
<1>1. Inv /\ [Next]_vars => Inv'
  BY TypeStep, SafeStep, Zenon DEF Inv, Safe
<1> QED  BY InvInit, <1>1, PTL DEF Spec

(* Server's variables keep their types in every reachable state, for any   *)
(* number of connections: in particular every packet queued or sent has a  *)
(* player number that fits an unsigned.                                    *)
THEOREM Typing == Spec => []TypeOK
<1>1. Inv => TypeOK
  BY DEF Inv
<1> QED  BY Invariance, <1>1, PTL

(* A connection is never in two places, no client is twice on the roster,  *)
(* and AcceptNewClient never pushes beyond MAX_PLAYERS.                    *)
THEOREM RosterSoundness == Spec => []RosterSound
<1>1. Inv => RosterSound
  BY DEF Inv
<1> QED  BY Invariance, <1>1, PTL

(* GetNextPlayerID: until its counter has gone once around, no two players *)
(* on the roster share a number.                                           *)
THEOREM PlayerNumbersDiffer == Spec => []UniqueIds
<1>1. Inv => UniqueIds
  <2> SUFFICES ASSUME Inv, issued <= IdMod,
                      NEW j \in 1 .. Len(clients), NEW k \in 1 .. Len(clients),
                      GetPlayerID(clients[j]) = GetPlayerID(clients[k])
               PROVE  j = k
    BY DEF UniqueIds
  <2>1. /\ clients[j] \in Members /\ clients[k] \in Members
        /\ clients[j] \in Conns /\ clients[k] \in Conns
    BY ElementsOfSeq DEF Inv, TypeOK, Members
  <2>2. /\ serial[clients[j]] \in Nat /\ serial[clients[k]] \in Nat
        /\ issued \in Nat /\ IdMod \in Nat
    BY <2>1, ServerAssumption DEF Inv, TypeOK
  <2>3. serial[clients[j]] < IdMod /\ serial[clients[k]] < IdMod
    BY <2>1, <2>2 DEF Inv, SerialInv
  <2>4. serial[clients[j]] = serial[clients[k]]
    BY <2>2, <2>3, PlayerIdFacts DEF GetPlayerID
  <2>5. clients[j] = clients[k]
    BY <2>1, <2>4 DEF Inv, SerialInv
  <2> QED  BY <2>5 DEF Inv, RosterSound, NoRepeat
<1> QED  BY Invariance, <1>1, PTL

-----------------------------------------------------------------------------
(* Lemmas about streams of packets.                                        *)

(* What inserting one vector at the end of another does.                   *)
LEMMA ConcatFacts ==
  ASSUME NEW S, NEW s \in Seq(S), NEW t \in Seq(S)
  PROVE  /\ s \o t \in Seq(S)
         /\ Len(s \o t) = Len(s) + Len(t)
         /\ \A k \in 1 .. Len(s) : (s \o t)[k] = s[k]
         /\ \A k \in 1 .. Len(t) : (s \o t)[Len(s) + k] = t[k]
         /\ Elements(s \o t) = Elements(s) \cup Elements(t)
<1>1. /\ s \o t \in Seq(S) /\ Len(s \o t) = Len(s) + Len(t)
      /\ Len(s) \in Nat /\ Len(t) \in Nat
  OBVIOUS
<1>2. \A k \in 1 .. Len(s) : (s \o t)[k] = s[k]
  OBVIOUS
<1>3. \A k \in 1 .. Len(t) : (s \o t)[Len(s) + k] = t[k]
  OBVIOUS
<1>4. Elements(s \o t) \subseteq Elements(s) \cup Elements(t)
  <2> SUFFICES ASSUME NEW k \in 1 .. Len(s \o t)
               PROVE  (s \o t)[k] \in Elements(s) \cup Elements(t)
    BY DEF Elements
  <2>1. CASE k \in 1 .. Len(s)
    BY <1>2, <2>1 DEF Elements
  <2>2. CASE k \notin 1 .. Len(s)
    <3>1. k - Len(s) \in 1 .. Len(t) /\ k = Len(s) + (k - Len(s))
      BY <1>1, <2>2
    <3> QED  BY <1>3, <3>1 DEF Elements
  <2> QED  BY <2>1, <2>2
<1>5. Elements(s) \subseteq Elements(s \o t)
  <2> SUFFICES ASSUME NEW k \in 1 .. Len(s) PROVE s[k] \in Elements(s \o t)
    BY DEF Elements
  <2>1. k \in 1 .. Len(s \o t)
    BY <1>1
  <2> QED  BY <1>2, <2>1 DEF Elements
<1>6. Elements(t) \subseteq Elements(s \o t)
  <2> SUFFICES ASSUME NEW k \in 1 .. Len(t) PROVE t[k] \in Elements(s \o t)
    BY DEF Elements
  <2>1. Len(s) + k \in 1 .. Len(s \o t)
    BY <1>1
  <2> QED  BY <1>3, <2>1 DEF Elements
<1> QED  BY <1>1, <1>2, <1>3, <1>4, <1>5, <1>6

(* The empty vector.                                                       *)
LEMMA EmptyFacts ==
  /\ \A S : <<>> \in Seq(S)
  /\ Len(<<>>) = 0 /\ Elements(<<>>) = {}
  /\ \A S : \A s \in Seq(S) : Len(s) = 0 <=> s = <<>>
BY DEF Elements

(* The packets by their types.                                             *)
LEMMA PacketTypes ==
  /\ \A r, n, t : JoinResponse(r, n, t).type = "PACKET_JOIN_RESPONSE"
  /\ \A n, t : /\ PlayerDidJoin(n, t).type = "PACKET_PLAYER_DID_JOIN"
               /\ PlayerDidJoin(n, t).playerID = n /\ PlayerDidJoin(n, t).team = t
  /\ \A n : /\ PlayerDidLeave(n).type = "PACKET_PLAYER_DID_LEAVE"
            /\ PlayerDidLeave(n).playerID = n
BY DEF JoinResponse, PlayerDidJoin, PlayerDidLeave

(* The first packet is the response, and it is the only one.               *)
Opens(s) == \A k \in 1 .. Len(s) : (s[k].type = "PACKET_JOIN_RESPONSE") <=> (k = 1)

(* Packets behind the response keep the stream as it should be.            *)
LEMMA OpensFacts ==
  /\ Opens(<<>>)
  /\ \A p \in Packet : p.type = "PACKET_JOIN_RESPONSE"
       => Opens(Append(<<>>, p)) /\ Append(<<>>, p) # <<>> /\ Append(<<>>, p)[1] = p
            /\ Elements(Append(<<>>, p)) = {p}
  /\ \A s, t \in Seq(Packet) :
       Opens(s) /\ s # <<>> /\ (\A p \in Elements(t) : p.type # "PACKET_JOIN_RESPONSE")
         => Opens(s \o t) /\ s \o t # <<>> /\ (s \o t)[1] = s[1]
<1>1. Opens(<<>>)
  BY EmptyFacts DEF Opens
<1>2. ASSUME NEW p \in Packet, p.type = "PACKET_JOIN_RESPONSE"
      PROVE  Opens(Append(<<>>, p)) /\ Append(<<>>, p) # <<>> /\ Append(<<>>, p)[1] = p
               /\ Elements(Append(<<>>, p)) = {p}
  <2>1. Append(<<>>, p) = <<p>>
    OBVIOUS
  <2>2. Len(<<p>>) = 1 /\ <<p>>[1] = p
    OBVIOUS
  <2>3. <<p>> # <<>>
    BY <2>2, EmptyFacts
  <2> QED  BY <1>2, <2>1, <2>2, <2>3 DEF Opens, Elements
<1>3. ASSUME NEW s \in Seq(Packet), NEW t \in Seq(Packet), Opens(s), s # <<>>,
             \A p \in Elements(t) : p.type # "PACKET_JOIN_RESPONSE"
      PROVE  Opens(s \o t) /\ s \o t # <<>> /\ (s \o t)[1] = s[1]
  <2>1. Len(s) \in Nat \ {0} /\ Len(t) \in Nat
    BY <1>3, EmptyFacts
  <2>2. Len(s \o t) = Len(s) + Len(t) /\ s \o t \in Seq(Packet)
    BY ConcatFacts
  <2>3. \A k \in 1 .. Len(s) : (s \o t)[k] = s[k]
    BY ConcatFacts
  <2>4. \A k \in 1 .. Len(t) : (s \o t)[Len(s) + k] = t[k]
    BY ConcatFacts
  <2>5. s \o t # <<>> /\ (s \o t)[1] = s[1]
    BY <2>1, <2>2, <2>3, EmptyFacts
  <2>6. ASSUME NEW k \in 1 .. Len(s \o t)
        PROVE  ((s \o t)[k].type = "PACKET_JOIN_RESPONSE") <=> (k = 1)
    <3>1. CASE k \in 1 .. Len(s)
      BY <1>3, <2>3, <3>1 DEF Opens
    <3>2. CASE k \notin 1 .. Len(s)
      <4>1. k - Len(s) \in 1 .. Len(t) /\ k = Len(s) + (k - Len(s)) /\ k # 1
        BY <2>1, <2>2, <3>2
      <4>2. (s \o t)[k] = t[k - Len(s)] /\ t[k - Len(s)] \in Elements(t)
        BY <2>4, <4>1 DEF Elements
      <4> QED  BY <1>3, <4>1, <4>2
    <3> QED  BY <3>1, <3>2
  <2> QED  BY <2>5, <2>6 DEF Opens
<1> QED  BY <1>1, <1>2, <1>3

-----------------------------------------------------------------------------
(* The invariant behind the streams.  A connection is fresh until the      *)
(* server has answered or dropped it: it has been sent nothing yet, which  *)
(* is what makes the response the first packet.  Nobody whose end of       *)
(* stream was seen gets on the roster, so Broadcast kicks no one and the   *)
(* team chosen by MakeClient is still the right one in AddClient.          *)

Fresh(c) ==
  \/ peer[c] = "none"
  \/ c \in Elements(backlog) \cup Elements(newConnections)
  \/ c = socket /\ pc \in {"decide", "respond"}

Told(c) == wire[c] # <<>> /\ wire[c][1] = JoinResponse(1, GetPlayerID(c), team[c])

TalkInv ==
  /\ \A c \in Conns : Fresh(c) => wire[c] = <<>> /\ tcpDisconnect[c] = FALSE
  /\ \A c \in Conns \ Members : tcpPktQueue[c] = <<>>
  /\ \A c \in Members : Told(c) /\ tcpDisconnect[c] = FALSE
  /\ pc = "broadcast" =>
       /\ Told(socket) /\ tcpDisconnect[socket] = FALSE
       /\ Elements(wire[socket]) = {wire[socket][1]}
       /\ team[socket] = GetTeamForNextPlayer
  /\ \A c \in Conns : /\ Opens(wire[c])
                      /\ \A p \in Elements(tcpPktQueue[c]) : p.type # "PACKET_JOIN_RESPONSE"

-----------------------------------------------------------------------------
(* The invariant of the streams is inductive.                              *)

(* The vector of clients and its elements.                                 *)
LEMMA RosterTypes ==
  ASSUME Inv
  PROVE  /\ clients \in Seq(Conns) /\ Len(clients) \in Nat /\ Members \subseteq Conns
         /\ \A k \in 1 .. Len(clients) : clients[k] \in Members /\ clients[k] \in Conns
<1>1. clients \in Seq(Conns)
  BY DEF Inv, TypeOK
<1> QED  BY <1>1, ElementsOfSeq DEF Members

(* A connection the server is yet to answer is not on the roster.          *)
LEMMA FreshNotSeated ==
  ASSUME Inv, NEW c \in Conns, Fresh(c)
  PROVE  c \notin Members /\ (pc = "broadcast" => c # socket)
<1>1. CASE peer[c] = "none"
  BY <1>1 DEF Inv, PlaceInv
<1>2. CASE c \in Elements(backlog) \cup Elements(newConnections)
  BY <1>2 DEF Inv, RosterSound
<1>3. CASE c = socket /\ pc \in {"decide", "respond"}
  BY <1>3 DEF Inv, RosterSound
<1> QED  BY <1>1, <1>2, <1>3 DEF Fresh

(* The socket of HandleNewTCPConnections is not fresh once it is let go.   *)
LEMMA Settled ==
  ASSUME Inv, NEW c \in Conns, c = socket, UNCHANGED <<peer, backlog, newConnections>>,
         pc' \notin {"decide", "respond"}
  PROVE  ~ Fresh(c)'
BY DEF Fresh, Inv, PlaceInv, RosterSound

(* No step makes a connection fresh again.                                 *)
LEMMA FreshStep ==
  ASSUME Inv, [Next]_vars, NEW c \in Conns, Fresh(c)'
  PROVE  Fresh(c)
<1>1. CASE UNCHANGED <<peer, backlog, newConnections>> /\ (c = socket' => socket' = socket)
             /\ (pc' \in {"decide", "respond"} => pc \in {"decide", "respond"})
  BY <1>1 DEF Fresh
<1>2. ASSUME NEW d \in Conns, Connect(d) PROVE Fresh(c)
  <2>1. Elements(backlog') = Elements(backlog) \cup {d}
    BY <1>2, AppendFacts DEF Connect, Inv, TypeOK
  <2>2. peer[d] = "none" /\ UNCHANGED <<newConnections, socket, pc>>
        /\ (peer'[c] = "none" => peer[c] = "none")
    BY <1>2 DEF Connect, Inv, TypeOK
  <2> QED  BY <2>1, <2>2 DEF Fresh
<1>3. ASSUME NEW d \in Conns, Depart(d) PROVE Fresh(c)
  <2>1. UNCHANGED <<backlog, newConnections, socket, pc>>
        /\ (peer'[c] = "none" => peer[c] = "none")
    BY <1>3 DEF Depart, Inv, TypeOK
  <2> QED  BY <2>1 DEF Fresh
<1>4. CASE AddNewSocket
  <2>1. Head(backlog) \in Elements(backlog) /\ Elements(backlog') \subseteq Elements(backlog)
    BY <1>4, TailFacts DEF AddNewSocket, Inv, TypeOK
  <2>2. Elements(newConnections') = Elements(newConnections) \cup {Head(backlog)}
    <3>1. Head(backlog) \in Conns
      BY <1>4 DEF AddNewSocket, Inv, TypeOK
    <3>2. newConnections \in Seq(Conns) /\ newConnections' = Append(newConnections, Head(backlog))
      BY <1>4 DEF AddNewSocket, Inv, TypeOK
    <3> QED  BY <3>1, <3>2, AppendFacts
  <2>3. UNCHANGED <<peer, socket, pc>>
    BY <1>4 DEF AddNewSocket
  <2> QED  BY <2>1, <2>2, <2>3 DEF Fresh
<1>5. CASE GetNewSocket
  <2>1. /\ Head(newConnections) \in Elements(newConnections)
        /\ Elements(newConnections') \subseteq Elements(newConnections)
    BY <1>5, TailFacts DEF GetNewSocket, Inv, TypeOK
  <2>2. UNCHANGED <<peer, backlog>> /\ socket' = Head(newConnections)
    BY <1>5 DEF GetNewSocket
  <2> QED  BY <2>1, <2>2 DEF Fresh
<1>6. ASSUME NEW d \in Conns, NEW what \in FirstPackets, Arrive(d, what) PROVE Fresh(c)
  BY <1>1, <1>6 DEF Arrive
<1>7. CASE HandleStep /\ ~ GetNewSocket
  <2>1. NoSocket # c
    BY ServerAssumption
  <2>2. UNCHANGED <<peer, backlog, newConnections>> /\ socket' \in {socket, NoSocket}
    BY <1>7 DEF HandleStep, NoNewConnection, Reject, DropSocket, ReadFirstPacket, ClientThrows,
                MakeClient, net
  <2>3. pc' \in {"decide", "respond"} => pc \in {"decide", "respond"}
    BY <1>7 DEF HandleStep, NoNewConnection, Reject, DropSocket, ReadFirstPacket, ClientThrows,
                MakeClient
  <2> QED  BY <1>1, <2>1, <2>2, <2>3
<1>8. CASE BroadcastStep \/ FlushStep \/ HeapAbort \/ UNCHANGED vars
  <2>1. NoSocket # c
    BY ServerAssumption
  <2>2. UNCHANGED <<peer, backlog, newConnections>> /\ socket' \in {socket, NoSocket}
    BY <1>8 DEF BroadcastStep, FlushStep, HeapAbort, vars, net, BroadcastJoin, AddClient,
                FlushClient, FlushKick, EndFlush
  <2>3. pc' \in {pc, "handle", "aborted"}
    BY <1>8 DEF BroadcastStep, FlushStep, HeapAbort, vars, net, BroadcastJoin, AddClient,
                FlushClient, FlushKick, EndFlush
  <2> QED  BY <1>1, <2>1, <2>2, <2>3
<1> QED
  BY <1>2, <1>3, <1>4, <1>5, <1>6, <1>7, <1>8 DEF Next, ServerStep

(* The team sizes depend on the roster and its teams only.                 *)
LEMMA TeamsUnchanged ==
  ASSUME Members' = Members, \A c \in Members : team'[c] = team[c]
  PROVE  GetTeamForNextPlayer' = GetTeamForNextPlayer
<1>1. \A t : {c \in Members' : team'[c] = t} = {c \in Members : team[c] = t}
  OBVIOUS
<1> QED  BY <1>1, Zenon DEF GetTeamForNextPlayer, TeamCount

(* A step that leaves the streams and the roster alone.                    *)
LEMMA QuietStep ==
  ASSUME Inv, TalkInv, [Next]_vars,
         UNCHANGED <<wire, tcpPktQueue, clients, serial, team>>,
         \A c \in Conns : \/ tcpDisconnect'[c] = tcpDisconnect[c]
                          \/ Fresh(c) /\ ~ Fresh(c)',
         pc' = "broadcast" => pc = "broadcast" /\ socket' = socket
  PROVE  TalkInv'
<1>0. Members' = Members /\ Members \subseteq Conns
  BY ElementsOfSeq DEF Members, Inv, TypeOK
<1>1. \A c \in Conns : Fresh(c)' => wire'[c] = <<>> /\ tcpDisconnect'[c] = FALSE
  BY FreshStep DEF TalkInv
<1>2. \A c \in Members : tcpDisconnect'[c] = tcpDisconnect[c]
  BY <1>0, FreshNotSeated
<1>3. \A c \in Members : Told(c)' /\ tcpDisconnect'[c] = FALSE
  BY <1>2 DEF TalkInv, Told, GetPlayerID
<1>4. GetTeamForNextPlayer' = GetTeamForNextPlayer
  BY <1>0, TeamsUnchanged
<1>5. ASSUME pc' = "broadcast"
      PROVE  /\ Told(socket)' /\ tcpDisconnect'[socket'] = FALSE
             /\ Elements(wire[socket])' = {wire'[socket'][1]}
             /\ team'[socket'] = GetTeamForNextPlayer'
  <2>1. pc = "broadcast" /\ socket' = socket /\ socket \in Conns
    BY <1>5 DEF Inv, PlaceInv
  <2>2. tcpDisconnect'[socket] = tcpDisconnect[socket]
    BY <2>1, FreshNotSeated
  <2> QED  BY <1>4, <2>1, <2>2 DEF TalkInv, Told, GetPlayerID
<1>6. \A c \in Conns \ Members' : tcpPktQueue'[c] = <<>>
  BY <1>0 DEF TalkInv
<1>7. \A c \in Conns : /\ Opens(wire[c])'
                       /\ \A p \in Elements(tcpPktQueue'[c]) : p.type # "PACKET_JOIN_RESPONSE"
  BY DEF TalkInv
<1> QED  BY <1>0, <1>1, <1>3, <1>5, <1>6, <1>7, Zenon DEF TalkInv

(* A kick: the others are queued a packet, the kicked one's queue is gone. *)
LEMMA KickClientQueues ==
  ASSUME Inv, NEW k \in 1 .. Len(clients), NEW block, KickClient(k, block)
  PROVE  /\ clients[k] \in Conns /\ clients[k] \in Members
         /\ Members' = Members \ {clients[k]}
         /\ tcpPktQueue'[clients[k]] = <<>>
         /\ \A c \in Members \ {clients[k]} :
              tcpPktQueue'[c] = Append(tcpPktQueue[c], PlayerDidLeave(GetPlayerID(clients[k])))
         /\ \A c \in Conns \ Members : tcpPktQueue'[c] = tcpPktQueue[c]
<1>1. clients \in Seq(Conns) /\ NoRepeat(clients) /\ tcpPktQueue \in [Conns -> Seq(Packet)]
  BY DEF Inv, TypeOK, RosterSound
<1>2. clients[k] \in Conns /\ clients[k] \in Members /\ Members \subseteq Conns
  BY <1>1, ElementsOfSeq DEF Members
<1>3. clients' = Erase(clients, k)
  BY DEF KickClient
<1>4. Members' = Elements(Erase(clients, k))
  BY <1>3 DEF Members
<1>5. /\ Len(Erase(clients, k)) = Len(clients) - 1
      /\ \A n \in 1 .. Len(clients) - 1 :
           Erase(clients, k)[n] = IF n < k THEN clients[n] ELSE clients[n + 1]
  BY <1>1, EraseFacts DEF Erase
<1>6. Members \ {clients[k]} \subseteq Elements(Erase(clients, k))
  <2> SUFFICES ASSUME NEW n \in 1 .. Len(clients), n # k
               PROVE  clients[n] \in Elements(Erase(clients, k))
    BY DEF Members, Elements
  <2>1. Len(clients) \in Nat
    BY <1>1
  <2>2. CASE n < k
    <3>1. n \in 1 .. Len(clients) - 1
      BY <2>1, <2>2
    <3> QED  BY <1>5, <2>2, <3>1 DEF Elements
  <2>3. CASE n > k
    <3>1. n - 1 \in 1 .. Len(clients) - 1 /\ ~ (n - 1 < k) /\ (n - 1) + 1 = n
      BY <2>1, <2>3
    <3> QED  BY <1>5, <3>1 DEF Elements
  <2> QED  BY <2>1, <2>2, <2>3
<1>7. Members' = Members \ {clients[k]}
  BY <1>1, <1>4, <1>6, EraseFacts DEF Members
<1>8. tcpPktQueue' = [Queued(Members \ {clients[k]}, PlayerDidLeave(GetPlayerID(clients[k])))
                        EXCEPT ![clients[k]] = <<>>]
  BY DEF KickClient
<1> QED  BY <1>2, <1>7, <1>8 DEF Queued

(* In the middle of Broadcast there is nobody to kick.                     *)
LEMMA BroadcastQueues ==
  ASSUME Inv, TalkInv, BroadcastJoin
  PROVE  /\ i \in 1 .. Len(clients) /\ i' = i + 1 /\ clients' = clients
         /\ clients[i] \in Members /\ clients[i] \in Conns
         /\ tcpPktQueue'[clients[i]] =
              Append(tcpPktQueue[clients[i]], PlayerDidJoin(GetPlayerID(socket), team[socket]))
         /\ \A c \in Conns \ {clients[i]} : tcpPktQueue'[c] = tcpPktQueue[c]
<1>1. i \in 1 .. Len(clients)
  BY DEF BroadcastJoin, Inv, TypeOK
<1>2. clients[i] \in Members /\ clients[i] \in Conns
  BY <1>1, ElementsOfSeq DEF Members, Inv, TypeOK
<1>3. IsConnected(clients[i])
  BY <1>2 DEF TalkInv, IsConnected
<1>4. /\ tcpPktQueue' = Queued({clients[i]}, PlayerDidJoin(GetPlayerID(socket), team[socket]))
      /\ i' = i + 1 /\ clients' = clients
  BY <1>3 DEF BroadcastJoin
<1> QED  BY <1>1, <1>2, <1>4 DEF Queued

LEMMA TalkInit == Init => TalkInv
<1> SUFFICES ASSUME Init PROVE TalkInv
  OBVIOUS
<1>1. Members = {}
  BY EmptyFacts DEF Init, Members
<1> QED  BY <1>1, EmptyFacts, OpensFacts DEF Init, TalkInv

(* A queue that is given one more packet.                                  *)
LEMMA QueuedMore ==
  ASSUME NEW q \in Seq(Packet), NEW p \in Packet, p.type # "PACKET_JOIN_RESPONSE",
         \A r \in Elements(q) : r.type # "PACKET_JOIN_RESPONSE"
  PROVE  \A r \in Elements(Append(q, p)) : r.type # "PACKET_JOIN_RESPONSE"
BY AppendFacts

(* A step that queues packets and may shrink the roster, no more.          *)
LEMMA QueueingStep ==
  ASSUME Inv, TalkInv, [Next]_vars,
         UNCHANGED <<wire, serial, team, tcpDisconnect, pc, socket>>,
         Members' \subseteq Members, pc = "broadcast" => Members' = Members,
         \A c \in Conns \ Members' : tcpPktQueue'[c] = <<>>,
         \A c \in Members' : tcpPktQueue'[c] = tcpPktQueue[c]
            \/ \E p \in Packet : /\ p.type # "PACKET_JOIN_RESPONSE"
                                 /\ tcpPktQueue'[c] = Append(tcpPktQueue[c], p)
  PROVE  TalkInv'
<1>0. Members \subseteq Conns /\ tcpPktQueue \in [Conns -> Seq(Packet)]
  BY RosterTypes DEF Inv, TypeOK
<1>1. \A c \in Conns : Fresh(c)' => wire'[c] = <<>> /\ tcpDisconnect'[c] = FALSE
  BY FreshStep DEF TalkInv
<1>2. \A c \in Members' : Told(c)' /\ tcpDisconnect'[c] = FALSE
  BY DEF TalkInv, Told, GetPlayerID
<1>3. ASSUME pc' = "broadcast"
      PROVE  /\ Told(socket)' /\ tcpDisconnect'[socket'] = FALSE
             /\ Elements(wire[socket])' = {wire'[socket'][1]}
             /\ team'[socket'] = GetTeamForNextPlayer'
  <2>1. GetTeamForNextPlayer' = GetTeamForNextPlayer
    BY <1>3, TeamsUnchanged
  <2> QED  BY <1>3, <2>1 DEF TalkInv, Told, GetPlayerID
<1>4. ASSUME NEW c \in Conns
      PROVE  \A p \in Elements(tcpPktQueue'[c]) : p.type # "PACKET_JOIN_RESPONSE"
  <2>1. \A p \in Elements(tcpPktQueue[c]) : p.type # "PACKET_JOIN_RESPONSE"
    BY DEF TalkInv
  <2>2. tcpPktQueue[c] \in Seq(Packet)
    BY <1>0
  <2>3. CASE c \notin Members'
    BY <2>3, EmptyFacts
  <2>4. CASE c \in Members'
    BY <2>1, <2>2, <2>4, QueuedMore
  <2> QED  BY <2>3, <2>4
<1>5. \A c \in Conns : Opens(wire[c])'
  BY DEF TalkInv
<1> QED  BY <1>1, <1>2, <1>3, <1>4, <1>5, Zenon DEF TalkInv

(* The packets about players are not responses.                            *)
LEMMA NotResponses ==
  ASSUME Inv, NEW c \in Conns
  PROVE  /\ PlayerDidJoin(GetPlayerID(c), team[c]) \in Packet
         /\ PlayerDidLeave(GetPlayerID(c)) \in Packet
         /\ JoinResponse(1, GetPlayerID(c), team[c]) \in Packet
         /\ PlayerDidJoin(GetPlayerID(c), team[c]).type # "PACKET_JOIN_RESPONSE"
         /\ PlayerDidLeave(GetPlayerID(c)).type # "PACKET_JOIN_RESPONSE"
<1>1. serial[c] \in Nat /\ team[c] \in Team
  BY DEF Inv, TypeOK
<1> QED  BY <1>1, PacketFacts, PacketTypes DEF GetPlayerID

(* The server answers a connection: its stream begins.                     *)
LEMMA AnswerStep ==
  ASSUME Inv, TalkInv, [Next]_vars, socket \in Conns, Fresh(socket),
         UNCHANGED <<peer, backlog, newConnections, clients, tcpPktQueue, tcpDisconnect>>,
         NEW p \in Packet, p.type = "PACKET_JOIN_RESPONSE",
         wire' = wire \/ wire' = [wire EXCEPT ![socket] = Append(@, p)],
         \A c \in Conns \ {socket} : serial'[c] = serial[c] /\ team'[c] = team[c],
         \/ pc' = "handle"
         \/ /\ pc' = "broadcast" /\ socket' = socket /\ wire' # wire
            /\ p = JoinResponse(1, PlayerIdAfter(serial'[socket]), team'[socket])
            /\ team'[socket] = GetTeamForNextPlayer
  PROVE  TalkInv'
<1>0. /\ Members' = Members /\ Members \subseteq Conns /\ socket \notin Members
      /\ wire \in [Conns -> Seq(Packet)]
  BY ElementsOfSeq, FreshNotSeated DEF Members, Inv, TypeOK
<1>1. /\ wire[socket] = <<>> /\ tcpDisconnect[socket] = FALSE
      /\ \A c \in Conns \ {socket} : wire'[c] = wire[c]
      /\ wire'[socket] \in {wire[socket], Append(wire[socket], p)}
  BY <1>0 DEF TalkInv
<1>2. pc' \notin {"decide", "respond"}
  OBVIOUS
<1>3. \A c \in Conns : Fresh(c)' => wire'[c] = <<>> /\ tcpDisconnect'[c] = FALSE
  <2> SUFFICES ASSUME NEW c \in Conns, Fresh(c)'
               PROVE  wire'[c] = <<>> /\ tcpDisconnect'[c] = FALSE
    OBVIOUS
  <2>1. c # socket
    BY <1>2, Settled
  <2>2. Fresh(c)
    BY FreshStep
  <2> QED  BY <1>1, <2>1, <2>2 DEF TalkInv
<1>4. \A c \in Members' : Told(c)' /\ tcpDisconnect'[c] = FALSE
  BY <1>0, <1>1 DEF TalkInv, Told, GetPlayerID
<1>5. ASSUME pc' = "broadcast"
      PROVE  /\ Told(socket)' /\ tcpDisconnect'[socket'] = FALSE
             /\ Elements(wire[socket])' = {wire'[socket'][1]}
             /\ team'[socket'] = GetTeamForNextPlayer'
  <2>1. /\ socket' = socket /\ wire' # wire
        /\ p = JoinResponse(1, PlayerIdAfter(serial'[socket]), team'[socket])
        /\ team'[socket] = GetTeamForNextPlayer
    BY <1>5
  <2>2. wire'[socket] = Append(<<>>, p)
    BY <1>0, <1>1, <2>1
  <2>3. wire'[socket] # <<>> /\ wire'[socket][1] = p /\ Elements(wire'[socket]) = {p}
    BY <2>2, OpensFacts
  <2>4. GetTeamForNextPlayer' = GetTeamForNextPlayer
    BY <1>0, TeamsUnchanged
  <2> QED  BY <1>1, <2>1, <2>3, <2>4 DEF Told, GetPlayerID
<1>6. \A c \in Conns : Opens(wire[c])'
  <2>1. Opens(wire'[socket])
    BY <1>1, OpensFacts
  <2>2. \A c \in Conns \ {socket} : Opens(wire'[c])
    BY <1>1 DEF TalkInv
  <2> QED  BY <2>1, <2>2
<1>7. /\ \A c \in Conns \ Members' : tcpPktQueue'[c] = <<>>
      /\ \A c \in Conns : \A q \in Elements(tcpPktQueue'[c]) : q.type # "PACKET_JOIN_RESPONSE"
  BY <1>0 DEF TalkInv
<1> QED  BY <1>3, <1>4, <1>5, <1>6, <1>7, Zenon DEF TalkInv

LEMMA TalkStep == Inv /\ TalkInv /\ [Next]_vars => TalkInv'
<1> SUFFICES ASSUME Inv, TalkInv, [Next]_vars PROVE TalkInv'
  OBVIOUS
<1>0. Members \subseteq Conns /\ clients \in Seq(Conns)
  BY RosterTypes DEF Inv, TypeOK
<1>1. ASSUME UNCHANGED <<wire, tcpPktQueue, clients, serial, team, tcpDisconnect>>,
             pc' = "broadcast" => pc = "broadcast" /\ socket' = socket
      PROVE  TalkInv'
  BY <1>1, QuietStep
<1>2. CASE (\E c \in Conns : Connect(c) \/ Depart(c) \/ \E what \in FirstPackets : Arrive(c, what))
             \/ AddNewSocket \/ GetNewSocket \/ NoNewConnection \/ ReadFirstPacket
             \/ ClientThrows \/ EndFlush \/ HeapAbort \/ UNCHANGED vars
  <2>1. UNCHANGED <<wire, tcpPktQueue, clients, serial, team, tcpDisconnect>>
    BY <1>2 DEF Connect, Depart, Arrive, AddNewSocket, GetNewSocket, NoNewConnection,
                ReadFirstPacket, ClientThrows, EndFlush, HeapAbort, vars, net, client
  <2>2. pc' = "broadcast" => pc = "broadcast" /\ socket' = socket
    BY <1>2 DEF Connect, Depart, Arrive, AddNewSocket, GetNewSocket, NoNewConnection,
                ReadFirstPacket, ClientThrows, EndFlush, HeapAbort, vars, net, client
  <2> QED  BY <1>1, <2>1, <2>2
<1>3. CASE DropSocket
  <2>1. /\ UNCHANGED <<peer, backlog, newConnections, wire, tcpPktQueue, clients, serial, team>>
        /\ pc' = "handle" /\ pc = "decide"
    BY <1>3 DEF DropSocket, client
  <2>2. socket \in Conns
    BY <2>1 DEF Inv, PlaceInv
  <2>3. tcpDisconnect' = tcpDisconnect
          \/ \E eof \in BOOLEAN : tcpDisconnect' = [tcpDisconnect EXCEPT ![socket] = eof]
    BY <1>3 DEF DropSocket
  <2>4. \A c \in Conns : tcpDisconnect'[c] = tcpDisconnect[c] \/ c = socket
    BY <2>3 DEF Inv, TypeOK
  <2>5. \A c \in Conns : c = socket => Fresh(c) /\ ~ Fresh(c)'
    BY <2>1, Settled DEF Fresh
  <2> QED  BY <2>1, <2>4, <2>5, QuietStep
<1>4. CASE Reject
  <2>1. /\ UNCHANGED <<peer, backlog, newConnections, clients, serial, team, tcpPktQueue,
                       tcpDisconnect>>
        /\ pc' = "handle" /\ pc = "decide"
    BY <1>4 DEF Reject, client
  <2>2. socket \in Conns /\ Fresh(socket)
    BY <2>1 DEF Inv, PlaceInv, Fresh
  <2>3. PICK p \in Packet : p = JoinResponse(0, 0, TEAM_SPY)
    <3>1. JoinResponse(0, 0, TEAM_SPY) \in Packet
      BY PacketFacts DEF Team, TEAM_SPY
    <3> QED  BY <3>1
  <2>4. wire' = wire \/ wire' = [wire EXCEPT ![socket] = Append(@, p)]
    BY <1>4, <2>3 DEF Reject
  <2>5. p.type = "PACKET_JOIN_RESPONSE"
    BY <2>3, PacketTypes
  <2> QED  BY <2>1, <2>2, <2>4, <2>5, AnswerStep
<1>5. CASE MakeClient
  <2>1. /\ UNCHANGED <<peer, backlog, newConnections, clients, tcpPktQueue, tcpDisconnect>>
        /\ pc = "respond"
        /\ serial' = [serial EXCEPT ![socket] = issued]
        /\ team' = [team EXCEPT ![socket] = GetTeamForNextPlayer]
    BY <1>5, Zenon DEF MakeClient
  <2>2. socket \in Conns /\ Fresh(socket)
    BY <2>1 DEF Inv, PlaceInv, Fresh
  <2>3. /\ serial'[socket] = issued /\ team'[socket] = GetTeamForNextPlayer
        /\ \A c \in Conns \ {socket} : serial'[c] = serial[c] /\ team'[c] = team[c]
    BY <2>1, <2>2 DEF Inv, TypeOK
  <2>4. PICK p \in Packet : p = JoinResponse(1, PlayerIdAfter(issued), GetTeamForNextPlayer)
    <3>1. GetTeamForNextPlayer \in Team /\ issued \in Nat
      BY DEF GetTeamForNextPlayer, Team, Inv, TypeOK
    <3> QED  BY <3>1, PacketFacts
  <2>5. \/ pc' = "broadcast" /\ socket' = socket /\ wire' = [wire EXCEPT ![socket] = Append(@, p)]
        \/ pc' = "handle" /\ wire' = wire
    BY <1>5, <2>4, Zenon DEF MakeClient
  <2>6. [wire EXCEPT ![socket] = Append(@, p)] # wire
    <3>1. wire[socket] = <<>> /\ wire \in [Conns -> Seq(Packet)]
      BY <2>2 DEF TalkInv, Inv, TypeOK
    <3>2. Append(<<>>, p) # <<>>
      BY EmptyFacts
    <3> QED  BY <2>2, <3>1, <3>2
  <2>7. p.type = "PACKET_JOIN_RESPONSE"
    BY <2>4, PacketTypes
  <2>8. p = JoinResponse(1, PlayerIdAfter(serial'[socket]), team'[socket])
    BY <2>3, <2>4
  <2> QED  BY <2>1, <2>2, <2>3, <2>5, <2>6, <2>7, <2>8, AnswerStep
<1>6. CASE BroadcastJoin
  <2>1. UNCHANGED <<wire, serial, team, tcpDisconnect, pc, socket>> /\ pc = "broadcast"
    BY <1>6, Zenon DEF BroadcastJoin, net
  <2>2. socket \in Conns /\ clients' = clients
    BY <1>6, <2>1, BroadcastQueues DEF Inv, PlaceInv
  <2>3. Members' = Members
    BY <2>2 DEF Members
  <2>4. PICK p \in Packet : /\ p = PlayerDidJoin(GetPlayerID(socket), team[socket])
                            /\ p.type # "PACKET_JOIN_RESPONSE"
    BY <2>2, NotResponses
  <2>5. /\ clients[i] \in Members
        /\ tcpPktQueue'[clients[i]] = Append(tcpPktQueue[clients[i]], p)
        /\ \A c \in Conns \ {clients[i]} : tcpPktQueue'[c] = tcpPktQueue[c]
    BY <1>6, <2>4, BroadcastQueues
  <2>6. \A c \in Conns \ Members : tcpPktQueue'[c] = <<>>
    BY <2>5 DEF TalkInv
  <2> QED  BY <1>0, <2>1, <2>3, <2>4, <2>5, <2>6, QueueingStep
<1>7. CASE AddClient
  <2>1. /\ UNCHANGED <<wire, tcpPktQueue, serial, team, tcpDisconnect>>
        /\ pc = "broadcast" /\ pc' = "handle" /\ clients' = Append(clients, socket)
    BY <1>7 DEF AddClient, net, client
  <2>2. socket \in Conns /\ Members' = Members \cup {socket}
    <3>1. socket \in Conns
      BY <2>1 DEF Inv, PlaceInv
    <3> QED  BY <1>0, <2>1, <3>1, AppendFacts DEF Members
  <2>3. \A c \in Conns : Fresh(c)' => wire'[c] = <<>> /\ tcpDisconnect'[c] = FALSE
    BY <2>1, FreshStep DEF TalkInv
  <2>4. \A c \in Members' : Told(c)' /\ tcpDisconnect'[c] = FALSE
    BY <2>1, <2>2 DEF TalkInv, Told, GetPlayerID
  <2>5. /\ \A c \in Conns \ Members' : tcpPktQueue'[c] = <<>>
        /\ \A c \in Conns : Opens(wire[c])'
        /\ \A c \in Conns : \A q \in Elements(tcpPktQueue'[c]) : q.type # "PACKET_JOIN_RESPONSE"
    BY <2>1, <2>2 DEF TalkInv
  <2>6. pc' # "broadcast"
    BY <2>1
  <2> QED  BY <2>3, <2>4, <2>5, <2>6, Zenon DEF TalkInv
<1>8. CASE FlushKick
  <2>1. UNCHANGED <<wire, serial, team, tcpDisconnect, pc, socket>> /\ pc = "flush"
    BY <1>8, Zenon DEF FlushKick, net
  <2>2. i \in 1 .. Len(clients) /\ \E block : KickClient(i, block)
    BY <1>8 DEF FlushKick, Inv, TypeOK
  <2>3. clients[i] \in Conns
    BY <2>2, KickClientQueues
  <2>4. PICK p \in Packet : /\ p = PlayerDidLeave(GetPlayerID(clients[i]))
                            /\ p.type # "PACKET_JOIN_RESPONSE"
    BY <2>3, NotResponses
  <2>5. /\ Members' = Members \ {clients[i]}
        /\ tcpPktQueue'[clients[i]] = <<>>
        /\ \A c \in Members \ {clients[i]} : tcpPktQueue'[c] = Append(tcpPktQueue[c], p)
        /\ \A c \in Conns \ Members : tcpPktQueue'[c] = tcpPktQueue[c]
    BY <2>2, <2>4, KickClientQueues
  <2>6. \A c \in Conns \ Members' : tcpPktQueue'[c] = <<>>
    BY <2>5 DEF TalkInv
  <2> QED  BY <2>1, <2>4, <2>5, <2>6, QueueingStep
<1>9. CASE FlushClient
  <2> DEFINE c == clients[i]
  <2>1. UNCHANGED <<clients, serial, team, tcpDisconnect, pc, socket>> /\ pc = "flush"
    BY <1>9, Zenon DEF FlushClient
  <2>2. c \in Members /\ c \in Conns
    <3>1. i \in 1 .. Len(clients)
      BY <1>9 DEF FlushClient, Inv, TypeOK
    <3> QED  BY <1>0, <3>1, ElementsOfSeq DEF Members
  <2>3. CASE UNCHANGED <<wire, tcpPktQueue>>
    BY <1>1, <2>1, <2>3
  <2>4. CASE /\ wire' = [wire EXCEPT ![c] = @ \o tcpPktQueue[c]]
             /\ tcpPktQueue' = [tcpPktQueue EXCEPT ![c] = <<>>]
    <3> HIDE DEF c
    <3>1. /\ wire \in [Conns -> Seq(Packet)] /\ tcpPktQueue \in [Conns -> Seq(Packet)]
          /\ wire[c] \in Seq(Packet) /\ tcpPktQueue[c] \in Seq(Packet)
      BY <2>2 DEF Inv, TypeOK
    <3>2. /\ wire'[c] = wire[c] \o tcpPktQueue[c] /\ tcpPktQueue'[c] = <<>>
          /\ \A d \in Conns \ {c} : wire'[d] = wire[d] /\ tcpPktQueue'[d] = tcpPktQueue[d]
      BY <2>2, <2>4, <3>1
    <3>3. Opens(wire'[c]) /\ wire'[c] # <<>> /\ wire'[c][1] = wire[c][1]
      <4>1. Opens(wire[c]) /\ wire[c] # <<>>
            /\ \A p \in Elements(tcpPktQueue[c]) : p.type # "PACKET_JOIN_RESPONSE"
        BY <2>2 DEF TalkInv, Told
      <4> QED  BY <3>1, <3>2, <4>1, OpensFacts
    <3>4. Members' = Members
      BY <2>1 DEF Members
    <3>5. \A d \in Conns : Fresh(d)' => wire'[d] = <<>> /\ tcpDisconnect'[d] = FALSE
      BY <2>1, <2>2, <3>2, FreshStep, FreshNotSeated DEF TalkInv
    <3>6. \A d \in Members' : Told(d)' /\ tcpDisconnect'[d] = FALSE
      BY <1>0, <2>1, <3>2, <3>3, <3>4 DEF TalkInv, Told, GetPlayerID
    <3>7. /\ \A d \in Conns \ Members' : tcpPktQueue'[d] = <<>>
          /\ \A d \in Conns : Opens(wire[d])'
          /\ \A d \in Conns : \A q \in Elements(tcpPktQueue'[d]) : q.type # "PACKET_JOIN_RESPONSE"
      BY <2>2, <3>2, <3>3, <3>4, EmptyFacts DEF TalkInv
    <3>8. pc' # "broadcast"
      BY <2>1
    <3> QED  BY <3>5, <3>6, <3>7, <3>8, Zenon DEF TalkInv
  <2>5. UNCHANGED <<wire, tcpPktQueue>>
          \/ /\ wire' = [wire EXCEPT ![c] = @ \o tcpPktQueue[c]]
             /\ tcpPktQueue' = [tcpPktQueue EXCEPT ![c] = <<>>]
    BY <1>9 DEF FlushClient
  <2> QED  BY <2>3, <2>4, <2>5
<1> QED
  BY <1>2, <1>3, <1>4, <1>5, <1>6, <1>7, <1>8, <1>9, Zenon
     DEF Next, ServerStep, HandleStep, BroadcastStep, FlushStep

(* What is queued and on the wire for each connection, in every state.     *)
THEOREM TalkInvariance == Spec => []TalkInv
BY Invariance, TalkInit, TalkStep, PTL DEF Spec

(* The stream of every client begins with its one PACKET_JOIN_RESPONSE,    *)
(* and everybody on the roster was told its own number and team, however   *)
(* joins, refusals, flushes and kicks follow each other.                   *)
THEOREM ResponseComesFirst == Spec => []ResponseFirst
<1>1. Inv /\ TalkInv => ResponseFirst
  <2> SUFFICES ASSUME Inv, TalkInv, NEW c \in Conns
               PROVE  Opens(Stream(c)) /\ (c \in Members => Told(c))
    BY DEF ResponseFirst, Opens, Told
  <2>1. /\ wire[c] \in Seq(Packet) /\ tcpPktQueue[c] \in Seq(Packet) /\ Opens(wire[c])
        /\ \A p \in Elements(tcpPktQueue[c]) : p.type # "PACKET_JOIN_RESPONSE"
    BY DEF Inv, TypeOK, TalkInv
  <2>2. CASE wire[c] # <<>>
    BY <2>1, <2>2, OpensFacts DEF TalkInv, Stream
  <2>3. CASE wire[c] = <<>>
    <3>1. c \notin Members
      BY <2>3 DEF TalkInv, Told
    <3>2. tcpPktQueue[c] = <<>>
      BY <3>1 DEF TalkInv
    <3>3. Stream(c) \in Seq(Packet) /\ Len(Stream(c)) = 0
      BY <2>1, <2>3, <3>2, ConcatFacts, EmptyFacts DEF Stream
    <3> QED  BY <3>1, <3>3 DEF Opens
  <2> QED  BY <2>2, <2>3
<1> QED  BY Invariance, TalkInvariance, <1>1, PTL

-----------------------------------------------------------------------------
(* FlushClientPacketQueues.                                                *)

LEMMA FlushStepInv == Inv /\ TalkInv /\ FlushPassesNobody /\ [Next]_vars => FlushPassesNobody'
<1> SUFFICES ASSUME Inv, TalkInv, FlushPassesNobody, [Next]_vars, pc' = "flush",
                    NEW k \in 1 .. Len(clients'), k < i'
             PROVE  \A p \in Elements(tcpPktQueue'[clients'[k]]) :
                      p.type = "PACKET_PLAYER_DID_LEAVE"
  BY DEF FlushPassesNobody
<1>0. /\ clients \in Seq(Conns) /\ Len(clients) \in Nat /\ i \in Nat \ {0}
      /\ tcpPktQueue \in [Conns -> Seq(Packet)] /\ Members \subseteq Conns
  BY RosterTypes DEF Inv, TypeOK
<1>1. ASSUME UNCHANGED <<pc, i, clients, tcpPktQueue>>
      PROVE  \A p \in Elements(tcpPktQueue'[clients'[k]]) : p.type = "PACKET_PLAYER_DID_LEAVE"
  BY <1>1 DEF FlushPassesNobody
<1>2. CASE (\E c \in Conns : Connect(c) \/ Depart(c) \/ \E what \in FirstPackets : Arrive(c, what))
             \/ AddNewSocket \/ UNCHANGED vars
  <2>1. UNCHANGED <<pc, i, clients, tcpPktQueue>>
    BY <1>2 DEF Connect, Depart, Arrive, AddNewSocket, vars, client
  <2> QED  BY <1>1, <2>1
<1>3. CASE NoNewConnection
  <2>1. i' = 1
    BY <1>3 DEF NoNewConnection
  <2> QED  BY <2>1
<1>4. CASE (HandleStep /\ ~ NoNewConnection) \/ BroadcastStep \/ EndFlush \/ HeapAbort
  <2>1. pc' # "flush"
    BY <1>4 DEF HandleStep, GetNewSocket, Reject, DropSocket, ReadFirstPacket, ClientThrows,
                MakeClient, BroadcastStep, BroadcastJoin, AddClient, EndFlush, HeapAbort
  <2> QED  BY <2>1
<1>5. CASE FlushClient
  <2>1. clients' = clients /\ i' = i + 1 /\ pc = "flush" /\ i \in 1 .. Len(clients)
    BY <1>0, <1>5 DEF FlushClient
  <2>5. \/ tcpPktQueue[clients[i]] = <<>> /\ tcpPktQueue' = tcpPktQueue
        \/ tcpPktQueue' = [tcpPktQueue EXCEPT ![clients[i]] = <<>>]
    BY <1>5, Zenon DEF FlushClient, HasQueued
  <2>2. clients[k] \in Conns /\ clients[i] \in Conns
    BY <1>0, <2>1
  <2>3. CASE clients[k] = clients[i]
    <3>1. tcpPktQueue'[clients[k]] = <<>>
      BY <1>0, <2>2, <2>3, <2>5
    <3> QED  BY <2>1, <3>1, EmptyFacts
  <2>4. CASE clients[k] # clients[i]
    <3>1. tcpPktQueue'[clients[k]] = tcpPktQueue[clients[k]] /\ k < i
      BY <1>0, <2>1, <2>2, <2>4, <2>5
    <3> QED  BY <2>1, <3>1 DEF FlushPassesNobody
  <2> QED  BY <2>3, <2>4
<1>6. CASE FlushKick
  <2>1. i' = i /\ pc = "flush" /\ i \in 1 .. Len(clients) /\ \E block : KickClient(i, block)
    BY <1>6 DEF FlushKick, Inv, TypeOK
  <2>2. clients' = Erase(clients, i)
    BY <2>1 DEF KickClient
  <2>3. k \in 1 .. Len(clients) - 1 /\ clients'[k] = clients[k]
    BY <1>0, <2>1, <2>2, EraseFacts DEF Erase
  <2>4. clients[k] \in Members /\ clients[k] # clients[i]
    <3>1. k \in 1 .. Len(clients) /\ k # i
      BY <1>0, <2>1, <2>3
    <3> QED  BY <1>0, <2>1, <3>1, ElementsOfSeq DEF Inv, RosterSound, NoRepeat, Members
  <2>5. /\ clients[i] \in Conns
        /\ tcpPktQueue'[clients[k]] =
             Append(tcpPktQueue[clients[k]], PlayerDidLeave(GetPlayerID(clients[i])))
    BY <2>1, <2>4, KickClientQueues
  <2>6. PICK p \in Packet : /\ p = PlayerDidLeave(GetPlayerID(clients[i]))
                            /\ p.type = "PACKET_PLAYER_DID_LEAVE"
    BY <2>5, NotResponses, PacketTypes
  <2>7. Elements(tcpPktQueue'[clients[k]]) = Elements(tcpPktQueue[clients[k]]) \cup {p}
    BY <1>0, <2>4, <2>5, <2>6, AppendFacts
  <2>8. \A q \in Elements(tcpPktQueue[clients[k]]) : q.type = "PACKET_PLAYER_DID_LEAVE"
    BY <1>0, <2>1, <2>3 DEF FlushPassesNobody
  <2> QED  BY <2>3, <2>6, <2>7, <2>8
<1> QED
  BY <1>2, <1>3, <1>4, <1>5, <1>6, Zenon DEF Next, ServerStep, FlushStep

(* Nobody is passed over by FlushClientPacketQueues, although KickClient   *)
(* erases from the vector it is walking.                                   *)
THEOREM FlushReachesEverybody == Spec => []FlushPassesNobody
<1>1. Init => FlushPassesNobody
  BY DEF Init, FlushPassesNobody
<1> QED  BY Invariance, TalkInvariance, FlushStepInv, <1>1, PTL DEF Spec

-----------------------------------------------------------------------------
(* GetTeamForNextPlayer.                                                   *)

(* The vector is finite, and so are the teams.                             *)
LEMMA TeamsFinite ==
  ASSUME TypeOK
  PROVE  \A t : IsFiniteSet({c \in Members : team[c] = t}) /\ TeamCount(t) \in Nat
<1>1. Len(clients) \in Nat
  BY DEF TypeOK
<1>2. clients \in Surjection(1 .. Len(clients), Members)
  <2>1. clients \in [1 .. Len(clients) -> Members]
    BY DEF TypeOK, Members, Elements
  <2> QED  BY <2>1 DEF Surjection, Members, Elements
<1>3. IsFiniteSet(Members)
  BY <1>1, <1>2, FS_Interval, FS_Surjection
<1>4. \A t : {c \in Members : team[c] = t} \in SUBSET Members
  OBVIOUS
<1>5. \A t : IsFiniteSet({c \in Members : team[c] = t})
  BY <1>3, <1>4, FS_Subset
<1> QED  BY <1>5, FS_CardinalityType DEF TeamCount

(* The team that is not the larger one gets the player, still when it is   *)
(* pushed, several steps after the teams were counted.                     *)
LEMMA BalanceStep ==
  ASSUME Inv, TalkInv, [Next]_vars, Len(clients') > Len(clients)
  PROVE  Lead' <= Lead \/ Lead' = 1
<1>0. clients \in Seq(Conns) /\ Len(clients) \in Nat /\ TypeOK
  BY DEF Inv, TypeOK
<1>1. AddClient
  <2>1. ASSUME clients' = clients PROVE FALSE
    BY <1>0, <2>1
  <2>2. ASSUME BroadcastJoin PROVE FALSE
    BY <2>1, <2>2, BroadcastQueues
  <2>3. ASSUME FlushKick PROVE FALSE
    <3>1. i \in 1 .. Len(clients) /\ \E block : KickClient(i, block)
      BY <2>3 DEF FlushKick, Inv, TypeOK
    <3> QED  BY <1>0, <3>1, KickClientRoster
  <2>4. ASSUME (\E c \in Conns : Connect(c) \/ Depart(c)
                                   \/ \E what \in FirstPackets : Arrive(c, what))
                 \/ AddNewSocket \/ HandleStep \/ FlushClient \/ EndFlush \/ HeapAbort
                 \/ UNCHANGED vars
        PROVE  FALSE
    <3>1. clients' = clients
      BY <2>4 DEF Connect, Depart, Arrive, AddNewSocket, HandleStep, GetNewSocket,
                  NoNewConnection, Reject, DropSocket, ReadFirstPacket, ClientThrows,
                  MakeClient, FlushClient, EndFlush, HeapAbort, vars
    <3> QED  BY <2>1, <3>1
  <2> QED  BY <2>2, <2>3, <2>4, Zenon DEF Next, ServerStep, BroadcastStep, FlushStep
<1>2. /\ team' = team /\ clients' = Append(clients, socket)
      /\ socket \in Conns /\ socket \notin Members /\ team[socket] = GetTeamForNextPlayer
  BY <1>1 DEF AddClient, client, Inv, PlaceInv, RosterSound, TalkInv
<1>3. Members' = Members \cup {socket}
  BY <1>0, <1>2, AppendFacts DEF Members
<1>4. ASSUME NEW t, t # team[socket] PROVE TeamCount(t)' = TeamCount(t)
  <2>1. {c \in Members' : team'[c] = t} = {c \in Members : team[c] = t}
    BY <1>2, <1>3, <1>4
  <2> QED  BY <2>1, Zenon DEF TeamCount
<1>5. ASSUME NEW t, t = team[socket] PROVE TeamCount(t)' = TeamCount(t) + 1
  <2> DEFINE T == {c \in Members : team[c] = t}
  <2>1. {c \in Members' : team'[c] = t} = T \cup {socket}
    BY <1>2, <1>3, <1>5
  <2>2. IsFiniteSet(T) /\ socket \notin T
    BY <1>0, <1>2, TeamsFinite
  <2> HIDE DEF T
  <2>3. Cardinality(T \cup {socket}) = Cardinality(T) + 1
    BY <2>2, FS_AddElement
  <2>4. Cardinality({c \in Members' : team'[c] = t}) = Cardinality(T) + 1
    BY <2>1, <2>3
  <2> QED  BY <2>4, Zenon DEF TeamCount, T
<1>6. TeamCount(TEAM_MERC) \in Nat /\ TeamCount(TEAM_SPY) \in Nat
  BY <1>0, TeamsFinite
<1>7. TEAM_MERC # TEAM_SPY
  BY DEF TEAM_MERC, TEAM_SPY
<1>8. CASE TeamCount(TEAM_MERC) > TeamCount(TEAM_SPY)
  <2>1. team[socket] = TEAM_SPY
    BY <1>2, <1>8 DEF GetTeamForNextPlayer
  <2>2. TeamCount(TEAM_MERC)' = TeamCount(TEAM_MERC) /\ TeamCount(TEAM_SPY)' = TeamCount(TEAM_SPY) + 1
    BY <1>4, <1>5, <1>7, <2>1
  <2> QED  BY <1>6, <1>8, <2>2 DEF Lead
<1>9. CASE ~ (TeamCount(TEAM_MERC) > TeamCount(TEAM_SPY))
  <2>1. team[socket] = TEAM_MERC
    BY <1>2, <1>9 DEF GetTeamForNextPlayer
  <2>2. TeamCount(TEAM_SPY)' = TeamCount(TEAM_SPY) /\ TeamCount(TEAM_MERC)' = TeamCount(TEAM_MERC) + 1
    BY <1>4, <1>5, <1>7, <2>1
  <2> QED  BY <1>6, <1>9, <2>2 DEF Lead
<1> QED  BY <1>8, <1>9

(* A join never widens the lead of the larger team beyond one.             *)
THEOREM JoinsKeepBalance == Spec => JoinKeepsBalance
<1>1. Inv /\ TalkInv /\ [Next]_vars
        => [Len(clients') > Len(clients) => Lead' <= Lead \/ Lead' = 1]_vars
  BY BalanceStep
<1> QED  BY Invariance, TalkInvariance, <1>1, PTL DEF Spec, JoinKeepsBalance

-----------------------------------------------------------------------------
(* What the streams add up to.                                             *)

(* What a client has been told, sent or queued, and what it makes of it.   *)
Got(c) == Elements(wire[c]) \cup Elements(tcpPktQueue[c])

JoinsIn(G)  == {<<p.playerID, p.team>> : p \in {q \in G : q.type = "PACKET_PLAYER_DID_JOIN"}}
LeavesIn(G) == {p.playerID : p \in {q \in G : q.type = "PACKET_PLAYER_DID_LEAVE"}}
ViewOf(G)   == {p \in JoinsIn(G) : p[1] \notin LeavesIn(G)}

(* ViewsAgree does not carry over a step by itself: a new number must not  *)
(* be one that some client was told has left, so the numbers of those who  *)
(* left are among the numbers issued, and the new player's is not.         *)
IssuedIds == {PlayerIdAfter(n) : n \in 0 .. issued - 1}

After(k) == {Badge(clients[n]) : n \in k + 1 .. Len(clients)}

ViewInv ==
  /\ \A c \in Members : LeavesIn(Got(c)) \subseteq IssuedIds
  /\ issued <= IdMod /\ pc # "aborted" =>
       \A k \in 1 .. Len(clients) :
         /\ ViewOf(Got(clients[k])) =
              After(k) \cup (IF pc = "broadcast" /\ k < i THEN {Badge(socket)} ELSE {})
         /\ \A n \in 1 .. Len(clients) : GetPlayerID(clients[n]) \notin LeavesIn(Got(clients[k]))
         /\ pc = "broadcast" => GetPlayerID(socket) \notin LeavesIn(Got(clients[k]))

(* The effect of one packet more.                                          *)
LEMMA MorePackets ==
  ASSUME NEW G
  PROVE  /\ \A n, t : /\ JoinsIn(G \cup {PlayerDidJoin(n, t)}) = JoinsIn(G) \cup {<<n, t>>}
                      /\ LeavesIn(G \cup {PlayerDidJoin(n, t)}) = LeavesIn(G)
         /\ \A n : /\ JoinsIn(G \cup {PlayerDidLeave(n)}) = JoinsIn(G)
                   /\ LeavesIn(G \cup {PlayerDidLeave(n)}) = LeavesIn(G) \cup {n}
<1>1. ASSUME NEW n, NEW t
      PROVE  /\ JoinsIn(G \cup {PlayerDidJoin(n, t)}) = JoinsIn(G) \cup {<<n, t>>}
             /\ LeavesIn(G \cup {PlayerDidJoin(n, t)}) = LeavesIn(G)
  <2> DEFINE p == PlayerDidJoin(n, t)
  <2>1. p.type = "PACKET_PLAYER_DID_JOIN" /\ p.playerID = n /\ p.team = t
    BY PacketTypes
  <2> HIDE DEF p
  <2>2. {q \in G \cup {p} : q.type = "PACKET_PLAYER_DID_JOIN"} =
          {q \in G : q.type = "PACKET_PLAYER_DID_JOIN"} \cup {p}
    BY <2>1
  <2>3. {q \in G \cup {p} : q.type = "PACKET_PLAYER_DID_LEAVE"} =
          {q \in G : q.type = "PACKET_PLAYER_DID_LEAVE"}
    BY <2>1
  <2>4. JoinsIn(G \cup {p}) = JoinsIn(G) \cup {<<n, t>>}
    BY <2>1, <2>2 DEF JoinsIn
  <2>5. LeavesIn(G \cup {p}) = LeavesIn(G)
    BY <2>3 DEF LeavesIn
  <2> QED  BY <2>4, <2>5 DEF p
<1>2. ASSUME NEW n
      PROVE  /\ JoinsIn(G \cup {PlayerDidLeave(n)}) = JoinsIn(G)
             /\ LeavesIn(G \cup {PlayerDidLeave(n)}) = LeavesIn(G) \cup {n}
  <2> DEFINE p == PlayerDidLeave(n)
  <2>1. p.type = "PACKET_PLAYER_DID_LEAVE" /\ p.playerID = n
    BY PacketTypes
  <2> HIDE DEF p
  <2>2. {q \in G \cup {p} : q.type = "PACKET_PLAYER_DID_JOIN"} =
          {q \in G : q.type = "PACKET_PLAYER_DID_JOIN"}
    BY <2>1
  <2>3. {q \in G \cup {p} : q.type = "PACKET_PLAYER_DID_LEAVE"} =
          {q \in G : q.type = "PACKET_PLAYER_DID_LEAVE"} \cup {p}
    BY <2>1
  <2>4. JoinsIn(G \cup {p}) = JoinsIn(G)
    BY <2>2 DEF JoinsIn
  <2>5. LeavesIn(G \cup {p}) = LeavesIn(G) \cup {n}
    BY <2>1, <2>3 DEF LeavesIn
  <2> QED  BY <2>4, <2>5 DEF p
<1> QED  BY <1>1, <1>2

(* The same for the player that is being announced to everybody.           *)
LEMMA NumbersDiffer ==
  ASSUME Inv, issued <= IdMod
  PROVE  /\ \A c, d \in Members : GetPlayerID(c) = GetPlayerID(d) => c = d
         /\ pc = "broadcast" => \A c \in Members : GetPlayerID(c) # GetPlayerID(socket)
         /\ \A c \in Members : GetPlayerID(c) \in IssuedIds
<1>1. /\ Members \subseteq Conns /\ \A c \in Conns : serial[c] \in Nat
      /\ issued \in Nat /\ IdMod \in Nat
  BY ElementsOfSeq, ServerAssumption DEF Inv, TypeOK, Members
<1>2. \A c \in Members : serial[c] < IdMod /\ serial[c] < issued /\ serial[c] \in Nat
  BY <1>1 DEF Inv, SerialInv
<1>3. ASSUME pc = "broadcast"
      PROVE  serial[socket] < IdMod /\ serial[socket] \in Nat
  BY <1>1, <1>3 DEF Inv, SerialInv, PlaceInv
<1>4. \A c, d \in Members : GetPlayerID(c) = GetPlayerID(d) => c = d
  BY <1>2, PlayerIdFacts DEF GetPlayerID, Inv, SerialInv
<1>5. pc = "broadcast" => \A c \in Members : GetPlayerID(c) # GetPlayerID(socket)
  BY <1>2, <1>3, PlayerIdFacts DEF GetPlayerID, Inv, SerialInv
<1>6. \A c \in Members : GetPlayerID(c) \in IssuedIds
  BY <1>1, <1>2 DEF GetPlayerID, IssuedIds
<1> QED  BY <1>4, <1>5, <1>6

(* A number that is issued was not issued before.                          *)
LEMMA NewNumber ==
  ASSUME issued \in Nat, issued < IdMod
  PROVE  PlayerIdAfter(issued) \notin IssuedIds
<1>1. \A n \in 0 .. issued - 1 : n \in Nat /\ n < IdMod /\ n # issued
  BY ServerAssumption
<1> QED  BY <1>1, PlayerIdFacts DEF IssuedIds

(* The numbers issued stay issued.                                         *)
LEMMA StillIssued ==
  ASSUME issued \in Nat, issued' \in {issued, issued + 1}
  PROVE  IssuedIds \subseteq IssuedIds' /\ (issued' <= IdMod => issued <= IdMod)
<1>1. PICK m \in Nat : m = issued' /\ issued <= m
  OBVIOUS
<1>2. \A n \in 0 .. issued - 1 : n \in 0 .. m - 1
  <2>1. \A a, b \in Nat : a <= b => \A n \in 0 .. a - 1 : n \in 0 .. b - 1
    OBVIOUS
  <2>2. issued \in Nat /\ m \in Nat /\ issued <= m
    BY <1>1
  <2> QED  BY <2>1, <2>2, Zenon
<1>3. IssuedIds' = {PlayerIdAfter(n) : n \in 0 .. m - 1}
  BY <1>1, Zenon DEF IssuedIds, PlayerIdAfter
<1>4. IssuedIds \subseteq IssuedIds'
  BY <1>2, <1>3 DEF IssuedIds
<1> QED  BY <1>1, <1>4, ServerAssumption

(* A step that tells nobody on the roster anything.                        *)
LEMMA SilentStep ==
  ASSUME Inv, ViewInv, clients' = clients, issued' \in {issued, issued + 1},
         \A c \in Members : /\ Got(c)' = Got(c)
                            /\ serial'[c] = serial[c] /\ team'[c] = team[c],
         pc = "aborted" => pc' = "aborted",
         pc = "broadcast" => pc' \in {"broadcast", "aborted"},
         pc' = "broadcast" =>
           \/ pc = "broadcast" /\ i' = i /\ Badge(socket)' = Badge(socket)
                /\ GetPlayerID(socket)' = GetPlayerID(socket)
           \/ pc # "broadcast" /\ i' = 1
                /\ (issued' <= IdMod => GetPlayerID(socket)' \notin IssuedIds)
  PROVE  ViewInv'
<1>0. /\ clients \in Seq(Conns) /\ Len(clients) \in Nat /\ issued \in Nat
      /\ \A k \in 1 .. Len(clients) : clients[k] \in Members
      /\ Members' = Members
  BY RosterTypes DEF Inv, TypeOK, Members
<1>1. IssuedIds \subseteq IssuedIds' /\ (issued' <= IdMod => issued <= IdMod)
  BY <1>0, StillIssued
<1>2. \A c \in Members' : LeavesIn(Got(c)') \subseteq IssuedIds'
  BY <1>0, <1>1 DEF ViewInv
<1>3. \A k \in 1 .. Len(clients) : /\ Badge(clients[k])' = Badge(clients[k])
                                   /\ GetPlayerID(clients[k])' = GetPlayerID(clients[k])
                                   /\ Got(clients[k])' = Got(clients[k])
  <2> SUFFICES ASSUME NEW k \in 1 .. Len(clients)
               PROVE  /\ Badge(clients[k])' = Badge(clients[k])
                      /\ GetPlayerID(clients[k])' = GetPlayerID(clients[k])
                      /\ Got(clients[k])' = Got(clients[k])
    OBVIOUS
  <2>1. PICK c \in Members : c = clients[k]
    BY <1>0
  <2>2. Got(c)' = Got(c) /\ serial'[c] = serial[c] /\ team'[c] = team[c]
    OBVIOUS
  <2> QED  BY <2>1, <2>2 DEF Badge, GetPlayerID, PlayerIdAfter, Got
<1>4. ASSUME issued' <= IdMod, pc' # "aborted", NEW k \in 1 .. Len(clients')
      PROVE  /\ ViewOf(Got(clients[k]))' =
                  After(k)' \cup (IF pc' = "broadcast" /\ k < i' THEN {Badge(socket)'} ELSE {})
             /\ \A n \in 1 .. Len(clients') :
                  GetPlayerID(clients[n])' \notin LeavesIn(Got(clients[k]))'
             /\ pc' = "broadcast" => GetPlayerID(socket)' \notin LeavesIn(Got(clients[k]))'
  <2>1. /\ ViewOf(Got(clients[k])) =
             After(k) \cup (IF pc = "broadcast" /\ k < i THEN {Badge(socket)} ELSE {})
        /\ \A n \in 1 .. Len(clients) : GetPlayerID(clients[n]) \notin LeavesIn(Got(clients[k]))
        /\ pc = "broadcast" => GetPlayerID(socket) \notin LeavesIn(Got(clients[k]))
    BY <1>1, <1>4 DEF ViewInv
  <2>2. k \in 1 .. Len(clients) /\ ~ (k < 1)
    BY <1>0
  <2>3. /\ ViewOf(Got(clients[k]))' = ViewOf(Got(clients[k]))
        /\ LeavesIn(Got(clients[k]))' = LeavesIn(Got(clients[k]))
    BY <1>3, <2>2, Zenon DEF ViewOf, JoinsIn, LeavesIn
  <2>4. After(k)' = After(k)
    <3>1. \A n \in k + 1 .. Len(clients) : Badge(clients[n])' = Badge(clients[n])
      BY <1>0, <1>3, <2>2
    <3>2. After(k)' = {Badge(clients[n])' : n \in k + 1 .. Len(clients)}
      BY Zenon DEF After
    <3> QED  BY <3>1, <3>2 DEF After
  <2>5. (IF pc' = "broadcast" /\ k < i' THEN {Badge(socket)'} ELSE {}) =
          (IF pc = "broadcast" /\ k < i THEN {Badge(socket)} ELSE {})
    BY <1>4, <2>2
  <2>6. LeavesIn(Got(clients[k])) \subseteq IssuedIds
    BY <1>0, <2>2 DEF ViewInv
  <2>7. pc' = "broadcast" => GetPlayerID(socket)' \notin LeavesIn(Got(clients[k]))
    BY <1>4, <2>1, <2>6
  <2>8. \A n \in 1 .. Len(clients') :
          GetPlayerID(clients[n])' \notin LeavesIn(Got(clients[k]))
    BY <1>3, <2>1
  <2> QED  BY <2>1, <2>3, <2>4, <2>5, <2>7, <2>8
<1> QED  BY <1>2, <1>4, Zenon DEF ViewInv

(* Broadcast tells one client more about the new player.                   *)
LEMMA AnnouncingStep ==
  ASSUME Inv, TalkInv, ViewInv, BroadcastJoin
  PROVE  ViewInv'
<1>0. /\ clients \in Seq(Conns) /\ Len(clients) \in Nat /\ NoRepeat(clients)
      /\ wire \in [Conns -> Seq(Packet)] /\ tcpPktQueue \in [Conns -> Seq(Packet)]
      /\ \A k \in 1 .. Len(clients) : clients[k] \in Members /\ clients[k] \in Conns
      /\ Members \subseteq Conns
  BY RosterTypes DEF Inv, TypeOK, RosterSound
<1>1. /\ UNCHANGED <<wire, pc, socket, issued, serial, team>> /\ pc = "broadcast"
      /\ socket \in Conns
  BY Zenon DEF BroadcastJoin, net, Inv, PlaceInv
<1>2. /\ i \in 1 .. Len(clients) /\ i' = i + 1 /\ clients' = clients
      /\ tcpPktQueue'[clients[i]] =
           Append(tcpPktQueue[clients[i]], PlayerDidJoin(GetPlayerID(socket), team[socket]))
      /\ \A c \in Conns \ {clients[i]} : tcpPktQueue'[c] = tcpPktQueue[c]
  BY BroadcastQueues
<1>3. /\ Members' = Members /\ IssuedIds' = IssuedIds
      /\ \A c \in Conns : GetPlayerID(c)' = GetPlayerID(c) /\ Badge(c)' = Badge(c)
      /\ GetPlayerID(socket)' = GetPlayerID(socket) /\ Badge(socket)' = Badge(socket)
  BY <1>1, <1>2 DEF Members, IssuedIds, GetPlayerID, PlayerIdAfter, Badge
<1>4. PICK x \in Conns : x = clients[i] /\ x \in Members
  BY <1>0, <1>2
<1>5. Got(x)' = Got(x) \cup {PlayerDidJoin(GetPlayerID(socket), team[socket])}
  <2>1. tcpPktQueue[x] \in Seq(Packet)
    BY <1>0
  <2>2. Elements(tcpPktQueue'[x]) =
          Elements(tcpPktQueue[x]) \cup {PlayerDidJoin(GetPlayerID(socket), team[socket])}
    <3>1. PICK p \in Packet : p = PlayerDidJoin(GetPlayerID(socket), team[socket])
      BY <1>1, NotResponses
    <3>2. tcpPktQueue'[x] = Append(tcpPktQueue[x], p)
      BY <1>2, <1>4, <3>1
    <3> QED  BY <2>1, <3>1, <3>2, AppendFacts
  <2> QED  BY <1>1, <2>2 DEF Got
<1>6. \A c \in Conns : c # x => Got(c)' = Got(c)
  BY <1>1, <1>2, <1>4 DEF Got
<1>7. \A c \in Conns : LeavesIn(Got(c)') = LeavesIn(Got(c))
  BY <1>5, <1>6, MorePackets
<1>8. \A c \in Members' : LeavesIn(Got(c)') \subseteq IssuedIds'
  BY <1>0, <1>3, <1>7 DEF ViewInv
<1>9. ASSUME issued' <= IdMod, NEW k \in 1 .. Len(clients)
      PROVE  /\ ViewOf(Got(clients[k])') = After(k) \cup (IF k < i' THEN {Badge(socket)} ELSE {})
             /\ \A n \in 1 .. Len(clients) :
                  GetPlayerID(clients[n]) \notin LeavesIn(Got(clients[k])')
             /\ GetPlayerID(socket) \notin LeavesIn(Got(clients[k])')
  <2>1. /\ ViewOf(Got(clients[k])) = After(k) \cup (IF k < i THEN {Badge(socket)} ELSE {})
        /\ \A n \in 1 .. Len(clients) : GetPlayerID(clients[n]) \notin LeavesIn(Got(clients[k]))
        /\ GetPlayerID(socket) \notin LeavesIn(Got(clients[k]))
    BY <1>1, <1>9 DEF ViewInv
  <2>2. PICK c \in Conns : c = clients[k]
    BY <1>0
  <2>3. Got(clients[k])' = Got(c)'
    BY <1>2, <2>2 DEF Got
  <2>4. LeavesIn(Got(clients[k])') = LeavesIn(Got(clients[k]))
    BY <1>7, <2>2, <2>3
  <2>5. CASE k = i
    <3>1. ViewOf(Got(x)') = ViewOf(Got(x)) \cup {<<GetPlayerID(socket), team[socket]>>}
      <4>1. GetPlayerID(socket) \notin LeavesIn(Got(x))
        BY <1>4, <2>1, <2>5
      <4> QED  BY <1>5, <4>1, MorePackets DEF ViewOf
    <3>2. k < i' /\ ~ (k < i)
      BY <1>2, <2>5
    <3>3. c = x
      BY <1>4, <2>2, <2>5
    <3> QED  BY <1>4, <2>1, <2>2, <2>3, <2>4, <3>1, <3>2, <3>3 DEF Badge
  <2>6. CASE k # i
    <3>1. c # x /\ (k < i' <=> k < i)
      BY <1>0, <1>2, <1>4, <2>2, <2>6 DEF NoRepeat
    <3>2. Got(c)' = Got(c)
      BY <1>6, <3>1
    <3> QED  BY <2>1, <2>2, <2>3, <2>4, <3>1, <3>2
  <2> QED  BY <2>5, <2>6
<1>10. \A k \in 1 .. Len(clients) :
         After(k)' = After(k) /\ GetPlayerID(clients[k])' = GetPlayerID(clients[k])
  <2> SUFFICES ASSUME NEW k \in 1 .. Len(clients)
               PROVE  After(k)' = After(k) /\ GetPlayerID(clients[k])' = GetPlayerID(clients[k])
    OBVIOUS
  <2> QED  BY <1>1, <1>2, Zenon DEF After, Badge, GetPlayerID, PlayerIdAfter
<1>11. ASSUME issued' <= IdMod, pc' # "aborted", NEW k \in 1 .. Len(clients')
       PROVE  /\ ViewOf(Got(clients[k]))' =
                   After(k)' \cup (IF pc' = "broadcast" /\ k < i' THEN {Badge(socket)'} ELSE {})
              /\ \A n \in 1 .. Len(clients') :
                   GetPlayerID(clients[n])' \notin LeavesIn(Got(clients[k]))'
              /\ pc' = "broadcast" => GetPlayerID(socket)' \notin LeavesIn(Got(clients[k]))'
  <2>1. k \in 1 .. Len(clients) /\ pc' = "broadcast"
    BY <1>1, <1>2
  <2>2. /\ ViewOf(Got(clients[k]))' = ViewOf(Got(clients[k])')
        /\ LeavesIn(Got(clients[k]))' = LeavesIn(Got(clients[k])')
    BY Zenon DEF ViewOf, JoinsIn, LeavesIn
  <2> QED  BY <1>2, <1>3, <1>9, <1>10, <1>11, <2>1, <2>2
<1> QED  BY <1>8, <1>11, Zenon DEF ViewInv

(* push_back: the newcomer knows nobody and everybody knows the newcomer.  *)
LEMMA SeatingStep ==
  ASSUME Inv, TalkInv, ViewInv, AddClient
  PROVE  ViewInv'
<1>0. /\ clients \in Seq(Conns) /\ Len(clients) \in Nat
      /\ \A k \in 1 .. Len(clients) : clients[k] \in Members /\ clients[k] \in Conns
      /\ Members \subseteq Conns
  BY RosterTypes
<1>1. /\ UNCHANGED <<wire, tcpPktQueue, issued, serial, team>> /\ pc = "broadcast"
      /\ pc' = "handle" /\ clients' = Append(clients, socket) /\ i > Len(clients)
  BY Zenon DEF AddClient, net, client
<1>2. socket \in Conns /\ socket \notin Members
  BY <1>1 DEF Inv, PlaceInv, RosterSound
<1>3. PICK s \in Conns : s = socket
  BY <1>2
<1>4. /\ Members' = Members \cup {s} /\ Len(clients') = Len(clients) + 1
      /\ \A k \in 1 .. Len(clients) : clients'[k] = clients[k]
      /\ clients'[Len(clients) + 1] = s
  BY <1>0, <1>1, <1>3, AppendFacts DEF Members
<1>5. Got(s) = {JoinResponse(1, GetPlayerID(s), team[s])}
  <2>1. tcpPktQueue[s] = <<>> /\ Told(s) /\ Elements(wire[s]) = {wire[s][1]}
    BY <1>1, <1>2, <1>3 DEF TalkInv
  <2> QED  BY <2>1, EmptyFacts DEF Got, Told
<1>6. JoinsIn(Got(s)) = {} /\ LeavesIn(Got(s)) = {} /\ ViewOf(Got(s)) = {}
  BY <1>5, PacketTypes DEF JoinsIn, LeavesIn, ViewOf
<1>7. /\ \A c \in Conns : /\ Got(c)' = Got(c) /\ Badge(c)' = Badge(c)
                          /\ GetPlayerID(c)' = GetPlayerID(c)
      /\ IssuedIds' = IssuedIds
  BY <1>1 DEF Got, Badge, GetPlayerID, PlayerIdAfter, IssuedIds
<1>8. \A c \in Members' : LeavesIn(Got(c)') \subseteq IssuedIds'
  BY <1>0, <1>4, <1>6, <1>7 DEF ViewInv
<1>9. ASSUME NEW k \in 1 .. Len(clients'), NEW c \in Conns, c = clients'[k]
      PROVE  /\ Got(clients[k])' = Got(c) /\ GetPlayerID(clients[k])' = GetPlayerID(c)
             /\ Badge(clients[k])' = Badge(c)
             /\ ViewOf(Got(clients[k]))' = ViewOf(Got(c))
             /\ LeavesIn(Got(clients[k]))' = LeavesIn(Got(c))
  <2>1. /\ Got(clients[k])' = Got(c)' /\ GetPlayerID(clients[k])' = GetPlayerID(c)'
        /\ Badge(clients[k])' = Badge(c)'
    BY <1>9 DEF Got, GetPlayerID, PlayerIdAfter, Badge
  <2>2. Got(clients[k])' = Got(c)
    BY <1>7, <2>1
  <2>3. /\ ViewOf(Got(clients[k]))' = ViewOf(Got(c)) /\ LeavesIn(Got(clients[k]))' = LeavesIn(Got(c))
    BY <2>2, Zenon DEF ViewOf, JoinsIn, LeavesIn
  <2> QED  BY <1>7, <2>1, <2>3
<1>10. \A k \in 1 .. Len(clients') : clients'[k] \in Conns
  BY <1>0, <1>4
<1>11. \A k : After(k)' = {Badge(clients[n])' : n \in k + 1 .. Len(clients')}
  BY Zenon DEF After
<1>12. ASSUME issued' <= IdMod, NEW k \in 1 .. Len(clients')
       PROVE  /\ ViewOf(Got(clients[k]))' = After(k)'
              /\ \A n \in 1 .. Len(clients') :
                   GetPlayerID(clients[n])' \notin LeavesIn(Got(clients[k]))'
  <2>1. PICK c \in Conns : c = clients'[k]
    BY <1>10
  <2>2. ViewOf(Got(clients[k]))' = ViewOf(Got(c)) /\ LeavesIn(Got(clients[k]))' = LeavesIn(Got(c))
    BY <1>9, <2>1
  <2>3. CASE k = Len(clients) + 1
    <3>1. c = s
      BY <1>4, <2>1, <2>3
    <3>2. k + 1 .. Len(clients') = {}
      BY <1>0, <1>4, <2>3
    <3>3. After(k)' = {}
      BY <1>11, <3>2
    <3> QED  BY <1>6, <2>2, <3>1, <3>3
  <2>4. CASE k # Len(clients) + 1
    <3>1. k \in 1 .. Len(clients) /\ c = clients[k] /\ k < i
      BY <1>0, <1>1, <1>4, <2>1, <2>4 DEF Inv, TypeOK
    <3>2. /\ ViewOf(Got(c)) = After(k) \cup {Badge(s)}
          /\ \A n \in 1 .. Len(clients) : GetPlayerID(clients[n]) \notin LeavesIn(Got(c))
          /\ GetPlayerID(s) \notin LeavesIn(Got(c))
      BY <1>1, <1>3, <1>12, <3>1 DEF ViewInv
    <3>3. /\ \A n \in 1 .. Len(clients) : /\ Badge(clients[n])' = Badge(clients[n])
                                          /\ GetPlayerID(clients[n])' = GetPlayerID(clients[n])
          /\ \A n \in 1 .. Len(clients') : n = Len(clients) + 1
               => Badge(clients[n])' = Badge(s) /\ GetPlayerID(clients[n])' = GetPlayerID(s)
      <4>1. \A n \in 1 .. Len(clients) : n \in 1 .. Len(clients') /\ clients[n] = clients'[n]
        BY <1>0, <1>4
      <4>2. \A n \in 1 .. Len(clients') : n = Len(clients) + 1 => s = clients'[n]
        BY <1>4
      <4>3. \A n \in 1 .. Len(clients'), d \in Conns : d = clients'[n]
              => Badge(clients[n])' = Badge(d) /\ GetPlayerID(clients[n])' = GetPlayerID(d)
        BY <1>9
      <4>4. \A n \in 1 .. Len(clients) : clients[n] \in Conns
        BY <1>0
      <4> QED  BY <4>1, <4>2, <4>3, <4>4, Zenon
    <3>4. k + 1 .. Len(clients') = (k + 1 .. Len(clients)) \cup {Len(clients) + 1}
      BY <1>0, <1>4, <3>1
    <3>5. After(k)' = After(k) \cup {Badge(s)}
      <4>1. \A n \in k + 1 .. Len(clients') :
              Badge(clients[n])' = IF n \in k + 1 .. Len(clients) THEN Badge(clients[n]) ELSE Badge(s)
        BY <1>0, <1>4, <3>1, <3>3, <3>4
      <4>2. \A n \in k + 1 .. Len(clients) : Badge(clients[n]) \in After(k)
        BY DEF After
      <4>3. \A n \in k + 1 .. Len(clients') : Badge(clients[n])' \in After(k) \cup {Badge(s)}
        BY <4>1, <4>2
      <4>4. \A n \in k + 1 .. Len(clients') : Badge(clients[n])' \in After(k)'
        BY <1>11
      <4>5. \A n \in k + 1 .. Len(clients) : Badge(clients[n]) \in After(k)'
        BY <3>4, <4>1, <4>4
      <4>6. Badge(s) \in After(k)'
        <5>1. /\ Len(clients) + 1 \in k + 1 .. Len(clients')
              /\ Len(clients) + 1 \notin k + 1 .. Len(clients)
          BY <1>0, <3>4
        <5> QED  BY <4>1, <4>4, <5>1
      <4>7. After(k)' \subseteq After(k) \cup {Badge(s)}
        BY <1>11, <4>3
      <4>8. After(k) \subseteq After(k)'
        BY <4>5 DEF After
      <4> QED  BY <4>6, <4>7, <4>8
    <3>6. \A n \in 1 .. Len(clients') : GetPlayerID(clients[n])' \notin LeavesIn(Got(c))
      BY <1>0, <1>4, <3>2, <3>3
    <3> QED  BY <2>2, <3>2, <3>5, <3>6
  <2> QED  BY <2>3, <2>4
<1>13. pc' # "broadcast"
  BY <1>1
<1> QED  BY <1>8, <1>12, <1>13 DEF ViewInv

(* Where the players behind position k were before position j was erased.  *)
LEMMA ErasedPositions ==
  ASSUME NEW len \in Nat, NEW j \in 1 .. len, NEW k \in 1 .. len - 1, NEW m \in 1 .. len,
         m = IF k < j THEN k ELSE k + 1
  PROVE  /\ \A n \in m + 1 .. len : n < j => n \in k + 1 .. len - 1 /\ n \in 1 .. len - 1
         /\ \A n \in m + 1 .. len : n > j => n - 1 \in k + 1 .. len - 1 /\ n - 1 \in 1 .. len - 1
         /\ \A n \in k + 1 .. len - 1 : n < j => n \in m + 1 .. len
         /\ \A n \in k + 1 .. len - 1 : ~ (n < j) => n + 1 \in m + 1 .. len
<1>1. CASE k < j
  BY <1>1
<1>2. CASE ~ (k < j)
  BY <1>2
<1> QED  BY <1>1, <1>2

(* A kick takes one player out of the roster and out of every view of it.  *)
LEMMA KickingStep ==
  ASSUME Inv, ViewInv, FlushKick
  PROVE  ViewInv'
<1>0. /\ clients \in Seq(Conns) /\ Len(clients) \in Nat /\ NoRepeat(clients)
      /\ wire \in [Conns -> Seq(Packet)] /\ tcpPktQueue \in [Conns -> Seq(Packet)]
      /\ i \in Nat \ {0} /\ issued \in Nat
  BY DEF Inv, TypeOK, RosterSound
<1>1. /\ \A k \in 1 .. Len(clients) : clients[k] \in Members /\ clients[k] \in Conns
      /\ Members \subseteq Conns
  BY <1>0, ElementsOfSeq DEF Members
<1>2. /\ UNCHANGED <<wire, pc, issued, serial, team>> /\ pc = "flush"
  BY Zenon DEF FlushKick, net
<1>3. i \in 1 .. Len(clients) /\ \E block : KickClient(i, block)
  BY <1>0 DEF FlushKick
<1>4. PICK x \in Conns : x = clients[i] /\ x \in Members
  BY <1>1, <1>3
<1>5. /\ Members' = Members \ {x}
      /\ \A c \in Members \ {x} :
           tcpPktQueue'[c] = Append(tcpPktQueue[c], PlayerDidLeave(GetPlayerID(x)))
  BY <1>3, <1>4, KickClientQueues
<1>6. clients' = Erase(clients, i)
  BY <1>3 DEF KickClient
<1>7. /\ Len(clients') = Len(clients) - 1
      /\ \A n \in 1 .. Len(clients) - 1 : clients'[n] = IF n < i THEN clients[n] ELSE clients[n + 1]
  BY <1>0, <1>3, <1>6, EraseFacts DEF Erase
<1>8. \A c \in Members \ {x} : Got(c)' = Got(c) \cup {PlayerDidLeave(GetPlayerID(x))}
  <2> SUFFICES ASSUME NEW c \in Members \ {x}
               PROVE  Got(c)' = Got(c) \cup {PlayerDidLeave(GetPlayerID(x))}
    OBVIOUS
  <2>1. PICK p \in Packet : p = PlayerDidLeave(GetPlayerID(x))
    BY NotResponses
  <2>2. tcpPktQueue[c] \in Seq(Packet) /\ tcpPktQueue'[c] = Append(tcpPktQueue[c], p)
    BY <1>0, <1>1, <1>5, <2>1
  <2>3. Elements(tcpPktQueue'[c]) = Elements(tcpPktQueue[c]) \cup {p}
    BY <2>2, AppendFacts
  <2> QED  BY <1>2, <2>1, <2>3 DEF Got
<1>9. /\ IssuedIds' = IssuedIds
      /\ \A c \in Conns : GetPlayerID(c)' = GetPlayerID(c) /\ Badge(c)' = Badge(c)
  BY <1>2 DEF IssuedIds, GetPlayerID, PlayerIdAfter, Badge
<1>10. GetPlayerID(x) \in IssuedIds
  <2>1. serial[x] < issued /\ serial[x] \in Nat
    BY <1>4 DEF Inv, SerialInv, TypeOK
  <2>2. serial[x] \in 0 .. issued - 1
    BY <1>0, <2>1
  <2> QED  BY <2>2 DEF GetPlayerID, IssuedIds
<1>11. \A c \in Members \ {x} : LeavesIn(Got(c)') = LeavesIn(Got(c)) \cup {GetPlayerID(x)}
  BY <1>8, MorePackets
<1>12. \A c \in Members' : LeavesIn(Got(c)') \subseteq IssuedIds'
  BY <1>5, <1>9, <1>10, <1>11 DEF ViewInv
<1>13. ASSUME NEW k \in 1 .. Len(clients')
       PROVE  /\ clients'[k] \in Members \ {x} /\ clients'[k] \in Conns
              /\ Got(clients[k])' = Got(clients'[k]) \cup {PlayerDidLeave(GetPlayerID(x))}
              /\ Badge(clients[k])' = Badge(clients'[k])
              /\ GetPlayerID(clients[k])' = GetPlayerID(clients'[k])
  <2>1. clients'[k] \in Members \ {x}
    <3>1. clients' \in Seq(Conns)
      BY <1>0, <1>3, <1>6, EraseFacts
    <3>2. clients'[k] \in Members'
      BY <3>1, ElementsOfSeq DEF Members
    <3> QED  BY <1>5, <3>2
  <2>2. PICK c \in Members \ {x} : c = clients'[k]
    BY <2>1
  <2>3. /\ Got(clients[k])' = Got(c)' /\ GetPlayerID(clients[k])' = GetPlayerID(c)'
        /\ Badge(clients[k])' = Badge(c)'
    BY <2>2 DEF Got, GetPlayerID, PlayerIdAfter, Badge
  <2> QED  BY <1>1, <1>8, <1>9, <2>2, <2>3
<1>14. ASSUME issued' <= IdMod, NEW k \in 1 .. Len(clients')
       PROVE  /\ ViewOf(Got(clients[k]))' = After(k)'
              /\ \A n \in 1 .. Len(clients') :
                   GetPlayerID(clients[n])' \notin LeavesIn(Got(clients[k]))'
  <2>0. Len(clients') = Len(clients) - 1 /\ k \in 1 .. Len(clients) - 1
    BY <1>7
  <2>1. PICK m \in 1 .. Len(clients) : /\ m = IF k < i THEN k ELSE k + 1
                                       /\ clients[m] = clients'[k] /\ m # i
    <3>1. k \in 1 .. Len(clients) - 1 /\ i \in Nat /\ Len(clients) \in Nat
      BY <1>0, <2>0
    <3>2. CASE k < i
      <4>1. k \in 1 .. Len(clients) /\ k # i
        BY <3>1, <3>2
      <4>2. clients[k] = clients'[k]
        BY <1>7, <3>1, <3>2
      <4> QED  BY <3>2, <4>1, <4>2
    <3>3. CASE ~ (k < i)
      <4>1. k + 1 \in 1 .. Len(clients) /\ k + 1 # i
        BY <3>1, <3>3
      <4>2. clients[k + 1] = clients'[k]
        BY <1>7, <3>1, <3>3
      <4> QED  BY <3>3, <4>1, <4>2
    <3> QED  BY <3>2, <3>3
  <2>2. PICK c \in Members \ {x} : c = clients'[k]
    BY <1>13
  <2>3. Got(clients[k])' = Got(c) \cup {PlayerDidLeave(GetPlayerID(x))}
    BY <1>13, <2>2
  <2>4. /\ ViewOf(Got(clients[k]))' = ViewOf(Got(c) \cup {PlayerDidLeave(GetPlayerID(x))})
        /\ LeavesIn(Got(clients[k]))' = LeavesIn(Got(c) \cup {PlayerDidLeave(GetPlayerID(x))})
    BY <2>3, Zenon DEF ViewOf, JoinsIn, LeavesIn
  <2>5. /\ ViewOf(Got(clients[k]))' = {p \in ViewOf(Got(c)) : p[1] # GetPlayerID(x)}
        /\ LeavesIn(Got(clients[k]))' = LeavesIn(Got(c)) \cup {GetPlayerID(x)}
    BY <2>4, MorePackets DEF ViewOf
  <2>6. /\ ViewOf(Got(c)) = After(m)
        /\ \A n \in 1 .. Len(clients) : GetPlayerID(clients[n]) \notin LeavesIn(Got(c))
    BY <1>2, <1>14, <2>1, <2>2 DEF ViewInv
  <2>7. \A d \in Members \ {x} : GetPlayerID(d) # GetPlayerID(x)
    BY <1>2, <1>4, <1>14, NumbersDiffer
  <2>8. \A n \in 1 .. Len(clients') : GetPlayerID(clients[n])' \notin LeavesIn(Got(clients[k]))'
    <3> SUFFICES ASSUME NEW n \in 1 .. Len(clients')
                 PROVE  GetPlayerID(clients[n])' \notin LeavesIn(Got(clients[k]))'
      OBVIOUS
    <3>1. PICK d \in Members \ {x} : d = clients'[n]
      BY <1>13
    <3>2. GetPlayerID(clients[n])' = GetPlayerID(d)
      BY <1>13, <3>1
    <3>3. PICK j \in 1 .. Len(clients) : d = clients[j]
      BY DEF Members, Elements
    <3> QED  BY <2>5, <2>6, <2>7, <3>2, <3>3
  <2>9. After(k)' = {Badge(clients[n])' : n \in k + 1 .. Len(clients')}
    BY Zenon DEF After
  <2>10. \A n \in k + 1 .. Len(clients') : Badge(clients[n])' = Badge(clients'[n])
    BY <1>0, <1>7, <1>13
  <2>11. \A d : Badge(d)[1] = GetPlayerID(d)
    BY DEF Badge
  <2>12. ViewOf(Got(clients[k]))' \subseteq After(k)'
    <3> SUFFICES ASSUME NEW n \in m + 1 .. Len(clients), Badge(clients[n])[1] # GetPlayerID(x)
                 PROVE  Badge(clients[n]) \in After(k)'
      BY <2>5, <2>6 DEF After
    <3>1. n # i
      BY <1>4, <2>11
    <3>2. PICK j \in k + 1 .. Len(clients') : clients'[j] = clients[n]
      <4>1. CASE n < i
        <5>1. n \in k + 1 .. Len(clients') /\ n \in 1 .. Len(clients) - 1
          BY <1>0, <1>3, <2>0, <2>1, <4>1, ErasedPositions
        <5> QED  BY <1>7, <4>1, <5>1
      <4>2. CASE n > i
        <5>1. n - 1 \in k + 1 .. Len(clients') /\ n - 1 \in 1 .. Len(clients) - 1
          BY <1>0, <1>3, <2>0, <2>1, <4>2, ErasedPositions
        <5>2. ~ (n - 1 < i) /\ (n - 1) + 1 = n
          BY <1>0, <4>2
        <5>3. clients'[n - 1] = clients[n]
          BY <1>7, <5>1, <5>2
        <5> QED  BY <5>1, <5>3
      <4> QED  BY <1>0, <3>1, <4>1, <4>2
    <3>3. Badge(clients[j])' = Badge(clients[n])
      BY <2>10, <3>2
    <3> QED  BY <2>9, <3>3
  <2>13. After(k)' \subseteq ViewOf(Got(clients[k]))'
    <3> SUFFICES ASSUME NEW n \in k + 1 .. Len(clients')
                 PROVE  Badge(clients'[n]) \in ViewOf(Got(clients[k]))'
      BY <2>9, <2>10
    <3>1. n \in 1 .. Len(clients') /\ n \in 1 .. Len(clients) - 1
      BY <1>0, <1>7
    <3>2. clients'[n] \in Members \ {x}
      BY <1>13, <3>1
    <3>3. PICK j \in m + 1 .. Len(clients) : clients[j] = clients'[n]
      <4>1. CASE n < i
        <5>1. n \in m + 1 .. Len(clients)
          BY <1>0, <1>3, <2>0, <2>1, <4>1, ErasedPositions
        <5>2. clients'[n] = clients[n]
          BY <1>7, <3>1, <4>1
        <5> QED  BY <5>1, <5>2
      <4>2. CASE ~ (n < i)
        <5>1. n + 1 \in m + 1 .. Len(clients)
          BY <1>0, <1>3, <2>0, <2>1, <4>2, ErasedPositions
        <5>2. clients'[n] = clients[n + 1]
          BY <1>7, <3>1, <4>2
        <5> QED  BY <5>1, <5>2
      <4> QED  BY <4>1, <4>2
    <3>4. Badge(clients'[n]) \in After(m)
      BY <3>3 DEF After
    <3> QED  BY <2>5, <2>6, <2>7, <2>11, <3>2, <3>4
  <2> QED  BY <2>8, <2>12, <2>13
<1>15. pc' # "broadcast"
  BY <1>2
<1> QED  BY <1>12, <1>14, <1>15 DEF ViewInv

LEMMA ViewInit == Init => ViewInv
<1> SUFFICES ASSUME Init PROVE ViewInv
  OBVIOUS
<1>1. clients = <<>> /\ Len(clients) = 0 /\ Members = {}
  BY EmptyFacts DEF Init, Members
<1> QED  BY <1>1 DEF ViewInv

LEMMA ViewStep == Inv /\ TalkInv /\ ViewInv /\ [Next]_vars => ViewInv'
<1> SUFFICES ASSUME Inv, TalkInv, ViewInv, [Next]_vars PROVE ViewInv'
  OBVIOUS
<1>0. /\ Members \subseteq Conns /\ clients \in Seq(Conns) /\ issued \in Nat
      /\ wire \in [Conns -> Seq(Packet)] /\ tcpPktQueue \in [Conns -> Seq(Packet)]
  BY RosterTypes DEF Inv, TypeOK
<1>1. CASE (\E c \in Conns : Connect(c) \/ Depart(c) \/ \E what \in FirstPackets : Arrive(c, what))
             \/ AddNewSocket \/ GetNewSocket \/ NoNewConnection \/ ReadFirstPacket \/ DropSocket
             \/ ClientThrows \/ EndFlush \/ HeapAbort \/ UNCHANGED vars
  <2>1. UNCHANGED <<wire, tcpPktQueue, clients, serial, team>> /\ issued' \in {issued, issued + 1}
    BY <1>1 DEF Connect, Depart, Arrive, AddNewSocket, GetNewSocket, NoNewConnection,
                ReadFirstPacket, DropSocket, ClientThrows, EndFlush, HeapAbort, vars, net, client
  <2>2. /\ pc = "aborted" => pc' = "aborted"
        /\ pc = "broadcast" => pc' \in {"broadcast", "aborted"}
        /\ pc' = "broadcast" => pc = "broadcast" /\ i' = i /\ socket' = socket
    BY <1>1 DEF Connect, Depart, Arrive, AddNewSocket, GetNewSocket, NoNewConnection,
                ReadFirstPacket, DropSocket, ClientThrows, EndFlush, HeapAbort, vars, net, client
  <2>3. \A c \in Members : Got(c)' = Got(c)
    BY <2>1 DEF Got
  <2>4. socket' = socket => Badge(socket)' = Badge(socket) /\ GetPlayerID(socket)' = GetPlayerID(socket)
    BY <2>1 DEF Badge, GetPlayerID, PlayerIdAfter
  <2> QED  BY <2>1, <2>2, <2>3, <2>4, SilentStep
<1>2. CASE Reject
  <2>1. /\ UNCHANGED <<tcpPktQueue, clients, serial, team, issued>>
        /\ pc = "decide" /\ pc' = "handle"
        /\ wire' = wire \/ \E p : wire' = [wire EXCEPT ![socket] = Append(@, p)]
    BY <1>2 DEF Reject, client
  <2>2. socket \notin Members
    BY DEF Inv, RosterSound
  <2>3. \A c \in Members : wire'[c] = wire[c]
    BY <1>0, <2>1, <2>2
  <2>4. \A c \in Members : Got(c)' = Got(c)
    BY <2>1, <2>3 DEF Got
  <2> QED  BY <2>1, <2>4, SilentStep
<1>3. CASE MakeClient
  <2>1. /\ UNCHANGED <<tcpPktQueue, clients>> /\ issued' = issued + 1 /\ pc = "respond"
        /\ serial' = [serial EXCEPT ![socket] = issued]
        /\ team' = [team EXCEPT ![socket] = GetTeamForNextPlayer]
        /\ wire' = wire \/ \E p : wire' = [wire EXCEPT ![socket] = Append(@, p)]
        /\ pc' = "handle" \/ (pc' = "broadcast" /\ i' = 1 /\ socket' = socket)
    BY <1>3, Zenon DEF MakeClient
  <2>2. socket \notin Members /\ socket \in Conns
    BY <2>1 DEF Inv, RosterSound, PlaceInv
  <2>3. \A c \in Members : wire'[c] = wire[c] /\ serial'[c] = serial[c] /\ team'[c] = team[c]
    BY <1>0, <2>1, <2>2 DEF Inv, TypeOK
  <2>4. \A c \in Members : Got(c)' = Got(c)
    BY <2>1, <2>3 DEF Got
  <2>5. ASSUME pc' = "broadcast", issued' <= IdMod PROVE GetPlayerID(socket)' \notin IssuedIds
    <3>1. serial'[socket'] = issued
      BY <2>1, <2>2, <2>5 DEF Inv, TypeOK
    <3>2. GetPlayerID(socket)' = PlayerIdAfter(issued)
      BY <3>1 DEF GetPlayerID, PlayerIdAfter
    <3>3. issued < IdMod
      BY <1>0, <2>1, <2>5, ServerAssumption
    <3> QED  BY <1>0, <3>2, <3>3, NewNumber
  <2> QED  BY <2>1, <2>3, <2>4, <2>5, SilentStep
<1>4. CASE BroadcastJoin
  BY <1>4, AnnouncingStep
<1>5. CASE AddClient
  BY <1>5, SeatingStep
<1>6. CASE FlushKick
  BY <1>6, KickingStep
<1>7. CASE FlushClient
  <2> DEFINE c == clients[i]
  <2>1. /\ UNCHANGED <<clients, serial, team, issued, pc, socket>> /\ pc = "flush"
        /\ \/ UNCHANGED <<wire, tcpPktQueue>>
           \/ /\ wire' = [wire EXCEPT ![c] = @ \o tcpPktQueue[c]]
              /\ tcpPktQueue' = [tcpPktQueue EXCEPT ![c] = <<>>]
    BY <1>7, Zenon DEF FlushClient
  <2> HIDE DEF c
  <2>2. ASSUME NEW d \in Members PROVE Got(d)' = Got(d)
    <3>1. wire[d] \in Seq(Packet) /\ tcpPktQueue[d] \in Seq(Packet) /\ d \in Conns
      BY <1>0
    <3>2. \/ wire'[d] = wire[d] /\ tcpPktQueue'[d] = tcpPktQueue[d]
          \/ wire'[d] = wire[d] \o tcpPktQueue[d] /\ tcpPktQueue'[d] = <<>>
      BY <1>0, <2>1, <3>1
    <3>3. Elements(wire[d] \o tcpPktQueue[d]) = Elements(wire[d]) \cup Elements(tcpPktQueue[d])
      BY <3>1, ConcatFacts
    <3> QED  BY <3>2, <3>3, EmptyFacts DEF Got
  <2> QED  BY <2>1, <2>2, SilentStep
<1> QED
  BY <1>1, <1>2, <1>3, <1>4, <1>5, <1>6, <1>7, Zenon
     DEF Next, ServerStep, HandleStep, BroadcastStep, FlushStep

(* Until the numbers have gone once around, replaying its stream takes     *)
(* every client to exactly the players that joined after it and are still  *)
(* there, with their teams; and nobody who is there is said to have left.  *)
THEOREM EveryViewAgrees == Spec => []ViewsAgree
<1>1. Inv /\ ViewInv => ViewsAgree
  <2> SUFFICES ASSUME Inv, ViewInv, issued <= IdMod, pc # "aborted",
                      NEW k \in 1 .. Len(clients)
               PROVE  /\ Known(clients[k]) = {Badge(clients[n]) : n \in k + 1 .. Len(clients)}
                           \cup (IF pc = "broadcast" /\ k < i THEN {Badge(socket)} ELSE {})
                      /\ \A n \in 1 .. Len(clients) :
                           GetPlayerID(clients[n]) \notin Leaves(clients[k])
    BY Zenon DEF ViewsAgree
  <2>1. clients[k] \in Conns
    BY DEF Inv, TypeOK
  <2>2. wire[clients[k]] \in Seq(Packet) /\ tcpPktQueue[clients[k]] \in Seq(Packet)
    BY <2>1 DEF Inv, TypeOK
  <2>3. Elements(Stream(clients[k])) = Got(clients[k])
    BY <2>2, ConcatFacts DEF Stream, Got
  <2>4. /\ Joins(clients[k]) = JoinsIn(Got(clients[k]))
        /\ Leaves(clients[k]) = LeavesIn(Got(clients[k]))
    BY <2>3, Zenon DEF Joins, Leaves, JoinsIn, LeavesIn
  <2>5. Known(clients[k]) = ViewOf(Got(clients[k]))
    BY <2>4, Zenon DEF Known, ViewOf
  <2>6. /\ ViewOf(Got(clients[k])) =
             After(k) \cup (IF pc = "broadcast" /\ k < i THEN {Badge(socket)} ELSE {})
        /\ \A n \in 1 .. Len(clients) : GetPlayerID(clients[n]) \notin LeavesIn(Got(clients[k]))
    BY DEF ViewInv
  <2> QED  BY <2>4, <2>5, <2>6 DEF After
<1> QED  BY Invariance, TalkInvariance, ViewInit, ViewStep, <1>1, PTL DEF Spec
=============================================================================
