------------------------------- MODULE Server -------------------------------
(***************************************************************************)
(* server::Server and server::Client: the lobby.  One thread runs          *)
(* ServerLoop: it takes every connection the ConnectionListener has queued *)
(* (HandleNewTCPConnections), turns it into a player or refuses it, and    *)
(* then sends every client its queued packets (FlushClientPacketQueues).   *)
(* Joining clients, the network and the listener thread run beside it, so  *)
(* each point where the loop touches a socket is a step of its own.        *)
(*                                                                         *)
(* A connection c \in Conns names the client process, the TCP connection   *)
(* it opens and the server::Client made for it.  _protoPhase is            *)
(* PROTO_LOBBY from the constructor on: nothing in the program assigns it  *)
(* again, so the PROTO_NONE branch of ServerLoop is unreachable and has no *)
(* action here.  Nothing broadcasts over UDP either: _udpPktQueue stays    *)
(* empty and SendPacketQueue(UDP) always returns true.                     *)
(***************************************************************************)
EXTENDS Protocol, FiniteSets

CONSTANTS
  Conns,         \* the TCP connections made to the server
  MAX_PLAYERS,   \* Server.h: 4
  IdMod,         \* the range of unsigned, 2^32 in the build
  FirstPackets,  \* what clients send first
  NoSocket       \* NULL

ASSUME ServerAssumption ==
  /\ MAX_PLAYERS \in Nat \ {0}
  /\ IdMod \in Nat \ {0}
  /\ FirstPackets \subseteq {"request", "other", "unreadable"}
  /\ NoSocket \notin Conns

VARIABLES
  peer,            \* the client's end: "none", "open" or "gone"      (external)
  inbox,           \* what has arrived from c and is unread           (external)
  wire,            \* the packets c's TCP connection has accepted     (external)
  backlog,         \* connections the kernel has not handed out yet   (external)
  newConnections,  \* ConnectionListener::_newConnections
  pc,              \* where the server thread is
  socket,          \* the socket HandleNewTCPConnections is handling
  i,               \* loop index of Broadcast and FlushClientPacketQueues
  clients,         \* Server::_clients
  issued,          \* how often GetNextPlayerID has incremented playerId
  serial,          \* which of those calls named client c
  team,            \* Client::_team
  tcpPktQueue,     \* Client::_tcpPktQueue, packet by packet
  storage,         \* the heap block behind _tcpPktQueue
  tcpDisconnect    \* Socket::_tcpDisconnect of c's socket

net    == <<peer, inbox, wire, backlog, newConnections>>
client == <<serial, team, tcpPktQueue, storage>>
vars   == <<net, pc, socket, i, clients, issued, client, tcpDisconnect>>

Elements(s) == {s[k] : k \in 1 .. Len(s)}

(* What a client has sent: nothing unread, a PACKET_JOIN_REQUEST,          *)
(* another packet PacketFactory can read, or one it cannot.                *)
Inbox == {"empty", "request", "other", "unreadable"}

Packet ==
  {JoinResponse(r, n, t) : r \in {0, 1}, n \in 0 .. IdMod - 1, t \in Team}
    \cup {PlayerDidJoin(n, t) : n \in 0 .. IdMod - 1, t \in Team}
    \cup {PlayerDidLeave(n) : n \in 0 .. IdMod - 1}

TypeOK ==
  /\ peer \in [Conns -> {"none", "open", "gone"}]
  /\ inbox \in [Conns -> Inbox]
  /\ wire \in [Conns -> Seq(Packet)]
  /\ backlog \in Seq(Conns)
  /\ newConnections \in Seq(Conns)
  /\ pc \in {"handle", "decide", "respond", "broadcast", "flush", "spin", "aborted"}
  /\ socket \in Conns \cup {NoSocket}
  /\ i \in Nat \ {0}
  /\ clients \in Seq(Conns)
  /\ issued \in Nat
  /\ serial \in [Conns -> Nat]
  /\ team \in [Conns -> Team]
  /\ tcpPktQueue \in [Conns -> Seq(Packet)]
  /\ storage \in [Conns -> {"none", "owned", "freed", "touched"}]
  /\ tcpDisconnect \in [Conns -> BOOLEAN]

Init ==
  /\ peer = [c \in Conns |-> "none"]
  /\ inbox = [c \in Conns |-> "empty"]
  /\ wire = [c \in Conns |-> <<>>]
  /\ backlog = <<>>
  /\ newConnections = <<>>
  /\ pc = "handle"
  /\ socket = NoSocket
  /\ i = 1
  /\ clients = <<>>
  /\ issued = 0
  /\ serial = [c \in Conns |-> 0]
  /\ team = [c \in Conns |-> TEAM_SPY]
  /\ tcpPktQueue = [c \in Conns |-> <<>>]
  /\ storage = [c \in Conns |-> "none"]
  /\ tcpDisconnect = [c \in Conns |-> FALSE]

-----------------------------------------------------------------------------
(* The surroundings: client processes, the kernel and the listener thread. *)

(* A client process opens its TCP connection (ServerConnector).            *)
Connect(c) ==
  /\ peer[c] = "none"
  /\ peer' = [peer EXCEPT ![c] = "open"]
  /\ backlog' = Append(backlog, c)
  /\ UNCHANGED <<inbox, wire, newConnections, pc, socket, i, clients, issued,
                 client, tcpDisconnect>>

(* Its first packet reaches the server's end of the connection.            *)
Arrive(c, what) ==
  /\ peer[c] = "open"
  /\ inbox[c] = "empty"
  /\ inbox' = [inbox EXCEPT ![c] = what]
  /\ UNCHANGED <<peer, wire, backlog, newConnections, pc, socket, i, clients,
                 issued, client, tcpDisconnect>>

(* The client process ends, or its host is lost: its end is closed.        *)
Depart(c) ==
  /\ peer[c] = "open"
  /\ peer' = [peer EXCEPT ![c] = "gone"]
  /\ UNCHANGED <<inbox, wire, backlog, newConnections, pc, socket, i, clients,
                 issued, client, tcpDisconnect>>

(* TcpLoop accepts the oldest pending connection and AddNewSocket appends  *)
(* it.  Module ConnectionListener has the thread and the mutex.            *)
AddNewSocket ==
  /\ backlog # <<>>
  /\ newConnections' = Append(newConnections, Head(backlog))
  /\ backlog' = Tail(backlog)
  /\ UNCHANGED <<peer, inbox, wire, pc, socket, i, clients, issued, client,
                 tcpDisconnect>>

-----------------------------------------------------------------------------
(* Sockets as the server uses them.                                        *)

(* Mutant: SendPacketQueue keeps a single packet back.                     *)
HasSeveralQueued(c) == Len(tcpPktQueue[c]) > 1

(* SendPacketQueue has something to send.                                  *)
HasQueued(c) == tcpPktQueue[c] # <<>>

(* send() to a client that is there succeeds; to one that is gone it may   *)
(* still be accepted by the kernel, or fail.                               *)
SendResults(c) == IF peer[c] = "open" THEN {TRUE} ELSE BOOLEAN

(* Socket::HasActivity: unread data, or the end of the stream.             *)
HasActivity(c) == inbox[c] # "empty" \/ peer[c] = "gone"

(* Client::IsConnected.  Only GetPacket sets _tcpDisconnect, and the       *)
(* server calls GetPacket on a socket once, before there is a Client.      *)
IsConnected(c) == ~ tcpDisconnect[c]

-----------------------------------------------------------------------------
(* Players.                                                                *)

(* Mutant: player numbers are roster slots.                                *)
SlotNumber(n) == 1 + (n % MAX_PLAYERS)

(* The value of the static counter after n increments; it starts at 1.     *)
PlayerIdAfter(n) == (1 + n) % IdMod

GetPlayerID(c) == PlayerIdAfter(serial[c])

Members == Elements(clients)

TeamCount(t) == Cardinality({c \in Members : team[c] = t})

(* Mutant: the comparison of the team sizes is the wrong way round.        *)
GetTeamOfMore ==
  IF TeamCount(TEAM_MERC) < TeamCount(TEAM_SPY) THEN TEAM_SPY ELSE TEAM_MERC

GetTeamForNextPlayer ==
  IF TeamCount(TEAM_MERC) > TeamCount(TEAM_SPY) THEN TEAM_SPY ELSE TEAM_MERC

(* Mutant: one too many.                                                   *)
IsServerOverfull == Len(clients) > MAX_PLAYERS

(* Mutant: one too few.                                                    *)
IsServerAlmostFull == Len(clients) + 1 >= MAX_PLAYERS

IsServerFull == Len(clients) >= MAX_PLAYERS

(* Client::AddPacketToQueue for every client in `to'.                      *)
Queued(to, packet) ==
  [c \in Conns |-> IF c \in to THEN Append(tcpPktQueue[c], packet)
                               ELSE tcpPktQueue[c]]

(* The heap block behind a vector: push_back allocates it, SendPacket      *)
(* frees it behind the vector's back, and whatever uses it after that (the *)
(* next push_back, the vector's destructor) is undefined.                  *)
PushBack(block) ==
  CASE block = "none" -> "owned" [] block = "freed" -> "touched" [] OTHER -> block

DeleteBuf(block) == IF block = "owned" THEN "freed" ELSE "touched"

DestroyVector(block) ==
  IF block \in {"freed", "touched"} THEN "touched" ELSE "none"

StorageQueued(to) ==
  [c \in Conns |-> IF c \in to THEN PushBack(storage[c]) ELSE storage[c]]

(* _clients.erase(_clients.begin() + k), counting from 1 here.             *)
Erase(s, k) == [n \in 1 .. Len(s) - 1 |-> IF n < k THEN s[n] ELSE s[n + 1]]

(* Mutant: the loop over the other clients starts at the kicked one.       *)
KickClientStartsLate(k, block) ==
  LET c      == clients[k]
      others == {clients[n] : n \in k + 1 .. Len(clients)}
  IN  /\ tcpPktQueue' = [Queued(others, PlayerDidLeave(GetPlayerID(c)))
                           EXCEPT ![c] = <<>>]
      /\ storage' = [StorageQueued(others) EXCEPT ![c] = DestroyVector(block)]
      /\ clients' = Erase(clients, k)

(* Server::KickClient(clients[k]), whose queue's block is `block': every   *)
(* other client gets a PACKET_PLAYER_DID_LEAVE, the client is deleted (its *)
(* sockets are not closed: ~Socket only frees the socket set) and leaves   *)
(* the vector.                                                             *)
KickClient(k, block) ==
  LET c      == clients[k]
      others == Members \ {c}
  IN  /\ tcpPktQueue' = [Queued(others, PlayerDidLeave(GetPlayerID(c)))
                           EXCEPT ![c] = <<>>]
      /\ storage' = [StorageQueued(others) EXCEPT ![c] = DestroyVector(block)]
      /\ clients' = Erase(clients, k)

-----------------------------------------------------------------------------
(* HandleNewTCPConnections                                                 *)

(* Mutant: clear() where one element should be erased.                     *)
GetNewSocketClears ==
  /\ pc = "handle"
  /\ newConnections # <<>>
  /\ socket' = Head(newConnections)
  /\ newConnections' = <<>>
  /\ pc' = "decide"
  /\ UNCHANGED <<peer, inbox, wire, backlog, i, clients, issued, client,
                 tcpDisconnect>>

(* HasNewConnection was true: take the oldest socket.                      *)
GetNewSocket ==
  /\ pc = "handle"
  /\ newConnections # <<>>
  /\ socket' = Head(newConnections)
  /\ newConnections' = Tail(newConnections)
  /\ pc' = "decide"
  /\ UNCHANGED <<peer, inbox, wire, backlog, i, clients, issued, client,
                 tcpDisconnect>>

(* Mutant: the index of the flush loop is not initialised.                 *)
NoNewConnectionOffByOne ==
  /\ pc = "handle"
  /\ newConnections = <<>>
  /\ pc' = "flush"
  /\ i' = 0
  /\ UNCHANGED <<net, socket, clients, issued, client, tcpDisconnect>>

(* HasNewConnection was false: ServerLoop goes on to the flush.            *)
NoNewConnection ==
  /\ pc = "handle"
  /\ newConnections = <<>>
  /\ pc' = "flush"
  /\ i' = 1
  /\ UNCHANGED <<net, socket, clients, issued, client, tcpDisconnect>>

(* Mutant: the refusal says yes.                                           *)
RejectAccepts ==
  /\ pc = "decide"
  /\ IsServerFull
  /\ wire' = [wire EXCEPT ![socket] = Append(@, JoinResponse(1, 0, TEAM_SPY))]
  /\ pc' = "handle"
  /\ socket' = NoSocket
  /\ UNCHANGED <<peer, inbox, backlog, newConnections, i, clients, issued,
                 client, tcpDisconnect>>

(* The server is full: a negative response, whose fate is ignored, and the *)
(* socket is deleted.                                                      *)
Reject ==
  /\ pc = "decide"
  /\ IsServerFull
  /\ \E sent \in SendResults(socket) :
       wire' = IF sent THEN [wire EXCEPT ![socket] = Append(@, JoinResponse(0, 0, TEAM_SPY))]
                       ELSE wire
  /\ pc' = "handle"
  /\ socket' = NoSocket
  /\ UNCHANGED <<peer, inbox, backlog, newConnections, i, clients, issued,
                 client, tcpDisconnect>>

(* AcceptNewClient gives up on the socket: no activity yet, end of stream  *)
(* (which GetPacket notes) or a reset (which it does not), or unreadable    *)
(* data.                                                                   *)
DropSocket ==
  /\ pc = "decide"
  /\ ~ IsServerFull
  /\ \/ ~ HasActivity(socket) /\ UNCHANGED <<inbox, tcpDisconnect>>
     \/ /\ inbox[socket] = "empty" /\ peer[socket] = "gone"
        /\ \E eof \in BOOLEAN :
             tcpDisconnect' = [tcpDisconnect EXCEPT ![socket] = eof]
        /\ UNCHANGED inbox
     \/ /\ inbox[socket] = "unreadable"
        /\ inbox' = [inbox EXCEPT ![socket] = "empty"]
        /\ UNCHANGED tcpDisconnect
  /\ pc' = "handle"
  /\ socket' = NoSocket
  /\ UNCHANGED <<peer, wire, backlog, newConnections, i, clients, issued, client>>

(* Mutant: the test of the packet type is inverted.                        *)
ReadFirstPacketInverted ==
  /\ pc = "decide"
  /\ ~ IsServerFull
  /\ inbox[socket] \in {"request", "other"}
  /\ inbox' = [inbox EXCEPT ![socket] = "empty"]
  /\ pc' = IF inbox[socket] = "other" THEN "respond" ELSE "handle"
  /\ socket' = IF pc' = "handle" THEN NoSocket ELSE socket
  /\ UNCHANGED <<peer, wire, backlog, newConnections, i, clients, issued,
                 client, tcpDisconnect>>

(* GetPacket reads a packet.  A PACKET_JOIN_REQUEST makes a Client, any    *)
(* other packet loses the connection.  Or GetPacket never leaves its loop: *)
(* as long as ReadPacket does not store the packet's length that is what   *)
(* happens (module Socket), and all the code behind it is never run, so    *)
(* the model has both outcomes.                                            *)
ReadFirstPacket ==
  /\ pc = "decide"
  /\ ~ IsServerFull
  /\ inbox[socket] \in {"request", "other"}
  /\ inbox' = [inbox EXCEPT ![socket] = "empty"]
  /\ pc' \in {"spin", IF inbox[socket] = "request" THEN "respond" ELSE "handle"}
  /\ socket' = IF pc' = "handle" THEN NoSocket ELSE socket
  /\ UNCHANGED <<peer, wire, backlog, newConnections, i, clients, issued,
                 client, tcpDisconnect>>

(* The Client constructor opens a UDP socket; Socket::Init throws when it  *)
(* cannot, and nothing catches it.                                         *)
ClientThrows ==
  /\ pc = "respond"
  /\ issued' = issued + 1
  /\ pc' = "aborted"
  /\ UNCHANGED <<net, socket, i, clients, client, tcpDisconnect>>

(* Mutant: the result of SendJoinResponsePacket is not looked at.          *)
MakeClientUnchecked ==
  /\ pc = "respond"
  /\ issued' = issued + 1
  /\ serial' = [serial EXCEPT ![socket] = issued]
  /\ team' = [team EXCEPT ![socket] = GetTeamForNextPlayer]
  /\ \E sent \in SendResults(socket) :
       wire' = IF sent
               THEN [wire EXCEPT ![socket] =
                       Append(@, JoinResponse(1, PlayerIdAfter(issued), GetTeamForNextPlayer))]
               ELSE wire
  /\ pc' = "broadcast"
  /\ i' = 1
  /\ UNCHANGED <<peer, inbox, backlog, newConnections, socket, clients,
                 tcpPktQueue, storage, tcpDisconnect>>

(* Mutant: the join is broadcast to the new client too, and first.         *)
MakeClientAnnounced ==
  /\ pc = "respond"
  /\ issued' = issued + 1
  /\ serial' = [serial EXCEPT ![socket] = issued]
  /\ team' = [team EXCEPT ![socket] = GetTeamForNextPlayer]
  /\ wire' = [wire EXCEPT ![socket] =
                @ \o <<PlayerDidJoin(PlayerIdAfter(issued), GetTeamForNextPlayer),
                       JoinResponse(1, PlayerIdAfter(issued), GetTeamForNextPlayer)>>]
  /\ pc' = "broadcast"
  /\ i' = 1
  /\ UNCHANGED <<peer, inbox, backlog, newConnections, socket, clients,
                 tcpPktQueue, storage, tcpDisconnect>>

(* new Client(GetNextPlayerID(), GetTeamForNextPlayer(), ...) and          *)
(* SendJoinResponsePacket; when the send fails the Client is deleted, but  *)
(* its number is spent.                                                    *)
MakeClient ==
  /\ pc = "respond"
  /\ issued' = issued + 1
  /\ serial' = [serial EXCEPT ![socket] = issued]
  /\ team' = [team EXCEPT ![socket] = GetTeamForNextPlayer]
  /\ \/ /\ TRUE \in SendResults(socket)
        /\ wire' = [wire EXCEPT ![socket] =
                      Append(@, JoinResponse(1, PlayerIdAfter(issued), GetTeamForNextPlayer))]
        /\ pc' = "broadcast"
        /\ i' = 1
        /\ UNCHANGED socket
     \/ /\ FALSE \in SendResults(socket)
        /\ pc' = "handle"
        /\ socket' = NoSocket
        /\ UNCHANGED <<wire, i>>
  /\ UNCHANGED <<peer, inbox, backlog, newConnections, clients, tcpPktQueue,
                 storage, tcpDisconnect>>

(* One turn of Broadcast(TCP, PACKET_PLAYER_DID_JOIN).                     *)
BroadcastJoin ==
  /\ pc = "broadcast"
  /\ i <= Len(clients)
  /\ IF IsConnected(clients[i])
     THEN /\ tcpPktQueue' = Queued({clients[i]},
                                   PlayerDidJoin(GetPlayerID(socket), team[socket]))
          /\ storage' = StorageQueued({clients[i]})
          /\ i' = i + 1
          /\ UNCHANGED clients
     ELSE KickClient(i, storage[clients[i]]) /\ UNCHANGED i
  /\ UNCHANGED <<net, pc, socket, issued, serial, team, tcpDisconnect>>

(* After the broadcast: _clients.push_back(client).                        *)
AddClient ==
  /\ pc = "broadcast"
  /\ i > Len(clients)
  /\ clients' = Append(clients, socket)
  /\ pc' = "handle"
  /\ socket' = NoSocket
  /\ UNCHANGED <<net, i, issued, client, tcpDisconnect>>

-----------------------------------------------------------------------------
(* FlushClientPacketQueues                                                 *)

(* The client's turn, and its packets, if any, are sent.  SendPacket ends  *)
(* with delete[] of the buffer it was given: the vector's own block.       *)
FlushClient ==
  /\ pc = "flush"
  /\ i <= Len(clients)
  /\ LET c == clients[i] IN
       /\ IsConnected(c)
       /\ \/ ~ HasQueued(c) /\ UNCHANGED <<wire, tcpPktQueue, storage>>
          \/ /\ HasQueued(c) /\ TRUE \in SendResults(c)
             /\ wire' = [wire EXCEPT ![c] = @ \o tcpPktQueue[c]]
             /\ tcpPktQueue' = [tcpPktQueue EXCEPT ![c] = <<>>]
             /\ storage' = [storage EXCEPT ![c] = DeleteBuf(@)]
  /\ i' = i + 1
  /\ UNCHANGED <<peer, inbox, backlog, newConnections, pc, socket, clients,
                 issued, serial, team, tcpDisconnect>>

(* Mutant: no i-- after KickClient.                                        *)
FlushKickSkips ==
  /\ pc = "flush"
  /\ i <= Len(clients)
  /\ LET c == clients[i] IN
       /\ IsConnected(c) => HasQueued(c) /\ FALSE \in SendResults(c)
       /\ KickClient(i, IF IsConnected(c) THEN DeleteBuf(storage[c]) ELSE storage[c])
  /\ i' = i + 1
  /\ UNCHANGED <<net, pc, socket, issued, serial, team, tcpDisconnect>>

(* The client turns out to be disconnected, or the send (which also ends   *)
(* with delete[]) fails.                                                   *)
FlushKick ==
  /\ pc = "flush"
  /\ i <= Len(clients)
  /\ LET c == clients[i] IN
       /\ IsConnected(c) => HasQueued(c) /\ FALSE \in SendResults(c)
       /\ KickClient(i, IF IsConnected(c) THEN DeleteBuf(storage[c]) ELSE storage[c])
  /\ UNCHANGED <<net, pc, socket, i, issued, serial, team, tcpDisconnect>>

(* usleep(40000) and round again.                                          *)
EndFlush ==
  /\ pc = "flush"
  /\ i > Len(clients)
  /\ pc' = "handle"
  /\ UNCHANGED <<net, socket, i, clients, issued, client, tcpDisconnect>>

(* Undefined behaviour: once a freed block has been used the heap may be   *)
(* found corrupt, and the process aborted, any time.                       *)
HeapAbort ==
  /\ pc # "aborted"
  /\ \E c \in Conns : storage[c] = "touched"
  /\ pc' = "aborted"
  /\ UNCHANGED <<net, socket, i, clients, issued, client, tcpDisconnect>>

-----------------------------------------------------------------------------
HandleStep == GetNewSocket \/ NoNewConnection \/ Reject \/ DropSocket
                \/ ReadFirstPacket \/ ClientThrows \/ MakeClient
BroadcastStep == BroadcastJoin \/ AddClient
FlushStep     == FlushClient \/ FlushKick \/ EndFlush
ServerStep    == HandleStep \/ BroadcastStep \/ FlushStep

Next ==
  \/ \E c \in Conns : Connect(c) \/ Depart(c)
  \/ \E c \in Conns, what \in FirstPackets : Arrive(c, what)
  \/ AddNewSocket
  \/ ServerStep
  \/ HeapAbort

Spec == Init /\ [][Next]_vars

(* The two threads are scheduled; clients and the heap owe nothing.        *)
FairSpec == Spec /\ WF_vars(ServerStep) /\ WF_vars(AddNewSocket)

-----------------------------------------------------------------------------
(* Properties.                                                             *)

Stream(c) == wire[c] \o tcpPktQueue[c]

Dead == pc \in {"spin", "aborted"}

(* A connection is in one place only: pending, waiting in _newConnections, *)
(* being handled, or on the roster; and the roster never exceeds           *)
(* MAX_PLAYERS.                                                            *)
NoRepeat(s) == \A j, k \in 1 .. Len(s) : s[j] = s[k] => j = k

RosterSound ==
  /\ NoRepeat(backlog) /\ NoRepeat(newConnections) /\ NoRepeat(clients)
  /\ Elements(backlog) \cap Elements(newConnections) = {}
  /\ Members \cap (Elements(backlog) \cup Elements(newConnections)) = {}
  /\ socket \notin Elements(backlog) \cup Elements(newConnections) \cup Members
  /\ Len(clients) <= MAX_PLAYERS

(* Until the static counter of GetNextPlayerID has gone once around, no    *)
(* two players on the roster have the same number, though numbers are      *)
(* spent on clients that never get there and roster places are reused.     *)
UniqueIds ==
  issued <= IdMod =>
    \A j, k \in 1 .. Len(clients) :
      GetPlayerID(clients[j]) = GetPlayerID(clients[k]) => j = k

(* A client's stream begins with the one PACKET_JOIN_RESPONSE it ever      *)
(* gets, and everyone on the roster was told its own number and team.      *)
ResponseFirst ==
  \A c \in Conns :
    /\ \A k \in 1 .. Len(Stream(c)) :
         (Stream(c)[k].type = "PACKET_JOIN_RESPONSE") <=> (k = 1)
    /\ c \in Members =>
         /\ wire[c] # <<>>
         /\ wire[c][1] = JoinResponse(1, GetPlayerID(c), team[c])

(* Replaying its stream, sent and queued, a client arrives at exactly the  *)
(* players that joined after it and are still on the roster (in the middle *)
(* of Broadcast: the new one too, if the loop has passed the client), with *)
(* the team each was given; and it was never told that a player left who   *)
(* is still there.                                                         *)
Joins(c)  == {<<p.playerID, p.team>> : p \in {q \in Elements(Stream(c)) :
                                              q.type = "PACKET_PLAYER_DID_JOIN"}}
Leaves(c) == {p.playerID : p \in {q \in Elements(Stream(c)) :
                                    q.type = "PACKET_PLAYER_DID_LEAVE"}}
Known(c)  == {p \in Joins(c) : p[1] \notin Leaves(c)}
Badge(c)  == <<GetPlayerID(c), team[c]>>

ViewsAgree ==
  issued <= IdMod /\ pc # "aborted" =>
    \A k \in 1 .. Len(clients) :
      /\ Known(clients[k]) =
           {Badge(clients[n]) : n \in k + 1 .. Len(clients)}
             \cup (IF pc = "broadcast" /\ k < i THEN {Badge(socket)} ELSE {})
      /\ \A n \in 1 .. Len(clients) :
           GetPlayerID(clients[n]) \notin Leaves(clients[k])

(* FlushClientPacketQueues passes over nobody, although KickClient erases  *)
(* from the vector it walks: behind the index only the leave packets that  *)
(* this very pass has caused are queued.                                   *)
FlushPassesNobody ==
  pc = "flush" =>
    \A k \in 1 .. Len(clients) :
      k < i => \A p \in Elements(tcpPktQueue[clients[k]]) :
                 p.type = "PACKET_PLAYER_DID_LEAVE"

(* GetTeamForNextPlayer: a player joining never makes the larger team lead *)
(* by more than it did, unless that is a lead of one.                      *)
Lead == IF TeamCount(TEAM_MERC) >= TeamCount(TEAM_SPY)
        THEN TeamCount(TEAM_MERC) - TeamCount(TEAM_SPY)
        ELSE TeamCount(TEAM_SPY) - TeamCount(TEAM_MERC)

JoinKeepsBalance ==
  [][Len(clients') > Len(clients) => Lead' <= Lead \/ Lead' = 1]_vars

(* What Broadcast and KickClient queue does get sent (or its client is     *)
(* kicked), unless the process has ended or hangs.                         *)
QueuesDrain ==
  \A c \in Conns : (tcpPktQueue[c] # <<>>) ~> (tcpPktQueue[c] = <<>> \/ Dead)

(* PACKET_JOIN_RESPONSE is the "Response to joining client from server": a *)
(* client whose request is there before the server thread has taken its    *)
(* connection from the listener and looked at it gets one, unless it goes  *)
(* away.  (A request that is later finds its connection dropped and is     *)
(* never answered.)                                                        *)
RequestInTimeAnswered ==
  \A c \in Conns :
    (/\ c \in Elements(newConnections) \/ (pc = "decide" /\ socket = c)
     /\ inbox[c] = "request")
      ~> (peer[c] = "gone" \/ wire[c] # <<>> \/ Dead)

(* PACKET_PLAYER_DID_LEAVE is "Broadcasted to all remaining players upon a *)
(* player's departure": every player that remains is told.                 *)
DepartureNoticed ==
  \A c, d \in Conns :
    (c # d /\ {c, d} \subseteq Members /\ peer[c] = "gone" /\ peer[d] = "open")
      ~> (GetPlayerID(c) \in Leaves(d) \/ peer[d] = "gone" \/ Dead)

(* KickClient "Adds a PACKET_PLAYER_DID_LEAVE to the queue of all other    *)
(* clients": a queue that holds one has memory of its own to hold it in.   *)
LeavesAreQueued ==
  \A c \in Conns :
    (\E p \in Elements(tcpPktQueue[c]) : p.type = "PACKET_PLAYER_DID_LEAVE")
      => storage[c] = "owned"
=============================================================================
