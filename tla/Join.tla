-------------------------------- MODULE Join --------------------------------
(***************************************************************************)
(* Joining a lobby, with both ends as they are: one client process runs    *)
(* ServerConnector against Server, over a network that delays what either  *)
(* sends, while other clients come and go as they like.                    *)
(*                                                                         *)
(* Each attempt of the client has a TCP connection of its own, Mine[k].    *)
(* The connector deletes its sockets when it gives up, but ~Socket does    *)
(* not close them: the server sees the connection as open until the client *)
(* process ends.  A request or an answer that is late is therefore not     *)
(* lost, it meets a client that has gone on to its next attempt.           *)
(***************************************************************************)
EXTENDS Server

CONSTANTS
  MaxAttempts,   \* bound: calls of ConnectToServer that open sockets
  MaxReplies,    \* as many packets as the server can send in the instance
  Timeout,       \* seconds ConnectToServer waits: 10 in the code
  Mine,          \* the connection of each attempt
  NULL

ASSUME JoinAssumption ==
  /\ Mine \in [1 .. MaxAttempts -> Conns]
  /\ \A j, k \in 1 .. MaxAttempts : Mine[j] = Mine[k] => j = k
  /\ MaxAttempts \in Nat /\ MaxReplies \in Nat
  /\ "request" \in FirstPackets

VARIABLES
  outbound,   \* connections whose request is on its way             (external)
  reached,    \* the state of the server's end, as the client sees it
  received,   \* what has reached the client and nobody read
  delivered,  \* how many packets of the stream have reached it
  at,         \* where the caller of ConnectToServer is
  attempt, elapsed, heap, tcpSocket, udpSocket, isConnected, playerID,
  result, fetched

Connector == INSTANCE ServerConnector
               WITH server <- reached, inbox <- received, sent <- delivered, pc <- at

serverVars    == vars
connectorVars == <<reached, received, delivered, at, attempt, elapsed, heap, tcpSocket,
                   udpSocket, isConnected, playerID, result, fetched>>
joinVars      == <<serverVars, outbound, connectorVars>>

Ours == {Mine[k] : k \in 1 .. MaxAttempts}

JoinInit == Init /\ Connector!Init /\ outbound = {}

-----------------------------------------------------------------------------
(* The client process.                                                     *)

(* new SocketTCP: the connection enters the server's backlog, or nobody    *)
(* answers.                                                                *)
OpenTcp ==
  /\ Connector!OpenTcp
  /\ \/ at' = "send" /\ pc # "aborted" /\ Connect(Mine[attempt])
     \/ at' = "idle" /\ UNCHANGED serverVars
  /\ UNCHANGED outbound

(* The request leaves, if the send succeeds.                               *)
SendRequest ==
  /\ Connector!SendRequest
  /\ outbound' = IF at' = "time" THEN outbound \cup {Mine[attempt]} ELSE outbound
  /\ UNCHANGED serverVars

(* What ConnectToServer does by itself.  IgnorePacket is missing: it would *)
(* need a packet before the response (AnswerComesFirst).                   *)
ClientAlone ==
  /\ \/ Connector!AlreadyConnected \/ Connector!OpenUdp
     \/ Connector!KeepWaiting \/ Connector!TimeOut \/ Connector!SleepOn
     \/ Connector!UseNull \/ Connector!SpinInGetPacket
     \/ Connector!Rejected \/ Connector!Accepted
     \/ Connector!Destroy
  /\ UNCHANGED <<serverVars, outbound>>

Tick == Connector!Tick /\ UNCHANGED <<serverVars, outbound>>

(* The process ends, by itself or with a fault, and the kernel closes what *)
(* it left open, behind what it had sent.                                  *)
Ended == at \in {"faulted", "destroyed"}

CloseDescriptor(c) ==
  /\ Ended
  /\ c \in Ours \ outbound
  /\ Depart(c)
  /\ UNCHANGED <<outbound, connectorVars>>

-----------------------------------------------------------------------------
(* The network.                                                            *)

RequestArrives(c) ==
  /\ c \in outbound
  /\ Arrive(c, "request")
  /\ outbound' = outbound \ {c}
  /\ UNCHANGED connectorVars

(* What ConnectToServer makes of a packet; the factory has no creator for  *)
(* PACKET_PLAYER_DID_LEAVE.                                                *)
Kind(packet) ==
  CASE packet.type = "PACKET_JOIN_RESPONSE"   -> IF packet.response = 1 THEN "accept" ELSE "reject"
    [] packet.type = "PACKET_PLAYER_DID_JOIN" -> "other"
    [] OTHER                                  -> "unreadable"

(* The next packet of the connection reaches the client.                   *)
Deliver ==
  /\ at \in {"time", "poll"}
  /\ delivered < Len(wire[Mine[attempt]])
  /\ Connector!Reply(Kind(wire[Mine[attempt]][delivered + 1]))
  /\ UNCHANGED <<serverVars, outbound>>

(* The server closes connections only by ending.                           *)
ServerEnds ==
  /\ pc = "aborted"
  /\ Connector!ServerEnds
  /\ UNCHANGED <<serverVars, outbound>>

-----------------------------------------------------------------------------
(* Other clients, and the server.                                          *)

Others ==
  /\ \E c \in Conns \ Ours :
       Connect(c) \/ Depart(c) \/ \E what \in FirstPackets : Arrive(c, what)
  /\ UNCHANGED <<outbound, connectorVars>>

Listener == AddNewSocket /\ UNCHANGED <<outbound, connectorVars>>
Lobby    == ServerStep /\ UNCHANGED <<outbound, connectorVars>>
Heap     == HeapAbort /\ UNCHANGED <<outbound, connectorVars>>

ClientStep == OpenTcp \/ SendRequest \/ ClientAlone

JoinNext ==
  \/ ClientStep \/ Tick \/ Deliver \/ ServerEnds
  \/ \E c \in Ours : CloseDescriptor(c) \/ RequestArrives(c)
  \/ Others \/ Listener \/ Lobby \/ Heap

JoinSpec == JoinInit /\ [][JoinNext]_joinVars

(* Both of the server's threads run, a call once made is executed, time    *)
(* passes, and TCP delivers.                                               *)
JoinFairSpec ==
  /\ JoinSpec
  /\ WF_joinVars(Lobby) /\ WF_joinVars(Listener)
  /\ WF_joinVars(ClientStep /\ at # "idle") /\ WF_joinVars(Tick)
  /\ WF_joinVars(Deliver) /\ \A c \in Ours : WF_joinVars(RequestArrives(c))

-----------------------------------------------------------------------------
(* Properties.                                                             *)

Current == Mine[attempt]

(* The packet ConnectToServer read last on the current connection.         *)
Answer == wire[Current][delivered - Len(received)]

Seated(c) == c \in Members \/ (pc = "broadcast" /\ socket = c)

(* A client that believes it has joined is on the server's roster, or just *)
(* about to be, under the very number and team it was told, however late   *)
(* the answers to its earlier attempts were; until one of the processes    *)
(* ends.                                                                   *)
ConnectedIsSeated ==
  isConnected /\ pc # "aborted" /\ ~ Ended =>
    Seated(Current) /\ Answer = JoinResponse(1, GetPlayerID(Current), team[Current])

(* "The only accepted response to a PACKET_JOIN_REQUEST is a               *)
(* PACKET_JOIN_RESPONSE": nothing else ever comes first.                   *)
AnswerComesFirst ==
  at = "poll" /\ received # <<>> => Head(received) \in {"accept", "reject"}

(* A request that is there when the server takes its connection up, and    *)
(* has room, gets its attempt a place on the roster, whether the client    *)
(* still waits for it or has given it up, unless the server or the client  *)
(* process ends.                                                           *)
InTimeIsSeated ==
  \A c \in Ours :
    (pc = "decide" /\ socket = c /\ inbox[c] = "request" /\ Len(clients) < MAX_PLAYERS)
      ~> (c \in Members \/ Dead \/ peer[c] = "gone")
=============================================================================
