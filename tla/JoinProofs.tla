----------------------------- MODULE JoinProofs -----------------------------
(***************************************************************************)
(* Joining a lobby, for any number of other connections and of attempts:   *)
(* the server half of Join is Server and the client half ServerConnector,  *)
(* the answer is what a client reads first, and a client that believes it  *)
(* has joined is on the roster.                                            *)
(***************************************************************************)
EXTENDS Join, ServerProofs

-----------------------------------------------------------------------------
(* The two halves.                                                         *)

(* ConnectToServer has an attempt of its own while it is inside.           *)
AttemptInv ==
  /\ attempt \in 0 .. MaxAttempts
  /\ at \in {"tcp", "send", "time", "poll"} => attempt # 0

(* The steps of the connector as far as attempts and places matter.        *)
LEMMA AttemptStep == AttemptInv /\ [JoinNext]_joinVars => AttemptInv'
<1> SUFFICES ASSUME AttemptInv, [JoinNext]_joinVars PROVE AttemptInv'
  OBVIOUS
<1> USE JoinAssumption DEF AttemptInv
<1>1. ASSUME UNCHANGED <<attempt, at>> PROVE AttemptInv'
  BY <1>1
<1>2. CASE (\E c \in Ours : CloseDescriptor(c) \/ RequestArrives(c))
             \/ Others \/ Listener \/ Lobby \/ Heap \/ UNCHANGED joinVars
  <2>1. UNCHANGED <<attempt, at>>
    BY <1>2 DEF CloseDescriptor, RequestArrives, Others, Listener, Lobby, Heap, joinVars,
                connectorVars
  <2> QED  BY <1>1, <2>1
<1>3. CASE Tick \/ Deliver \/ ServerEnds
  <2>1. UNCHANGED <<attempt, at>>
    BY <1>3 DEF Tick, Deliver, ServerEnds, Connector!Tick, Connector!Reply, Connector!ServerEnds
  <2> QED  BY <1>1, <2>1
<1>4. CASE Connector!OpenUdp
  BY <1>4 DEF Connector!OpenUdp
<1>5. CASE OpenTcp \/ SendRequest
  <2>1. attempt' = attempt /\ at \in {"tcp", "send"}
    BY <1>5 DEF OpenTcp, SendRequest, Connector!OpenTcp, Connector!SendRequest
  <2> QED  BY <2>1
<1>6. CASE Connector!AlreadyConnected \/ Connector!KeepWaiting \/ Connector!TimeOut
             \/ Connector!SleepOn \/ Connector!UseNull \/ Connector!SpinInGetPacket
             \/ Connector!Rejected \/ Connector!Accepted
  <2>1. attempt' = attempt /\ (at' = at \/ at \in {"time", "poll"})
    BY <1>6 DEF Connector!AlreadyConnected, Connector!KeepWaiting, Connector!TimeOut,
                Connector!SleepOn, Connector!UseNull, Connector!SpinInGetPacket,
                Connector!Rejected, Connector!Accepted
  <2> QED  BY <2>1
<1>7. CASE Connector!Destroy
  <2>1. attempt' = attempt /\ at' \in {"destroyed", "corrupted"}
    BY <1>7 DEF Connector!Destroy
  <2> QED  BY <2>1
<1> QED
  BY <1>2, <1>3, <1>4, <1>5, <1>6, <1>7, Zenon DEF JoinNext, ClientStep, ClientAlone

LEMMA AttemptInit == JoinInit => AttemptInv
BY JoinAssumption DEF JoinInit, Connector!Init, AttemptInv

(* The attempts are numbered as they are made, each with its connection.   *)
THEOREM Attempts == JoinSpec => []AttemptInv
BY AttemptInit, AttemptStep, PTL DEF JoinSpec

(* Each step of the whole is a step of the server, its clients and its     *)
(* listener, or none of theirs.                                            *)
LEMMA ServerHalf == AttemptInv /\ [JoinNext]_joinVars => [Next]_vars
<1> SUFFICES ASSUME AttemptInv, [JoinNext]_joinVars PROVE [Next]_vars
  OBVIOUS
<1>0. Ours \subseteq Conns
  BY JoinAssumption DEF Ours
<1>1. CASE OpenTcp
  <2>1. at = "tcp"
    BY <1>1 DEF OpenTcp, Connector!OpenTcp
  <2>2. Mine[attempt] \in Conns
    BY <2>1, JoinAssumption DEF AttemptInv
  <2>3. Connect(Mine[attempt]) \/ UNCHANGED vars
    BY <1>1, Zenon DEF OpenTcp, serverVars
  <2> QED  BY <2>2, <2>3 DEF Next
<1>2. CASE SendRequest \/ ClientAlone \/ Tick \/ Deliver \/ ServerEnds \/ UNCHANGED joinVars
  <2>1. UNCHANGED serverVars
    BY <1>2, Zenon DEF SendRequest, ClientAlone, Tick, Deliver, ServerEnds, joinVars
  <2> QED  BY <2>1 DEF serverVars
<1>3. ASSUME NEW c \in Ours, CloseDescriptor(c) PROVE [Next]_vars
  BY <1>0, <1>3 DEF CloseDescriptor, Next
<1>4. ASSUME NEW c \in Ours, RequestArrives(c) PROVE [Next]_vars
  BY <1>0, <1>4, JoinAssumption DEF RequestArrives, Next
<1>5. CASE Others
  BY <1>5 DEF Others, Next
<1>6. CASE Listener \/ Lobby \/ Heap
  BY <1>6 DEF Listener, Lobby, Heap, Next
<1> QED
  BY <1>1, <1>2, <1>3, <1>4, <1>5, <1>6, Zenon DEF JoinNext, ClientStep

(* Whatever is proved of Server holds here: with the client process, the   *)
(* network and the other clients put in, the server still behaves as       *)
(* module Server says.                                                     *)
THEOREM ImplementsServer == JoinSpec => Spec
<1>1. JoinInit => Init
  BY DEF JoinInit
<1> QED  BY Attempts, ServerHalf, <1>1, PTL DEF JoinSpec, Spec

(* Each step of the whole is a step of the connector and its caller, or of *)
(* the server as the connector sees it, or none of theirs.                 *)
LEMMA ConnectorHalf == [JoinNext]_joinVars => [Connector!Next]_(Connector!vars)
<1> SUFFICES ASSUME [JoinNext]_joinVars PROVE [Connector!Next]_(Connector!vars)
  OBVIOUS
<1>1. CASE UNCHANGED connectorVars
  BY <1>1 DEF connectorVars, Connector!vars, Connector!remote, Connector!members
<1>2. CASE (\E c \in Ours : CloseDescriptor(c) \/ RequestArrives(c))
             \/ Others \/ Listener \/ Lobby \/ Heap \/ UNCHANGED joinVars
  <2>1. UNCHANGED connectorVars
    BY <1>2, Zenon DEF CloseDescriptor, RequestArrives, Others, Listener, Lobby, Heap, joinVars
  <2> QED  BY <1>1, <2>1
<1>3. CASE OpenTcp \/ SendRequest \/ ClientAlone
  <2>1. Connector!ConnectToServer \/ Connector!Destroy
    BY <1>3, Zenon DEF OpenTcp, SendRequest, ClientAlone, Connector!ConnectToServer
  <2> QED  BY <2>1, Zenon DEF Connector!Next, Connector!Caller
<1>4. CASE Tick \/ ServerEnds
  BY <1>4, Zenon DEF Tick, ServerEnds, Connector!Next
<1>5. CASE Deliver
  <2> DEFINE packet == wire[Mine[attempt]][delivered + 1]
  <2>1. Kind(packet) \in Connector!Replies
    BY DEF Kind, Connector!Replies
  <2>2. Connector!Reply(Kind(packet))
    BY <1>5, Zenon DEF Deliver
  <2> QED  BY <2>1, <2>2, Zenon DEF Connector!Next
<1> QED
  BY <1>2, <1>3, <1>4, <1>5, Zenon DEF JoinNext, ClientStep

(* ServerConnector leaves open what the server answers and when; against   *)
(* the real server it still behaves as module ServerConnector says, so     *)
(* what is proved there holds here too.                                    *)
THEOREM ImplementsConnector == JoinSpec => Connector!Spec
<1>1. JoinInit => Connector!Init
  BY DEF JoinInit
<1> QED  BY ConnectorHalf, <1>1, PTL DEF JoinSpec, Connector!Spec

-----------------------------------------------------------------------------
(* What the client has read.  Between the call and its answer nothing has  *)
(* been taken from the stream, so what is read first is the first packet   *)
(* of the current connection; once connected, exactly one packet has been  *)
(* read, and the attempt it belongs to is the current one.                 *)

Waiting == at \in {"send", "time", "poll"}

ReadInv ==
  /\ received \in Seq(Connector!Replies) /\ delivered \in Nat
  /\ isConnected \in BOOLEAN
  /\ at = "tcp" \/ Waiting => isConnected = FALSE
  /\ Waiting =>
       /\ Len(received) = delivered
       /\ received # <<>> => /\ wire[Current] # <<>>
                             /\ Head(received) = Kind(wire[Current][1])
  /\ isConnected =>
       /\ attempt # 0 /\ at \in {"idle", "destroyed", "corrupted"}
       /\ delivered - Len(received) = 1
       /\ wire[Current] # <<>> /\ Kind(wire[Current][1]) = "accept"

(* The process that owns our connections closes them by ending.            *)
OpenInv == \A c \in Ours : peer[c] = "gone" => Ended

(* Whoever was told that it has joined, and is there, has its place.       *)
SeatInv ==
  \A c \in Conns :
    peer[c] = "open" /\ wire[c] # <<>> /\ wire[c][1].response = 1 /\ pc # "aborted"
      => Seated(c)

(* What sends: the two answers and the flush.                              *)
LEMMA WireChanges ==
  [Next]_vars => wire' = wire \/ Reject \/ MakeClient \/ FlushClient
BY DEF Next, Connect, Depart, Arrive, AddNewSocket, HeapAbort, vars, net, ServerStep,
    HandleStep, BroadcastStep, FlushStep, GetNewSocket, NoNewConnection, DropSocket,
    ReadFirstPacket, ClientThrows, BroadcastJoin, AddClient, FlushKick, EndFlush

(* What a client was sent first stays what it was sent first.              *)
LEMMA WireStable ==
  ASSUME Inv, TalkInv, [Next]_vars, NEW c \in Conns, wire[c] # <<>>
  PROVE  wire'[c] # <<>> /\ wire'[c][1] = wire[c][1]
<1> USE DEF TalkInv
<1>1. wire \in [Conns -> Seq(Packet)] /\ wire[c] \in Seq(Packet)
  BY DEF Inv, TypeOK
<1>2. CASE wire' = wire
  BY <1>2
<1>3. CASE Reject \/ MakeClient
  <2>1. socket \in Conns /\ wire[socket] = <<>>
    BY <1>3 DEF Inv, PlaceInv, Reject, MakeClient, Fresh
  <2>2. wire' = wire \/ \E p : wire' = [wire EXCEPT ![socket] = Append(@, p)]
    BY <1>3 DEF Reject, MakeClient
  <2>3. wire'[c] = wire[c]
    BY <1>1, <2>1, <2>2
  <2> QED  BY <2>3
<1>4. CASE FlushClient
  <2> DEFINE d == clients[i]
  <2>1. d \in Conns
    BY <1>4, RosterTypes DEF FlushClient, Inv, TypeOK
  <2>2. wire' = wire \/ wire' = [wire EXCEPT ![d] = @ \o tcpPktQueue[d]]
    BY <1>4 DEF FlushClient
  <2> HIDE DEF d
  <2>3. wire'[c] = wire[c] \/ wire'[c] = wire[c] \o tcpPktQueue[c]
    BY <1>1, <2>1, <2>2
  <2>4. tcpPktQueue[c] \in Seq(Packet)
    BY DEF Inv, TypeOK
  <2>5. /\ Opens(wire[c])
        /\ \A p \in Elements(tcpPktQueue[c]) : p.type # "PACKET_JOIN_RESPONSE"
    OBVIOUS
  <2> QED  BY <1>1, <2>3, <2>4, <2>5, OpensFacts
<1> QED  BY <1>2, <1>3, <1>4, WireChanges

(* A place on the roster is lost by a departure or with the server only.   *)
LEMMA SeatKept ==
  ASSUME Inv, TalkInv, [Next]_vars, NEW c \in Conns, Seated(c), peer[c] = "open"
  PROVE  Seated(c)' \/ pc' = "aborted"
<1>0. clients \in Seq(Conns) /\ Len(clients) \in Nat
  BY DEF Inv, TypeOK
<1>1. CASE UNCHANGED <<clients, pc, socket>>
  BY <1>1 DEF Seated, Members
<1>2. CASE HandleStep
  <2>1. clients' = clients /\ pc # "broadcast"
    BY <1>2 DEF HandleStep, GetNewSocket, NoNewConnection, Reject, DropSocket, ReadFirstPacket,
                ClientThrows, MakeClient, net
  <2> QED  BY <2>1 DEF Seated, Members
<1>3. CASE BroadcastJoin
  <2>1. UNCHANGED <<clients, pc, socket>>
    BY <1>3, BroadcastQueues DEF BroadcastJoin
  <2> QED  BY <1>1, <2>1
<1>4. CASE AddClient
  <2>1. pc = "broadcast" /\ clients' = Append(clients, socket)
    BY <1>4 DEF AddClient
  <2>2. socket \in Conns
    BY <2>1 DEF Inv, PlaceInv
  <2>3. Members' = Members \cup {socket}
    BY <1>0, <2>1, <2>2, AppendFacts DEF Members
  <2> QED  BY <2>3 DEF Seated
<1>5. CASE FlushKick
  <2>1. pc = "flush" /\ i \in 1 .. Len(clients) /\ \E block : KickClient(i, block)
    BY <1>0, <1>5 DEF FlushKick, Inv, TypeOK
  <2>2. /\ clients[i] \in Members /\ clients[i] \in Conns
        /\ Members' = Members \ {clients[i]}
    BY <2>1, KickClientQueues
  <2>3. IsConnected(clients[i])
    BY <2>2 DEF TalkInv, IsConnected
  <2>4. FALSE \in SendResults(clients[i])
    BY <1>5, <2>3 DEF FlushKick
  <2>5. peer[clients[i]] # "open"
    BY <2>4 DEF SendResults
  <2> QED  BY <2>1, <2>2, <2>5 DEF Seated
<1>6. CASE FlushClient \/ EndFlush
  <2>1. clients' = clients /\ pc # "broadcast"
    BY <1>6 DEF FlushClient, EndFlush
  <2> QED  BY <2>1 DEF Seated, Members
<1>7. CASE (\E d \in Conns : Connect(d) \/ Depart(d) \/ \E what \in FirstPackets : Arrive(d, what))
             \/ AddNewSocket \/ UNCHANGED vars
  <2>1. UNCHANGED <<clients, pc, socket>>
    BY <1>7 DEF Connect, Depart, Arrive, AddNewSocket, vars
  <2> QED  BY <1>1, <2>1
<1>8. CASE HeapAbort
  BY <1>8 DEF HeapAbort
<1> QED
  BY <1>2, <1>3, <1>4, <1>5, <1>6, <1>7, <1>8, Zenon
     DEF Next, ServerStep, BroadcastStep, FlushStep

(* An end of a connection that is open now was not open before only if it  *)
(* has just been connected.                                                *)
LEMMA PeerStep ==
  ASSUME Inv, [Next]_vars, NEW c \in Conns
  PROVE  /\ peer'[c] = "open" => peer[c] \in {"none", "open"}
         /\ peer'[c] = "none" => peer[c] = "none"
         /\ pc = "aborted" => pc' = "aborted"
<1>1. peer \in [Conns -> {"none", "open", "gone"}]
  BY DEF Inv, TypeOK
<1>2. peer' = peer \/ \E d \in Conns : Connect(d) \/ Depart(d)
  BY DEF Next, Arrive, AddNewSocket, HeapAbort, vars, net, ServerStep,
         HandleStep, BroadcastStep, FlushStep, GetNewSocket, NoNewConnection, Reject, DropSocket,
         ReadFirstPacket, ClientThrows, MakeClient, BroadcastJoin, AddClient, FlushClient,
         FlushKick, EndFlush
<1>3. peer'[c] = "open" => peer[c] \in {"none", "open"}
  BY <1>1, <1>2 DEF Connect, Depart
<1>4. peer'[c] = "none" => peer[c] = "none"
  BY <1>1, <1>2 DEF Connect, Depart
<1>5. pc = "aborted" => pc' = "aborted"
  BY DEF Next, Connect, Depart, Arrive, AddNewSocket, HeapAbort, vars, net, ServerStep,
         HandleStep, BroadcastStep, FlushStep, GetNewSocket, NoNewConnection, Reject, DropSocket,
         ReadFirstPacket, ClientThrows, MakeClient, BroadcastJoin, AddClient, FlushClient,
         FlushKick, EndFlush
<1> QED  BY <1>3, <1>4, <1>5

LEMMA SeatStep == Inv /\ TalkInv /\ SeatInv /\ [Next]_vars => SeatInv'
<1> SUFFICES ASSUME Inv, TalkInv, SeatInv, [Next]_vars,
                    NEW c \in Conns, peer'[c] = "open", wire'[c] # <<>>,
                    wire'[c][1].response = 1, pc' # "aborted"
             PROVE  Seated(c)'
  BY DEF SeatInv
<1>0. pc # "aborted" /\ wire \in [Conns -> Seq(Packet)]
  BY PeerStep DEF Inv, TypeOK
<1>1. CASE wire[c] # <<>>
  <2>1. wire[c][1].response = 1
    BY <1>1, WireStable
  <2>2. peer[c] = "open"
    BY <1>1, PeerStep DEF TalkInv, Fresh
  <2>3. Seated(c)
    BY <1>0, <1>1, <2>1, <2>2 DEF SeatInv
  <2> QED  BY <2>2, <2>3, SeatKept
<1>2. ASSUME wire[c] = <<>>, Reject PROVE FALSE
  <2>1. wire' = wire \/ wire' = [wire EXCEPT ![socket] = Append(@, JoinResponse(0, 0, TEAM_SPY))]
    BY <1>2 DEF Reject
  <2>2. wire'[c] = Append(<<>>, JoinResponse(0, 0, TEAM_SPY))
    BY <1>0, <1>2, <2>1
  <2>3. wire'[c][1] = JoinResponse(0, 0, TEAM_SPY)
    BY <2>2
  <2> QED  BY <2>3 DEF JoinResponse
<1>3. ASSUME wire[c] = <<>>, MakeClient PROVE Seated(c)'
  <2>1. \/ /\ pc' = "broadcast" /\ socket' = socket
           /\ \E p : wire' = [wire EXCEPT ![socket] = Append(@, p)]
        \/ wire' = wire
    BY <1>3, Zenon DEF MakeClient
  <2>2. c = socket /\ pc' = "broadcast" /\ socket' = socket
    BY <1>0, <1>3, <2>1
  <2> QED  BY <2>2 DEF Seated
<1>4. ASSUME wire[c] = <<>>, FlushClient PROVE FALSE
  <2> DEFINE d == clients[i]
  <2>1. d \in Members /\ d \in Conns
    <3>1. i \in 1 .. Len(clients)
      BY <1>4, RosterTypes DEF FlushClient, Inv, TypeOK
    <3> QED  BY <3>1, RosterTypes
  <2>2. wire' = wire \/ wire' = [wire EXCEPT ![d] = @ \o tcpPktQueue[d]]
    BY <1>4 DEF FlushClient
  <2>3. wire[d] # <<>>
    BY <2>1 DEF TalkInv, Told
  <2> HIDE DEF d
  <2>4. wire'[c] = wire[c]
    BY <1>0, <1>4, <2>1, <2>2, <2>3
  <2> QED  BY <1>4, <2>4
<1>5. ASSUME wire[c] = <<>>, wire' = wire PROVE FALSE
  BY <1>5
<1> QED  BY <1>1, <1>2, <1>3, <1>4, <1>5, WireChanges

(* The streams and the server's own invariants are as in Server.           *)
LEMMA ServerSide == JoinSpec => [](Inv /\ TalkInv /\ SeatInv)
<1>1. Init => SeatInv
  BY DEF Init, SeatInv
<1> QED  BY ImplementsServer, Invariance, TalkInvariance, <1>1, SeatStep, PTL DEF Spec

(* Nobody but the end of the process closes one of our connections.        *)
LEMMA OpenStep == Inv /\ AttemptInv /\ OpenInv /\ [JoinNext]_joinVars => OpenInv'
<1> SUFFICES ASSUME Inv, AttemptInv, OpenInv, [JoinNext]_joinVars,
                    NEW c \in Ours, peer'[c] = "gone"
             PROVE  Ended'
  BY DEF OpenInv
<1>0. Ours \subseteq Conns /\ peer \in [Conns -> {"none", "open", "gone"}]
  <2>1. Ours \subseteq Conns
    BY JoinAssumption DEF Ours
  <2> QED  BY <2>1 DEF Inv, TypeOK
<1>1. Ended => Ended'
  <2>1. CASE OpenTcp \/ SendRequest \/ ClientAlone \/ Tick \/ Deliver \/ ServerEnds
    BY <2>1 DEF Ended, OpenTcp, SendRequest, ClientAlone, Tick, Deliver, ServerEnds,
       Connector!OpenTcp, Connector!SendRequest, Connector!AlreadyConnected, Connector!OpenUdp,
       Connector!KeepWaiting, Connector!TimeOut, Connector!SleepOn, Connector!UseNull,
       Connector!SpinInGetPacket, Connector!Rejected, Connector!Accepted, Connector!Destroy,
       Connector!Tick, Connector!Reply, Connector!ServerEnds
  <2>2. CASE UNCHANGED connectorVars
    BY <2>2 DEF Ended, connectorVars
  <2> QED
    BY <2>1, <2>2, Zenon DEF JoinNext, ClientStep, CloseDescriptor, RequestArrives, Others,
       Listener, Lobby, Heap, joinVars
<1>2. CASE UNCHANGED peer
  BY <1>1, <1>2 DEF OpenInv
<1>3. CASE OpenTcp
  <2>1. (\E d \in Conns : Connect(d)) \/ UNCHANGED serverVars
    <3>1. at = "tcp"
      BY <1>3 DEF OpenTcp, Connector!OpenTcp
    <3>2. Mine[attempt] \in Conns
      BY <3>1, JoinAssumption DEF AttemptInv
    <3> QED  BY <1>3, <3>2, Zenon DEF OpenTcp
  <2>2. peer[c] = "gone"
    BY <1>0, <2>1 DEF Connect, serverVars, vars, net
  <2> QED  BY <1>1, <2>2 DEF OpenInv
<1>4. CASE SendRequest \/ ClientAlone \/ Tick \/ Deliver \/ ServerEnds \/ UNCHANGED joinVars
  <2>1. UNCHANGED serverVars
    BY <1>4, Zenon DEF SendRequest, ClientAlone, Tick, Deliver, ServerEnds, joinVars
  <2> QED  BY <1>2, <2>1 DEF serverVars, vars, net
<1>5. ASSUME NEW d \in Ours, CloseDescriptor(d) PROVE Ended'
  BY <1>1, <1>5 DEF CloseDescriptor
<1>6. ASSUME NEW d \in Ours, RequestArrives(d) PROVE Ended'
  BY <1>2, <1>6 DEF RequestArrives, Arrive
<1>7. CASE Others
  <2>1. PICK d \in Conns \ Ours : Connect(d) \/ Depart(d) \/ \E what \in FirstPackets : Arrive(d, what)
    BY <1>7 DEF Others
  <2>2. peer'[c] = peer[c]
    BY <1>0, <2>1 DEF Connect, Depart, Arrive
  <2> QED  BY <1>1, <2>2 DEF OpenInv
<1>8. CASE Listener \/ Lobby \/ Heap
  <2>1. UNCHANGED peer
    BY <1>8 DEF Listener, Lobby, Heap, AddNewSocket, HeapAbort, net, ServerStep, HandleStep,
       BroadcastStep, FlushStep, GetNewSocket, NoNewConnection, Reject, DropSocket,
       ReadFirstPacket, ClientThrows, MakeClient, BroadcastJoin, AddClient, FlushClient,
       FlushKick, EndFlush
  <2> QED  BY <1>2, <2>1
<1> QED
  BY <1>3, <1>4, <1>5, <1>6, <1>7, <1>8, Zenon DEF JoinNext, ClientStep

(* The vector of what has reached the client.                              *)
LEMMA ReceivedFacts ==
  ASSUME ReadInv
  PROVE  /\ Len(received) \in Nat
         /\ received = <<>> => Len(received) = 0
         /\ received # <<>> => /\ Tail(received) \in Seq(Connector!Replies)
                               /\ Len(Tail(received)) = Len(received) - 1
         /\ \A r \in Connector!Replies :
              /\ Append(received, r) \in Seq(Connector!Replies)
              /\ Append(received, r) # <<>>
              /\ Len(Append(received, r)) = Len(received) + 1
              /\ received # <<>> => Head(Append(received, r)) = Head(received)
              /\ received = <<>> => Head(Append(received, r)) = r
<1>1. received \in Seq(Connector!Replies)
  BY DEF ReadInv
<1> QED  BY <1>1

(* Whatever the server and its surroundings do, a client that does nothing *)
(* meanwhile has still read what it has read.                              *)
LEMMA ReadKept ==
  ASSUME Inv, TalkInv, AttemptInv, ReadInv, [Next]_vars,
         UNCHANGED <<received, delivered, at, attempt, isConnected>>
  PROVE  ReadInv'
<1>1. /\ received' \in Seq(Connector!Replies) /\ delivered' \in Nat
      /\ isConnected' \in BOOLEAN
      /\ (at = "tcp" \/ Waiting)' => isConnected' = FALSE
      /\ Waiting' => Len(received') = delivered'
  BY DEF ReadInv, Waiting
<1>2. ASSUME Waiting, received # <<>>
      PROVE  wire'[Current'] # <<>> /\ Head(received)' = Kind(wire'[Current'][1])
  <2>1. Current \in Conns /\ Current' = Current
    BY <1>2, JoinAssumption DEF Waiting, Current, AttemptInv
  <2>2. wire'[Current] # <<>> /\ wire'[Current][1] = wire[Current][1]
    BY <1>2, <2>1, WireStable DEF ReadInv
  <2> QED  BY <1>2, <2>1, <2>2 DEF ReadInv
<1>3. ASSUME isConnected
      PROVE  /\ attempt' # 0 /\ at' \in {"idle", "destroyed", "corrupted"}
             /\ delivered' - Len(received') = 1
             /\ wire'[Current'] # <<>> /\ Kind(wire'[Current'][1]) = "accept"
  <2>1. Current \in Conns /\ Current' = Current
    BY <1>3, JoinAssumption DEF ReadInv, Current, AttemptInv
  <2>2. wire'[Current] # <<>> /\ wire'[Current][1] = wire[Current][1]
    BY <1>3, <2>1, WireStable DEF ReadInv
  <2> QED  BY <1>3, <2>1, <2>2 DEF ReadInv
<1> QED  BY <1>1, <1>2, <1>3 DEF ReadInv, Waiting

(* A call of the client that reads nothing.                                *)
LEMMA UnreadStep ==
  ASSUME ReadInv, UNCHANGED <<wire, received, delivered, attempt, isConnected>>,
         Waiting' => Waiting, at' = "tcp" => isConnected = FALSE,
         isConnected => at' \in {"idle", "destroyed", "corrupted"}
  PROVE  ReadInv'
<1>1. Current' = Current
  BY DEF Current
<1>2. Waiting' => isConnected' = FALSE /\ Waiting
  BY DEF ReadInv
<1>3. /\ received' \in Seq(Connector!Replies) /\ delivered' \in Nat
      /\ isConnected' \in BOOLEAN
  BY DEF ReadInv
<1>4. (at = "tcp" \/ Waiting)' => isConnected' = FALSE
  BY <1>2
<1>5. Waiting' =>
        /\ Len(received') = delivered'
        /\ received' # <<>> => /\ wire'[Current'] # <<>>
                               /\ Head(received') = Kind(wire'[Current'][1])
  BY <1>1, <1>2 DEF ReadInv
<1>6. isConnected' =>
        /\ attempt' # 0 /\ at' \in {"idle", "destroyed", "corrupted"}
        /\ delivered' - Len(received') = 1
        /\ wire'[Current'] # <<>> /\ Kind(wire'[Current'][1]) = "accept"
  BY <1>1 DEF ReadInv
<1> QED  BY <1>3, <1>4, <1>5, <1>6 DEF ReadInv

(* A step after which the client neither waits nor believes in a place.    *)
LEMMA GivenUpStep ==
  ASSUME received' \in Seq(Connector!Replies), delivered' \in Nat,
         isConnected' = FALSE, ~ Waiting'
  PROVE  ReadInv'
BY DEF ReadInv

LEMMA ReadStep == Inv /\ TalkInv /\ AttemptInv /\ ReadInv /\ [JoinNext]_joinVars => ReadInv'
<1> SUFFICES ASSUME Inv, TalkInv, AttemptInv, ReadInv, [JoinNext]_joinVars PROVE ReadInv'
  OBVIOUS
<1>0. /\ received \in Seq(Connector!Replies) /\ delivered \in Nat
      /\ isConnected \in BOOLEAN
      /\ at = "tcp" \/ Waiting => isConnected = FALSE
      /\ Waiting => Len(received) = delivered /\ attempt # 0
      /\ <<>> \in Seq(Connector!Replies) /\ Len(<<>>) = 0
  BY DEF ReadInv, AttemptInv, Waiting
<1>1. CASE (\E c \in Ours : CloseDescriptor(c) \/ RequestArrives(c))
             \/ Others \/ Listener \/ Lobby \/ Heap \/ Tick \/ UNCHANGED joinVars
  <2>1. UNCHANGED <<received, delivered, at, attempt, isConnected>>
    BY <1>1 DEF CloseDescriptor, RequestArrives, Others, Listener, Lobby, Heap, joinVars,
                connectorVars, Tick, Connector!Tick, Connector!remote, Connector!members
  <2> QED  BY <2>1, ServerHalf, ReadKept
<1>2. CASE OpenTcp
  <2>1. at = "tcp" /\ isConnected' = isConnected
    BY <1>2 DEF OpenTcp, Connector!OpenTcp
  <2>2. CASE at' = "send"
    <3>1. received' = <<>> /\ delivered' = 0
      BY <1>2, <2>2 DEF OpenTcp, Connector!OpenTcp
    <3> QED  BY <1>0, <2>1, <2>2, <3>1 DEF ReadInv, Waiting
  <2>3. CASE at' = "idle" /\ UNCHANGED <<received, delivered>>
    BY <1>0, <2>1, <2>3, GivenUpStep DEF Waiting
  <2> QED  BY <1>2, <2>2, <2>3 DEF OpenTcp, Connector!OpenTcp, Connector!remote
<1>3. ASSUME Connector!ReturnFalse, Waiting, delivered' = delivered,
             received' \in Seq(Connector!Replies)
      PROVE  ReadInv'
  <2>1. at' = "idle" /\ isConnected' = isConnected
    BY <1>3 DEF Connector!ReturnFalse
  <2> QED  BY <1>0, <1>3, <2>1, GivenUpStep DEF Waiting
<1>4. CASE SendRequest
  <2>1. /\ at = "send" /\ UNCHANGED <<wire, received, delivered, attempt>>
        /\ \/ at' = "time" /\ isConnected' = isConnected
           \/ Connector!ReturnFalse
    BY <1>4 DEF SendRequest, Connector!SendRequest, Connector!remote, Connector!members,
                serverVars, vars, net
  <2>2. CASE Connector!ReturnFalse
    BY <1>0, <1>3, <2>1, <2>2 DEF Waiting
  <2>3. CASE at' = "time" /\ isConnected' = isConnected
    BY <1>0, <2>1, <2>3, UnreadStep DEF Waiting
  <2> QED  BY <2>1, <2>2, <2>3
<1>5. CASE ClientAlone
  <2>0. UNCHANGED wire
    BY <1>5 DEF ClientAlone, serverVars, vars, net
  <2>1. CASE Connector!OpenUdp
    <3>1. /\ isConnected = FALSE /\ at' \in {"tcp", "idle"}
          /\ UNCHANGED <<received, delivered, isConnected>>
      BY <1>0, <2>1 DEF Connector!OpenUdp, Connector!MayConnect, Connector!remote
    <3> QED  BY <1>0, <3>1, GivenUpStep DEF Waiting
  <2>2. CASE Connector!TimeOut
    BY <1>0, <1>3, <2>2 DEF Connector!TimeOut, Connector!remote, Waiting
  <2>3. CASE Connector!Rejected
    <3>1. /\ Connector!ReturnFalse /\ Waiting /\ delivered' = delivered
          /\ received # <<>> /\ received' = Tail(received)
      BY <2>3 DEF Connector!Rejected, Waiting
    <3> QED  BY <1>3, <3>1, ReceivedFacts
  <2>4. CASE Connector!SpinInGetPacket
    <3>1. /\ at' = "spin" /\ Waiting /\ received # <<>> /\ received' = Tail(received)
          /\ UNCHANGED <<delivered, isConnected>>
      BY <2>4 DEF Connector!SpinInGetPacket, Connector!members, Waiting
    <3>2. ~ Waiting'
      BY <3>1 DEF Waiting
    <3> QED  BY <1>0, <3>1, <3>2, GivenUpStep, ReceivedFacts
  <2>5. CASE Connector!Accepted
    <3>1. /\ Waiting /\ received # <<>> /\ Head(received) = "accept"
          /\ received' = Tail(received) /\ isConnected' = TRUE /\ at' = "idle"
          /\ UNCHANGED <<delivered, attempt>>
      BY <2>5 DEF Connector!Accepted, Waiting
    <3>2. delivered' - Len(received') = 1 /\ received' \in Seq(Connector!Replies)
      BY <1>0, <3>1, ReceivedFacts
    <3>3. wire'[Current'] # <<>> /\ Kind(wire'[Current'][1]) = "accept"
      BY <2>0, <3>1 DEF ReadInv, Current
    <3> QED  BY <1>0, <3>1, <3>2, <3>3 DEF ReadInv, Waiting
  <2>6. CASE Connector!AlreadyConnected \/ Connector!KeepWaiting \/ Connector!SleepOn
               \/ Connector!UseNull \/ Connector!Destroy
    <3>1. UNCHANGED <<received, delivered, attempt, isConnected>>
      BY <2>6 DEF Connector!AlreadyConnected, Connector!KeepWaiting, Connector!SleepOn,
                  Connector!UseNull, Connector!Destroy, Connector!remote, Connector!members
    <3>2. /\ Waiting' => Waiting
          /\ at' # "tcp"
          /\ isConnected => at' \in {"idle", "destroyed", "corrupted"}
      BY <1>0, <2>6 DEF Connector!AlreadyConnected, Connector!KeepWaiting, Connector!SleepOn,
                  Connector!UseNull, Connector!Destroy, Waiting
    <3> QED  BY <2>0, <3>1, <3>2, UnreadStep
  <2> QED
    BY <1>5, <2>1, <2>2, <2>3, <2>4, <2>5, <2>6, Zenon DEF ClientAlone
<1>6. CASE ServerEnds
  <2>1. UNCHANGED <<wire, received, delivered, at, attempt, isConnected>>
    BY <1>6 DEF ServerEnds, Connector!ServerEnds, Connector!members, serverVars, vars, net
  <2> QED  BY <1>0, <2>1, UnreadStep DEF ReadInv, Waiting
<1>7. CASE Deliver
  <2> DEFINE r == Kind(wire[Current][delivered + 1])
  <2>1. /\ Waiting /\ delivered < Len(wire[Current])
        /\ delivered' = delivered + 1 /\ received' = Append(received, r)
        /\ UNCHANGED <<wire, at, attempt, isConnected>>
    BY <1>7 DEF Deliver, Connector!Reply, Connector!members, Waiting, Current, serverVars,
                vars, net
  <2>2. r \in Connector!Replies
    BY DEF Kind, Connector!Replies
  <2>3. wire[Current] \in Seq(Packet) /\ wire[Current] # <<>>
    <3>1. Current \in Conns
      BY <2>1, JoinAssumption DEF Waiting, Current, AttemptInv
    <3>2. wire[Current] \in Seq(Packet)
      BY <3>1 DEF Inv, TypeOK
    <3> QED  BY <1>0, <2>1, <3>2, EmptyFacts
  <2>4. Head(received') = Kind(wire[Current][1])
    <3>1. CASE received = <<>>
      <4>1. delivered = 0
        BY <1>0, <2>1, <3>1
      <4>2. r = Kind(wire[Current][1])
        BY <4>1
      <4> HIDE DEF r
      <4> QED  BY <2>1, <2>2, <3>1, <4>2, ReceivedFacts
    <3>2. CASE received # <<>>
      <4>1. Head(received) = Kind(wire[Current][1])
        BY <2>1, <3>2 DEF ReadInv
      <4> HIDE DEF r
      <4> QED  BY <2>1, <2>2, <3>2, <4>1, ReceivedFacts
    <3> QED  BY <3>1, <3>2
  <2>5. /\ received' \in Seq(Connector!Replies) /\ delivered' \in Nat
        /\ Len(received') = delivered'
    <3> HIDE DEF r
    <3> QED  BY <1>0, <2>1, <2>2, ReceivedFacts
  <2>6. Waiting' = Waiting /\ Current' = Current
    BY <2>1 DEF Waiting, Current
  <2> HIDE DEF r
  <2> QED  BY <1>0, <2>1, <2>3, <2>4, <2>5, <2>6 DEF ReadInv
<1> QED
  BY <1>1, <1>2, <1>4, <1>5, <1>6, <1>7, Zenon DEF JoinNext, ClientStep

-----------------------------------------------------------------------------
(* The theorems.                                                           *)

LEMMA ClientSide == JoinSpec => [](AttemptInv /\ ReadInv /\ OpenInv)
<1>1. JoinInit => ReadInv
  <2>1. <<>> \in Seq(Connector!Replies) /\ 0 \in Nat
    OBVIOUS
  <2>2. JoinInit => received = <<>> /\ delivered = 0 /\ at = "idle" /\ isConnected = FALSE
    BY DEF JoinInit, Connector!Init
  <2> QED  BY <2>1, <2>2 DEF ReadInv, Waiting
<1>2. JoinInit => OpenInv
  BY JoinAssumption DEF JoinInit, Init, OpenInv, Ours
<1> QED
  BY Attempts, ServerSide, <1>1, <1>2, ReadStep, OpenStep, PTL DEF JoinSpec

(* The first packet of a stream is a response, and no other packet reads   *)
(* as one.                                                                 *)
LEMMA FirstIsAnswer ==
  ASSUME Inv, TalkInv, NEW c \in Conns, wire[c] # <<>>
  PROVE  /\ Kind(wire[c][1]) \in {"accept", "reject"}
         /\ Kind(wire[c][1]) = "accept" => wire[c][1].response = 1
<1>1. wire[c] \in Seq(Packet) /\ Opens(wire[c])
  BY DEF Inv, TypeOK, TalkInv
<1>2. 1 \in 1 .. Len(wire[c])
  BY <1>1
<1>3. wire[c][1].type = "PACKET_JOIN_RESPONSE"
  BY <1>1, <1>2 DEF Opens
<1> QED  BY <1>3 DEF Kind

(* "The only accepted response to a PACKET_JOIN_REQUEST is a               *)
(* PACKET_JOIN_RESPONSE": for any number of players, attempts and late     *)
(* answers, what ConnectToServer reads first is the response, so it never  *)
(* ignores a packet and never takes a broadcast for an answer.             *)
THEOREM ResponseIsReadFirst == JoinSpec => []AnswerComesFirst
<1>1. Inv /\ TalkInv /\ AttemptInv /\ ReadInv => AnswerComesFirst
  <2> SUFFICES ASSUME Inv, TalkInv, AttemptInv, ReadInv, at = "poll", received # <<>>
               PROVE  Head(received) \in {"accept", "reject"}
    BY DEF AnswerComesFirst
  <2>1. Current \in Conns
    BY JoinAssumption DEF Current, AttemptInv
  <2>2. wire[Current] # <<>> /\ Head(received) = Kind(wire[Current][1])
    BY DEF ReadInv, Waiting
  <2> QED  BY <2>1, <2>2, FirstIsAnswer
<1> QED  BY ServerSide, ClientSide, <1>1, PTL

(* A client that believes it has joined has its place on the roster, under *)
(* the number and team it was told, whatever became of its earlier         *)
(* attempts and whoever else came or left, as long as both processes run.  *)
THEOREM ConnectedHasItsSeat == JoinSpec => []ConnectedIsSeated
<1>1. Inv /\ TalkInv /\ SeatInv /\ AttemptInv /\ ReadInv /\ OpenInv => ConnectedIsSeated
  <2> SUFFICES ASSUME Inv, TalkInv, SeatInv, AttemptInv, ReadInv, OpenInv,
                      isConnected, pc # "aborted", ~ Ended
               PROVE  /\ Seated(Current)
                      /\ Answer = JoinResponse(1, GetPlayerID(Current), team[Current])
    BY DEF ConnectedIsSeated
  <2>1. Current \in Conns /\ Current \in Ours
    BY JoinAssumption DEF Current, Ours, AttemptInv, ReadInv
  <2>2. /\ wire[Current] # <<>> /\ Kind(wire[Current][1]) = "accept"
        /\ Answer = wire[Current][1]
    BY DEF ReadInv, Answer
  <2>3. wire[Current][1].response = 1
    BY <2>1, <2>2, FirstIsAnswer
  <2>4. peer[Current] = "open"
    <3>1. peer[Current] # "none"
      BY <2>1, <2>2 DEF TalkInv, Fresh
    <3>2. peer[Current] # "gone"
      BY <2>1 DEF OpenInv
    <3> QED  BY <2>1, <3>1, <3>2 DEF Inv, TypeOK
  <2>5. Seated(Current)
    BY <2>1, <2>2, <2>3, <2>4 DEF SeatInv
  <2>6. Told(Current)
    BY <2>5 DEF Seated, TalkInv
  <2> QED  BY <2>2, <2>5, <2>6 DEF Told
<1> QED  BY ServerSide, ClientSide, <1>1, PTL
=============================================================================
