------------------------------- MODULE Socket -------------------------------
(***************************************************************************)
(* shared/Socket.cpp, receiving: GetData, GetPacket and the packet queue,  *)
(* down to the bytes.  The remote end sends whole packets.  TCP delivers   *)
(* their bytes in order, in segments it chooses; UDP delivers datagrams,   *)
(* in any order, any number of times or not at all.  The owner of the      *)
(* Socket calls GetPacket whenever HasActivity says so.  A                 *)
(* call is cut into its recv() calls and the turns of its parsing loop,    *)
(* because it may block in the former and may never leave the latter.      *)
(*                                                                         *)
(* Memory the code reads without having written it (behind the received    *)
(* data, or in the gap GetData leaves) holds one of the bytes Garbage.     *)
(***************************************************************************)
EXTENDS PacketFactory

CONSTANTS
  Settings,  \* the circumstances the socket may find itself in
  Trials     \* what the codec is tried on

(* What a setting says; maxSent and maxQueue are bounds.                   *)
ASSUME SocketAssumption ==
  \A s \in Settings :
    /\ s.transport \in {"TCP", "UDP"}  \* _protocol
    /\ s.sendable \subseteq Packets    \* the packets the remote end sends
    /\ s.maxSent \in Nat               \* how many it sends
    /\ s.recvMax \in Nat \ {0}         \* maxlen of the first recv: 128 in the code
    /\ s.split \in BOOLEAN             \* may a segment end inside a packet?
    /\ s.garbage \subseteq Byte        \* what is in memory nobody wrote
    /\ s.maxQueue \in Nat              \* packets on _pqueue

(* Packets with a creator, members of type INT32, and bytes behind them.   *)
ASSUME TrialsAssumption ==
  /\ Trials.packets \subseteq {p \in Packets : p.type \in Registered}
  /\ \A i \in Trials.ints : i \in Int /\ -DwordBase <= 2 * i /\ 2 * i < DwordBase
  /\ Trials.behinds \subseteq Seq(Byte)

VARIABLES
  setting,        \* chosen once
  remote,         \* the other end: "open", "closed" or "reset"      (external)
  sent,           \* every packet it has sent                        (history)
  flight,         \* bytes sent and not arrived, packet by packet    (external)
  stream,         \* bytes arrived and not received                  (external)
  datagrams,      \* datagrams arrived and not received              (external)
  pc,             \* the caller: outside GetPacket, in GetData's second
                  \* recv, in the parsing loop, or aborted
  maxlen,         \* GetData: maxlen
  totread,        \* GetData: totread
  buf,            \* GetData, GetPacket: the contents of buf + read
  len,            \* GetPacket: len
  pqueue,         \* _pqueue
  tcpDisconnect,  \* _tcpDisconnect
  returned        \* every packet GetPacket has returned             (history)

remoteVars == <<setting, remote, sent, flight>>
parseVars  == <<maxlen, totread, buf, len>>
arrived    == <<stream, datagrams>>
vars       == <<remoteVars, arrived, pc, parseVars, pqueue, tcpDisconnect, returned>>

MaxPackets == Max({s.maxSent : s \in Settings})

Sendable == setting.sendable
RecvMax  == setting.recvMax
Garbage  == setting.garbage

Init ==
  /\ setting \in Settings
  /\ remote = "open"
  /\ sent = <<>>
  /\ flight = <<>>
  /\ stream = <<>>
  /\ datagrams = <<>>
  /\ pc = "idle"
  /\ maxlen = 0
  /\ totread = 0
  /\ buf = <<>>
  /\ len = 0
  /\ pqueue = <<>>
  /\ tcpDisconnect = FALSE
  /\ returned = <<>>

-----------------------------------------------------------------------------
(* The remote end and the network.                                         *)

Send(p) ==
  /\ remote = "open"
  /\ Len(sent) < setting.maxSent
  /\ sent' = Append(sent, p)
  /\ flight' = Append(flight, Serialize(p))
  /\ UNCHANGED <<setting, remote, arrived, pc, parseVars, pqueue, tcpDisconnect, returned>>

(* The remote process closes its end; what it sent still arrives.          *)
Close ==
  /\ setting.transport = "TCP"
  /\ remote = "open"
  /\ remote' = "closed"
  /\ UNCHANGED <<setting, sent, flight, arrived, pc, parseVars, pqueue, tcpDisconnect, returned>>

(* The connection is reset; what has not arrived never will.               *)
Reset ==
  /\ setting.transport = "TCP"
  /\ remote # "reset"
  /\ remote' = "reset"
  /\ flight' = <<>>
  /\ UNCHANGED <<setting, sent, arrived, pc, parseVars, pqueue, tcpDisconnect, returned>>

(* A segment of n bytes arrives: a packet, or a part of one.               *)
Deliver(n) ==
  /\ setting.transport = "TCP"
  /\ flight # <<>>
  /\ n \in 1 .. Len(Head(flight))
  /\ setting.split \/ n = Len(Head(flight))
  /\ stream' = stream \o SubSeq(Head(flight), 1, n)
  /\ flight' = IF n = Len(Head(flight)) THEN Tail(flight)
               ELSE <<SubSeq(Head(flight), n + 1, Len(Head(flight)))>> \o Tail(flight)
  /\ UNCHANGED <<setting, remote, sent, datagrams, pc, parseVars, pqueue, tcpDisconnect, returned>>

(* A datagram arrives, before or after others, and may arrive again.       *)
Arrive(k) ==
  /\ setting.transport = "UDP"
  /\ Len(datagrams) + Len(pqueue) + Len(returned) < setting.maxQueue
  /\ datagrams' = Append(datagrams, flight[k])
  /\ flight' \in {flight, RemoveAt(flight, k)}
  /\ UNCHANGED <<setting, remote, sent, stream, pc, parseVars, pqueue, tcpDisconnect, returned>>

(* A datagram is lost.                                                     *)
Lose(k) ==
  /\ setting.transport = "UDP"
  /\ flight' = RemoveAt(flight, k)
  /\ UNCHANGED <<setting, remote, sent, arrived, pc, parseVars, pqueue, tcpDisconnect, returned>>

-----------------------------------------------------------------------------
(* SDLNet_TCP_Recv of at most m bytes: what is there, or nothing at the    *)
(* end of the stream, or an error (-1).  It blocks while none applies.     *)
AtEnd   == stream = <<>> /\ remote = "closed" /\ flight = <<>>
AtError == stream = <<>> /\ remote = "reset"

Received(m) == SubSeq(stream, 1, IF Len(stream) < m THEN Len(stream) ELSE m)

Recv(m, num) ==
  \/ /\ stream # <<>> /\ num = Len(Received(m))
     /\ stream' = SubSeq(stream, num + 1, Len(stream))
  \/ AtEnd /\ num = 0 /\ UNCHANGED stream
  \/ AtError /\ num = -1 /\ UNCHANGED stream

(* SDLNet_UDP_Recv: the first datagram waiting; or none, when the receive  *)
(* fails although the socket was reported ready.                           *)
RecvFrom(data) ==
  \/ datagrams # <<>> /\ data = Head(datagrams) /\ datagrams' = Tail(datagrams)
  \/ data = <<>> /\ UNCHANGED datagrams

(* HasActivity of a TCP socket whose packet queue is empty.                *)
SocketReady == stream # <<>> \/ AtEnd \/ AtError

-----------------------------------------------------------------------------
(* GetPacket.                                                              *)

(* Mutant: a short read is taken for the end of the connection.            *)
ShortReadIsEnd(n) == n < RecvMax

(* Mutant: `!buf' alone, which GetData never returns for TCP.              *)
NoBufferIsEnd(n) == FALSE

(* `!buf || !len': n bytes were received.  An error (-1) is not the end.   *)
IsEnd(n) == n = 0

(* Mutant: `_tcpDisconnect = true', as if every socket were a TCP socket.  *)
DisconnectAny(n) == IF IsEnd(n) THEN TRUE ELSE tcpDisconnect

(* _tcpDisconnect once n bytes were received: without any, a TCP socket is *)
(* disconnected, and a UDP socket is not.                                  *)
DisconnectAfter(n) == IF IsEnd(n) THEN setting.transport = "TCP" ELSE tcpDisconnect

(* The first packet of the queue, if there is one, leaves it.              *)
ReturnFirst ==
  IF pqueue = <<>> THEN UNCHANGED <<pqueue, returned>>
  ELSE /\ returned' = Append(returned, Head(pqueue))
       /\ pqueue' = Tail(pqueue)

(* GetData of a TCP socket, as far as its first recv.                      *)
GetData ==
  /\ setting.transport = "TCP"
  /\ SocketReady
  /\ \E num \in -1 .. RecvMax :
       /\ Recv(RecvMax, num)
       /\ buf' = Received(RecvMax)
       /\ maxlen' = RecvMax
       /\ totread' = num
       /\ len' = num
       /\ tcpDisconnect' = DisconnectAfter(num)
       /\ pc' = CASE num = RecvMax -> "more" [] num < 1 -> "idle" [] OTHER -> "parse"
  /\ UNCHANGED <<datagrams, pqueue, returned>>

(* GetData of a UDP socket: one datagram, copied, with its own length; or  *)
(* no buffer at all.                                                       *)
GetDatagram ==
  /\ setting.transport = "UDP"
  /\ \E data \in ToSet(datagrams) \cup {<<>>} :
       /\ RecvFrom(data)
       /\ buf' = data
       /\ len' = Len(data)
       /\ tcpDisconnect' = DisconnectAfter(Len(data))
       /\ pc' = IF IsEnd(Len(data)) THEN "idle" ELSE "parse"
  /\ UNCHANGED <<stream, maxlen, totread, pqueue, returned>>

(* The beginning of a call: a queued packet is returned without looking at *)
(* the network; otherwise data is received, if HasActivity says so.  (As   *)
(* the code is, no call ends with packets queued: see ParsePacket.)        *)
Call ==
  /\ pc = "idle"
  /\ IF pqueue # <<>>
     THEN ReturnFirst /\ UNCHANGED <<arrived, pc, parseVars, tcpDisconnect>>
     ELSE GetData \/ GetDatagram
  /\ UNCHANGED remoteVars

(* One turn of `while (num == maxlen)', once recv returns: totread grows   *)
(* by what the previous recv read, the new data goes to buf + totread, and *)
(* its own length is added only if the loop turns again.  So len ends up   *)
(* beyond the data that was received first, and what was received last     *)
(* lies behind len, and behind the block: the process may go on or abort.  *)
GetMoreData ==
  /\ pc = "more"
  /\ SocketReady
  /\ \E num \in -1 .. 2 * maxlen, g \in Garbage :
       /\ Recv(2 * maxlen, num)
       /\ totread' = totread + maxlen
       /\ maxlen' = 2 * maxlen
       /\ len' = totread'
       /\ buf' = buf \o [k \in 1 .. totread' - Len(buf) |-> g] \o Received(2 * maxlen)
       /\ pc' \in {IF num = maxlen' THEN "more" ELSE "parse"}
                   \cup (IF num > 0 THEN {"aborted"} ELSE {})
  /\ UNCHANGED <<remoteVars, datagrams, pqueue, tcpDisconnect, returned>>

(* Mutant: whatever follows the first packet in the buffer is dropped.     *)
ParseOnlyOne ==
  /\ pc = "parse"
  /\ len > 0
  /\ Readable(buf)
  /\ \E g \in Garbage : pqueue' = Append(pqueue, ReadPacket(buf, 0, g).packet)
  /\ len' = 0
  /\ buf' = <<>>
  /\ UNCHANGED <<remoteVars, arrived, pc, maxlen, totread, tcpDisconnect, returned>>

(* A turn of the parsing loop that reads a packet: plen is 0 before the    *)
(* call, and what it is after the call, the loop advances by.              *)
ParsePacket ==
  /\ pc = "parse"
  /\ len > 0
  /\ Readable(buf)
  /\ Len(pqueue) < setting.maxQueue
  /\ \E g \in Garbage :
       LET read == ReadPacket(buf, 0, g) IN
         /\ pqueue' = Append(pqueue, read.packet)
         /\ len' = len - read.packetlen
         /\ buf' = SubSeq(buf, read.packetlen + 1, Len(buf))
  /\ UNCHANGED <<remoteVars, arrived, pc, maxlen, totread, tcpDisconnect, returned>>

(* Mutant: in a stream, a byte that is no packet's type is skipped, and    *)
(* parsing goes on behind it.                                              *)
SkipByte ==
  /\ pc = "parse"
  /\ len > 0 => ~ Readable(buf)
  /\ IF setting.transport = "TCP" /\ len > 1
                THEN /\ buf' = Tail(buf) /\ len' = len - 1
                     /\ UNCHANGED <<pc, pqueue, returned>>
                ELSE /\ buf' = <<>> /\ len' = 0 /\ pc' = "idle"
                     /\ ReturnFirst
  /\ UNCHANGED <<remoteVars, arrived, maxlen, totread, tcpDisconnect>>

(* The loop is left, because all is read or because the rest cannot be     *)
(* trusted; the recursive call returns the first packet, if there is one.  *)
LeaveLoop ==
  /\ pc = "parse"
  /\ len > 0 => ~ Readable(buf)
  /\ pc' = "idle"
  /\ buf' = <<>>
  /\ len' = 0
  /\ ReturnFirst
  /\ UNCHANGED <<remoteVars, arrived, maxlen, totread, tcpDisconnect>>

-----------------------------------------------------------------------------
GetPacket == Call \/ GetMoreData \/ ParsePacket \/ LeaveLoop

Delivery == \E n \in 1 .. MaxPacketLength : Deliver(n)

Next ==
  \/ \E p \in Sendable : Send(p)
  \/ Close
  \/ Reset
  \/ Delivery
  \/ \E k \in DOMAIN flight : Arrive(k) \/ Lose(k)
  \/ GetPacket

Spec == Init /\ [][Next]_vars

(* TCP keeps delivering and the owner keeps polling.                       *)
FairSpec == Spec /\ WF_vars(Delivery) /\ WF_vars(GetPacket)

-----------------------------------------------------------------------------
(* Properties.                                                             *)

(* What Serialize wrote, ReadPacket reads back, whatever follows it in the *)
(* buffer and without looking behind its own last byte.  So for a member   *)
(* of type INT32, with its sign.  (No state matters to it: it is evaluated *)
(* when a packet is on its way.)                                           *)
ReadBack(packet, behind, garbage) ==
  LET bytes == Serialize(packet)
  IN  /\ Readable(bytes)
      /\ ReadPacket(bytes \o behind, 0, garbage).packet = packet

RoundTrip ==
  Len(sent) = 1 /\ Len(flight) = 1 /\ remote = "open" =>
    \A behind \in Trials.behinds, garbage \in Byte :
      /\ \A packet \in Trials.packets : ReadBack(packet, behind, garbage)
      /\ \A i \in Trials.ints : ReadInt(NetworkDword(Bits(i)) \o behind, 0, garbage) = i

(* TCP delivers whole packets, and the first recv takes all there is.      *)
Whole ==
  /\ setting.transport = "TCP" /\ ~ setting.split
  /\ RecvMax > setting.maxSent * MaxPacketLength

(* Every packet is of a type that has a creator.                           *)
AllReadable(packets) == \A p \in ToSet(packets) : p.type \in Registered

(* "If multiple packets were sent to the Socket since last checking it,    *)
(* they are queued and returned": what GetPacket returns and what it holds *)
(* back are the packets that were sent, each once and in their order.      *)
ReturnedAsSent ==
  Whole /\ AllReadable(sent) => IsPrefix(returned \o pqueue, sent)

(* Data that cannot be read is dropped together with all that came with    *)
(* it, never with a part of it: no packet that is queued or returned has   *)
(* been put together from what was left of others.                         *)
QueuedWasSent == Whole => ToSet(returned \o pqueue) \subseteq ToSet(sent)

(* Between two calls what is still in the kernel and in flight begins with *)
(* a whole packet, unless a reset took it; and if everything before that   *)
(* packet could be read, exactly that was queued or returned.              *)
BytesOf(packets) == FlattenSeq([k \in DOMAIN packets |-> Serialize(packets[k])])

NoByteLost ==
  Whole /\ pc = "idle" /\ remote # "reset" =>
    \E n \in 0 .. Len(sent) :
      /\ stream \o FlattenSeq(flight) = BytesOf(SubSeq(sent, n + 1, Len(sent)))
      /\ AllReadable(SubSeq(sent, 1, n)) => returned \o pqueue = SubSeq(sent, 1, n)

(* _tcpDisconnect, which makes IsConnectionOpen false and gets clients     *)
(* kicked, is set only once the other end is gone and everything that was  *)
(* sent has been received, and returned as far as it could be read.        *)
DisconnectAfterAll ==
  tcpDisconnect =>
    /\ setting.transport = "TCP" /\ remote # "open"
    /\ stream = <<>> /\ flight = <<>>
    /\ Whole /\ AllReadable(sent) => returned = sent

(* Whatever becomes of datagrams on their way, a UDP socket returns only   *)
(* packets that were sent, and is never taken for a TCP socket whose       *)
(* connection has ended, though receiving fails.                           *)
DatagramsIntact ==
  setting.transport = "UDP" =>
    /\ ToSet(returned \o pqueue) \subseteq ToSet(sent)
    /\ ~ tcpDisconnect

(* A polled socket notices that the other end has closed the connection,   *)
(* whatever it has received in vain, unless it is held up in the parsing   *)
(* loop by data it takes for a packet (ReadingNeverEnds in SocketProofs).  *)
Reading == pc = "parse" /\ len > 0 /\ Readable(buf)

CloseNoticed ==
  (remote = "closed") ~> (tcpDisconnect \/ remote = "reset" \/ pc = "aborted" \/ Reading)
=============================================================================
