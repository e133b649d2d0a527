--------------------------- MODULE PacketFactory ---------------------------
(***************************************************************************)
(* The wire format: Packet::Serialize, Packet::Deserialize and             *)
(* PacketFactory::ReadPacket.  A packet is its fields in the order the     *)
(* constructors add them, the type byte first, without length or padding;  *)
(* a 32-bit field travels in network byte order.                           *)
(*                                                                         *)
(* No packet class has an INT32 or FLOAT32 field yet; their four bytes     *)
(* travel like a UINT32's, and are read back as a signed number (ReadInt)  *)
(* or, unchanged, as the bits of a float.                                  *)
(***************************************************************************)
EXTENDS Protocol, SequencesExt

CONSTANT ByteBase  \* values of a byte: 256 in the build, smaller for TLC

ASSUME PacketFactoryAssumption ==
  ByteBase \in Nat /\ ByteBase > PacketEnum["PACKET_SERVER_SHUTDOWN"]

Byte == 0 .. ByteBase - 1

(* The members each constructor registers, after the type byte.            *)
Members(type) ==
  CASE type = "PACKET_JOIN_REQUEST"     -> <<"port">>
    [] type = "PACKET_JOIN_RESPONSE"    -> <<"response", "playerID", "team">>
    [] type = "PACKET_PLAYER_DID_JOIN"  -> <<"playerID", "team">>
    [] type = "PACKET_PLAYER_DID_LEAVE" -> <<"playerID">>
    [] type = "PACKET_SERVER_SHUTDOWN"  -> <<>>

FieldType(member) == IF member = "response" THEN "BYTE" ELSE "UINT32"

FieldSize(member) == IF FieldType(member) = "BYTE" THEN 1 ELSE 4

-----------------------------------------------------------------------------
(* What the bytes of an unsigned are worth, the most significant first.    *)
Weight == <<ByteBase * ByteBase * ByteBase, ByteBase * ByteBase, ByteBase, 1>>

DwordBase == ByteBase * Weight[1]

Dword == 0 .. DwordBase - 1

(* htonl and the copy byte by byte, whatever the host's byte order.        *)
NetworkDword(u) == [k \in 1 .. 4 |-> (u \div Weight[k]) % ByteBase]

SerializeField(p, member) ==
  IF FieldType(member) = "BYTE" THEN <<p[member]>> ELSE NetworkDword(p[member])

Serialize(p) ==
  LET members == Members(p.type)
  IN  <<PacketEnum[p.type]>>
        \o FlattenSeq([k \in DOMAIN members |-> SerializeField(p, members[k])])

(* The packets there are.                                                  *)
Packets ==
  {JoinRequest(port) : port \in Dword}
    \cup {JoinResponse(r, id, team) : r \in {0, 1}, id \in Dword, team \in Team}
    \cup {PlayerDidJoin(id, team) : id \in Dword, team \in Team}
    \cup {PlayerDidLeave(id) : id \in Dword}
    \cup {ServerShutdown}

(* Where the k-th member lies behind the type byte, and, for one more than *)
(* there are members, the length of the packet.                            *)
Offset(type, k) ==
  LET at[n \in 1 .. k] ==
        IF n = 1 THEN 1 ELSE at[n - 1] + FieldSize(Members(type)[n - 1])
  IN  at[k]

PacketLength(type) == Offset(type, Len(Members(type)) + 1)

MaxPacketLength == PacketLength("PACKET_JOIN_RESPONSE")

(* Deserialize looks at neither buflen nor the end of the buffer: what it  *)
(* reads behind the data is whatever byte the heap holds there.            *)
ByteAt(buf, k, garbage) == IF k \in DOMAIN buf THEN buf[k] ELSE garbage

(* Mutant: no ntohl.                                                       *)
ReadHostUInt(buf, at, garbage) ==
  ByteAt(buf, at + 1, garbage) + ByteBase * (ByteAt(buf, at + 2, garbage)
    + ByteBase * (ByteAt(buf, at + 3, garbage)
      + ByteBase * ByteAt(buf, at + 4, garbage)))

ReadUInt(buf, at, garbage) ==
  ByteAt(buf, at + 4, garbage) + ByteBase * (ByteAt(buf, at + 3, garbage)
    + ByteBase * (ByteAt(buf, at + 2, garbage)
      + ByteBase * ByteAt(buf, at + 1, garbage)))

(* An int in memory, and what ReadInt makes of that memory.                *)
Bits(i) == i % DwordBase

ReadInt(buf, at, garbage) ==
  LET ho == ReadUInt(buf, at, garbage)
  IN  IF 2 * ho < DwordBase THEN ho ELSE ho - DwordBase

ReadMember(type, k, buf, garbage) ==
  LET at == Offset(type, k)
  IN  IF FieldType(Members(type)[k]) = "BYTE" THEN ByteAt(buf, at + 1, garbage)
      ELSE ReadUInt(buf, at, garbage)

Deserialize(type, buf, garbage) ==
  LET members == Members(type)
      Index(m) == CHOOSE k \in DOMAIN members : members[k] = m
  IN  [m \in {"type"} \cup {members[k] : k \in DOMAIN members} |->
         IF m = "type" THEN type ELSE ReadMember(type, Index(m), buf, garbage)]

-----------------------------------------------------------------------------
(* The types the constructor puts into _map.                               *)
Registered == {"PACKET_JOIN_REQUEST", "PACKET_JOIN_RESPONSE", "PACKET_PLAYER_DID_JOIN"}

(* _map.count(buffer[0]): is there a class for the type byte, and which.   *)
Readable(buf) == \E type \in Registered : PacketEnum[type] = buf[1]

TypeOf(buf) == CHOOSE type \in Registered : PacketEnum[type] = buf[1]

(* ReadPacket on a buffer it can read: the packet, and the out parameter   *)
(* packetlen.  Nothing is ever stored in it: Deserialize returns how much  *)
(* it has read, and ReadPacket drops that.                                 *)
ReadPacket(buf, packetlen, garbage) ==
  [packet    |-> Deserialize(TypeOf(buf), buf, garbage),
   packetlen |-> packetlen]

=============================================================================
