------------------------------ MODULE WsProto -------------------------------
(***************************************************************************)
(* The class WsProto (include/impl/ws_proto.h): how a message becomes      *)
(* websocket frames.  A byte is a number below 256, a frame a sequence of  *)
(* bytes.  The sizes are parameters, so that a small instance reaches every*)
(* form of a header; in the code they are 125, 0xFFFF and 0x20000.         *)
(***************************************************************************)
EXTENDS Integers, Sequences

CONSTANTS WS_MIN_PACKET_SIZE,    \* the largest length in the second byte
          WS_MID_PACKET_SIZE,    \* the largest length in two more bytes
          WS_SPLICE_PACKET_SIZE  \* the most that one frame carries

\* No frame carries this many bytes, 2^24.
FrameLimit == 16777216

ASSUME SizeAssumption ==
  /\ WS_MIN_PACKET_SIZE \in 1 .. 125
  /\ WS_MID_PACKET_SIZE \in (WS_MIN_PACKET_SIZE + 1) .. 65535
  /\ WS_SPLICE_PACKET_SIZE \in 1 .. FrameLimit - 1

WS_OP_CODE_CONTINUE  == 0
WS_OP_CONTENT_TEXT   == 1
WS_OP_CONTENT_BINARY == 2
WS_OP_CODE_CLOSE     == 8
WS_OP_CODE_PING      == 9
WS_OP_CODE_PONG      == 10

ByteRange == 0 .. 255
TopBit    == 128          \* WS_FIN_BIT and WS_MASK_ENABLE_BIT

\* Exclusive or of two bytes.
Xor(a, b) ==
  LET Bit(i) == IF (a \div i) % 2 = (b \div i) % 2 THEN 0 ELSE i
  IN Bit(1) + Bit(2) + Bit(4) + Bit(8) + Bit(16) + Bit(32) + Bit(64) + Bit(128)

\* Masking, and its reverse; key is empty when no mask is used.
Mask(data, key) ==
  IF key = <<>> THEN data
  ELSE [i \in DOMAIN data |-> Xor(data[i], key[((i - 1) % 4) + 1])]

\* The bytes of a length in network order, in two or eight bytes; the first five
\* of eight are 0 in a frame below the limit.
BigEndian(n, width) ==
  IF width = 2 THEN <<n \div 256, n % 256>>
  ELSE <<0, 0, 0, 0, 0, n \div 65536, (n \div 256) % 256, n % 256>>

\* Mutant of CreateSinglePacket: the form with two bytes does not say that the
\* data are masked.
CreateSinglePacketMidUnmasked(data, type, fin, key) ==
  LET n    == Len(data)
      mask == IF key = <<>> THEN 0 ELSE TopBit
  IN <<(IF fin THEN TopBit ELSE 0) + type>>
       \o (IF n <= WS_MIN_PACKET_SIZE THEN <<n + mask>>
           ELSE IF n <= WS_MID_PACKET_SIZE
           THEN <<WS_MIN_PACKET_SIZE + 1>> \o BigEndian(n, 2)
           ELSE <<WS_MIN_PACKET_SIZE + 2 + mask>> \o BigEndian(n, 8))
       \o key \o Mask(data, key)

\* create_single_packet.  The key is the four random bytes, also when there is
\* nothing to mask: then they are what the memory holds.
CreateSinglePacket(data, type, fin, key) ==
  LET n    == Len(data)
      mask == IF key = <<>> THEN 0 ELSE TopBit
  IN <<(IF fin THEN TopBit ELSE 0) + type>>
       \o (IF n <= WS_MIN_PACKET_SIZE THEN <<n + mask>>
           ELSE IF n <= WS_MID_PACKET_SIZE
           THEN <<WS_MIN_PACKET_SIZE + 1 + mask>> \o BigEndian(n, 2)
           ELSE <<WS_MIN_PACKET_SIZE + 2 + mask>> \o BigEndian(n, 8))
       \o key \o Mask(data, key)

\* A part of a message: where it begins, its size and its header.
Part(offset, bytes, type, fin) ==
  [offset |-> offset, bytes |-> bytes, type |-> type, fin |-> fin]

\* Mutant of SplitPacket: the last full part does not look at the rest.
SplitPacketEarlyFin(bytes, type) ==
  LET chunks == bytes \div WS_SPLICE_PACKET_SIZE
      rest   == bytes % WS_SPLICE_PACKET_SIZE
      full   == [i \in 1 .. chunks |->
                   Part((i - 1) * WS_SPLICE_PACKET_SIZE, WS_SPLICE_PACKET_SIZE,
                        IF i = 1 THEN type ELSE WS_OP_CODE_CONTINUE, i = chunks)]
      last   == Part(chunks * WS_SPLICE_PACKET_SIZE, rest, WS_OP_CODE_CONTINUE, TRUE)
  IN IF bytes = 0 THEN <<>>
     ELSE IF bytes <= WS_SPLICE_PACKET_SIZE THEN <<Part(0, bytes, type, TRUE)>>
     ELSE IF rest = 0 THEN full ELSE Append(full, last)

\* Mutant of SplitPacket: every part has the opcode of the message.
SplitPacketSameType(bytes, type) ==
  LET chunks == bytes \div WS_SPLICE_PACKET_SIZE
      rest   == bytes % WS_SPLICE_PACKET_SIZE
  IN [i \in 1 .. chunks + (IF rest = 0 THEN 0 ELSE 1) |->
        Part((i - 1) * WS_SPLICE_PACKET_SIZE,
             IF i <= chunks THEN WS_SPLICE_PACKET_SIZE ELSE rest, type,
             i * WS_SPLICE_PACKET_SIZE >= bytes)]

\* split_packet: the parts of a message of that many bytes; the casts to 32 bits
\* do not matter, for a length comes from an int32_t.
SplitPacket(bytes, type) ==
  LET chunks == bytes \div WS_SPLICE_PACKET_SIZE
      rest   == bytes % WS_SPLICE_PACKET_SIZE
      full   == [i \in 1 .. chunks |->
                   Part((i - 1) * WS_SPLICE_PACKET_SIZE, WS_SPLICE_PACKET_SIZE,
                        IF i = 1 THEN type ELSE WS_OP_CODE_CONTINUE,
                        i = chunks /\ rest = 0)]
      last   == Part(chunks * WS_SPLICE_PACKET_SIZE, rest, WS_OP_CODE_CONTINUE, TRUE)
  IN IF bytes = 0 THEN <<>>
     ELSE IF bytes <= WS_SPLICE_PACKET_SIZE THEN <<Part(0, bytes, type, TRUE)>>
     ELSE IF rest = 0 THEN full ELSE Append(full, last)

\* ws_client_impl.h:103: a message in several parts has a first part with its
\* opcode, parts with opcode 0, and the last part alone has the fin bit.  And the
\* parts cover the message, none is empty and none is too large.
WellSplit(parts, bytes, type) ==
  /\ Len(parts) >= 1
  /\ parts[1].offset = 0
  /\ \A i \in 1 .. Len(parts) - 1 :
       parts[i + 1].offset = parts[i].offset + parts[i].bytes
  /\ parts[Len(parts)].offset + parts[Len(parts)].bytes = bytes
  /\ \A i \in 1 .. Len(parts) :
       /\ parts[i].bytes \in 1 .. WS_SPLICE_PACKET_SIZE
       /\ parts[i].type = IF i = 1 THEN type ELSE WS_OP_CODE_CONTINUE
       /\ parts[i].fin = (i = Len(parts))
=============================================================================
