------------------------- MODULE WsConnection_proofs -------------------------
(***************************************************************************)
(* Theorems about the framing of websocket messages (WsProto) and about a  *)
(* connection (WsConnection): for messages and frames of every size, every *)
(* mask and every form of a header, whatever the connection does.          *)
(***************************************************************************)
EXTENDS WsConnection, Sequence_proofs

-----------------------------------------------------------------------------
(* split_packet. *)

\* Division of a length by the size of a frame.
LEMMA Division ==
  ASSUME NEW n \in Nat, NEW d \in Nat \ {0}
  PROVE  /\ n \div d \in Nat /\ n % d \in 0 .. d - 1
         /\ n = d * (n \div d) + (n % d)
  OBVIOUS

\* The parts of a long message begin one after the other.
LEMMA Multiples ==
  ASSUME NEW d \in Nat \ {0}, NEW i \in Nat \ {0}
  PROVE  /\ (i - 1) * d \in Nat /\ i * d \in Nat
         /\ (i - 1) * d + d = i * d
         /\ (1 - 1) * d = 0
  OBVIOUS

\* The fields of a part.
LEMMA PartFields ==
  ASSUME NEW offset, NEW bytes, NEW type, NEW fin
  PROVE  LET p == Part(offset, bytes, type, fin)
         IN p.offset = offset /\ p.bytes = bytes /\ p.type = type /\ p.fin = fin
BY DEF Part

\* split_packet splits a message as the frames of the protocol have it: the
\* parts cover the message one after the other, none is empty or larger than a
\* frame may be, only the first has the opcode and only the last has the fin bit.
THEOREM SplitPacketWell ==
  ASSUME NEW bytes \in Nat \ {0}, NEW type
  PROVE  WellSplit(SplitPacket(bytes, type), bytes, type)
<1> DEFINE limit   == WS_SPLICE_PACKET_SIZE
           chunks == bytes \div limit
           rest   == bytes % limit
           Full(i) == Part((i - 1) * limit, limit,
                           IF i = 1 THEN type ELSE WS_OP_CODE_CONTINUE,
                           i = chunks /\ rest = 0)
           full   == [i \in 1 .. chunks |-> Full(i)]
           last   == Part(chunks * limit, rest, WS_OP_CODE_CONTINUE, TRUE)
           parts  == SplitPacket(bytes, type)
<1>1. limit \in Nat \ {0}
  BY SizeAssumption
<1>2. /\ chunks \in Nat /\ rest \in Nat /\ rest < limit
      /\ bytes = limit * chunks + rest
  <2>1. bytes \in Nat
    OBVIOUS
  <2> HIDE DEF limit
  <2>2. chunks \in Nat /\ rest \in 0 .. limit - 1 /\ bytes = limit * chunks + rest
    BY <1>1, <2>1, Division, Zenon
  <2> HIDE DEF chunks, rest
  <2> QED BY <1>1, <2>2
<1>3. CASE bytes <= limit
  <2>1. parts = <<Part(0, bytes, type, TRUE)>>
    <3>1. bytes # 0 /\ bytes <= WS_SPLICE_PACKET_SIZE
      BY <1>3
    <3> QED BY <3>1, Zenon DEF SplitPacket
  <2> HIDE DEF parts
  <2>2. Len(parts) = 1 /\ parts[1] = Part(0, bytes, type, TRUE)
    BY <2>1
  <2>3. /\ parts[1].offset = 0 /\ parts[1].bytes = bytes
        /\ parts[1].type = type
    BY <2>2 DEF Part
  <2>4. parts[1].fin = TRUE
    <3> HIDE DEF limit, chunks, rest, Full, full, last
    <3> QED BY <2>2 DEF Part
  <2>5. bytes \in 1 .. WS_SPLICE_PACKET_SIZE
    BY <1>1, <1>3
  <2> HIDE DEF limit, chunks, rest, Full, full, last
  <2>6. \A i \in 1 .. Len(parts) : i = 1
    BY <2>2
  <2>7. WellSplit(parts, bytes, type)
    <3>1. \A i \in 1 .. Len(parts) - 1 : FALSE
      BY <2>2
    <3>2. \A i \in 1 .. Len(parts) :
             /\ parts[i].bytes \in 1 .. WS_SPLICE_PACKET_SIZE
             /\ parts[i].type = IF i = 1 THEN type ELSE WS_OP_CODE_CONTINUE
             /\ parts[i].fin = (i = Len(parts))
      <4>1. parts[1].fin = (1 = Len(parts))
        BY <2>2, <2>4
      <4> QED BY <2>3, <2>5, <2>6, <4>1, Zenon
    <3>3. /\ Len(parts) >= 1 /\ parts[1].offset = 0
          /\ parts[Len(parts)].offset + parts[Len(parts)].bytes = bytes
      <4>1. 0 + bytes = bytes
        OBVIOUS
      <4>2. Len(parts) = 1
        BY <2>2
      <4>3. parts[1].offset + parts[1].bytes = 0 + bytes
        BY <2>3
      <4> QED BY <2>3, <4>1, <4>2, <4>3
    <3> QED BY <3>1, <3>2, <3>3 DEF WellSplit
  <2> QED BY <2>7 DEF parts
<1>4. CASE bytes > limit
  <2>1. chunks >= 1
    <3>1. chunks = 0 => limit * chunks = 0
      BY <1>1
    <3> HIDE DEF chunks, rest
    <3> QED BY <1>1, <1>2, <1>4, <3>1
  <2>2. parts = IF rest = 0 THEN full ELSE Append(full, last)
    <3>1. bytes # 0 /\ ~(bytes <= WS_SPLICE_PACKET_SIZE)
      BY <1>1, <1>4
    <3> QED BY <3>1, Zenon DEF SplitPacket
  <2>3. /\ full \in Seq({Full(i) : i \in 1 .. chunks}) /\ Len(full) = chunks
        /\ \A i \in 1 .. chunks : full[i] = Full(i)
    <3> HIDE DEF chunks, Full
    <3> QED BY <1>2
  <2> DEFINE count == IF rest = 0 THEN chunks ELSE chunks + 1
  <2>4. /\ Len(parts) = count
        /\ \A i \in 1 .. chunks : parts[i] = Full(i)
        /\ rest # 0 => parts[chunks + 1] = last
    <3> HIDE DEF parts, full, last, chunks, rest, Full
    <3>1. CASE rest = 0
      BY <2>2, <2>3, <3>1
    <3>2. CASE rest # 0
      BY <1>2, <2>2, <2>3, <3>2
    <3> QED BY <3>1, <3>2
  <2>5. \A i \in Nat \ {0} : /\ (i - 1) * limit \in Nat /\ i * limit \in Nat
                             /\ (i - 1) * limit + limit = i * limit
    BY <1>1, Multiples
  <2>6. \A i \in 1 .. chunks :
          /\ parts[i].offset = (i - 1) * limit
          /\ parts[i].bytes = limit
          /\ parts[i].type = IF i = 1 THEN type ELSE WS_OP_CODE_CONTINUE
          /\ parts[i].fin = (i = chunks /\ rest = 0)
    <3> SUFFICES ASSUME NEW i \in 1 .. chunks
                 PROVE  /\ parts[i].offset = (i - 1) * limit
                        /\ parts[i].bytes = limit
                        /\ parts[i].type = IF i = 1 THEN type ELSE WS_OP_CODE_CONTINUE
                        /\ parts[i].fin = (i = chunks /\ rest = 0)
      OBVIOUS
    <3> HIDE DEF parts, chunks, rest, limit, Full
    <3>1. parts[i] = Full(i)
      BY <2>4
    <3>2. /\ parts[i].offset = (i - 1) * limit
          /\ parts[i].bytes = limit
          /\ parts[i].type = IF i = 1 THEN type ELSE WS_OP_CODE_CONTINUE
      BY <3>1 DEF Part, Full
    <3>3. parts[i].fin = (i = chunks /\ rest = 0)
      BY <3>1, PartFields DEF Full
    <3> QED BY <3>2, <3>3
  <2>7. rest # 0 => /\ parts[chunks + 1].offset = chunks * limit
                    /\ parts[chunks + 1].bytes = rest
                    /\ parts[chunks + 1].type = WS_OP_CODE_CONTINUE
                    /\ parts[chunks + 1].fin = TRUE
    <3> HIDE DEF parts, chunks, rest, limit
    <3> QED BY <2>4 DEF Part
  <2> HIDE DEF parts, full, last, chunks, rest, Full, limit
  <2>8. parts[1].offset = 0 /\ Len(parts) >= 1
    <3>1. (1 - 1) * limit = 0
      BY <1>1
    <3> QED BY <1>2, <2>1, <2>4, <2>6, <3>1
  <2>9. \A i \in 1 .. Len(parts) - 1 :
          parts[i + 1].offset = parts[i].offset + parts[i].bytes
    <3> SUFFICES ASSUME NEW i \in 1 .. Len(parts) - 1
                 PROVE  parts[i + 1].offset = parts[i].offset + parts[i].bytes
      OBVIOUS
    <3>1. i \in 1 .. chunks /\ i \in Nat \ {0}
      BY <1>2, <2>4
    <3>2. parts[i].offset + parts[i].bytes = i * limit
      BY <2>5, <2>6, <3>1
    <3>3. parts[i + 1].offset = i * limit
      <4>1. CASE i + 1 \in 1 .. chunks
        <5>1. (i + 1) - 1 = i
          BY <3>1
        <5> QED BY <2>6, <4>1, <5>1
      <4>2. CASE i = chunks
        <5>1. rest # 0
          BY <1>2, <2>4, <4>2
        <5> QED BY <2>7, <4>2, <5>1
      <4> QED BY <1>2, <3>1, <4>1, <4>2
    <3> QED BY <3>2, <3>3
  <2>10. parts[Len(parts)].offset + parts[Len(parts)].bytes = bytes
    <3>1. limit * chunks = chunks * limit
      BY <1>1, <1>2
    <3>2. CASE rest = 0
      <4>1. Len(parts) = chunks /\ chunks \in 1 .. chunks /\ chunks \in Nat \ {0}
        BY <1>2, <2>1, <2>4, <3>2
      <4>2. parts[chunks].offset + parts[chunks].bytes = chunks * limit
        BY <2>5, <2>6, <4>1
      <4>3. chunks * limit = bytes
        BY <1>1, <1>2, <2>5, <3>1, <3>2, <4>1
      <4> QED BY <4>1, <4>2, <4>3
    <3>3. CASE rest # 0
      BY <1>2, <2>4, <2>7, <3>1, <3>3
    <3> QED BY <3>2, <3>3
  <2>11. \A i \in 1 .. Len(parts) :
           /\ parts[i].bytes \in 1 .. WS_SPLICE_PACKET_SIZE
           /\ parts[i].type = IF i = 1 THEN type ELSE WS_OP_CODE_CONTINUE
           /\ parts[i].fin = (i = Len(parts))
    <3> SUFFICES ASSUME NEW i \in 1 .. Len(parts)
                 PROVE  /\ parts[i].bytes \in 1 .. limit
                        /\ parts[i].type = IF i = 1 THEN type ELSE WS_OP_CODE_CONTINUE
                        /\ parts[i].fin = (i = Len(parts))
      BY DEF limit
    <3>1. CASE i \in 1 .. chunks
      <4>1. parts[i].bytes \in 1 .. limit
        BY <1>1, <2>6, <3>1
      <4>2. parts[i].type = IF i = 1 THEN type ELSE WS_OP_CODE_CONTINUE
        BY <2>6, <3>1
      <4>3. (i = chunks /\ rest = 0) <=> i = Len(parts)
        BY <1>2, <2>4, <3>1
      <4> QED BY <2>6, <3>1, <4>1, <4>2, <4>3
    <3>2. CASE i = chunks + 1 /\ rest # 0
      <4>1. i # 1 /\ i = Len(parts)
        BY <1>2, <2>1, <2>4, <3>2
      <4>2. parts[i].fin = (i = Len(parts))
        BY <2>7, <3>2, <4>1
      <4>3. parts[i].bytes \in 1 .. limit /\ parts[i].type = WS_OP_CODE_CONTINUE
        BY <1>1, <1>2, <2>7, <3>2
      <4> QED BY <4>1, <4>2, <4>3
    <3> QED BY <1>2, <2>4, <3>1, <3>2
  <2> QED BY <2>8, <2>9, <2>10, <2>11 DEF WellSplit, parts
<1> QED BY <1>1, <1>3, <1>4
-----------------------------------------------------------------------------
(* create_single_packet, and how a header is read. *)

\* The masks: none, or four bytes.
Masks == {<<>>} \cup [1 .. 4 -> ByteRange]

\* The second byte of a header with the longer form of the length, and how many
\* bytes that form has.
LenPart(n, mask) ==
  IF n <= WS_MIN_PACKET_SIZE THEN <<n + mask>>
  ELSE IF n <= WS_MID_PACKET_SIZE THEN <<WS_MIN_PACKET_SIZE + 1 + mask>> \o BigEndian(n, 2)
  ELSE <<WS_MIN_PACKET_SIZE + 2 + mask>> \o BigEndian(n, 8)

LenExt(n) == IF n <= WS_MIN_PACKET_SIZE THEN 0 ELSE IF n <= WS_MID_PACKET_SIZE THEN 2 ELSE 8

\* The limit of a frame and the sizes as numbers.
LEMMA Limit == FrameLimit \in Nat /\ FrameLimit > 65535
BY DEF FrameLimit

\* As above, for the sizes.
LEMMA Sizes ==
  /\ WS_MIN_PACKET_SIZE \in Nat /\ WS_MIN_PACKET_SIZE >= 1 /\ WS_MIN_PACKET_SIZE <= 125
  /\ WS_MID_PACKET_SIZE \in Nat /\ WS_MIN_PACKET_SIZE < WS_MID_PACKET_SIZE
  /\ WS_MID_PACKET_SIZE <= 65535
  /\ WS_SPLICE_PACKET_SIZE \in Nat /\ WS_SPLICE_PACKET_SIZE >= 1
  /\ WS_SPLICE_PACKET_SIZE < FrameLimit
BY SizeAssumption, Limit

\* The number that two bytes are.
LEMMA TwoBytes ==
  ASSUME NEW s \in Seq(ByteRange), Len(s) = 2
  PROVE  FromBigEndian(s) = 256 * s[1] + s[2] /\ ~Beyond(s)
<1>1. FromBigEndian(s) = 256 * s[1] + s[2]
  BY DEF FromBigEndian
<1>2. ~Beyond(s)
  BY DEF Beyond
<1> QED BY <1>1, <1>2

\* The bytes of a length are bytes, and from them the length is read again.
LEMMA BigEndianShort ==
  ASSUME NEW n \in Nat, n <= 65535
  PROVE  /\ BigEndian(n, 2) \in Seq(ByteRange) /\ Len(BigEndian(n, 2)) = 2
         /\ FromBigEndian(BigEndian(n, 2)) = n /\ ~Beyond(BigEndian(n, 2))
<1> DEFINE a == n \div 256
           b == n % 256
           s == BigEndian(n, 2)
<1>1. a \in ByteRange /\ b \in ByteRange /\ 256 * a + b = n
  BY DEF ByteRange
<1>2. s = <<a, b>>
  BY DEF BigEndian
<1> HIDE DEF a, b, s
<1>3. s \in Seq(ByteRange) /\ Len(s) = 2 /\ s[1] = a /\ s[2] = b
  BY <1>1, <1>2
<1>4. FromBigEndian(s) = 256 * s[1] + s[2] /\ ~Beyond(s)
  BY <1>3, TwoBytes
<1>5. s \in Seq(ByteRange) /\ Len(s) = 2 /\ FromBigEndian(s) = n /\ ~Beyond(s)
  BY <1>1, <1>3, <1>4
<1> QED BY <1>5 DEF s

LEMMA BigEndianLong ==
  ASSUME NEW n \in Nat, n < FrameLimit
  PROVE  /\ BigEndian(n, 8) \in Seq(ByteRange) /\ Len(BigEndian(n, 8)) = 8
         /\ FromBigEndian(BigEndian(n, 8)) = n /\ ~Beyond(BigEndian(n, 8))
<1> DEFINE a == n \div 65536
           b == (n \div 256) % 256
           c == n % 256
<1>1. /\ a \in ByteRange /\ b \in ByteRange /\ c \in ByteRange
      /\ 65536 * a + 256 * b + c = n
  BY DEF ByteRange, FrameLimit
<1>2. BigEndian(n, 8) = <<0, 0, 0, 0, 0, a, b, c>>
  BY DEF BigEndian
<1> HIDE DEF a, b, c
<1> DEFINE s == <<0, 0, 0, 0, 0, a, b, c>>
<1>3. /\ s \in Seq(ByteRange) /\ Len(s) = 8
      /\ s[1] = 0 /\ s[2] = 0 /\ s[3] = 0 /\ s[4] = 0 /\ s[5] = 0
      /\ s[6] = a /\ s[7] = b /\ s[8] = c
  BY <1>1 DEF ByteRange
<1> HIDE DEF s
<1>4. FromBigEndian(s) = n
  <2>1. FromBigEndian(s) = 65536 * (256 * s[5] + s[6]) + (256 * s[7] + s[8])
    BY <1>3 DEF FromBigEndian, TopBit
  <2> QED BY <1>1, <1>3, <2>1 DEF ByteRange
<1>5. ~Beyond(s)
  <2>1. \A i \in 1 .. 4 : i = 1 \/ i = 2 \/ i = 3 \/ i = 4
    OBVIOUS
  <2> QED BY <1>3, <2>1, Zenon DEF Beyond
<1> QED BY <1>2, <1>3, <1>4, <1>5 DEF s

\* The head of a sequence made of one element and a sequence, and the rest.
LEMMA Prepend ==
  ASSUME NEW S, NEW x \in S, NEW t \in Seq(S)
  PROVE  LET s == <<x>> \o t
         IN /\ s \in Seq(S) /\ Len(s) = 1 + Len(t) /\ s[1] = x
            /\ \A j \in 1 .. Len(t) : s[1 + j] = t[j]
<1>1. <<x>> \in Seq(S) /\ Len(<<x>>) = 1 /\ <<x>>[1] = x
  OBVIOUS
<1>2. Len(t) \in Nat
  BY LenProperties
<1>3. <<x>> \o t \in Seq(S) /\ Len(<<x>> \o t) = 1 + Len(t)
  BY <1>1, ConcatProperties
<1>4. (<<x>> \o t)[1] = x
  BY <1>1, <1>2, ConcatProperties
<1>5. ASSUME NEW j \in 1 .. Len(t)
      PROVE  (<<x>> \o t)[1 + j] = t[j]
  BY <1>1, <1>2, ConcatProperties
<1> QED BY <1>3, <1>4, <1>5

\* What the second byte says, and that the longer form says the length.
LEMMA LenPartShape ==
  ASSUME NEW n \in Nat, n < FrameLimit, NEW mask \in {0, TopBit}
  PROVE  LET s == LenPart(n, mask)
         IN /\ s \in Seq(ByteRange) /\ Len(s) = 1 + LenExt(n)
            /\ s[1] \in ByteRange
            /\ s[1] >= TopBit <=> mask = TopBit
            /\ s[1] % TopBit = (IF LenExt(n) = 0 THEN n ELSE
                                IF LenExt(n) = 2 THEN WS_MIN_PACKET_SIZE + 1
                                                 ELSE WS_MIN_PACKET_SIZE + 2)
            /\ \A t \in Seq(ByteRange) :
                 Len(t) = LenExt(n) /\ LenExt(n) # 0
                   /\ (\A j \in 1 .. LenExt(n) : t[j] = s[1 + j])
                   => FromBigEndian(t) = n /\ ~Beyond(t)
<1> DEFINE s == LenPart(n, mask)
<1>1. CASE n <= WS_MIN_PACKET_SIZE
  <2>1. s = <<n + mask>> /\ LenExt(n) = 0
    BY <1>1 DEF LenPart, LenExt
  <2>2. n + mask \in ByteRange /\ (n + mask >= TopBit <=> mask = TopBit) /\ (n + mask) % TopBit = n
    BY <1>1, Sizes DEF ByteRange, TopBit
  <2> HIDE DEF s
  <2>3. s \in Seq(ByteRange) /\ Len(s) = 1 /\ s[1] = n + mask
    BY <2>1, <2>2
  <2> QED BY <2>1, <2>2, <2>3 DEF s
<1>2. ASSUME NEW ext \in {2, 8}, NEW k \in 1 .. 2, NEW e \in Seq(ByteRange), Len(e) = ext,
             FromBigEndian(e) = n, ~Beyond(e), LenExt(n) = ext, k = 1 <=> ext = 2,
             s = <<WS_MIN_PACKET_SIZE + k + mask>> \o e
      PROVE  /\ s \in Seq(ByteRange) /\ Len(s) = 1 + LenExt(n)
             /\ s[1] \in ByteRange
             /\ s[1] >= TopBit <=> mask = TopBit
             /\ s[1] % TopBit = (IF LenExt(n) = 0 THEN n ELSE
                                 IF LenExt(n) = 2 THEN WS_MIN_PACKET_SIZE + 1
                                                  ELSE WS_MIN_PACKET_SIZE + 2)
             /\ \A t \in Seq(ByteRange) :
                  Len(t) = LenExt(n) /\ LenExt(n) # 0
                    /\ (\A j \in 1 .. LenExt(n) : t[j] = s[1 + j])
                    => FromBigEndian(t) = n /\ ~Beyond(t)
  <2> DEFINE x == WS_MIN_PACKET_SIZE + k + mask
  <2>1. x \in ByteRange /\ (x >= TopBit <=> mask = TopBit) /\ x % TopBit = WS_MIN_PACKET_SIZE + k
    BY Sizes DEF ByteRange, TopBit
  <2>2. s = <<x>> \o e
    BY <1>2
  <2> HIDE DEF s, x
  <2>3. /\ s \in Seq(ByteRange) /\ Len(s) = 1 + ext /\ s[1] = x
        /\ \A j \in 1 .. ext : s[1 + j] = e[j]
    BY <1>2, <2>1, <2>2, Prepend
  <2>4. ASSUME NEW t \in Seq(ByteRange), Len(t) = ext, \A j \in 1 .. ext : t[j] = s[1 + j]
        PROVE  FromBigEndian(t) = n /\ ~Beyond(t)
    <3>1. t = e
      <4>1. \A j \in 1 .. Len(t) : t[j] = e[j]
        BY <2>3, <2>4
      <4> QED BY <1>2, <2>4, <4>1, SeqEqual
    <3> QED BY <1>2, <3>1
  <2> QED BY <1>2, <2>1, <2>3, <2>4
<1>3. CASE n > WS_MIN_PACKET_SIZE /\ n <= WS_MID_PACKET_SIZE
  <2>1. n <= 65535 /\ ~(n <= WS_MIN_PACKET_SIZE)
    BY <1>3, Sizes
  <2>2. s = <<WS_MIN_PACKET_SIZE + 1 + mask>> \o BigEndian(n, 2) /\ LenExt(n) = 2
    BY <1>3, <2>1 DEF LenPart, LenExt
  <2>3. /\ BigEndian(n, 2) \in Seq(ByteRange) /\ Len(BigEndian(n, 2)) = 2
        /\ FromBigEndian(BigEndian(n, 2)) = n /\ ~Beyond(BigEndian(n, 2))
    BY <2>1, BigEndianShort
  <2> HIDE DEF s
  <2>4. 1 \in 1 .. 2 /\ 2 \in {2, 8}
    OBVIOUS
  <2> QED BY <1>2, <2>2, <2>3, <2>4 DEF s
<1>4. CASE n > WS_MID_PACKET_SIZE
  <2>1. ~(n <= WS_MIN_PACKET_SIZE) /\ ~(n <= WS_MID_PACKET_SIZE)
    BY <1>4, Sizes
  <2>2. s = <<WS_MIN_PACKET_SIZE + 2 + mask>> \o BigEndian(n, 8) /\ LenExt(n) = 8
    BY <2>1 DEF LenPart, LenExt
  <2>3. /\ BigEndian(n, 8) \in Seq(ByteRange) /\ Len(BigEndian(n, 8)) = 8
        /\ FromBigEndian(BigEndian(n, 8)) = n /\ ~Beyond(BigEndian(n, 8))
    BY BigEndianLong
  <2> HIDE DEF s
  <2>4. 2 \in 1 .. 2 /\ 8 \in {2, 8} /\ 2 # 1 /\ 8 # 2
    OBVIOUS
  <2> QED BY <1>2, <2>2, <2>3, <2>4 DEF s
<1> QED BY <1>1, <1>3, <1>4, Sizes
-----------------------------------------------------------------------------
(* Masking. *)

\* The bits of a byte, the lowest first, and the number that they stand for.
Bits8     == [1 .. 8 -> {0, 1}]
Number(x) == x[1] + 2 * x[2] + 4 * x[3] + 8 * x[4] + 16 * x[5] + 32 * x[6] + 64 * x[7]
               + 128 * x[8]

\* Bits that differ.
Differ(p, q) == IF p = q THEN 0 ELSE 1

\* The bits of a number are found by division.
LEMMA BitsOfNumber ==
  ASSUME NEW x \in Bits8
  PROVE  LET a == Number(x)
         IN /\ (a \div 1) % 2 = x[1] /\ (a \div 2) % 2 = x[2] /\ (a \div 4) % 2 = x[3]
            /\ (a \div 8) % 2 = x[4] /\ (a \div 16) % 2 = x[5] /\ (a \div 32) % 2 = x[6]
            /\ (a \div 64) % 2 = x[7] /\ (a \div 128) % 2 = x[8]
            /\ a \in ByteRange
<1>1. /\ x[1] \in {0, 1} /\ x[2] \in {0, 1} /\ x[3] \in {0, 1} /\ x[4] \in {0, 1}
      /\ x[5] \in {0, 1} /\ x[6] \in {0, 1} /\ x[7] \in {0, 1} /\ x[8] \in {0, 1}
  BY DEF Bits8
<1> QED BY <1>1 DEF Number, ByteRange

\* Every byte has bits.
LEMMA ByteHasBits ==
  ASSUME NEW a \in ByteRange
  PROVE  \E x \in Bits8 : a = Number(x)
<1> DEFINE x == [i \in 1 .. 8 |-> IF i = 1 THEN a % 2 ELSE IF i = 2 THEN (a \div 2) % 2 ELSE
                                  IF i = 3 THEN (a \div 4) % 2 ELSE IF i = 4 THEN (a \div 8) % 2 ELSE
                                  IF i = 5 THEN (a \div 16) % 2 ELSE IF i = 6 THEN (a \div 32) % 2 ELSE
                                  IF i = 7 THEN (a \div 64) % 2 ELSE (a \div 128) % 2]
<1>1. x \in Bits8
  BY DEF Bits8, ByteRange
<1>2. /\ x[1] = a % 2 /\ x[2] = (a \div 2) % 2 /\ x[3] = (a \div 4) % 2
      /\ x[4] = (a \div 8) % 2 /\ x[5] = (a \div 16) % 2 /\ x[6] = (a \div 32) % 2
      /\ x[7] = (a \div 64) % 2 /\ x[8] = (a \div 128) % 2
  OBVIOUS
<1> HIDE DEF x
<1>3. a = Number(x)
  BY <1>2 DEF Number, ByteRange
<1> QED BY <1>1, <1>3

\* Exclusive or goes bit by bit.
LEMMA XorBitwise ==
  ASSUME NEW x \in Bits8, NEW y \in Bits8
  PROVE  LET z == [i \in 1 .. 8 |-> Differ(x[i], y[i])]
         IN z \in Bits8 /\ Xor(Number(x), Number(y)) = Number(z)
<1> DEFINE z == [i \in 1 .. 8 |-> Differ(x[i], y[i])]
           a == Number(x)
           b == Number(y)
           Bit(i) == IF (a \div i) % 2 = (b \div i) % 2 THEN 0 ELSE i
<1>1. z \in Bits8
  BY DEF Bits8, Differ
<1>2. /\ (a \div 1) % 2 = x[1] /\ (a \div 2) % 2 = x[2] /\ (a \div 4) % 2 = x[3]
      /\ (a \div 8) % 2 = x[4] /\ (a \div 16) % 2 = x[5] /\ (a \div 32) % 2 = x[6]
      /\ (a \div 64) % 2 = x[7] /\ (a \div 128) % 2 = x[8]
  BY BitsOfNumber
<1>3. /\ (b \div 1) % 2 = y[1] /\ (b \div 2) % 2 = y[2] /\ (b \div 4) % 2 = y[3]
      /\ (b \div 8) % 2 = y[4] /\ (b \div 16) % 2 = y[5] /\ (b \div 32) % 2 = y[6]
      /\ (b \div 64) % 2 = y[7] /\ (b \div 128) % 2 = y[8]
  BY BitsOfNumber
<1>4. Xor(a, b) = Bit(1) + Bit(2) + Bit(4) + Bit(8) + Bit(16) + Bit(32) + Bit(64) + Bit(128)
  BY Zenon DEF Xor
<1> HIDE DEF a, b
<1>5. /\ Bit(1) = z[1] /\ Bit(2) = 2 * z[2] /\ Bit(4) = 4 * z[3] /\ Bit(8) = 8 * z[4]
      /\ Bit(16) = 16 * z[5] /\ Bit(32) = 32 * z[6] /\ Bit(64) = 64 * z[7]
      /\ Bit(128) = 128 * z[8]
  BY <1>2, <1>3 DEF Differ
<1> HIDE DEF Bit, z
<1>6. Xor(a, b) = Number(z)
  BY <1>4, <1>5 DEF Number
<1> QED BY <1>1, <1>6 DEF a, b, z

\* Exclusive or gives a byte, and done twice the first byte.
LEMMA XorTwice ==
  ASSUME NEW a \in ByteRange, NEW b \in ByteRange
  PROVE  Xor(a, b) \in ByteRange /\ Xor(Xor(a, b), b) = a
<1>1. PICK x \in Bits8 : a = Number(x)
  BY ByteHasBits
<1>2. PICK y \in Bits8 : b = Number(y)
  BY ByteHasBits
<1> DEFINE z == [i \in 1 .. 8 |-> Differ(x[i], y[i])]
           w == [i \in 1 .. 8 |-> Differ(z[i], y[i])]
<1>3. z \in Bits8 /\ Xor(a, b) = Number(z)
  BY <1>1, <1>2, XorBitwise
<1>4. w = x
  <2>1. \A p, q \in {0, 1} : Differ(Differ(p, q), q) = p
    BY DEF Differ
  <2>2. \A i \in 1 .. 8 : x[i] \in {0, 1} /\ y[i] \in {0, 1}
    BY DEF Bits8
  <2>3. \A i \in 1 .. 8 : w[i] = x[i]
    BY <2>1, <2>2
  <2>4. x = [i \in 1 .. 8 |-> x[i]]
    BY DEF Bits8
  <2>5. w = [i \in 1 .. 8 |-> w[i]]
    OBVIOUS
  <2> HIDE DEF w
  <2> QED BY <2>3, <2>4, <2>5
<1>5. Xor(Number(z), b) = Number(w)
  <2> HIDE DEF z
  <2> QED BY <1>2, <1>3, XorBitwise
<1> HIDE DEF z, w
<1> QED BY <1>1, <1>3, <1>4, <1>5, BitsOfNumber

\* A mask leaves bytes, as many as there were, and taken off again gives the data.
LEMMA MaskTwice ==
  ASSUME NEW data \in Seq(ByteRange), NEW k \in Masks
  PROVE  /\ Mask(data, k) \in Seq(ByteRange) /\ Len(Mask(data, k)) = Len(data)
         /\ Mask(Mask(data, k), k) = data
<1>1. CASE k = <<>>
  BY <1>1 DEF Mask
<1>2. CASE k # <<>>
  <2> DEFINE by(i) == k[((i - 1) % 4) + 1]
             m == [i \in DOMAIN data |-> Xor(data[i], by(i))]
  <2>1. k \in [1 .. 4 -> ByteRange]
    BY <1>2 DEF Masks
  <2>2. \A i \in Nat \ {0} : by(i) \in ByteRange
    <3>1. \A i \in Nat \ {0} : ((i - 1) % 4) + 1 \in 1 .. 4
      OBVIOUS
    <3> QED BY <2>1, <3>1
  <2> HIDE DEF by
  <2>3. /\ DOMAIN data = 1 .. Len(data) /\ Len(data) \in Nat
        /\ \A i \in 1 .. Len(data) : data[i] \in ByteRange /\ i \in Nat \ {0}
    BY ElementOfSeq, LenProperties
  <2>4. m \in Seq(ByteRange) /\ Len(m) = Len(data)
    BY <2>2, <2>3, XorTwice
  <2>5. Mask(data, k) = m
    BY <1>2, Zenon DEF Mask, by
  <2>6. DOMAIN m = DOMAIN data /\ \A i \in DOMAIN data : m[i] = Xor(data[i], by(i))
    OBVIOUS
  <2> HIDE DEF m
  <2>7. Mask(m, k) = [i \in DOMAIN data |-> Xor(m[i], by(i))]
    BY <1>2, <2>6, Zenon DEF Mask, by
  <2>8. \A i \in DOMAIN data : Xor(m[i], by(i)) = data[i]
    BY <2>2, <2>3, <2>6, XorTwice
  <2>9. Mask(m, k) = [i \in DOMAIN data |-> data[i]]
    BY <2>7, <2>8
  <2>10. data = [i \in DOMAIN data |-> data[i]]
    OBVIOUS
  <2> QED BY <2>4, <2>5, <2>9, <2>10
<1> QED BY <1>1, <1>2
-----------------------------------------------------------------------------
(* A frame. *)

\* A mask is a sequence of none or four bytes.
LEMMA MaskIsSeq ==
  ASSUME NEW k \in Masks
  PROVE  k \in Seq(ByteRange) /\ Len(k) = (IF k = <<>> THEN 0 ELSE 4)
<1>1. CASE k = <<>>
  BY <1>1
<1>2. CASE k # <<>>
  <2>1. k \in [1 .. 4 -> ByteRange]
    BY <1>2 DEF Masks
  <2>2. k = [i \in 1 .. 4 |-> k[i]] /\ \A i \in 1 .. 4 : k[i] \in ByteRange
    BY <2>1
  <2>3. [i \in 1 .. 4 |-> k[i]] \in Seq(ByteRange) /\ Len([i \in 1 .. 4 |-> k[i]]) = 4
    BY <2>2
  <2>4. k \in Seq(ByteRange) /\ Len(k) = 4
    BY <2>2, <2>3, Zenon
  <2> QED BY <1>2, <2>4
<1> QED BY <1>1, <1>2

\* Two sequences put together, element by element.
LEMMA Concat ==
  ASSUME NEW S, NEW s \in Seq(S), NEW t \in Seq(S), NEW u, u = s \o t
  PROVE  /\ u \in Seq(S) /\ Len(u) = Len(s) + Len(t)
         /\ \A i \in 1 .. Len(s) : u[i] = s[i]
         /\ \A j \in 1 .. Len(t) : u[Len(s) + j] = t[j]
<1>1. Len(s) \in Nat /\ Len(t) \in Nat
  BY LenProperties
<1>2. s \o t \in Seq(S) /\ Len(s \o t) = Len(s) + Len(t)
  BY ConcatProperties
<1>3. \A i \in 1 .. Len(s) : (s \o t)[i] = s[i]
  BY <1>1, ConcatProperties
<1>4. ASSUME NEW j \in 1 .. Len(t)
      PROVE  (s \o t)[Len(s) + j] = t[j]
  BY <1>1, ConcatProperties
<1> QED BY <1>2, <1>3, <1>4

\* The two bytes with which a frame begins.
FirstTwo(p) == <<p[1], p[2]>>

\* p is a frame with these data, opcode, fin bit and mask: what its header says is
\* so, and behind the header come the longer form of the length, the mask and the
\* masked data.
IsFrame(p, data, type, fin, k) ==
  LET h == FirstTwo(p)
      ext == ExtBytes(h)
  IN /\ p \in Seq(ByteRange)
     /\ h \in ByteRange \X ByteRange
     /\ ext \in {0, 2, 8}
     /\ Len(p) = 2 + ext + Len(k) + Len(data)
     /\ p[1] % 16 = type
     /\ p[1] >= TopBit <=> fin
     /\ HasMask(h) <=> k # <<>>
     /\ ext = 0 => LenBits(h) = Len(data)
     /\ \A t \in Seq(ByteRange) :
          Len(t) = ext /\ ext # 0 /\ (\A j \in 1 .. ext : t[j] = p[2 + j])
            => FromBigEndian(t) = Len(data) /\ ~Beyond(t)
     /\ \A j \in 1 .. Len(k) : p[2 + ext + j] = k[j]
     /\ \A j \in 1 .. Len(data) : p[2 + ext + Len(k) + j] = Mask(data, k)[j]

\* create_single_packet makes such a frame, of every size and in every form.
LEMMA PacketIsFrame ==
  ASSUME NEW data \in Seq(ByteRange), Len(data) < FrameLimit, NEW type \in OpCodes,
         NEW fin \in BOOLEAN, NEW k \in Masks
  PROVE  IsFrame(CreateSinglePacket(data, type, fin, k), data, type, fin, k)
<1> DEFINE n    == Len(data)
           mask == IF k = <<>> THEN 0 ELSE TopBit
           b    == (IF fin THEN TopBit ELSE 0) + type
           l    == LenPart(n, mask)
           m    == Mask(data, k)
           q    == <<b>> \o l
           r    == q \o k
           p    == r \o m
           e    == LenExt(n)
           h    == FirstTwo(p)
<1>1. CreateSinglePacket(data, type, fin, k) = p
  BY Zenon DEF CreateSinglePacket, LenPart
<1>2. n \in Nat /\ n < FrameLimit /\ mask \in {0, TopBit} /\ (mask = TopBit <=> k # <<>>)
  BY LenProperties DEF TopBit
<1>3. b \in ByteRange /\ b % 16 = type /\ (b >= TopBit <=> fin)
  <2>1. type \in 0 .. 15 /\ TopBit = 128
    BY DEF OpCodes, TopBit
  <2>2. CASE fin = TRUE
    <3>1. b = TopBit + type
      BY <2>2, Zenon
    <3> HIDE DEF b
    <3>2. b \in ByteRange /\ b % 16 = type /\ b >= TopBit
      BY <2>1, <3>1 DEF ByteRange
    <3> QED BY <2>2, <3>2
  <2>3. CASE fin = FALSE
    <3>1. b = 0 + type
      BY <2>3, Zenon
    <3> HIDE DEF b
    <3>2. b \in ByteRange /\ b % 16 = type /\ ~(b >= TopBit)
      BY <2>1, <3>1 DEF ByteRange
    <3> QED BY <2>3, <3>2
  <2> QED BY <2>2, <2>3
<1>4. /\ l \in Seq(ByteRange) /\ Len(l) = 1 + e
      /\ l[1] \in ByteRange
      /\ l[1] >= TopBit <=> mask = TopBit
      /\ l[1] % TopBit = (IF e = 0 THEN n ELSE IF e = 2 THEN WS_MIN_PACKET_SIZE + 1
                                               ELSE WS_MIN_PACKET_SIZE + 2)
      /\ \A t \in Seq(ByteRange) :
           Len(t) = e /\ e # 0 /\ (\A j \in 1 .. e : t[j] = l[1 + j])
             => FromBigEndian(t) = n /\ ~Beyond(t)
  BY <1>2, LenPartShape
<1>5. e \in {0, 2, 8} /\ (e = 0 <=> n <= WS_MIN_PACKET_SIZE)
  BY <1>2, Sizes DEF LenExt
<1>6. m \in Seq(ByteRange) /\ Len(m) = n
  BY MaskTwice
<1>7. k \in Seq(ByteRange) /\ Len(k) \in Nat
  BY MaskIsSeq, LenProperties
<1> HIDE DEF n, mask, b, l, m, e
<1>8. /\ q \in Seq(ByteRange) /\ Len(q) = 2 + e /\ q[1] = b
      /\ \A j \in 1 .. 1 + e : q[1 + j] = l[j]
  <2>1. /\ q \in Seq(ByteRange) /\ Len(q) = 1 + Len(l) /\ q[1] = b
        /\ \A j \in 1 .. Len(l) : q[1 + j] = l[j]
    BY <1>3, <1>4, Prepend
  <2> QED BY <1>4, <1>5, <2>1
<1> HIDE DEF q
<1>8a. r = q \o k /\ p = r \o m
  OBVIOUS
<1> HIDE DEF r, p
<1>9. /\ r \in Seq(ByteRange) /\ Len(r) = 2 + e + Len(k)
      /\ \A i \in 1 .. 2 + e : r[i] = q[i]
      /\ \A j \in 1 .. Len(k) : r[2 + e + j] = k[j]
  <2>1. q \in Seq(ByteRange) /\ k \in Seq(ByteRange)
    BY <1>7, <1>8
  <2>2. /\ r \in Seq(ByteRange) /\ Len(r) = Len(q) + Len(k)
        /\ \A i \in 1 .. Len(q) : r[i] = q[i]
        /\ \A j \in 1 .. Len(k) : r[Len(q) + j] = k[j]
    BY <1>8a, <2>1, Concat
  <2> QED BY <1>8, <2>2
<1>10. /\ p \in Seq(ByteRange) /\ Len(p) = 2 + e + Len(k) + n
       /\ \A i \in 1 .. 2 + e + Len(k) : p[i] = r[i]
       /\ \A j \in 1 .. n : p[2 + e + Len(k) + j] = m[j]
  <2>1. r \in Seq(ByteRange) /\ m \in Seq(ByteRange)
    BY <1>6, <1>9
  <2>2. /\ p \in Seq(ByteRange) /\ Len(p) = Len(r) + Len(m)
        /\ \A i \in 1 .. Len(r) : p[i] = r[i]
        /\ \A j \in 1 .. Len(m) : p[Len(r) + j] = m[j]
    BY <1>8a, <2>1, Concat
  <2> QED BY <1>6, <1>9, <2>2
<1>11. p[1] = b /\ p[2] = l[1]
  <2>1. 1 \in 1 .. 2 + e /\ 2 \in 1 .. 2 + e /\ 1 \in 1 .. 1 + e
        /\ 1 \in 1 .. 2 + e + Len(k) /\ 2 \in 1 .. 2 + e + Len(k)
    BY <1>5, <1>7
  <2>2. q[2] = l[1]
    <3>1. q[1 + 1] = l[1]
      BY <1>8, <2>1
    <3> QED BY <3>1
  <2> QED BY <1>8, <1>9, <1>10, <2>1, <2>2
<1>12. \A j \in 1 .. e : p[2 + j] = l[1 + j]
  <2> TAKE j \in 1 .. e
  <2>1. /\ 2 + j \in 1 .. 2 + e + Len(k) /\ 2 + j \in 1 .. 2 + e /\ 1 + j \in 1 .. 1 + e
        /\ 1 + (1 + j) = 2 + j
    BY <1>5, <1>7
  <2>2. q[1 + (1 + j)] = l[1 + j]
    BY <1>8, <2>1
  <2> QED BY <1>9, <1>10, <2>1, <2>2
<1>13. \A j \in 1 .. Len(k) : p[2 + e + j] = k[j]
  <2> TAKE j \in 1 .. Len(k)
  <2>1. 2 + e + j \in 1 .. 2 + e + Len(k)
    BY <1>5, <1>7
  <2> QED BY <1>9, <1>10, <2>1
<1>14. h \in ByteRange \X ByteRange /\ h[1] = p[1] /\ h[2] = p[2]
  BY <1>3, <1>4, <1>11 DEF FirstTwo
<1> HIDE DEF h
<1>15. LenBits(h) = (IF e = 0 THEN n ELSE IF e = 2 THEN WS_MIN_PACKET_SIZE + 1
                                               ELSE WS_MIN_PACKET_SIZE + 2)
  BY <1>4, <1>11, <1>14 DEF LenBits
<1>16. ExtBytes(h) = e
  <2>1. CASE e = 0
    <3>1. LenBits(h) # WS_MIN_PACKET_SIZE + 1 /\ LenBits(h) # WS_MIN_PACKET_SIZE + 2
      BY <1>2, <1>5, <1>15, <2>1, Sizes
    <3> QED BY <2>1, <3>1 DEF ExtBytes
  <2>2. CASE e = 2
    <3>1. LenBits(h) = WS_MIN_PACKET_SIZE + 1 /\ LenBits(h) # WS_MIN_PACKET_SIZE + 2
      BY <1>15, <2>2, Sizes
    <3> QED BY <2>2, <3>1 DEF ExtBytes
  <2>3. CASE e = 8
    <3>1. LenBits(h) # WS_MIN_PACKET_SIZE + 1 /\ LenBits(h) = WS_MIN_PACKET_SIZE + 2
      BY <1>15, <2>3, Sizes
    <3> QED BY <2>3, <3>1 DEF ExtBytes
  <2> QED BY <1>5, <2>1, <2>2, <2>3
<1>17. HasMask(h) <=> k # <<>>
  BY <1>2, <1>4, <1>11, <1>14 DEF HasMask
<1>18. \A t \in Seq(ByteRange) :
         Len(t) = e /\ e # 0 /\ (\A j \in 1 .. e : t[j] = p[2 + j])
           => FromBigEndian(t) = n /\ ~Beyond(t)
  BY <1>4, <1>12
<1>19. e = 0 => LenBits(h) = n
  BY <1>15
<1>20. p[1] % 16 = type /\ (p[1] >= TopBit <=> fin)
  BY <1>3, <1>11
<1>21. IsFrame(p, data, type, fin, k)
  BY <1>5, <1>10, <1>13, <1>14, <1>16, <1>17, <1>18, <1>19, <1>20, Zenon DEF IsFrame, h, n, m
<1> QED BY <1>1, <1>21
-----------------------------------------------------------------------------
(* The places of the frames among those of some opcodes. *)

\* How many of the first i frames of fs have one of these opcodes.
Count(fs, i, types) == Cardinality({j \in 1 .. i : fs[j].type \in types})

\* It is none at first, grows by one with every such frame, and by none with another.
LEMMA CountStep ==
  ASSUME NEW fs, NEW types, NEW i \in Nat
  PROVE  /\ Count(fs, i, types) \in Nat
         /\ Count(fs, 0, types) = 0
         /\ fs[i + 1].type \in types
              => Count(fs, i + 1, types) = Count(fs, i, types) + 1
         /\ fs[i + 1].type \notin types
              => Count(fs, i + 1, types) = Count(fs, i, types)
<1> DEFINE C(n) == {j \in 1 .. n : fs[j].type \in types}
<1>1. IsFiniteSet(C(i))
  <2>1. IsFiniteSet(1 .. i) /\ C(i) \in SUBSET (1 .. i)
    BY FS_Interval
  <2> HIDE DEF C
  <2> QED BY <2>1, FS_Subset
<1>2. C(0) = {}
  OBVIOUS
<1>3. CASE fs[i + 1].type \in types
  <2>1. C(i + 1) = C(i) \cup {i + 1} /\ i + 1 \notin C(i)
    BY <1>3
  <2> HIDE DEF C
  <2>2. Cardinality(C(i + 1)) = Cardinality(C(i)) + 1
    BY <1>1, <2>1, FS_AddElement
  <2> QED BY <1>1, <1>2, <1>3, <2>2, FS_CardinalityType, FS_EmptySet DEF Count, C
<1>4. CASE fs[i + 1].type \notin types
  <2>1. C(i + 1) = C(i)
    BY <1>4
  <2> HIDE DEF C
  <2> QED BY <1>1, <1>2, <1>4, <2>1, FS_CardinalityType, FS_EmptySet DEF Count, C
<1> QED BY <1>3, <1>4

\* It never shrinks, and a later frame of these opcodes has a later place.
LEMMA CountGrows ==
  ASSUME NEW fs, NEW types, NEW i \in Nat, NEW k \in Nat, i <= k
  PROVE  /\ Count(fs, i, types) <= Count(fs, k, types)
         /\ i < k /\ fs[k].type \in types => Count(fs, i, types) < Count(fs, k, types)
<1> DEFINE N == {n \in Nat : Count(fs, i, types) <= Count(fs, i + n, types)}
<1>1. 0 \in N
  <2>1. i + 0 = i
    OBVIOUS
  <2> QED BY <2>1, CountStep
<1>2. ASSUME NEW n \in N
      PROVE  n + 1 \in N
  <2>1. n \in Nat /\ n + 1 \in Nat /\ i + n \in Nat /\ (i + n) + 1 = i + (n + 1)
    OBVIOUS
  <2>2. Count(fs, i, types) <= Count(fs, i + n, types)
    OBVIOUS
  <2>3. Count(fs, i + n, types) <= Count(fs, (i + n) + 1, types)
    BY <2>1, CountStep
  <2>4. Count(fs, i, types) \in Nat /\ Count(fs, i + n, types) \in Nat
        /\ Count(fs, i + (n + 1), types) \in Nat
    BY <2>1, CountStep
  <2>5. Count(fs, i, types) <= Count(fs, i + (n + 1), types)
    BY <2>1, <2>2, <2>3, <2>4
  <2> QED BY <2>1, <2>5, Zenon
<1>3. N \in SUBSET Nat
  OBVIOUS
<1>4. N = Nat
  <2> HIDE DEF N
  <2> QED BY <1>1, <1>2, <1>3, Induction
<1>5. \A m \in Nat : i <= m => Count(fs, i, types) <= Count(fs, m, types)
  <2> TAKE m \in Nat
  <2> HAVE i <= m
  <2>1. m - i \in Nat /\ i + (m - i) = m
    OBVIOUS
  <2>2. m - i \in N
    BY <1>4, <2>1, Zenon
  <2>3. Count(fs, i, types) <= Count(fs, i + (m - i), types)
    BY <2>2
  <2> QED BY <2>1, <2>3
<1>6. ASSUME i < k, fs[k].type \in types
      PROVE  Count(fs, i, types) < Count(fs, k, types)
  <2>1. k - 1 \in Nat /\ i <= k - 1 /\ (k - 1) + 1 = k
    BY <1>6
  <2>2. Count(fs, i, types) <= Count(fs, k - 1, types)
    BY <1>5, <2>1
  <2>3. Count(fs, (k - 1) + 1, types) = Count(fs, k - 1, types) + 1
    BY <1>6, <2>1, CountStep
  <2>4. Count(fs, i, types) \in Nat /\ Count(fs, k - 1, types) \in Nat
    BY <2>1, CountStep
  <2> QED BY <2>1, <2>2, <2>3, <2>4
<1> QED BY <1>5, <1>6

\* Only the first i frames count.
LEMMA CountAgree ==
  ASSUME NEW fs, NEW gs, NEW types, NEW i \in Nat, \A j \in 1 .. i : fs[j] = gs[j]
  PROVE  Count(fs, i, types) = Count(gs, i, types)
<1>1. {j \in 1 .. i : fs[j].type \in types} = {j \in 1 .. i : gs[j].type \in types}
  OBVIOUS
<1> QED BY <1>1 DEF Count

\* The list xs has the values, given by ys, of those of the first r frames that have
\* one of these opcodes, in their order.
Listed(xs, fs, ys, r, types) ==
  /\ Len(xs) = Count(fs, r, types)
  /\ \A i \in 1 .. r : fs[i].type \in types => xs[Count(fs, i, types)] = ys[i]

\* The list of nothing; it is longer by the next frame of these opcodes and the
\* same after another.
LEMMA ListedEmpty == ASSUME NEW fs, NEW ys, NEW types
                     PROVE  Listed(<<>>, fs, ys, 0, types)
BY CountStep DEF Listed

LEMMA ListedNext ==
  ASSUME NEW S, NEW xs \in Seq(S), NEW fs, NEW ys, NEW r \in Nat, NEW types,
         Listed(xs, fs, ys, r, types)
  PROVE  /\ fs[r + 1].type \notin types => Listed(xs, fs, ys, r + 1, types)
         /\ \A y \in S : fs[r + 1].type \in types /\ y = ys[r + 1]
                           => Listed(Append(xs, y), fs, ys, r + 1, types)
<1>1. /\ Len(xs) = Count(fs, r, types) /\ Len(xs) \in Nat
      /\ \A i \in 1 .. r : fs[i].type \in types => xs[Count(fs, i, types)] = ys[i]
  BY LenProperties DEF Listed
<1>2. \A i \in 1 .. r : i \in Nat /\ Count(fs, i, types) \in Nat
                        /\ Count(fs, i, types) <= Count(fs, r, types)
                        /\ (fs[i].type \in types => Count(fs, i, types) >= 1)
  <2> TAKE i \in 1 .. r
  <2>1. i \in Nat /\ 0 \in Nat /\ i <= r /\ 0 < i
    OBVIOUS
  <2>2. Count(fs, 0, types) = 0 /\ Count(fs, i, types) \in Nat
    BY <2>1, CountStep
  <2>3. Count(fs, i, types) <= Count(fs, r, types)
    BY <2>1, CountGrows
  <2>4. fs[i].type \in types => Count(fs, 0, types) < Count(fs, i, types)
    BY <2>1, CountGrows
  <2> QED BY <2>1, <2>2, <2>3, <2>4
<1>3. CASE fs[r + 1].type \notin types
  <2>1. Count(fs, r + 1, types) = Count(fs, r, types)
    BY <1>3, CountStep
  <2>2. \A i \in 1 .. r + 1 : fs[i].type \in types => i \in 1 .. r
    BY <1>3
  <2>3. Listed(xs, fs, ys, r + 1, types)
    BY <1>1, <2>1, <2>2, Zenon DEF Listed
  <2> QED BY <1>3, <2>3
<1>4. ASSUME NEW y \in S, fs[r + 1].type \in types, y = ys[r + 1]
      PROVE  Listed(Append(xs, y), fs, ys, r + 1, types)
  <2>1. Count(fs, r + 1, types) = Count(fs, r, types) + 1
    BY <1>4, CountStep
  <2>2. /\ Len(Append(xs, y)) = Len(xs) + 1 /\ Append(xs, y)[Len(xs) + 1] = y
        /\ \A i \in 1 .. Len(xs) : Append(xs, y)[i] = xs[i]
    BY AppendProperties
  <2>3. ASSUME NEW i \in 1 .. r + 1, fs[i].type \in types
        PROVE  Append(xs, y)[Count(fs, i, types)] = ys[i]
    <3>1. CASE i = r + 1
      BY <1>1, <1>4, <2>1, <2>2, <3>1
    <3>2. CASE i # r + 1
      <4>1. i \in 1 .. r
        BY <3>2
      <4>2. Count(fs, i, types) \in 1 .. Len(xs)
        BY <1>1, <1>2, <2>3, <4>1
      <4> QED BY <1>1, <2>2, <2>3, <4>1, <4>2
    <3> QED BY <3>1, <3>2
  <2>4. Len(Append(xs, y)) = Count(fs, r + 1, types)
    BY <1>1, <2>1, <2>2
  <2> QED BY <2>3, <2>4 DEF Listed
<1> QED BY <1>3, <1>4

\* It does not depend on later frames.
LEMMA ListedAgree ==
  ASSUME NEW xs, NEW fs, NEW ys, NEW gs, NEW zs, NEW r \in Nat, NEW types,
         Listed(xs, fs, ys, r, types),
         \A j \in 1 .. r : fs[j] = gs[j] /\ ys[j] = zs[j]
  PROVE  Listed(xs, gs, zs, r, types)
<1>1. \A i \in 0 .. r : Count(fs, i, types) = Count(gs, i, types)
  <2> TAKE i \in 0 .. r
  <2>1. i \in Nat /\ \A j \in 1 .. i : fs[j] = gs[j]
    OBVIOUS
  <2> QED BY <2>1, CountAgree
<1>2. r \in 0 .. r /\ \A i \in 1 .. r : i \in 0 .. r
  OBVIOUS
<1> QED BY <1>1, <1>2 DEF Listed

\* The element in the place of a frame is the value of that frame, for n frames.
InPlace(xs, fs, ys, n, types) ==
  /\ Len(xs) <= Count(fs, n, types)
  /\ \A i \in 1 .. n : fs[i].type \in types /\ Count(fs, i, types) <= Len(xs)
                         => xs[Count(fs, i, types)] = ys[i]

\* So it is in a list of the first r of them.
LEMMA ListedAll ==
  ASSUME NEW xs, NEW fs, NEW ys, NEW r \in Nat, NEW n \in Nat, r <= n, NEW types,
         Listed(xs, fs, ys, r, types)
  PROVE  InPlace(xs, fs, ys, n, types)
<1>1. Len(xs) = Count(fs, r, types) /\ Count(fs, r, types) \in Nat
  BY CountStep DEF Listed
<1>2. Len(xs) <= Count(fs, n, types)
  BY <1>1, CountGrows
<1>3. ASSUME NEW i \in 1 .. n, fs[i].type \in types, Count(fs, i, types) <= Len(xs)
      PROVE  xs[Count(fs, i, types)] = ys[i]
  <2>1. i \in Nat /\ Count(fs, i, types) \in Nat
    BY CountStep
  <2>2. CASE i <= r
    <3>1. i \in 1 .. r
      BY <2>2
    <3> QED BY <1>3, <3>1 DEF Listed
  <2>3. CASE r < i
    <3>1. r <= i
      BY <2>1, <2>3
    <3>2. Count(fs, r, types) < Count(fs, i, types)
      BY <1>3, <2>1, <2>3, <3>1, CountGrows
    <3> QED BY <1>1, <1>3, <2>1, <3>2
  <2> QED BY <2>1, <2>2, <2>3
<1> QED BY <1>2, <1>3 DEF InPlace
-----------------------------------------------------------------------------
(* The frames sent, as bytes one after the other. *)

\* A frame as it was meant, below the limit.
Frame == {f \in [type : OpCodes, fin : BOOLEAN, masked : BOOLEAN, data : Seq(ByteRange)] :
            Len(f.data) < FrameLimit}

\* The frames fs were made with the masks K into the bytes F, and each begins where B
\* says in all the bytes of the connection.
Layout(fs, K, F, B) ==
  /\ fs \in Seq(Frame)
  /\ K \in Seq(Masks) /\ Len(K) = Len(fs)
  /\ F \in Seq(Seq(ByteRange)) /\ Len(F) = Len(fs)
  /\ B \in Seq(Nat) /\ Len(B) = Len(fs) + 1
  /\ B[1] = 0
  /\ \A i \in 1 .. Len(fs) : /\ IsFrame(F[i], fs[i].data, fs[i].type, fs[i].fin, K[i])
                             /\ B[i + 1] = B[i] + Len(F[i])
  /\ \A i, j \in 1 .. Len(fs) + 1 : i <= j => B[i] <= B[j]

\* The frames in flight are the last ones, from a + 1 on, unless some were lost.
InFlight(fl, F, a, lost) ==
  /\ a \in Nat /\ a + Len(fl) <= Len(F)
  /\ ~lost => a + Len(fl) = Len(F)
  /\ \A i \in 1 .. Len(fl) : fl[i] = F[a + i]

\* What arrived and is not read are the bytes of the first a frames from c on.
Arrived(sock, F, B, a, c) ==
  /\ a \in Nat /\ a <= Len(F) /\ sock \in Seq(ByteRange)
  /\ c \in Nat /\ c + Len(sock) = B[a + 1]
  /\ \A i \in 1 .. a : \A j \in 1 .. Len(F[i]) :
       B[i] + j > c => sock[B[i] + j - c] = F[i][j]

\* One more frame is sent.
LEMMA LayoutAppend ==
  ASSUME NEW fs, NEW K, NEW F, NEW B, Layout(fs, K, F, B),
         NEW f \in Frame, NEW k \in Masks, NEW p \in Seq(ByteRange),
         IsFrame(p, f.data, f.type, f.fin, k)
  PROVE  /\ Layout(Append(fs, f), Append(K, k), Append(F, p), Append(B, B[Len(B)] + Len(p)))
         /\ Agree(Append(fs, f), fs, Len(fs)) /\ Agree(Append(K, k), K, Len(fs))
         /\ Agree(Append(F, p), F, Len(fs))
         /\ Agree(Append(B, B[Len(B)] + Len(p)), B, Len(fs) + 1)
         /\ Append(F, p)[Len(fs) + 1] = p
<1> DEFINE n == Len(fs)
           b == B[Len(B)] + Len(p)
           gs == Append(fs, f)
           L == Append(K, k)
           G == Append(F, p)
           C == Append(B, b)
<1>1. fs \in Seq(Frame) /\ n \in Nat /\ Len(p) \in Nat
  BY LenProperties DEF Layout
<1>2. /\ K \in Seq(Masks) /\ F \in Seq(Seq(ByteRange)) /\ B \in Seq(Nat)
      /\ Len(K) = n /\ Len(F) = n /\ Len(B) = n + 1
  BY DEF Layout
<1>3. /\ \A i \in 1 .. n + 1 : B[i] \in Nat
      /\ b \in Nat
  <2>1. \A i \in 1 .. n + 1 : B[i] \in Nat
    BY <1>2, ElementOfSeq
  <2> QED BY <1>1, <1>2, <2>1
<1>4. /\ gs \in Seq(Frame) /\ Len(gs) = n + 1 /\ gs[n + 1] = f
      /\ \A i \in 1 .. n : gs[i] = fs[i]
  BY <1>1, AppendProperties
<1>5. /\ L \in Seq(Masks) /\ Len(L) = n + 1 /\ L[n + 1] = k
      /\ \A i \in 1 .. n : L[i] = K[i]
  BY <1>2, AppendProperties
<1>6. /\ G \in Seq(Seq(ByteRange)) /\ Len(G) = n + 1 /\ G[n + 1] = p
      /\ \A i \in 1 .. n : G[i] = F[i]
  BY <1>2, AppendProperties
<1> HIDE DEF b
<1>7. /\ C \in Seq(Nat) /\ Len(C) = n + 2 /\ C[n + 2] = b
      /\ \A i \in 1 .. n + 1 : C[i] = B[i]
  <2>1. /\ C \in Seq(Nat) /\ Len(C) = Len(B) + 1 /\ C[Len(B) + 1] = b
        /\ \A i \in 1 .. Len(B) : C[i] = B[i]
    BY <1>2, <1>3, AppendProperties
  <2> QED BY <1>1, <1>2, <2>1
<1> HIDE DEF n, gs, L, G, C
<1>8. \A i \in 1 .. n : /\ IsFrame(F[i], fs[i].data, fs[i].type, fs[i].fin, K[i])
                        /\ B[i + 1] = B[i] + Len(F[i])
  BY DEF Layout, n
<1>9. C[1] = 0
  <2>1. B[1] = 0
    BY DEF Layout
  <2>2. 1 \in 1 .. n + 1
    BY <1>1
  <2> QED BY <1>7, <2>1, <2>2
<1>10. ASSUME NEW i \in 1 .. n + 1
       PROVE  /\ IsFrame(G[i], gs[i].data, gs[i].type, gs[i].fin, L[i])
              /\ C[i + 1] = C[i] + Len(G[i])
  <2>1. CASE i \in 1 .. n
    <3>1. i \in 1 .. n + 1 /\ i + 1 \in 1 .. n + 1
      BY <1>1, <2>1
    <3> QED BY <1>4, <1>5, <1>6, <1>7, <1>8, <2>1, <3>1
  <2>2. CASE i = n + 1
    <3>1. i + 1 = n + 2 /\ i \in 1 .. n + 1
      BY <1>1, <2>2
    <3>2. b = B[n + 1] + Len(p)
      BY <1>2 DEF b
    <3> QED BY <1>4, <1>5, <1>6, <1>7, <2>2, <3>1, <3>2
  <2> QED BY <1>1, <2>1, <2>2
<1>11. ASSUME NEW i \in 1 .. n + 2, NEW j \in 1 .. n + 2, i <= j
       PROVE  C[i] <= C[j]
  <2>1. \A x, y \in 1 .. n + 1 : x <= y => B[x] <= B[y]
    BY DEF Layout, n
  <2>2. b >= B[n + 1]
    BY <1>1, <1>2, <1>3 DEF b
  <2>3. CASE j \in 1 .. n + 1
    <3>1. i \in 1 .. n + 1
      BY <1>1, <1>11, <2>3
    <3> QED BY <1>7, <1>11, <2>1, <2>3, <3>1
  <2>4. CASE j = n + 2
    <3>1. CASE i \in 1 .. n + 1
      <4>1. B[i] <= B[n + 1] /\ B[i] \in Nat /\ B[n + 1] \in Nat
        <5>1. n + 1 \in 1 .. n + 1 /\ i <= n + 1
          BY <1>1, <3>1
        <5> QED BY <1>3, <2>1, <3>1, <5>1
      <4> QED BY <1>3, <1>7, <2>2, <2>4, <3>1, <4>1
    <3>2. CASE i = n + 2
      BY <1>3, <1>7, <2>4, <3>2
    <3> QED BY <1>1, <3>1, <3>2
  <2> QED BY <1>1, <2>3, <2>4
<1>12. (n + 1) + 1 = n + 2
  BY <1>1
<1>13. Layout(gs, L, G, C)
  BY <1>4, <1>5, <1>6, <1>7, <1>9, <1>10, <1>11, <1>12 DEF Layout
<1>14. n <= n + 1 /\ n + 1 <= n + 2 /\ n <= n /\ n + 1 <= n + 1
  BY <1>1
<1>15. Agree(gs, fs, n) /\ Agree(L, K, n) /\ Agree(G, F, n) /\ Agree(C, B, n + 1)
  BY <1>2, <1>4, <1>5, <1>6, <1>7, <1>14 DEF Agree, n
<1> QED BY <1>6, <1>13, <1>15 DEF gs, L, G, C, b, n

\* The frames up to the last have the bytes that the arrived frames have.
LEMMA LayoutFacts ==
  ASSUME NEW fs, NEW K, NEW F, NEW B, Layout(fs, K, F, B)
  PROVE  /\ Len(fs) \in Nat /\ Len(F) = Len(fs)
         /\ \A i \in 1 .. Len(fs) : /\ fs[i] \in Frame /\ K[i] \in Masks
                                    /\ F[i] \in Seq(ByteRange) /\ Len(F[i]) \in Nat
         /\ \A i \in 1 .. Len(fs) + 1 : B[i] \in Nat
<1>1. Len(fs) \in Nat /\ Len(F) = Len(fs)
  BY LenProperties DEF Layout
<1>2. \A i \in 1 .. Len(fs) : fs[i] \in Frame /\ K[i] \in Masks /\ F[i] \in Seq(ByteRange)
  BY ElementOfSeq DEF Layout
<1>3. \A i \in 1 .. Len(fs) : Len(F[i]) \in Nat
  BY <1>2, LenProperties
<1>4. \A i \in 1 .. Len(fs) + 1 : B[i] \in Nat
  BY ElementOfSeq DEF Layout
<1> QED BY <1>1, <1>2, <1>3, <1>4

\* A whole frame arrives.
LEMMA ArrivedMore ==
  ASSUME NEW fs, NEW K, NEW F, NEW B, Layout(fs, K, F, B),
         NEW sock, NEW a \in Nat, NEW c \in Nat, a + 1 <= Len(F),
         NEW more, more = sock \o F[a + 1]
  PROVE  Arrived(sock, F, B, a, c) => Arrived(more, F, B, a + 1, c)
<1>0. HAVE Arrived(sock, F, B, a, c)
<1>1. /\ a \in Nat /\ sock \in Seq(ByteRange)
      /\ Len(fs) \in Nat /\ a + 1 \in 1 .. Len(fs) /\ a + 1 \in 1 .. Len(fs) + 1
      /\ (a + 1) + 1 \in 1 .. Len(fs) + 1
  BY <1>0, LayoutFacts DEF Arrived
<1>2. /\ F[a + 1] \in Seq(ByteRange) /\ Len(F[a + 1]) \in Nat /\ Len(sock) \in Nat
      /\ B[a + 1] \in Nat /\ B[(a + 1) + 1] = B[a + 1] + Len(F[a + 1])
  <2>1. F[a + 1] \in Seq(ByteRange) /\ Len(F[a + 1]) \in Nat /\ B[a + 1] \in Nat
    BY <1>1, LayoutFacts
  <2>2. B[(a + 1) + 1] = B[a + 1] + Len(F[a + 1])
    BY <1>1 DEF Layout
  <2> QED BY <2>1, <2>2, LenProperties
<1>3. /\ Len(more) = Len(sock) + Len(F[a + 1])
      /\ \A i \in 1 .. Len(sock) : more[i] = sock[i]
      /\ \A j \in 1 .. Len(F[a + 1]) : more[Len(sock) + j] = F[a + 1][j]
  BY <1>2, Concat
<1>4. c \in Nat /\ c + Len(sock) = B[a + 1]
  BY <1>0 DEF Arrived
<1>5. ASSUME NEW i \in 1 .. a + 1, NEW j \in 1 .. Len(F[i]), B[i] + j > c
      PROVE  more[B[i] + j - c] = F[i][j]
  <2>1. CASE i = a + 1
    <3>1. j \in 1 .. Len(F[a + 1]) /\ B[i] = c + Len(sock)
      BY <1>4, <2>1
    <3>2. B[i] + j - c = Len(sock) + j
      BY <1>2, <3>1
    <3> QED BY <1>3, <2>1, <3>1, <3>2
  <2>2. CASE i \in 1 .. a
    <3>1. /\ i \in 1 .. Len(fs) /\ i + 1 \in 1 .. Len(fs) + 1
          /\ i \in 1 .. Len(fs) + 1 /\ i + 1 <= a + 1
      BY <1>1, <2>2
    <3>2. B[i + 1] <= B[a + 1] /\ B[i + 1] = B[i] + Len(F[i])
      BY <1>1, <3>1 DEF Layout
    <3>3. Len(F[i]) \in Nat /\ B[i] \in Nat
      BY <3>1, LayoutFacts
    <3>4. B[i] + j - c \in 1 .. Len(sock)
      <4> DEFINE b == B[i]
                 l == Len(F[i])
                 e == B[a + 1]
                 s == Len(sock)
      <4>1. /\ b \in Nat /\ l \in Nat /\ e \in Nat /\ s \in Nat /\ j \in 1 .. l
            /\ b + l <= e /\ c + s = e /\ b + j > c + 0
        BY <1>2, <1>4, <1>5, <3>2, <3>3
      <4> HIDE DEF b, l, e, s
      <4>2. b + j - c \in 1 .. s
        BY <4>1
      <4> QED BY <4>2 DEF b, s
    <3>5. sock[B[i] + j - c] = F[i][j]
      BY <1>0, <1>5, <2>2 DEF Arrived
    <3> QED BY <1>3, <3>4, <3>5
  <2>3. i = a + 1 \/ i \in 1 .. a
    OBVIOUS
  <2> QED BY <2>1, <2>2, <2>3, Zenon
<1>6. c + Len(more) = B[(a + 1) + 1]
  BY <1>2, <1>3, <1>4
<1>7. more \in Seq(ByteRange) /\ a + 1 \in Nat
  BY <1>1, <1>2, ConcatProperties
<1> QED BY <1>4, <1>5, <1>6, <1>7 DEF Arrived

\* A part of a sequence, element by element.
LEMMA Cut ==
  ASSUME NEW S, NEW s \in Seq(S), NEW m \in Nat, NEW n \in Nat, m <= n, n <= Len(s)
  PROVE  /\ SubSeq(s, m + 1, n) \in Seq(S) /\ Len(SubSeq(s, m + 1, n)) = n - m
         /\ \A i \in 1 .. n - m : SubSeq(s, m + 1, n)[i] = s[m + i]
<1>1. Len(s) \in Nat
  BY LenProperties
<1>2. m + 1 \in 1 .. Len(s) + 1 /\ n \in (m + 1) - 1 .. Len(s)
  BY <1>1
<1>3. SubSeq(s, m + 1, n) \in Seq(S) /\ Len(SubSeq(s, m + 1, n)) = n - (m + 1) + 1
      /\ \A i \in 1 .. n - (m + 1) + 1 : SubSeq(s, m + 1, n)[i] = s[m + 1 + i - 1]
  BY <1>2, SubSeqProperties
<1>4. n - (m + 1) + 1 = n - m /\ \A i \in 1 .. n - m : m + 1 + i - 1 = m + i
  OBVIOUS
<1> QED BY <1>3, <1>4

\* The w bytes x of frame i behind the first o.
Piece(x, F, i, o, w) ==
  x \in Seq(ByteRange) /\ Len(x) = w /\ \A j \in 1 .. w : x[j] = F[i][o + j]

\* While a frame that has arrived is read, w bytes of it after the first o are there,
\* and what is left are the bytes behind them.
LEMMA ArrivedTake ==
  ASSUME NEW fs, NEW K, NEW F, NEW B, Layout(fs, K, F, B),
         NEW sock, NEW a \in Nat, NEW c \in Nat,
         NEW r \in Nat, r < a, NEW o \in Nat, NEW w \in Nat
  PROVE  Arrived(sock, F, B, a, c) /\ c = B[r + 1] + o /\ o + w <= Len(F[r + 1]) =>
         /\ w <= Len(sock)
         /\ Piece(SubSeq(sock, 1, w), F, r + 1, o, w)
         /\ SubSeq(sock, w + 1, Len(sock)) \in Seq(ByteRange)
         /\ Arrived(SubSeq(sock, w + 1, Len(sock)), F, B, a, c + w)
<1> DEFINE x == SubSeq(sock, 1, w)
           y == SubSeq(sock, w + 1, Len(sock))
<1>a. HAVE Arrived(sock, F, B, a, c) /\ c = B[r + 1] + o /\ o + w <= Len(F[r + 1])
<1>b. c = B[r + 1] + o /\ o + w <= Len(F[r + 1])
  BY <1>a
<1>0. a <= Len(F) /\ sock \in Seq(ByteRange)
  BY <1>a DEF Arrived
<1>1. /\ Len(fs) \in Nat /\ r + 1 \in 1 .. Len(fs) /\ r + 1 \in 1 .. a
      /\ r + 1 \in 1 .. Len(fs) + 1 /\ (r + 1) + 1 \in 1 .. Len(fs) + 1
      /\ a + 1 \in 1 .. Len(fs) + 1 /\ (r + 1) + 1 <= a + 1
  BY <1>0, LayoutFacts
<1>2. /\ Len(F[r + 1]) \in Nat /\ B[r + 1] \in Nat /\ B[a + 1] \in Nat
      /\ B[(r + 1) + 1] = B[r + 1] + Len(F[r + 1]) /\ B[(r + 1) + 1] <= B[a + 1]
      /\ Len(sock) \in Nat
  <2>1. Len(F[r + 1]) \in Nat /\ B[r + 1] \in Nat /\ B[a + 1] \in Nat
    BY <1>1, LayoutFacts
  <2>2. B[(r + 1) + 1] = B[r + 1] + Len(F[r + 1]) /\ B[(r + 1) + 1] <= B[a + 1]
    BY <1>1 DEF Layout
  <2> QED BY <1>0, <2>1, <2>2, LenProperties
<1>3. c + Len(sock) = B[a + 1]
  BY <1>a DEF Arrived
<1>4. w <= Len(sock)
  BY <1>b, <1>2, <1>3, SMTT(30)
<1>5. x \in Seq(ByteRange) /\ Len(x) = w /\ \A i \in 1 .. w : x[i] = sock[i]
  <2>1. 0 \in Nat /\ 0 <= w /\ 0 + 1 = 1 /\ w - 0 = w /\ \A i \in 1 .. w : 0 + i = i
    OBVIOUS
  <2>2. /\ SubSeq(sock, 0 + 1, w) \in Seq(ByteRange) /\ Len(SubSeq(sock, 0 + 1, w)) = w - 0
        /\ \A i \in 1 .. w - 0 : SubSeq(sock, 0 + 1, w)[i] = sock[0 + i]
    BY <1>0, <1>4, <2>1, Cut
  <2> QED BY <2>1, <2>2
<1>6. y \in Seq(ByteRange) /\ Len(y) = Len(sock) - w
      /\ \A i \in 1 .. Len(sock) - w : y[i] = sock[w + i]
  <2>1. Len(sock) \in Nat /\ w <= Len(sock) /\ Len(sock) <= Len(sock)
    BY <1>2, <1>4
  <2> QED BY <1>0, <2>1, Cut
<1> HIDE DEF x, y
<1>7. ASSUME NEW j \in 1 .. w
      PROVE  x[j] = F[r + 1][o + j]
  <2>1. o + j \in 1 .. Len(F[r + 1]) /\ B[r + 1] + (o + j) > c
        /\ B[r + 1] + (o + j) - c = j
    <3> DEFINE b == B[r + 1]
               l == Len(F[r + 1])
    <3>1. b \in Nat /\ l \in Nat /\ c = b + o /\ o + w <= l
      BY <1>b, <1>2
    <3> HIDE DEF b, l
    <3>2. o + j \in 1 .. l /\ b + (o + j) > c /\ b + (o + j) - c = j
      BY <3>1
    <3> QED BY <3>2 DEF b, l
  <2>2. sock[B[r + 1] + (o + j) - c] = F[r + 1][o + j]
    BY <1>a, <1>1, <2>1 DEF Arrived
  <2> QED BY <1>5, <2>1, <2>2
<1>8. ASSUME NEW i \in 1 .. a, NEW j \in 1 .. Len(F[i]), B[i] + j > c + w
      PROVE  y[B[i] + j - (c + w)] = F[i][j]
  <2>1. i \in 1 .. Len(fs) /\ i + 1 \in 1 .. Len(fs) + 1 /\ i \in 1 .. Len(fs) + 1 /\ i + 1 <= a + 1
    BY <1>1
  <2>2. B[i + 1] <= B[a + 1] /\ B[i + 1] = B[i] + Len(F[i])
    BY <1>1, <2>1 DEF Layout
  <2>3. Len(F[i]) \in Nat /\ B[i] \in Nat
    BY <2>1, LayoutFacts
  <2>4. /\ B[i] + j > c
        /\ B[i] + j - (c + w) \in 1 .. Len(sock) - w
        /\ w + (B[i] + j - (c + w)) = B[i] + j - c
    <3> DEFINE b == B[i]
               l == Len(F[i])
               e == B[a + 1]
               s == Len(sock)
    <3>1. /\ b \in Nat /\ l \in Nat /\ e \in Nat /\ s \in Nat /\ j \in 1 .. l
          /\ b + l <= e /\ c + s = e /\ b + j > c + w
      BY <1>2, <1>3, <1>8, <2>2, <2>3
    <3> HIDE DEF b, l, e, s
    <3>2. b + j > c /\ b + j - (c + w) \in 1 .. s - w /\ w + (b + j - (c + w)) = b + j - c
      BY <3>1
    <3> QED BY <3>2 DEF b, s
  <2>5. sock[B[i] + j - c] = F[i][j]
    BY <1>a, <2>4 DEF Arrived
  <2> QED BY <1>6, <2>4, <2>5
<1>9. c + w \in Nat /\ (c + w) + Len(y) = B[a + 1]
  <2>1. (c + w) + (Len(sock) - w) = c + Len(sock)
    BY <1>2
  <2> QED BY <1>3, <1>6, <2>1
<1>10. Arrived(y, F, B, a, c + w)
  BY <1>0, <1>6, <1>8, <1>9 DEF Arrived
<1>11. Piece(x, F, r + 1, o, w)
  BY <1>5, <1>7 DEF Piece
<1> QED BY <1>4, <1>6, <1>10, <1>11 DEF x, y
-----------------------------------------------------------------------------
(* Types. *)

\* The inductive form of TypeOK: also the frames of every sender are below the limit,
\* and the longer form of a length is only read where there is one.
WsTypes ==
  /\ script \in Scripts
  /\ begun \in [Senders -> Nat]
  /\ frames \in [Senders -> Seq(Frame)]
  /\ sent \in Seq(Frame)
  /\ flight \in Seq(Seq(ByteRange))
  /\ socket \in Seq(ByteRange)
  /\ broken \in BOOLEAN
  /\ stage \in {"head", "ext", "mask", "data", "failed", "undefined"}
  /\ stage = "ext" => ExtBytes(head) # 0
  /\ head \in ByteRange \X ByteRange
  /\ size \in Int
  /\ beyond \in BOOLEAN
  /\ size < 0 \/ beyond => ExtBytes(head) = 8
  /\ key \in Masks
  /\ results \in Seq([type : OpCodes, last : BOOLEAN, body : Packet])
  /\ pongs \in Seq(Packet)

\* A part that lies in the message makes a frame.
LEMMA SliceIsFrame ==
  ASSUME NEW m \in Message, NEW part, part.offset \in Nat, part.bytes \in Nat,
         part.offset + part.bytes <= Len(m.data), part.bytes < FrameLimit,
         part.type \in OpCodes, part.fin \in BOOLEAN
  PROVE  Slice(m, part) \in Frame
<1>1. m.data \in Seq(ByteRange) /\ m.masked \in BOOLEAN
  BY DEF Message
<1>2. Len(m.data) \in Nat
  BY <1>1, LenProperties
<1> DEFINE o == part.offset
           n == part.offset + part.bytes
           d == SubSeq(m.data, o + 1, n)
<1>3. o \in Nat /\ n \in Nat /\ o <= n /\ n <= Len(m.data) /\ n - o = part.bytes
  BY <1>2
<1> HIDE DEF o, n
<1>4. d \in Seq(ByteRange) /\ Len(d) = n - o
  BY <1>1, <1>3, Cut
<1> HIDE DEF d
<1>5. Slice(m, part) = [type |-> part.type, fin |-> part.fin, masked |-> m.masked, data |-> d]
  BY DEF Slice, d, o, n
<1> QED BY <1>1, <1>3, <1>4, <1>5 DEF Frame

\* The parts that cover a message lie in it.
LEMMA PartsInside ==
  ASSUME NEW parts, NEW bytes \in Nat, NEW type, Len(parts) \in Nat
  PROVE  WellSplit(parts, bytes, type) =>
           \A i \in 1 .. Len(parts) : /\ parts[i].offset \in Nat
                                      /\ parts[i].offset + parts[i].bytes <= bytes
<1>1. HAVE WellSplit(parts, bytes, type)
<1> DEFINE l == Len(parts)
           o(i) == parts[i].offset
           b(i) == parts[i].bytes
<1>2. \A i \in 1 .. l : b(i) \in Nat
  BY <1>1, Sizes DEF WellSplit
<1>3. o(1) = 0 /\ l >= 1 /\ o(l) + b(l) = bytes
  BY <1>1 DEF WellSplit
<1>4. \A i \in 1 .. l - 1 : o(i + 1) = o(i) + b(i)
  BY <1>1 DEF WellSplit
<1> HIDE DEF l, o, b
<1> DEFINE M == {n \in Nat : n + 1 \in 1 .. l => o(n + 1) \in Nat}
           N == {n \in Nat : l - n \in 1 .. l => o(l - n) + b(l - n) <= bytes}
<1>5. l \in Nat
  BY DEF l
<1>6. M = Nat
  <2>1. 0 \in M
    BY <1>3
  <2>2. ASSUME NEW n \in M
        PROVE  n + 1 \in M
    <3>1. n \in Nat /\ (n + 1) + 1 \in Nat
      OBVIOUS
    <3>2. ASSUME (n + 1) + 1 \in 1 .. l
          PROVE  o((n + 1) + 1) \in Nat
      <4>1. n + 1 \in 1 .. l /\ n + 1 \in 1 .. l - 1
        BY <1>5, <3>1, <3>2
      <4>2. o(n + 1) \in Nat
        BY <4>1
      <4> QED BY <1>2, <1>4, <4>1, <4>2
    <3> QED BY <3>1, <3>2
  <2>3. M \in SUBSET Nat
    OBVIOUS
  <2> HIDE DEF M
  <2> QED BY <2>1, <2>2, <2>3, Induction
<1>7. \A i \in 1 .. l : o(i) \in Nat
  <2> TAKE i \in 1 .. l
  <2>1. i - 1 \in Nat /\ (i - 1) + 1 = i
    OBVIOUS
  <2>2. i - 1 \in M
    <3> HIDE DEF M
    <3> QED BY <1>6, <2>1
  <2>3. o((i - 1) + 1) \in Nat
    BY <2>1, <2>2
  <2> QED BY <2>1, <2>3
<1>8. N = Nat
  <2>1. 0 \in N
    <3>1. l - 0 = l
      BY <1>5
    <3> QED BY <1>3, <3>1
  <2>2. ASSUME NEW n \in N
        PROVE  n + 1 \in N
    <3>1. n \in Nat /\ n + 1 \in Nat
      OBVIOUS
    <3>2. ASSUME l - (n + 1) \in 1 .. l
          PROVE  o(l - (n + 1)) + b(l - (n + 1)) <= bytes
      <4>1. /\ l - n \in 1 .. l /\ l - (n + 1) \in 1 .. l - 1 /\ (l - (n + 1)) + 1 = l - n
        BY <1>5, <3>1, <3>2
      <4>2. o(l - n) + b(l - n) <= bytes /\ o(l - n) \in Nat /\ b(l - n) \in Nat
        BY <1>2, <1>7, <4>1
      <4>3. o(l - n) = o(l - (n + 1)) + b(l - (n + 1))
        BY <1>4, <4>1
      <4> QED BY <4>2, <4>3
    <3> QED BY <3>1, <3>2
  <2>3. N \in SUBSET Nat
    OBVIOUS
  <2> HIDE DEF N
  <2> QED BY <2>1, <2>2, <2>3, Induction
<1>9. \A i \in 1 .. l : o(i) + b(i) <= bytes
  <2> TAKE i \in 1 .. l
  <2>1. l - i \in Nat /\ l - (l - i) = i
    BY <1>5
  <2>2. l - i \in N
    <3> HIDE DEF N
    <3> QED BY <1>8, <2>1
  <2>3. o(l - (l - i)) + b(l - (l - i)) <= bytes
    BY <2>1, <2>2
  <2> QED BY <2>1, <2>3
<1> QED BY <1>7, <1>9 DEF l, o, b

\* What split_packet returns is a sequence.
LEMMA PartsAreSeq ==
  ASSUME NEW bytes \in Nat, NEW type
  PROVE  LET parts == SplitPacket(bytes, type)
         IN Len(parts) \in Nat /\ DOMAIN parts = 1 .. Len(parts)
<1> DEFINE limit   == WS_SPLICE_PACKET_SIZE
           chunks == bytes \div limit
           rest   == bytes % limit
           Full(i) == Part((i - 1) * limit, limit,
                           IF i = 1 THEN type ELSE WS_OP_CODE_CONTINUE,
                           i = chunks /\ rest = 0)
           full   == [i \in 1 .. chunks |-> Full(i)]
           last   == Part(chunks * limit, rest, WS_OP_CODE_CONTINUE, TRUE)
           parts  == SplitPacket(bytes, type)
<1>1. parts = IF bytes = 0 THEN <<>>
              ELSE IF bytes <= limit THEN <<Part(0, bytes, type, TRUE)>>
              ELSE IF rest = 0 THEN full ELSE Append(full, last)
  BY Zenon DEF SplitPacket
<1>2. limit \in Nat \ {0}
  BY SizeAssumption
<1>3. chunks \in Nat
  <2> HIDE DEF limit
  <2> QED BY <1>2, Division
<1> HIDE DEF chunks, rest, limit, parts, Full
<1> DEFINE X == {Full(i) : i \in 1 .. chunks} \cup {last}
<1>4. full \in Seq(X) /\ last \in X
  <2>1. last \in X /\ \A i \in 1 .. chunks : Full(i) \in X
    OBVIOUS
  <2> HIDE DEF X, last
  <2> QED BY <1>3, <2>1
<1> HIDE DEF full, X, last
<1>5. Append(full, last) \in Seq(X)
  BY <1>4, AppendProperties
<1>6. \A s \in Seq(X) : Len(s) \in Nat /\ DOMAIN s = 1 .. Len(s)
  BY LenProperties
<1>7. Len(<<>>) \in Nat /\ DOMAIN <<>> = 1 .. Len(<<>>)
  OBVIOUS
<1>8. Len(<<Part(0, bytes, type, TRUE)>>) \in Nat
      /\ DOMAIN <<Part(0, bytes, type, TRUE)>> = 1 .. Len(<<Part(0, bytes, type, TRUE)>>)
  OBVIOUS
<1>9. \/ parts = <<>> \/ parts = <<Part(0, bytes, type, TRUE)>>
      \/ parts = full \/ parts = Append(full, last)
  BY <1>1, Zenon
<1> QED BY <1>4, <1>5, <1>6, <1>7, <1>8, <1>9 DEF parts

\* The frames that a call of send makes of a message.
FramesOf(m) ==
  LET parts == IF IsControl(m) THEN <<Part(0, Len(m.data), m.type, TRUE)>>
               ELSE SplitPacket(Len(m.data), m.type)
  IN [i \in DOMAIN parts |-> Slice(m, parts[i])]

\* They are frames; only the first has the opcode, and only the last the fin bit.
LEMMA FramesOfMessage ==
  ASSUME NEW m \in Message, IsControl(m) => Len(m.data) < FrameLimit
  PROVE  /\ FramesOf(m) \in Seq(Frame)
         /\ \A i \in 1 .. Len(FramesOf(m)) :
              /\ FramesOf(m)[i].type = IF i = 1 THEN m.type ELSE WS_OP_CODE_CONTINUE
              /\ FramesOf(m)[i].fin = (i = Len(FramesOf(m)))
         /\ IsControl(m) => Len(FramesOf(m)) = 1
<1> DEFINE n == Len(m.data)
           fs == FramesOf(m)
<1>1. m.data \in Seq(ByteRange) /\ m.type \in OpCodes /\ n \in Nat
  BY LenProperties DEF Message
<1>2. ASSUME NEW parts, Len(parts) \in Nat, DOMAIN parts = 1 .. Len(parts),
             fs = [i \in DOMAIN parts |-> Slice(m, parts[i])],
             \A i \in 1 .. Len(parts) :
               /\ parts[i].offset \in Nat /\ parts[i].bytes \in Nat
               /\ parts[i].offset + parts[i].bytes <= n /\ parts[i].bytes < FrameLimit
               /\ parts[i].type = IF i = 1 THEN m.type ELSE WS_OP_CODE_CONTINUE
               /\ parts[i].fin = (i = Len(parts))
      PROVE  /\ fs \in Seq(Frame) /\ Len(fs) = Len(parts)
             /\ \A i \in 1 .. Len(fs) :
                  /\ fs[i].type = IF i = 1 THEN m.type ELSE WS_OP_CODE_CONTINUE
                  /\ fs[i].fin = (i = Len(fs))
  <2>1. WS_OP_CODE_CONTINUE \in OpCodes
    BY DEF WS_OP_CODE_CONTINUE, OpCodes
  <2>2. \A i \in 1 .. Len(parts) : Slice(m, parts[i]) \in Frame
    <3> TAKE i \in 1 .. Len(parts)
    <3>1. parts[i].type \in OpCodes
      BY <1>1, <1>2, <2>1
    <3>2. parts[i].fin \in BOOLEAN
      BY <1>2, Zenon
    <3> QED BY <1>2, <3>1, <3>2, SliceIsFrame
  <2> HIDE DEF fs
  <2>3. fs = [i \in 1 .. Len(parts) |-> Slice(m, parts[i])]
    BY <1>2
  <2>4. fs \in Seq(Frame) /\ Len(fs) = Len(parts)
    <3> DEFINE l == Len(parts)
               S(i) == Slice(m, parts[i])
    <3>1. l \in Nat /\ (\A i \in 1 .. l : S(i) \in Frame) /\ fs = [i \in 1 .. l |-> S(i)]
      BY <1>2, <2>2, <2>3
    <3> HIDE DEF l, S
    <3>2. fs \in Seq(Frame) /\ Len(fs) = l
      BY <3>1
    <3> QED BY <3>2 DEF l
  <2>5. \A i \in 1 .. Len(parts) : fs[i].type = parts[i].type /\ fs[i].fin = parts[i].fin
    BY <2>3 DEF Slice
  <2> QED BY <1>2, <2>4, <2>5, ZenonT(60)
<1>3. CASE IsControl(m)
  <2> DEFINE parts == <<Part(0, n, m.type, TRUE)>>
  <2>1. fs = [i \in DOMAIN parts |-> Slice(m, parts[i])]
    BY <1>3, Zenon DEF FramesOf
  <2>2. Len(parts) = 1 /\ DOMAIN parts = 1 .. Len(parts) /\ parts[1] = Part(0, n, m.type, TRUE)
    OBVIOUS
  <2> HIDE DEF fs, parts
  <2>3. parts[1].offset = 0 /\ parts[1].bytes = n /\ parts[1].type = m.type /\ parts[1].fin = TRUE
    <3> DEFINE t == m.type
    <3> HIDE DEF n, t
    <3>1. parts[1] = Part(0, n, t, TRUE)
      BY <2>2 DEF t
    <3>2. parts[1].offset = 0 /\ parts[1].bytes = n /\ parts[1].type = t
      BY <3>1 DEF Part
    <3>3. parts[1].fin = TRUE
      BY <3>1 DEF Part
    <3> QED BY <3>2, <3>3 DEF t
  <2>4. \A i \in 1 .. Len(parts) : i = 1
    BY <2>2
  <2>5. n < FrameLimit /\ 0 \in Nat /\ 0 + n <= n
    BY <1>1, <1>3
  <2>6. \A i \in 1 .. Len(parts) :
               /\ parts[i].offset \in Nat /\ parts[i].bytes \in Nat
               /\ parts[i].offset + parts[i].bytes <= n /\ parts[i].bytes < FrameLimit
               /\ parts[i].type = IF i = 1 THEN m.type ELSE WS_OP_CODE_CONTINUE
               /\ parts[i].fin = (i = Len(parts))
    <3>1. parts[1].fin = (1 = Len(parts))
      BY <2>2, <2>3
    <3> HIDE DEF n
    <3> QED BY <1>1, <2>3, <2>4, <2>5, <3>1, Zenon
  <2>7. Len(parts) \in Nat
    BY <2>2
  <2> QED BY <1>2, <2>1, <2>2, <2>6, <2>7 DEF fs
<1>4. CASE ~IsControl(m)
  <2> DEFINE parts == SplitPacket(n, m.type)
  <2>1. fs = [i \in DOMAIN parts |-> Slice(m, parts[i])]
    BY <1>4, Zenon DEF FramesOf
  <2>2. Len(parts) \in Nat /\ DOMAIN parts = 1 .. Len(parts)
    BY <1>1, PartsAreSeq
  <2>3. n # 0 => WellSplit(parts, n, m.type)
    BY <1>1, SplitPacketWell
  <2>4. n = 0 => parts = <<>>
    BY DEF SplitPacket
  <2> HIDE DEF n, parts, fs
  <2>5. \A i \in 1 .. Len(parts) :
               /\ parts[i].offset \in Nat /\ parts[i].bytes \in Nat
               /\ parts[i].offset + parts[i].bytes <= n /\ parts[i].bytes < FrameLimit
               /\ parts[i].type = IF i = 1 THEN m.type ELSE WS_OP_CODE_CONTINUE
               /\ parts[i].fin = (i = Len(parts))
    <3>1. CASE n = 0
      BY <2>4, <3>1
    <3>2. CASE n # 0
      <4>1. \A i \in 1 .. Len(parts) :
              /\ parts[i].bytes \in 1 .. WS_SPLICE_PACKET_SIZE
              /\ parts[i].type = IF i = 1 THEN m.type ELSE WS_OP_CODE_CONTINUE
              /\ parts[i].fin = (i = Len(parts))
        BY <2>3, <3>2, Zenon DEF WellSplit
      <4>2. \A b \in 1 .. WS_SPLICE_PACKET_SIZE : b \in Nat /\ b < FrameLimit
        BY Sizes, Limit
      <4>3. \A i \in 1 .. Len(parts) :
              parts[i].offset \in Nat /\ parts[i].offset + parts[i].bytes <= n
        BY <1>1, <2>2, <2>3, <3>2, PartsInside
      <4> QED BY <4>1, <4>2, <4>3, Zenon
    <3> QED BY <3>1, <3>2
  <2> QED BY <1>2, <1>4, <2>1, <2>2, <2>5 DEF fs, n
<1> QED BY <1>3, <1>4

\* The scripts, and what a sender has to send next.
LEMMA NextMessage ==
  ASSUME WsTypes, NEW s \in Senders, begun[s] < Len(script[s])
  PROVE  LET m == script[s][begun[s] + 1]
         IN /\ m \in Message /\ (IsControl(m) => Len(m.data) < FrameLimit)
            /\ m.type # WS_OP_CODE_CONTINUE
<1>1. script \in [Senders -> Seq(Message)] /\ begun[s] \in Nat
  BY ScriptAssumption DEF WsTypes
<1>2. script[s] \in Seq(Message) /\ Len(script[s]) \in Nat
  BY <1>1, LenProperties
<1>3. begun[s] + 1 \in 1 .. Len(script[s]) /\ begun[s] + 1 \in DOMAIN script[s]
  BY <1>1, <1>2
<1>4. script[s][begun[s] + 1] \in Message
  BY <1>2, <1>3, ElementOfSeq
<1>5. /\ script[s][begun[s] + 1].type # WS_OP_CODE_CONTINUE
      /\ IsControl(script[s][begun[s] + 1]) => Len(script[s][begun[s] + 1].data) < FrameLimit
  <2>1. script \in Scripts
    BY DEF WsTypes
  <2> QED BY <1>3, <2>1, ScriptAssumption, Zenon
<1> QED BY <1>4, <1>5

\* The frame that a sender sends next, and its bytes.
LEMMA NextFrame ==
  ASSUME WsTypes, NEW s \in Senders, frames[s] # <<>>
  PROVE  /\ frames[s] \in Seq(Frame) /\ Head(frames[s]) \in Frame /\ Tail(frames[s]) \in Seq(Frame)
         /\ \A k \in IF Head(frames[s]).masked THEN Keys ELSE {<<>>} :
              LET f == Head(frames[s])
                  p == CreateSinglePacket(f.data, f.type, f.fin, k)
              IN k \in Masks /\ p \in Seq(ByteRange) /\ IsFrame(p, f.data, f.type, f.fin, k)
<1>1. frames[s] \in Seq(Frame)
  BY DEF WsTypes
<1>2. Head(frames[s]) \in Frame /\ Tail(frames[s]) \in Seq(Frame)
  BY <1>1, HeadTailProperties
<1> DEFINE f == Head(frames[s])
<1>3. /\ f.data \in Seq(ByteRange) /\ Len(f.data) < FrameLimit /\ f.type \in OpCodes
      /\ f.fin \in BOOLEAN /\ f.masked \in BOOLEAN
  <2> HIDE DEF f
  <2>1. f \in Frame
    BY <1>2 DEF f
  <2> QED BY <2>1 DEF Frame
<1>4. ASSUME NEW k \in IF f.masked THEN Keys ELSE {<<>>}
      PROVE  k \in Masks
  <2>1. k \in Keys \/ k = <<>>
    OBVIOUS
  <2> QED BY <2>1, ScriptAssumption DEF Masks
<1>5. ASSUME NEW k \in Masks
      PROVE  IsFrame(CreateSinglePacket(f.data, f.type, f.fin, k), f.data, f.type, f.fin, k)
  BY <1>3, PacketIsFrame
<1>6. \A k \in Masks : CreateSinglePacket(f.data, f.type, f.fin, k) \in Seq(ByteRange)
  BY <1>5, Zenon DEF IsFrame
<1> QED BY <1>1, <1>2, <1>4, <1>5, <1>6

\* A sequence of elements of a set is a sequence of elements of a larger one.
LEMMA SeqLarger ==
  ASSUME NEW S, NEW T, S \subseteq T, NEW s \in Seq(S)
  PROVE  s \in Seq(T)
<1>1. Len(s) \in Nat /\ s = [i \in 1 .. Len(s) |-> s[i]] /\ \A i \in 1 .. Len(s) : s[i] \in T
  BY ElementOfSeq, LenProperties
<1> QED BY <1>1

\* What recv_msg is called for.
LEMMA WantedFacts ==
  ASSUME WsTypes
  PROVE  /\ ExtBytes(head) \in {0, 2, 8}
         /\ Wanted \in Int
         /\ stage = "head" => Wanted = 2
         /\ stage = "ext" => Wanted = ExtBytes(head)
         /\ stage = "mask" => Wanted = 4
         /\ stage = "data" => Wanted = size
         /\ stage \in {"failed", "undefined"} => Wanted = 0
<1>1. ExtBytes(head) \in {0, 2, 8}
  BY Zenon DEF ExtBytes
<1>2. size \in Int /\ stage \in {"head", "ext", "mask", "data", "failed", "undefined"}
  BY DEF WsTypes
<1>3. /\ stage = "head" => Wanted = 2
      /\ stage = "ext" => Wanted = ExtBytes(head)
      /\ stage = "mask" => Wanted = 4
      /\ stage = "data" => Wanted = size
      /\ stage \in {"failed", "undefined"} => Wanted = 0
  BY <1>2 DEF Wanted
<1>4. 2 \in Int /\ 4 \in Int /\ 0 \in Int /\ ExtBytes(head) \in Int
  BY <1>1
<1> QED BY <1>1, <1>2, <1>3, <1>4

\* recv_msg got what it asked for, or something.
LEMMA FillFacts ==
  ASSUME WsTypes, Fill
  PROVE  /\ Taken \in 0 .. Len(socket)
         /\ Wanted \in Nat => Taken = Wanted
         /\ Filled \in Seq(ByteRange) /\ Len(Filled) = Taken
         /\ socket' \in Seq(ByteRange)
         /\ UNCHANGED <<sender, flight, broken>>
<1>1. /\ Len(socket) \in Nat /\ Wanted <= Len(socket) /\ socket \in Seq(ByteRange)
      /\ socket' = SubSeq(socket, Taken + 1, Len(socket))
      /\ UNCHANGED <<sender, flight, broken>>
  BY LenProperties DEF Fill, WsTypes
<1>2. Taken \in 0 .. Len(socket) /\ (Wanted \in Nat => Taken = Wanted)
  BY <1>1, WantedFacts DEF Taken
<1> DEFINE w == Taken
<1>3. w \in Nat /\ w <= Len(socket) /\ Filled = SubSeq(socket, 0 + 1, w)
  BY <1>1, <1>2 DEF Filled
<1> HIDE DEF w
<1>4. SubSeq(socket, 0 + 1, w) \in Seq(ByteRange) /\ Len(SubSeq(socket, 0 + 1, w)) = w - 0
  <2>1. 0 \in Nat /\ 0 <= w
    BY <1>3
  <2> QED BY <1>1, <1>3, <2>1, Cut
<1>5. SubSeq(socket, w + 1, Len(socket)) \in Seq(ByteRange)
  BY <1>1, <1>3, Cut
<1>6. w - 0 = w
  BY <1>3
<1> QED BY <1>1, <1>2, <1>3, <1>4, <1>5, <1>6 DEF w

\* The packet has bytes, and behind them nothing if its size is not below 0.
LEMMA BodyFacts ==
  ASSUME WsTypes, Fill
  PROVE  /\ Mask(Filled, key) \in Seq(ByteRange)
         /\ Body \in Packet
         /\ size >= 0 => Body = Mask(Filled, key)
         /\ size < 0 => Body = Append(Mask(Filled, key), Stale)
<1>1. Mask(Filled, key) \in Seq(ByteRange)
  BY FillFacts, MaskTwice DEF WsTypes
<1> DEFINE m == Mask(Filled, key)
<1> HIDE DEF m
<1>2. m \in Packet /\ Append(m, Stale) \in Packet
  <2>1. m \in Seq(ByteRange)
    BY <1>1 DEF m
  <2>2. m \in Seq(ByteRange \cup {Stale})
    BY <2>1, SeqLarger
  <2>3. Append(m, Stale) \in Seq(ByteRange \cup {Stale})
    BY <2>2, AppendProperties
  <2> QED BY <2>2, <2>3 DEF Packet
<1>3. Body = IF size < 0 THEN Append(m, Stale) ELSE m
  BY DEF Body, m
<1>4. size \in Int
  BY DEF WsTypes
<1> QED BY <1>1, <1>2, <1>3, <1>4 DEF m

\* The number that some bytes stand for; only eight of them are one below 0.
LEMMA FromBigEndianType ==
  ASSUME NEW t \in Seq(ByteRange), Len(t) \in {2, 8}
  PROVE  FromBigEndian(t) \in Int /\ (Len(t) = 2 => FromBigEndian(t) \in Nat)
<1>1. \A i \in 1 .. Len(t) : t[i] \in Nat
  <2>1. ByteRange \subseteq Nat
    BY DEF ByteRange
  <2>2. \A i \in 1 .. Len(t) : t[i] \in ByteRange
    BY ElementOfSeq
  <2> QED BY <2>1, <2>2
<1>2. CASE Len(t) = 2
  <2>1. t[1] \in Nat /\ t[2] \in Nat
    BY <1>1, <1>2
  <2>2. FromBigEndian(t) = 256 * t[1] + t[2]
    BY <1>2 DEF FromBigEndian
  <2> QED BY <2>1, <2>2
<1>3. CASE Len(t) = 8
  <2>1. t[5] \in Nat /\ t[6] \in Nat /\ t[7] \in Nat /\ t[8] \in Nat
    BY <1>1, <1>3
  <2> DEFINE a == IF t[5] >= TopBit THEN t[5] - 256 ELSE t[5]
  <2>2. a \in Int
    BY <2>1 DEF TopBit
  <2>3. FromBigEndian(t) = 65536 * (256 * a + t[6]) + (256 * t[7] + t[8])
    BY <1>3 DEF FromBigEndian
  <2> HIDE DEF a
  <2> QED BY <1>3, <2>1, <2>2, <2>3
<1> QED BY <1>2, <1>3

\* The steps keep the types; first those of the senders and of the network.
LEMMA TypesSend ==
  ASSUME WsTypes, NEW s \in Senders, Send(s) \/ SendFrame(s) \/ SendFail(s)
  PROVE  WsTypes'
<1>1. frames \in [Senders -> Seq(Frame)] /\ begun \in [Senders -> Nat]
  BY DEF WsTypes
<1>2. CASE Send(s)
  <2> DEFINE m == script[s][begun[s] + 1]
  <2>1. /\ begun[s] < Len(script[s]) /\ begun' = [begun EXCEPT ![s] = @ + 1]
        /\ frames' = [frames EXCEPT ![s] = FramesOf(m)]
        /\ UNCHANGED <<script, sent, net, receiver>>
    BY <1>2, Zenon DEF Send, FramesOf
  <2>2. FramesOf(m) \in Seq(Frame)
    BY <2>1, NextMessage, FramesOfMessage
  <2> HIDE DEF m
  <2>3. begun' \in [Senders -> Nat] /\ frames' \in [Senders -> Seq(Frame)]
    BY <1>1, <2>1, <2>2
  <2> QED BY <2>1, <2>3 DEF WsTypes, net, receiver
<1>3. CASE SendFrame(s)
  <2> DEFINE f == Head(frames[s])
  <2>1. PICK k \in IF f.masked THEN Keys ELSE {<<>>} :
          flight' = Append(flight, CreateSinglePacket(f.data, f.type, f.fin, k))
    BY <1>3 DEF SendFrame
  <2>2. /\ frames[s] # <<>> /\ sent' = Append(sent, f)
        /\ frames' = [frames EXCEPT ![s] = Tail(@)]
        /\ UNCHANGED <<script, begun, socket, broken, receiver>>
    BY <1>3 DEF SendFrame
  <2>3. /\ f \in Frame /\ Tail(frames[s]) \in Seq(Frame)
        /\ CreateSinglePacket(f.data, f.type, f.fin, k) \in Seq(ByteRange)
    BY <2>2, NextFrame
  <2> HIDE DEF f
  <2>4. flight' \in Seq(Seq(ByteRange)) /\ sent' \in Seq(Frame)
    BY <2>1, <2>2, <2>3, AppendProperties DEF WsTypes
  <2>5. frames' \in [Senders -> Seq(Frame)]
    BY <1>1, <2>2, <2>3
  <2> QED BY <2>2, <2>4, <2>5 DEF WsTypes, receiver
<1>4. CASE SendFail(s)
  <2>1. /\ frames' = [frames EXCEPT ![s] = <<>>]
        /\ UNCHANGED <<script, begun, sent, net, receiver>>
    BY <1>4 DEF SendFail
  <2>2. frames' \in [Senders -> Seq(Frame)]
    BY <1>1, <2>1
  <2> QED BY <2>1, <2>2 DEF WsTypes, net, receiver
<1> QED BY <1>2, <1>3, <1>4

LEMMA TypesNet ==
  ASSUME WsTypes, Break \/ Arrival
  PROVE  WsTypes'
<1>1. flight \in Seq(Seq(ByteRange)) /\ socket \in Seq(ByteRange) /\ Len(flight) \in Nat
  BY LenProperties DEF WsTypes
<1>2. CASE Break
  <2>1. PICK n \in 0 .. Len(flight) : flight' = SubSeq(flight, 1, n)
    BY <1>2 DEF Break
  <2>2. broken' = TRUE /\ UNCHANGED <<sender, socket, receiver>>
    BY <1>2 DEF Break
  <2>3. flight' \in Seq(Seq(ByteRange))
    <3>1. n \in Nat /\ 0 \in Nat /\ 0 <= n /\ n <= Len(flight) /\ 0 + 1 = 1
      BY <1>1
    <3>2. SubSeq(flight, 0 + 1, n) \in Seq(Seq(ByteRange))
      BY <1>1, <3>1, Cut
    <3> QED BY <2>1, <3>1, <3>2
  <2> QED BY <2>2, <2>3 DEF WsTypes, sender, receiver
<1>3. CASE Arrival
  <2>1. PICK n \in 1 .. Len(Head(flight)) : Arrive(n)
    BY <1>3 DEF Arrival
  <2> DEFINE h == Head(flight)
             rest == SubSeq(h, n + 1, Len(h))
  <2>2. /\ flight # <<>> /\ n <= Len(h)
        /\ flight' = IF rest = <<>> THEN Tail(flight) ELSE <<rest>> \o Tail(flight)
        /\ socket' = socket \o SubSeq(h, 1, n)
        /\ UNCHANGED <<sender, broken, receiver>>
    BY <2>1 DEF Arrive
  <2>3. h \in Seq(ByteRange) /\ Tail(flight) \in Seq(Seq(ByteRange)) /\ Len(h) \in Nat
    <3>1. h \in Seq(ByteRange) /\ Tail(flight) \in Seq(Seq(ByteRange))
      BY <1>1, <2>2, HeadTailProperties
    <3> QED BY <3>1, LenProperties
  <2>4. n \in Nat /\ 0 \in Nat /\ 0 <= n /\ n <= Len(h) /\ Len(h) <= Len(h) /\ 0 + 1 = 1
    BY <2>2, <2>3
  <2> HIDE DEF h
  <2>5. SubSeq(h, 0 + 1, n) \in Seq(ByteRange) /\ rest \in Seq(ByteRange)
    BY <2>3, <2>4, Cut
  <2>6. socket' \in Seq(ByteRange)
    BY <1>1, <2>2, <2>4, <2>5, ConcatProperties
  <2> HIDE DEF rest
  <2>7. <<rest>> \o Tail(flight) \in Seq(Seq(ByteRange))
    BY <2>3, <2>5, Prepend
  <2>8. flight' \in Seq(Seq(ByteRange))
    BY <2>2, <2>3, <2>7
  <2> QED BY <2>2, <2>6, <2>8 DEF WsTypes, sender, receiver
<1> QED BY <1>2, <1>3

LEMMA TypesReceive ==
  ASSUME WsTypes, Receive
  PROVE  WsTypes'
<1>1. socket \in Seq(ByteRange) /\ ExtBytes(head) \in {0, 2, 8}
  BY WantedFacts DEF WsTypes
<1>2. CASE ShortRead
  <2>1. socket' = <<>> /\ UNCHANGED <<sender, flight, broken, receiver>>
    BY <1>2 DEF ShortRead
  <2> QED BY <2>1 DEF WsTypes, sender, receiver
<1>3. CASE RecvFail
  <2>1. stage' = "failed" /\ UNCHANGED <<sender, net, head, size, beyond, key, results, pongs>>
    BY <1>3 DEF RecvFail
  <2> QED BY <2>1 DEF WsTypes, sender, net
<1>4. CASE ReadHead
  <2>1. /\ stage = "head" /\ Fill /\ head' = Filled /\ size' = LenBits(Filled) /\ key' = <<>>
        /\ beyond' = FALSE
        /\ (ExtBytes(Filled) > 0 /\ stage' = "ext") \/ stage' = "mask" \/ stage' = "data"
        /\ UNCHANGED <<results, pongs>>
    BY <1>4, Zenon DEF ReadHead, AfterLength
  <2>2. /\ Filled \in Seq(ByteRange) /\ Len(Filled) = 2 /\ socket' \in Seq(ByteRange)
        /\ UNCHANGED <<sender, flight, broken>>
    BY <1>1, <2>1, FillFacts, WantedFacts
  <2>3. Filled \in ByteRange \X ByteRange
    <3>1. Filled = <<Filled[1], Filled[2]>> /\ Filled[1] \in ByteRange /\ Filled[2] \in ByteRange
      BY <2>2
    <3> QED BY <3>1
  <2>4. LenBits(Filled) \in Nat
    <3>1. Filled[2] \in Nat
      BY <2>3 DEF ByteRange
    <3> QED BY <3>1 DEF LenBits, TopBit
  <2>5. ExtBytes(Filled) > 0 => ExtBytes(Filled) # 0
    <3>1. ExtBytes(Filled) \in {0, 2, 8}
      BY Zenon DEF ExtBytes
    <3> QED BY <3>1
  <2>6. size' \in Int /\ ~(size' < 0)
    BY <2>1, <2>4
  <2>7. beyond' \in BOOLEAN /\ ~beyond'
    BY <2>1
  <2>8. head' \in ByteRange \X ByteRange /\ key' = <<>>
        /\ stage' \in {"ext", "mask", "data"}
    BY <2>1, <2>3
  <2> QED BY <2>1, <2>2, <2>6, <2>7, <2>8 DEF WsTypes, sender, Masks
<1>5. CASE ReadExt
  <2>1. /\ stage = "ext" /\ Fill /\ size' = FromBigEndian(Filled)
        /\ beyond' = Beyond(Filled)
        /\ (stage' = "mask" \/ stage' = "data")
        /\ UNCHANGED <<head, key, results, pongs>>
    BY <1>5, Zenon DEF ReadExt, AfterLength
  <2>2. /\ Filled \in Seq(ByteRange) /\ Len(Filled) \in {2, 8} /\ socket' \in Seq(ByteRange)
        /\ UNCHANGED <<sender, flight, broken>>
    <3>1. ExtBytes(head) \in {2, 8}
      BY <1>1, <2>1 DEF WsTypes
    <3> QED BY <1>1, <2>1, <3>1, FillFacts, WantedFacts
  <2>3. FromBigEndian(Filled) \in Int /\ Beyond(Filled) \in BOOLEAN
    BY <2>2, FromBigEndianType DEF Beyond
  <2>4. size' < 0 \/ beyond' => ExtBytes(head') = 8
    <3>1. ExtBytes(head) \in {2, 8} /\ Len(Filled) = ExtBytes(head)
      BY <1>1, <2>1, FillFacts, WantedFacts DEF WsTypes
    <3>2. CASE ExtBytes(head) = 2
      <4>1. Len(Filled) = 2 /\ FromBigEndian(Filled) \in Nat
        BY <2>2, <3>1, <3>2, FromBigEndianType
      <4>2. ~Beyond(Filled)
        BY <4>1 DEF Beyond
      <4> QED BY <2>1, <4>1, <4>2
    <3>3. CASE ExtBytes(head) = 8
      BY <2>1, <3>3
    <3> QED BY <3>1, <3>2, <3>3
  <2> QED BY <2>1, <2>2, <2>3, <2>4 DEF WsTypes, sender
<1>6. CASE ReadMask
  <2>1. stage = "mask" /\ Fill /\ key' = Filled /\ stage' = "data"
        /\ UNCHANGED <<head, size, beyond, results, pongs>>
    BY <1>6 DEF ReadMask
  <2>2. /\ Filled \in Seq(ByteRange) /\ Len(Filled) = 4 /\ socket' \in Seq(ByteRange)
        /\ UNCHANGED <<sender, flight, broken>>
    BY <1>1, <2>1, FillFacts, WantedFacts
  <2>3. Filled \in Masks
    <3> DEFINE f == Filled
    <3> HIDE DEF f
    <3>1. f \in [1 .. 4 -> ByteRange]
      <4>1. f \in Seq(ByteRange) /\ Len(f) = 4
        BY <2>2 DEF f
      <4>2. f \in [1 .. Len(f) -> ByteRange]
        BY <4>1, LenProperties, ElementOfSeq
      <4> QED BY <4>1, <4>2
    <3> QED BY <3>1 DEF Masks, f
  <2> QED BY <2>1, <2>2, <2>3 DEF WsTypes, sender
<1>7. CASE ReadData
  <2> DEFINE op == head[1] % 16
             body == Body
             r == [type |-> op, last |-> head[1] >= TopBit, body |-> body]
  <2>1. /\ stage = "data" /\ Fill /\ stage' \in {"head", "failed", "undefined"}
        /\ UNCHANGED <<head, size, beyond, key>>
        /\ pongs' = pongs \/ pongs' = Append(pongs, body)
        /\ results' = results \/ results' = Append(results, r)
    BY <1>7, Zenon DEF ReadData
  <2>2. /\ Filled \in Seq(ByteRange) /\ socket' \in Seq(ByteRange)
        /\ UNCHANGED <<sender, flight, broken>>
    BY <1>1, <2>1, FillFacts
  <2>3. body \in Packet
    BY <2>1, BodyFacts
  <2>4. op \in OpCodes
    <3>1. ByteRange \subseteq Nat
      BY DEF ByteRange
    <3>2. head \in ByteRange \X ByteRange
      BY DEF WsTypes
    <3>3. head[1] \in Nat
      BY <3>1, <3>2
    <3> QED BY <3>3 DEF OpCodes
  <2> HIDE DEF body, op
  <2>5. r \in [type : OpCodes, last : BOOLEAN, body : Packet]
    BY <2>3, <2>4
  <2> HIDE DEF r
  <2>6. pongs' \in Seq(Packet)
    <3>1. pongs \in Seq(Packet)
      BY DEF WsTypes
    <3> QED BY <2>1, <2>3, <3>1, AppendProperties, SMTT(30)
  <2>7. results' \in Seq([type : OpCodes, last : BOOLEAN, body : Packet])
    <3> DEFINE R == [type : OpCodes, last : BOOLEAN, body : Packet]
    <3>1. results \in Seq(R) /\ r \in R
      BY <2>5 DEF WsTypes
    <3> HIDE DEF R
    <3>2. results' \in Seq(R)
      BY <2>1, <3>1, AppendProperties
    <3> QED BY <3>2 DEF R
  <2> QED BY <2>1, <2>2, <2>6, <2>7 DEF WsTypes, sender
<1> QED BY <1>2, <1>3, <1>4, <1>5, <1>6, <1>7 DEF Receive

\* Types, initially and after every step.
LEMMA TypesInit == Init => WsTypes
<1>1. <<0, 0>> \in ByteRange \X ByteRange /\ 0 \in Int /\ FALSE \in BOOLEAN
  BY DEF ByteRange
<1>2. \A S : <<>> \in Seq(S)
  OBVIOUS
<1> SUFFICES ASSUME Init PROVE WsTypes
  OBVIOUS
<1>4. begun \in [Senders -> Nat] /\ frames \in [Senders -> Seq(Frame)]
  BY <1>2 DEF Init
<1>5. /\ size \in Int /\ beyond \in BOOLEAN /\ key \in Masks
      /\ stage \in {"head", "ext", "mask", "data", "failed", "undefined"}
      /\ stage # "ext" /\ head \in ByteRange \X ByteRange
  BY <1>1 DEF Init, Masks
<1>6. /\ sent \in Seq(Frame) /\ flight \in Seq(Seq(ByteRange)) /\ socket \in Seq(ByteRange)
      /\ results \in Seq([type : OpCodes, last : BOOLEAN, body : Packet])
      /\ pongs \in Seq(Packet) /\ script \in Scripts /\ broken \in BOOLEAN
  BY <1>2 DEF Init
<1>7. size < 0 \/ beyond => ExtBytes(head) = 8
  <2>1. size = 0 /\ beyond = FALSE
    BY DEF Init
  <2>2. ~(size < 0) /\ ~beyond
    BY <2>1
  <2> QED BY <2>2
<1> QED BY <1>4, <1>5, <1>6, <1>7, Zenon DEF WsTypes

LEMMA TypesNext == WsTypes /\ [Next]_vars => WsTypes'
<1> SUFFICES ASSUME WsTypes, [Next]_vars
             PROVE  WsTypes'
  OBVIOUS
<1>1. CASE UNCHANGED vars \/ Ended
  BY <1>1 DEF Ended, vars, sender, net, receiver, WsTypes
<1>2. CASE Sending
  BY <1>2, TypesSend DEF Sending
<1>3. CASE Break \/ Arrival
  BY <1>3, TypesNet
<1>4. CASE Receive
  BY <1>4, TypesReceive
<1> QED BY <1>1, <1>2, <1>3, <1>4 DEF Next

\* The connection keeps its types, whatever is sent and however the bytes arrive:
\* so recv_ws, which may take data for a header when frames arrive in pieces,
\* still reads bytes, sizes and masks that are ones.
THEOREM WsTypeCorrect == Spec => []TypeOK
<1>1. WsTypes => TypeOK
  <2>1. Frame \subseteq [type : OpCodes, fin : BOOLEAN, masked : BOOLEAN, data : Seq(ByteRange)]
    BY DEF Frame
  <2>2. sent \in Seq(Frame)
          => sent \in Seq([type : OpCodes, fin : BOOLEAN, masked : BOOLEAN, data : Seq(ByteRange)])
    BY <2>1, SeqLarger
  <2> QED BY <2>2 DEF WsTypes, TypeOK, Masks
<1> QED BY <1>1, TypesInit, TypesNext, PTL DEF Spec
-----------------------------------------------------------------------------
(* Whole frames. *)

\* What recv_ws returns for each frame, and what it answers to a ping.
AsResults(fs) == [i \in DOMAIN fs |-> [type |-> fs[i].type, last |-> fs[i].fin,
                                       body |-> fs[i].data]]
Payloads(fs)  == [i \in DOMAIN fs |-> fs[i].data]

Pings == {WS_OP_CODE_PING}

\* recv_ws has read r frames and the first bytes of the next one, up to byte c of the
\* connection: those that its stage says, and with them the header, size and mask.
Reading(K, F, B, a, c, r) ==
  /\ stage = "head" => c = B[r + 1]
  /\ stage \in {"ext", "mask", "data"} => r < a /\ head = FirstTwo(F[r + 1])
  /\ stage = "ext" => c = B[r + 1] + 2 /\ key = <<>>
  /\ stage = "mask" => /\ c = B[r + 1] + (2 + ExtBytes(head))
                       /\ size = Len(sent[r + 1].data) /\ K[r + 1] # <<>> /\ ~beyond
  /\ stage = "data" => /\ c = B[r + 1] + (2 + ExtBytes(head) + Len(K[r + 1]))
                       /\ size = Len(sent[r + 1].data) /\ key = K[r + 1] /\ ~beyond

\* The first a frames have arrived, r are read, with the pings among the first q
\* answered; the frames behind a are in flight, if they are not lost.
WholeAt(K, F, B, a, c, r, q) ==
  /\ Layout(sent, K, F, B)
  /\ InFlight(flight, F, a, broken)
  /\ r <= a
  /\ stage # "undefined"
  /\ stage # "failed" => Arrived(socket, F, B, a, c) /\ Reading(K, F, B, a, c, r)
  /\ q <= r /\ (~broken => q = r)
  /\ Listed(results, sent, AsResults(sent), r, Returned)
  /\ Listed(pongs, sent, Payloads(sent), q, Pings)

\* The inductive invariant for frames that arrive whole.
WholeInv ==
  Whole => \E K, F, B : \E a, c, r, q \in Nat : WholeAt(K, F, B, a, c, r, q)

\* Initially nothing is sent.
LEMMA WholeInit == Init => WholeInv
<1> SUFFICES ASSUME Init
             PROVE  WholeAt(<<>>, <<>>, <<0>>, 0, 0, 0, 0)
  BY DEF WholeInv
<1>1. /\ sent = <<>> /\ flight = <<>> /\ socket = <<>> /\ stage = "head"
      /\ results = <<>> /\ pongs = <<>>
  BY DEF Init
<1>2. \A S : <<>> \in Seq(S) /\ Len(<<>>) = 0 /\ <<0>> \in Seq(Nat) /\ Len(<<0>>) = 1 /\ <<0>>[1] = 0
  OBVIOUS
<1>3. Layout(<<>>, <<>>, <<>>, <<0>>)
  <2>1. (\A i \in 1 .. 0 : FALSE) /\ \A i \in 1 .. 0 + 1 : i = 1
    OBVIOUS
  <2>2. \A i, j \in 1 .. 0 + 1 : i <= j => <<0>>[i] <= <<0>>[j]
    BY <1>2, <2>1
  <2> QED BY <1>2, <2>1, <2>2 DEF Layout
<1>4. InFlight(<<>>, <<>>, 0, broken)
  BY <1>2 DEF InFlight
<1>5. Arrived(<<>>, <<>>, <<0>>, 0, 0)
  BY <1>2 DEF Arrived
<1>6. Reading(<<>>, <<>>, <<0>>, 0, 0, 0)
  BY <1>1, <1>2 DEF Reading
<1> QED BY <1>1, <1>3, <1>4, <1>5, <1>6, ListedEmpty DEF WholeAt

\* A frame is sent.
LEMMA WholeSendFrame ==
  ASSUME WsTypes, NEW s \in Senders, SendFrame(s), NEW K, NEW F, NEW B,
         NEW a \in Nat, NEW c \in Nat, NEW r \in Nat, NEW q \in Nat
  PROVE  WholeAt(K, F, B, a, c, r, q) => \E L, G, C : WholeAt(L, G, C, a, c, r, q)'
<1>0. HAVE WholeAt(K, F, B, a, c, r, q)
<1> DEFINE f == Head(frames[s])
           n == Len(sent)
<1>1. PICK k \in IF f.masked THEN Keys ELSE {<<>>} :
        flight' = Append(flight, CreateSinglePacket(f.data, f.type, f.fin, k))
  BY DEF SendFrame
<1> DEFINE p == CreateSinglePacket(f.data, f.type, f.fin, k)
<1>2. /\ frames[s] # <<>> /\ sent' = Append(sent, f) /\ ~broken /\ flight' = Append(flight, p)
      /\ UNCHANGED <<script, socket, broken, receiver>>
  BY <1>1 DEF SendFrame
<1>3. /\ f \in Frame /\ k \in Masks /\ p \in Seq(ByteRange)
      /\ IsFrame(p, f.data, f.type, f.fin, k)
  BY <1>2, NextFrame
<1> HIDE DEF p, f
<1>4. Layout(sent, K, F, B)
  BY <1>0 DEF WholeAt
<1>5. PICK L, G, C :
        /\ Layout(sent', L, G, C)
        /\ \A i \in 1 .. n : sent'[i] = sent[i] /\ L[i] = K[i] /\ G[i] = F[i]
        /\ \A i \in 1 .. n + 1 : C[i] = B[i]
        /\ G[n + 1] = p
  <2> DEFINE L == Append(K, k)
             G == Append(F, p)
             C == Append(B, B[Len(B)] + Len(p))
  <2>1. /\ Layout(Append(sent, f), L, G, C) /\ G[Len(sent) + 1] = p
        /\ Agree(Append(sent, f), sent, Len(sent)) /\ Agree(L, K, Len(sent))
        /\ Agree(G, F, Len(sent)) /\ Agree(C, B, Len(sent) + 1)
    <3>1. Layout(sent, K, F, B)
      BY <1>4
    <3>2. f \in Frame
      BY <1>3
    <3>3. k \in Masks
      BY <1>3
    <3>4. p \in Seq(ByteRange)
      BY <1>3
    <3>5. IsFrame(p, f.data, f.type, f.fin, k)
      BY <1>3
    <3>6. Layout(Append(sent, f), L, G, C)
      BY <3>1, <3>2, <3>3, <3>4, <3>5, LayoutAppend, Zenon
    <3>7. Agree(Append(sent, f), sent, Len(sent)) /\ Agree(L, K, Len(sent))
      BY <3>1, <3>2, <3>3, <3>4, <3>5, LayoutAppend, Zenon
    <3>8. Agree(G, F, Len(sent)) /\ Agree(C, B, Len(sent) + 1)
      BY <3>1, <3>2, <3>3, <3>4, <3>5, LayoutAppend, Zenon
    <3>9. Len(F) = Len(sent) /\ F \in Seq(Seq(ByteRange))
      BY <3>1 DEF Layout
    <3>10. G[Len(sent) + 1] = p
      BY <3>4, <3>9, AppendProperties
    <3> QED BY <3>6, <3>7, <3>8, <3>10
  <2> HIDE DEF L, G, C
  <2> WITNESS L, G, C
  <2> QED BY <1>2, <2>1, Zenon DEF Agree
<1>6. /\ n \in Nat /\ Len(F) = n /\ Len(G) = n + 1
      /\ flight \in Seq(Seq(ByteRange)) /\ Len(flight) \in Nat
      /\ sent \in Seq(Frame) /\ sent' \in Seq(Frame) /\ Len(sent') = n + 1
  <2>1. flight \in Seq(Seq(ByteRange)) /\ sent \in Seq(Frame)
    BY DEF WsTypes
  <2>2. n \in Nat /\ Len(F) = n /\ Len(G) = Len(sent')
    BY <1>4, <1>5, LayoutFacts
  <2>3. sent' \in Seq(Frame) /\ Len(sent') = n + 1
    BY <1>2, <1>3, <2>1, AppendProperties
  <2> QED BY <2>1, <2>2, <2>3, LenProperties
<1> HIDE DEF n
<1>7. /\ a + Len(flight) = n /\ r <= a /\ q = r /\ stage' # "undefined"
      /\ \A i \in 1 .. Len(flight) : flight[i] = F[a + i]
  BY <1>0, <1>2, <1>6 DEF WholeAt, InFlight, receiver
<1>8. InFlight(flight', G, a, broken')
  <2>1. /\ Len(flight') = Len(flight) + 1 /\ flight'[Len(flight) + 1] = p
        /\ \A i \in 1 .. Len(flight) : flight'[i] = flight[i]
    BY <1>2, <1>3, <1>6, AppendProperties
  <2>2. ASSUME NEW i \in 1 .. Len(flight')
        PROVE  flight'[i] = G[a + i]
    <3>1. CASE i = Len(flight) + 1
      <4>1. a + i = n + 1
        <5>1. a + Len(flight) = n /\ Len(flight) \in Nat /\ n \in Nat
          BY <1>6, <1>7
        <5> QED BY <3>1, <5>1
      <4> QED BY <1>5, <2>1, <3>1, <4>1
    <3>2. CASE i \in 1 .. Len(flight)
      <4>1. a + i \in 1 .. n
        BY <1>6, <1>7, <3>2
      <4> QED BY <1>5, <1>7, <2>1, <3>2, <4>1
    <3>3. i = Len(flight) + 1 \/ i \in 1 .. Len(flight)
      BY <1>6, <2>1
    <3> QED BY <3>1, <3>2, <3>3
  <2>3. a + Len(flight') = n + 1
    BY <1>6, <1>7, <2>1
  <2> QED BY <1>6, <2>2, <2>3 DEF InFlight
<1>9. a <= n /\ r <= n /\ a + 1 \in 1 .. n + 1 /\ r + 1 \in 1 .. n + 1
      /\ (r < a => r + 1 \in 1 .. n)
  BY <1>6, <1>7
<1>10. ASSUME stage' # "failed"
       PROVE  Arrived(socket', G, C, a, c) /\ Reading(L, G, C, a, c, r)'
  <2>1. UNCHANGED <<socket, stage, head, size, beyond, key>>
    BY <1>2 DEF receiver
  <2>2. Arrived(socket, F, B, a, c) /\ Reading(K, F, B, a, c, r)
    BY <1>0, <1>10, <2>1 DEF WholeAt
  <2>3. Arrived(socket, G, C, a, c)
    <3>1. \A i \in 1 .. a : i \in 1 .. n /\ i \in 1 .. n + 1
      BY <1>6, <1>9
    <3>2. \A i \in 1 .. a : G[i] = F[i] /\ C[i] = B[i]
      BY <1>5, <3>1
    <3>3. C[a + 1] = B[a + 1]
      BY <1>5, <1>9
    <3>4. a <= Len(G)
      BY <1>6, <1>9
    <3>5. /\ socket \in Seq(ByteRange) /\ c + Len(socket) = B[a + 1]
          /\ \A i \in 1 .. a : \A j \in 1 .. Len(F[i]) :
               B[i] + j > c => socket[B[i] + j - c] = F[i][j]
      BY <2>2 DEF Arrived
    <3>6. ASSUME NEW i \in 1 .. a, NEW j \in 1 .. Len(G[i])
          PROVE  C[i] + j > c => socket[C[i] + j - c] = G[i][j]
      <4>1. G[i] = F[i] /\ C[i] = B[i]
        BY <3>2
      <4>2. B[i] + j > c => socket[B[i] + j - c] = F[i][j]
        BY <3>5, <4>1
      <4> QED BY <4>1, <4>2
    <3> QED BY <3>3, <3>4, <3>5, <3>6 DEF Arrived
  <2>4. C[r + 1] = B[r + 1]
    BY <1>5, <1>9
  <2>5. r < a => G[r + 1] = F[r + 1] /\ L[r + 1] = K[r + 1] /\ sent'[r + 1] = sent[r + 1]
    BY <1>5, <1>9
  <2>6. Reading(L, G, C, a, c, r)'
    BY <2>1, <2>2, <2>4, <2>5 DEF Reading
  <2> QED BY <2>1, <2>3, <2>6
<1>11. /\ Listed(results', sent', AsResults(sent'), r, Returned)
       /\ Listed(pongs', sent', Payloads(sent'), q, Pings)
  <2>1. results' = results /\ pongs' = pongs
    BY <1>2 DEF receiver
  <2>2. DOMAIN sent = 1 .. n /\ DOMAIN sent' = 1 .. n + 1
    BY <1>6, LenProperties DEF n
  <2>3. \A j \in 1 .. r : j \in 1 .. n /\ j \in 1 .. n + 1
    BY <1>6, <1>9
  <2>4. \A j \in 1 .. r : /\ sent[j] = sent'[j]
                          /\ AsResults(sent)[j] = AsResults(sent')[j]
                          /\ Payloads(sent)[j] = Payloads(sent')[j]
    BY <1>5, <2>2, <2>3 DEF AsResults, Payloads
  <2>5. /\ Listed(results, sent, AsResults(sent), r, Returned)
        /\ Listed(pongs, sent, Payloads(sent), r, Pings)
    BY <1>0, <1>7 DEF WholeAt
  <2> QED BY <1>7, <2>1, <2>4, <2>5, ListedAgree
<1>12. WholeAt(L, G, C, a, c, r, q)'
  BY <1>5, <1>7, <1>8, <1>10, <1>11 DEF WholeAt
<1> QED BY <1>12

\* The connection breaks: what arrived and was read stays.
LEMMA WholeBreak ==
  ASSUME WsTypes, Break, NEW K, NEW F, NEW B,
         NEW a \in Nat, NEW c \in Nat, NEW r \in Nat, NEW q \in Nat
  PROVE  WholeAt(K, F, B, a, c, r, q) => WholeAt(K, F, B, a, c, r, q)'
<1>0. HAVE WholeAt(K, F, B, a, c, r, q)
<1>1. /\ broken' = TRUE
      /\ UNCHANGED <<sent, socket, stage, head, size, beyond, key, results, pongs>>
  BY DEF Break, sender, receiver
<1>2. PICK n \in 0 .. Len(flight) : flight' = SubSeq(flight, 1, n)
  BY DEF Break
<1>3. flight \in Seq(Seq(ByteRange)) /\ Len(flight) \in Nat
  BY LenProperties DEF WsTypes
<1>4. Len(flight') = n /\ n \in Nat /\ n <= Len(flight) /\ \A i \in 1 .. n : flight'[i] = flight[i]
  <2>1. n \in Nat /\ 0 \in Nat /\ 0 <= n /\ n <= Len(flight) /\ 0 + 1 = 1
        /\ n - 0 = n /\ \A i \in 1 .. n : 0 + i = i
    BY <1>3
  <2>2. /\ Len(SubSeq(flight, 0 + 1, n)) = n - 0
        /\ \A i \in 1 .. n - 0 : SubSeq(flight, 0 + 1, n)[i] = flight[0 + i]
    BY <1>3, <2>1, Cut
  <2> QED BY <1>2, <2>1, <2>2
<1>5. Layout(sent, K, F, B) /\ InFlight(flight, F, a, broken)
  BY <1>0 DEF WholeAt
<1>6. Len(F) \in Nat
  BY <1>5, LayoutFacts
<1>7. InFlight(flight', F, a, TRUE)
  <2>1. a + Len(flight) <= Len(F) /\ \A i \in 1 .. Len(flight) : flight[i] = F[a + i]
    BY <1>5 DEF InFlight
  <2>2. a + Len(flight') <= Len(F) /\ \A i \in 1 .. Len(flight') : flight'[i] = F[a + i]
    <3>1. \A i \in 1 .. n : flight[i] = F[a + i]
      BY <1>3, <1>4, <2>1
    <3>2. a + n <= Len(F)
      BY <1>3, <1>4, <1>6, <2>1
    <3> QED BY <1>4, <3>1, <3>2
  <2> QED BY <2>2 DEF InFlight
<1>8. /\ r <= a /\ q <= r /\ stage # "undefined"
      /\ stage # "failed" => Arrived(socket, F, B, a, c) /\ Reading(K, F, B, a, c, r)
      /\ Listed(results, sent, AsResults(sent), r, Returned)
      /\ Listed(pongs, sent, Payloads(sent), q, Pings)
  BY <1>0 DEF WholeAt
<1>9. Reading(K, F, B, a, c, r) => Reading(K, F, B, a, c, r)'
  BY <1>1 DEF Reading
<1> QED BY <1>1, <1>5, <1>7, <1>8, <1>9 DEF WholeAt

\* A frame arrives; without pieces it is the oldest one in flight, whole.
LEMMA WholeArrival ==
  ASSUME WsTypes, Whole, Arrival, NEW K, NEW F, NEW B,
         NEW a \in Nat, NEW c \in Nat, NEW r \in Nat, NEW q \in Nat
  PROVE  WholeAt(K, F, B, a, c, r, q) => WholeAt(K, F, B, a + 1, c, r, q)'
<1>0. HAVE WholeAt(K, F, B, a, c, r, q)
<1>1. flight \in Seq(Seq(ByteRange)) /\ Len(flight) \in Nat
  BY LenProperties DEF WsTypes
<1>2. PICK n \in 1 .. Len(Head(flight)) : Arrive(n)
  BY DEF Arrival
<1> DEFINE h == Head(flight)
<1>3. /\ flight # <<>> /\ n = Len(h)
      /\ flight' = IF SubSeq(h, n + 1, Len(h)) = <<>> THEN Tail(flight)
                   ELSE <<SubSeq(h, n + 1, Len(h))>> \o Tail(flight)
      /\ socket' = socket \o SubSeq(h, 1, n)
      /\ UNCHANGED <<sent, broken, stage, head, size, beyond, key, results, pongs>>
  BY <1>2 DEF Arrive, Whole, sender, receiver
<1>4. /\ h \in Seq(ByteRange) /\ Len(h) \in Nat
      /\ h = flight[1] /\ Len(flight) >= 1
      /\ Len(Tail(flight)) = Len(flight) - 1
      /\ \A i \in 1 .. Len(Tail(flight)) : Tail(flight)[i] = flight[i + 1]
  <2>1. /\ h \in Seq(ByteRange) /\ Len(Tail(flight)) = Len(flight) - 1
        /\ \A i \in 1 .. Len(Tail(flight)) : Tail(flight)[i] = flight[i + 1]
    BY <1>1, <1>3, HeadTailProperties
  <2>2. Len(flight) >= 1 /\ h = flight[1]
    BY <1>1, <1>3
  <2>3. Len(h) \in Nat
    BY <2>1, LenProperties
  <2> QED BY <2>1, <2>2, <2>3
<1> HIDE DEF h
<1>5. SubSeq(h, 1, n) = h /\ SubSeq(h, n + 1, Len(h)) = <<>>
  BY <1>3, <1>4
<1>6. flight' = Tail(flight) /\ socket' = socket \o h
  BY <1>3, <1>5
<1>7. /\ Layout(sent, K, F, B) /\ InFlight(flight, F, a, broken)
      /\ r <= a /\ q <= r /\ (~broken => q = r) /\ stage # "undefined"
      /\ stage # "failed" => Arrived(socket, F, B, a, c) /\ Reading(K, F, B, a, c, r)
      /\ Listed(results, sent, AsResults(sent), r, Returned)
      /\ Listed(pongs, sent, Payloads(sent), q, Pings)
  BY <1>0 DEF WholeAt
<1>8. /\ Len(F) \in Nat /\ a + Len(flight) <= Len(F)
      /\ ~broken => a + Len(flight) = Len(F)
      /\ \A i \in 1 .. Len(flight) : flight[i] = F[a + i]
  BY <1>7, LayoutFacts DEF InFlight
<1>9. InFlight(flight', F, a + 1, broken')
  <2>1. a + 1 \in Nat /\ (a + 1) + Len(flight') = a + Len(flight)
    <3>1. Len(flight') = Len(flight) - 1
      BY <1>4, <1>6
    <3> DEFINE x == Len(flight')
               y == Len(flight)
    <3>2. x = y - 1 /\ y \in Nat
      BY <1>1, <3>1
    <3> HIDE DEF x, y
    <3>3. (a + 1) + x = a + y /\ a + 1 \in Nat
      BY <3>2
    <3> QED BY <3>3 DEF x, y
  <2>2. ASSUME NEW i \in 1 .. Len(flight')
        PROVE  flight'[i] = F[(a + 1) + i]
    <3>1. i + 1 \in 1 .. Len(flight) /\ a + (i + 1) = (a + 1) + i
      BY <1>1, <1>4, <1>6
    <3> QED BY <1>4, <1>6, <1>8, <3>1
  <2> QED BY <1>3, <1>8, <2>1, <2>2 DEF InFlight
<1>10. a + 1 <= Len(F) /\ h = F[a + 1]
  <2>1. 1 \in 1 .. Len(flight)
    BY <1>1, <1>4
  <2> QED BY <1>1, <1>4, <1>8, <2>1
<1>11. ASSUME stage # "failed"
       PROVE  Arrived(socket', F, B, a + 1, c) /\ Reading(K, F, B, a + 1, c, r)'
  <2>1. socket' = socket \o F[a + 1]
    BY <1>6, <1>10
  <2>2. Arrived(socket, F, B, a, c) => Arrived(socket', F, B, a + 1, c)
    BY <1>7, <1>10, <2>1, ArrivedMore
  <2>3. r < a => r < a + 1
    OBVIOUS
  <2>4. Reading(K, F, B, a, c, r) => Reading(K, F, B, a + 1, c, r)'
    BY <1>3, <2>3 DEF Reading
  <2> QED BY <1>7, <1>11, <2>2, <2>4
<1>12. r <= a + 1
  BY <1>7
<1> QED BY <1>3, <1>7, <1>9, <1>11, <1>12 DEF WholeAt

\* Frame r + 1, which is read.
LEMMA TheFrame ==
  ASSUME NEW K, NEW F, NEW B, Layout(sent, K, F, B), NEW r \in Nat, r + 1 <= Len(F)
  PROVE  LET f == sent[r + 1]
         IN /\ r + 1 \in 1 .. Len(sent) /\ DOMAIN sent = 1 .. Len(sent)
            /\ f \in Frame /\ K[r + 1] \in Masks
            /\ f.data \in Seq(ByteRange) /\ f.type \in OpCodes /\ f.fin \in BOOLEAN
            /\ Len(f.data) \in Nat /\ Len(K[r + 1]) \in Nat /\ (K[r + 1] = <<>> => Len(K[r + 1]) = 0)
            /\ (K[r + 1] # <<>> => Len(K[r + 1]) = 4)
            /\ IsFrame(F[r + 1], f.data, f.type, f.fin, K[r + 1])
            /\ B[r + 1] \in Nat /\ B[(r + 1) + 1] = B[r + 1] + Len(F[r + 1])
<1> DEFINE f == sent[r + 1]
<1>1. Len(sent) \in Nat /\ Len(F) = Len(sent) /\ sent \in Seq(Frame)
  BY LayoutFacts DEF Layout
<1>2. r + 1 \in 1 .. Len(sent) /\ r + 1 \in 1 .. Len(sent) + 1 /\ DOMAIN sent = 1 .. Len(sent)
  BY <1>1, LenProperties
<1>3. f \in Frame /\ K[r + 1] \in Masks /\ B[r + 1] \in Nat
  BY <1>2, LayoutFacts
<1>4. B[(r + 1) + 1] = B[r + 1] + Len(F[r + 1])
      /\ IsFrame(F[r + 1], f.data, f.type, f.fin, K[r + 1])
  BY <1>2 DEF Layout
<1>5. f.data \in Seq(ByteRange) /\ f.type \in OpCodes /\ f.fin \in BOOLEAN
  <2> HIDE DEF f
  <2> QED BY <1>3 DEF Frame
<1>6. Len(f.data) \in Nat
  BY <1>5, LenProperties
<1>7. /\ Len(K[r + 1]) \in Nat /\ (K[r + 1] = <<>> => Len(K[r + 1]) = 0)
      /\ (K[r + 1] # <<>> => Len(K[r + 1]) = 4)
  BY <1>3, MaskIsSeq
<1> QED BY <1>2, <1>3, <1>4, <1>5, <1>6, <1>7

\* What recv_msg is called for is a part of that frame.
LEMMA Offsets ==
  ASSUME WsTypes, NEW K, NEW F, NEW B, Layout(sent, K, F, B),
         NEW a \in Nat, NEW c \in Nat, NEW r \in Nat, r < a, a <= Len(F)
  PROVE  Reading(K, F, B, a, c, r) =>
           LET h == FirstTwo(F[r + 1])
           IN /\ stage # "failed" => Wanted \in Nat
              /\ stage = "head" => c = B[r + 1] + 0 /\ 0 + Wanted <= Len(F[r + 1])
              /\ stage = "ext" => c = B[r + 1] + 2 /\ 2 + Wanted <= Len(F[r + 1])
              /\ stage = "mask" => /\ c = B[r + 1] + (2 + ExtBytes(h))
                                   /\ (2 + ExtBytes(h)) + Wanted <= Len(F[r + 1])
              /\ stage = "data" =>
                   /\ c = B[r + 1] + (2 + ExtBytes(h) + Len(K[r + 1]))
                   /\ (2 + ExtBytes(h) + Len(K[r + 1])) + Wanted = Len(F[r + 1])
<1>0. HAVE Reading(K, F, B, a, c, r)
<1> DEFINE h == FirstTwo(F[r + 1])
           l == Len(F[r + 1])
           e == ExtBytes(h)
           k == Len(K[r + 1])
           d == Len(sent[r + 1].data)
           b == B[r + 1]
<1>1. r + 1 <= Len(F)
  <2>1. Len(F) \in Nat
    BY LayoutFacts
  <2> QED BY <2>1
<1>2. /\ IsFrame(F[r + 1], sent[r + 1].data, sent[r + 1].type, sent[r + 1].fin, K[r + 1])
      /\ k \in Nat /\ (K[r + 1] # <<>> => k = 4) /\ d \in Nat /\ b \in Nat
  BY <1>1, TheFrame
<1>3. e \in {0, 2, 8} /\ l = 2 + e + k + d
  BY <1>2 DEF IsFrame
<1>4. /\ stage = "head" => Wanted = 2
      /\ stage = "ext" => Wanted = ExtBytes(head)
      /\ stage = "mask" => Wanted = 4
      /\ stage = "data" => Wanted = size
  BY WantedFacts
<1>5. /\ stage = "head" => c = b
      /\ stage = "ext" => c = b + 2 /\ head = h
      /\ stage = "mask" => c = b + (2 + e) /\ K[r + 1] # <<>>
      /\ stage = "data" => c = b + (2 + e + k) /\ size = d
  BY <1>0 DEF Reading
<1> HIDE DEF h, l, k, d, b
<1>6. /\ stage = "ext" => Wanted = e
      /\ stage = "mask" => k = 4
      /\ stage = "data" => Wanted = d
  BY <1>2, <1>4, <1>5
<1> HIDE DEF e
<1>7. /\ stage = "head" => c = b + 0 /\ 0 + 2 <= l
      /\ stage = "ext" => 2 + e <= l
      /\ stage = "mask" => (2 + e) + 4 <= l
      /\ stage = "data" => (2 + e + k) + d = l
  BY <1>2, <1>3, <1>5, <1>6
<1>8. stage # "failed" => Wanted \in Nat
  <2>1. stage \in {"head", "ext", "mask", "data", "failed", "undefined"}
    BY DEF WsTypes
  <2>2. stage = "undefined" => Wanted = 0
    BY WantedFacts
  <2> QED BY <1>2, <1>3, <1>4, <1>6, <2>1, <2>2
<1> QED BY <1>4, <1>5, <1>6, <1>7, <1>8 DEF h, l, e, k, d, b

\* There are bytes only if a frame has arrived that is not read.
LEMMA FrameThere ==
  ASSUME WsTypes, NEW K, NEW F, NEW B, Layout(sent, K, F, B),
         NEW a \in Nat, NEW c \in Nat, NEW r \in Nat, r <= a, stage \notin {"failed", "undefined"},
         socket # <<>> \/ stage # "head"
  PROVE  Arrived(socket, F, B, a, c) /\ Reading(K, F, B, a, c, r) => r < a /\ a <= Len(F)
<1>0. HAVE Arrived(socket, F, B, a, c) /\ Reading(K, F, B, a, c, r)
<1>1. /\ a <= Len(F) /\ socket \in Seq(ByteRange)
      /\ c + Len(socket) = B[a + 1]
      /\ stage = "head" => c = B[r + 1]
      /\ stage \in {"ext", "mask", "data"} => r < a
  BY <1>0 DEF Arrived, Reading
<1>2. CASE stage = "head"
  <2>1. Len(socket) \in Nat /\ Len(socket) # 0
    BY <1>1, <1>2
  <2>2. r # a
    BY <1>1, <1>2, <2>1
  <2> QED BY <1>1, <2>2
<1>3. CASE stage # "head"
  BY <1>1, <1>3 DEF WsTypes
<1> QED BY <1>2, <1>3

\* recv_msg took its bytes, from o on in frame r + 1.
Took(F, B, a, c, r, o) ==
  /\ r < a /\ a <= Len(F)
  /\ Wanted \in Nat
  /\ Piece(Filled, F, r + 1, o, Wanted)
  /\ Arrived(socket', F, B, a, c + Wanted)

LEMMA WholeFill ==
  ASSUME WsTypes, Fill, NEW K, NEW F, NEW B, Layout(sent, K, F, B),
         NEW a \in Nat, NEW c \in Nat, NEW r \in Nat, r <= a, stage \notin {"failed", "undefined"}
  PROVE  Arrived(socket, F, B, a, c) /\ Reading(K, F, B, a, c, r) =>
           LET h == FirstTwo(F[r + 1])
           IN /\ stage = "head" => Took(F, B, a, c, r, 0)
              /\ stage = "ext" => Took(F, B, a, c, r, 2)
              /\ stage = "mask" => Took(F, B, a, c, r, 2 + ExtBytes(h))
              /\ stage = "data" => Took(F, B, a, c, r, 2 + ExtBytes(h) + Len(K[r + 1]))
<1>0. HAVE Arrived(socket, F, B, a, c) /\ Reading(K, F, B, a, c, r)
<1>1. /\ stage = "head" => Wanted = 2
      /\ Wanted <= Len(socket)
      /\ socket \in Seq(ByteRange) /\ Len(socket) \in Nat
      /\ socket' = SubSeq(socket, Taken + 1, Len(socket))
      /\ Wanted \in Nat => Taken = Wanted
  BY WantedFacts, FillFacts, LenProperties DEF Fill, WsTypes
<1>2. r < a /\ a <= Len(F)
  <2>1. ASSUME stage = "head"
        PROVE  socket # <<>>
    <3>1. 2 <= Len(socket)
      BY <1>1, <2>1
    <3> QED BY <3>1, Len(<<>>) = 0
  <2> QED BY <1>0, <2>1, FrameThere
<1>2a. Wanted \in Nat
  BY <1>0, <1>2, Offsets
<1> DEFINE w == Wanted
<1>3. Filled = SubSeq(socket, 1, w) /\ socket' = SubSeq(socket, w + 1, Len(socket)) /\ w \in Nat
  BY <1>1, <1>2a DEF Filled
<1>4. ASSUME NEW o \in Nat, c = B[r + 1] + o /\ o + Wanted <= Len(F[r + 1])
      PROVE  Took(F, B, a, c, r, o)
  <2>1. c = B[r + 1] + o /\ o + w <= Len(F[r + 1])
    BY <1>4
  <2> HIDE DEF w
  <2>2. Arrived(socket, F, B, a, c) /\ c = B[r + 1] + o /\ o + w <= Len(F[r + 1])
    BY <1>0, <2>1
  <2>3. w \in Nat
    BY <1>3
  <2>4. /\ Piece(SubSeq(socket, 1, w), F, r + 1, o, w)
        /\ Arrived(SubSeq(socket, w + 1, Len(socket)), F, B, a, c + w)
    BY <1>2, <2>2, <2>3, ArrivedTake
  <2> QED BY <1>2, <1>2a, <1>3, <2>4 DEF Took, w
<1> DEFINE e == ExtBytes(FirstTwo(F[r + 1]))
           k == Len(K[r + 1])
           l == Len(F[r + 1])
<1>5. e \in Nat /\ k \in Nat /\ l \in Nat
  <2>1. r + 1 <= Len(F)
    <3>1. Len(F) \in Nat
      BY LayoutFacts
    <3> QED BY <1>2, <3>1
  <2>2. /\ IsFrame(F[r + 1], sent[r + 1].data, sent[r + 1].type, sent[r + 1].fin, K[r + 1])
        /\ k \in Nat
    BY <2>1, TheFrame
  <2>3. e \in Nat /\ F[r + 1] \in Seq(ByteRange)
    BY <2>2 DEF IsFrame
  <2> QED BY <2>2, <2>3, LenProperties
<1>6. /\ stage = "head" => c = B[r + 1] + 0 /\ 0 + Wanted <= l
      /\ stage = "ext" => c = B[r + 1] + 2 /\ 2 + Wanted <= l
      /\ stage = "mask" => c = B[r + 1] + (2 + e) /\ (2 + e) + Wanted <= l
      /\ stage = "data" => c = B[r + 1] + (2 + e + k) /\ (2 + e + k) + Wanted = l
  BY <1>0, <1>2, Offsets
<1> HIDE DEF e, k, l
<1>7. 2 + e \in Nat /\ 2 + e + k \in Nat /\ ((2 + e + k) + Wanted = l => (2 + e + k) + Wanted <= l)
  BY <1>2a, <1>5
<1> QED BY <1>4, <1>6, <1>7 DEF e, k, l

\* So recv_msg never gets less than it asked for.
LEMMA WholeNotShort ==
  ASSUME WsTypes, ShortRead, NEW K, NEW F, NEW B,
         NEW a \in Nat, NEW c \in Nat, NEW r \in Nat, NEW q \in Nat
  PROVE  ~WholeAt(K, F, B, a, c, r, q)
<1> SUFFICES ASSUME TRUE
             PROVE  WholeAt(K, F, B, a, c, r, q) => FALSE
  OBVIOUS
<1>0. HAVE WholeAt(K, F, B, a, c, r, q)
<1>1. stage \notin {"failed", "undefined"} /\ socket # <<>> /\ Len(socket) < Wanted
  <2>1. socket # <<>> /\ Len(socket) < Wanted
    BY DEF ShortRead
  <2>2. Len(socket) \in Nat
    BY LenProperties DEF WsTypes
  <2>3. Wanted # 0
    BY <2>1, <2>2
  <2> QED BY <2>1, <2>3, WantedFacts
<1>2. Layout(sent, K, F, B) /\ r <= a
      /\ Arrived(socket, F, B, a, c) /\ Reading(K, F, B, a, c, r)
  BY <1>0, <1>1 DEF WholeAt
<1>3. r < a /\ a <= Len(F)
  BY <1>1, <1>2, FrameThere
<1>4. socket \in Seq(ByteRange) /\ Len(socket) \in Nat /\ Wanted \in Nat
  BY <1>1, <1>2, <1>3, Offsets, LenProperties DEF WsTypes
<1> DEFINE w == Wanted
<1>5. ASSUME NEW o \in Nat, c = B[r + 1] + o /\ o + w <= Len(F[r + 1])
      PROVE  FALSE
  <2>1. w \in Nat /\ Len(socket) < w
    BY <1>1, <1>4
  <2> HIDE DEF w
  <2>2. Arrived(socket, F, B, a, c) /\ c = B[r + 1] + o /\ o + w <= Len(F[r + 1])
    BY <1>2, <1>5
  <2>3. w <= Len(socket)
    BY <1>2, <1>3, <2>1, <2>2, ArrivedTake
  <2> QED BY <1>4, <2>1, <2>3
<1> DEFINE e == ExtBytes(FirstTwo(F[r + 1]))
           k == Len(K[r + 1])
           l == Len(F[r + 1])
<1>6. e \in Nat /\ k \in Nat /\ l \in Nat
  <2>1. r + 1 <= Len(F)
    <3>1. Len(F) \in Nat
      BY <1>2, LayoutFacts
    <3> QED BY <1>3, <3>1
  <2>2. /\ IsFrame(F[r + 1], sent[r + 1].data, sent[r + 1].type, sent[r + 1].fin, K[r + 1])
        /\ k \in Nat
    BY <1>2, <2>1, TheFrame
  <2>3. e \in Nat /\ F[r + 1] \in Seq(ByteRange)
    BY <2>2 DEF IsFrame
  <2> QED BY <2>2, <2>3, LenProperties
<1>7. /\ stage = "head" => c = B[r + 1] + 0 /\ 0 + Wanted <= l
      /\ stage = "ext" => c = B[r + 1] + 2 /\ 2 + Wanted <= l
      /\ stage = "mask" => c = B[r + 1] + (2 + e) /\ (2 + e) + Wanted <= l
      /\ stage = "data" => c = B[r + 1] + (2 + e + k) /\ (2 + e + k) + Wanted = l
  BY <1>2, <1>3, Offsets
<1> HIDE DEF e, k, l
<1>8. 2 + e \in Nat /\ 2 + e + k \in Nat /\ ((2 + e + k) + Wanted = l => (2 + e + k) + Wanted <= l)
  BY <1>4, <1>6
<1>9. stage \in {"head", "ext", "mask", "data"}
  BY <1>1 DEF WsTypes
<1> QED BY <1>5, <1>7, <1>8, <1>9 DEF l

\* Reading the header, the longer form of the length and the mask.
LEMMA WholeReadHeader ==
  ASSUME WsTypes, ReadHead \/ ReadExt \/ ReadMask, NEW K, NEW F, NEW B,
         NEW a \in Nat, NEW c \in Nat, NEW r \in Nat, NEW q \in Nat,
         NEW d, d = c + Wanted
  PROVE  WholeAt(K, F, B, a, c, r, q) => WholeAt(K, F, B, a, d, r, q)'
<1>0. HAVE WholeAt(K, F, B, a, c, r, q)
<1>1. /\ stage \in {"head", "ext", "mask"} /\ Fill
      /\ UNCHANGED <<sent, flight, broken, results, pongs>>
  BY DEF ReadHead, ReadExt, ReadMask, Fill, sender
<1>1a. stage' # "undefined"
  <2>1. AfterLength(Filled) \/ AfterLength(head) => stage' \in {"mask", "data"}
    BY DEF AfterLength
  <2> QED BY <2>1 DEF ReadHead, ReadExt, ReadMask
<1>2. Layout(sent, K, F, B) /\ r <= a
      /\ Arrived(socket, F, B, a, c) /\ Reading(K, F, B, a, c, r)
  BY <1>0, <1>1 DEF WholeAt
<1> DEFINE f == sent[r + 1]
           p == F[r + 1]
           k == K[r + 1]
           b == B[r + 1]
           h == FirstTwo(p)
<1>3. /\ stage = "head" => Took(F, B, a, c, r, 0)
      /\ stage = "ext" => Took(F, B, a, c, r, 2)
      /\ stage = "mask" => Took(F, B, a, c, r, 2 + ExtBytes(h))
  BY <1>1, <1>2, WholeFill
<1>4. r < a /\ a <= Len(F) /\ Arrived(socket', F, B, a, d) /\ Wanted \in Nat
  BY <1>1, <1>3 DEF Took
<1>5. /\ IsFrame(p, f.data, f.type, f.fin, k) /\ k \in Masks
      /\ Len(k) \in Nat /\ (k # <<>> => Len(k) = 4) /\ (k = <<>> => Len(k) = 0)
      /\ Len(f.data) \in Nat /\ b \in Nat
  <2>1. r + 1 <= Len(F)
    <3>1. Len(F) \in Nat
      BY <1>2, LayoutFacts
    <3> QED BY <1>4, <3>1
  <2> QED BY <1>2, <2>1, TheFrame
<1>6. /\ ExtBytes(h) \in {0, 2, 8} /\ (HasMask(h) <=> k # <<>>)
      /\ ExtBytes(h) = 0 => LenBits(h) = Len(f.data)
  BY <1>5 DEF IsFrame
<1>7. Reading(K, F, B, a, d, r)'
  <2>1. CASE ReadHead
    <3>1. /\ stage = "head" /\ head' = Filled /\ size' = LenBits(Filled) /\ key' = <<>>
          /\ ~beyond'
          /\ ExtBytes(Filled) > 0 => stage' = "ext"
          /\ ~(ExtBytes(Filled) > 0) /\ HasMask(Filled) => stage' = "mask"
          /\ ~(ExtBytes(Filled) > 0) /\ ~HasMask(Filled) => stage' = "data"
      BY <2>1, Zenon DEF ReadHead, AfterLength
    <3>2. Piece(Filled, F, r + 1, 0, Wanted) /\ Wanted = 2 /\ c = b
      BY <1>2, <1>3, <3>1, WantedFacts DEF Took, Reading
    <3>3. Filled = h
      <4>1. Filled \in Seq(ByteRange) /\ Len(Filled) = 2 /\ Filled[1] = p[1] /\ Filled[2] = p[2]
        BY <3>2 DEF Piece
      <4>2. Filled = <<Filled[1], Filled[2]>>
        BY <4>1
      <4> QED BY <4>1, <4>2 DEF FirstTwo
    <3> DEFINE e == ExtBytes(h)
    <3>4. e \in {0, 2, 8} /\ d = b + 2 /\ (e = 0 => d = b + (2 + e))
          /\ (e = 0 /\ k = <<>> => d = b + (2 + e + Len(k)))
      BY <1>5, <1>6, <3>2
    <3>5. CASE e > 0
      <4>1. stage' = "ext" /\ head' = h /\ key' = <<>>
        BY <3>1, <3>3, <3>5
      <4> QED BY <1>4, <3>4, <4>1 DEF Reading
    <3>6. CASE e = 0
      <4>1. head' = h /\ size' = Len(f.data) /\ key' = <<>> /\ ~(e > 0) /\ ~beyond'
        BY <1>6, <3>1, <3>3, <3>6
      <4> HIDE DEF h
      <4>2. CASE k # <<>>
        <5>1. stage' = "mask" /\ d = b + (2 + e)
          BY <1>6, <3>1, <3>3, <3>4, <3>6, <4>1, <4>2
        <5> QED BY <1>1, <1>4, <4>1, <4>2, <5>1 DEF Reading, h
      <4>3. CASE k = <<>>
        <5>1. stage' = "data" /\ d = b + (2 + e + Len(k)) /\ key' = k
          BY <1>6, <3>1, <3>3, <3>4, <3>6, <4>1, <4>3
        <5> QED BY <1>1, <1>4, <4>1, <4>3, <5>1 DEF Reading, h
      <4> QED BY <4>2, <4>3
    <3>7. e > 0 \/ e = 0
      BY <3>4
    <3> QED BY <3>5, <3>6, <3>7
  <2>2. CASE ReadExt
    <3>1. /\ stage = "ext" /\ size' = FromBigEndian(Filled) /\ beyond' = Beyond(Filled)
          /\ head' = head /\ key' = key
          /\ HasMask(head) => stage' = "mask"
          /\ ~HasMask(head) => stage' = "data"
      BY <2>2, Zenon DEF ReadExt, AfterLength
    <3>2. /\ Piece(Filled, F, r + 1, 2, Wanted) /\ Wanted = ExtBytes(head)
          /\ c = b + 2 /\ head = h /\ key = <<>>
      BY <1>2, <1>3, <3>1, WantedFacts DEF Took, Reading
    <3>3. ExtBytes(h) # 0
      BY <3>1, <3>2 DEF WsTypes
    <3>4. size' = Len(f.data) /\ ~beyond'
      <4> DEFINE t == Filled
      <4>1. t \in Seq(ByteRange) /\ Len(t) = ExtBytes(h) /\ \A j \in 1 .. ExtBytes(h) : t[j] = p[2 + j]
        BY <3>2 DEF Piece
      <4> HIDE DEF t
      <4>2. FromBigEndian(t) = Len(f.data) /\ ~Beyond(t)
        BY <1>5, <3>3, <4>1 DEF IsFrame
      <4> QED BY <3>1, <4>2 DEF t
    <3> DEFINE e == ExtBytes(h)
    <3>5. d = b + (2 + e) /\ (k = <<>> => d = b + (2 + e + Len(k)))
      <4> DEFINE n == Len(k)
      <4>1. e \in Nat /\ b \in Nat /\ d = (b + 2) + e /\ n \in Nat /\ (k = <<>> => n = 0)
        BY <1>5, <1>6, <3>2
      <4> HIDE DEF e, b, n
      <4>2. d = b + (2 + e) /\ (n = 0 => d = b + (2 + e + n))
        BY <4>1
      <4> QED BY <4>1, <4>2 DEF n
    <3> HIDE DEF h
    <3>6. CASE k # <<>>
      <4>1. stage' = "mask"
        BY <1>6, <3>1, <3>2, <3>6
      <4> QED BY <1>1, <1>4, <3>1, <3>2, <3>4, <3>5, <3>6, <4>1 DEF Reading, h
    <3>7. CASE k = <<>>
      <4>1. stage' = "data" /\ key' = k
        BY <1>6, <3>1, <3>2, <3>7
      <4> QED BY <1>1, <1>4, <3>1, <3>2, <3>4, <3>5, <3>7, <4>1 DEF Reading, h
    <3> QED BY <3>6, <3>7
  <2>3. CASE ReadMask
    <3>1. /\ stage = "mask" /\ key' = Filled /\ stage' = "data" /\ head' = head /\ size' = size /\ beyond' = beyond
      BY <2>3 DEF ReadMask
    <3>2. /\ Piece(Filled, F, r + 1, 2 + ExtBytes(h), Wanted) /\ Wanted = 4
          /\ c = b + (2 + ExtBytes(h)) /\ head = h /\ size = Len(f.data) /\ k # <<>> /\ ~beyond
      BY <1>2, <1>3, <3>1, WantedFacts DEF Took, Reading
    <3>3. key' = k
      <4> DEFINE t == Filled
      <4>1. t \in Seq(ByteRange) /\ Len(t) = 4 /\ \A j \in 1 .. 4 : t[j] = p[2 + ExtBytes(h) + j]
        BY <3>2 DEF Piece
      <4>2. Len(k) = 4 /\ \A j \in 1 .. Len(k) : p[2 + ExtBytes(h) + j] = k[j]
        BY <1>5, <3>2 DEF IsFrame
      <4>3. k \in Seq(ByteRange)
        BY <1>5, MaskIsSeq
      <4> HIDE DEF t, k
      <4>4. t = k
        BY <4>1, <4>2, <4>3
      <4> QED BY <3>1, <4>4 DEF t
    <3> DEFINE e == ExtBytes(h)
    <3>4. d = b + (2 + e + Len(k))
      <4>1. e \in Nat /\ b \in Nat /\ c = b + (2 + e) /\ Wanted = 4 /\ Len(k) = 4
        BY <1>5, <1>6, <3>2
      <4> HIDE DEF e, b
      <4> QED BY <4>1
    <3> HIDE DEF h
    <3> QED BY <1>1, <1>4, <3>1, <3>2, <3>3, <3>4 DEF Reading, h
  <2> QED BY <2>1, <2>2, <2>3
<1>8. /\ InFlight(flight, F, a, broken)
      /\ q <= r /\ (~broken => q = r)
      /\ Listed(results, sent, AsResults(sent), r, Returned)
      /\ Listed(pongs, sent, Payloads(sent), q, Pings)
  BY <1>0 DEF WholeAt
<1> QED BY <1>1, <1>1a, <1>2, <1>4, <1>7, <1>8 DEF WholeAt

\* A bit that is set exactly when a flag is, as a value.
LEMMA BitIsFlag == ASSUME NEW x, NEW t, NEW b \in BOOLEAN, x >= t <=> b
                   PROVE  (x >= t) = b
OBVIOUS

\* What a frame gives when its data are read: its own data, opcode and fin bit.
LEMMA WholeData ==
  ASSUME WsTypes, stage = "data", Fill, NEW K, NEW F, NEW B, Layout(sent, K, F, B),
         NEW a \in Nat, NEW c \in Nat, NEW r \in Nat, r <= a
  PROVE  Arrived(socket, F, B, a, c) /\ Reading(K, F, B, a, c, r) =>
           LET f == sent[r + 1]
           IN /\ r < a /\ a <= Len(F)
              /\ head[1] % 16 = f.type
              /\ (head[1] >= TopBit) = f.fin
              /\ Body = f.data /\ ~Overrun
              /\ Arrived(socket', F, B, a, B[(r + 1) + 1])
<1>0. HAVE Arrived(socket, F, B, a, c) /\ Reading(K, F, B, a, c, r)
<1> DEFINE f == sent[r + 1]
           p == F[r + 1]
           k == K[r + 1]
           b == B[r + 1]
           e == ExtBytes(FirstTwo(p))
           o == 2 + e + Len(k)
<1>1. Took(F, B, a, c, r, o)
  BY <1>0, WholeFill
<1>2. r < a /\ a <= Len(F) /\ Arrived(socket', F, B, a, c + Wanted)
      /\ Piece(Filled, F, r + 1, o, Wanted) /\ Wanted \in Nat
  BY <1>1 DEF Took
<1>3. /\ IsFrame(p, f.data, f.type, f.fin, k) /\ k \in Masks /\ f.fin \in BOOLEAN
      /\ Len(f.data) \in Nat /\ f.data \in Seq(ByteRange)
      /\ b \in Nat /\ B[(r + 1) + 1] = b + Len(p)
  <2>1. r + 1 <= Len(F)
    <3>1. Len(F) \in Nat
      BY LayoutFacts
    <3> QED BY <1>2, <3>1
  <2> QED BY <2>1, TheFrame
<1>4. head = FirstTwo(p) /\ key = k /\ size = Len(f.data) /\ Wanted = size /\ ~beyond
  BY <1>0, WantedFacts DEF Reading
<1>5. head[1] = p[1]
  BY <1>4 DEF FirstTwo
<1>6. p[1] % 16 = f.type /\ (p[1] >= TopBit <=> f.fin)
  BY <1>3 DEF IsFrame
<1>7. (head[1] >= TopBit) = f.fin
  BY <1>3, <1>5, <1>6, BitIsFlag
<1>8. Mask(Filled, key) = f.data
  <2> DEFINE t == Filled
             m == Mask(f.data, k)
             n == Len(f.data)
  <2>1. t \in Seq(ByteRange) /\ Len(t) = n /\ \A j \in 1 .. n : t[j] = p[o + j]
    BY <1>2, <1>4 DEF Piece
  <2>2. \A j \in 1 .. n : p[o + j] = m[j]
    BY <1>3 DEF IsFrame
  <2>3. m \in Seq(ByteRange) /\ Len(m) = n /\ Mask(m, k) = f.data
    BY <1>3, MaskTwice
  <2> HIDE DEF t, m, n, o
  <2>4. t = m
    BY <2>1, <2>2, <2>3
  <2> QED BY <1>4, <2>3, <2>4 DEF t
<1>9. c + Wanted = B[(r + 1) + 1]
  <2>1. /\ c = b + o /\ o + Wanted = Len(p)
    BY <1>0, <1>2, Offsets
  <2>2. o \in Nat /\ Wanted \in Nat
    <3>1. Len(k) \in Nat
      BY <1>3, MaskIsSeq
    <3>2. e \in Nat
      BY <1>3 DEF IsFrame
    <3> QED BY <1>2, <3>1, <3>2
  <2> HIDE DEF o, b, p
  <2> QED BY <1>3, <2>1, <2>2
<1>10. Body = f.data /\ ~Overrun
  <2>1. size >= 0
    BY <1>2, <1>4
  <2> QED BY <1>4, <1>8, <2>1, BodyFacts DEF Overrun
<1> QED BY <1>2, <1>5, <1>6, <1>7, <1>9, <1>10

\* A frame has been read.
LEMMA WholeReadData ==
  ASSUME WsTypes, ReadData, NEW K, NEW F, NEW B,
         NEW a \in Nat, NEW c \in Nat, NEW r \in Nat, NEW q \in Nat
  PROVE  WholeAt(K, F, B, a, c, r, q) => \E d, z, y \in Nat : WholeAt(K, F, B, a, d, z, y)'
<1>0. HAVE WholeAt(K, F, B, a, c, r, q)
<1> DEFINE f    == sent[r + 1]
           op   == head[1] % 16
           body == Body
           res  == [type |-> op, last |-> head[1] >= TopBit, body |-> body]
<1>1. stage = "data" /\ Fill
  BY DEF ReadData
<1>2. /\ Layout(sent, K, F, B) /\ r <= a
      /\ Arrived(socket, F, B, a, c) /\ Reading(K, F, B, a, c, r)
      /\ InFlight(flight, F, a, broken)
      /\ q <= r /\ (~broken => q = r)
      /\ Listed(results, sent, AsResults(sent), r, Returned)
      /\ Listed(pongs, sent, Payloads(sent), q, Pings)
  BY <1>0, <1>1 DEF WholeAt
<1>3. ~Overrun
  BY <1>1, <1>2, WholeData
<1>4. /\ stage = "data" /\ Fill
      /\ UNCHANGED <<sent, flight, broken, head, size, beyond, key>>
      /\ \/ /\ op = WS_OP_CODE_PING /\ stage' = "head" /\ results' = results
            /\ (broken => pongs' = pongs) /\ (~broken => pongs' = Append(pongs, body))
         \/ op = WS_OP_CODE_PONG /\ stage' = "head" /\ results' = results /\ pongs' = pongs
         \/ /\ op \in {WS_OP_CODE_CONTINUE, WS_OP_CONTENT_TEXT,
                      WS_OP_CONTENT_BINARY, WS_OP_CODE_CLOSE}
            /\ stage' = "head" /\ results' = Append(results, res) /\ pongs' = pongs
         \/ stage' = "failed" /\ results' = results /\ pongs' = pongs
  BY <1>3, Zenon DEF ReadData, Fill, sender
<1>5. CASE stage' = "failed" /\ results' = results /\ pongs' = pongs
  <2>1. WholeAt(K, F, B, a, c, r, q)'
    BY <1>4, <1>2, <1>5 DEF WholeAt
  <2> QED BY <2>1
<1>6. CASE stage' = "head"
  <2> DEFINE d == B[(r + 1) + 1]
  <2>1. /\ r < a /\ a <= Len(F) /\ op = f.type /\ (head[1] >= TopBit) = f.fin
        /\ body = f.data /\ Arrived(socket', F, B, a, d)
    BY <1>4, <1>2, WholeData
  <2>2. /\ r + 1 \in 1 .. Len(sent) /\ DOMAIN sent = 1 .. Len(sent)
        /\ f.type \in OpCodes /\ f.fin \in BOOLEAN /\ f.data \in Seq(ByteRange)
        /\ d \in Nat
    <3>1. r + 1 <= Len(F) /\ Len(F) \in Nat
      <4>1. Len(F) \in Nat
        BY <1>2, LayoutFacts
      <4> QED BY <2>1, <4>1
    <3>2. /\ r + 1 \in 1 .. Len(sent) /\ DOMAIN sent = 1 .. Len(sent)
          /\ f.type \in OpCodes /\ f.fin \in BOOLEAN /\ f.data \in Seq(ByteRange)
      BY <1>2, <3>1, TheFrame
    <3>3. (r + 1) + 1 \in 1 .. Len(sent) + 1
      BY <1>2, <3>1, LayoutFacts
    <3>4. d \in Nat
      BY <1>2, <3>3, LayoutFacts
    <3> QED BY <3>2, <3>4
  <2>2a. body \in Packet
    BY <1>4, BodyFacts
  <2> HIDE DEF op, body, f
  <2>3. res = AsResults(sent)[r + 1] /\ body = Payloads(sent)[r + 1]
        /\ res \in [type : OpCodes, last : BOOLEAN, body : Packet]
    <3>1. res = [type |-> f.type, last |-> f.fin, body |-> f.data]
      BY <2>1
    <3> HIDE DEF res
    <3> QED BY <2>1, <2>2, <2>2a, <3>1 DEF AsResults, Payloads, f
  <2>4. results \in Seq([type : OpCodes, last : BOOLEAN, body : Packet])
        /\ pongs \in Seq(Packet)
    BY DEF WsTypes
  <2> HIDE DEF res
  <2>5. Listed(results', sent, AsResults(sent), r + 1, Returned)
    <3> DEFINE R == [type : OpCodes, last : BOOLEAN, body : Packet]
    <3>1. results \in Seq(R) /\ res \in R
      BY <2>3, <2>4
    <3> HIDE DEF R
    <3>2. CASE op \in {WS_OP_CODE_CONTINUE, WS_OP_CONTENT_TEXT,
                       WS_OP_CONTENT_BINARY, WS_OP_CODE_CLOSE}
      <4>1. results' = Append(results, res)
        BY <1>4, <1>6, <3>2 DEF WS_OP_CODE_CONTINUE, WS_OP_CONTENT_TEXT,
             WS_OP_CONTENT_BINARY, WS_OP_CODE_CLOSE, WS_OP_CODE_PING, WS_OP_CODE_PONG
      <4>2. sent[r + 1].type \in Returned
        BY <2>1, <2>2, <3>2 DEF Returned, f, WS_OP_CODE_CONTINUE, WS_OP_CONTENT_TEXT,
             WS_OP_CONTENT_BINARY, WS_OP_CODE_CLOSE, WS_OP_CODE_PING, WS_OP_CODE_PONG
      <4> QED BY <1>2, <2>3, <3>1, <4>1, <4>2, ListedNext
    <3>3. CASE op \in {WS_OP_CODE_PING, WS_OP_CODE_PONG}
      <4>1. results' = results
        BY <1>4, <1>6, <3>3 DEF WS_OP_CODE_CONTINUE, WS_OP_CONTENT_TEXT,
             WS_OP_CONTENT_BINARY, WS_OP_CODE_CLOSE, WS_OP_CODE_PING, WS_OP_CODE_PONG
      <4>2. sent[r + 1].type \notin Returned
        BY <2>1, <3>3 DEF Returned, f
      <4> QED BY <1>2, <3>1, <4>1, <4>2, ListedNext
    <3> QED BY <1>4, <1>6, <3>2, <3>3
  <2>6. CASE broken
    <3>1. pongs' = pongs
      BY <1>4, <1>6, <2>6 DEF WS_OP_CODE_CONTINUE, WS_OP_CONTENT_TEXT,
             WS_OP_CONTENT_BINARY, WS_OP_CODE_CLOSE, WS_OP_CODE_PING, WS_OP_CODE_PONG
    <3>2. WholeAt(K, F, B, a, d, r + 1, q)'
      <4>1. Reading(K, F, B, a, d, r + 1)'
        BY <1>6 DEF Reading
      <4>2. r + 1 <= a /\ q <= r + 1
        BY <1>2, <2>1
      <4> HIDE DEF d
      <4> QED BY <1>4, <1>2, <2>1, <2>5, <2>6, <3>1, <4>1, <4>2 DEF WholeAt
    <3> QED BY <2>2, <3>2
  <2>7. CASE ~broken
    <3>1. Listed(pongs', sent, Payloads(sent), r + 1, Pings)
      <4>1. Listed(pongs, sent, Payloads(sent), r, Pings)
        BY <1>2, <2>7
      <4>2. body \in Packet
        BY <2>2a
      <4>3. CASE op = WS_OP_CODE_PING
        <5>1. pongs' = Append(pongs, body) /\ sent[r + 1].type \in Pings
          BY <1>4, <1>6, <2>1, <2>7, <4>3 DEF f, Pings, WS_OP_CODE_CONTINUE, WS_OP_CONTENT_TEXT,
             WS_OP_CONTENT_BINARY, WS_OP_CODE_CLOSE, WS_OP_CODE_PING, WS_OP_CODE_PONG
        <5> QED BY <2>3, <2>4, <4>1, <4>2, <5>1, ListedNext
      <4>4. CASE op # WS_OP_CODE_PING
        <5>1. pongs' = pongs /\ sent[r + 1].type \notin Pings
          BY <1>4, <1>6, <2>1, <2>7, <4>4 DEF f, Pings
        <5> QED BY <2>4, <4>1, <5>1, ListedNext
      <4> QED BY <4>3, <4>4
    <3>2. WholeAt(K, F, B, a, d, r + 1, r + 1)'
      <4>1. Reading(K, F, B, a, d, r + 1)'
        BY <1>6 DEF Reading
      <4>2. r + 1 <= a /\ r + 1 <= r + 1
        BY <1>2, <2>1
      <4> HIDE DEF d
      <4> QED BY <1>4, <1>2, <2>1, <2>5, <2>7, <3>1, <4>1, <4>2 DEF WholeAt
    <3> QED BY <2>2, <3>2
  <2> QED BY <2>6, <2>7
<1> QED BY <1>4, <1>5, <1>6

\* Steps that touch neither the network nor the receiver, and an error of recv_msg.
LEMMA WholeIdle ==
  ASSUME UNCHANGED <<sent, flight, socket, broken, head, size, beyond, key, results, pongs>>,
         UNCHANGED stage \/ stage' = "failed", NEW K, NEW F, NEW B,
         NEW a \in Nat, NEW c \in Nat, NEW r \in Nat, NEW q \in Nat
  PROVE  WholeAt(K, F, B, a, c, r, q) => WholeAt(K, F, B, a, c, r, q)'
<1>0. HAVE WholeAt(K, F, B, a, c, r, q)
<1>1. /\ Layout(sent, K, F, B) /\ r <= a /\ stage # "undefined"
      /\ stage # "failed" => Arrived(socket, F, B, a, c) /\ Reading(K, F, B, a, c, r)
      /\ InFlight(flight, F, a, broken)
      /\ q <= r /\ (~broken => q = r)
      /\ Listed(results, sent, AsResults(sent), r, Returned)
      /\ Listed(pongs, sent, Payloads(sent), q, Pings)
  BY <1>0 DEF WholeAt
<1>2. CASE UNCHANGED stage
  <2>1. Reading(K, F, B, a, c, r) => Reading(K, F, B, a, c, r)'
    BY <1>2 DEF Reading
  <2> QED BY <1>1, <1>2, <2>1 DEF WholeAt
<1>3. CASE stage' = "failed"
  BY <1>1, <1>3 DEF WholeAt
<1> QED BY <1>2, <1>3

\* Every step keeps the invariant.
LEMMA WholeNext == WsTypes /\ WholeInv /\ [Next]_vars => WholeInv'
<1> SUFFICES ASSUME WsTypes, WholeInv, [Next]_vars, Whole'
             PROVE  \E K, F, B : \E a, c, r, q \in Nat : WholeAt(K, F, B, a, c, r, q)'
  BY DEF WholeInv
<1>1. UNCHANGED script
  BY DEF Next, Sending, Send, SendFrame, SendFail, Break, Arrival, Arrive, Receive, ShortRead,
         RecvFail, ReadHead, ReadExt, ReadMask, ReadData, Fill, Ended, vars, sender
<1>2. Whole
  BY <1>1 DEF Whole
<1>3. PICK K, F, B : \E a, c, r, q \in Nat : WholeAt(K, F, B, a, c, r, q)
  BY <1>2 DEF WholeInv
<1>4. PICK a \in Nat, c \in Nat, r \in Nat, q \in Nat : WholeAt(K, F, B, a, c, r, q)
  BY <1>3
<1>5. CASE UNCHANGED vars \/ Ended \/ RecvFail
  <2>1. UNCHANGED <<sent, flight, socket, broken, head, size, beyond, key, results, pongs>>
        /\ (UNCHANGED stage \/ stage' = "failed")
    BY <1>5 DEF Ended, RecvFail, vars, sender, net, receiver
  <2>2. WholeAt(K, F, B, a, c, r, q)'
    BY <1>4, <2>1, WholeIdle
  <2> QED BY <2>2
<1>6. ASSUME NEW s \in Senders, Send(s) \/ SendFail(s)
      PROVE  \E L, G, C : \E d, e, x, y \in Nat : WholeAt(L, G, C, d, e, x, y)'
  <2>1. UNCHANGED <<sent, flight, socket, broken, head, size, beyond, key, results, pongs, stage>>
    BY <1>6 DEF Send, SendFail, net, receiver
  <2>2. WholeAt(K, F, B, a, c, r, q)'
    BY <1>4, <2>1, WholeIdle
  <2> QED BY <2>2
<1>7. ASSUME NEW s \in Senders, SendFrame(s)
      PROVE  \E L, G, C : \E d, e, x, y \in Nat : WholeAt(L, G, C, d, e, x, y)'
  BY <1>4, <1>7, WholeSendFrame
<1>8. CASE Break
  BY <1>4, <1>8, WholeBreak
<1>9. CASE Arrival
  <2>1. WholeAt(K, F, B, a + 1, c, r, q)'
    BY <1>2, <1>4, <1>9, WholeArrival
  <2>2. a + 1 \in Nat
    OBVIOUS
  <2> QED BY <2>1, <2>2
<1>10. CASE ShortRead
  BY <1>4, <1>10, WholeNotShort
<1>11. CASE ReadHead \/ ReadExt \/ ReadMask
  <2>1. PICK d \in Nat : d = c + Wanted
    <3>1. Wanted \in {0, 2, 4, 8}
      BY <1>11, WantedFacts DEF ReadHead, ReadExt, ReadMask
    <3> QED BY <3>1
  <2>2. WholeAt(K, F, B, a, d, r, q)'
    BY <1>4, <1>11, <2>1, WholeReadHeader
  <2> QED BY <2>2
<1>12. CASE ReadData
  BY <1>4, <1>12, WholeReadData
<1> QED BY <1>5, <1>6, <1>7, <1>8, <1>9, <1>10, <1>11, <1>12 DEF Next, Sending, Receive

\* What recv_ws returned and answered is what the invariant lists.
LEMMA WholeMeans ==
  ASSUME WsTypes, WholeInv, Whole
  PROVE  /\ FramesFaithful
         /\ Len(pongs) <= Place(Len(sent), {WS_OP_CODE_PING})
         /\ \A i \in DOMAIN sent :
              LET n == Place(i, {WS_OP_CODE_PING})
              IN sent[i].type = WS_OP_CODE_PING /\ n <= Len(pongs) => pongs[n] = sent[i].data
<1>1. PICK K, F, B : \E a, c, r, q \in Nat : WholeAt(K, F, B, a, c, r, q)
  BY DEF WholeInv
<1>2. PICK a \in Nat, c \in Nat, r \in Nat, q \in Nat : WholeAt(K, F, B, a, c, r, q)
  BY <1>1
<1>3. /\ Layout(sent, K, F, B) /\ r <= a /\ a <= Len(F) /\ q <= r
      /\ Listed(results, sent, AsResults(sent), r, Returned)
      /\ Listed(pongs, sent, Payloads(sent), q, Pings)
  <2>1. /\ Layout(sent, K, F, B) /\ r <= a /\ q <= r
        /\ InFlight(flight, F, a, broken)
        /\ Listed(results, sent, AsResults(sent), r, Returned)
        /\ Listed(pongs, sent, Payloads(sent), q, Pings)
    BY <1>2 DEF WholeAt
  <2>2. a + Len(flight) <= Len(F) /\ Len(F) \in Nat /\ Len(flight) \in Nat
    <3>1. a + Len(flight) <= Len(F)
      BY <2>1 DEF InFlight
    <3>2. flight \in Seq(Seq(ByteRange))
      BY DEF WsTypes
    <3> QED BY <2>1, <3>1, <3>2, LayoutFacts, LenProperties
  <2>3. a <= Len(F)
    BY <2>2
  <2> QED BY <2>1, <2>3
<1> DEFINE n == Len(sent)
<1>4. n \in Nat /\ r <= n /\ q <= n /\ DOMAIN sent = 1 .. n
  <2>1. n \in Nat /\ Len(F) = n /\ sent \in Seq(Frame)
    BY <1>3, LayoutFacts DEF Layout
  <2> QED BY <1>3, <2>1, LenProperties
<1>5. \A i, types : Place(i, types) = Count(sent, i, types)
  BY DEF Place, Count
<1>6. InPlace(results, sent, AsResults(sent), n, Returned)
  BY <1>3, <1>4, ListedAll
<1>7. InPlace(pongs, sent, Payloads(sent), n, Pings)
  BY <1>3, <1>4, ListedAll
<1>8. \A i \in 1 .. n : /\ AsResults(sent)[i] = [type |-> sent[i].type, last |-> sent[i].fin,
                                                 body |-> sent[i].data]
                        /\ Payloads(sent)[i] = sent[i].data
  BY <1>4 DEF AsResults, Payloads
<1> HIDE DEF n
<1>9. FramesFaithful
  BY <1>4, <1>5, <1>6, <1>8, Zenon DEF FramesFaithful, InPlace, n
<1>10. \A i : sent[i].type = WS_OP_CODE_PING => sent[i].type \in Pings
  BY DEF Pings
<1> QED BY <1>4, <1>5, <1>7, <1>8, <1>9, <1>10, Zenon DEF n, Pings, InPlace

\* ws_client.h:45, for frames that arrive whole: a call of recv that returns TARO_OK
\* returns a frame that the peer has sent, each once, in order and with its own data
\* and flags: whatever the senders send, masked or not, in every form of a header,
\* however their frames interleave and wherever the connection breaks.
THEOREM FramesArriveFaithful == Spec => []WholeFramesFaithful
<1>1. WsTypes /\ WholeInv => WholeFramesFaithful
  BY WholeMeans DEF WholeFramesFaithful
<1> QED BY <1>1, TypesInit, TypesNext, WholeInit, WholeNext, PTL DEF Spec

\* Every ping is answered once, in order, with the data that it carried before
\* masking, as long as frames arrive whole.
THEOREM PingsAreEchoed == Spec => []PongsEcho
<1>1. WsTypes /\ WholeInv => PongsEcho
  BY WholeMeans, Zenon DEF PongsEcho
<1> QED BY <1>1, TypesInit, TypesNext, WholeInit, WholeNext, PTL DEF Spec
-----------------------------------------------------------------------------
(* The fragments of a message, when one coroutine sends. *)

\* A frame has opcode 0 exactly when the frame before it is not the last of its
\* message; a ping or a pong is one frame.
Chained(fs) ==
  \A j \in 1 .. Len(fs) : /\ fs[j].type = WS_OP_CODE_CONTINUE <=> j > 1 /\ ~fs[j - 1].fin
                          /\ fs[j].type \notin Returned => fs[j].fin

\* The frames that wait to be sent continue those that are sent: ps has the rest of a
\* message, and nothing waits only behind a whole one.
Continues(ps, fs) ==
  /\ \A i \in 1 .. Len(ps) : ps[i].type \notin Returned => ps[i].fin
  /\ \A i \in 2 .. Len(ps) : ps[i].type = WS_OP_CODE_CONTINUE /\ ~ps[i - 1].fin
  /\ ps # <<>> => /\ ps[Len(ps)].fin
                  /\ ps[1].type = WS_OP_CODE_CONTINUE <=> Len(fs) > 0 /\ ~fs[Len(fs)].fin
  /\ ps = <<>> => Len(fs) = 0 \/ fs[Len(fs)].fin

\* The invariant: once the connection is broken nothing continues.
ChainInv(s) == Chained(sent) /\ (~broken => Continues(frames[s], sent))

\* The next frame is sent.
LEMMA ChainOne ==
  ASSUME NEW fs \in Seq(Frame), NEW ps \in Seq(Frame), ps # <<>>, Chained(fs), Continues(ps, fs)
  PROVE  Chained(Append(fs, Head(ps))) /\ Continues(Tail(ps), Append(fs, Head(ps)))
<1> DEFINE n == Len(fs)
           f == Head(ps)
           gs == Append(fs, f)
           qs == Tail(ps)
<1>1. n \in Nat /\ Len(ps) \in Nat /\ Len(ps) >= 1 /\ f = ps[1]
  <2>1. n \in Nat /\ Len(ps) \in Nat
    BY LenProperties
  <2> QED BY <2>1
<1>2. f \in Frame /\ qs \in Seq(Frame) /\ Len(qs) = Len(ps) - 1
      /\ \A i \in 1 .. Len(qs) : qs[i] = ps[i + 1]
  BY HeadTailProperties
<1>3. gs \in Seq(Frame) /\ Len(gs) = n + 1 /\ gs[n + 1] = f /\ \A i \in 1 .. n : gs[i] = fs[i]
  BY <1>2, AppendProperties
<1>4. f.type = WS_OP_CODE_CONTINUE <=> n > 0 /\ ~fs[n].fin
  BY <1>1 DEF Continues
<1>5. f.type \notin Returned => f.fin
  <2>1. 1 \in 1 .. Len(ps)
    BY <1>1
  <2> QED BY <1>1, <2>1 DEF Continues
<1> HIDE DEF n, f, gs, qs
<1>6. Chained(gs)
  <2>1. ASSUME NEW j \in 1 .. Len(gs)
        PROVE  /\ gs[j].type = WS_OP_CODE_CONTINUE <=> j > 1 /\ ~gs[j - 1].fin
               /\ gs[j].type \notin Returned => gs[j].fin
    <3>1. CASE j \in 1 .. n
      <4>1. gs[j] = fs[j] /\ (j > 1 => gs[j - 1] = fs[j - 1])
        <5>1. j > 1 => j - 1 \in 1 .. n
          BY <1>1, <3>1
        <5> QED BY <1>3, <3>1, <5>1
      <4>2. /\ fs[j].type = WS_OP_CODE_CONTINUE <=> j > 1 /\ ~fs[j - 1].fin
            /\ fs[j].type \notin Returned => fs[j].fin
        BY <3>1 DEF Chained, n
      <4> QED BY <4>1, <4>2
    <3>2. CASE j = n + 1
      <4>1. gs[j] = f /\ j - 1 = n /\ (j > 1 <=> n > 0) /\ (n > 0 => gs[j - 1] = fs[n])
        <5>1. j - 1 = n /\ (j > 1 <=> n > 0) /\ (n > 0 => n \in 1 .. n)
          BY <1>1, <3>2
        <5> QED BY <1>3, <3>2, <5>1
      <4> QED BY <1>4, <1>5, <4>1
    <3>3. j \in 1 .. n \/ j = n + 1
      BY <1>1, <1>3
    <3> QED BY <3>1, <3>2, <3>3
  <2> QED BY <2>1 DEF Chained
<1>7. Continues(qs, gs)
  <2>1. \A i \in 1 .. Len(qs) : i + 1 \in 1 .. Len(ps) /\ i + 1 \in 2 .. Len(ps)
    BY <1>1, <1>2
  <2>2. \A i \in 1 .. Len(qs) : qs[i].type \notin Returned => qs[i].fin
    BY <1>2, <2>1 DEF Continues
  <2>3. ASSUME NEW i \in 2 .. Len(qs)
        PROVE  qs[i].type = WS_OP_CODE_CONTINUE /\ ~qs[i - 1].fin
    <3>1. i \in 1 .. Len(qs) /\ i - 1 \in 1 .. Len(qs) /\ (i - 1) + 1 = i /\ (i + 1) - 1 = i
      BY <1>1, <1>2
    <3>2. qs[i] = ps[i + 1] /\ qs[i - 1] = ps[i]
      BY <1>2, <3>1
    <3>3. ps[i + 1].type = WS_OP_CODE_CONTINUE /\ ~ps[(i + 1) - 1].fin
      BY <2>1, <3>1 DEF Continues
    <3> QED BY <3>1, <3>2, <3>3
  <2>4. Len(gs) = n + 1 /\ n + 1 > 0 /\ gs[Len(gs)] = f
    BY <1>1, <1>3
  <2>5. CASE qs # <<>>
    <3>1. Len(qs) \in Nat /\ Len(qs) >= 1
      BY <1>2, <2>5
    <3>2. 1 \in 1 .. Len(qs) /\ Len(qs) \in 1 .. Len(qs) /\ Len(qs) + 1 = Len(ps)
          /\ 2 \in 2 .. Len(ps) /\ 1 + 1 = 2 /\ 2 - 1 = 1
      BY <1>1, <1>2, <3>1
    <3>3. qs[1] = ps[2] /\ qs[Len(qs)] = ps[Len(ps)]
      BY <1>2, <3>2
    <3>4. ps[2].type = WS_OP_CODE_CONTINUE /\ ~ps[1].fin
      <4>1. ps[2].type = WS_OP_CODE_CONTINUE /\ ~ps[2 - 1].fin
        BY <3>2 DEF Continues
      <4> QED BY <3>2, <4>1
    <3>5. ps[Len(ps)].fin
      BY DEF Continues
    <3>6. qs[1].type = WS_OP_CODE_CONTINUE /\ ~gs[Len(gs)].fin /\ qs[Len(qs)].fin
      BY <1>1, <2>4, <3>3, <3>4, <3>5
    <3> QED BY <2>2, <2>3, <2>4, <2>5, <3>6 DEF Continues
  <2>6. CASE qs = <<>>
    <3>1. Len(ps) = 1
      BY <1>1, <1>2, <2>6
    <3>2. f.fin
      BY <1>1, <3>1 DEF Continues
    <3> QED BY <2>2, <2>3, <2>4, <2>6, <3>2 DEF Continues
  <2> QED BY <2>5, <2>6
<1> QED BY <1>6, <1>7 DEF gs, f, qs

\* The frames of a new message continue whole ones.
LEMMA ChainMessage ==
  ASSUME NEW fs, NEW m \in Message, IsControl(m) => Len(m.data) < FrameLimit,
         m.type # WS_OP_CODE_CONTINUE, Continues(<<>>, fs)
  PROVE  Continues(FramesOf(m), fs)
<1> DEFINE ps == FramesOf(m)
<1>1. /\ ps \in Seq(Frame)
      /\ \A i \in 1 .. Len(ps) : /\ ps[i].type = IF i = 1 THEN m.type ELSE WS_OP_CODE_CONTINUE
                                 /\ ps[i].fin = (i = Len(ps))
      /\ IsControl(m) => Len(ps) = 1
  BY FramesOfMessage
<1> HIDE DEF ps
<1>2. Len(ps) \in Nat /\ (ps # <<>> => Len(ps) >= 1)
  BY <1>1, LenProperties
<1>3. Len(fs) = 0 \/ fs[Len(fs)].fin
  BY DEF Continues
<1>4. ASSUME NEW i \in 1 .. Len(ps), ps[i].type \notin Returned
      PROVE  ps[i].fin
  <2>1. i = 1
    <3>1. WS_OP_CODE_CONTINUE \in Returned
      BY DEF Returned, OpCodes, WS_OP_CODE_CONTINUE, WS_OP_CODE_PING, WS_OP_CODE_PONG
    <3> QED BY <1>1, <1>4, <3>1
  <2>2. m.type \notin Returned /\ m.type \in OpCodes
    BY <1>1, <1>4, <2>1 DEF Message
  <2>3. IsControl(m)
    <3> DEFINE t == m.type
    <3>1. t \notin Returned /\ t \in OpCodes
      BY <2>2
    <3> HIDE DEF t
    <3>2. t >= WS_OP_CODE_CLOSE
      BY <3>1 DEF Returned, OpCodes, WS_OP_CODE_PING, WS_OP_CODE_PONG, WS_OP_CODE_CLOSE
    <3> QED BY <3>2 DEF IsControl, t
  <2> QED BY <1>1, <2>1, <2>3
<1>5. ASSUME NEW i \in 2 .. Len(ps)
      PROVE  ps[i].type = WS_OP_CODE_CONTINUE /\ ~ps[i - 1].fin
  <2>1. i \in 1 .. Len(ps) /\ i - 1 \in 1 .. Len(ps) /\ i # 1 /\ i - 1 # Len(ps)
    BY <1>2
  <2> QED BY <1>1, <2>1
<1>6. ASSUME ps # <<>>
      PROVE  ps[Len(ps)].fin /\ ps[1].type # WS_OP_CODE_CONTINUE
  <2>1. 1 \in 1 .. Len(ps) /\ Len(ps) \in 1 .. Len(ps)
    BY <1>2, <1>6
  <2> QED BY <1>1, <2>1
<1>7. ~(Len(fs) > 0 /\ ~fs[Len(fs)].fin)
  BY <1>3
<1> QED BY <1>3, <1>4, <1>5, <1>6, <1>7 DEF Continues, ps

\* Initially, and after every step of the only sender.
LEMMA ChainInit == ASSUME NEW s \in Senders
                   PROVE  Init => ChainInv(s)
<1> SUFFICES ASSUME Init
             PROVE  ChainInv(s)
  OBVIOUS
<1>1. sent = <<>> /\ frames[s] = <<>> /\ Len(<<>>) = 0 /\ (\A i \in 1 .. 0 : FALSE)
      /\ \A i \in 2 .. 0 : FALSE
  BY DEF Init
<1> QED BY <1>1 DEF ChainInv, Chained, Continues

\* Every step of the only sender keeps the chain.
LEMMA ChainNext ==
  ASSUME NEW s, Senders = {s}
  PROVE  WsTypes /\ ChainInv(s) /\ [Next]_vars => ChainInv(s)'
<1> SUFFICES ASSUME WsTypes, ChainInv(s), [Next]_vars
             PROVE  ChainInv(s)'
  OBVIOUS
<1>1. sent \in Seq(Frame) /\ frames \in [Senders -> Seq(Frame)] /\ frames[s] \in Seq(Frame)
      /\ s \in Senders
  BY DEF WsTypes
<1>2. CASE UNCHANGED vars \/ Ended \/ Arrival \/ Receive
  <2>1. UNCHANGED <<sent, frames, broken>>
    BY <1>2 DEF Ended, Arrival, Arrive, Receive, ShortRead, RecvFail, ReadHead, ReadExt, ReadMask,
                ReadData, Fill, vars, sender, net
  <2> QED BY <2>1 DEF ChainInv
<1>3. CASE Break
  <2>1. UNCHANGED <<sent, frames>> /\ broken' = TRUE
    BY <1>3 DEF Break, sender
  <2> QED BY <2>1 DEF ChainInv
<1>4. CASE Send(s)
  <2> DEFINE m == script[s][begun[s] + 1]
  <2>1. /\ begun[s] < Len(script[s]) /\ frames[s] = <<>>
        /\ frames' = [frames EXCEPT ![s] = FramesOf(m)]
        /\ UNCHANGED <<sent, broken>>
    BY <1>4, Zenon DEF Send, FramesOf, net
  <2>2. /\ m \in Message /\ (IsControl(m) => Len(m.data) < FrameLimit)
        /\ m.type # WS_OP_CODE_CONTINUE
    BY <1>1, <2>1, NextMessage
  <2> HIDE DEF m
  <2>3. frames'[s] = FramesOf(m)
    BY <1>1, <2>1
  <2>4. Chained(sent) /\ (~broken => Continues(<<>>, sent))
    BY <2>1 DEF ChainInv
  <2>5. ~broken => Continues(FramesOf(m), sent)
    BY <2>2, <2>4, ChainMessage
  <2> QED BY <2>1, <2>3, <2>4, <2>5 DEF ChainInv
<1>5. CASE SendFrame(s)
  <2>1. /\ frames[s] # <<>> /\ ~broken /\ sent' = Append(sent, Head(frames[s]))
        /\ frames' = [frames EXCEPT ![s] = Tail(@)]
    BY <1>5 DEF SendFrame
  <2>2. frames'[s] = Tail(frames[s])
    BY <1>1, <2>1
  <2>3. Chained(sent) /\ Continues(frames[s], sent)
    BY <2>1 DEF ChainInv
  <2>4. Chained(sent') /\ Continues(frames'[s], sent')
    BY <1>1, <2>1, <2>2, <2>3, ChainOne
  <2> QED BY <2>4 DEF ChainInv
<1>6. CASE SendFail(s)
  <2>1. broken /\ UNCHANGED <<sent, broken>>
    BY <1>6 DEF SendFail, net
  <2> QED BY <2>1 DEF ChainInv
<1> QED BY <1>2, <1>3, <1>4, <1>5, <1>6 DEF Next, Sending

\* The fields of a result.
LEMMA ResultFields ==
  ASSUME NEW type, NEW last, NEW body, NEW x, x = [type |-> type, last |-> last, body |-> body]
  PROVE  x.type = type /\ x.last = last
OBVIOUS

\* The results of frames that are chained are, too: pings and pongs do not count.
LEMMA ChainedResults ==
  ASSUME NEW fs \in Seq(Frame), Chained(fs), NEW xs, NEW r \in Nat, r <= Len(fs),
         Len(xs) \in Nat, Listed(xs, fs, AsResults(fs), r, Returned)
  PROVE  \A i \in 1 .. Len(xs) : xs[i].type = WS_OP_CODE_CONTINUE <=> i > 1 /\ ~xs[i - 1].last
<1> DEFINE C(n) == Count(fs, n, Returned)
           Linked(i) == xs[i].type = WS_OP_CODE_CONTINUE <=> i > 1 /\ ~xs[i - 1].last
           Open(n) == (C(n) >= 1 /\ ~xs[C(n)].last) <=> (n >= 1 /\ ~fs[n].fin)
           N == {n \in Nat : n <= r => (\A i \in 1 .. C(n) : Linked(i)) /\ Open(n)}
<1>1. Len(fs) \in Nat /\ DOMAIN fs = 1 .. Len(fs) /\ \A j \in 1 .. Len(fs) : fs[j] \in Frame
  BY LenProperties, ElementOfSeq
<1>2. Len(xs) = C(r)
  BY DEF Listed
<1>3. \A n \in Nat : C(n) \in Nat /\ C(0) = 0
  BY CountStep
<1>4. ASSUME NEW n \in Nat, n + 1 <= r
      PROVE  /\ fs[n + 1].type \in Returned =>
                  /\ C(n + 1) = C(n) + 1
                  /\ xs[C(n) + 1].type = fs[n + 1].type
                  /\ xs[C(n) + 1].last = fs[n + 1].fin
             /\ fs[n + 1].type \notin Returned => C(n + 1) = C(n) /\ fs[n + 1].fin
                                                  /\ fs[n + 1].type # WS_OP_CODE_CONTINUE
             /\ fs[n + 1].type = WS_OP_CODE_CONTINUE <=> n >= 1 /\ ~fs[n].fin
  <2>1. n + 1 \in 1 .. r /\ n + 1 \in 1 .. Len(fs) /\ (n + 1 > 1 <=> n >= 1) /\ (n + 1) - 1 = n
    BY <1>1, <1>4
  <2>2. ASSUME fs[n + 1].type \in Returned
        PROVE  /\ C(n + 1) = C(n) + 1
               /\ xs[C(n) + 1].type = fs[n + 1].type
               /\ xs[C(n) + 1].last = fs[n + 1].fin
    <3>1. C(n + 1) = C(n) + 1
      BY <2>2, CountStep
    <3>2. xs[C(n + 1)] = AsResults(fs)[n + 1]
      BY <2>1, <2>2 DEF Listed
    <3>3. AsResults(fs)[n + 1] = [type |-> fs[n + 1].type, last |-> fs[n + 1].fin,
                                  body |-> fs[n + 1].data]
      BY <1>1, <2>1 DEF AsResults
    <3> HIDE DEF C
    <3>4. xs[C(n) + 1] = [type |-> fs[n + 1].type, last |-> fs[n + 1].fin,
                          body |-> fs[n + 1].data]
      BY <3>1, <3>2, <3>3
    <3>5. xs[C(n) + 1].type = fs[n + 1].type /\ xs[C(n) + 1].last = fs[n + 1].fin
      BY <3>4, ResultFields
    <3> QED BY <3>1, <3>5
  <2>3. fs[n + 1].type \notin Returned => C(n + 1) = C(n)
    BY CountStep
  <2>4. /\ fs[n + 1].type = WS_OP_CODE_CONTINUE <=> n + 1 > 1 /\ ~fs[(n + 1) - 1].fin
        /\ fs[n + 1].type \notin Returned => fs[n + 1].fin
    BY <2>1 DEF Chained
  <2>5. WS_OP_CODE_CONTINUE \in Returned
    BY DEF Returned, OpCodes, WS_OP_CODE_CONTINUE, WS_OP_CODE_PING, WS_OP_CODE_PONG
  <2> HIDE DEF C
  <2> QED BY <2>1, <2>2, <2>3, <2>4, <2>5
<1> HIDE DEF C
<1>5. 0 \in N
  <2>1. C(0) = 0 /\ ~(0 >= 1) /\ \A i \in 1 .. 0 : FALSE
    BY <1>3
  <2>2. (\A i \in 1 .. C(0) : Linked(i)) /\ Open(0)
    BY <2>1
  <2> HIDE DEF Linked, Open
  <2> QED BY <2>2
<1>6. ASSUME NEW n \in N
      PROVE  n + 1 \in N
  <2>1. n \in Nat /\ n + 1 \in Nat
    OBVIOUS
  <2>2. ASSUME n + 1 <= r
        PROVE  (\A i \in 1 .. C(n + 1) : Linked(i)) /\ Open(n + 1)
    <3>1. n <= r
      BY <2>1, <2>2
    <3>2. (\A i \in 1 .. C(n) : Linked(i)) /\ Open(n)
      <4> HIDE DEF Linked, Open
      <4> QED BY <3>1
    <3>3. C(n) \in Nat
      BY <1>3, <2>1
    <3>4. fs[n + 1].type = WS_OP_CODE_CONTINUE <=> C(n) >= 1 /\ ~xs[C(n)].last
      <4>1. fs[n + 1].type = WS_OP_CODE_CONTINUE <=> n >= 1 /\ ~fs[n].fin
        BY <1>4, <2>1, <2>2
      <4> QED BY <3>2, <4>1
    <3>5. n + 1 >= 1
      BY <2>1
    <3>6. CASE fs[n + 1].type \in Returned
      <4>1. /\ C(n + 1) = C(n) + 1
            /\ xs[C(n) + 1].type = fs[n + 1].type
            /\ xs[C(n) + 1].last = fs[n + 1].fin
        BY <1>4, <2>1, <2>2, <3>6
      <4>2. Open(n + 1)
        <5>1. C(n) + 1 >= 1
          BY <3>3
        <5> QED BY <3>5, <4>1, <5>1
      <4>3. Linked(C(n) + 1)
        <5>1. (C(n) + 1 > 1 <=> C(n) >= 1) /\ (C(n) + 1) - 1 = C(n)
          BY <3>3
        <5>2. xs[C(n) + 1].type = WS_OP_CODE_CONTINUE <=> C(n) >= 1 /\ ~xs[C(n)].last
          BY <3>4, <4>1
        <5> QED BY <5>1, <5>2
      <4> HIDE DEF Linked, Open
      <4>4. \A i \in 1 .. C(n) + 1 : i \in 1 .. C(n) \/ i = C(n) + 1
        BY <3>3
      <4>5. \A i \in 1 .. C(n) + 1 : Linked(i)
        BY <3>2, <4>3, <4>4
      <4> QED BY <4>1, <4>2, <4>5
    <3>7. CASE fs[n + 1].type \notin Returned
      <4>1. C(n + 1) = C(n) /\ fs[n + 1].fin /\ fs[n + 1].type # WS_OP_CODE_CONTINUE
        BY <1>4, <2>1, <2>2, <3>7
      <4>2. Open(n + 1)
        BY <3>4, <4>1
      <4> HIDE DEF Linked, Open
      <4> QED BY <3>2, <4>1, <4>2
    <3> QED BY <3>6, <3>7
  <2> HIDE DEF Linked, Open
  <2> QED BY <2>1, <2>2
<1>7. N \in SUBSET Nat
  OBVIOUS
<1> HIDE DEF N
<1>8. r \in N
  BY <1>5, <1>6, <1>7, Induction
<1>9. r <= r
  OBVIOUS
<1>10. \A i \in 1 .. C(r) : Linked(i)
  <2> HIDE DEF Linked, Open
  <2> QED BY <1>8, <1>9 DEF N
<1> QED BY <1>2, <1>10

\* ws_client_impl.h:103, for a connection on which one coroutine sends and frames
\* arrive whole: a frame has opcode 0 exactly when the one before it was not the last
\* of its message, wherever the connection breaks in a message.
THEOREM FragmentsStayTogether ==
  ASSUME NEW s, Senders = {s}
  PROVE  Spec => []FragmentsTogether
<1>1. WsTypes /\ WholeInv /\ ChainInv(s) => FragmentsTogether
  <2> SUFFICES ASSUME WsTypes, WholeInv, ChainInv(s), Whole
               PROVE  \A i \in DOMAIN results :
                        results[i].type = WS_OP_CODE_CONTINUE <=> i > 1 /\ ~results[i - 1].last
    BY DEF FragmentsTogether
  <2>1. PICK K, F, B : \E a, c, r, q \in Nat : WholeAt(K, F, B, a, c, r, q)
    BY DEF WholeInv
  <2>2. PICK a \in Nat, c \in Nat, r \in Nat, q \in Nat : WholeAt(K, F, B, a, c, r, q)
    BY <2>1
  <2>3. /\ Layout(sent, K, F, B) /\ r <= a /\ InFlight(flight, F, a, broken)
        /\ Listed(results, sent, AsResults(sent), r, Returned)
    BY <2>2 DEF WholeAt
  <2>4. r <= Len(sent)
    <3>1. a + Len(flight) <= Len(F)
      BY <2>3 DEF InFlight
    <3>2. Len(F) = Len(sent) /\ Len(sent) \in Nat
      BY <2>3, LayoutFacts
    <3>3. flight \in Seq(Seq(ByteRange))
      BY DEF WsTypes
    <3>4. Len(flight) \in Nat
      BY <3>3, LenProperties
    <3>5. a <= Len(sent)
      BY <3>1, <3>2, <3>4
    <3> QED BY <2>3, <3>2, <3>5
  <2>5. sent \in Seq(Frame) /\ Chained(sent)
    BY DEF WsTypes, ChainInv
  <2>6. Len(results) \in Nat /\ DOMAIN results = 1 .. Len(results)
    BY LenProperties DEF WsTypes
  <2> QED BY <2>3, <2>4, <2>5, <2>6, ChainedResults
<1>2. s \in Senders
  OBVIOUS
<1>3. Init => ChainInv(s)
  BY <1>2, ChainInit
<1>4. WsTypes /\ ChainInv(s) /\ [Next]_vars => ChainInv(s)'
  BY ChainNext
<1> QED BY <1>1, <1>3, <1>4, TypesInit, TypesNext, WholeInit, WholeNext, PTL DEF Spec
-----------------------------------------------------------------------------
(* Frames in pieces. *)

\* The bytes x lie in t behind its first o.
Run(x, t, o) ==
  /\ o \in Nat /\ o + Len(x) <= Len(t)
  /\ \A i \in 1 .. Len(x) : x[i] = t[o + i]

\* Four bytes that came in t before byte o, or none.
KeyBefore(k, t, o) ==
  k = <<>> \/ \E h \in 1 .. o - 3 : \A i \in 1 .. 4 : k[i] = t[h + i - 1]

\* Eight bytes of t that stand for a number below 0.
LongSize(t) ==
  \E o \in Nat, x \in Seq(ByteRange) : Run(x, t, o) /\ Len(x) = 8 /\ FromBigEndian(x) < 0

\* A body is a run of t, unmasked with bytes that came before it; filled up only when
\* there are such eight bytes.
Heard(b, t) ==
  \E o \in Nat, d \in Seq(ByteRange), k \in Masks :
    /\ Run(d, t, o) /\ KeyBefore(k, t, o)
    /\ b = Mask(d, k) \/ (b = Append(Mask(d, k), Stale) /\ LongSize(t))

\* The pieces of what is in flight lie one behind the other in t, each where P says.
Pieces(fl, t, P, lost) ==
  /\ P \in [Nat -> Nat]
  /\ \A i \in 1 .. Len(fl) : Run(fl[i], t, P[i]) /\ P[i + 1] = P[i] + Len(fl[i])
  /\ \A i \in 1 .. Len(fl) + 1 : P[i] <= Len(t)
  /\ ~lost => P[Len(fl) + 1] = Len(t)

\* All that was sent is t: the receiver has read, or lost, its first c bytes.
StreamAt(t, c, P) ==
  /\ t \in Seq(ByteRange)
  /\ Run(socket, t, c) /\ P[1] = c + Len(socket)
  /\ Pieces(flight, t, P, broken)
  /\ KeyBefore(key, t, c)
  /\ \A i \in DOMAIN results : Heard(results[i].body, t)

Unmasked == \A i \in DOMAIN sent : ~sent[i].masked

\* The size that recv_ws has read is below 0 only if such bytes were sent.
LongInv == Unmasked /\ size < 0 => LongSize(Stream)

StreamInv == Unmasked => \E c \in Nat, P \in [Nat -> Nat] : StreamAt(Stream, c, P)

\* What lies in a sequence lies in it when more is behind it.
LEMMA RunLonger ==
  ASSUME NEW t \in Seq(ByteRange), NEW u \in Seq(ByteRange), NEW x \in Seq(ByteRange), NEW o,
         Run(x, t, o)
  PROVE  Run(x, t \o u, o)
<1>1. Len(t) \in Nat /\ Len(u) \in Nat /\ Len(x) \in Nat
  BY LenProperties
<1>2. Len(t \o u) = Len(t) + Len(u) /\ \A i \in 1 .. Len(t) : (t \o u)[i] = t[i]
  BY Concat
<1> DEFINE v == t \o u
<1>3. Len(v) = Len(t) + Len(u) /\ \A i \in 1 .. Len(t) : v[i] = t[i]
  BY <1>2
<1> HIDE DEF v
<1>4. o \in Nat /\ o + Len(x) <= Len(t) /\ \A i \in 1 .. Len(x) : x[i] = t[o + i]
  BY DEF Run
<1>5. o + Len(x) <= Len(v) /\ \A i \in 1 .. Len(x) : o + i \in 1 .. Len(t)
  BY <1>1, <1>3, <1>4
<1>6. \A i \in 1 .. Len(x) : x[i] = v[o + i]
  BY <1>3, <1>4, <1>5
<1>7. Run(x, v, o)
  BY <1>4, <1>5, <1>6 DEF Run
<1> QED BY <1>7 DEF v

\* The key of the receiver stays one of what was sent, when more is sent or read.
LEMMA KeyLater ==
  ASSUME NEW t, NEW v, NEW n \in Nat, NEW o \in Nat, NEW p \in Nat, NEW k,
         o <= n, o <= p, \A i \in 1 .. n : v[i] = t[i], KeyBefore(k, t, o)
  PROVE  KeyBefore(k, v, p)
<1>1. CASE k = <<>>
  BY <1>1 DEF KeyBefore
<1>2. CASE \E h \in 1 .. o - 3 : \A i \in 1 .. 4 : k[i] = t[h + i - 1]
  <2>1. PICK h \in 1 .. o - 3 : \A i \in 1 .. 4 : k[i] = t[h + i - 1]
    BY <1>2
  <2>2. h \in 1 .. p - 3 /\ \A i \in 1 .. 4 : h + i - 1 \in 1 .. n
    BY <2>1
  <2>3. \A i \in 1 .. 4 : k[i] = v[h + i - 1]
    BY <2>1, <2>2
  <2> QED BY <2>2, <2>3 DEF KeyBefore
<1> QED BY <1>1, <1>2 DEF KeyBefore

\* The bytes of a size stay when more is sent.
LEMMA LongLonger ==
  ASSUME NEW t \in Seq(ByteRange), NEW u \in Seq(ByteRange), LongSize(t)
  PROVE  LongSize(t \o u)
<1>1. PICK o \in Nat, x \in Seq(ByteRange) : Run(x, t, o) /\ Len(x) = 8 /\ FromBigEndian(x) < 0
  BY DEF LongSize
<1>2. Run(x, t \o u, o)
  BY <1>1, RunLonger
<1> QED BY <1>1, <1>2 DEF LongSize

\* A body stays one of what was sent when more is sent.
LEMMA HeardLonger ==
  ASSUME NEW t \in Seq(ByteRange), NEW u \in Seq(ByteRange), NEW b, Heard(b, t)
  PROVE  Heard(b, t \o u)
<1>1. PICK o \in Nat, d \in Seq(ByteRange), k \in Masks :
        /\ Run(d, t, o) /\ KeyBefore(k, t, o)
        /\ b = Mask(d, k) \/ (b = Append(Mask(d, k), Stale) /\ LongSize(t))
  BY DEF Heard
<1>2. Run(d, t \o u, o)
  BY <1>1, RunLonger
<1> DEFINE v == t \o u
<1>3. Len(t) \in Nat /\ Len(d) \in Nat /\ \A i \in 1 .. Len(t) : v[i] = t[i]
  BY LenProperties, Concat
<1> HIDE DEF v
<1>4. o <= Len(t) /\ o <= o
  BY <1>1, <1>3 DEF Run
<1>5. KeyBefore(k, v, o)
  BY <1>1, <1>3, <1>4, KeyLater
<1>6. LongSize(t) => LongSize(v)
  BY LongLonger DEF v
<1> QED BY <1>1, <1>2, <1>5, <1>6 DEF Heard, v

\* The first n bytes of a run, and the others.
LEMMA RunCut ==
  ASSUME NEW t \in Seq(ByteRange), NEW x \in Seq(ByteRange), NEW o, Run(x, t, o),
         NEW n \in 0 .. Len(x)
  PROVE  /\ SubSeq(x, 1, n) \in Seq(ByteRange) /\ Len(SubSeq(x, 1, n)) = n
         /\ SubSeq(x, n + 1, Len(x)) \in Seq(ByteRange)
         /\ Len(SubSeq(x, n + 1, Len(x))) = Len(x) - n
         /\ Run(SubSeq(x, 1, n), t, o) /\ Run(SubSeq(x, n + 1, Len(x)), t, o + n)
<1>1. Len(t) \in Nat /\ Len(x) \in Nat /\ n \in Nat /\ 0 <= n /\ n <= Len(x) /\ 0 \in Nat
      /\ Len(x) <= Len(x)
  BY LenProperties
<1> DEFINE l == SubSeq(x, 0 + 1, n)
           r == SubSeq(x, n + 1, Len(x))
<1>2. l \in Seq(ByteRange) /\ Len(l) = n - 0 /\ \A i \in 1 .. n - 0 : l[i] = x[0 + i]
  BY <1>1, Cut
<1>3. r \in Seq(ByteRange) /\ Len(r) = Len(x) - n /\ \A i \in 1 .. Len(x) - n : r[i] = x[n + i]
  BY <1>1, Cut
<1>4. l = SubSeq(x, 1, n)
  OBVIOUS
<1> HIDE DEF l, r
<1>5. Run(l, t, o)
  <2>1. o \in Nat /\ o + Len(x) <= Len(t) /\ \A i \in 1 .. Len(x) : x[i] = t[o + i]
    BY DEF Run
  <2>2. Len(l) = n /\ \A i \in 1 .. n : l[i] = x[i] /\ i \in 1 .. Len(x)
    BY <1>1, <1>2
  <2>3. o + Len(l) <= Len(t) /\ \A i \in 1 .. Len(l) : l[i] = t[o + i]
    BY <1>1, <2>1, <2>2, SMTT(30)
  <2> QED BY <2>1, <2>3 DEF Run
<1>6. Run(r, t, o + n)
  <2>1. o \in Nat /\ o + Len(x) <= Len(t) /\ \A i \in 1 .. Len(x) : x[i] = t[o + i]
    BY DEF Run
  <2>2. o + n \in Nat /\ o + n + Len(r) <= Len(t)
    BY <1>1, <1>3, <2>1
  <2>3. ASSUME NEW i \in 1 .. Len(r) PROVE r[i] = t[(o + n) + i]
    <3>1. r[i] = x[n + i] /\ n + i \in 1 .. Len(x) /\ o + (n + i) = (o + n) + i
      BY <1>1, <1>3, <2>1
    <3> QED BY <2>1, <3>1
  <2> QED BY <2>2, <2>3 DEF Run
<1>7. Len(l) = n
  BY <1>1, <1>2
<1> QED BY <1>2, <1>3, <1>4, <1>5, <1>6, <1>7 DEF r

\* Two runs one behind the other are one.
LEMMA RunsTogether ==
  ASSUME NEW t \in Seq(ByteRange), NEW x \in Seq(ByteRange), NEW y \in Seq(ByteRange), NEW o,
         Run(x, t, o), Run(y, t, o + Len(x))
  PROVE  x \o y \in Seq(ByteRange) /\ Len(x \o y) = Len(x) + Len(y) /\ Run(x \o y, t, o)
<1>1. Len(t) \in Nat /\ Len(x) \in Nat /\ Len(y) \in Nat
  BY LenProperties
<1> DEFINE z == x \o y
<1>2. /\ z \in Seq(ByteRange) /\ Len(z) = Len(x) + Len(y)
      /\ \A i \in 1 .. Len(x) : z[i] = x[i]
      /\ \A j \in 1 .. Len(y) : z[Len(x) + j] = y[j]
  BY Concat
<1> HIDE DEF z
<1>3. o \in Nat /\ o + Len(x) + Len(y) <= Len(t)
  BY <1>1 DEF Run
<1>4. ASSUME NEW i \in 1 .. Len(z) PROVE z[i] = t[o + i]
  <2>1. CASE i <= Len(x)
    BY <1>1, <1>2, <1>3, <2>1 DEF Run
  <2>2. CASE i > Len(x)
    <3>1. PICK j \in 1 .. Len(y) : i = Len(x) + j
      <4>1. i - Len(x) \in 1 .. Len(y) /\ i = Len(x) + (i - Len(x))
        BY <1>1, <1>2, <2>2
      <4> QED BY <4>1
    <3>2. z[i] = y[j] /\ y[j] = t[(o + Len(x)) + j] /\ (o + Len(x)) + j = o + i
      BY <1>1, <1>2, <1>3, <3>1 DEF Run
    <3> QED BY <3>2
  <2> QED BY <1>1, <2>1, <2>2
<1> QED BY <1>1, <1>2, <1>3, <1>4 DEF Run, z

\* The bytes of frames sent without a mask.
Plain(fs) == [i \in DOMAIN fs |-> CreateSinglePacket(fs[i].data, fs[i].type, fs[i].fin, <<>>)]

\* They are sequences of bytes, one for each frame.
LEMMA PlainType ==
  ASSUME NEW fs \in Seq(Frame)
  PROVE  Plain(fs) \in Seq(Seq(ByteRange)) /\ Len(Plain(fs)) = Len(fs)
<1>1. Len(fs) \in Nat /\ DOMAIN fs = 1 .. Len(fs)
  BY LenProperties
<1>2. \A i \in 1 .. Len(fs) : Plain(fs)[i] \in Seq(ByteRange)
  <2> SUFFICES ASSUME NEW i \in 1 .. Len(fs)
               PROVE  Plain(fs)[i] \in Seq(ByteRange)
    OBVIOUS
  <2>1. fs[i] \in Frame
    BY ElementOfSeq
  <2>2. /\ fs[i].data \in Seq(ByteRange) /\ Len(fs[i].data) < FrameLimit
        /\ fs[i].type \in OpCodes /\ fs[i].fin \in BOOLEAN
    BY <2>1 DEF Frame
  <2>3. <<>> \in Masks
    BY DEF Masks
  <2>4. CreateSinglePacket(fs[i].data, fs[i].type, fs[i].fin, <<>>) \in Seq(ByteRange)
    BY <2>2, <2>3, PacketIsFrame, Zenon DEF IsFrame
  <2> QED BY <1>1, <2>4 DEF Plain
<1>3. Plain(fs) = [i \in 1 .. Len(fs) |-> Plain(fs)[i]]
  BY <1>1 DEF Plain
<1> QED BY <1>1, <1>2, <1>3, FunctionIsSeq

\* The stream is longer by the bytes of the frame sent.
LEMMA StreamLonger ==
  ASSUME sent \in Seq(Frame), NEW f \in Frame, sent' = Append(sent, f),
         NEW p, p = CreateSinglePacket(f.data, f.type, f.fin, <<>>)
  PROVE  /\ Stream \in Seq(ByteRange) /\ p \in Seq(ByteRange)
         /\ Stream' = Stream \o p
<1>1. Plain(sent) \in Seq(Seq(ByteRange)) /\ Len(Plain(sent)) = Len(sent)
      /\ Len(sent) \in Nat /\ DOMAIN sent = 1 .. Len(sent)
  BY PlainType, LenProperties
<1>2. p \in Seq(ByteRange)
  <2>1. /\ f.data \in Seq(ByteRange) /\ Len(f.data) < FrameLimit
        /\ f.type \in OpCodes /\ f.fin \in BOOLEAN
    BY DEF Frame
  <2>2. <<>> \in Masks
    BY DEF Masks
  <2> QED BY <2>1, <2>2, PacketIsFrame, Zenon DEF IsFrame
<1> DEFINE more == Append(sent, f)
<1>0. PICK n \in Nat : n = Len(sent)
  BY <1>1
<1>3. /\ DOMAIN sent = 1 .. n /\ DOMAIN more = 1 .. n + 1
      /\ more[n + 1] = f /\ \A i \in 1 .. n : more[i] = sent[i]
  <2>1. /\ more \in Seq(Frame) /\ Len(more) = n + 1
        /\ \A i \in 1 .. n : more[i] = sent[i]
        /\ more[n + 1] = f
    BY AppendProperties, <1>0
  <2> HIDE DEF more
  <2>2. DOMAIN more = 1 .. Len(more)
    BY <2>1, LenProperties
  <2>3. DOMAIN more = 1 .. n + 1
    BY <2>1, <2>2, Zenon
  <2>4. DOMAIN sent = 1 .. n
    BY <1>0, <1>1, Zenon
  <2> QED BY <2>1, <2>3, <2>4
<1> HIDE DEF more
<1>4. Plain(more) = Append(Plain(sent), p)
  <2> DEFINE l == Plain(more)
             s == Plain(sent)
             r == Append(s, p)
  <2>1. DOMAIN l = 1 .. n + 1 /\ l = [i \in 1 .. n + 1 |-> l[i]]
    BY <1>3 DEF Plain
  <2>2. l[n + 1] = p
    <3>1. n + 1 \in 1 .. n + 1
      OBVIOUS
    <3> QED BY <1>3, <3>1 DEF Plain
  <2>3. \A i \in 1 .. n : l[i] = s[i]
    <3>1. \A i \in 1 .. n : i \in 1 .. n + 1
      OBVIOUS
    <3> QED BY <1>3, <3>1, Zenon DEF Plain
  <2> HIDE DEF l, s
  <2>4. s \in Seq(Seq(ByteRange)) /\ Len(s) = n
    BY <1>0, <1>1, Zenon DEF s
  <2>5. /\ r \in Seq(Seq(ByteRange)) /\ Len(r) = n + 1
        /\ \A i \in 1 .. n : r[i] = s[i]
        /\ r[n + 1] = p
    BY <1>2, <2>4, AppendProperties
  <2> HIDE DEF r
  <2>6. r = [i \in 1 .. n + 1 |-> r[i]]
    BY <2>5, LenProperties
  <2>7. ASSUME NEW i \in 1 .. n + 1 PROVE l[i] = r[i]
    <3>1. i = n + 1 \/ i \in 1 .. n
      OBVIOUS
    <3> QED BY <2>2, <2>3, <2>5, <3>1, Zenon
  <2>8. l = r
    BY <2>1, <2>6, <2>7, Zenon
  <2> QED BY <2>8 DEF l, r, s
<1>5. Stream = FlattenSeq(Plain(sent)) /\ Stream' = FlattenSeq(Plain(more))
  BY Zenon DEF Stream, Plain, more
<1>6. FlattenSeq(Append(Plain(sent), p)) = FlattenSeq(Plain(sent)) \o p
  BY <1>1, <1>2, FlattenAppend
<1> QED BY <1>1, <1>2, <1>4, <1>5, <1>6, FlattenType

\* One more piece in flight.
LEMMA PiecesMore ==
  ASSUME NEW fl \in Seq(Seq(ByteRange)), NEW t \in Seq(ByteRange), NEW P, NEW lost, ~lost,
         Pieces(fl, t, P, lost), NEW p \in Seq(ByteRange)
  PROVE  \E Q : Pieces(Append(fl, p), t \o p, Q, lost) /\ Q[1] = P[1]
<1>1. /\ Len(fl) \in Nat /\ Len(t) \in Nat /\ Len(p) \in Nat
      /\ \A i \in 1 .. Len(fl) : fl[i] \in Seq(ByteRange)
  BY LenProperties, ElementOfSeq
<1>2. /\ P \in [Nat -> Nat]
      /\ \A i \in 1 .. Len(fl) : Run(fl[i], t, P[i]) /\ P[i + 1] = P[i] + Len(fl[i])
      /\ \A i \in 1 .. Len(fl) + 1 : P[i] <= Len(t)
      /\ P[Len(fl) + 1] = Len(t)
  BY DEF Pieces
<1> DEFINE n == Len(fl)
           Q == [i \in Nat |-> IF i <= n + 1 THEN P[i] ELSE Len(t) + Len(p)]
           more == Append(fl, p)
           u == t \o p
<1>3. n \in Nat /\ Len(more) = n + 1 /\ more[n + 1] = p /\ \A i \in 1 .. n : more[i] = fl[i]
  BY <1>1, AppendProperties
<1>4. /\ u \in Seq(ByteRange) /\ Len(u) = Len(t) + Len(p)
      /\ \A i \in 1 .. Len(p) : u[Len(t) + i] = p[i]
  BY Concat
<1>5. \A i \in 1 .. n : Run(fl[i], u, P[i])
  BY <1>1, <1>2, RunLonger
<1>6. Run(p, u, Len(t))
  <2> HIDE DEF u
  <2> QED BY <1>1, <1>4 DEF Run
<1> HIDE DEF n
<1>7. /\ Q \in [Nat -> Nat] /\ Q[1] = P[1] /\ Q[n + 1] = P[n + 1] /\ Q[n + 2] = Len(t) + Len(p)
      /\ \A i \in 1 .. n : Q[i] = P[i] /\ Q[i + 1] = P[i + 1]
  <2>1. Q \in [Nat -> Nat]
    BY <1>1, <1>2
  <2> QED BY <1>3, <2>1
<1> HIDE DEF Q, u, more
<1>8. ASSUME NEW i \in 1 .. n + 1
      PROVE  Run(more[i], u, Q[i]) /\ Q[i + 1] = Q[i] + Len(more[i]) /\ Q[i] <= Len(u)
  <2>1. CASE i = n + 1
    <3>1. Q[i] = Len(t) /\ more[i] = p /\ Q[i + 1] = Len(t) + Len(p)
      BY <1>2, <1>3, <1>7, <2>1 DEF n
    <3> QED BY <1>1, <1>4, <1>6, <3>1
  <2>2. CASE i \in 1 .. n
    <3>1. Q[i] = P[i] /\ more[i] = fl[i] /\ Q[i + 1] = P[i + 1] /\ i \in 1 .. n + 1
      BY <1>3, <1>7, <2>2
    <3>2. Run(fl[i], u, P[i]) /\ P[i + 1] = P[i] + Len(fl[i]) /\ P[i] <= Len(t)
      BY <1>2, <1>5, <2>2, <3>1 DEF n
    <3>3. P[i] \in Nat
      BY <1>2, <2>2
    <3> QED BY <1>1, <1>4, <3>1, <3>2, <3>3
  <2> QED BY <1>3, <2>1, <2>2
<1>9. Q[n + 2] = Len(u)
  BY <1>4, <1>7
<1>10. Len(more) = n + 1 /\ \A i \in 1 .. n + 2 : i \in 1 .. n + 1 \/ i = n + 2
  BY <1>3
<1>11. Len(more) + 1 = n + 2
  BY <1>3
<1>12. \A i \in 1 .. n + 2 : Q[i] <= Len(u)
  <2>1. Len(u) <= Len(u)
    BY <1>1, <1>4
  <2> QED BY <1>8, <1>9, <1>10, <2>1
<1>13. Pieces(more, u, Q, lost)
  BY <1>7, <1>8, <1>9, <1>10, <1>11, <1>12, Zenon DEF Pieces
<1> QED BY <1>7, <1>13 DEF more, u

\* Pieces are lost with all that are behind them.
LEMMA PiecesLost ==
  ASSUME NEW fl \in Seq(Seq(ByteRange)), NEW t, NEW P, NEW lost,
         Pieces(fl, t, P, lost), NEW n \in 0 .. Len(fl)
  PROVE  Pieces(SubSeq(fl, 1, n), t, P, TRUE)
<1>1. Len(fl) \in Nat /\ n \in Nat /\ 0 \in Nat /\ 0 <= n /\ n <= Len(fl)
  BY LenProperties
<1> DEFINE l == SubSeq(fl, 0 + 1, n)
<1>2. Len(l) = n - 0 /\ \A i \in 1 .. n - 0 : l[i] = fl[0 + i]
  BY <1>1, Cut
<1>3. l = SubSeq(fl, 1, n)
  OBVIOUS
<1> HIDE DEF l
<1>4. Len(l) = n /\ \A i \in 1 .. n : l[i] = fl[i] /\ i \in 1 .. Len(fl)
  BY <1>1, <1>2
<1>5. \A i \in 1 .. n + 1 : i \in 1 .. Len(fl) + 1
  BY <1>1
<1>6. Pieces(l, t, P, TRUE)
  BY <1>4, <1>5, Zenon DEF Pieces
<1> QED BY <1>3, <1>6

\* l are the m elements of fl behind the first; l differs from fl in the first alone.
Behind(l, fl, m) == Len(fl) = m + 1 /\ Len(l) = m /\ \A i \in 1 .. m : l[i] = fl[i + 1]
Besides(l, fl, m) ==
  Len(fl) = m + 1 /\ Len(l) = m + 1 /\ \A i \in 1 .. m : l[i + 1] = fl[i + 1]

\* The pieces but the oldest.
LEMMA PiecesTail ==
  ASSUME NEW fl, NEW l, NEW m \in Nat, Behind(l, fl, m),
         NEW t, NEW P, NEW lost, Pieces(fl, t, P, lost)
  PROVE  \E Q : Pieces(l, t, Q, lost) /\ Q[1] = P[2]
<1>0. Len(fl) = m + 1 /\ Len(l) = m /\ \A i \in 1 .. m : l[i] = fl[i + 1]
  BY DEF Behind
<1>1. /\ P \in [Nat -> Nat]
      /\ \A i \in 1 .. m + 1 : Run(fl[i], t, P[i]) /\ P[i + 1] = P[i] + Len(fl[i])
      /\ \A i \in 1 .. (m + 1) + 1 : P[i] <= Len(t)
      /\ ~lost => P[(m + 1) + 1] = Len(t)
  BY <1>0, Zenon DEF Pieces
<1> DEFINE Q == [i \in Nat |-> P[i + 1]]
<1>2. Q \in [Nat -> Nat] /\ \A i \in Nat : Q[i] = P[i + 1]
  <2>1. \A i \in Nat : P[i + 1] \in Nat
    <3>1. \A i \in Nat : i + 1 \in Nat
      OBVIOUS
    <3> QED BY <1>1, <3>1, Zenon
  <2> QED BY <2>1
<1> HIDE DEF Q
<1>3. \A i \in 1 .. m : /\ i + 1 \in 1 .. m + 1 /\ i \in Nat /\ i + 1 \in Nat
  OBVIOUS
<1>4. \A i \in 1 .. m : Run(l[i], t, Q[i]) /\ Q[i + 1] = Q[i] + Len(l[i])
  BY <1>0, <1>1, <1>2, <1>3, Zenon
<1>5. \A i \in 1 .. m + 1 : Q[i] <= Len(t)
  <2>1. \A i \in 1 .. m + 1 : i \in Nat /\ i + 1 \in 1 .. (m + 1) + 1
    OBVIOUS
  <2> QED BY <1>1, <1>2, <2>1, Zenon
<1>6. ~lost => Q[m + 1] = Len(t)
  <2>1. m + 1 \in Nat
    OBVIOUS
  <2> QED BY <1>1, <1>2, <2>1, Zenon
<1>7. Pieces(l, t, Q, lost)
  BY <1>0, <1>2, <1>4, <1>5, <1>6, Zenon DEF Pieces
<1>8. Q[1] = P[2]
  <2>1. 1 \in Nat /\ 1 + 1 = 2
    OBVIOUS
  <2> QED BY <1>2, <2>1
<1> QED BY <1>7, <1>8

\* The oldest piece is replaced by one that begins at o and ends where it did.
LEMMA PiecesFirst ==
  ASSUME NEW fl, NEW l, NEW m \in Nat, Besides(l, fl, m),
         NEW t, NEW P, NEW lost, Pieces(fl, t, P, lost),
         NEW o \in Nat, Run(l[1], t, o), P[2] = o + Len(l[1]), o <= Len(t)
  PROVE  \E Q : Pieces(l, t, Q, lost) /\ Q[1] = o
<1>0. Len(fl) = m + 1 /\ Len(l) = m + 1 /\ \A i \in 1 .. m : l[i + 1] = fl[i + 1]
  BY DEF Besides
<1>1. /\ P \in [Nat -> Nat]
      /\ \A i \in 1 .. m + 1 : Run(fl[i], t, P[i]) /\ P[i + 1] = P[i] + Len(fl[i])
      /\ \A i \in 1 .. (m + 1) + 1 : P[i] <= Len(t)
      /\ ~lost => P[(m + 1) + 1] = Len(t)
  BY <1>0, Zenon DEF Pieces
<1> DEFINE Q == [i \in Nat |-> IF i = 1 THEN o ELSE P[i]]
<1>2. /\ Q \in [Nat -> Nat] /\ Q[1] = o
      /\ \A i \in 1 .. m + 1 : Q[i + 1] = P[i + 1]
  <2>1. Q \in [Nat -> Nat] /\ \A i \in Nat : Q[i] = IF i = 1 THEN o ELSE P[i]
    BY <1>1, Zenon
  <2> HIDE DEF Q
  <2>2. 1 \in Nat /\ \A i \in 1 .. m + 1 : i + 1 \in Nat /\ i + 1 # 1
    OBVIOUS
  <2> QED BY <2>1, <2>2, Zenon
<1> HIDE DEF Q
<1>3. ASSUME NEW i \in 1 .. m + 1
      PROVE  Run(l[i], t, Q[i]) /\ Q[i + 1] = Q[i] + Len(l[i]) /\ Q[i] <= Len(t)
  <2>1. CASE i = 1
    <3>1. Q[1 + 1] = P[1 + 1] /\ 1 + 1 = 2
      <4>1. 1 \in 1 .. m + 1 /\ 1 + 1 = 2
        OBVIOUS
      <4> QED BY <1>2, <4>1, Zenon
    <3> QED BY <1>2, <2>1, <3>1, Zenon
  <2>2. CASE i # 1
    <3>1. PICK j \in 1 .. m : i = j + 1
      <4>1. i - 1 \in 1 .. m /\ i = (i - 1) + 1
        BY <2>2
      <4> QED BY <4>1, Zenon
    <3>2. j \in 1 .. m + 1 /\ i \in 1 .. (m + 1) + 1
      OBVIOUS
    <3>3. l[i] = fl[i] /\ Q[i] = P[i] /\ Q[i + 1] = P[i + 1]
      BY <1>0, <1>2, <3>1, <3>2, Zenon
    <3> QED BY <1>1, <3>2, <3>3, Zenon
  <2> QED BY <2>1, <2>2
<1>4. Q[(m + 1) + 1] = P[(m + 1) + 1]
  <2>1. m + 1 \in 1 .. m + 1
    OBVIOUS
  <2> QED BY <1>2, <2>1, Zenon
<1>5. \A i \in 1 .. (m + 1) + 1 : Q[i] <= Len(t)
  <2>1. \A i \in 1 .. (m + 1) + 1 : i \in 1 .. m + 1 \/ i = (m + 1) + 1
    OBVIOUS
  <2>2. (m + 1) + 1 \in 1 .. (m + 1) + 1
    OBVIOUS
  <2>3. P[(m + 1) + 1] <= Len(t)
    BY <1>1, <2>2, Zenon
  <2> QED BY <1>3, <1>4, <2>1, <2>3, Zenon
<1>6. Pieces(l, t, Q, lost)
  BY <1>0, <1>1, <1>2, <1>3, <1>4, <1>5, Zenon DEF Pieces
<1> QED BY <1>2, <1>6, Zenon

\* What is left of the oldest piece, and of all of them, behind its first n bytes.
Left(fl, n, rest, next) ==
  /\ rest = SubSeq(Head(fl), n + 1, Len(Head(fl)))
  /\ next = IF rest = <<>> THEN Tail(fl) ELSE <<rest>> \o Tail(fl)

\* The first n bytes of the oldest piece arrive.
LEMMA PiecesArrive ==
  ASSUME NEW fl \in Seq(Seq(ByteRange)), fl # <<>>, NEW t \in Seq(ByteRange), NEW P, NEW lost,
         Pieces(fl, t, P, lost), NEW n \in 1 .. Len(Head(fl)),
         NEW rest, NEW next, Left(fl, n, rest, next)
  PROVE  /\ Run(SubSeq(Head(fl), 1, n), t, P[1]) /\ Len(SubSeq(Head(fl), 1, n)) = n
         /\ SubSeq(Head(fl), 1, n) \in Seq(ByteRange)
         /\ \E Q : Pieces(next, t, Q, lost) /\ Q[1] = P[1] + n
<1>1. PICK h \in Seq(ByteRange), tl \in Seq(Seq(ByteRange)) :
        /\ h = Head(fl) /\ h = fl[1] /\ tl = Tail(fl)
        /\ Len(fl) = Len(tl) + 1
        /\ \A i \in 1 .. Len(tl) : tl[i] = fl[i + 1]
  <2>1. /\ Head(fl) = fl[1] /\ Head(fl) \in Seq(ByteRange)
        /\ Tail(fl) \in Seq(Seq(ByteRange)) /\ Len(Tail(fl)) = Len(fl) - 1
        /\ \A i \in 1 .. Len(Tail(fl)) : Tail(fl)[i] = fl[i + 1]
    BY HeadTailProperties
  <2>2. Len(fl) \in Nat /\ (Len(fl) - 1) + 1 = Len(fl)
    BY LenProperties
  <2> QED BY <2>1, <2>2, Zenon
<1>2. PICK m \in Nat : m = Len(tl)
  BY LenProperties
<1>3. PICK w \in Nat : w = Len(h)
  BY LenProperties
<1>4. n \in 0 .. Len(h) /\ n \in 1 .. w
  BY <1>1, <1>3
<1>5. /\ P[1] \in Nat /\ P[2] = P[1] + w /\ Run(h, t, P[1])
  <2>1. 1 \in 1 .. m + 1 /\ 1 + 1 = 2 /\ 1 \in Nat
    OBVIOUS
  <2>2. Len(fl) = m + 1
    BY <1>1, <1>2
  <2>3. Run(fl[1], t, P[1]) /\ P[1 + 1] = P[1] + Len(fl[1]) /\ P \in [Nat -> Nat]
    BY <2>1, <2>2, Zenon DEF Pieces
  <2> QED BY <1>1, <1>3, <2>1, <2>3, Zenon
<1>6. /\ SubSeq(h, 1, n) \in Seq(ByteRange) /\ Len(SubSeq(h, 1, n)) = n
      /\ rest \in Seq(ByteRange) /\ Len(rest) = w - n
      /\ Run(SubSeq(h, 1, n), t, P[1]) /\ Run(rest, t, P[1] + n)
  <2>1. rest = SubSeq(h, n + 1, Len(h))
    BY <1>1, Zenon DEF Left
  <2> QED BY <1>3, <1>4, <1>5, <2>1, RunCut, SMTT(30)
<1>7. PICK o \in Nat : o = P[1] + n
  BY <1>4, <1>5
<1>8. o + (w - n) = P[2] /\ o <= Len(t)
  <2>1. PICK p \in Nat : p = P[1]
    BY <1>5
  <2>2. PICK z \in Nat : z = Len(t)
    BY LenProperties
  <2>3. p + w <= z
    BY <1>3, <1>5, <2>1, <2>2, Zenon DEF Run
  <2>4. o = p + n /\ P[2] = p + w
    BY <1>5, <1>7, <2>1
  <2>5. o + (w - n) = p + w /\ o <= z
    BY <1>4, <2>3, <2>4
  <2> QED BY <2>2, <2>4, <2>5
<1>9. Len(fl) = m + 1
  BY <1>1, <1>2
<1>10. CASE rest = <<>>
  <2>1. Len(rest) = 0
    BY <1>10
  <2>2. w - n = 0
    BY <1>6, <2>1, Zenon
  <2>3. P[2] = o
    BY <1>8, <2>2
  <2>4. \E Q : Pieces(tl, t, Q, lost) /\ Q[1] = P[2]
    <3>1. Behind(tl, fl, m)
      BY <1>1, <1>2, <1>9, Zenon DEF Behind
    <3> QED BY <3>1, PiecesTail
  <2>5. next = tl
    BY <1>1, <1>10, Zenon DEF Left
  <2> QED BY <1>1, <1>6, <1>7, <2>3, <2>4, <2>5, Zenon
<1>11. CASE rest # <<>>
  <2>1. PICK l : l = <<rest>> \o tl
    OBVIOUS
  <2>2. /\ Len(l) = 1 + Len(tl) /\ l[1] = rest
        /\ \A i \in 1 .. Len(tl) : l[1 + i] = tl[i]
    BY <1>6, <2>1, Prepend
  <2>3. Besides(l, fl, m)
    <3>1. 1 + m = m + 1 /\ \A i \in 1 .. m : 1 + i = i + 1
      OBVIOUS
    <3> QED BY <1>1, <1>2, <1>9, <2>2, <3>1, Zenon DEF Besides
  <2>4. Run(l[1], t, o) /\ P[2] = o + Len(l[1])
    BY <1>6, <1>7, <1>8, <2>2, Zenon
  <2>5. \E Q : Pieces(l, t, Q, lost) /\ Q[1] = o
    BY <1>8, <2>3, <2>4, PiecesFirst
  <2>6. next = l
    BY <1>1, <1>11, <2>1, Zenon DEF Left
  <2> QED BY <1>1, <1>6, <1>7, <2>5, <2>6, Zenon
<1> QED BY <1>10, <1>11

\* Nothing is sent at first.
LEMMA StreamInit == Init => StreamInv
<1> SUFFICES ASSUME Init PROVE \E c \in Nat, P \in [Nat -> Nat] : StreamAt(Stream, c, P)
  BY DEF StreamInv
<1>1. /\ sent = <<>> /\ flight = <<>> /\ socket = <<>> /\ key = <<>> /\ results = <<>>
  BY DEF Init
<1>2. Stream = <<>>
  <2>1. <<>> \in Seq(Frame) /\ Len(<<>>) = 0
    OBVIOUS
  <2>2. Plain(<<>>) \in Seq(Seq(ByteRange)) /\ Len(Plain(<<>>)) = 0
    BY <2>1, PlainType
  <2>3. Plain(<<>>) = <<>>
    BY <2>2, EmptySeq
  <2>4. Stream = FlattenSeq(Plain(sent))
    BY Zenon DEF Stream, Plain
  <2> QED BY <1>1, <2>3, <2>4, FlattenEmpty, Zenon
<1> DEFINE P == [i \in Nat |-> 0]
<1>3. P \in [Nat -> Nat] /\ P[1] = 0
  OBVIOUS
<1> HIDE DEF P
<1>4. Len(<<>>) = 0 /\ <<>> \in Seq(ByteRange)
  OBVIOUS
<1>5. Pieces(<<>>, <<>>, P, broken)
  <2>1. 1 .. 0 = {} /\ 1 .. 0 + 1 = {1} /\ 0 + 1 = 1 /\ 0 <= 0
    OBVIOUS
  <2> QED BY <1>3, <1>4, <2>1 DEF Pieces
<1>6. Run(<<>>, <<>>, 0)
  BY <1>4 DEF Run
<1>7. KeyBefore(<<>>, <<>>, 0)
  BY DEF KeyBefore
<1>8. StreamAt(Stream, 0, P)
  <2>1. P[1] = 0 + Len(socket) /\ DOMAIN results = {}
    BY <1>1, <1>3, <1>4
  <2> QED BY <1>1, <1>2, <1>4, <1>5, <1>6, <1>7, <2>1, Zenon DEF StreamAt
<1> QED BY <1>3, <1>8

\* A frame is sent, or the rest of a message is dropped.
LEMMA StreamSending ==
  ASSUME WsTypes, StreamInv, Sending
  PROVE  StreamInv'
<1>1. PICK s \in Senders : Send(s) \/ SendFrame(s) \/ SendFail(s)
  BY DEF Sending
<1>2. CASE Send(s) \/ SendFail(s)
  <2>1. UNCHANGED <<sent, flight, socket, broken, key, results>>
    BY <1>2 DEF Send, SendFail, net, receiver
  <2>2. Stream' = Stream
    BY <2>1 DEF Stream
  <2> QED BY <2>1, <2>2 DEF StreamInv, Unmasked, StreamAt
<1>3. CASE SendFrame(s)
  <2> DEFINE f == Head(frames[s])
  <2>1. PICK k \in IF f.masked THEN Keys ELSE {<<>>} :
          flight' = Append(flight, CreateSinglePacket(f.data, f.type, f.fin, k))
    BY <1>3 DEF SendFrame
  <2>2. /\ frames[s] # <<>> /\ sent' = Append(sent, f) /\ ~broken
        /\ UNCHANGED <<socket, broken, key, results>>
    BY <1>3 DEF SendFrame, receiver
  <2>3. f \in Frame
    BY <2>2, NextFrame
  <2> HIDE DEF f
  <2>4. SUFFICES ASSUME Unmasked'
                 PROVE  (\E c \in Nat, P \in [Nat -> Nat] : StreamAt(Stream, c, P))'
    BY DEF StreamInv
  <2>5. Unmasked /\ ~f.masked
    <3>1. sent \in Seq(Frame)
      BY DEF WsTypes
    <3> DEFINE more == Append(sent, f)
    <3>2. /\ Len(sent) \in Nat /\ DOMAIN sent = 1 .. Len(sent)
          /\ more \in Seq(Frame) /\ Len(more) = Len(sent) + 1
          /\ more[Len(sent) + 1] = f
          /\ \A i \in 1 .. Len(sent) : more[i] = sent[i]
      BY <2>3, <3>1, AppendProperties, LenProperties
    <3> HIDE DEF more
    <3>3. DOMAIN more = 1 .. Len(more)
      BY <3>2, LenProperties
    <3>4. \A i \in DOMAIN more : ~more[i].masked
      BY <2>2, <2>4 DEF Unmasked, more
    <3>5. /\ Len(sent) + 1 \in 1 .. Len(more)
          /\ \A i \in 1 .. Len(sent) : i \in 1 .. Len(more)
      BY <3>2
    <3> QED BY <3>2, <3>3, <3>4, <3>5, Zenon DEF Unmasked
  <2>c. PICK c \in Nat : \E P \in [Nat -> Nat] : StreamAt(Stream, c, P)
    BY <2>5 DEF StreamInv
  <2>6. PICK P : StreamAt(Stream, c, P)
    BY <2>c
  <2>7. PICK p : p = CreateSinglePacket(f.data, f.type, f.fin, <<>>)
    OBVIOUS
  <2>8. flight' = Append(flight, p)
    <3>1. k = <<>>
      BY <2>5
    <3> QED BY <2>1, <2>7, <3>1
  <2>9. sent \in Seq(Frame) /\ socket \in Seq(ByteRange) /\ flight \in Seq(Seq(ByteRange))
    BY DEF WsTypes
  <2>10. /\ Stream \in Seq(ByteRange) /\ p \in Seq(ByteRange) /\ Stream' = Stream \o p
    BY <2>2, <2>3, <2>7, <2>9, StreamLonger
  <2>11. PICK t \in Seq(ByteRange) : t = Stream
    BY <2>10
  <2>12. /\ Run(socket, t, c) /\ P[1] = c + Len(socket) /\ Pieces(flight, t, P, broken)
         /\ KeyBefore(key, t, c) /\ \A i \in DOMAIN results : Heard(results[i].body, t)
    BY <2>6, <2>11 DEF StreamAt
  <2>13. PICK Q : Pieces(Append(flight, p), t \o p, Q, broken) /\ Q[1] = P[1]
    <3>1. flight \in Seq(Seq(ByteRange)) /\ p \in Seq(ByteRange)
      BY <2>9, <2>10, Zenon
    <3>2. \E Q : Pieces(Append(flight, p), t \o p, Q, broken) /\ Q[1] = P[1]
      BY <2>2, <2>12, <3>1, PiecesMore
    <3> QED BY <3>2, Zenon
  <2>14. Run(socket, t \o p, c)
    BY <2>9, <2>10, <2>12, RunLonger
  <2>15. \A i \in DOMAIN results : Heard(results[i].body, t \o p)
    BY <2>10, <2>12, HeardLonger
  <2>16. KeyBefore(key, t \o p, c)
    <3> DEFINE v == t \o p
    <3>1. PICK n \in Nat : n = Len(t)
      BY LenProperties
    <3>2. \A i \in 1 .. n : v[i] = t[i]
      BY <2>10, <3>1, Concat
    <3> HIDE DEF v
    <3>3. c <= n /\ c <= c
      <4>1. Len(socket) \in Nat
        BY <2>9, LenProperties
      <4> QED BY <2>12, <3>1, <4>1 DEF Run
    <3>4. KeyBefore(key, v, c)
      BY <2>12, <3>2, <3>3, KeyLater
    <3> QED BY <3>4 DEF v
  <2>17. t \o p \in Seq(ByteRange)
    BY <2>10, ConcatProperties
  <2>18. /\ Stream' = t \o p /\ Run(socket', Stream', c) /\ Q[1] = c + Len(socket')
         /\ Pieces(flight', Stream', Q, broken') /\ KeyBefore(key', Stream', c)
         /\ Stream' \in Seq(ByteRange)
         /\ \A i \in DOMAIN results' : Heard(results'[i].body, Stream')
    <3>1. Stream' = t \o p
      BY <2>10, <2>11, Zenon
    <3>2. Pieces(flight', Stream', Q, broken')
      BY <2>2, <2>8, <2>13, <3>1, Zenon DEF Pieces
    <3> QED BY <2>2, <2>12, <2>13, <2>14, <2>15, <2>16, <2>17, <3>1, <3>2, Zenon
  <2>19. StreamAt(Stream, c, Q)'
    BY <2>18 DEF StreamAt
  <2>20. Q \in [Nat -> Nat]
    BY <2>13 DEF Pieces
  <2> QED BY <2>19, <2>20
<1> QED BY <1>1, <1>2, <1>3

\* The connection breaks, or delivers.
LEMMA StreamNet ==
  ASSUME WsTypes, StreamInv, Break \/ Arrival
  PROVE  StreamInv'
<1>1. UNCHANGED <<sent, key, results>>
  BY DEF Break, Arrival, Arrive, sender, receiver
<1>2. Stream' = Stream /\ Unmasked' = Unmasked
  BY <1>1 DEF Stream, Unmasked
<1>3. SUFFICES ASSUME Unmasked
               PROVE  (\E c \in Nat, P \in [Nat -> Nat] : StreamAt(Stream, c, P))'
  BY <1>2 DEF StreamInv
<1>c. PICK c \in Nat : \E P \in [Nat -> Nat] : StreamAt(Stream, c, P)
  BY <1>3 DEF StreamInv
<1>4. PICK P : StreamAt(Stream, c, P)
  BY <1>c
<1>5. PICK t \in Seq(ByteRange) : t = Stream
  BY <1>4 DEF StreamAt
<1>6. /\ Run(socket, t, c) /\ P[1] = c + Len(socket) /\ Pieces(flight, t, P, broken)
      /\ KeyBefore(key, t, c) /\ \A i \in DOMAIN results : Heard(results[i].body, t)
  BY <1>4, <1>5 DEF StreamAt
<1>7. socket \in Seq(ByteRange) /\ flight \in Seq(Seq(ByteRange))
  BY DEF WsTypes
<1>8. ASSUME NEW Q, Run(socket', t, c), Q[1] = c + Len(socket'), Pieces(flight', t, Q, broken')
      PROVE  (\E d \in Nat, R \in [Nat -> Nat] : StreamAt(Stream, d, R))'
  <2>1. StreamAt(Stream, c, Q)'
    <3>1. Stream' = t
      BY <1>2, <1>5
    <3> QED BY <1>1, <1>6, <1>8, <3>1, Zenon DEF StreamAt
  <2>2. Q \in [Nat -> Nat]
    BY <1>8 DEF Pieces
  <2> QED BY <2>1, <2>2
<1>9. CASE Break
  <2>1. PICK n \in 0 .. Len(flight) : flight' = SubSeq(flight, 1, n)
    BY <1>9 DEF Break
  <2>2. broken' = TRUE /\ socket' = socket
    BY <1>9 DEF Break
  <2>3. Pieces(flight', t, P, broken')
    <3>1. Pieces(SubSeq(flight, 1, n), t, P, TRUE)
      BY <1>6, <1>7, PiecesLost
    <3> QED BY <2>1, <2>2, <3>1, Zenon DEF Pieces
  <2> QED BY <1>6, <1>8, <2>2, <2>3, Zenon
<1>10. CASE Arrival
  <2>1. PICK n \in 1 .. Len(Head(flight)) : Arrive(n)
    BY <1>10 DEF Arrival
  <2> DEFINE h == SubSeq(Head(flight), 1, n)
             rest == SubSeq(Head(flight), n + 1, Len(Head(flight)))
  <2>2. /\ flight # <<>> /\ broken' = broken /\ socket' = socket \o h
        /\ Left(flight, n, rest, flight')
    BY <2>1 DEF Arrive, Left
  <2> HIDE DEF rest
  <2>3. /\ Run(h, t, P[1]) /\ Len(h) = n /\ h \in Seq(ByteRange)
        /\ \E Q : Pieces(flight', t, Q, broken) /\ Q[1] = P[1] + n
    BY <1>6, <1>7, <2>2, PiecesArrive
  <2> HIDE DEF h
  <2>4. PICK Q : Pieces(flight', t, Q, broken) /\ Q[1] = P[1] + n
    BY <2>3
  <2>5. Run(h, t, c + Len(socket))
    BY <1>6, <2>3
  <2>6. /\ Run(socket \o h, t, c) /\ Len(socket \o h) = Len(socket) + Len(h)
    BY <1>6, <1>7, <2>3, <2>5, RunsTogether
  <2>7. Q[1] = c + Len(socket')
    <3>1. PICK a \in Nat : a = Len(socket)
      BY <1>7, LenProperties
    <3>2. PICK b \in Nat : b = n /\ b = Len(h)
      BY <2>3, LenProperties
    <3>3. Q[1] = (c + a) + b
      BY <1>6, <2>4, <3>1, <3>2, Zenon
    <3>4. Len(socket') = a + b
      BY <2>2, <2>6, <3>1, <3>2, Zenon
    <3> QED BY <3>3, <3>4
  <2>8. Pieces(flight', t, Q, broken')
    BY <2>2, <2>4, Zenon
  <2> QED BY <1>8, <2>2, <2>6, <2>7, <2>8, Zenon
<1> QED BY <1>9, <1>10

\* recv_ws takes w bytes, or recv_msg loses those it got: then the receiver has a key
\* and bodies made of bytes that came.
LEMMA StreamTake ==
  ASSUME WsTypes, NEW c \in Nat, NEW P, StreamAt(Stream, c, P),
         UNCHANGED <<sent, flight, broken>>,
         NEW w \in 0 .. Len(socket),
         socket' = SubSeq(socket, w + 1, Len(socket)),
         KeyBefore(key', Stream, c + w),
         \A i \in DOMAIN results' : Heard(results'[i].body, Stream)
  PROVE  \E d \in Nat : StreamAt(Stream, d, P)'
<1>1. PICK t \in Seq(ByteRange) : t = Stream
  BY DEF StreamAt
<1>2. Run(socket, t, c) /\ P[1] = c + Len(socket) /\ Pieces(flight, t, P, broken)
  BY <1>1 DEF StreamAt
<1>3. PICK n \in Nat : n = Len(socket)
  BY LenProperties DEF WsTypes
<1>4. w \in 0 .. n /\ socket \in Seq(ByteRange)
  BY <1>3 DEF WsTypes
<1>5. Len(socket') = n - w /\ Run(socket', t, c + w)
  BY <1>2, <1>3, <1>4, RunCut
<1>6. c + w \in Nat /\ P[1] = (c + w) + Len(socket')
  <2>1. PICK m \in Nat : m = n - w
    BY <1>4
  <2>2. P[1] = c + n /\ Len(socket') = m
    BY <1>2, <1>3, <1>5, <2>1, Zenon
  <2>3. c + n = (c + w) + m /\ c + w \in Nat
    BY <1>4, <2>1
  <2> QED BY <2>2, <2>3, Zenon
<1>7. Stream' = t
  BY <1>1 DEF Stream
<1>8. Pieces(flight', t, P, broken')
  BY <1>2, Zenon
<1> DEFINE d == c + w
<1>9. StreamAt(Stream, d, P)'
  <2>1. KeyBefore(key', t, d) /\ \A i \in DOMAIN results' : Heard(results'[i].body, t)
    BY <1>1
  <2>2. Run(socket', t, d) /\ P[1] = d + Len(socket')
    BY <1>5, <1>6
  <2> HIDE DEF d
  <2> QED BY <1>1, <1>7, <1>8, <2>1, <2>2, Zenon DEF StreamAt
<1> QED BY <1>6, <1>9

\* recv_ws reads.
LEMMA StreamReceive ==
  ASSUME WsTypes, StreamInv, LongInv, Receive
  PROVE  StreamInv'
<1>1. UNCHANGED <<sent, flight, broken>>
  BY DEF Receive, ShortRead, RecvFail, ReadHead, ReadExt, ReadMask, ReadData, Fill, sender, net
<1>2. Unmasked' = Unmasked
  BY <1>1 DEF Unmasked
<1>3. SUFFICES ASSUME Unmasked
               PROVE  (\E c \in Nat, P \in [Nat -> Nat] : StreamAt(Stream, c, P))'
  BY <1>2 DEF StreamInv
<1>4. PICK c \in Nat, P \in [Nat -> Nat] : StreamAt(Stream, c, P)
  BY <1>3 DEF StreamInv
<1>5. PICK t \in Seq(ByteRange) : t = Stream
  BY <1>4 DEF StreamAt
<1>6. /\ Run(socket, t, c) /\ KeyBefore(key, t, c)
      /\ \A i \in DOMAIN results : Heard(results[i].body, t)
  BY <1>4, <1>5 DEF StreamAt
<1>7. PICK n \in Nat : n = Len(socket)
  BY LenProperties DEF WsTypes
<1>8. ASSUME NEW w \in 0 .. n, socket' = SubSeq(socket, w + 1, Len(socket)),
             KeyBefore(key', t, c + w), \A i \in DOMAIN results' : Heard(results'[i].body, t)
      PROVE  (\E d \in Nat, R \in [Nat -> Nat] : StreamAt(Stream, d, R))'
  <2>1. \E d \in Nat : StreamAt(Stream, d, P)'
    BY <1>1, <1>4, <1>5, <1>7, <1>8, StreamTake
  <2> QED BY <2>1
<1>9. \A w \in 0 .. n : KeyBefore(key, t, c + w) /\ KeyBefore(<<>>, t, c + w)
  <2> SUFFICES ASSUME NEW w \in 0 .. n
               PROVE  KeyBefore(key, t, c + w) /\ KeyBefore(<<>>, t, c + w)
    OBVIOUS
  <2>1. c <= c /\ c <= c + w /\ c + w \in Nat
    OBVIOUS
  <2>2. KeyBefore(key, t, c + w)
    BY <1>6, <2>1, KeyLater
  <2> QED BY <2>2 DEF KeyBefore
<1>10. socket \in Seq(ByteRange)
  BY DEF WsTypes
<1>11. CASE ShortRead
  <2>1. socket' = <<>> /\ UNCHANGED <<key, results>>
    BY <1>11 DEF ShortRead, receiver
  <2>2. n \in 0 .. n /\ SubSeq(socket, n + 1, Len(socket)) = <<>>
    <3>1. n <= n
      OBVIOUS
    <3>2. SubSeq(socket, n + 1, n) \in Seq(ByteRange) /\ Len(SubSeq(socket, n + 1, n)) = n - n
      BY <1>7, <1>10, <3>1, Cut
    <3>3. n - n = 0
      OBVIOUS
    <3> QED BY <1>7, <3>2, <3>3, EmptySeq
  <2>3. KeyBefore(key', t, c + n) /\ \A i \in DOMAIN results' : Heard(results'[i].body, t)
    BY <1>6, <1>9, <2>1, <2>2, Zenon
  <2> QED BY <1>8, <2>1, <2>2, <2>3, Zenon
<1>12. CASE RecvFail
  <2>1. UNCHANGED <<socket, key, results, sent, flight, broken>>
    BY <1>12 DEF RecvFail, net, sender
  <2>2. Stream' = Stream
    BY <2>1 DEF Stream
  <2> QED BY <1>4, <2>1, <2>2 DEF StreamAt
<1>13. ASSUME Fill
       PROVE  /\ socket' = SubSeq(socket, Taken + 1, Len(socket)) /\ Taken \in 0 .. n
              /\ Run(Filled, t, c) /\ Filled \in Seq(ByteRange) /\ Len(Filled) = Taken
  <2>1. Taken \in 0 .. Len(socket) /\ socket' = SubSeq(socket, Taken + 1, Len(socket))
    BY <1>13, FillFacts DEF Fill
  <2> DEFINE w == Taken
  <2>2. w \in 0 .. n /\ w \in 0 .. Len(socket)
    BY <1>7, <2>1
  <2> HIDE DEF w
  <2>3. /\ Run(SubSeq(socket, 1, w), t, c) /\ SubSeq(socket, 1, w) \in Seq(ByteRange)
        /\ Len(SubSeq(socket, 1, w)) = w
    BY <1>6, <1>10, <2>2, RunCut
  <2> QED BY <2>1, <2>2, <2>3 DEF Filled, w
<1>14. CASE ReadHead \/ ReadExt
  <2>1. Fill /\ (key' = <<>> \/ key' = key) /\ results' = results
    BY <1>14 DEF ReadHead, ReadExt
  <2>2. /\ KeyBefore(key', t, c + Taken)
        /\ \A i \in DOMAIN results' : Heard(results'[i].body, t)
    BY <1>6, <1>9, <1>13, <2>1
  <2> QED BY <1>8, <1>13, <2>1, <2>2
<1>15. CASE ReadMask
  <2>1. Fill /\ key' = Filled /\ results' = results /\ Taken = 4
    <3>1. Fill /\ key' = Filled /\ results' = results /\ stage = "mask"
      BY <1>15 DEF ReadMask
    <3>2. Wanted = 4 /\ 4 \in Nat
      BY <3>1, WantedFacts
    <3> QED BY <3>1, <3>2, FillFacts
  <2>2. KeyBefore(key', t, c + Taken)
    <3>1. \A i \in 1 .. 4 : Filled[i] = t[c + i]
      BY <1>13, <2>1 DEF Run
    <3>2. c + 1 \in 1 .. (c + 4) - 3 /\ \A i \in 1 .. 4 : c + i = (c + 1) + i - 1
      OBVIOUS
    <3>3. \A i \in 1 .. 4 : key'[i] = t[(c + 1) + i - 1]
      BY <2>1, <3>1, <3>2
    <3> QED BY <2>1, <3>2, <3>3 DEF KeyBefore
  <2> QED BY <1>6, <1>8, <1>13, <2>1, <2>2
<1>16. CASE ReadData
  <2> DEFINE body == Body
             r == [type |-> head[1] % 16, last |-> head[1] >= TopBit, body |-> body]
  <2>1. /\ Fill /\ key' = key
        /\ results' = results \/ results' = Append(results, r)
    BY <1>16, Zenon DEF ReadData
  <2>2. Heard(body, t)
    <3>1. key \in Masks /\ size \in Int
      BY DEF WsTypes
    <3>2. /\ size >= 0 => body = Mask(Filled, key)
          /\ size < 0 => body = Append(Mask(Filled, key), Stale)
      BY <2>1, BodyFacts
    <3>3. size < 0 => LongSize(t)
      BY <1>3, <1>5 DEF LongInv
    <3>4. body = Mask(Filled, key) \/ (body = Append(Mask(Filled, key), Stale) /\ LongSize(t))
      BY <3>1, <3>2, <3>3
    <3> QED BY <1>6, <1>13, <2>1, <3>1, <3>4, Zenon DEF Heard
  <2>3. r.body = body
    OBVIOUS
  <2> HIDE DEF body, r
  <2>4. \A i \in DOMAIN results' : Heard(results'[i].body, t)
    <3>1. CASE results' = results
      BY <1>6, <3>1
    <3>2. CASE results' = Append(results, r)
      <4>1. PICK R : results \in Seq(R) /\ r \in R
        <5>1. PICK S : results \in Seq(S)
          BY DEF WsTypes
        <5>2. S \subseteq S \cup {r} /\ r \in S \cup {r}
          OBVIOUS
        <5>3. results \in Seq(S \cup {r})
          BY <5>1, <5>2, SeqLarger
        <5> QED BY <5>2, <5>3
      <4> DEFINE more == Append(results, r)
      <4>2. /\ more \in Seq(R) /\ Len(more) = Len(results) + 1 /\ Len(results) \in Nat
            /\ DOMAIN results = 1 .. Len(results)
            /\ more[Len(results) + 1] = r
            /\ \A i \in 1 .. Len(results) : more[i] = results[i]
        BY <4>1, AppendProperties, LenProperties
      <4> HIDE DEF more
      <4>3. DOMAIN more = 1 .. Len(results) + 1
        BY <4>2, LenProperties
      <4>4. ASSUME NEW i \in DOMAIN more PROVE Heard(more[i].body, t)
        <5>1. i \in 1 .. Len(results) \/ i = Len(results) + 1
          BY <4>2, <4>3
        <5> QED BY <1>6, <2>2, <2>3, <4>2, <5>1, Zenon
      <4> QED BY <3>2, <4>4 DEF more
    <3> QED BY <2>1, <3>1, <3>2
  <2>5. KeyBefore(key', t, c + Taken)
    BY <1>9, <1>13, <2>1
  <2> QED BY <1>8, <1>13, <2>1, <2>4, <2>5
<1> QED BY <1>11, <1>12, <1>14, <1>15, <1>16 DEF Receive

\* Every step keeps the stream.
LEMMA StreamNext ==
  WsTypes /\ StreamInv /\ LongInv /\ [Next]_vars => StreamInv'
<1> SUFFICES ASSUME WsTypes, StreamInv, LongInv, [Next]_vars
             PROVE  StreamInv'
  OBVIOUS
<1>1. CASE UNCHANGED vars \/ Ended
  <2>1. UNCHANGED <<sent, flight, socket, broken, key, results>>
    BY <1>1 DEF Ended, vars, sender, net, receiver
  <2>2. Stream' = Stream
    BY <2>1 DEF Stream
  <2> QED BY <2>1, <2>2 DEF StreamInv, Unmasked, StreamAt
<1>2. CASE Sending
  BY <1>2, StreamSending
<1>3. CASE Break \/ Arrival
  BY <1>3, StreamNet
<1>4. CASE Receive
  BY <1>4, StreamReceive
<1> QED BY <1>1, <1>2, <1>3, <1>4 DEF Next

\* A size is 0 at first, and only the eight bytes of the longest form set one below 0.
LEMMA LongInit == Init => LongInv
BY DEF Init, LongInv

LEMMA LongNext ==
  WsTypes /\ StreamInv /\ LongInv /\ [Next]_vars => LongInv'
<1> SUFFICES ASSUME WsTypes, StreamInv, LongInv, [Next]_vars, Unmasked', size' < 0
             PROVE  LongSize(Stream')
  BY DEF LongInv
<1>1. CASE UNCHANGED <<sent, size>>
  BY <1>1 DEF LongInv, Stream, Unmasked
<1>2. CASE \E s \in Senders : SendFrame(s)
  <2>1. PICK s \in Senders : SendFrame(s)
    BY <1>2
  <2> DEFINE f == Head(frames[s])
             p == CreateSinglePacket(f.data, f.type, f.fin, <<>>)
  <2>2. sent' = Append(sent, f) /\ frames[s] # <<>> /\ size' = size
    BY <2>1 DEF SendFrame, receiver
  <2>3. f \in Frame /\ sent \in Seq(Frame)
    BY <2>2, NextFrame DEF WsTypes
  <2>4. Unmasked
    <3> HIDE DEF f
    <3>1. /\ Len(sent) \in Nat /\ DOMAIN sent = 1 .. Len(sent)
          /\ sent' \in Seq(Frame) /\ Len(sent') = Len(sent) + 1
          /\ \A i \in 1 .. Len(sent) : sent'[i] = sent[i]
      BY <2>2, <2>3, AppendProperties, LenProperties
    <3>2. DOMAIN sent' = 1 .. Len(sent) + 1
      BY <3>1, LenProperties
    <3> QED BY <3>1, <3>2 DEF Unmasked
  <2> HIDE DEF f
  <2>5. Stream \in Seq(ByteRange) /\ p \in Seq(ByteRange) /\ Stream' = Stream \o p
    BY <2>2, <2>3, StreamLonger
  <2>6. LongSize(Stream)
    BY <2>2, <2>4 DEF LongInv
  <2> QED BY <2>5, <2>6, LongLonger
<1>3. CASE ReadHead
  <2>1. Fill /\ size' = LenBits(Filled) /\ stage = "head"
    BY <1>3 DEF ReadHead
  <2>2. Wanted = 2 /\ Wanted \in Nat
    BY <2>1, WantedFacts
  <2>3. Filled \in Seq(ByteRange) /\ Len(Filled) = 2
    BY <2>1, <2>2, FillFacts
  <2>4. Filled[2] \in ByteRange
    BY <2>3
  <2>5. Filled[2] \in Nat
    BY <2>4 DEF ByteRange
  <2> QED BY <2>1, <2>5 DEF LenBits, TopBit
<1>4. CASE ReadExt
  <2>1. Fill /\ size' = FromBigEndian(Filled) /\ stage = "ext" /\ UNCHANGED sent
    BY <1>4 DEF ReadExt, Fill, sender
  <2>2. Unmasked /\ Stream' = Stream
    BY <2>1 DEF Unmasked, Stream
  <2>3. PICK c \in Nat, P \in [Nat -> Nat] : StreamAt(Stream, c, P)
    BY <2>2 DEF StreamInv
  <2>4. Stream \in Seq(ByteRange) /\ Run(socket, Stream, c)
    BY <2>3 DEF StreamAt
  <2>5. Wanted \in {2, 8} /\ Wanted \in Nat
    BY <2>1, WantedFacts DEF WsTypes
  <2>6. Taken \in 0 .. Len(socket) /\ Taken = Wanted /\ Filled \in Seq(ByteRange)
        /\ Len(Filled) = Wanted
    BY <2>1, <2>5, FillFacts
  <2>7. Len(Filled) = 8
    <3>1. Len(Filled) \in {2, 8}
      BY <2>5, <2>6
    <3>2. Len(Filled) = 2 => FromBigEndian(Filled) \in Nat
      BY <2>6, <3>1, FromBigEndianType
    <3>3. FromBigEndian(Filled) < 0
      BY <2>1
    <3> QED BY <3>1, <3>2, <3>3
  <2>8. Run(Filled, Stream, c)
    <3> DEFINE w == Taken
    <3>1. w \in 0 .. Len(socket) /\ socket \in Seq(ByteRange)
      BY <2>6 DEF WsTypes
    <3> HIDE DEF w
    <3>2. Run(SubSeq(socket, 1, w), Stream, c)
      BY <2>4, <3>1, RunCut
    <3> QED BY <3>2 DEF Filled, w
  <2> QED BY <2>1, <2>2, <2>6, <2>7, <2>8 DEF LongSize
<1>5. UNCHANGED vars \/ Ended \/ Break \/ Arrival \/ ShortRead \/ RecvFail \/ ReadMask
        \/ ReadData \/ (\E s \in Senders : Send(s) \/ SendFail(s)) => UNCHANGED <<sent, size>>
  BY DEF Ended, Break, Arrival, Arrive, ShortRead, RecvFail, ReadMask, ReadData, Fill, Send,
         SendFail, vars, sender, net, receiver
<1> QED BY <1>1, <1>2, <1>3, <1>4, <1>5 DEF Next, Sending, Receive

\* However frames are cut and whatever recv_msg loses: as long as no frame is masked by
\* its sender, a body that recv_ws returns is a run of bytes that came one after the
\* other, unmasked with four that came before it if with any; and it is filled up with
\* what the packet held only if eight bytes with bit 31 set came in a row.
THEOREM BodiesAreReceived == Spec => []BodyReceived
<1>1. WsTypes /\ StreamInv => BodyReceived
  <2> SUFFICES ASSUME WsTypes, StreamInv, Unmasked, NEW i \in DOMAIN results
               PROVE  LET body  == results[i].body
                          short == body # <<>> /\ Last(body) = Stale
                          n     == Len(body) - (IF short THEN 1 ELSE 0)
                      IN /\ \E j \in 1 .. Len(Stream) - n + 1 :
                              \E k \in {<<>>} \cup {SubSeq(Stream, h, h + 3) : h \in 1 .. j - 4} :
                                SubSeq(body, 1, n) = Mask(SubSeq(Stream, j, j + n - 1), k)
                         /\ short => \E h \in 1 .. Len(Stream) - 7 :
                                       FromBigEndian(SubSeq(Stream, h, h + 7)) < 0
    BY Zenon DEF BodyReceived, Unmasked
  <2>1. Stream \in Seq(ByteRange) /\ Heard(results[i].body, Stream)
    BY DEF StreamInv, StreamAt
  <2>2. PICK t \in Seq(ByteRange) : t = Stream
    BY <2>1
  <2> DEFINE b     == results[i].body
             short == b # <<>> /\ Last(b) = Stale
             l     == Len(b) - (IF short THEN 1 ELSE 0)
  <2>3. PICK o \in Nat, d \in Seq(ByteRange), k \in Masks :
          /\ Run(d, t, o) /\ KeyBefore(k, t, o)
          /\ b = Mask(d, k) \/ (b = Append(Mask(d, k), Stale) /\ LongSize(t))
    BY <2>1, <2>2 DEF Heard
  <2> HIDE DEF b
  <2>4. PICK n \in Nat : n = Len(d) /\ n = Len(Mask(d, k)) /\ Mask(d, k) \in Seq(ByteRange)
    BY <2>3, MaskTwice, LenProperties
  <2>4a. l = n /\ SubSeq(b, 1, n) = Mask(d, k) /\ (short => LongSize(t))
    <3> DEFINE m == Mask(d, k)
    <3>1. m \in Seq(ByteRange) /\ Len(m) = n /\ (b = m \/ (b = Append(m, Stale) /\ LongSize(t)))
      BY <2>3, <2>4
    <3> HIDE DEF m
    <3>2. CASE b = m
      <4>1. ~short
        <5>1. CASE b # <<>>
          <6>1. Last(m) \in ByteRange
            <7>1. Len(m) \in 1 .. Len(m)
              BY <3>1, <3>2, <5>1, EmptySeq
            <7> QED BY <3>1, <7>1, ElementOfSeq DEF Last
          <6>2. Stale \notin ByteRange
            BY DEF Stale, ByteRange
          <6> QED BY <3>2, <6>1, <6>2
        <5> QED BY <5>1
      <4>2. l = n
        BY <3>1, <3>2, <4>1
      <4>3. SubSeq(m, 1, n) = m
        BY <3>1, SubSeqFull
      <4> QED BY <3>2, <4>1, <4>2, <4>3, Zenon DEF m
    <3>3. CASE b = Append(m, Stale) /\ LongSize(t)
      <4> DEFINE C == ByteRange \cup {Stale}
      <4>1. m \in Seq(C) /\ Stale \in C
        BY <3>1, SeqLarger
      <4> HIDE DEF C
      <4>2. /\ b \in Seq(C) /\ Len(b) = n + 1 /\ b[n + 1] = Stale
            /\ \A x \in 1 .. n : b[x] = m[x]
        BY <3>1, <3>3, <4>1, AppendProperties
      <4>3. short
        <5>1. b # <<>>
          <6>1. Len(b) # 0
            BY <4>2
          <6> QED BY <6>1
        <5> QED BY <4>2, <5>1 DEF Last
      <4>4. l = n
        BY <4>2, <4>3
      <4>5. SubSeq(b, 1, n) = m
        <5>1. n <= n + 1 /\ 0 \in Nat /\ 0 <= n /\ 0 + 1 = 1 /\ n - 0 = n
          OBVIOUS
        <5> DEFINE s == SubSeq(b, 0 + 1, n)
        <5>2. s \in Seq(C) /\ Len(s) = n - 0 /\ \A x \in 1 .. n - 0 : s[x] = b[0 + x]
          BY <4>2, <5>1, Cut
        <5> HIDE DEF s
        <5>3. s = m
          <6>1. Len(s) = n /\ Len(m) = n /\ \A x \in 1 .. n : s[x] = m[x]
            BY <3>1, <4>2, <5>1, <5>2
          <6>2. s = [x \in 1 .. n |-> s[x]] /\ m = [x \in 1 .. n |-> m[x]]
            BY <4>1, <5>2, <6>1, LenProperties
          <6> QED BY <6>1, <6>2, Zenon
        <5> QED BY <5>1, <5>3 DEF s
      <4> QED BY <3>3, <4>3, <4>4, <4>5, Zenon DEF m
    <3> QED BY <3>1, <3>2, <3>3 DEF m
  <2>5. PICK z \in Nat : z = Len(t)
    BY LenProperties
  <2>6. o + n <= z /\ \A x \in 1 .. n : d[x] = t[o + x]
    BY <2>3, <2>4, <2>5 DEF Run
  <2> DEFINE j == o + 1
  <2>7. j \in 1 .. z - n + 1 /\ j + n - 1 = o + n
    BY <2>6
  <2>8. SubSeq(t, j, j + n - 1) = d
    <3> DEFINE s == SubSeq(t, o + 1, o + n)
    <3>1. o + n \in Nat /\ o <= o + n /\ (o + n) - o = n
      OBVIOUS
    <3>2. s \in Seq(ByteRange) /\ Len(s) = n /\ \A x \in 1 .. n : s[x] = t[o + x]
      BY <2>5, <2>6, <3>1, Cut
    <3> HIDE DEF s
    <3>3. s = d
      <4>1. s = [x \in 1 .. n |-> s[x]] /\ d = [x \in 1 .. n |-> d[x]]
        BY <2>4, <3>2, LenProperties
      <4>2. \A x \in 1 .. n : s[x] = d[x]
        BY <2>6, <3>2
      <4> QED BY <4>1, <4>2, Zenon
    <3> QED BY <2>7, <3>3 DEF s
  <2>9. k = <<>> \/ \E h \in 1 .. j - 4 : k = SubSeq(t, h, h + 3)
    <3>1. CASE k # <<>>
      <4>1. PICK h \in 1 .. o - 3 : \A x \in 1 .. 4 : k[x] = t[h + x - 1]
        BY <2>3, <3>1 DEF KeyBefore
      <4>2. PICK g \in Nat : g = h - 1
        OBVIOUS
      <4>3. /\ g + 4 \in Nat /\ g <= g + 4 /\ g + 4 <= z /\ g + 1 = h /\ g + 4 = h + 3
            /\ (g + 4) - g = 4 /\ h \in 1 .. j - 4
            /\ \A x \in 1 .. 4 : g + x = h + x - 1
        BY <2>6, <4>2
      <4> DEFINE s == SubSeq(t, g + 1, g + 4)
      <4>4. s \in Seq(ByteRange) /\ Len(s) = 4 /\ \A x \in 1 .. 4 : s[x] = t[g + x]
        BY <2>5, <4>3, Cut
      <4> HIDE DEF s
      <4>5. s = k
        <5>1. s = [x \in 1 .. 4 |-> s[x]]
          BY <4>4, LenProperties
        <5>2. k = [x \in 1 .. 4 |-> k[x]]
          BY <3>1 DEF Masks
        <5>3. \A x \in 1 .. 4 : s[x] = k[x]
          BY <4>1, <4>3, <4>4
        <5> QED BY <5>1, <5>2, <5>3, Zenon
      <4>6. k = SubSeq(t, h, h + 3)
        BY <4>3, <4>5 DEF s
      <4> QED BY <4>3, <4>6
    <3> QED BY <3>1
  <2>10. k \in {<<>>} \cup {SubSeq(t, h, h + 3) : h \in 1 .. j - 4}
    BY <2>9, Zenon
  <2>11. j \in 1 .. Len(Stream) - l + 1
    BY <2>2, <2>4a, <2>5, <2>7
  <2>12. SubSeq(b, 1, l) = Mask(SubSeq(Stream, j, j + l - 1), k)
    BY <2>2, <2>4a, <2>8, Zenon
  <2>13. short => \E h \in 1 .. Len(Stream) - 7 : FromBigEndian(SubSeq(Stream, h, h + 7)) < 0
    <3> SUFFICES ASSUME short
                 PROVE  \E h \in 1 .. z - 7 : FromBigEndian(SubSeq(t, h, h + 7)) < 0
      BY <2>2, <2>5
    <3>1. PICK g \in Nat, x \in Seq(ByteRange) :
            Run(x, t, g) /\ Len(x) = 8 /\ FromBigEndian(x) < 0
      BY <2>4a DEF LongSize
    <3>2. g + 8 <= z /\ \A y \in 1 .. 8 : x[y] = t[g + y]
      BY <2>5, <3>1 DEF Run
    <3> DEFINE s == SubSeq(t, g + 1, g + 8)
    <3>3. g + 8 \in Nat /\ g <= g + 8 /\ (g + 8) - g = 8
      OBVIOUS
    <3>4. s \in Seq(ByteRange) /\ Len(s) = 8 /\ \A y \in 1 .. 8 : s[y] = t[g + y]
      BY <2>5, <3>2, <3>3, Cut
    <3> HIDE DEF s
    <3>5. s = x
      <4>1. \A y \in 1 .. Len(s) : s[y] = x[y]
        BY <3>2, <3>4
      <4> QED BY <3>1, <3>4, <4>1, SeqEqual
    <3>6. g + 1 \in 1 .. z - 7 /\ (g + 1) + 7 = g + 8
      BY <3>2
    <3> QED BY <3>1, <3>5, <3>6 DEF s
  <2> HIDE DEF j, l, short
  <2>14. /\ \E y \in 1 .. Len(Stream) - l + 1 :
              \E q \in {<<>>} \cup {SubSeq(Stream, h, h + 3) : h \in 1 .. y - 4} :
                SubSeq(b, 1, l) = Mask(SubSeq(Stream, y, y + l - 1), q)
         /\ short => \E h \in 1 .. Len(Stream) - 7 :
                       FromBigEndian(SubSeq(Stream, h, h + 7)) < 0
    BY <2>2, <2>10, <2>11, <2>12, <2>13, Zenon
  <2> QED BY <2>14, Zenon DEF b, l, short
<1> QED BY <1>1, StreamInit, StreamNext, LongInit, LongNext, TypesInit, TypesNext, PTL DEF Spec
=============================================================================
