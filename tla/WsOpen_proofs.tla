---------------------------- MODULE WsOpen_proofs ----------------------------
(***************************************************************************)
(* Theorems about WsOpen, for every script that begins with an open packet,*)
(* every way the bytes are cut into packets, and all frames that the       *)
(* server's application may send, at any time, but for frames that hold    *)
(* the status line of an answer.                                           *)
(*                                                                         *)
(* Three invariants are inductive together: that of the connection,        *)
(* ServerInv with the phases of the server, and LinkInv with those of open.*)
(* The phase Answered is the one that matters: what the client has         *)
(* buffered and what is on its way are the frames that were sent early, the*)
(* answer and the frames behind it, in this order.                         *)
(***************************************************************************)
EXTENDS WsOpen, MsgHandler_proofs

-----------------------------------------------------------------------------
(* Ends of sequences. *)

\* s is the end of t.
Ends(s, t) == \E u \in Seq(Symbol) : t = u \o s

\* What a sequence ends with is a suffix of it.
LEMMA EndsIsSuffix ==
  ASSUME NEW s \in Seq(Symbol), NEW t \in Seq(Symbol), Ends(s, t)
  PROVE  IsSuffix(s, t)
<1>1. PICK u \in Seq(Symbol) : t = u \o s
  BY DEF Ends
<1>2. PICK m \in Nat : m = Len(s)
  BY LenProperties
<1>3. PICK k \in Nat : k = Len(u)
  BY LenProperties
<1>4. /\ Len(t) = k + m
      /\ \A i \in 1 .. k + m : t[i] = IF i <= k THEN u[i] ELSE s[i - k]
  BY <1>1, <1>2, <1>3, ConcatProperties
<1>5. \A i \in 1 .. m : k + i \in 1 .. k + m /\ t[k + i] = s[i]
  BY <1>4
<1>6. \A i \in 1 .. m : s[i] \in Symbol
  BY <1>2, ElementOfSeq
<1>7. \A i \in 1 .. k + m : t[i] \in Symbol
  BY <1>4, ElementOfSeq
<1> DEFINE rs == [i \in 1 .. m |-> s[(m - i) + 1]]
           rt == [i \in 1 .. k + m |-> t[(k + m - i) + 1]]
<1>8. Reverse(s) = rs /\ Reverse(t) = rt
  BY <1>2, <1>4 DEF Reverse
<1>9. rs \in Seq(Symbol) /\ Len(rs) = m
  <2>1. \A i \in 1 .. m : (m - i) + 1 \in 1 .. m
    OBVIOUS
  <2>2. \A i \in 1 .. m : rs[i] \in Symbol
    BY <1>6, <2>1
  <2>3. rs = [i \in 1 .. m |-> rs[i]]
    OBVIOUS
  <2> HIDE DEF rs
  <2> QED BY <2>2, <2>3, FunctionIsSeq
<1>10. rt \in Seq(Symbol) /\ Len(rt) = k + m
  <2>1. \A i \in 1 .. k + m : (k + m - i) + 1 \in 1 .. k + m
    OBVIOUS
  <2>2. \A i \in 1 .. k + m : rt[i] \in Symbol
    BY <1>7, <2>1
  <2>3. rt = [i \in 1 .. k + m |-> rt[i]] /\ k + m \in Nat
    OBVIOUS
  <2> HIDE DEF rt
  <2> QED BY <2>2, <2>3, FunctionIsSeq
<1>11. \A i \in 1 .. m : rs[i] = rt[i]
  <2> SUFFICES ASSUME NEW i \in 1 .. m PROVE rs[i] = rt[i]
    OBVIOUS
  <2>1. (m - i) + 1 \in 1 .. m /\ (k + m - i) + 1 = k + ((m - i) + 1) /\ i \in 1 .. k + m
    OBVIOUS
  <2>2. t[k + ((m - i) + 1)] = s[(m - i) + 1]
    BY <1>5, <2>1
  <2> QED BY <2>1, <2>2
<1> HIDE DEF rs, rt
<1>12. SubSeq(rs, 1, m) = rs
  BY <1>9, SubSeqFull
<1>13. SubSeq(rt, 1, m) = rs
  <2>1. \A i \in 1 .. m : rt[i] \in Symbol
    <3>1. \A i \in 1 .. m : i \in 1 .. Len(rt)
      BY <1>10
    <3> QED BY <1>10, <3>1, ElementOfSeq
  <2>2. /\ SubSeq(rt, 1, m) \in Seq(Symbol) /\ Len(SubSeq(rt, 1, m)) = m
        /\ \A i \in 1 .. m : SubSeq(rt, 1, m)[i] = rt[i]
    <3>1. 1 \in 1 .. k + m + 1 /\ m \in 0 .. k + m
      OBVIOUS
    <3> QED BY <1>10, <2>1, <3>1, SubSeqProperties
  <2> QED BY <1>9, <1>11, <2>2, SeqEqual
<1> QED BY <1>8, <1>9, <1>10, <1>12, <1>13 DEF IsSuffix, IsPrefix

\* What is appended to both is appended to the end.
LEMMA EndsFurther ==
  ASSUME NEW s \in Seq(Symbol), NEW t, NEW f \in Seq(Symbol), Ends(s, t)
  PROVE  Ends(s \o f, t \o f)
<1>1. PICK u \in Seq(Symbol) : t = u \o s
  BY DEF Ends
<1>2. t \o f = u \o (s \o f)
  BY <1>1, ConcatAssociative
<1> QED BY <1>2 DEF Ends

\* The end of an end.
LEMMA EndsBehind ==
  ASSUME NEW s \in Seq(Symbol), NEW t, NEW f \in Seq(Symbol), Ends(f \o s, t)
  PROVE  Ends(s, t)
<1>1. PICK u \in Seq(Symbol) : t = u \o (f \o s)
  BY DEF Ends
<1>2. t = (u \o f) \o s /\ u \o f \in Seq(Symbol)
  BY <1>1, ConcatAssociative, ConcatProperties, SMTT(30)
<1> QED BY <1>2 DEF Ends

\* A sequence ends with itself.
LEMMA EndsItself ==
  ASSUME NEW s \in Seq(Symbol)
  PROVE  Ends(s, s) /\ Ends(<<>>, s)
<1>1. <<>> \in Seq(Symbol) /\ s = <<>> \o s /\ s = s \o <<>>
  BY ConcatEmptySeq, EmptySeq
<1> QED BY <1>1 DEF Ends

-----------------------------------------------------------------------------
(* The handshake: the open packet, and the answer to it. *)

\* create_open_packet is a handshake, and so is the answer 101.
LEMMA Handshakes ==
  /\ \A u \in Urls : OpenPacket(u) = Handshake(Line(u), WsKey) /\ Telling(Line(u), WsKey)
  /\ Answer101 = Handshake(Status(101), WebSocket) /\ Telling(Status(101), WebSocket)
<1>1. ASSUME NEW u \in Urls
      PROVE  OpenPacket(u) = Handshake(Line(u), WsKey) /\ Telling(Line(u), WsKey)
  <2>1. Line(u) \in Symbol /\ Line(u)[1] = "line"
    BY DEF Symbol, Line
  <2>2. Telling(Line(u), WsKey)
    BY <2>1, Tags DEF Telling
  <2>3. OpenPacket(u) = <<Line(u)>> \o HTTP_SEP \o <<Upgrade, WebSocket>> \o HTTP_SEP
                           \o <<WsKey>> \o HTTP_SEP \o HTTP_SEP
    BY DEF OpenPacket, Encode
  <2> QED BY <2>2, <2>3, HandshakeSent
<1>2. Answer101 = Handshake(Status(101), WebSocket) /\ Telling(Status(101), WebSocket)
  <2>1. Status(101) \in Symbol /\ Status(101)[1] = "status"
    BY OpenAssumption DEF Symbol, Status
  <2>2. Telling(Status(101), WebSocket)
    BY <2>1, Tags DEF Telling
  <2> QED BY <2>2, HandshakeSent DEF Answer101
<1> QED BY <1>1, <1>2

-----------------------------------------------------------------------------
(* The end of a handshake. *)

\* A handshake behind x symbols of s, as far as s goes.
Behind(s, m, x, h) == \A k \in 1 .. 12 : x + k <= m => s[x + k] = h[k]

\* An end flag that is not before the handshake is not before the end of it.
LEMMA EndBehind ==
  ASSUME NEW first, NEW key, Telling(first, key), NEW s, NEW m \in Nat, NEW x \in Nat,
         Behind(s, m, x, Handshake(first, key)),
         NEW e \in Nat \ {0}, e + 3 <= m, e + 3 > x, EndAt(s, e)
  PROVE  e >= x + 9
<1> DEFINE h == Handshake(first, key)
<1>1. /\ h[1] = first /\ h[3] = LF /\ h[4] = Upgrade /\ h[5] = WebSocket
      /\ h[7] = LF /\ h[8] = key
  BY HandshakeSymbols
<1>2. /\ CR[1] = "CR" /\ LF[1] = "LF" /\ Upgrade[1] = "upgrade" /\ WebSocket[1] = "websocket"
      /\ first[1] # "CR" /\ first[1] # "LF" /\ key[1] # "CR" /\ key[1] # "LF"
  BY Tags DEF Telling
<1>3. \A k \in 1 .. 12 : x + k <= m => s[x + k] = h[k]
  BY DEF Behind
<1> HIDE DEF h
<1> SUFFICES ASSUME e < x + 9 PROVE FALSE
  OBVIOUS
<1>4. PICK k \in Int : k = e - x /\ k >= -2 /\ k <= 8
  OBVIOUS
<1>5. e = x + k /\ s[e] = CR /\ s[e + 1] = LF /\ s[e + 2] = CR /\ s[e + 3] = LF
  BY <1>4 DEF EndAt
<1>6. CASE k <= 0
  <2>1. 1 \in 1 .. 12 /\ x + 1 <= m
    BY <1>4, <1>6
  <2>2. s[x + 1] = first
    BY <1>1, <1>3, <2>1
  <2>3. x + 1 = e + 1 \/ x + 1 = e + 2 \/ x + 1 = e + 3
    BY <1>4, <1>6
  <2> QED BY <1>2, <1>5, <2>2, <2>3
<1>7. CASE k > 0
  <2>1. k \in 1 .. 12 /\ k + 2 \in 1 .. 12 /\ x + k <= m /\ x + (k + 2) <= m
        /\ x + k = e /\ x + (k + 2) = e + 2
    BY <1>4, <1>7
  <2>2. h[k] = CR /\ h[k + 2] = CR
    BY <1>3, <1>5, <2>1
  <2>3. k \in 1 .. 8 => k = 1 \/ k = 2 \/ k = 3 \/ k = 4 \/ k = 5 \/ k = 6 \/ k = 7 \/ k = 8
    OBVIOUS
  <2>4. k \in 1 .. 8
    BY <1>4, <1>7
  <2>5. h[1] # CR /\ h[3] # CR /\ h[4] # CR /\ h[5] # CR /\ h[7] # CR /\ h[8] # CR
    BY <1>1, <1>2
  <2>6. k = 2 \/ k = 6
    BY <2>2, <2>3, <2>4, <2>5
  <2>7. 2 + 2 = 4 /\ 6 + 2 = 8
    OBVIOUS
  <2> QED BY <2>2, <2>5, <2>6, <2>7
<1> QED BY <1>4, <1>6, <1>7

-----------------------------------------------------------------------------
(* A handshake of which a part has arrived, behind other symbols. *)

\* The buffer b and what is to come, d, are x, a handshake and y.
Carries(b, d, x, h, y) == b \o d = x \o (h \o y)

\* What is sent and received.  The provers see only the name of this set.
Text == Seq(Symbol)

\* Texts are put together.
LEMMA Texts ==
  /\ \A a \in Text, b \in Text : a \o b \in Text
  /\ \A a \in Text, b \in Text, c \in Text : (a \o b) \o c = a \o (b \o c)
  /\ \A a \in Text : <<>> \o a = a /\ a \o <<>> = a
  /\ <<>> \in Text
BY ConcatProperties, Together, ConcatEmptySeq, EmptySeq DEF Text

\* There is something between two cuts of a text.
LEMMA BetweenCuts ==
  ASSUME NEW a \in Text, NEW b \in Text, NEW c \in Text, NEW d \in Text, Twice(a, b, c, d)
  PROVE  \E v \in Text : Between(a, b, c, d, v)
BY CutTwice DEF Text

\* A cut between a and b, behind that between c and d; both at the same place.
LEMMA SameCut ==
  ASSUME NEW a \in Text, NEW b \in Text, NEW c \in Text, NEW d \in Text,
         a \o b = c \o d, Len(a) = Len(c)
  PROVE  b = d
<1>1. PICK n \in Nat : n = Len(a) /\ n = Len(c)
  BY LenProperties DEF Text
<1>2. Twice(a, b, c, d)
  BY <1>1 DEF Twice
<1>i. PICK v \in Text : Between(a, b, c, d, v)
  BY <1>2, BetweenCuts
<1>3. a = c \o v /\ d = v \o b
  BY <1>i DEF Between
<1>4. PICK l \in Nat : l = Len(v)
  BY LenProperties DEF Text
<1>5. n = n + l
  <2>1. Len(c \o v) = Len(c) + Len(v)
    BY ConcatProperties DEF Text
  <2> QED BY <1>1, <1>3, <1>4, <2>1
<1>6. l = 0
  BY <1>5
<1>7. v = <<>>
  BY <1>4, <1>6, EmptySeq DEF Text
<1> QED BY <1>3, <1>7, Texts

\* A buffer of which a part is taken, with what is to come.
LEMMA ReadThen ==
  ASSUME NEW s \in Text, NEW n \in 0 .. Len(s), NEW d \in Text
  PROVE  /\ Read(s, n) \in Text /\ Len(Read(s, n)) = n /\ Consume(s, n) \in Text
         /\ s \o d = Read(s, n) \o (Consume(s, n) \o d)
<1>1. PICK a \in Text, b \in Text :
        a = Read(s, n) /\ b = Consume(s, n) /\ s = a \o b /\ Len(a) = n
  BY ReadAndLeft DEF Text
<1>2. (a \o b) \o d = a \o (b \o d)
  BY Texts
<1> QED BY <1>1, <1>2

\* What a buffer holds, then.
LEMMA BufferHolds ==
  ASSUME NEW first, NEW key, Telling(first, key), NEW b \in Seq(Symbol), NEW d \in Seq(Symbol),
         NEW x \in Seq(Symbol), NEW y \in Seq(Symbol),
         Carries(b, d, x, Handshake(first, key), y),
         NEW m \in Nat, m = Len(b), NEW n \in Nat, n = Len(x)
  PROVE  /\ \A i \in 1 .. m : i <= n => b[i] = x[i]
         /\ Behind(b, m, n, Handshake(first, key))
<1>h. PICK h \in Seq(Symbol) : h = Handshake(first, key) /\ Len(h) = 12
  BY HandshakeSymbols
<1>1. PICK l \in Nat : l = Len(d)
  BY LenProperties
<1>2. PICK r \in Nat : r = Len(y)
  BY LenProperties
<1>3. PICK t \in Seq(Symbol) : t = h \o y
  BY ConcatProperties
<1>4. Len(t) = 12 + r /\ \A i \in 1 .. 12 : t[i] = h[i]
  <2>1. /\ Len(h \o y) = Len(h) + Len(y)
        /\ \A i \in 1 .. Len(h) + Len(y) : (h \o y)[i] = IF i <= Len(h) THEN h[i] ELSE y[i - Len(h)]
    BY ConcatProperties
  <2>2. Len(t) = 12 + r
    BY <1>2, <1>h, <1>3, <2>1
  <2>3. \A i \in 1 .. 12 : i \in 1 .. 12 + r /\ i <= 12
    BY <1>2
  <2> QED BY <1>2, <1>h, <1>3, <2>1, <2>2, <2>3
<1>5. PICK a \in Seq(Symbol) : a = b \o d
  BY ConcatProperties
<1>6. Len(a) = m + l /\ \A i \in 1 .. m : a[i] = b[i]
  <2>1. /\ Len(b \o d) = Len(b) + Len(d)
        /\ \A i \in 1 .. Len(b) + Len(d) : (b \o d)[i] = IF i <= Len(b) THEN b[i] ELSE d[i - Len(b)]
    BY ConcatProperties
  <2>2. \A i \in 1 .. m : i \in 1 .. m + l /\ i <= m
    BY <1>1
  <2> QED BY <1>1, <1>5, <2>1, <2>2
<1>7. Len(a) = n + (12 + r) /\ \A i \in 1 .. n + (12 + r) : a[i] = IF i <= n THEN x[i] ELSE t[i - n]
  <2>1. /\ Len(x \o t) = Len(x) + Len(t)
        /\ \A i \in 1 .. Len(x) + Len(t) : (x \o t)[i] = IF i <= Len(x) THEN x[i] ELSE t[i - Len(x)]
    BY ConcatProperties
  <2>2. a = x \o t
    BY <1>h, <1>3, <1>5 DEF Carries
  <2> QED BY <1>4, <2>1, <2>2
<1>m. m + l = n + (12 + r)
  BY <1>6, <1>7
<1>8. \A i \in 1 .. m : i <= n => b[i] = x[i]
  <2> SUFFICES ASSUME NEW i \in 1 .. m, i <= n PROVE b[i] = x[i]
    OBVIOUS
  <2>1. i \in 1 .. n + (12 + r)
    OBVIOUS
  <2> QED BY <1>6, <1>7, <2>1
<1>9. ASSUME NEW k \in 1 .. 12, n + k <= m
      PROVE  b[n + k] = h[k]
  <2>1. n + k \in 1 .. m
    BY <1>9
  <2>2. n + k \in 1 .. n + (12 + r) /\ ~ (n + k <= n) /\ n + k - n = k
    OBVIOUS
  <2>3. a[n + k] = b[n + k]
    BY <1>6, <2>1
  <2>4. a[n + k] = t[k]
    BY <1>7, <2>2
  <2> QED BY <1>4, <2>3, <2>4
<1> QED BY <1>h, <1>8, <1>9 DEF Behind

\* c and d carry the handshake behind the rest of x.
CutFrom(x, c, d, h, y) == \E v \in Text, w \in Text : x = w \o v /\ Carries(c, d, v, h, y)

\* When symbols of x are taken, the rest still carries the handshake.
LEMMA CarriesCut ==
  ASSUME NEW b \in Text, NEW d \in Text, NEW x \in Text, NEW y \in Text, NEW h \in Text,
         Carries(b, d, x, h, y),
         NEW m \in Nat, m = Len(b), NEW n \in Nat, n = Len(x), NEW k \in 0 .. m, k <= n
  PROVE  CutFrom(x, Consume(b, k), d, h, y)
<1>0. k \in 0 .. Len(b)
  OBVIOUS
<1>1. PICK w \in Text, c \in Text :
        w = Read(b, k) /\ Len(w) = k /\ c = Consume(b, k) /\ b \o d = w \o (c \o d)
  BY <1>0, ReadThen
<1>2. h \o y \in Text /\ c \o d \in Text
  BY Texts
<1>3. Twice(x, h \o y, w, c \o d)
  <2>1. x \o (h \o y) = w \o (c \o d)
    BY <1>1 DEF Carries
  <2>2. Len(w) <= Len(x)
    BY <1>1
  <2> QED BY <2>1, <2>2 DEF Twice
<1>4. PICK v \in Text : Between(x, h \o y, w, c \o d, v)
  BY <1>2, <1>3, BetweenCuts
<1>5. x = w \o v /\ c \o d = v \o (h \o y)
  BY <1>4 DEF Between
<1> QED BY <1>1, <1>5 DEF Carries, CutFrom

\* The first k symbols of b are as many as those of x and h.
Spans(k, b, x, h) == k \in 0 .. Len(b) /\ k = Len(x) + Len(h)

\* When all of x and the handshake are taken, the rest is y.
LEMMA CarriesBehind ==
  ASSUME NEW b \in Text, NEW d \in Text, NEW x \in Text, NEW y \in Text, NEW h \in Text,
         Carries(b, d, x, h, y), NEW k, Spans(k, b, x, h)
  PROVE  Consume(b, k) \o d = y
<1>0. k \in 0 .. Len(b) /\ k = Len(x) + Len(h)
  BY DEF Spans
<1>1. PICK w \in Text, c \in Text :
        w = Read(b, k) /\ Len(w) = k /\ c = Consume(b, k) /\ b \o d = w \o (c \o d)
  <2>1. /\ Read(b, k) \in Text /\ Len(Read(b, k)) = k /\ Consume(b, k) \in Text
        /\ b \o d = Read(b, k) \o (Consume(b, k) \o d)
    BY <1>0, ReadThen
  <2> QED BY <2>1, Zenon
<1>2. c \o d \in Text /\ x \o h \in Text
  BY Texts
<1>3. w \o (c \o d) = (x \o h) \o y
  <2>1. (x \o h) \o y = x \o (h \o y)
    BY Texts, SMTT(30)
  <2> QED BY <1>1, <2>1 DEF Carries
<1>4. Len(x \o h) = Len(x) + Len(h)
  BY ConcatProperties DEF Text
<1>5. Len(w) = Len(x \o h)
  BY <1>0, <1>1, <1>4
<1>6. c \o d = y
  BY <1>2, <1>3, <1>5, SameCut
<1> QED BY <1>0, <1>1, <1>6

\* parse_header waits for more.
Waits(p) == ParseHeader(p).ret = "CONTINUE" /\ ParseHeader(p).p = p

\* It rejects what it takes from x.
Drops(p, d, x, h, y) ==
  /\ ParseHeader(p).ret = "INVALID_ARG" /\ ParseHeader(p).p.type = "INVALID"
  /\ ParseHeader(p).p.header = p.header /\ x # <<>>
  /\ CutFrom(x, ParseHeader(p).p.pkts, d, h, y)

\* It takes a header from x.
Overtaken(p, x) ==
  /\ ParseHeader(p).ret = "OK" /\ ParseHeader(p).p.type # "INVALID" /\ x # <<>>
  /\ \A i \in DOMAIN ParseHeader(p).p.header :
       \E j \in DOMAIN x : ParseHeader(p).p.header[i] = x[j]

\* It takes x and the handshake, of which it leaves the last line end out.
Taken(p, d, x, h, y) ==
  /\ ParseHeader(p).ret = "OK" /\ ParseHeader(p).p.type = "WEBSOCKET"
  /\ ParseHeader(p).p.pkts \o d = y
  /\ ParseHeader(p).p.header \in Seq(Symbol)
  /\ Len(ParseHeader(p).p.header) = Len(x) + 10
  /\ \A i \in 1 .. Len(x) : ParseHeader(p).p.header[i] = x[i]
  /\ \A i \in 1 .. 10 : ParseHeader(p).p.header[Len(x) + i] = h[i]

\* The end of the header is in x.
LEMMA EndBefore ==
  ASSUME NEW p \in Parser, p.type = "INVALID", NEW first, NEW key, Telling(first, key),
         NEW x \in Text, NEW y \in Text, NEW d \in Text,
         Carries(p.pkts, d, x, Handshake(first, key), y),
         NEW m \in Nat, m = Len(p.pkts), NEW n \in Nat, n = Len(x),
         NEW e \in Nat \ {0}, e = Search(p.pkts, HTTP_END_FLAG, 1), e + 3 <= m, e + 3 <= n
  PROVE  Drops(p, d, x, Handshake(first, key), y) \/ Overtaken(p, x)
<1> DEFINE r == ParseHeader(p)
           q == Classify(p)
<1>1. PICK b \in Text : b = p.pkts
  BY DEF Parser, Text
<1>2. PICK h \in Text : h = Handshake(first, key)
  BY HandshakeSymbols DEF Text
<1>3. PICK k \in 0 .. m : k = e + 3 /\ k <= n
  OBVIOUS
<1>4. x # <<>>
  BY <1>3, EmptySeq
<1>5. /\ r.p.pkts = Consume(b, e + 3)
      /\ q.type = "INVALID" =>
           r.ret = "INVALID_ARG" /\ r.p.type = "INVALID" /\ r.p.header = p.header
      /\ q.type # "INVALID" =>
           r.ret = "OK" /\ r.p.type = q.type /\ r.p.header = Read(b, e + 1)
  BY <1>1, HeaderTaken
<1> HIDE DEF r, q
<1>6. CASE q.type = "INVALID"
  <2>1. Carries(b, d, x, h, y)
    BY <1>1, <1>2
  <2>2. CutFrom(x, Consume(b, k), d, h, y)
    <3>1. m = Len(b)
      BY <1>1
    <3> QED BY <1>3, <2>1, <3>1, CarriesCut
  <2>3. Consume(b, k) = r.p.pkts
    BY <1>3, <1>5
  <2>4. r.ret = "INVALID_ARG" /\ r.p.type = "INVALID" /\ r.p.header = p.header
    BY <1>5, <1>6
  <2>5. Drops(p, d, x, h, y)
    BY <1>4, <2>2, <2>3, <2>4 DEF Drops, r
  <2> QED BY <1>2, <2>5
<1>7. CASE q.type # "INVALID"
  <2>1. r.p.header = Read(b, e + 1) /\ r.ret = "OK" /\ r.p.type # "INVALID"
    BY <1>5, <1>7
  <2>2. PICK l \in 0 .. m : l = e + 1 /\ l <= n
    BY <1>3
  <2>3. /\ Read(b, l) \in Seq(Symbol) /\ Len(Read(b, l)) = l
        /\ \A i \in 1 .. l : Read(b, l)[i] = b[i]
    BY <1>1, ReadAndLeft DEF Text
  <2>4. \A i \in 1 .. m : i <= n => b[i] = x[i]
    <3>1. b \in Seq(Symbol) /\ d \in Seq(Symbol) /\ x \in Seq(Symbol) /\ y \in Seq(Symbol)
      BY DEF Text
    <3> QED BY <1>1, <3>1, BufferHolds
  <2>5. DOMAIN r.p.header = 1 .. l /\ DOMAIN x = 1 .. n
    BY <2>1, <2>2, <2>3, LenProperties DEF Text
  <2>6. \A i \in 1 .. l : i \in 1 .. m /\ i \in 1 .. n /\ i <= n
    BY <2>2
  <2>7. \A i \in DOMAIN r.p.header : r.p.header[i] = x[i] /\ i \in DOMAIN x
    BY <2>1, <2>2, <2>3, <2>4, <2>5, <2>6
  <2> QED BY <1>4, <2>1, <2>7 DEF Overtaken, r
<1> QED BY <1>6, <1>7

\* The handshake is there.
LEMMA EndThere ==
  ASSUME NEW p \in Parser, p.type = "INVALID", NEW first, NEW key, Telling(first, key),
         NEW x \in Text, NEW y \in Text, NEW d \in Text,
         Carries(p.pkts, d, x, Handshake(first, key), y),
         NEW m \in Nat, m = Len(p.pkts), NEW n \in Nat, n = Len(x),
         NEW e \in Nat \ {0}, e = Search(p.pkts, HTTP_END_FLAG, 1), e + 3 <= m, e = n + 9
  PROVE  Taken(p, d, x, Handshake(first, key), y)
<1> DEFINE r == ParseHeader(p)
           q == Classify(p)
<1>1. PICK b \in Text : b = p.pkts
  BY DEF Parser, Text
<1>2. PICK h \in Text : h = Handshake(first, key) /\ Len(h) = 12 /\ h[4] = Upgrade /\ h[5] = WebSocket
  BY HandshakeSymbols DEF Text
<1>3. PICK k \in 0 .. m : k = e + 3 /\ k = n + 12
  OBVIOUS
<1>4. /\ r.p.pkts = Consume(b, e + 3)
      /\ q.type # "INVALID" =>
           r.ret = "OK" /\ r.p.type = q.type /\ r.p.header = Read(b, e + 1)
  BY <1>1, HeaderTaken
<1> HIDE DEF r
<1>5. (\A i \in 1 .. m : i <= n => b[i] = x[i]) /\ Behind(b, m, n, h)
  <2>1. b \in Seq(Symbol) /\ d \in Seq(Symbol) /\ x \in Seq(Symbol) /\ y \in Seq(Symbol)
    BY DEF Text
  <2>2. /\ \A i \in 1 .. m : i <= n => p.pkts[i] = x[i]
        /\ Behind(p.pkts, m, n, Handshake(first, key))
    BY <1>1, <2>1, BufferHolds
  <2> QED BY <1>1, <1>2, <2>2
<1>6. \A i \in 1 .. 12 : n + i \in 1 .. m /\ b[n + i] = h[i]
  <2>1. \A i \in 1 .. 12 : n + i \in 1 .. m /\ n + i <= m
    BY <1>3
  <2> QED BY <1>5, <2>1 DEF Behind
<1>7. q.type = "WEBSOCKET"
  <2>1. 4 \in 1 .. 12 /\ 5 \in 1 .. 12
    OBVIOUS
  <2>2. b[n + 4] = Upgrade /\ b[n + 5] = WebSocket /\ n + 4 \in 1 .. m /\ n + 5 \in 1 .. m
    BY <1>2, <1>6, <2>1
  <2>3. Upgrade[1] = "upgrade" /\ WebSocket[1] = "websocket"
    BY Tags
  <2> QED BY <1>1, <2>2, <2>3, UpgradeKnown
<1> HIDE DEF q
<1>8. r.ret = "OK" /\ r.p.type = "WEBSOCKET" /\ r.p.header = Read(b, e + 1)
  BY <1>4, <1>7
<1>9. PICK l \in 0 .. m : l = e + 1 /\ l = n + 10
  BY <1>3
<1>10. /\ Read(b, l) \in Seq(Symbol) /\ Len(Read(b, l)) = l
       /\ \A i \in 1 .. l : Read(b, l)[i] = b[i]
  BY <1>1, ReadAndLeft DEF Text
<1>11. r.p.pkts \o d = y
  <2>1. Carries(b, d, x, h, y)
    BY <1>1, <1>2
  <2>2. 12 \in Nat /\ 12 = Len(h)
    BY <1>2
  <2>3. Consume(b, k) \o d = y
    <3>1. PICK o \in Nat : o = Len(h) /\ o = 12
      BY <2>2
    <3>2. k = n + o
      BY <1>3, <3>1
    <3>3. Spans(k, b, x, h)
      BY <1>1, <3>1, <3>2 DEF Spans
    <3> QED BY <2>1, <3>3, CarriesBehind
  <2> QED BY <1>3, <1>4, <2>3
<1>12. \A i \in 1 .. n : i \in 1 .. l /\ i \in 1 .. m /\ i <= n
  BY <1>9
<1>13. \A i \in 1 .. 10 : n + i \in 1 .. l /\ i \in 1 .. 12
  BY <1>9
<1>14. r.p.header = Read(b, l)
  BY <1>8, <1>9
<1>15. \A i \in 1 .. n : r.p.header[i] = x[i]
  BY <1>5, <1>10, <1>12, <1>14
<1>16. \A i \in 1 .. 10 : r.p.header[n + i] = h[i]
  BY <1>6, <1>10, <1>13, <1>14
<1>17. r.p.header \in Seq(Symbol) /\ Len(r.p.header) = n + 10
  BY <1>9, <1>10, <1>14
<1> QED BY <1>2, <1>8, <1>11, <1>15, <1>16, <1>17 DEF Taken, r

\* What parse_header makes of a buffer whose symbols, with those to come, are x, a
\* handshake and y.
LEMMA HandshakeParsed ==
  ASSUME NEW p \in Parser, p.type = "INVALID", NEW first, NEW key, Telling(first, key),
         NEW x \in Text, NEW y \in Text, NEW d \in Text,
         Carries(p.pkts, d, x, Handshake(first, key), y)
  PROVE  \/ Waits(p)
         \/ Drops(p, d, x, Handshake(first, key), y)
         \/ Overtaken(p, x)
         \/ Taken(p, d, x, Handshake(first, key), y)
<1>1. PICK b \in Seq(Symbol) : b = p.pkts
  BY DEF Parser
<1>2. PICK m \in Nat : m = Len(b)
  BY LenProperties
<1>3. PICK n \in Nat : n = Len(x)
  BY LenProperties DEF Text
<1>4. PICK e \in Nat :
        /\ e = Search(b, HTTP_END_FLAG, 1)
        /\ e # 0 => e + 3 <= m /\ EndAt(b, e)
        /\ \A i \in Nat \ {0} : i + 3 <= m /\ EndAt(b, i) => e # 0 /\ e <= i
  BY <1>2, EndFound
<1>5. CASE e = 0
  <2>1. Waits(p)
    BY <1>1, <1>4, <1>5, HeaderTaken DEF Waits
  <2> QED BY <2>1
<1>6. CASE e # 0 /\ e + 3 <= n
  <2>1. e \in Nat \ {0} /\ e + 3 <= m /\ e = Search(p.pkts, HTTP_END_FLAG, 1) /\ m = Len(p.pkts)
    BY <1>1, <1>2, <1>4, <1>6
  <2> QED BY <1>3, <1>6, <2>1, EndBefore
<1>7. CASE e # 0 /\ ~ (e + 3 <= n)
  <2>1. e \in Nat \ {0} /\ e + 3 <= m /\ e = Search(p.pkts, HTTP_END_FLAG, 1) /\ m = Len(p.pkts)
        /\ EndAt(b, e) /\ e + 3 > n
    BY <1>1, <1>2, <1>3, <1>4, <1>7
  <2>2. Behind(b, m, n, Handshake(first, key))
    <3>1. b \in Seq(Symbol) /\ d \in Seq(Symbol) /\ x \in Seq(Symbol) /\ y \in Seq(Symbol)
      BY DEF Text
    <3> QED BY <1>1, <1>2, <1>3, <3>1, BufferHolds
  <2>3. e >= n + 9
    BY <2>1, <2>2, EndBehind
  <2>4. EndAt(b, n + 9)
    <3>1. PICK h \in Text : /\ h = Handshake(first, key) /\ h[9] = CR /\ h[10] = LF
                            /\ h[11] = CR /\ h[12] = LF
      BY HandshakeSymbols DEF Text
    <3>2. /\ n + 9 <= m /\ n + 10 <= m /\ n + 11 <= m /\ n + 12 <= m
          /\ n + 9 + 1 = n + 10 /\ n + 9 + 2 = n + 11 /\ n + 9 + 3 = n + 12
          /\ 9 \in 1 .. 12 /\ 10 \in 1 .. 12 /\ 11 \in 1 .. 12 /\ 12 \in 1 .. 12
      BY <2>1, <2>3
    <3>3. b[n + 9] = CR /\ b[n + 10] = LF /\ b[n + 11] = CR /\ b[n + 12] = LF
      BY <2>2, <3>1, <3>2 DEF Behind
    <3> QED BY <3>2, <3>3 DEF EndAt
  <2>5. e = n + 9
    <3>1. n + 9 \in Nat \ {0} /\ n + 9 + 3 <= m
      BY <2>1, <2>3
    <3>2. e <= n + 9
      BY <1>4, <2>4, <3>1
    <3> QED BY <2>3, <3>2
  <2> QED BY <1>3, <2>1, <2>5, EndThere
<1> QED BY <1>5, <1>6, <1>7

-----------------------------------------------------------------------------
(* The operators of the temporary client are those of the server. *)

\* Searching and cutting.
LEMMA SameSearch ==
  /\ \A hits : Client!First(hits) = First(hits)
  /\ \A s, pat, from : Client!Search(s, pat, from) = Search(s, pat, from)
  /\ \A s, tags : Client!SearchText(s, tags) = SearchText(s, tags)
  /\ \A s, n : Client!Read(s, n) = Read(s, n) /\ Client!Consume(s, n) = Consume(s, n)
  /\ Client!HTTP_SEP = HTTP_SEP /\ Client!HTTP_END_FLAG = HTTP_END_FLAG /\ Client!Null = Null
  /\ \A ret, packet, p : Client!Result(ret, packet, p) = Result(ret, packet, p)
<1>1. \A hits : Client!First(hits) = First(hits)
  BY DEF Client!First, First, Client!Min, Min
<1>2. \A s, pat, from : Client!Search(s, pat, from) = Search(s, pat, from)
  BY <1>1 DEF Client!Search, Search
<1>3. \A s, tags : Client!SearchText(s, tags) = SearchText(s, tags)
  BY <1>1 DEF Client!SearchText, SearchText
<1>4. \A s, n : Client!Read(s, n) = Read(s, n) /\ Client!Consume(s, n) = Consume(s, n)
  BY DEF Client!Read, Read, Client!Consume, Consume
<1>5. Client!HTTP_SEP = HTTP_SEP /\ Client!HTTP_END_FLAG = HTTP_END_FLAG /\ Client!Null = Null
  BY DEF Client!HTTP_SEP, HTTP_SEP, Client!HTTP_END_FLAG, HTTP_END_FLAG, Client!Null, Null,
         Client!CR, CR, Client!LF, LF
<1>6. \A ret, packet, p : Client!Result(ret, packet, p) = Result(ret, packet, p)
  BY DEF Client!Result, Result
<1> QED BY <1>1, <1>2, <1>3, <1>4, <1>5, <1>6

\* parse_header, push and reset.
LEMMA SameParseHeader ==
  ASSUME NEW p
  PROVE  Client!ParseHeader(p) = ParseHeader(p)
<1>1. Client!Classify(p) = Classify(p)
  BY SameSearch DEF Client!Classify, Classify
<1>2. \A q, n : Client!TakeHeader(q, n) = TakeHeader(q, n)
  BY SameSearch DEF Client!TakeHeader, TakeHeader
<1> QED BY <1>1, <1>2, SameSearch DEF Client!ParseHeader, ParseHeader

\* The members of the class.
LEMMA SameParser ==
  /\ Client!Symbol = Symbol /\ Client!Types = Types /\ Client!Parser = Parser
  /\ \A p, packet : Client!Push(p, packet) = Push(p, packet)
  /\ \A p : Client!Reset(p) = Reset(p)
  /\ \A g : Client!NewParser(g) = NewParser(g)
<1>1. Client!Symbol = Symbol
  BY DEF Client!Symbol, Symbol, Client!CR, CR, Client!LF, LF, Client!Upgrade, Upgrade,
         Client!WebSocket, WebSocket, Client!WsKey, WsKey, Client!Chunked, Chunked,
         Client!Dashes, Dashes, Client!Frame, Frame, Client!Frames, Frames
<1>2. Client!Types = Types
  BY DEF Client!Types, Types
<1>3. Client!Parser = Parser
  BY <1>1, <1>2 DEF Client!Parser, Parser
<1>4. \A p, packet : Client!Push(p, packet) = Push(p, packet)
  BY DEF Client!Push, Push
<1>5. \A p : Client!Reset(p) = Reset(p)
  BY SameSearch DEF Client!Reset, Reset
<1>6. \A g : Client!NewParser(g) = NewParser(g)
  BY SameSearch DEF Client!NewParser, NewParser
<1> QED BY <1>1, <1>2, <1>3, <1>4, <1>5, <1>6

\* What is taken of a body.
LEMMA SameBody ==
  ASSUME NEW p
  PROVE  /\ Client!GetContent(p) = GetContent(p)
         /\ Client!GetChunk(p) = GetChunk(p)
         /\ Client!GetBoundary(p) = GetBoundary(p)
<1>1. Client!GetContent(p) = GetContent(p)
  BY SameSearch DEF Client!GetContent, GetContent
<1>2. \A line : Client!HexValue(line) = HexValue(line)
  BY SameSearch DEF Client!HexValue, HexValue, Client!CR, CR, Client!LF, LF
<1>3. \A q : Client!ReadChunkSize(q) = ReadChunkSize(q)
  BY <1>2, SameSearch DEF Client!ReadChunkSize, ReadChunkSize
<1>4. Client!GetChunk(p) = GetChunk(p)
  <2> DEFINE r == IF p.chunkBytes < 0 THEN ReadChunkSize(p) ELSE Result("OK", Null, p)
             c == IF p.chunkBytes < 0 THEN Client!ReadChunkSize(p)
                                      ELSE Client!Result("OK", Client!Null, p)
             Sized(q, n) ==
               IF q.chunkBytes = 0
               THEN Result("OK", Null, [q EXCEPT !.pkts = Consume(@, 2), !.chunkBytes = -1])
               ELSE IF n > MaxChunk
               THEN Result("OK", q.pkts, [q EXCEPT !.pkts = Null, !.chunkBytes = -1])
               ELSE IF n + 2 > Len(q.pkts)
               THEN Result("CONTINUE", Null, q)
               ELSE Result("OK", Read(q.pkts, n),
                           [q EXCEPT !.pkts = Consume(@, n + 2), !.chunkBytes = -1])
             ClientSized(q, n) ==
               IF q.chunkBytes = 0
               THEN Client!Result("OK", Client!Null,
                                  [q EXCEPT !.pkts = Client!Consume(@, 2), !.chunkBytes = -1])
               ELSE IF n > Client!MaxChunk
               THEN Client!Result("OK", q.pkts,
                                  [q EXCEPT !.pkts = Client!Null, !.chunkBytes = -1])
               ELSE IF n + 2 > Len(q.pkts)
               THEN Client!Result("CONTINUE", Client!Null, q)
               ELSE Client!Result("OK", Client!Read(q.pkts, n),
                                  [q EXCEPT !.pkts = Client!Consume(@, n + 2), !.chunkBytes = -1])
  <2>1. c = r
    BY <1>3, SameSearch
  <2>2. ASSUME NEW q, NEW n PROVE ClientSized(q, n) = Sized(q, n)
    <3>1. /\ Client!Consume(q.pkts, 2) = Consume(q.pkts, 2)
          /\ Client!Consume(q.pkts, n + 2) = Consume(q.pkts, n + 2)
          /\ Client!Read(q.pkts, n) = Read(q.pkts, n)
          /\ Client!Null = Null
      BY SameSearch
    <3>2. Client!MaxChunk = MaxChunk
      BY DEF Client!MaxChunk, MaxChunk
    <3>3. \A ret, packet, t : Client!Result(ret, packet, t) = Result(ret, packet, t)
      BY SameSearch
    <3> QED BY <3>1, <3>2, <3>3, Zenon
  <2>3. GetChunk(p) = IF r.ret # "OK" THEN r ELSE Sized(r.p, r.p.chunkBytes)
    BY Zenon DEF GetChunk
  <2>4. Client!GetChunk(p) = IF c.ret # "OK" THEN c ELSE ClientSized(c.p, c.p.chunkBytes)
    BY Zenon DEF Client!GetChunk
  <2> HIDE DEF r, c, Sized, ClientSized
  <2> QED BY <2>1, <2>2, <2>3, <2>4
<1>5. \A b : Client!Flag(b) = Flag(b)
  BY DEF Client!Flag, Flag
<1>6. Client!Dashes = Dashes
  BY DEF Client!Dashes, Dashes
<1>7. Client!GetBoundary(p) = GetBoundary(p)
  BY <1>5, <1>6, SameSearch DEF Client!GetBoundary, GetBoundary
<1> QED BY <1>1, <1>4, <1>7

-----------------------------------------------------------------------------
(* What each end reads in the first line. *)

\* A header begins with the first line of a handshake.
Begun(header, first) ==
  /\ header \in Seq(Symbol) /\ 3 \in 1 .. Len(header)
  /\ header[1] = first /\ header[2] = CR /\ header[3] = LF
  /\ first \in Symbol /\ first[1] \notin {"CR", "LF", "data"}

\* The separator is found behind the first symbol.
LEMMA LineFound ==
  ASSUME NEW s \in Seq(Symbol), NEW m \in Nat, m = Len(s)
  PROVE  m >= 3 /\ s[1] # CR /\ s[2] = CR /\ s[3] = LF => Search(s, HTTP_SEP, 1) = 2
<1>1. PICK f \in Seq(Symbol) : f = HTTP_SEP /\ Len(f) = 2 /\ f[1] = CR /\ f[2] = LF
  <2>1. CR \in Symbol /\ LF \in Symbol
    BY Tags
  <2>2. HTTP_SEP \in Seq(Symbol) /\ Len(HTTP_SEP) = 2 /\ HTTP_SEP[1] = CR /\ HTTP_SEP[2] = LF
    BY <2>1 DEF HTTP_SEP
  <2> QED BY <2>2, Zenon
<1>2. ASSUME NEW n \in Nat, n = Len(f)
      PROVE  /\ Search(s, f, 1) \in Nat
             /\ Search(s, f, 1) # 0 =>
                  /\ Search(s, f, 1) + n - 1 <= m
                  /\ \A k \in 1 .. n : s[Search(s, f, 1) + k - 1] = f[k]
             /\ \A i \in 1 .. m - n + 1 :
                  (\A k \in 1 .. n : s[i + k - 1] = f[k])
                    => Search(s, f, 1) # 0 /\ Search(s, f, 1) <= i
  BY <1>2, SearchFinds, ZenonT(60)
<1>3. 2 \in Nat /\ 2 = Len(f)
  BY <1>1
<1>4. PICK a \in Nat :
        /\ a = Search(s, f, 1)
        /\ a # 0 => \A k \in 1 .. 2 : s[a + k - 1] = f[k]
        /\ \A i \in 1 .. m - 2 + 1 : (\A k \in 1 .. 2 : s[i + k - 1] = f[k]) => a # 0 /\ a <= i
  BY <1>2, <1>3
<1> SUFFICES ASSUME m >= 3, s[1] # CR, s[2] = CR, s[3] = LF PROVE a = 2
  BY <1>1, <1>4
<1>5. 2 \in 1 .. m - 2 + 1 /\ 2 + 1 - 1 = 2 /\ 2 + 2 - 1 = 3 /\ \A k \in 1 .. 2 : k = 1 \/ k = 2
  OBVIOUS
<1>6. \A k \in 1 .. 2 : s[2 + k - 1] = f[k]
  BY <1>1, <1>5
<1>7. a # 0 /\ a <= 2
  BY <1>4, <1>5, <1>6
<1>8. a # 1
  <2>1. 1 \in 1 .. 2 /\ 1 + 1 - 1 = 1
    OBVIOUS
  <2> QED BY <1>1, <1>4, <2>1
<1> QED BY <1>7, <1>8

\* The first line of such a header, and its three words.
LEMMA FirstLineRead ==
  ASSUME NEW header, NEW first, Begun(header, first), Blanks(first) = 2
  PROVE  LET line == FirstLine(header)
         IN line = <<first>> /\ WordCount(line) = 3 /\ First(Spaced(line)) = 1
<1> DEFINE e    == Search(header, HTTP_SEP, 1)
           line == FirstLine(header)
<1>1. PICK s \in Seq(Symbol) : s = header
  BY DEF Begun
<1>2. PICK m \in Nat : m = Len(s)
  BY LenProperties
<1>3. m >= 3 /\ s[1] = first /\ s[2] = CR /\ s[3] = LF
  BY <1>1, <1>2 DEF Begun
<1>4. first # CR
  BY Tags DEF Begun
<1>6. e = 2
  <2>1. Search(s, HTTP_SEP, 1) = 2
    BY <1>2, <1>3, <1>4, LineFound
  <2> QED BY <1>1, <2>1
<1>7. line = <<first>>
  <2>1. 1 \in 0 .. m
    BY <1>3
  <2>2. /\ Read(s, 1) \in Seq(Symbol) /\ Len(Read(s, 1)) = 1
        /\ \A i \in 1 .. 1 : Read(s, 1)[i] = s[i]
    BY <1>2, <2>1, ReadAndLeft
  <2>3. <<first>> \in Seq(Symbol) /\ Len(<<first>>) = 1 /\ <<first>>[1] = first
    BY DEF Begun
  <2>4. \A i \in 1 .. 1 : i = 1
    OBVIOUS
  <2>5. Read(s, 1) = <<first>>
    BY <1>3, <2>2, <2>3, <2>4, SeqEqual
  <2>6. 2 - 1 = 1
    OBVIOUS
  <2> QED BY <1>1, <1>6, <2>5, <2>6 DEF FirstLine
<1>8. Spaced(line) = {1} /\ Blanks(line[1]) = 2
  <2>1. Len(<<first>>) = 1 /\ <<first>>[1] = first
    BY DEF Begun
  <2>2. \A i \in 1 .. 1 : i = 1
    OBVIOUS
  <2> HIDE DEF line
  <2> QED BY <1>7, <2>1, <2>2 DEF Spaced
<1> HIDE DEF line
<1>9. WordCount(line) = 3 /\ First(Spaced(line)) = 1
  <2>1. 1 \in Nat \ {0}
    OBVIOUS
  <2> QED BY <1>8, <2>1, WordsCounted
<1> QED BY <1>7, <1>9 DEF line

\* The server reads the url of the open packet.
LEMMA UrlRead ==
  ASSUME NEW header, NEW u \in Urls, Begun(header, Line(u))
  PROVE  Deserialize(header) = u
<1>1. <<Line(u)>>[1] = Line(u) /\ Line(u)[1] = "line" /\ Line(u)[2] = u /\ Blanks(Line(u)) = 2
  BY DEF Line, Blanks
<1> QED BY <1>1, FirstLineRead DEF Deserialize

\* Both ends count the words of a line alike.
LEMMA SameWords ==
  /\ \A header : Client!FirstLine(header) = FirstLine(header)
  /\ \A line : Client!Spaced(line) = Spaced(line) /\ Client!WordCount(line) = WordCount(line)
<1>1. \A header : Client!FirstLine(header) = FirstLine(header)
  BY SameSearch DEF Client!FirstLine, FirstLine
<1>2. \A sym : Client!Blanks(sym) = Blanks(sym)
  BY DEF Client!Blanks, Blanks
<1>3. \A line : Client!Spaced(line) = Spaced(line)
  BY <1>2 DEF Client!Spaced, Spaced
<1>4. \A line : Client!WordCount(line) = WordCount(line)
  <2>1. \A S : Client!Cardinality(S) = Cardinality(S)
    BY DEF Client!Cardinality, Cardinality
  <2>2. \A line : UNION {{i} \X (1 .. Client!Blanks(line[i])) : i \in Client!Spaced(line)}
                 = UNION {{i} \X (1 .. Blanks(line[i])) : i \in Spaced(line)}
    BY <1>2, <1>3
  <2>3. \A line : Client!WordCount(line)
                 = 1 + Cardinality(UNION {{i} \X (1 .. Client!Blanks(line[i])) : i \in Client!Spaced(line)})
    BY <2>1 DEF Client!WordCount
  <2> QED BY <2>2, <2>3 DEF WordCount
<1> QED BY <1>1, <1>3, <1>4

\* The client reads the code of the answer.
LEMMA CodeRead ==
  ASSUME NEW header, Begun(header, Status(101))
  PROVE  Client!Deserialize(header) = 101
<1>1. /\ <<Status(101)>>[1] = Status(101) /\ Status(101)[1] = "status" /\ Status(101)[2] = 101
      /\ Blanks(Status(101)) = 2
  BY DEF Status, Blanks
<1>2. PICK line : line = FirstLine(header)
  OBVIOUS
<1>3. line = <<Status(101)>> /\ WordCount(line) = 3 /\ First(Spaced(line)) = 1
  BY <1>1, <1>2, FirstLineRead
<1>4. /\ Client!FirstLine(header) = line /\ Client!WordCount(line) = 3
      /\ Client!First(Client!Spaced(line)) = 1
  BY <1>2, <1>3, SameWords, SameSearch
<1>5. line[1][1] = "status" /\ line[1][2] = 101
  BY <1>1, <1>3
<1>6. ~(3 < 3)
  OBVIOUS
<1> QED BY <1>4, <1>5, <1>6, Zenon DEF Client!Deserialize

\* A code that the client reads; 101 is that of a line in the header.
LEMMA CodeSeen ==
  ASSUME NEW header \in Seq(Symbol)
  PROVE  /\ Client!Deserialize(header) \in Codes \cup {0, NoCode}
         /\ Client!Deserialize(header) = 101 => \E i \in DOMAIN header : header[i] = Status(101)
<1> DEFINE e     == Search(header, HTTP_SEP, 1)
           line  == FirstLine(header)
           word  == First(Spaced(line))
<1>1. Client!Deserialize(header) =
        IF WordCount(line) < 3 THEN NoCode ELSE IF line[word][1] = "status" THEN line[word][2] ELSE 0
  BY SameSearch, SameWords DEF Client!Deserialize
<1>2. PICK m \in Nat : m = Len(header)
  BY LenProperties
<1>3. e \in Nat /\ e <= m + 1
  <2>1. HTTP_SEP \in Seq(Symbol) /\ Len(HTTP_SEP) = 2 /\ 1 \in Nat \ {0}
    BY Patterns
  <2>2. e \in Nat /\ (e # 0 => e + Len(HTTP_SEP) - 1 <= Len(header))
    BY <2>1, SearchRange
  <2> HIDE DEF e
  <2>3. e # 0 => e + 2 - 1 <= m
    BY <1>2, <2>1, <2>2
  <2> QED BY <2>2, <2>3
<1>4. line \in Seq(Symbol) /\ \A i \in 1 .. Len(line) : i \in DOMAIN header /\ line[i] = header[i]
  <2> HIDE DEF e
  <2>1. CASE e = 0
    <3>1. line = SubSeq(header, 1, e - 1) /\ e - 1 < 1
      BY <2>1 DEF Read, FirstLine, e
    <3>2. PICK l : l = SubSeq(header, 1, e - 1)
      OBVIOUS
    <3>3. l = <<>>
      BY <2>1, <3>2 DEF e
    <3>4. line = <<>>
      BY <3>1, <3>2, <3>3
    <3> HIDE DEF line
    <3> QED BY <3>4
  <2>2. CASE e # 0
    <3>1. PICK k \in 0 .. m : k = e - 1
      BY <1>3, <2>2
    <3>2. /\ Read(header, k) \in Seq(Symbol) /\ Len(Read(header, k)) = k
          /\ \A i \in 1 .. k : Read(header, k)[i] = header[i]
      BY <1>2, <3>1, ReadAndLeft
    <3>3. \A i \in 1 .. k : i \in DOMAIN header
      BY <1>2, <3>1
    <3>4. line = Read(header, k)
      BY <3>1 DEF FirstLine, e
    <3> HIDE DEF line
    <3> QED BY <3>2, <3>3, <3>4
  <2> QED BY <2>1, <2>2
<1>5. Spaced(line) # {} => word \in 1 .. Len(line)
  BY FirstLineType
<1>8. WordCount(line) < 3 \/ Spaced(line) # {}
  BY WordsCounted
<1> HIDE DEF line, word
<1>6. CASE WordCount(line) < 3 \/ line[word][1] # "status"
  <2>1. NoCode # 101 /\ 0 # 101
    BY OpenAssumption
  <2> QED BY <1>1, <1>6, <2>1
<1>7. CASE ~(WordCount(line) < 3) /\ line[word][1] = "status"
  <2>1. word \in DOMAIN header /\ line[word] = header[word] /\ line[word] \in Symbol
    BY <1>4, <1>5, <1>7, <1>8, ElementOfSeq
  <2>2. line[word] \in {"status"} \X Codes
    <3>1. \A s \in Symbol : s[1] = "status" => s \in {"status"} \X Codes
      BY DEF Symbol, CR, LF, Upgrade, WebSocket, WsKey, Chunked, Dashes, Frame, Frames
    <3> QED BY <1>7, <2>1, <3>1
  <2>3. \A c : c \in {"status"} \X Codes => c[2] \in Codes /\ (c[2] = 101 => c = Status(101))
    BY DEF Status
  <2>4. line[word][2] \in Codes /\ (line[word][2] = 101 => line[word] = Status(101))
    BY <2>2, <2>3, Zenon
  <2> QED BY <1>1, <1>7, <2>1, <2>4
<1> QED BY <1>6, <1>7

-----------------------------------------------------------------------------
(* The server. *)

\* What is buffered and what is on its way make an open packet.
Asked == \E u \in Urls : Carries(parser.pkts, wire, <<>>, Handshake(Line(u), WsKey), <<>>)

\* The header of an open packet is in the parser.
Upped ==
  /\ parser.type = "WEBSOCKET"
  /\ \E u \in Urls : Begun(parser.header, Line(u))
  /\ SearchText(parser.header, {"wskey"}) # 0

\* The phases of a connection that open is called on.
\* Nothing was sent.
Unasked ==
  /\ pc = "recv" /\ mode = "http" /\ parser.type = "INVALID" /\ parser.pkts = <<>>
  /\ replies = <<>> /\ events = <<>> /\ sent = 0 /\ wire = <<>>

\* The open packet arrives.
Fresh ==
  /\ pc = "recv" /\ mode = "http" /\ parser.type = "INVALID"
  /\ replies = <<>> /\ events = <<>> /\ sent = 1 /\ Asked

\* It is decoded and the handler of the open event is called.
Known ==
  /\ pc \in {"arrived", "dispatch", "wsopen"} /\ mode = "http" /\ Upped
  /\ replies = <<>> /\ sent = 1 /\ wire = <<>> /\ parser.pkts = <<>>
  /\ events = IF pc = "wsopen" THEN <<"open">> ELSE <<>>
  /\ pc = "wsopen" => script \in WsServed
  /\ pc = "arrived" => url = NoUrl

\* There is one open event, in front of the others.
OneOpen == /\ events # <<>> /\ events[1] = "open"
           /\ \A i \in DOMAIN events : i > 1 => events[i] # "open"

\* It was answered, and the connection is a websocket.
Up ==
  /\ mode = "ws" /\ script \in WsServed /\ pc \in {"recv", "wsevent", "closed"}
  /\ parser.pkts = <<>> /\ Switched /\ OneOpen /\ sent >= 1
  /\ sent = 1 => wire = <<>> /\ Len(events) = 1 /\ (pc = "recv" \/ (pc = "closed" /\ gone))

\* It was answered, by a server without a websocket handler.
Plain ==
  /\ mode = "http" /\ script \notin WsServed /\ pc \in {"recv", "arrived", "dispatch", "closed"}
  /\ Upped /\ Switched /\ events = <<>> /\ sent >= 1
  /\ pc # "closed" => url # NoUrl
  /\ sent = 1 => wire = <<>> /\ (pc = "recv" \/ (pc = "closed" /\ gone))

\* There is no routine for the url.
Refused ==
  /\ pc = "closed" /\ mode = "http" /\ replies = <<"404">> /\ events = <<>> /\ sent >= 1

\* The client left, or the connection broke, before it was answered.
Left ==
  /\ pc = "closed" /\ mode = "http" /\ replies = <<>> /\ events = <<>> /\ gone
  /\ sent = 0 => parser.type = "INVALID"

ServerInv == Unasked \/ Fresh \/ Known \/ Up \/ Plain \/ Refused \/ Left

\* What a step of the connection may answer, and when.
Moves ==
  /\ UNCHANGED <<script, sent, gone>>
  /\ \/ replies' = replies
     \/ replies = <<>> /\ sent = 1 /\ replies' = <<"101">>
     \/ replies = <<>> /\ sent = 1 /\ replies' = <<"404">>
     \/ Switched /\ sent > 1 /\ script \in WsServed /\ replies' = Append(replies, "pong")
     \/ Switched /\ sent > 1 /\ script \notin WsServed /\ replies' = Append(replies, "101")

\* A step of the connection where nothing was sent: it ends when it breaks.
LEMMA UnaskedStep == IInv /\ Unasked /\ (Coroutine \/ Application) => Left' /\ Moves
<1> SUFFICES ASSUME IInv, Unasked, Coroutine \/ Application PROVE Left' /\ Moves
  OBVIOUS
<1>1. RecvFail \/ \E n \in 1 .. RecvMax : OnHttpRecv(n)
  BY DEF Unasked, Coroutine, Application, Identify, Dispatch, OnWebSocket,
         OnWsRecv, RoutineReturn, WsOpenReturn, WsEventReturn
<1>2. ASSUME NEW n \in 1 .. RecvMax, OnHttpRecv(n) PROVE FALSE
  <2>1. n <= Len(<<>>) /\ n \in Nat \ {0}
    BY <1>2, RecvMaxAssumption DEF OnHttpRecv, Unasked
  <2>2. Len(<<>>) = 0
    OBVIOUS
  <2> QED BY <2>1, <2>2
<1>3. CASE RecvFail
  BY <1>3 DEF RecvFail, Close, peer, hist, Unasked, Left, Moves
<1> QED BY <1>1, <1>2, <1>3

\* Closed connections do nothing.
LEMMA ClosedStep == pc = "closed" => ~(Coroutine \/ Application)
BY DEF Coroutine, Application, OnHttpRecv, RecvFail, Identify, Dispatch, OnWebSocket,
       OnWsRecv, RoutineReturn, WsOpenReturn, WsEventReturn

\* What the parser makes of an open packet that is all there is.
LEMMA PacketParsed ==
  ASSUME NEW p \in Parser, p.type = "INVALID", NEW u \in Urls, NEW d \in Text,
         Carries(p.pkts, d, <<>>, Handshake(Line(u), WsKey), <<>>)
  PROVE  \/ ParseHeader(p).ret = "CONTINUE" /\ ParseHeader(p).p = p
         \/ /\ ParseHeader(p).ret = "OK" /\ ParseHeader(p).p.type = "WEBSOCKET"
            /\ ParseHeader(p).p.pkts = <<>> /\ d = <<>>
            /\ Begun(ParseHeader(p).p.header, Line(u))
            /\ SearchText(ParseHeader(p).p.header, {"wskey"}) # 0
<1> DEFINE h == Handshake(Line(u), WsKey)
<1>1. Telling(Line(u), WsKey) /\ <<>> \in Text
  BY Handshakes, Texts
<1>2. \/ Waits(p) \/ Drops(p, d, <<>>, h, <<>>) \/ Overtaken(p, <<>>)
      \/ Taken(p, d, <<>>, h, <<>>)
  BY <1>1, HandshakeParsed
<1>3. ~Drops(p, d, <<>>, h, <<>>) /\ ~Overtaken(p, <<>>)
  BY DEF Drops, Overtaken
<1>4. CASE Waits(p)
  BY <1>4 DEF Waits
<1>5. CASE Taken(p, d, <<>>, h, <<>>)
  <2>1. PICK header \in Seq(Symbol) : header = ParseHeader(p).p.header
    BY <1>5 DEF Taken
  <2>2. PICK b \in Text : b = ParseHeader(p).p.pkts
    BY ParseHeaderResult DEF Parser, Text
  <2>3. /\ ParseHeader(p).ret = "OK" /\ ParseHeader(p).p.type = "WEBSOCKET"
        /\ b \o d = <<>> /\ Len(header) = Len(<<>>) + 10
        /\ \A i \in 1 .. 10 : header[Len(<<>>) + i] = h[i]
    BY <1>5, <2>1, <2>2 DEF Taken
  <2>4. b = <<>> /\ d = <<>>
    BY <2>2, <2>3 DEF Text
  <2>5. Len(header) = 10 /\ \A i \in 1 .. 10 : header[i] = h[i]
    BY <2>3
  <2>6. /\ h[1] = Line(u) /\ h[2] = CR /\ h[3] = LF /\ h[8] = WsKey
    BY <1>1, HandshakeSymbols
  <2> HIDE DEF h
  <2>7. /\ header[1] = Line(u) /\ header[2] = CR /\ header[3] = LF /\ header[8] = WsKey
        /\ 3 \in 1 .. Len(header) /\ 8 \in 1 .. Len(header)
    BY <2>5, <2>6
  <2>8. Begun(header, Line(u))
    BY <1>1, <2>7 DEF Begun, Telling
  <2>9. SearchText(header, {"wskey"}) # 0
    <3>1. WsKey[1] \in {"wskey"}
      BY Tags
    <3> QED BY <2>7, <3>1, TextFound
  <2> QED BY <2>1, <2>2, <2>3, <2>4, <2>8, <2>9
<1> QED BY <1>2, <1>3, <1>4, <1>5

\* More of the open packet arrives.
LEMMA FreshRecv ==
  ASSUME IInv, Fresh, NEW n \in 1 .. RecvMax, OnHttpRecv(n)
  PROVE  Moves /\ (Fresh' \/ Known')
<1> DEFINE p == Push(parser, Read(wire, n))
<1>1. /\ n <= Len(wire) /\ wire' = Consume(wire, n)
      /\ UNCHANGED <<script, sent, gone, url, handler, mode, content, hist>>
  BY DEF OnHttpRecv
<1>2. n \in Nat /\ wire \in Seq(Symbol) /\ parser \in Parser /\ parser.type = "INVALID"
  BY RecvMaxAssumption DEF IInv, TypeOK, Fresh
<1>3. n \in 0 .. Len(wire) /\ wire \in Text /\ parser.pkts \in Text
  BY <1>1, <1>2, LenProperties DEF Text, Parser
<1>4. /\ p \in Parser /\ p.type = "INVALID" /\ p.pkts = parser.pkts \o Read(wire, n)
      /\ wire' \in Text /\ Read(wire, n) \in Text
  <2>1. Read(wire, n) \in Text /\ wire' \in Text
    BY <1>1, <1>3, ReadThen
  <2>2. p \in Parser /\ p.type = parser.type
    BY <1>2, <2>1, PushType DEF Text
  <2>3. p.pkts = parser.pkts \o Read(wire, n)
    BY <1>2 DEF Push, Parser
  <2> QED BY <1>2, <2>1, <2>2, <2>3
<1>5. PICK u \in Urls : Carries(parser.pkts, wire, <<>>, Handshake(Line(u), WsKey), <<>>)
  BY DEF Fresh, Asked
<1>6. Carries(p.pkts, wire', <<>>, Handshake(Line(u), WsKey), <<>>)
  <2>1. wire = Read(wire, n) \o wire'
    BY <1>1, <1>2, <1>3, ReadAndLeft
  <2>2. parser.pkts \o (Read(wire, n) \o wire') = (parser.pkts \o Read(wire, n)) \o wire'
    BY <1>3, <1>4, Texts
  <2> QED BY <1>4, <1>5, <2>1, <2>2 DEF Carries
<1>7. /\ parser' = ParseHeader(p).p
      /\ \/ ParseHeader(p).ret = "INVALID_ARG" /\ pc' = "closed"
         \/ ParseHeader(p).ret = "CONTINUE" /\ pc' = pc
         \/ ParseHeader(p).ret = "OK" /\ pc' = "arrived"
  BY <1>4 DEF OnHttpRecv, Close
<1>8. \/ ParseHeader(p).ret = "CONTINUE" /\ ParseHeader(p).p = p
      \/ /\ ParseHeader(p).ret = "OK" /\ ParseHeader(p).p.type = "WEBSOCKET"
         /\ ParseHeader(p).p.pkts = <<>> /\ wire' = <<>>
         /\ Begun(ParseHeader(p).p.header, Line(u))
         /\ SearchText(ParseHeader(p).p.header, {"wskey"}) # 0
  BY <1>4, <1>6, PacketParsed
<1> HIDE DEF p
<1>9. /\ replies' = replies /\ events' = events /\ sent' = 1 /\ mode' = "http" /\ url' = url
      /\ replies = <<>> /\ events = <<>> /\ UNCHANGED <<script, sent, gone>>
  BY <1>1 DEF Fresh, hist
<1>10. Moves
  BY <1>9 DEF Moves
<1>11. CASE ParseHeader(p).ret = "CONTINUE" /\ ParseHeader(p).p = p
  <2>1. parser' = p /\ pc' = "recv"
    BY <1>7, <1>11 DEF Fresh
  <2>2. Asked'
    BY <1>6, <2>1 DEF Asked, Carries, Handshake, Line, WsKey, CR, LF, Upgrade, WebSocket
  <2>3. Fresh'
    BY <1>4, <1>9, <2>1, <2>2 DEF Fresh
  <2> QED BY <1>10, <2>3
<1>12. CASE /\ ParseHeader(p).ret = "OK" /\ ParseHeader(p).p.type = "WEBSOCKET"
            /\ ParseHeader(p).p.pkts = <<>> /\ wire' = <<>>
            /\ Begun(ParseHeader(p).p.header, Line(u))
            /\ SearchText(ParseHeader(p).p.header, {"wskey"}) # 0
  <2>1. pc' = "arrived" /\ parser' = ParseHeader(p).p
    BY <1>7, <1>12
  <2>2. Upped'
    <3>1. /\ parser'.type = "WEBSOCKET" /\ Begun(parser'.header, Line(u))
          /\ SearchText(parser'.header, {"wskey"}) # 0
      BY <1>12, <2>1
    <3> QED BY <3>1 DEF Upped
  <2>3. url' = NoUrl
    BY <1>1 DEF IInv, Consistent, Fresh
  <2>4. Known'
    BY <1>9, <1>12, <2>1, <2>2, <2>3 DEF Known
  <2> QED BY <1>10, <2>4
<1> QED BY <1>8, <1>11, <1>12

\* Before the answer the server can only go on with the open packet, or leave.
LEMMA FreshStep ==
  IInv /\ Fresh /\ (Coroutine \/ Application) => ServerInv' /\ Moves
<1> SUFFICES ASSUME IInv, Fresh, Coroutine \/ Application PROVE ServerInv' /\ Moves
  OBVIOUS
<1>1. (\E n \in 1 .. RecvMax : OnHttpRecv(n)) \/ RecvFail
  BY DEF Fresh, Coroutine, Application, Identify, Dispatch, OnWebSocket,
         OnWsRecv, RoutineReturn, WsOpenReturn, WsEventReturn
<1>2. CASE \E n \in 1 .. RecvMax : OnHttpRecv(n)
  BY <1>2, FreshRecv DEF ServerInv
<1>3. CASE RecvFail
  <2>1. /\ pc' = "closed" /\ gone /\ UNCHANGED <<script, sent, gone, mode, replies, events>>
    BY <1>3 DEF RecvFail, Close, peer, hist
  <2>2. Left'
    BY <2>1 DEF Left, Fresh
  <2> QED BY <2>1, <2>2 DEF ServerInv, Moves
<1> QED BY <1>1, <1>2, <1>3

\* The types of what is counted here.
LEMMA CountTypes ==
  IInv => /\ sent \in Nat /\ Len(wire) \in Nat
          /\ replies \in Seq({"404", "101", "pong"}) /\ Len(replies) \in Nat
          /\ DOMAIN replies = 1 .. Len(replies)
          /\ events \in Seq({"open", "content", "close"}) /\ Len(events) \in Nat
          /\ DOMAIN events = 1 .. Len(events)
<1> SUFFICES ASSUME IInv PROVE
          /\ sent \in Nat /\ Len(wire) \in Nat
          /\ replies \in Seq({"404", "101", "pong"}) /\ Len(replies) \in Nat
          /\ DOMAIN replies = 1 .. Len(replies)
          /\ events \in Seq({"open", "content", "close"}) /\ Len(events) \in Nat
          /\ DOMAIN events = 1 .. Len(events)
  OBVIOUS
<1>1. sent \in 0 .. Len(script) /\ wire \in Seq(Symbol) /\ script \in Seq(Message)
  BY ScriptAssumption DEF IInv, TypeOK
<1> QED BY <1>1, LenProperties DEF IInv, TypeOK

\* One more answer is the last, and leaves the others.
LEMMA OneMoreReply ==
  ASSUME IInv, NEW r \in {"404", "101", "pong"}, replies' = Append(replies, r)
  PROVE  /\ DOMAIN replies \subseteq DOMAIN replies'
         /\ \A i \in DOMAIN replies : replies'[i] = replies[i]
         /\ Len(replies) + 1 \in DOMAIN replies' /\ replies'[Len(replies) + 1] = r
         /\ Last(replies') = r /\ replies' # replies
         /\ replies = <<>> => replies' = <<r>>
<1>1. /\ replies \in Seq({"404", "101", "pong"}) /\ Len(replies) \in Nat
      /\ DOMAIN replies = 1 .. Len(replies)
  BY CountTypes
<1>2. /\ replies' \in Seq({"404", "101", "pong"}) /\ Len(replies') = Len(replies) + 1
      /\ \A i \in 1 .. Len(replies) : replies'[i] = replies[i]
      /\ replies'[Len(replies) + 1] = r
  BY <1>1, AppendProperties
<1>3. DOMAIN replies' = 1 .. Len(replies) + 1
  BY <1>2, LenProperties
<1>4. Last(replies') = r
  BY <1>1, <1>2 DEF Last
<1>5. replies' # replies
  <2>1. Len(replies') = Len(replies) + 1 /\ Len(replies) \in Nat
    BY <1>1, <1>2
  <2>2. Len(replies') # Len(replies)
    BY <2>1
  <2> QED BY <2>2
<1>6. replies = <<>> => replies' = <<r>>
  OBVIOUS
<1>7. DOMAIN replies \subseteq DOMAIN replies' /\ Len(replies) + 1 \in DOMAIN replies'
  BY <1>1, <1>3
<1> QED BY <1>1, <1>2, <1>4, <1>5, <1>6, <1>7

\* The answers stay.
LEMMA SwitchedStays ==
  ASSUME IInv, Moves, Switched
  PROVE  Switched'
<1>1. PICK i \in DOMAIN replies : replies[i] = "101"
  BY DEF Switched
<1>2. /\ "pong" \in {"404", "101", "pong"} /\ "101" \in {"404", "101", "pong"}
      /\ replies # <<>>
  <2>1. DOMAIN <<>> = {}
    OBVIOUS
  <2> QED BY <1>1, <2>1
<1>3. CASE replies' = replies
  BY <1>3 DEF Switched
<1>4. CASE replies' = Append(replies, "pong") \/ replies' = Append(replies, "101")
  <2>1. DOMAIN replies \subseteq DOMAIN replies' /\ replies'[i] = replies[i]
    BY <1>1, <1>2, <1>4, OneMoreReply
  <2> QED BY <1>1, <2>1 DEF Switched
<1> QED BY <1>2, <1>3, <1>4 DEF Moves

\* The url that the client asked for is found in the header.
LEMMA UppedUrl ==
  ASSUME IInv, Upped
  PROVE  Deserialize(parser.header) \in Urls /\ Deserialize(parser.header) # NoUrl
<1>1. PICK u \in Urls : Begun(parser.header, Line(u))
  BY DEF Upped
<1>2. Deserialize(parser.header) = u
  BY <1>1, UrlRead
<1> QED BY <1>2, RouteAssumption

\* A request without a routine is refused; one with a routine goes on.
LEMMA KnownArrived ==
  IInv /\ Known /\ Identify => Moves /\ (Known' \/ Refused')
<1> SUFFICES ASSUME IInv, Known, Identify PROVE Moves /\ (Known' \/ Refused')
  OBVIOUS
<1> DEFINE u == Deserialize(parser.header)
<1>1. /\ UNCHANGED <<script, sent, gone, wire, mode, events>>
      /\ pc = "arrived" /\ url = NoUrl /\ u # NoUrl
      /\ replies = <<>> /\ sent = 1 /\ mode = "http" /\ events = <<>>
      /\ Upped /\ wire = <<>> /\ parser.pkts = <<>>
  BY UppedUrl DEF Identify, Known, peer
<1> HIDE DEF u
<1>2. CASE Route[u] = NoRoutine
  <2>1. pc' = "closed" /\ replies' = Append(replies, "404")
    BY <1>1, <1>2 DEF Identify, Close, u
  <2>2. replies' = <<"404">>
    BY <1>1, <2>1, OneMoreReply
  <2>3. sent' = 1 /\ mode' = "http" /\ events' = <<>>
    BY <1>1
  <2> QED BY <1>1, <2>1, <2>2, <2>3 DEF Moves, Refused
<1>3. CASE Route[u] # NoRoutine
  <2>1. pc' = "dispatch" /\ UNCHANGED <<parser, replies>>
    BY <1>1, <1>3 DEF Identify, u
  <2>2. Upped'
    BY <1>1, <2>1 DEF Upped, Begun, SearchText, First, Line, CR, LF
  <2>3. /\ mode' = "http" /\ replies' = <<>> /\ sent' = 1 /\ wire' = <<>>
        /\ parser'.pkts = <<>> /\ events' = <<>>
    BY <1>1, <2>1
  <2> QED BY <1>1, <2>1, <2>2, <2>3 DEF Moves, Known
<1> QED BY <1>2, <1>3

\* A dispatched upgrade opens the websocket, or is answered at once.
LEMMA KnownDispatched ==
  IInv /\ Known /\ OnWebSocket => Moves /\ (Known' \/ Plain')
<1> SUFFICES ASSUME IInv, Known, OnWebSocket PROVE Moves /\ (Known' \/ Plain')
  OBVIOUS
<1>1. /\ UNCHANGED <<script, sent, gone, wire, parser, url, mode>>
      /\ pc = "dispatch" /\ SearchText(parser.header, {"wskey"}) # 0
      /\ replies = <<>> /\ sent = 1 /\ mode = "http" /\ events = <<>>
      /\ Upped /\ wire = <<>> /\ parser.pkts = <<>>
  BY DEF OnWebSocket, Known, Upped, peer
<1>2. Upped'
  BY <1>1 DEF Upped, Begun, SearchText, First, Line, CR, LF
<1>3. CASE script \in WsServed
  <2>1. events' = Append(events, "open") /\ pc' = "wsopen" /\ replies' = replies
    BY <1>1, <1>3 DEF OnWebSocket
  <2>2. events' = <<"open">>
    BY <1>1, <2>1
  <2>3. /\ mode' = "http" /\ replies' = <<>> /\ sent' = 1 /\ wire' = <<>>
        /\ parser'.pkts = <<>> /\ script' \in WsServed
    BY <1>1, <1>3, <2>1
  <2> QED BY <1>1, <1>2, <2>1, <2>2, <2>3 DEF Moves, Known
<1>4. CASE script \notin WsServed
  <2>1. replies' = Append(replies, "101") /\ pc' = "recv" /\ events' = events
    BY <1>1, <1>4 DEF OnWebSocket, Switch
  <2>2. replies' = <<"101">> /\ Switched'
    <3>1. "101" \in {"404", "101", "pong"}
      OBVIOUS
    <3> QED BY <1>1, <2>1, <3>1, OneMoreReply DEF Switched
  <2>3. url # NoUrl
    BY <1>1 DEF IInv, Consistent, Upped
  <2>4. /\ mode' = "http" /\ sent' = 1 /\ wire' = <<>> /\ events' = <<>>
        /\ script' \notin WsServed /\ url' # NoUrl /\ sent' >= 1
    BY <1>1, <1>4, <2>1, <2>3
  <2>5. Moves
    BY <1>1, <2>2 DEF Moves
  <2>6. Plain'
    BY <1>2, <2>1, <2>2, <2>4 DEF Plain
  <2> QED BY <2>5, <2>6
<1> QED BY <1>3, <1>4

\* The handler of the open event returns: the upgrade is answered.
LEMMA KnownOpened ==
  ASSUME IInv, Known, NEW keep \in BOOLEAN, WsOpenReturn(keep)
  PROVE  Moves /\ Up'
<1>1. /\ UNCHANGED <<script, sent, gone, wire, parser, events>>
      /\ pc = "wsopen" /\ pc' = "recv" /\ mode' = "ws" /\ replies' = Append(replies, "101")
      /\ replies = <<>> /\ sent = 1 /\ events = <<"open">>
      /\ wire = <<>> /\ parser.pkts = <<>> /\ script \in WsServed
  BY DEF WsOpenReturn, Switch, Known, peer
<1>2. replies' = <<"101">> /\ Switched'
  <2>1. "101" \in {"404", "101", "pong"}
    OBVIOUS
  <2> QED BY <1>1, <2>1, OneMoreReply DEF Switched
<1>3. OneOpen' /\ Len(events') = 1
  <2>1. events' = <<"open">>
    BY <1>1
  <2>2. <<"open">> # <<>> /\ <<"open">>[1] = "open" /\ Len(<<"open">>) = 1
        /\ \A i \in DOMAIN <<"open">> : ~(i > 1)
    OBVIOUS
  <2> QED BY <2>1, <2>2 DEF OneOpen
<1>4. /\ script' \in WsServed /\ parser'.pkts = <<>> /\ sent' >= 1 /\ wire' = <<>>
  BY <1>1
<1>5. Moves
  BY <1>1, <1>2 DEF Moves
<1>6. Up'
  BY <1>1, <1>2, <1>3, <1>4 DEF Up
<1> QED BY <1>5, <1>6

\* What the server does with a decoded open packet.
LEMMA KnownStep ==
  IInv /\ Known /\ (Coroutine \/ Application) => ServerInv' /\ Moves
<1> SUFFICES ASSUME IInv, Known, Coroutine \/ Application PROVE ServerInv' /\ Moves
  OBVIOUS
<1>1. Identify \/ OnWebSocket \/ \E keep \in BOOLEAN : WsOpenReturn(keep)
  BY DEF Known, Upped, Coroutine, Application, OnHttpRecv, RecvFail, Dispatch,
         OnWsRecv, RoutineReturn, WsEventReturn
<1> QED BY <1>1, KnownArrived, KnownDispatched, KnownOpened DEF ServerInv

\* A frame is handed over, answered or skipped.
LEMMA UpRecv ==
  IInv /\ Up /\ OnWsRecv => Moves /\ Up'
<1> SUFFICES ASSUME IInv, Up, OnWsRecv PROVE Moves /\ Up'
  OBVIOUS
<1> DEFINE op == Head(wire)[1]
<1>1. /\ UNCHANGED <<script, sent, gone, parser, mode>> /\ wire # <<>>
      /\ \/ replies' = Append(replies, "pong") /\ UNCHANGED <<pc, events>>
         \/ UNCHANGED <<pc, events, replies>>
         \/ /\ op \in {"content", "close"} /\ pc' = "wsevent"
            /\ events' = Append(events, op) /\ UNCHANGED replies
         \/ pc' = "closed" /\ UNCHANGED <<events, replies>>
  BY DEF OnWsRecv, Close
<1> HIDE DEF op
<1>2. /\ mode = "ws" /\ script \in WsServed /\ pc = "recv" /\ parser.pkts = <<>>
      /\ Switched /\ OneOpen /\ sent > 1
  <2>1. sent \in Nat /\ sent >= 1 /\ sent # 1
    BY <1>1, CountTypes DEF Up
  <2> QED BY <2>1 DEF Up, OnWsRecv
<1>3. Moves
  BY <1>1, <1>2 DEF Moves
<1>4. Switched'
  BY <1>2, <1>3, SwitchedStays
<1>5. OneOpen'
  <2>1. CASE events' = events
    BY <1>2, <2>1 DEF OneOpen
  <2>2. CASE op \in {"content", "close"} /\ events' = Append(events, op)
    <3>1. /\ events \in Seq({"open", "content", "close"}) /\ Len(events) \in Nat
          /\ DOMAIN events = 1 .. Len(events) /\ op \in {"open", "content", "close"}
      BY <2>2, CountTypes
    <3>2. /\ events' \in Seq({"open", "content", "close"}) /\ Len(events') = Len(events) + 1
          /\ \A i \in 1 .. Len(events) : events'[i] = events[i]
          /\ events'[Len(events) + 1] = op
      BY <2>2, <3>1, AppendProperties
    <3>3. DOMAIN events' = 1 .. Len(events) + 1
      BY <3>2, LenProperties
    <3>4. events # <<>> /\ events[1] = "open" /\ \A i \in DOMAIN events : i > 1 => events[i] # "open"
      BY <1>2 DEF OneOpen
    <3>5. 1 \in 1 .. Len(events)
      BY <3>1, <3>4, EmptySeq
    <3>6. events' # <<>> /\ events'[1] = "open"
      BY <3>1, <3>2, <3>3, <3>4, <3>5
    <3>7. \A i \in DOMAIN events' : i > 1 => events'[i] # "open"
      <4> SUFFICES ASSUME NEW i \in 1 .. Len(events) + 1, i > 1 PROVE events'[i] # "open"
        BY <3>3
      <4>1. CASE i \in 1 .. Len(events)
        BY <3>1, <3>2, <3>4, <4>1
      <4>2. CASE i = Len(events) + 1
        BY <2>2, <3>2, <4>2
      <4> QED BY <3>1, <4>1, <4>2
    <3> QED BY <3>6, <3>7 DEF OneOpen
  <2> QED BY <1>1, <2>1, <2>2
<1>6. /\ mode' = "ws" /\ script' \in WsServed /\ parser'.pkts = <<>> /\ sent' >= 1 /\ sent' # 1
      /\ pc' \in {"recv", "wsevent", "closed"}
  BY <1>1, <1>2, CountTypes
<1> QED BY <1>3, <1>4, <1>5, <1>6 DEF Up

\* A websocket stays one.
LEMMA UpStep ==
  IInv /\ Up /\ (Coroutine \/ Application) => ServerInv' /\ Moves
<1> SUFFICES ASSUME IInv, Up, Coroutine \/ Application PROVE ServerInv' /\ Moves
  OBVIOUS
<1>1. OnWsRecv \/ RecvFail \/ \E keep \in BOOLEAN : WsEventReturn(keep)
  BY DEF Up, Coroutine, Application, OnHttpRecv, Identify, Dispatch, OnWebSocket,
         RoutineReturn, WsOpenReturn
<1>2. CASE OnWsRecv
  BY <1>2, UpRecv DEF ServerInv
<1>3. CASE RecvFail
  <2>1. /\ pc' = "closed" /\ gone
        /\ UNCHANGED <<script, sent, wire, gone, mode, parser, replies, events>>
    BY <1>3 DEF RecvFail, Close, peer, hist
  <2>2. Up'
    BY <2>1 DEF Up, Switched, OneOpen
  <2> QED BY <2>1, <2>2 DEF ServerInv, Moves
<1>4. CASE \E keep \in BOOLEAN : WsEventReturn(keep)
  <2>1. /\ pc = "wsevent" /\ pc' = "recv"
        /\ UNCHANGED <<script, sent, wire, gone, mode, parser, replies, events>>
    BY <1>4 DEF WsEventReturn, peer
  <2>2. Up'
    BY <2>1 DEF Up, Switched, OneOpen
  <2> QED BY <2>1, <2>2 DEF ServerInv, Moves
<1> QED BY <1>1, <1>2, <1>3, <1>4

\* Every later packet is answered like the first.
LEMMA PlainStep ==
  IInv /\ Plain /\ (Coroutine \/ Application) => ServerInv' /\ Moves
<1> SUFFICES ASSUME IInv, Plain, Coroutine \/ Application PROVE ServerInv' /\ Moves
  OBVIOUS
<1>1. \/ \E n \in 1 .. RecvMax : OnHttpRecv(n)
      \/ RecvFail \/ Identify \/ OnWebSocket
  BY DEF Plain, Upped, Coroutine, Application, Dispatch, OnWsRecv,
         RoutineReturn, WsOpenReturn, WsEventReturn
<1>2. /\ mode = "http" /\ script \notin WsServed /\ Upped /\ Switched /\ events = <<>>
      /\ sent >= 1 /\ sent \in Nat /\ (pc # "closed" => url # NoUrl)
      /\ (sent = 1 => wire = <<>> /\ (pc = "recv" \/ (pc = "closed" /\ gone)))
  BY CountTypes DEF Plain
<1>3. ASSUME UNCHANGED <<script, sent, gone, mode, events>>,
             parser'.type = parser.type, parser'.header = parser.header,
             pc' \in {"recv", "arrived", "dispatch", "closed"}, pc' # "closed" => url' # NoUrl,
             Moves,
             sent = 1 => wire' = <<>> /\ (pc' = "recv" \/ (pc' = "closed" /\ gone))
      PROVE  ServerInv' /\ Moves
  <2>1. Switched'
    BY <1>2, <1>3, SwitchedStays
  <2>2. Upped'
    BY <1>2, <1>3 DEF Upped, Begun, SearchText, First, Line, CR, LF
  <2>3. /\ mode' = "http" /\ script' \notin WsServed /\ events' = <<>> /\ sent' >= 1
        /\ (sent' = 1 => wire' = <<>> /\ (pc' = "recv" \/ (pc' = "closed" /\ gone')))
    BY <1>2, <1>3
  <2>4. Plain'
    BY <1>3, <2>1, <2>2, <2>3 DEF Plain
  <2> QED BY <1>3, <2>4 DEF ServerInv
<1>4. CASE \E n \in 1 .. RecvMax : OnHttpRecv(n)
  <2>1. PICK n \in 1 .. RecvMax : OnHttpRecv(n)
    BY <1>4
  <2>2. /\ n <= Len(wire) /\ pc = "recv" /\ wire' = Consume(wire, n)
        /\ UNCHANGED <<script, sent, gone, url, handler, mode, content, hist>>
    BY <2>1 DEF OnHttpRecv
  <2>3. parser \in Parser /\ parser.type = "WEBSOCKET" /\ Read(wire, n) \in Seq(Symbol)
        /\ n \in Nat \ {0}
    BY <1>2, <2>1, <2>2, RecvMaxAssumption, ReadType DEF IInv, TypeOK, Upped
  <2>4. parser' = Push(parser, Read(wire, n)) /\ pc' = "arrived"
    <3>1. Push(parser, Read(wire, n)).type = "WEBSOCKET"
      BY <2>3, PushType
    <3> QED BY <2>1, <3>1 DEF OnHttpRecv, Result
  <2>5. parser'.type = parser.type /\ parser'.header = parser.header
    BY <2>3, <2>4, PushType
  <2>6. sent # 1
    <3>1. Len(<<>>) = 0
      OBVIOUS
    <3> QED BY <1>2, <2>2, <2>3, <3>1
  <2>7. Moves /\ UNCHANGED <<script, sent, gone, mode, events>> /\ url' = url /\ url # NoUrl
    BY <1>2, <2>2 DEF Moves, hist
  <2> QED BY <1>3, <2>4, <2>5, <2>6, <2>7
<1>5. CASE RecvFail
  <2>1. /\ pc' = "closed" /\ gone
        /\ UNCHANGED <<script, sent, wire, gone, url, mode, parser, replies, events>>
    BY <1>5 DEF RecvFail, Close, peer, hist
  <2>2. Moves
    BY <2>1 DEF Moves
  <2> QED BY <1>2, <1>3, <2>1, <2>2
<1>6. CASE Identify
  <2>1. /\ pc = "arrived" /\ url # NoUrl /\ sent # 1
    BY <1>2, <1>6 DEF Identify
  <2>2. /\ pc' = "dispatch"
        /\ UNCHANGED <<script, sent, wire, gone, url, mode, parser, replies, events>>
    BY <1>6, <2>1 DEF Identify, peer
  <2>3. Moves
    BY <2>2 DEF Moves
  <2> QED BY <1>3, <2>1, <2>2, <2>3
<1>7. CASE OnWebSocket
  <2>1. /\ pc' = "recv" /\ replies' = Append(replies, "101")
        /\ UNCHANGED <<script, sent, wire, gone, url, mode, parser, events>>
        /\ pc = "dispatch"
    BY <1>2, <1>7 DEF OnWebSocket, Upped, Switch, peer
  <2>2. sent # 1 /\ sent > 1
    BY <1>2, <2>1
  <2>3. Moves
    BY <1>2, <2>1, <2>2 DEF Moves
  <2>4. url' # NoUrl
    BY <1>2, <2>1
  <2> QED BY <1>3, <2>1, <2>2, <2>3, <2>4
<1> QED BY <1>1, <1>4, <1>5, <1>6, <1>7

\* A step of the connection leads from phase to phase.
LEMMA PhaseStep ==
  IInv /\ ServerInv /\ (Coroutine \/ Application) => ServerInv' /\ Moves
<1>1. pc # "closed" \/ ~(Coroutine \/ Application)
  BY ClosedStep
<1> QED BY <1>1, UnaskedStep, FreshStep, KnownStep, UpStep, PlainStep
        DEF ServerInv, Refused, Left

\* The first packet of the client is the open packet.
LEMMA AskStep ==
  IInv /\ Unasked /\ SendNext => Fresh'
<1> SUFFICES ASSUME IInv, Unasked, SendNext PROVE Fresh'
  OBVIOUS
<1>1. /\ sent = 0 /\ wire = <<>> /\ parser.pkts = <<>> /\ script \in Scripts
      /\ wire' = wire \o script[sent + 1].bytes /\ sent' = sent + 1
      /\ UNCHANGED <<script, conn, hist>>
  BY DEF Unasked, SendNext, IInv, TypeOK
<1>2. PICK u \in Urls : script[1].bytes = OpenPacket(u)
  BY <1>1, OpenAssumption
<1>3. script[1].bytes = Handshake(Line(u), WsKey) /\ Handshake(Line(u), WsKey) \in Text
  BY <1>2, Handshakes, HandshakeSymbols DEF Text
<1>4. sent' = 1 /\ wire' = Handshake(Line(u), WsKey)
  <2>1. sent + 1 = 1
    BY <1>1
  <2>2. wire' = <<>> \o Handshake(Line(u), WsKey)
    BY <1>1, <1>3, <2>1
  <2> QED BY <1>1, <1>3, <2>1, <2>2, Texts
<1>5. parser'.pkts = <<>> /\ parser' = parser
  BY <1>1 DEF conn
<1>6. Asked'
  <2> DEFINE h == Handshake(Line(u), WsKey)
  <2>1. <<>> \o h = <<>> \o (h \o <<>>)
    BY <1>3, Texts
  <2>2. parser'.pkts \o wire' = <<>> \o (h \o <<>>)
    BY <1>4, <1>5, <2>1
  <2> QED BY <2>2 DEF Asked, Carries, Handshake, Line, WsKey, CR, LF, Upgrade, WebSocket
<1> QED BY <1>1, <1>4, <1>5, <1>6 DEF Fresh, Unasked, conn, hist

\* More is sent once the upgrade was answered.
LEMMA MoreStep ==
  IInv /\ ServerInv /\ Switched /\ SendNext => ServerInv'
<1> SUFFICES ASSUME IInv, ServerInv, Switched, SendNext PROVE ServerInv'
  OBVIOUS
<1>1. /\ sent' = sent + 1 /\ UNCHANGED <<script, gone, conn, hist>> /\ sent \in Nat
  BY CountTypes DEF SendNext
<1>2. replies # <<>> /\ replies # <<"404">>
  <2>1. PICK i \in DOMAIN replies : replies[i] = "101"
    BY DEF Switched
  <2>2. DOMAIN <<>> = {} /\ \A j \in DOMAIN <<"404">> : <<"404">>[j] # "101"
    OBVIOUS
  <2> QED BY <2>1, <2>2
<1>3. Up \/ Plain
  BY <1>2 DEF ServerInv, Unasked, Fresh, Known, Refused, Left
<1>4. CASE Up
  <2>1. sent >= 1 /\ sent' >= 1 /\ sent' # 1
    BY <1>1, <1>4 DEF Up
  <2>2. Up'
    BY <1>1, <1>4, <2>1 DEF Up, Switched, OneOpen, conn, hist
  <2> QED BY <2>2 DEF ServerInv
<1>5. CASE Plain
  <2>1. sent >= 1 /\ sent' >= 1 /\ sent' # 1
    BY <1>1, <1>5 DEF Plain
  <2>2. Upped'
    BY <1>1, <1>5 DEF Plain, Upped, Begun, SearchText, First, Line, CR, LF, conn
  <2>3. Plain'
    BY <1>1, <1>5, <2>1, <2>2 DEF Plain, Switched, conn, hist
  <2> QED BY <2>3 DEF ServerInv
<1> QED BY <1>3, <1>4, <1>5

\* A connection stays in its phase while nothing happens to it, or the client
\* leaves.
LEMMA PhaseStays ==
  ASSUME ServerInv, UNCHANGED <<script, sent, wire, conn, hist>>, gone => gone'
  PROVE  ServerInv'
<1>1. CASE Unasked
  <2>1. Unasked'
    BY <1>1 DEF Unasked, conn, hist
  <2> QED BY <2>1 DEF ServerInv
<1>2. CASE Fresh
  <2>1. Asked'
    BY <1>2 DEF Fresh, Asked, conn, Carries, Handshake, Line, WsKey, CR, LF, Upgrade, WebSocket
  <2>2. Fresh'
    BY <1>2, <2>1 DEF Fresh, conn, hist
  <2> QED BY <2>2 DEF ServerInv
<1>3. CASE Known \/ Plain
  <2>1. Upped'
    BY <1>3 DEF Known, Plain, Upped, Begun, SearchText, First, Line, CR, LF, conn
  <2>2. CASE Known
    <3>1. Known'
      BY <2>1, <2>2 DEF Known, conn, hist
    <3> QED BY <3>1 DEF ServerInv
  <2>3. CASE Plain
    <3>1. Plain'
      BY <2>1, <2>3 DEF Plain, Switched, conn, hist
    <3> QED BY <3>1 DEF ServerInv
  <2> QED BY <1>3, <2>2, <2>3
<1>4. CASE Up
  <2>1. Up'
    BY <1>4 DEF Up, Switched, OneOpen, conn, hist
  <2> QED BY <2>1 DEF ServerInv
<1>5. CASE Refused \/ Left
  BY <1>5 DEF ServerInv, Refused, Left, conn, hist
<1> QED BY <1>1, <1>2, <1>3, <1>4, <1>5 DEF ServerInv

\* What the phases say about the answers, the events and the end.
LEMMA PhaseFacts ==
  ASSUME IInv, ServerInv
  PROVE  /\ sent = 0 => replies = <<>> /\ events = <<>> /\ (~gone => Unasked)
         /\ sent # 0 => ~Unasked /\ sent >= 1
         /\ Switched => sent >= 1 /\ (Up \/ Plain)
         /\ Switched /\ sent = 1 /\ ~gone => pc = "recv"
         /\ ~Switched => replies = <<>> \/ (replies = <<"404">> /\ sent >= 1)
         /\ replies = <<>> => ~Switched
         /\ replies = <<>> /\ pc = "closed" => gone
         /\ events # <<>> => script \in WsServed /\ sent >= 1
         /\ Len(events) > 1 => sent > 1 /\ Switched
         /\ mode = "ws" => Up
<1>1. replies = <<>> \/ replies = <<"404">> => ~Switched
  <2>1. DOMAIN <<>> = {} /\ \A j \in DOMAIN <<"404">> : <<"404">>[j] # "101"
    OBVIOUS
  <2> QED BY <2>1 DEF Switched
<1>2. sent \in Nat /\ Len(<<>>) = 0 /\ Len(<<"open">>) = 1
  BY CountTypes
<1>4. Up => /\ Switched /\ sent >= 1 /\ script \in WsServed /\ mode = "ws"
            /\ sent = 1 => Len(events) = 1 /\ (~gone => pc = "recv")
  BY DEF Up
<1>5. Plain => /\ Switched /\ sent >= 1 /\ mode = "http" /\ events = <<>>
               /\ sent = 1 => (~gone => pc = "recv")
  BY DEF Plain
<1>6. Unasked => replies = <<>> /\ sent = 0 /\ events = <<>> /\ pc = "recv" /\ mode = "http"
  BY DEF Unasked
<1>7. Fresh => replies = <<>> /\ sent = 1 /\ events = <<>> /\ pc = "recv" /\ mode = "http"
  BY DEF Fresh
<1>8. Known => /\ replies = <<>> /\ sent = 1 /\ pc # "closed" /\ mode = "http"
               /\ events = <<>> \/ (events = <<"open">> /\ script \in WsServed)
  BY DEF Known
<1>9. Refused => replies = <<"404">> /\ sent >= 1 /\ events = <<>> /\ mode = "http"
  BY DEF Refused
<1>10. Left => replies = <<>> /\ events = <<>> /\ gone /\ mode = "http"
  BY DEF Left
<1>11. <<>> # <<"404">>
  OBVIOUS
<1>12. Len(events) > 1 => Up /\ sent # 1
  <2>1. events = <<>> \/ events = <<"open">> \/ Len(events) = 1 => ~(Len(events) > 1)
    <3>1. events = <<>> => Len(events) = 0
      BY <1>2, Zenon
    <3>2. events = <<"open">> => Len(events) = 1
      BY <1>2, Zenon
    <3>3. ASSUME NEW n \in {0, 1} PROVE ~(n > 1)
      OBVIOUS
    <3> QED BY <3>1, <3>2, <3>3
  <2> QED BY <1>4, <1>5, <1>6, <1>7, <1>8, <1>9, <1>10, <2>1 DEF ServerInv
<1>13. sent # 0 => sent >= 1
  BY <1>2
<1>14. Up /\ sent # 1 => sent > 1
  BY <1>2, <1>4
<1> QED
  BY <1>1, <1>4, <1>5, <1>6, <1>7, <1>8, <1>9, <1>10, <1>11, <1>12, <1>13, <1>14 DEF ServerInv

-----------------------------------------------------------------------------
(* The temporary client. *)

\* There is no line of an answer to an upgrade in s.
Clean(s) == \A i \in DOMAIN s : s[i] # Status(101)

\* The code of a header.
Code(header) == Client!Deserialize(header)

\* The types of the temporary client, and what its code is.
ClientTypes ==
  /\ cparser \in Parser
  /\ cparser.type = "NORMAL" => cparser.bodyBytes >= 0
  /\ down \in Text /\ framed \in Text /\ received \in Text
  /\ cpc \in {"idle", "loop", "body", "recv"}
  /\ cpc = "body" => cparser.type # "INVALID"
  /\ resp # NoCode => cparser.type # "INVALID" /\ resp = Code(cparser.header)

\* A step of the client does not change what a header says.
LEMMA SameCode == Code(cparser.header)' = Code(cparser'.header)
BY DEF Code, Client!Deserialize, Client!FirstLine, Client!Spaced, Client!WordCount,
       Client!Blanks, Client!Read, Client!Search, Client!First, Client!Min,
       Client!HTTP_SEP, Client!CR, Client!LF, Cardinality

\* Parts of clean sequences are clean.
LEMMA CleanParts ==
  /\ Clean(<<>>)
  /\ \A a \in Text, b \in Text : Clean(a) /\ Clean(b) <=> Clean(a \o b)
<1>1. Clean(<<>>)
  BY DEF Clean
<1>2. ASSUME NEW a \in Seq(Symbol), NEW b \in Seq(Symbol)
      PROVE  Clean(a) /\ Clean(b) <=> Clean(a \o b)
  <2> DEFINE c == a \o b
  <2>1. PICK m \in Nat : m = Len(a) /\ DOMAIN a = 1 .. m
    BY LenProperties
  <2>2. PICK n \in Nat : n = Len(b) /\ DOMAIN b = 1 .. n
    BY LenProperties
  <2>3. /\ c \in Seq(Symbol) /\ Len(c) = m + n
        /\ \A i \in 1 .. m + n : c[i] = IF i <= m THEN a[i] ELSE b[i - m]
    BY <2>1, <2>2, ConcatProperties
  <2>4. DOMAIN c = 1 .. m + n
    BY <2>3, LenProperties
  <2>5. \A i \in 1 .. m : i \in 1 .. m + n /\ c[i] = a[i]
    BY <2>3
  <2>6. \A i \in 1 .. n : i + m \in 1 .. m + n /\ c[i + m] = b[i]
    <3> SUFFICES ASSUME NEW i \in 1 .. n PROVE i + m \in 1 .. m + n /\ c[i + m] = b[i]
      OBVIOUS
    <3>1. i + m \in 1 .. m + n /\ ~(i + m <= m) /\ i + m - m = i
      OBVIOUS
    <3> QED BY <2>3, <3>1, SMTT(30)
  <2>7. \A i \in 1 .. m + n : i \in 1 .. m \/ (i - m \in 1 .. n /\ i = (i - m) + m)
    OBVIOUS
  <2> HIDE DEF c
  <2>8. ASSUME Clean(a), Clean(b), NEW i \in DOMAIN c PROVE c[i] # Status(101)
    <3>1. CASE i \in 1 .. m
      BY <2>1, <2>5, <2>8, <3>1 DEF Clean
    <3>2. CASE i - m \in 1 .. n /\ i = (i - m) + m
      BY <2>2, <2>6, <2>8, <3>2 DEF Clean
    <3> QED BY <2>4, <2>7, <2>8, <3>1, <3>2
  <2>9. ASSUME Clean(c), NEW i \in DOMAIN a PROVE a[i] # Status(101)
    BY <2>1, <2>4, <2>5, <2>9 DEF Clean
  <2>10. ASSUME Clean(c), NEW i \in DOMAIN b PROVE b[i] # Status(101)
    BY <2>2, <2>4, <2>6, <2>10 DEF Clean
  <2>11. Clean(a) /\ Clean(b) <=> Clean(c)
    BY <2>8, <2>9, <2>10, Zenon DEF Clean
  <2> QED BY <2>11 DEF c
<1> QED BY <1>1, <1>2 DEF Text

\* A code of 101 is seen in the header.
LEMMA CleanCode ==
  ASSUME NEW header \in Seq(Symbol), Clean(header)
  PROVE  Code(header) # 101
BY CodeSeen DEF Code, Clean

\* recv_func of the temporary client.
LEMMA ClientRecvSome ==
  ASSUME ClientTypes, NEW n \in 1 .. RecvMax, Client!RecvSome(n), UNCHANGED <<framed, received>>
  PROVE  /\ ClientTypes' /\ cpc' = "loop" /\ cpc = "recv"
         /\ cparser'.type = cparser.type /\ cparser'.header = cparser.header
         /\ UNCHANGED <<shut, resp, results>>
         /\ \E r \in Text : down = r \o down' /\ cparser'.pkts = cparser.pkts \o r
<1>1. /\ cpc = "recv" /\ n <= Len(down) /\ down' = Consume(down, n)
      /\ cparser' = Push(cparser, Read(down, n)) /\ cpc' = "loop"
      /\ UNCHANGED <<shut, resp, results>>
  BY SameSearch, SameParser DEF Client!RecvSome
<1>2. n \in 0 .. Len(down) /\ cparser \in Parser /\ n \in Nat
  <2>1. n \in Nat /\ Len(down) \in Nat /\ cparser \in Parser
    BY RecvMaxAssumption, LenProperties DEF ClientTypes, Text
  <2> QED BY <1>1, <2>1
<1>3. /\ Read(down, n) \in Text /\ down' \in Text /\ down = Read(down, n) \o down'
  <2>1. down \in Seq(Symbol)
    BY DEF ClientTypes, Text
  <2> QED BY <1>1, <1>2, <2>1, ReadAndLeft DEF Text
<1>4. /\ cparser' \in Parser /\ cparser'.type = cparser.type
      /\ cparser'.bodyBytes = cparser.bodyBytes /\ cparser'.header = cparser.header
  BY <1>1, <1>2, <1>3, PushType DEF Text
<1>5. cparser'.pkts = cparser.pkts \o Read(down, n)
  BY <1>1, <1>2 DEF Push, Parser
<1>6. resp' # NoCode => cparser'.type # "INVALID" /\ resp' = Code(cparser'.header)
  BY <1>1, <1>4 DEF ClientTypes
<1>7. ClientTypes'
  BY <1>1, <1>3, <1>4, <1>6, SameCode DEF ClientTypes, Text
<1> QED BY <1>1, <1>3, <1>4, <1>5, <1>7

\* The first part of a round of recv_resp.
LEMMA ClientParse ==
  ASSUME ClientTypes, Client!Parse, UNCHANGED <<framed, received>>
  PROVE  /\ ClientTypes' /\ cpc = "loop" /\ UNCHANGED <<down, shut, resp, results>>
         /\ cparser.type = "INVALID" =>
              /\ cparser' = ParseHeader(cparser).p
              /\ \/ ParseHeader(cparser).ret = "OK" /\ cpc' = "body"
                 \/ ParseHeader(cparser).ret # "OK" /\ cpc' = "recv"
         /\ cparser.type # "INVALID" => cparser' = cparser /\ cpc' = "body"
<1> DEFINE h == IF cparser.type = "INVALID" THEN ParseHeader(cparser)
                ELSE Result("OK", Null, cparser)
<1>1. /\ cpc = "loop" /\ UNCHANGED <<down, shut, resp, results>>
      /\ cparser' = h.p
      /\ \/ h.ret = "OK" /\ cpc' = "body"
         \/ h.ret # "OK" /\ cpc' = "recv"
  BY SameSearch, SameParseHeader DEF Client!Parse, Client!Wait, Client!server
<1>2. cparser \in Parser /\ (cparser.type = "NORMAL" => cparser.bodyBytes >= 0)
  BY DEF ClientTypes
<1>3. CASE cparser.type = "INVALID"
  <2>1. h = ParseHeader(cparser)
    BY <1>3
  <2> HIDE DEF h
  <2>2. /\ h.p \in Parser
        /\ h.ret = "OK" => /\ h.p.type # "INVALID"
                           /\ h.p.type = "NORMAL" => h.p.bodyBytes >= 0
        /\ h.ret # "OK" => h.p.type = "INVALID"
    BY <1>2, <1>3, <2>1, ParseHeaderResult
  <2>3. resp' = NoCode
    BY <1>1, <1>3 DEF ClientTypes
  <2>4. ClientTypes'
    BY <1>1, <2>2, <2>3 DEF ClientTypes, Text
  <2> QED BY <1>1, <1>3, <2>1, <2>4
<1>4. CASE cparser.type # "INVALID"
  <2>1. h.p = cparser /\ h.ret = "OK"
    BY <1>4 DEF Result
  <2> HIDE DEF h
  <2>2. resp' # NoCode => resp' = Code(cparser'.header)
    BY <1>1, <2>1 DEF ClientTypes
  <2>3. ClientTypes'
    BY <1>1, <1>2, <1>4, <2>1, <2>2, SameCode DEF ClientTypes, Text
  <2> QED BY <1>1, <1>4, <2>1, <2>3
<1> QED BY <1>3, <1>4

\* What a call returns: the code of the header, or no code.
Returned(r, code) == (r.ret = "OK" /\ r.code = code) \/ r.code = NoCode

\* recv_func is called again, or the call returns.
Rounds(code) ==
  \/ /\ cpc' = "recv" /\ results' = <<>>
     /\ cparser'.type = cparser.type /\ cparser'.header = cparser.header
  \/ cpc' = "idle" /\ \E r : results' = <<r>> /\ Returned(r, code)

\* The first call that returns.
LEMMA FirstReturn ==
  ASSUME NEW ret, NEW code, NEW packet, results = <<>>, Client!Return(ret, code, packet)
  PROVE  /\ cpc' = "idle"
         /\ \E r : results' = <<r>> /\ r.ret = ret /\ r.code = code
<1> DEFINE r == [ret |-> ret, code |-> code, packet |-> packet, request |-> asked]
<1>1. cpc' = "idle" /\ results' = Append(results, r)
  BY DEF Client!Return
<1>2. r.ret = ret /\ r.code = code
  OBVIOUS
<1> HIDE DEF r
<1>3. results' = <<r>>
  BY <1>1
<1> QED BY <1>1, <1>2, <1>3

\* A response with a content length.
LEMMA ClientNormal ==
  ASSUME ClientTypes, cparser.type = "NORMAL", results = <<>>, Client!LoopNormal(cparser),
         UNCHANGED <<down, framed, received>>
  PROVE  ClientTypes' /\ Rounds(Code(cparser.header))
<1> DEFINE c    == GetContent(cparser)
           code == Code(cparser.header)
<1>1. cparser \in Parser /\ cparser.bodyBytes >= 0
  BY DEF ClientTypes
<1>2. \/ /\ c.ret = "CONTINUE" /\ Client!Wait /\ cparser' = c.p /\ resp' = resp
      \/ /\ Client!Return("FORMAT", NoCode, Client!Null) /\ cparser' = c.p /\ resp' = resp
      \/ /\ c.ret = "OK" /\ Client!Return("OK", code, c.packet)
         /\ cparser' = Reset(c.p) /\ resp' = NoCode
  BY SameBody, SameParser DEF Client!LoopNormal, Code
<1> HIDE DEF c
<1>3. /\ c.p \in Parser /\ c.p.type = "NORMAL" /\ c.p.bodyBytes >= 0
      /\ c.p.header = cparser.header
  BY <1>1, GetContentResult DEF c
<1>4. Reset(c.p) \in Parser /\ Reset(c.p).type = "INVALID"
  BY <1>3, ResetType
<1>5. /\ cparser' \in Parser /\ (cparser'.type = "NORMAL" => cparser'.bodyBytes >= 0)
      /\ \/ resp' = resp /\ cparser'.type = cparser.type /\ cparser'.header = cparser.header
         \/ resp' = NoCode
  BY <1>2, <1>3, <1>4
<1>6. Rounds(code)
  <2>1. CASE c.ret = "CONTINUE" /\ Client!Wait /\ cparser' = c.p
    BY <1>3, <2>1 DEF Rounds, Client!Wait
  <2>2. CASE Client!Return("FORMAT", NoCode, Client!Null)
    BY <2>2, FirstReturn DEF Rounds, Returned
  <2>3. CASE Client!Return("OK", code, c.packet)
    BY <2>3, FirstReturn DEF Rounds, Returned
  <2> QED BY <1>2, <2>1, <2>2, <2>3
<1>7. cpc' \in {"idle", "recv"}
  BY <1>6 DEF Rounds
<1>8. resp' # NoCode => cparser'.type # "INVALID" /\ resp' = Code(cparser'.header)
  BY <1>5 DEF ClientTypes
<1>9. ClientTypes'
  BY <1>5, <1>7, <1>8, SameCode DEF ClientTypes, Text
<1> QED BY <1>6, <1>9

\* The other kinds; an upgrade is over with its header.
LEMMA ClientOther ==
  ASSUME ClientTypes, cparser.type \in {"WEBSOCKET", "CHUNK", "BOUNDARY"}, results = <<>>,
         NEW code, code = Code(cparser.header), code # NoCode,
         Client!LoopOther(cparser, code), UNCHANGED <<down, framed, received>>
  PROVE  /\ ClientTypes' /\ Rounds(code)
         /\ cparser.type = "WEBSOCKET" =>
              cpc' = "idle" /\ \E r : results' = <<r>> /\ r.ret = "OK" /\ r.code = code
<1> DEFINE r == CASE cparser.type = "WEBSOCKET" -> Result("OK", Null, cparser)
                  [] cparser.type = "CHUNK"     -> GetChunk(cparser)
                  [] cparser.type = "BOUNDARY"  -> GetBoundary(cparser)
<1>1. cparser \in Parser /\ Null \in Seq(Symbol)
  BY Patterns DEF ClientTypes
<1>2. \/ /\ r.ret = "CONTINUE" /\ Client!Wait /\ cparser' = r.p /\ resp' = code
      \/ /\ r.ret = "INVALID_ARG" /\ Client!Return("FAILED", NoCode, Client!Null)
         /\ cparser' = r.p /\ resp' = code
      \/ /\ r.ret = "OK" /\ Client!Return("OK", code, r.packet)
         /\ cparser' = (IF r.packet = Null THEN Reset(r.p) ELSE r.p)
         /\ resp' = (IF r.packet = Null THEN NoCode ELSE code)
  BY SameBody, SameParser, SameSearch DEF Client!LoopOther
<1>3. /\ r.p \in Parser
      /\ r.p.type = cparser.type /\ r.p.header = cparser.header
      /\ cparser.type = "WEBSOCKET" => r.ret = "OK"
  <2>1. CASE cparser.type = "WEBSOCKET"
    BY <1>1, <2>1 DEF Result
  <2>2. CASE cparser.type = "CHUNK"
    <3>1. r = GetChunk(cparser)
      BY <2>2
    <3> HIDE DEF r
    <3> QED BY <1>1, <2>2, <3>1, GetChunkResult
  <2>3. CASE cparser.type = "BOUNDARY"
    <3>1. r = GetBoundary(cparser)
      BY <2>3
    <3> HIDE DEF r
    <3> QED BY <1>1, <2>3, <3>1, GetBoundaryResult
  <2> QED BY <2>1, <2>2, <2>3
<1> HIDE DEF r
<1>4. Reset(r.p) \in Parser /\ Reset(r.p).type = "INVALID"
  BY <1>3, ResetType
<1>5. /\ cparser' \in Parser /\ cparser'.type # "NORMAL"
      /\ \/ resp' = code /\ cparser'.type = cparser.type /\ cparser'.header = cparser.header
         \/ resp' = NoCode
  BY <1>2, <1>3, <1>4
<1>6. Rounds(code)
  <2>1. CASE Client!Wait /\ cparser' = r.p
    BY <1>3, <2>1 DEF Rounds, Client!Wait
  <2>2. CASE Client!Return("FAILED", NoCode, Client!Null)
    BY <2>2, FirstReturn DEF Rounds, Returned
  <2>3. CASE Client!Return("OK", code, r.packet)
    BY <2>3, FirstReturn DEF Rounds, Returned
  <2> QED BY <1>2, <2>1, <2>2, <2>3
<1>7. cpc' \in {"idle", "recv"}
  BY <1>6 DEF Rounds
<1>8. resp' # NoCode => cparser'.type # "INVALID" /\ resp' = Code(cparser'.header)
  BY <1>5
<1>9. ClientTypes'
  BY <1>5, <1>7, <1>8, SameCode DEF ClientTypes, Text
<1>10. cparser.type = "WEBSOCKET" =>
         cpc' = "idle" /\ \E q : results' = <<q>> /\ q.ret = "OK" /\ q.code = code
  <2> SUFFICES ASSUME cparser.type = "WEBSOCKET"
               PROVE  cpc' = "idle" /\ \E q : results' = <<q>> /\ q.ret = "OK" /\ q.code = code
    OBVIOUS
  <2>1. Client!Return("OK", code, r.packet)
    BY <1>2, <1>3
  <2> QED BY <2>1, FirstReturn
<1> QED BY <1>6, <1>9, <1>10

\* The rest of the round: the type is known.
LEMMA ClientBody ==
  ASSUME ClientTypes, Client!Body, results = <<>>, UNCHANGED <<framed, received>>
  PROVE  /\ ClientTypes' /\ cpc = "body" /\ UNCHANGED <<down, shut>>
         /\ cparser.type # "INVALID" /\ Rounds(Code(cparser.header))
         /\ cparser.type = "WEBSOCKET" /\ Code(cparser.header) # NoCode =>
              /\ cpc' = "idle"
              /\ \E r : results' = <<r>> /\ r.ret = "OK" /\ r.code = Code(cparser.header)
<1> DEFINE code == Code(cparser.header)
<1>1. /\ cpc = "body" /\ UNCHANGED <<down, shut>>
      /\ cparser.type # "INVALID" /\ cparser \in Parser
  BY DEF Client!Body, ClientTypes, Client!server
<1>2. code = IF resp = NoCode THEN code ELSE resp
  BY DEF ClientTypes
<1>3. \/ cparser.type = "NORMAL" /\ Client!LoopNormal(cparser)
      \/ /\ cparser.type # "NORMAL" /\ code = NoCode
         /\ Client!Return("FORMAT", NoCode, Client!Null) /\ UNCHANGED <<cparser, resp>>
      \/ /\ cparser.type # "NORMAL" /\ code # NoCode /\ Client!LoopOther(cparser, code)
  BY <1>2 DEF Client!Body, Code
<1>4. cparser.type \in {"NORMAL", "WEBSOCKET", "CHUNK", "BOUNDARY"}
  BY <1>1 DEF Parser, Types
<1> HIDE DEF code
<1>5. CASE cparser.type = "NORMAL" /\ Client!LoopNormal(cparser)
  BY <1>1, <1>5, ClientNormal DEF code
<1>6. CASE /\ cparser.type # "NORMAL" /\ code = NoCode
           /\ Client!Return("FORMAT", NoCode, Client!Null) /\ UNCHANGED <<cparser, resp>>
  <2>1. Rounds(code) /\ cpc' = "idle"
    BY <1>6, FirstReturn DEF Rounds, Returned
  <2>2. resp' # NoCode => resp' = Code(cparser'.header)
    BY <1>6 DEF ClientTypes
  <2>3. ClientTypes'
    BY <1>1, <1>6, <2>1, <2>2, SameCode DEF ClientTypes, Text
  <2> QED BY <1>1, <1>6, <2>1, <2>3 DEF code
<1>7. CASE cparser.type # "NORMAL" /\ code # NoCode /\ Client!LoopOther(cparser, code)
  <2>1. /\ ClientTypes' /\ Rounds(code)
        /\ cparser.type = "WEBSOCKET" =>
             cpc' = "idle" /\ \E r : results' = <<r>> /\ r.ret = "OK" /\ r.code = code
    BY <1>1, <1>4, <1>7, ClientOther DEF code
  <2> QED BY <1>1, <2>1 DEF code
<1> QED BY <1>3, <1>5, <1>6, <1>7

-----------------------------------------------------------------------------
(* open, from phase to phase. *)

\* The client gets x, the answer and y.
Coming(x, y) == Carries(cparser.pkts, down, x, Handshake(Status(101), WebSocket), y)

\* The answer is on its way, the frames behind it are the last ones that were sent,
\* and only a frame that was sent before it can be in front of it.
Await == \E x \in Text, y \in Text :
           Coming(x, y) /\ Clean(x) /\ Ends(y, framed) /\ (~early => x = <<>>)

\* request waits for a header, or has that of the answer.
Reading == results = <<>> /\ cparser.type = "INVALID"
Got == IF results = <<>> THEN cparser.type # "INVALID" /\ Code(cparser.header) = 101
                         ELSE results[1].code = 101

\* Where request is when nothing was in front of the answer.
Straight == \/ cpc = "body" /\ cparser.type = "WEBSOCKET"
            \/ cpc = "idle" /\ results[1].ret = "OK"

\* request returns once.
Called == /\ cpc = "idle" <=> results # <<>>
          /\ results # <<>> => \E r : results = <<r>>

\* The phases of open.  Nothing was sent.
Before ==
  /\ stage \in {"closed", "linked"} /\ sent = 0 /\ (gone => broken) /\ ~early /\ received = <<>>
  /\ cpc = "idle" /\ results = <<>> /\ down = <<>> /\ framed = <<>>
  /\ cparser.type = "INVALID" /\ cparser.pkts = <<>> /\ cparser.header = <<>>

\* The upgrade is not answered: what arrives are the frames that were sent early.
Waiting ==
  /\ stage = "asking" /\ ~Switched /\ sent = 1 /\ (gone => broken) /\ received = <<>> /\ Called
  /\ Clean(down)
  /\ results = <<>> => /\ Clean(cparser.header)
                       /\ cparser.type = "INVALID" => Clean(cparser.pkts)
  /\ results # <<>> => results[1].code # 101
  /\ replies = <<>> => Ends(down, framed)
  /\ replies = <<>> /\ ~early => /\ down = <<>> /\ framed = <<>>
                                 /\ results = <<>> \/ broken
                                 /\ cparser.type = "INVALID" /\ cparser.pkts = <<>>
  /\ script \in Quiet => framed = <<>>

\* It is answered, and request has not returned.
Answered ==
  /\ stage = "asking" /\ Switched /\ sent = 1 /\ (gone => broken) /\ received = <<>> /\ Called
  /\ Reading => Await
  /\ Got => Ends(down, framed)
  /\ ~early /\ ~broken => Reading \/ (Got /\ Straight)
  /\ script \in Quiet => framed = <<>>

\* open has returned.
Opened ==
  /\ stage = "open" /\ Switched
  /\ script \in WsServed => Ends(received \o down, framed)
  /\ script \in WsServed \cap Quiet => received \o down = framed

Failed ==
  /\ stage = "failed"
  /\ ~linked \/ broken \/ early \/ replies = <<"404">>

LinkInv ==
  /\ ClientTypes
  /\ shut => pc = "closed" \/ broken
  /\ Before \/ Waiting \/ Answered \/ Opened \/ Failed

\* A header that is taken from clean symbols is clean, and an empty buffer has none.
LEMMA ParseClean ==
  ASSUME NEW p \in Parser, p.type = "INVALID", Clean(p.pkts), Clean(p.header)
  PROVE  /\ Clean(ParseHeader(p).p.header) /\ Clean(ParseHeader(p).p.pkts)
         /\ p.pkts = <<>> => ParseHeader(p).p = p /\ ParseHeader(p).ret = "CONTINUE"
<1>1. PICK b \in Seq(Symbol) : b = p.pkts
  BY DEF Parser
<1>2. PICK m \in Nat : m = Len(b)
  BY LenProperties
<1>3. PICK e \in Nat : e = Search(b, HTTP_END_FLAG, 1) /\ (e # 0 => e + 3 <= m)
  BY <1>2, EndFound
<1>4. CASE e = 0
  BY <1>1, <1>3, <1>4, HeaderTaken
<1>5. CASE e # 0
  <2>1. e + 3 \in 0 .. m /\ e + 1 \in 0 .. m
    BY <1>3, <1>5
  <2>2. Clean(Consume(b, e + 3)) /\ Clean(Read(b, e + 1))
    <3>1. /\ Read(b, e + 3) \in Text /\ Consume(b, e + 3) \in Text
          /\ b = Read(b, e + 3) \o Consume(b, e + 3)
      BY <1>2, <2>1, ReadAndLeft DEF Text
    <3>2. /\ Read(b, e + 1) \in Text /\ Consume(b, e + 1) \in Text
          /\ b = Read(b, e + 1) \o Consume(b, e + 1)
      BY <1>2, <2>1, ReadAndLeft DEF Text
    <3>3. Clean(b)
      BY <1>1
    <3> QED BY <3>1, <3>2, <3>3, CleanParts
  <2>3. b # <<>>
    <3>1. b = <<>> => m = 0
      BY <1>2
    <3> QED BY <2>1, <1>3, <1>5, <3>1
  <2>4. /\ ParseHeader(p).p.pkts = Consume(b, e + 3)
        /\ ParseHeader(p).p.header = p.header \/ ParseHeader(p).p.header = Read(b, e + 1)
    BY <1>1, <1>3, <1>5, HeaderTaken
  <2> QED BY <1>1, <2>2, <2>3, <2>4
<1> QED BY <1>4, <1>5

\* What a step of request can be.
LEMMA WaitCases ==
  ASSUME OpenWait
  PROVE  /\ stage = "asking" /\ cpc # "idle"
         /\ UNCHANGED <<vars, broken, stage, framed, early, received>>
         /\ \/ Client!Parse
            \/ Client!Body
            \/ \E n \in 1 .. RecvMax : Client!RecvSome(n)
            \/ /\ shut /\ down' = <<>> /\ cpc = "recv" /\ UNCHANGED <<shut, cparser, resp>>
               /\ Client!Return("DISCONNECT", NoCode, Client!Null)
<1>1. ~Client!Timeout
  BY DEF Client!Timeout
<1>2. Client!RecvFail => /\ shut /\ down' = <<>> /\ cpc = "recv" /\ UNCHANGED <<shut, cparser, resp>>
                         /\ Client!Return("DISCONNECT", NoCode, Client!Null)
  BY DEF Client!RecvFail
<1>3. \/ Client!Parse \/ Client!Body \/ (\E n \in 1 .. RecvMax : Client!RecvSome(n))
      \/ Client!RecvFail
  BY <1>1 DEF OpenWait, Client!Coroutine
<1>4. cpc # "idle"
  BY <1>3 DEF Client!Parse, Client!Body, Client!RecvSome, Client!RecvFail
<1> QED BY <1>2, <1>3, <1>4 DEF OpenWait

\* A step of request keeps the types.
LEMMA WaitTypes ==
  ASSUME ClientTypes, Called, OpenWait
  PROVE  ClientTypes' /\ shut' = shut /\ results = <<>>
<1>1. /\ cpc # "idle" /\ UNCHANGED <<framed, received>>
      /\ \/ Client!Parse
         \/ Client!Body
         \/ \E n \in 1 .. RecvMax : Client!RecvSome(n)
         \/ /\ shut /\ down' = <<>> /\ UNCHANGED <<shut, cparser, resp>>
            /\ Client!Return("DISCONNECT", NoCode, Client!Null)
  BY WaitCases
<1>2. results = <<>>
  BY <1>1 DEF Called
<1>3. CASE Client!Parse
  BY <1>1, <1>2, <1>3, ClientParse
<1>4. CASE Client!Body
  BY <1>1, <1>2, <1>4, ClientBody
<1>5. CASE \E n \in 1 .. RecvMax : Client!RecvSome(n)
  BY <1>1, <1>2, <1>5, ClientRecvSome
<1>6. CASE /\ shut /\ down' = <<>> /\ UNCHANGED <<shut, cparser, resp>>
           /\ Client!Return("DISCONNECT", NoCode, Client!Null)
  <2>1. cpc' = "idle"
    BY <1>6 DEF Client!Return
  <2>2. resp' # NoCode => resp' = Code(cparser'.header)
    BY <1>6 DEF ClientTypes
  <2>3. ClientTypes'
    BY <1>1, <1>6, <2>1, <2>2, SameCode, Texts DEF ClientTypes, Text
  <2> QED BY <1>2, <1>6, <2>3
<1> QED BY <1>1, <1>3, <1>4, <1>5, <1>6

\* A call that has returned.
LEMMA OneResult ==
  ASSUME NEW r, results' = <<r>>
  PROVE  results' # <<>> /\ results'[1] = r /\ (\E q : results' = <<q>>)
OBVIOUS

\* Before the answer no header that request takes is that of an answer.
LEMMA WaitingStep ==
  ASSUME IInv, ServerInv, ClientTypes, shut => pc = "closed" \/ broken, Waiting, OpenWait
  PROVE  Waiting'
<1>1. /\ stage = "asking" /\ cpc # "idle"
      /\ UNCHANGED <<vars, broken, stage, framed, early, received>>
      /\ \/ Client!Parse
         \/ Client!Body
         \/ \E n \in 1 .. RecvMax : Client!RecvSome(n)
         \/ /\ shut /\ down' = <<>> /\ cpc = "recv" /\ UNCHANGED <<shut, cparser, resp>>
            /\ Client!Return("DISCONNECT", NoCode, Client!Null)
  BY WaitCases
<1>2. ClientTypes' /\ results = <<>>
  BY WaitTypes DEF Waiting
<1>3. /\ ~Switched' /\ sent' = 1 /\ (gone' => broken') /\ received' = <<>> /\ stage' = "asking"
      /\ framed' = framed /\ early' = early /\ replies' = replies /\ broken' = broken
      /\ script' \in Quiet => framed' = <<>>
  BY <1>1 DEF Waiting, Switched, vars, peer, hist
<1>4. /\ Clean(down) /\ Clean(cparser.header) /\ (cparser.type = "INVALID" => Clean(cparser.pkts))
      /\ replies = <<>> => Ends(down, framed)
      /\ replies = <<>> /\ ~early => /\ down = <<>> /\ framed = <<>>
                                     /\ cparser.type = "INVALID" /\ cparser.pkts = <<>>
  BY <1>2 DEF Waiting
<1>5. cparser \in Parser
  BY DEF ClientTypes
<1>6. SUFFICES
        /\ cpc' = "idle" <=> results' # <<>>
        /\ results' # <<>> => (\E r : results' = <<r>>) /\ results'[1].code # 101
        /\ Clean(down')
        /\ results' = <<>> => /\ Clean(cparser'.header)
                              /\ cparser'.type = "INVALID" => Clean(cparser'.pkts)
        /\ replies = <<>> => Ends(down', framed)
        /\ replies = <<>> /\ ~early => /\ down' = <<>>
                                       /\ results' = <<>> \/ broken
                                       /\ cparser'.type = "INVALID" /\ cparser'.pkts = <<>>
  BY <1>3, <1>4 DEF Waiting, Called, Clean, Status
<1>7. CASE Client!Parse
  <2>1. /\ cpc' # "idle" /\ UNCHANGED <<down, results>>
        /\ cparser.type = "INVALID" => cparser' = ParseHeader(cparser).p
        /\ cparser.type # "INVALID" => cparser' = cparser
    BY <1>1, <1>7, ClientParse
  <2>2. /\ Clean(cparser'.header)
        /\ cparser'.type = "INVALID" => Clean(cparser'.pkts)
        /\ cparser.type = "INVALID" /\ cparser.pkts = <<>> => cparser' = cparser
    BY <1>4, <1>5, <2>1, ParseClean
  <2> QED BY <1>2, <1>4, <2>1, <2>2
<1>8. CASE Client!Body
  <2>1. /\ down' = down /\ cparser.type # "INVALID" /\ Rounds(Code(cparser.header))
    BY <1>1, <1>2, <1>8, ClientBody
  <2>2. Code(cparser.header) # 101 /\ NoCode # 101
    BY <1>4, <1>5, CleanCode, OpenAssumption DEF Parser
  <2>3. CASE /\ cpc' = "recv" /\ results' = <<>>
             /\ cparser'.type = cparser.type /\ cparser'.header = cparser.header
    BY <1>4, <2>1, <2>3
  <2>4. CASE cpc' = "idle" /\ \E r : results' = <<r>> /\ Returned(r, Code(cparser.header))
    <3>1. PICK r : results' = <<r>> /\ Returned(r, Code(cparser.header))
      BY <2>4
    <3>2. results'[1].code # 101 /\ results' # <<>>
      BY <2>2, <3>1, OneResult DEF Returned
    <3> QED BY <1>4, <2>1, <2>4, <3>1, <3>2
  <2> QED BY <2>1, <2>3, <2>4 DEF Rounds
<1>9. CASE \E n \in 1 .. RecvMax : Client!RecvSome(n)
  <2>1. /\ cpc' = "loop" /\ results' = results
        /\ cparser'.type = cparser.type /\ cparser'.header = cparser.header
        /\ \E r \in Text : down = r \o down' /\ cparser'.pkts = cparser.pkts \o r
    BY <1>1, <1>9, ClientRecvSome
  <2>2. PICK r \in Text : down = r \o down' /\ cparser'.pkts = cparser.pkts \o r
    BY <2>1
  <2>3. down' \in Text /\ cparser.pkts \in Text
    BY <1>2, <1>5 DEF ClientTypes, Parser, Text
  <2>4. Clean(down') /\ Clean(r)
    BY <1>4, <2>2, <2>3, CleanParts
  <2>5. cparser'.type = "INVALID" => Clean(cparser'.pkts)
    BY <1>4, <2>1, <2>2, <2>3, <2>4, CleanParts
  <2>6. Ends(down, framed) => Ends(down', framed)
    BY <2>2, <2>3, EndsBehind DEF Text
  <2>7. down = <<>> => down' = <<>> /\ r = <<>>
    <3> SUFFICES ASSUME r \o down' = <<>> PROVE down' = <<>> /\ r = <<>>
      BY <2>2
    <3> QED BY <2>3 DEF Text
  <2>8. cparser.pkts = <<>> /\ r = <<>> => cparser'.pkts = <<>>
    BY <2>2, Texts
  <2> QED BY <1>2, <1>4, <2>1, <2>4, <2>5, <2>6, <2>7, <2>8
<1>10. CASE /\ shut /\ down' = <<>> /\ cpc = "recv" /\ UNCHANGED <<shut, cparser, resp>>
            /\ Client!Return("DISCONNECT", NoCode, Client!Null)
  <2>1. replies # <<>> \/ broken
    BY <1>10, PhaseFacts DEF Waiting
  <2>2. cpc' = "idle" /\ \E r : results' = <<r>> /\ r.ret = "DISCONNECT" /\ r.code = NoCode
    BY <1>2, <1>10, FirstReturn
  <2>3. PICK r : results' = <<r>> /\ r.code = NoCode
    BY <2>2
  <2>4. results' # <<>> /\ results'[1].code # 101 /\ \E q : results' = <<q>>
    BY <2>3, OneResult, OpenAssumption
  <2>5. Clean(down')
    BY <1>10, CleanParts
  <2>6. Ends(down', framed)
    BY <1>10, EndsItself DEF ClientTypes, Text
  <2> QED BY <1>4, <1>10, <2>1, <2>2, <2>4, <2>5, <2>6
<1> QED BY <1>1, <1>7, <1>8, <1>9, <1>10

\* A header that is taken from clean symbols only is clean.
LEMMA TakenClean ==
  ASSUME NEW header, NEW x, Clean(x), \A i \in DOMAIN header : \E j \in DOMAIN x : header[i] = x[j]
  PROVE  Clean(header)
BY DEF Clean

\* The symbols in front of the answer, the answer and those behind it.
Behold(b, d) ==
  \E x \in Text, y \in Text :
    /\ Carries(b, d, x, Handshake(Status(101), WebSocket), y)
    /\ Clean(x) /\ Ends(y, framed) /\ (~early => x = <<>>)

\* What the phase needs of the next state.
LEMMA AnsweredThen ==
  ASSUME stage' = "asking", Switched', sent' = 1, gone' => broken', received' = <<>>, framed' = framed,
         early' = early, script' \in Quiet => framed' = <<>>,
         cpc' = "idle" <=> results' # <<>>,
         results' # <<>> => \E r : results' = <<r>>,
         results' = <<>> /\ cparser'.type = "INVALID" => Behold(cparser'.pkts, down'),
         (IF results' = <<>> THEN cparser'.type # "INVALID" /\ Code(cparser'.header) = 101
                             ELSE results'[1].code = 101) => Ends(down', framed),
         ~early /\ ~broken' =>
                   \/ results' = <<>> /\ cparser'.type = "INVALID"
                   \/ /\ results' = <<>> /\ cparser'.type = "WEBSOCKET" /\ cpc' = "body"
                      /\ Code(cparser'.header) = 101
                   \/ /\ results' # <<>> /\ cpc' = "idle" /\ results'[1].ret = "OK"
                      /\ results'[1].code = 101
  PROVE  Answered'
<1>1. Reading' <=> results' = <<>> /\ cparser'.type = "INVALID"
  BY DEF Reading
<1>2. Got' <=> IF results' = <<>> THEN cparser'.type # "INVALID" /\ Code(cparser'.header) = 101
                                  ELSE results'[1].code = 101
  BY SameCode DEF Got
<1>3. Straight' <=> \/ cpc' = "body" /\ cparser'.type = "WEBSOCKET"
                    \/ cpc' = "idle" /\ results'[1].ret = "OK"
  BY DEF Straight
<1>4. Called'
  BY DEF Called
<1>5. Behold(cparser'.pkts, down') => Await'
  <2> SUFFICES ASSUME NEW x \in Text, NEW y \in Text,
                      Carries(cparser'.pkts, down', x, Handshake(Status(101), WebSocket), y),
                      Clean(x), Ends(y, framed), ~early => x = <<>>
               PROVE  Await'
    BY DEF Behold
  <2>1. Text' = Text
    BY DEF Text, Symbol, WebSocket, Upgrade, CR, LF, WsKey, Chunked, Dashes, Frame, Frames
  <2>2. Coming(x, y)'
    BY DEF Coming, Carries, Handshake, Status, WebSocket, Upgrade, CR, LF
  <2>3. Clean(x)'
    BY DEF Clean, Status
  <2>4. Ends(y, framed)'
    BY DEF Ends, Symbol, WebSocket, Upgrade, CR, LF, WsKey, Chunked, Dashes, Frame, Frames
  <2>5. (~early => x = <<>>)'
    OBVIOUS
  <2> QED BY <2>1, <2>2, <2>3, <2>4, <2>5 DEF Await
<1>6. Ends(down', framed) => Ends(down, framed)'
  BY DEF Ends, Symbol, WebSocket, Upgrade, CR, LF, WsKey, Chunked, Dashes, Frame, Frames
<1>7. script' \in Quiet => framed' = <<>>
  OBVIOUS
<1> QED BY <1>1, <1>2, <1>3, <1>4, <1>5, <1>6 DEF Answered

\* While the answer is on its way.
LEMMA ReadingParse ==
  ASSUME ClientTypes, Await, results = <<>>, results' = results, cparser.type = "INVALID",
         cparser' = ParseHeader(cparser).p, down' = down,
         \/ ParseHeader(cparser).ret = "OK" /\ cpc' = "body"
         \/ ParseHeader(cparser).ret # "OK" /\ cpc' = "recv"
  PROVE  /\ cparser'.type = "INVALID" => Behold(cparser'.pkts, down')
         /\ cparser'.type # "INVALID" /\ Code(cparser'.header) = 101 => Ends(down', framed)
         /\ ~early => \/ cparser'.type = "INVALID"
                      \/ /\ cparser'.type = "WEBSOCKET" /\ cpc' = "body"
                         /\ Code(cparser'.header) = 101
<1> DEFINE h == Handshake(Status(101), WebSocket)
           p == ParseHeader(cparser).p
<1>1. PICK x \in Text, y \in Text :
        Coming(x, y) /\ Clean(x) /\ Ends(y, framed) /\ (~early => x = <<>>)
  BY DEF Await
<1>2. /\ cparser \in Parser /\ down \in Text /\ Telling(Status(101), WebSocket)
      /\ Carries(cparser.pkts, down, x, h, y)
  BY <1>1, Handshakes DEF ClientTypes, Coming
<1>3. \/ Waits(cparser) \/ Drops(cparser, down, x, h, y) \/ Overtaken(cparser, x)
      \/ Taken(cparser, down, x, h, y)
  BY <1>2, HandshakeParsed
<1>4. p \in Parser
  BY <1>2, ParseHeaderResult
<1> HIDE DEF h
<1>5. CASE Waits(cparser)
  <2>1. cparser' = cparser
    BY <1>5 DEF Waits
  <2>2. Behold(cparser'.pkts, down')
    BY <1>1, <1>2, <2>1 DEF Behold, h
  <2> QED BY <2>1, <2>2
<1>6. CASE Drops(cparser, down, x, h, y)
  <2>1. /\ cparser'.type = "INVALID" /\ x # <<>> /\ CutFrom(x, cparser'.pkts, down, h, y)
    BY <1>6 DEF Drops
  <2>2. PICK v \in Text, w \in Text : x = w \o v /\ Carries(cparser'.pkts, down, v, h, y)
    BY <2>1 DEF CutFrom
  <2>3. Clean(v) /\ early
    BY <1>1, <2>1, <2>2, CleanParts
  <2>4. Behold(cparser'.pkts, down')
    BY <1>1, <2>2, <2>3 DEF Behold, h
  <2> QED BY <2>1, <2>3, <2>4
<1>7. CASE Overtaken(cparser, x)
  <2>1. /\ cparser'.type # "INVALID" /\ x # <<>>
        /\ \A i \in DOMAIN p.header : \E j \in DOMAIN x : p.header[i] = x[j]
    BY <1>7 DEF Overtaken
  <2>2. Clean(p.header)
    BY <1>1, <2>1, TakenClean
  <2>3. Code(cparser'.header) # 101
    BY <1>4, <2>2, CleanCode DEF Parser
  <2> QED BY <1>1, <2>1, <2>3
<1>8. CASE Taken(cparser, down, x, h, y)
  <2>1. /\ ParseHeader(cparser).ret = "OK" /\ cparser'.type = "WEBSOCKET" /\ p.pkts \o down = y
    BY <1>8 DEF Taken
  <2>2. Ends(down', framed)
    <3>1. p.pkts \in Seq(Symbol) /\ down \in Seq(Symbol)
      BY <1>2, <1>4 DEF Parser, Text
    <3> QED BY <1>1, <2>1, <3>1, EndsBehind
  <2>3. ~early => Code(cparser'.header) = 101
    <3> SUFFICES ASSUME ~early PROVE Code(p.header) = 101
      OBVIOUS
    <3>1. PICK header \in Seq(Symbol) : header = p.header
      BY <1>4 DEF Parser
    <3>2. x = <<>> /\ Len(<<>>) = 0
      BY <1>1
    <3>3. Len(header) = Len(<<>>) + 10 /\ \A i \in 1 .. 10 : header[Len(<<>>) + i] = h[i]
      BY <1>8, <3>1, <3>2 DEF Taken
    <3>4. Len(header) = 10 /\ \A i \in 1 .. 10 : header[i] = h[i]
      BY <3>3
    <3>5. /\ h[1] = Status(101) /\ h[2] = CR /\ h[3] = LF
      BY <1>2, HandshakeSymbols DEF h
    <3>6. /\ header[1] = Status(101) /\ header[2] = CR /\ header[3] = LF
          /\ 3 \in 1 .. Len(header)
      BY <3>4, <3>5
    <3>7. Begun(header, Status(101))
      BY <1>2, <3>6 DEF Begun, Telling
    <3> QED BY <3>1, <3>7, CodeRead DEF Code
  <2> QED BY <2>1, <2>2, <2>3
<1> QED BY <1>3, <1>5, <1>6, <1>7, <1>8

\* What is received is taken from what is on its way.
LEMMA BeholdMore ==
  ASSUME NEW b \in Text, NEW d \in Text, NEW r \in Text, Behold(b, r \o d)
  PROVE  Behold(b \o r, d)
<1>1. PICK x \in Text, y \in Text :
        /\ Carries(b, r \o d, x, Handshake(Status(101), WebSocket), y)
        /\ Clean(x) /\ Ends(y, framed) /\ (~early => x = <<>>)
  BY DEF Behold
<1>2. (b \o r) \o d = b \o (r \o d)
  BY Texts
<1>3. Carries(b \o r, d, x, Handshake(Status(101), WebSocket), y)
  BY <1>1, <1>2 DEF Carries
<1> QED BY <1>1, <1>3 DEF Behold

\* Once it is answered, request goes on to the answer, to a frame in front of it or
\* to an error.
LEMMA AnsweredStep ==
  ASSUME IInv, ServerInv, ClientTypes, shut => pc = "closed" \/ broken, Answered, OpenWait
  PROVE  Answered'
<1>1. /\ stage = "asking" /\ cpc # "idle"
      /\ UNCHANGED <<vars, broken, stage, framed, early, received>>
      /\ \/ Client!Parse
         \/ Client!Body
         \/ \E n \in 1 .. RecvMax : Client!RecvSome(n)
         \/ /\ shut /\ down' = <<>> /\ UNCHANGED <<shut, cparser, resp>>
            /\ Client!Return("DISCONNECT", NoCode, Client!Null)
  BY WaitCases
<1>2. ClientTypes' /\ results = <<>>
  BY WaitTypes DEF Answered
<1>3. /\ Switched' /\ sent' = 1 /\ (gone' => broken') /\ broken' = broken /\ received' = <<>> /\ stage' = "asking"
      /\ framed' = framed /\ early' = early
      /\ script' \in Quiet => framed' = <<>>
  BY <1>1 DEF Answered, Switched, vars, peer, hist
<1>4. /\ cparser.type = "INVALID" => Await
      /\ cparser.type # "INVALID" /\ Code(cparser.header) = 101 => Ends(down, framed)
      /\ ~early /\ ~broken =>
                   \/ cparser.type = "INVALID"
                   \/ /\ cparser.type = "WEBSOCKET" /\ cpc = "body" /\ Code(cparser.header) = 101
  BY <1>1, <1>2 DEF Answered, Reading, Got, Straight
<1>5. CASE Client!Parse
  <2>1. /\ cpc = "loop" /\ cpc' # "idle" /\ UNCHANGED <<down, results>>
        /\ cparser.type = "INVALID" =>
             /\ cparser' = ParseHeader(cparser).p
             /\ \/ ParseHeader(cparser).ret = "OK" /\ cpc' = "body"
                \/ ParseHeader(cparser).ret # "OK" /\ cpc' = "recv"
        /\ cparser.type # "INVALID" => cparser' = cparser
    BY <1>1, <1>5, ClientParse
  <2>2. CASE cparser.type = "INVALID"
    <3>1. /\ cparser'.type = "INVALID" => Behold(cparser'.pkts, down')
          /\ cparser'.type # "INVALID" /\ Code(cparser'.header) = 101 => Ends(down', framed)
          /\ ~early => \/ cparser'.type = "INVALID"
                       \/ /\ cparser'.type = "WEBSOCKET" /\ cpc' = "body"
                          /\ Code(cparser'.header) = 101
      BY <1>2, <1>4, <2>1, <2>2, ReadingParse
    <3> QED BY <1>2, <1>3, <2>1, <3>1, AnsweredThen
  <2>3. CASE cparser.type # "INVALID"
    BY <1>2, <1>3, <1>4, <2>1, <2>3, AnsweredThen
  <2> QED BY <2>2, <2>3
<1>6. CASE Client!Body
  <2>1. /\ down' = down /\ cparser.type # "INVALID" /\ Rounds(Code(cparser.header))
        /\ cparser.type = "WEBSOCKET" /\ Code(cparser.header) # NoCode =>
              /\ cpc' = "idle"
              /\ \E r : results' = <<r>> /\ r.ret = "OK" /\ r.code = Code(cparser.header)
    BY <1>1, <1>2, <1>6, ClientBody
  <2>2. NoCode # 101
    BY OpenAssumption
  <2>3. CASE (early \/ broken) /\ /\ cpc' = "recv" /\ results' = <<>>
                                  /\ cparser'.type = cparser.type /\ cparser'.header = cparser.header
    BY <1>3, <1>4, <2>1, <2>3, AnsweredThen
  <2>4. CASE /\ early \/ broken
             /\ cpc' = "idle" /\ \E r : results' = <<r>> /\ Returned(r, Code(cparser.header))
    <3>1. PICK r : results' = <<r>> /\ Returned(r, Code(cparser.header))
      BY <2>4
    <3>2. results' # <<>> /\ results'[1] = r /\ (\E q : results' = <<q>>)
      BY <3>1, OneResult
    <3>3. results'[1].code = 101 => Ends(down', framed)
      BY <1>4, <2>1, <2>2, <3>1, <3>2 DEF Returned
    <3> QED BY <1>3, <2>4, <3>2, <3>3, AnsweredThen
  <2>5. CASE ~early /\ ~broken
    <3>1. cparser.type = "WEBSOCKET" /\ Code(cparser.header) = 101
      BY <1>4, <2>1, <2>5
    <3>2. PICK r : results' = <<r>> /\ r.ret = "OK" /\ r.code = 101
      BY <2>1, <2>2, <3>1
    <3>3. results' # <<>> /\ results'[1] = r /\ (\E q : results' = <<q>>)
      BY <3>2, OneResult
    <3>4. cpc' = "idle" /\ Ends(down', framed)
      BY <1>4, <2>1, <2>2, <3>1
    <3> QED BY <1>3, <3>2, <3>3, <3>4, AnsweredThen
  <2> QED BY <2>1, <2>3, <2>4, <2>5 DEF Rounds
<1>7. CASE \E n \in 1 .. RecvMax : Client!RecvSome(n)
  <2>1. /\ cpc' = "loop" /\ cpc = "recv" /\ results' = results
        /\ cparser'.type = cparser.type /\ cparser'.header = cparser.header
        /\ \E r \in Text : down = r \o down' /\ cparser'.pkts = cparser.pkts \o r
    BY <1>1, <1>7, ClientRecvSome
  <2>2. PICK r \in Text : down = r \o down' /\ cparser'.pkts = cparser.pkts \o r
    BY <2>1
  <2>3. down' \in Text /\ cparser.pkts \in Text
    BY <1>2 DEF ClientTypes, Parser, Text
  <2>4. Await => Behold(cparser.pkts, down)
    BY DEF Await, Coming, Behold
  <2>5. cparser.type = "INVALID" => Behold(cparser'.pkts, down')
    BY <1>4, <2>2, <2>3, <2>4, BeholdMore
  <2>6. Ends(down, framed) => Ends(down', framed)
    BY <2>2, <2>3, EndsBehind DEF Text
  <2>7. ~early /\ ~broken => cparser'.type = "INVALID"
    BY <1>4, <2>1
  <2> QED BY <1>2, <1>3, <1>4, <2>1, <2>5, <2>6, <2>7, AnsweredThen
<1>8. CASE /\ shut /\ down' = <<>> /\ UNCHANGED <<shut, cparser, resp>>
           /\ Client!Return("DISCONNECT", NoCode, Client!Null)
  <2>1. broken'
    BY <1>3, <1>8, PhaseFacts DEF Answered
  <2>2. cpc' = "idle" /\ \E r : results' = <<r>> /\ r.ret = "DISCONNECT" /\ r.code = NoCode
    BY <1>2, <1>8, FirstReturn
  <2>3. PICK r : results' = <<r>> /\ r.code = NoCode
    BY <2>2
  <2>4. results' # <<>> /\ results'[1].code # 101 /\ \E q : results' = <<q>>
    BY <2>3, OneResult, OpenAssumption
  <2> QED BY <1>3, <2>1, <2>2, <2>4, AnsweredThen
<1> QED BY <1>1, <1>5, <1>6, <1>7, <1>8

-----------------------------------------------------------------------------
(* Both ends together. *)

\* The frames that the application of the server sends are not answers.
NoStatus == \A f \in Pushes : Clean(f)

\* All of it.
Whole == IInv /\ ServerInv /\ LinkInv /\ (stage = "closed" => ~linked)

\* The texts that the server sends on its own.
LEMMA AnswerTexts ==
  /\ Answer101 \in Text /\ Answer404 \in Text /\ <<Frame("pong")>> \in Text
  /\ Clean(Answer404)
<1> DEFINE c == ContentLen(1)
           s == Status(404)
           d == Byte("x")
           items == [i \in DOMAIN <<c>> |-> <<<<c>>[i]>> \o HTTP_SEP]
<1>1. Answer101 \in Text
  BY Handshakes, HandshakeSymbols DEF Text
<1>2. <<Frame("pong")>> \in Text
  BY DEF Text, Symbol, Frames
<1>3. c \in Symbol /\ s \in Symbol /\ d \in Symbol
  BY OpenAssumption DEF Symbol, ContentLen, Status, Byte
<1>4. c # Status(101) /\ s # Status(101) /\ d # Status(101) /\ CR # Status(101) /\ LF # Status(101)
  BY DEF ContentLen, Status, Byte, CR, LF
<1> HIDE DEF c, s, d
<1>5. /\ <<c>> \in Text /\ <<s>> \in Text /\ <<d>> \in Text /\ HTTP_SEP \in Text
      /\ Clean(<<c>>) /\ Clean(<<s>>) /\ Clean(<<d>>) /\ Clean(HTTP_SEP)
  BY <1>3, <1>4, Tags DEF Text, Clean, HTTP_SEP
<1>6. <<c>> \o HTTP_SEP \in Text /\ Clean(<<c>> \o HTTP_SEP)
  BY <1>5, Texts, CleanParts
<1>7. FlattenSeq(items) = <<c>> \o HTTP_SEP
  <2>1. items = <<<<c>> \o HTTP_SEP>>
    OBVIOUS
  <2>2. <<<<c>> \o HTTP_SEP>> = Append(<<>>, <<c>> \o HTTP_SEP)
    OBVIOUS
  <2>3. FlattenSeq(Append(<<>>, <<c>> \o HTTP_SEP)) = FlattenSeq(<<>>) \o (<<c>> \o HTTP_SEP)
    BY <1>6, EmptySeq, FlattenAppend DEF Text
  <2> QED BY <1>6, <2>1, <2>2, <2>3, FlattenEmpty, Texts
<1>8. Answer404 = (((<<s>> \o HTTP_SEP) \o FlattenSeq(items)) \o HTTP_SEP) \o <<d>>
  BY DEF Answer404, Header, c, s, d
<1> HIDE DEF items
<1>9. <<s>> \o HTTP_SEP \in Text /\ Clean(<<s>> \o HTTP_SEP)
  BY <1>5, Texts, CleanParts
<1>10. /\ (<<s>> \o HTTP_SEP) \o FlattenSeq(items) \in Text
       /\ Clean((<<s>> \o HTTP_SEP) \o FlattenSeq(items))
  BY <1>6, <1>7, <1>9, Texts, CleanParts
<1>11. /\ ((<<s>> \o HTTP_SEP) \o FlattenSeq(items)) \o HTTP_SEP \in Text
       /\ Clean(((<<s>> \o HTTP_SEP) \o FlattenSeq(items)) \o HTTP_SEP)
  BY <1>5, <1>10, Texts, CleanParts
<1>12. Answer404 \in Text /\ Clean(Answer404)
  BY <1>5, <1>8, <1>11, Texts, CleanParts
<1> QED BY <1>1, <1>2, <1>12

\* What the phases say about the next state.
LEMMA NextValues ==
  /\ Clean(down)' <=> Clean(down')
  /\ Clean(cparser.header)' <=> Clean(cparser'.header)
  /\ Clean(cparser.pkts)' <=> Clean(cparser'.pkts)
  /\ Ends(down, framed)' <=> Ends(down', framed')
  /\ Ends(received \o down, framed)' <=> Ends(received' \o down', framed')
  /\ Text' = Text
BY DEF Clean, Status, Ends, Text, Symbol, WebSocket, Upgrade, CR, LF, WsKey, Chunked, Dashes,
       Frame, Frames

\* The types stay when the temporary client does not move.
LEMMA TypesStay ==
  ASSUME ClientTypes, UNCHANGED <<cpc, cparser, resp>>,
         down' \in Text, framed' \in Text, received' \in Text
  PROVE  ClientTypes'
BY NextValues, SameCode DEF ClientTypes

\* What the server does in a step.
LEMMA ServerMoves ==
  ASSUME IInv, ServerInv, ClientTypes, ServerStep
  PROVE  /\ IInv' /\ ServerInv' /\ ClientTypes'
         /\ UNCHANGED <<script, sent, gone, client, early>>
         /\ \/ replies' = replies /\ UNCHANGED <<down, framed>>
            \/ /\ replies = <<>> /\ sent = 1 /\ replies' = <<"101">>
               /\ down' = down \o Answer101 /\ framed' = framed
            \/ /\ replies = <<>> /\ sent = 1 /\ replies' = <<"404">>
               /\ down' = down \o Answer404 /\ framed' = framed
            \/ /\ Switched /\ sent > 1 /\ Switched'
               /\ \/ script \notin WsServed
                  \/ \E f \in Text : down' = down \o f /\ framed' = framed \o f
<1> DEFINE reply == IF replies' = replies THEN "none" ELSE Last(replies')
           more  == CASE reply = "101"  -> Answer101
                      [] reply = "404"  -> Answer404
                      [] reply = "pong" -> <<Frame("pong")>>
                      [] reply = "none" -> <<>>
<1>1. /\ Coroutine \/ Application
      /\ down' = down \o more
      /\ framed' = IF reply = "pong" THEN Append(framed, Frame("pong")) ELSE framed
      /\ UNCHANGED <<client, early>>
  BY DEF ServerStep
<1>2. ServerInv' /\ Moves /\ IInv'
  BY <1>1, PhaseStep, NextInvariant DEF Next
<1>3. /\ UNCHANGED <<script, sent, gone>>
      /\ \/ replies' = replies
         \/ replies = <<>> /\ sent = 1 /\ replies' = <<"101">>
         \/ replies = <<>> /\ sent = 1 /\ replies' = <<"404">>
         \/ Switched /\ sent > 1 /\ script \in WsServed /\ replies' = Append(replies, "pong")
         \/ Switched /\ sent > 1 /\ script \notin WsServed /\ replies' = Append(replies, "101")
  BY <1>2 DEF Moves
<1>4. down \in Text /\ framed \in Text
  BY DEF ClientTypes
<1>5. /\ reply = "none" => down' = down /\ framed' = framed
      /\ reply = "101" => down' = down \o Answer101 /\ framed' = framed
      /\ reply = "404" => down' = down \o Answer404 /\ framed' = framed
      /\ reply = "pong" => down' = down \o <<Frame("pong")>> /\ framed' = framed \o <<Frame("pong")>>
  <2>1. Append(framed, Frame("pong")) = framed \o <<Frame("pong")>>
    BY <1>4, AppendIsConcat DEF Text, Symbol, Frames
  <2> QED BY <1>1, <1>4, <2>1, Texts
<1> HIDE DEF more
<1>6. /\ replies' = replies => reply = "none"
      /\ replies = <<>> /\ replies' = <<"101">> => reply = "101"
      /\ replies = <<>> /\ replies' = <<"404">> => reply = "404"
      /\ replies' = Append(replies, "pong") => reply = "pong"
      /\ replies' = Append(replies, "101") => reply = "101"
  <2>1. <<"101">> = Append(<<>>, "101") /\ <<"404">> = Append(<<>>, "404")
    OBVIOUS
  <2> QED BY <2>1, OneMoreReply
<1> HIDE DEF reply
<1>7. down' \in Text /\ framed' \in Text /\ received' \in Text
  <2>1. received \in Text /\ received' = received
    BY <1>1 DEF client, ClientTypes
  <2>2. /\ down \o Answer101 \in Text /\ down \o Answer404 \in Text
        /\ down \o <<Frame("pong")>> \in Text /\ framed \o <<Frame("pong")>> \in Text
    BY <1>4, AnswerTexts, Texts
  <2> QED BY <1>3, <1>4, <1>5, <1>6, <2>1, <2>2
<1>8. ClientTypes'
  BY <1>1, <1>7, TypesStay DEF client, temp
<1>9. Switched => Switched'
  BY <1>2, SwitchedStays
<1>10. SUFFICES ASSUME NEW r, r = reply
                PROVE  \/ replies' = replies /\ UNCHANGED <<down, framed>>
                       \/ /\ replies = <<>> /\ sent = 1 /\ replies' = <<"101">>
                          /\ down' = down \o Answer101 /\ framed' = framed
                       \/ /\ replies = <<>> /\ sent = 1 /\ replies' = <<"404">>
                          /\ down' = down \o Answer404 /\ framed' = framed
                       \/ /\ Switched /\ sent > 1 /\ Switched'
                          /\ \/ script \notin WsServed
                             \/ \E f \in Text : down' = down \o f /\ framed' = framed \o f
  BY <1>1, <1>2, <1>3, <1>8
<1>11. CASE replies' = replies
  BY <1>5, <1>6, <1>11
<1>12. CASE replies = <<>> /\ sent = 1 /\ replies' = <<"101">>
  BY <1>5, <1>6, <1>12
<1>13. CASE replies = <<>> /\ sent = 1 /\ replies' = <<"404">>
  BY <1>5, <1>6, <1>13
<1>14. CASE Switched /\ sent > 1 /\ script \in WsServed /\ replies' = Append(replies, "pong")
  BY <1>5, <1>6, <1>9, <1>14, AnswerTexts
<1>15. CASE Switched /\ sent > 1 /\ script \notin WsServed
  BY <1>9, <1>15
<1> QED BY <1>3, <1>11, <1>12, <1>13, <1>14, <1>15

\* More is put behind texts.
LEMMA MoreBehind ==
  ASSUME NEW a \in Text, NEW b \in Text, NEW c \in Text, NEW d, d = b \o c
  PROVE  a \o d = (a \o b) \o c
BY Texts

\* What the first phase needs of the next state.
LEMMA WaitingThen ==
  ASSUME stage' = "asking", ~Switched', sent' = 1, gone' => broken', received' = <<>>,
         cpc' = "idle" <=> results' # <<>>,
         results' # <<>> => \E r : results' = <<r>>,
         Clean(down'),
         results' = <<>> => /\ Clean(cparser'.header)
                            /\ cparser'.type = "INVALID" => Clean(cparser'.pkts),
         results' # <<>> => results'[1].code # 101,
         replies' = <<>> => Ends(down', framed'),
         replies' = <<>> /\ ~early' => /\ down' = <<>> /\ framed' = <<>>
                                       /\ results' = <<>> \/ broken'
                                       /\ cparser'.type = "INVALID" /\ cparser'.pkts = <<>>,
         script' \in Quiet => framed' = <<>>
  PROVE  Waiting'
<1>1. Called'
  BY DEF Called
<1> QED BY <1>1, NextValues DEF Waiting

\* Nothing changes for the client but that the server has closed, or the
\* connection breaks.
LEMMA LinkStays ==
  ASSUME LinkInv, shut' => pc' = "closed" \/ broken', broken => broken', gone' = gone \/ broken',
         UNCHANGED <<script, sent, replies, temp, stage, received, down, framed, early>>
  PROVE  LinkInv'
<1>1. /\ script' = script /\ sent' = sent /\ replies' = replies /\ cpc' = cpc
      /\ cparser' = cparser /\ resp' = resp /\ results' = results
      /\ stage' = stage /\ received' = received /\ down' = down /\ framed' = framed
      /\ early' = early /\ linked' = linked
      /\ (gone => broken) => (gone' => broken')
  BY DEF temp
<1>2. Switched' <=> Switched
  BY <1>1 DEF Switched
<1>3. ClientTypes'
  BY <1>1, TypesStay DEF LinkInv, ClientTypes
<1>4. CASE Before
  BY <1>1, <1>3, <1>4 DEF LinkInv, Before
<1>5. CASE Waiting
  <2>1. Waiting'
    BY <1>1, <1>2, <1>5, WaitingThen DEF Waiting, Called
  <2> QED BY <1>3, <2>1 DEF LinkInv
<1>6. CASE Answered
  <2>1. Await => Behold(cparser.pkts, down)
    BY DEF Await, Coming, Behold
  <2>2. Answered'
    BY <1>1, <1>2, <1>6, <2>1, AnsweredThen DEF Answered, Called, Reading, Got, Straight
  <2> QED BY <1>3, <2>2 DEF LinkInv
<1>7. CASE Opened
  <2>1. Opened'
    BY <1>1, <1>2, <1>7, NextValues DEF Opened
  <2> QED BY <1>3, <2>1 DEF LinkInv
<1>8. CASE Failed
  BY <1>1, <1>3, <1>8 DEF LinkInv, Failed
<1> QED BY <1>4, <1>5, <1>6, <1>7, <1>8 DEF LinkInv

\* The answer is sent behind the frames that were sent early.
LEMMA AnswerSent ==
  ASSUME IInv, ClientTypes, Waiting, replies = <<>>, replies' = <<"101">>,
         UNCHANGED <<script, sent, gone, broken, temp, stage, received, framed, early>>,
         down' = down \o Answer101
  PROVE  Answered'
<1>1. /\ script' = script /\ sent' = 1 /\ (gone' => broken') /\ broken' = broken /\ cpc' = cpc
      /\ cparser' = cparser /\ results' = results
      /\ stage' = "asking" /\ received' = <<>> /\ framed' = framed
      /\ early' = early /\ (script' \in Quiet => framed' = <<>>)
      /\ (cpc' = "idle" <=> results' # <<>>) /\ (results' # <<>> => \E r : results' = <<r>>)
  BY DEF temp, Waiting, Called
<1>2. Switched'
  BY DEF Switched
<1>3. cparser.pkts \in Text /\ down \in Text /\ cparser.header \in Seq(Symbol) /\ framed \in Text
  BY DEF ClientTypes, Parser, Text
<1>4. results = <<>> /\ cparser.type = "INVALID" => Behold(cparser.pkts, down')
  <2> SUFFICES ASSUME results = <<>>, cparser.type = "INVALID"
               PROVE  Behold(cparser.pkts, down')
    OBVIOUS
  <2> DEFINE x == cparser.pkts \o down
             h == Handshake(Status(101), WebSocket)
  <2>1. Clean(x)
    BY <1>3, CleanParts DEF Waiting
  <2>2. x \in Text /\ <<>> \in Text /\ h \in Text /\ h \o <<>> = h
    BY <1>3, AnswerTexts, Handshakes, Texts
  <2>3. cparser.pkts \o down' = x \o h
    <3>1. Answer101 = h
      BY Handshakes
    <3>2. down' = down \o h
      BY <3>1
    <3> HIDE DEF h
    <3> DEFINE b == cparser.pkts
    <3>3. b \in Text /\ down \in Text /\ h \in Text
      BY <1>3, <2>2
    <3> HIDE DEF b
    <3>4. b \o down' = (b \o down) \o h
      BY <3>2, <3>3, MoreBehind
    <3> QED BY <3>4 DEF b
  <2>4. Carries(cparser.pkts, down', x, h, <<>>)
    BY <2>2, <2>3 DEF Carries
  <2>5. Ends(<<>>, framed)
    BY <1>3, EndsItself DEF Text
  <2>6. ~early => x = <<>>
    BY Texts DEF Waiting
  <2> QED BY <2>1, <2>2, <2>4, <2>5, <2>6 DEF Behold
<1>5. ~(IF results = <<>> THEN cparser.type # "INVALID" /\ Code(cparser.header) = 101
                          ELSE results[1].code = 101)
  BY <1>3, CleanCode DEF Waiting
<1>6. ~early /\ ~broken => results = <<>> /\ cparser.type = "INVALID"
  BY DEF Waiting
<1> QED BY <1>1, <1>2, <1>4, <1>5, <1>6, AnsweredThen

\* A refusal is no answer of the handshake.
LEMMA RefusalSent ==
  ASSUME ClientTypes, Waiting, replies = <<>>, replies' = <<"404">>,
         UNCHANGED <<script, sent, gone, broken, temp, stage, received, framed, early>>,
         down' = down \o Answer404
  PROVE  Waiting'
<1>1. /\ script' = script /\ sent' = sent /\ gone' = gone /\ broken' = broken /\ cpc' = cpc
      /\ cparser' = cparser /\ results' = results
      /\ stage' = stage /\ received' = received /\ framed' = framed /\ early' = early
  BY DEF temp
<1>2. ~Switched' /\ replies' # <<>>
  BY DEF Switched
<1>3. Clean(down')
  BY AnswerTexts, CleanParts DEF Waiting, ClientTypes
<1> QED BY <1>1, <1>2, <1>3, WaitingThen DEF Waiting, Called

\* A frame behind the others.
LEMMA FrameSent ==
  ASSUME ClientTypes, Opened, Switched',
         UNCHANGED <<script, stage, received>>,
         \/ script \notin WsServed
         \/ \E f \in Text : down' = down \o f /\ framed' = framed \o f
  PROVE  Opened'
<1>1. down \in Text /\ framed \in Text /\ received \in Text
  BY DEF ClientTypes
<1>2. CASE script \notin WsServed
  BY <1>2 DEF Opened
<1>3. CASE script \in WsServed
  <2>1. PICK f \in Text : down' = down \o f /\ framed' = framed \o f
    BY <1>3
  <2>2. received' \o down' = (received \o down) \o f
    BY <1>1, <2>1, Texts
  <2>3. received \o down \in Text
    BY <1>1, Texts
  <2>4. Ends(received' \o down', framed')
    BY <1>3, <2>1, <2>2, <2>3, EndsFurther DEF Opened, Text
  <2> QED BY <1>3, <2>1, <2>2, <2>4, NextValues DEF Opened
<1> QED BY <1>2, <1>3

\* A step of the server leads from phase to phase of open.
LEMMA ServerLink ==
  ASSUME IInv, ServerInv, LinkInv, ServerStep
  PROVE  IInv' /\ ServerInv' /\ LinkInv'
<1>0. ClientTypes /\ (Before \/ Waiting \/ Answered \/ Opened \/ Failed)
  BY DEF LinkInv
<1>1. /\ IInv' /\ ServerInv' /\ ClientTypes'
      /\ UNCHANGED <<script, sent, gone, client, early>>
      /\ \/ replies' = replies /\ UNCHANGED <<down, framed>>
         \/ /\ replies = <<>> /\ sent = 1 /\ replies' = <<"101">>
            /\ down' = down \o Answer101 /\ framed' = framed
         \/ /\ replies = <<>> /\ sent = 1 /\ replies' = <<"404">>
            /\ down' = down \o Answer404 /\ framed' = framed
         \/ /\ Switched /\ sent > 1 /\ Switched'
            /\ \/ script \notin WsServed
               \/ \E f \in Text : down' = down \o f /\ framed' = framed \o f
  BY <1>0, ServerMoves
<1>2. shut' => pc' = "closed" \/ broken'
  <2>1. pc # "closed"
    BY ClosedStep DEF ServerStep
  <2> QED BY <1>1, <2>1 DEF LinkInv, client
<1>3. UNCHANGED <<script, sent, gone, broken, temp, stage, received, early>>
  BY <1>1 DEF client
<1>4. CASE replies' = replies /\ UNCHANGED <<down, framed>>
  BY <1>1, <1>2, <1>3, <1>4, LinkStays
<1>5. CASE /\ replies = <<>> /\ sent = 1 /\ replies' \in {<<"101">>, <<"404">>}
           /\ framed' = framed
           /\ replies' = <<"101">> => down' = down \o Answer101
           /\ replies' = <<"404">> => down' = down \o Answer404
  <2>1. ~Switched
    BY <1>5, PhaseFacts
  <2>2. CASE Waiting
    <3>1. Answered' \/ Waiting'
      BY <1>0, <1>3, <1>5, <2>2, AnswerSent, RefusalSent
    <3> QED BY <1>1, <1>2, <3>1 DEF LinkInv
  <2>3. CASE Failed
    <3>1. (~linked \/ broken \/ early) /\ stage = "failed"
      BY <1>5, <2>3 DEF Failed
    <3>2. Failed'
      BY <1>3, <3>1 DEF Failed, temp
    <3> QED BY <1>1, <1>2, <3>2 DEF LinkInv
  <2>4. ~Before /\ ~Answered /\ ~Opened
    BY <1>5, <2>1 DEF Before, Answered, Opened
  <2> QED BY <1>0, <2>2, <2>3, <2>4
<1>6. CASE /\ Switched /\ sent > 1 /\ Switched'
           /\ \/ script \notin WsServed
              \/ \E f \in Text : down' = down \o f /\ framed' = framed \o f
  <2>1. sent # 0 /\ sent # 1
    BY <1>6, CountTypes
  <2>2. ~Before /\ ~Waiting /\ ~Answered
    BY <2>1 DEF Before, Waiting, Answered
  <2>3. CASE Opened
    <3>1. Opened'
      BY <1>0, <1>3, <1>6, <2>3, FrameSent
    <3> QED BY <1>1, <1>2, <3>1 DEF LinkInv
  <2>4. CASE Failed
    <3>1. ~linked \/ broken \/ early
      <4>1. \A i \in DOMAIN <<"404">> : <<"404">>[i] # "101"
        OBVIOUS
      <4>2. replies # <<"404">>
        BY <1>6, <4>1, Zenon DEF Switched
      <4> QED BY <2>4, <4>2 DEF Failed
    <3>2. Failed'
      BY <1>3, <2>4, <3>1 DEF Failed, temp
    <3> QED BY <1>1, <1>2, <3>2 DEF LinkInv
  <2> QED BY <1>0, <2>2, <2>3, <2>4
<1>7. CASE /\ replies = <<>> /\ sent = 1 /\ replies' = <<"101">>
           /\ down' = down \o Answer101 /\ framed' = framed
  BY <1>5, <1>7
<1>8. CASE /\ replies = <<>> /\ sent = 1 /\ replies' = <<"404">>
           /\ down' = down \o Answer404 /\ framed' = framed
  BY <1>5, <1>8
<1> QED BY <1>1, <1>4, <1>6, <1>7, <1>8

\* The application of the server sends a frame.
LEMMA PushLink ==
  ASSUME NoStatus, IInv, ServerInv, LinkInv, HandlerSends
  PROVE  IInv' /\ ServerInv' /\ LinkInv'
<1>1. PICK f \in Pushes : down' = down \o f /\ framed' = framed \o f
  BY DEF HandlerSends
<1>2. /\ UNCHANGED vars /\ UNCHANGED client
      /\ events # <<>> /\ (script \in Quiet => Len(events) > 1)
      /\ early' = (early \/ ~Switched)
  BY DEF HandlerSends
<1>3. /\ UNCHANGED <<script, sent, wire, gone, conn, hist, replies, pc>>
      /\ UNCHANGED <<temp, stage, received, shut, broken, linked, cpc, cparser, resp, results>>
      /\ (Switched' <=> Switched)
  BY <1>2 DEF vars, peer, conn, hist, client, temp, Switched
<1>4. IInv' /\ ServerInv'
  BY <1>2, <1>3, StutterStep, PhaseStays
<1>5. f \in Text /\ Clean(f) /\ down \in Text /\ framed \in Text /\ received \in Text
  BY PushAssumption DEF NoStatus, LinkInv, ClientTypes, Text
<1>6. down' \in Text /\ framed' \in Text /\ received' \in Text
  BY <1>1, <1>3, <1>5, Texts
<1>7. ClientTypes'
  BY <1>3, <1>6, TypesStay DEF LinkInv
<1>8. shut' => pc' = "closed" \/ broken'
  BY <1>3 DEF LinkInv
<1>9. /\ sent # 0
      /\ script \in Quiet => Switched /\ sent > 1
      /\ script \in WsServed
  BY <1>2, PhaseFacts, CountTypes
<1>10. CASE Waiting
  <2>1. script \notin Quiet /\ sent = 1 /\ ~Switched
    BY <1>9, <1>10 DEF Waiting
  <2>2. Clean(down')
    BY <1>1, <1>5, <1>10, CleanParts DEF Waiting
  <2>3. Ends(down, framed) => Ends(down', framed')
    BY <1>1, <1>5, EndsFurther DEF Text
  <2>4. early'
    BY <1>2, <2>1, Zenon
  <2>5. Waiting'
    BY <1>3, <1>10, <2>1, <2>2, <2>3, <2>4, WaitingThen DEF Waiting, Called
  <2> QED BY <1>4, <1>7, <1>8, <2>5 DEF LinkInv
<1>11. CASE Answered
  <2>2. script \notin Quiet /\ Switched
    BY <1>9, <1>11 DEF Answered
  <2>3. Ends(down, framed) => Ends(down', framed')
    BY <1>1, <1>5, EndsFurther DEF Text
  <2>4. early' <=> early
    BY <1>2, <2>2, Zenon
  <2>5. results = <<>> /\ cparser.type = "INVALID" => Await'
    <3> SUFFICES ASSUME Await PROVE Await'
      BY <1>11 DEF Answered, Reading
    <3>1. PICK x \in Text, y \in Text :
            Coming(x, y) /\ Clean(x) /\ Ends(y, framed) /\ (~early => x = <<>>)
      BY DEF Await
    <3> DEFINE h == Handshake(Status(101), WebSocket)
               b == cparser.pkts
    <3>2. h \in Text /\ b \in Text
      BY Handshakes, HandshakeSymbols DEF LinkInv, ClientTypes, Parser, Text
    <3>3. b \o down = x \o (h \o y)
      BY <3>1 DEF Coming, Carries
    <3> HIDE DEF h, b
    <3>4. b \o down' = (b \o down) \o f
      BY <1>1, <1>5, <3>2, MoreBehind, SMTT(30)
    <3>5. (x \o (h \o y)) \o f = x \o (h \o (y \o f)) /\ y \o f \in Text
      <4>1. y \o f \in Text /\ h \o y \in Text
        BY <1>5, <3>2, Texts
      <4>2. h \o (y \o f) = (h \o y) \o f
        BY <1>5, <3>2, MoreBehind
      <4> QED BY <1>5, <4>1, <4>2, MoreBehind
    <3>6. b \o down' = x \o (h \o (y \o f))
      BY <3>3, <3>4, <3>5
    <3>7. Ends(y \o f, framed')
      BY <1>1, <1>5, <3>1, EndsFurther DEF Text
    <3>8. (\E yy \in Text : yy = y \o f)
      BY <3>5
    <3>9. PICK z \in Text : z = y \o f
      BY <3>8
    <3>10. cparser'.pkts \o down' = x \o (h \o z)
      BY <1>3, <3>6, <3>9 DEF b
    <3>11. Coming(x, z)'
      BY <3>10 DEF Coming, Carries, Handshake, Status, WebSocket, Upgrade, CR, LF, h
    <3>12. Ends(z, framed)'
      BY <3>7, <3>9 DEF Ends, Symbol, WebSocket, Upgrade, CR, LF, WsKey, Chunked, Dashes, Frame,
                        Frames
    <3>13. Clean(x)'
      BY <3>1 DEF Clean, Status
    <3>14. (~early => x = <<>>)'
      BY <2>4, <3>1
    <3> QED BY <3>11, <3>12, <3>13, <3>14, NextValues DEF Await
  <2>6. Reading' <=> Reading
    BY <1>3 DEF Reading
  <2>7. Got' <=> Got
    BY <1>3, SameCode DEF Got
  <2>8. Straight' <=> Straight
    BY <1>3 DEF Straight
  <2>9. Called'
    BY <1>3, <1>11 DEF Answered, Called
  <2>10. Reading' => Await'
    BY <2>5, <2>6 DEF Reading
  <2>11. Got' => Ends(down, framed)'
    BY <1>11, <2>3, <2>7, NextValues DEF Answered
  <2>12. ~early' /\ ~broken' => Reading' \/ (Got' /\ Straight')
    BY <1>3, <1>11, <2>4, <2>6, <2>7, <2>8 DEF Answered
  <2>13. /\ stage' = "asking" /\ Switched' /\ sent' = 1 /\ (gone' => broken') /\ received' = <<>>
         /\ script' \notin Quiet
    BY <1>3, <1>11, <2>2 DEF Answered
  <2>14. Answered'
    BY <2>9, <2>10, <2>11, <2>12, <2>13 DEF Answered
  <2> QED BY <1>4, <1>7, <1>8, <2>14 DEF LinkInv
<1>12. CASE Opened
  <2>1. Opened'
    BY <1>1, <1>3, <1>5, <1>12, FrameSent DEF LinkInv, Opened
  <2> QED BY <1>4, <1>7, <1>8, <2>1 DEF LinkInv
<1>13. CASE Failed
  <2>1. Failed'
    BY <1>2, <1>3, <1>13 DEF Failed
  <2> QED BY <1>4, <1>7, <1>8, <2>1 DEF LinkInv
<1>14. ~Before
  BY <1>9 DEF Before
<1> QED BY <1>10, <1>11, <1>12, <1>13, <1>14 DEF LinkInv

\* A step that the server does not see.
LEMMA ServerStays ==
  ASSUME IInv, ServerInv, UNCHANGED vars
  PROVE  /\ IInv' /\ ServerInv' /\ (Switched' <=> Switched)
         /\ UNCHANGED <<script, sent, gone, pc, replies>>
<1>1. UNCHANGED <<script, sent, wire, gone, pc, replies, conn, hist>>
  BY DEF vars, peer, conn, hist
<1>2. Switched' <=> Switched
  BY <1>1 DEF Switched
<1> QED BY <1>1, <1>2, StutterStep, PhaseStays

\* The connection is made.
LEMMA ConnectLink ==
  ASSUME IInv, ServerInv, LinkInv, OpenConnect
  PROVE  IInv' /\ ServerInv' /\ LinkInv'
<1>1. /\ stage = "closed" /\ stage' = "linked"
      /\ UNCHANGED <<vars, broken, framed, early, received, down, shut, cpc, cparser, resp, results>>
  BY DEF OpenConnect, Client!Connect, Client!server
<1>2. IInv' /\ ServerInv' /\ UNCHANGED <<script, sent, gone, pc, replies>>
  BY <1>1, ServerStays
<1>3. Before
  BY <1>1 DEF LinkInv, Before, Waiting, Answered, Opened, Failed
<1>4. Before'
  BY <1>1, <1>2, <1>3 DEF Before
<1>5. ClientTypes'
  BY <1>1, TypesStay DEF LinkInv, ClientTypes
<1> QED BY <1>1, <1>2, <1>4, <1>5 DEF LinkInv

\* It is not, or the open packet is not sent.
LEMMA FailLink ==
  ASSUME IInv, ServerInv, LinkInv, OpenRefused \/ OpenUnsent,
         stage = "closed" => ~linked
  PROVE  IInv' /\ ServerInv' /\ LinkInv'
<1>1. /\ stage \in {"closed", "linked"} /\ stage' = "failed"
      /\ UNCHANGED <<vars, broken, framed, early, received, down, shut, linked, cparser, resp>>
      /\ stage = "linked" => shut /\ cpc = "idle" /\ cpc' = "idle"
      /\ stage = "closed" => cpc' = cpc
  BY DEF OpenRefused, OpenUnsent, temp, Client!RequestUnsent, Client!MayAsk, Client!Return,
         Client!server
<1>2. IInv' /\ ServerInv' /\ UNCHANGED <<script, sent, gone, pc, replies>>
  BY <1>1, ServerStays
<1>3. Before
  BY <1>1 DEF LinkInv, Before, Waiting, Answered, Opened, Failed
<1>4. ~linked \/ broken
  BY <1>1, <1>3, PhaseFacts DEF Before, LinkInv
<1>5. Failed'
  BY <1>1, <1>4 DEF Failed
<1>6. cpc' = cpc
  BY <1>1
<1>7. ClientTypes'
  BY <1>1, <1>6, TypesStay DEF LinkInv, ClientTypes
<1> QED BY <1>1, <1>2, <1>5, <1>7 DEF LinkInv

\* The connection breaks.
LEMMA BreakLink ==
  ASSUME IInv, ServerInv, LinkInv, Break
  PROVE  IInv' /\ ServerInv' /\ LinkInv'
<1>1. /\ PeerClose /\ broken' = TRUE
      /\ UNCHANGED <<temp, stage, received, down, framed, early>>
  BY DEF Break
<1>2. UNCHANGED <<script, sent, wire, conn, hist, replies>> /\ gone'
  BY <1>1 DEF PeerClose, hist
<1>3. IInv' /\ ServerInv'
  BY <1>1, <1>2, PeerCloseStep, PhaseStays
<1>4. LinkInv'
  BY <1>1, <1>2, LinkStays
<1> QED BY <1>3, <1>4

\* The open packet is sent.
LEMMA AskLink ==
  ASSUME IInv, ServerInv, LinkInv, OpenAsk
  PROVE  IInv' /\ ServerInv' /\ LinkInv'
<1>1. /\ stage = "linked" /\ stage' = "asking" /\ cpc' = "loop" /\ SendNext
      /\ UNCHANGED <<broken, framed, early, received, down, shut, cparser, resp, results>>
  BY DEF OpenAsk, Client!Request, Client!server
<1>2. Before
  BY <1>1 DEF LinkInv, Before, Waiting, Answered, Opened, Failed
<1>3. sent = 0 /\ Unasked /\ replies = <<>>
  BY <1>1, <1>2, PhaseFacts DEF Before, SendNext
<1>4. IInv' /\ Fresh'
  BY <1>1, <1>3, SendNextStep, AskStep
<1>5. /\ UNCHANGED <<script, gone, pc, replies>> /\ sent' = 1
  BY <1>1, <1>3 DEF SendNext, conn, hist
<1>6. ~Switched'
  BY <1>3, <1>5 DEF Switched
<1>7. Clean(<<>>) /\ Ends(<<>>, <<>>)
  <2>1. <<>> \in Seq(Symbol)
    BY EmptySeq
  <2> QED BY <2>1, CleanParts, EndsItself
<1>8. Waiting'
  BY <1>1, <1>2, <1>5, <1>6, <1>7, WaitingThen DEF Before
<1>9. ClientTypes'
  <2>1. /\ ClientTypes /\ cparser.type = "INVALID"
    BY <1>2 DEF LinkInv, Before
  <2> QED BY <1>1, <2>1, NextValues, SameCode DEF ClientTypes
<1> QED BY <1>1, <1>4, <1>5, <1>8, <1>9 DEF LinkInv, ServerInv

\* request waits.
LEMMA WaitLink ==
  ASSUME IInv, ServerInv, LinkInv, OpenWait
  PROVE  IInv' /\ ServerInv' /\ LinkInv'
<1>1. stage = "asking" /\ UNCHANGED <<vars, broken>>
  BY DEF OpenWait
<1>2. IInv' /\ ServerInv' /\ pc' = pc
  BY <1>1, ServerStays
<1>3. Waiting \/ Answered
  BY <1>1 DEF LinkInv, Before, Opened, Failed
<1>4. ClientTypes' /\ shut' = shut
  BY <1>3, WaitTypes DEF LinkInv, Waiting, Answered
<1>5. Waiting' \/ Answered'
  BY <1>3, WaitingStep, AnsweredStep DEF LinkInv
<1> QED BY <1>1, <1>2, <1>4, <1>5 DEF LinkInv

\* open returns TARO_OK only with the answer to the upgrade, and an error only when
\* it is refused or a frame was sent early.
LEMMA ReturnLink ==
  ASSUME IInv, ServerInv, LinkInv, OpenReturn
  PROVE  IInv' /\ ServerInv' /\ LinkInv'
<1> DEFINE good == results[1].ret = "OK" /\ results[1].code = 101
<1>1. /\ stage = "asking" /\ cpc = "idle"
      /\ UNCHANGED <<down, shut, broken, linked, cpc, cparser, resp, results, framed, early, received>>
  BY DEF OpenReturn, temp
<1>2. (Waiting \/ Answered) /\ ClientTypes /\ sent = 1 /\ received = <<>>
  BY <1>1 DEF LinkInv, Before, Waiting, Answered, Opened, Failed
<1>3. PICK r : results = <<r>>
  BY <1>1, <1>2 DEF Waiting, Answered, Called
<1>4. results # <<>> /\ Last(results) = results[1]
  BY <1>3 DEF Last
<1>5. IF good THEN stage' = "open" /\ UNCHANGED vars ELSE stage' = "failed" /\ (PeerClose \/ UNCHANGED vars)
  BY <1>4 DEF OpenReturn
<1>6. ClientTypes'
  BY <1>1, <1>2, TypesStay DEF ClientTypes
<1>7. CASE good
  <2>1. /\ IInv' /\ ServerInv' /\ (Switched' <=> Switched)
        /\ UNCHANGED <<script, sent, gone, pc, replies>>
    BY <1>5, <1>7, ServerStays
  <2>2. Answered
    BY <1>2, <1>4, <1>7 DEF Waiting
  <2>3. Switched /\ Ends(down, framed) /\ (script \in Quiet => framed = <<>>)
    BY <1>4, <1>7, <2>2 DEF Answered, Got
  <2>4. received \o down = down
    BY <1>2, Texts DEF ClientTypes
  <2>5. framed = <<>> => down = <<>>
    <3> SUFFICES ASSUME framed = <<>> PROVE down = <<>>
      OBVIOUS
    <3>1. PICK u \in Seq(Symbol) : <<>> = u \o down
      BY <2>3 DEF Ends
    <3> QED BY <1>2, <3>1 DEF ClientTypes, Text
  <2>6. Opened'
    BY <1>1, <1>5, <1>7, <2>1, <2>3, <2>4, <2>5, NextValues DEF Opened
  <2> QED BY <1>1, <1>6, <2>1, <2>6 DEF LinkInv
<1>8. CASE ~good
  <2>1. (PeerClose \/ UNCHANGED vars) /\ stage' = "failed"
    BY <1>5, <1>8
  <2>2. UNCHANGED <<script, sent, wire, conn, hist, pc, replies>> /\ (gone => gone')
    BY <2>1 DEF PeerClose, vars, peer, conn, hist
  <2>3. IInv' /\ ServerInv'
    <3>1. IInv'
      BY <2>1, PeerCloseStep, StutterStep
    <3> QED BY <2>2, <3>1, PhaseStays
  <2>4. broken \/ early \/ replies = <<"404">>
    <3> SUFFICES ASSUME ~early, ~broken PROVE replies = <<"404">>
      OBVIOUS
    <3>1. ~Answered
      BY <1>1, <1>4, <1>8 DEF Answered, Reading, Got, Straight
    <3>2. Waiting /\ ~Switched /\ replies # <<>>
      BY <1>2, <1>4, <3>1 DEF Waiting
    <3> QED BY <3>2, PhaseFacts
  <2>5. Failed'
    BY <1>1, <1>2, <2>1, <2>2, <2>4 DEF Failed
  <2> QED BY <1>1, <1>6, <2>2, <2>3, <2>5 DEF LinkInv
<1> QED BY <1>7, <1>8

\* The open client sends or leaves.
LEMMA FrameLink ==
  ASSUME IInv, ServerInv, LinkInv, ClientFrame
  PROVE  IInv' /\ ServerInv' /\ LinkInv'
<1>1. /\ stage = "open" /\ (SendNext \/ PeerClose)
      /\ UNCHANGED <<down, shut, broken, cpc, cparser, resp, results, framed, early, received, stage>>
  BY DEF ClientFrame, client, temp
<1>2. Opened /\ ClientTypes /\ Switched
  <2>1. ~Before /\ ~Waiting /\ ~Answered /\ ~Failed
    BY <1>1 DEF Before, Waiting, Answered, Failed
  <2> QED BY <2>1 DEF LinkInv, Opened
<1>3. UNCHANGED <<script, conn, hist, pc, replies>> /\ (Switched' <=> Switched)
  BY <1>1 DEF SendNext, PeerClose, conn, hist, Switched
<1>4. IInv' /\ ServerInv'
  <2>1. CASE SendNext
    BY <1>2, <2>1, SendNextStep, MoreStep
  <2>2. CASE PeerClose
    <3>1. UNCHANGED <<sent, wire>> /\ gone' /\ sent # 0
      BY <1>2, <2>2, PhaseFacts DEF PeerClose
    <3> QED BY <1>3, <2>2, <3>1, PeerCloseStep, PhaseStays
  <2> QED BY <1>1, <2>1, <2>2
<1>5. ClientTypes'
  BY <1>1, <1>2, TypesStay DEF ClientTypes
<1>6. Opened'
  BY <1>1, <1>2, <1>3, NextValues DEF Opened
<1> QED BY <1>1, <1>3, <1>4, <1>5, <1>6 DEF LinkInv

\* A symbol is read.
LEMMA OneRead ==
  ASSUME NEW a \in Text, NEW b \in Text, b # <<>>
  PROVE  /\ Append(a, Head(b)) \in Text /\ Tail(b) \in Text
         /\ Append(a, Head(b)) \o Tail(b) = a \o b
<1>1. Head(b) \in Symbol /\ Tail(b) \in Text /\ b = <<Head(b)>> \o Tail(b)
  BY HeadTailProperties DEF Text
<1>2. Append(a, Head(b)) = a \o <<Head(b)>> /\ <<Head(b)>> \in Text
  BY <1>1, AppendIsConcat DEF Text
<1>3. a \o (<<Head(b)>> \o Tail(b)) = (a \o <<Head(b)>>) \o Tail(b)
  BY <1>1, <1>2, MoreBehind
<1>4. a \o <<Head(b)>> \in Text
  BY <1>2, Texts
<1> QED BY <1>1, <1>2, <1>3, <1>4, Zenon

\* The open client reads.
LEMMA RecvLink ==
  ASSUME IInv, ServerInv, LinkInv, ClientRecv
  PROVE  IInv' /\ ServerInv' /\ LinkInv'
<1>1. /\ stage = "open" /\ down # <<>> /\ UNCHANGED vars
      /\ down' = Tail(down) /\ received' = Append(received, Head(down))
      /\ UNCHANGED <<shut, broken, cpc, cparser, resp, results, framed, early, stage>>
  BY DEF ClientRecv, temp
<1>2. Opened /\ ClientTypes
  BY <1>1 DEF LinkInv, Before, Waiting, Answered, Opened, Failed
<1>3. /\ IInv' /\ ServerInv' /\ (Switched' <=> Switched)
      /\ UNCHANGED <<script, sent, gone, pc, replies>>
  BY <1>1, ServerStays
<1>4. received' \in Text /\ down' \in Text /\ received' \o down' = received \o down
  BY <1>1, <1>2, OneRead DEF ClientTypes
<1>5. ClientTypes'
  BY <1>1, <1>2, <1>4, TypesStay DEF ClientTypes
<1>6. Opened'
  BY <1>1, <1>2, <1>3, <1>4, NextValues DEF Opened
<1> QED BY <1>1, <1>3, <1>5, <1>6 DEF LinkInv

\* The server closes, or nothing happens.
LEMMA ShutLink ==
  ASSUME IInv, ServerInv, LinkInv, Shut \/ OpenEnded \/ UNCHANGED allVars
  PROVE  IInv' /\ ServerInv' /\ LinkInv'
<1>1. /\ UNCHANGED <<vars, broken, down, temp, stage, framed, early, received>>
      /\ shut' = shut \/ pc = "closed"
  BY DEF Shut, OpenEnded, allVars, client
<1>2. IInv' /\ ServerInv' /\ UNCHANGED <<script, sent, gone, pc, replies>>
  BY <1>1, ServerStays
<1>3. shut' => pc' = "closed" \/ broken'
  BY <1>1, <1>2 DEF LinkInv
<1> QED BY <1>1, <1>2, <1>3, LinkStays

\* At first.
LEMMA InitWhole == OpenInit => Whole
<1> SUFFICES ASSUME OpenInit PROVE Whole
  OBVIOUS
<1>1. /\ Init /\ down = <<>> /\ shut = FALSE /\ cpc = "idle" /\ resp = NoCode /\ results = <<>>
      /\ stage = "closed" /\ linked = FALSE /\ framed = <<>> /\ early = FALSE /\ received = <<>>
  BY DEF OpenInit
<1>2. PICK g \in Garbage : cparser = NewParser(g)
  BY DEF OpenInit
<1>3. PICK h \in Garbage : parser = NewParser(h)
  BY <1>1 DEF Init
<1>4. /\ cparser.type = "INVALID" /\ cparser.pkts = <<>> /\ cparser.header = <<>>
      /\ parser.type = "INVALID" /\ parser.pkts = <<>>
  BY <1>2, <1>3 DEF NewParser, Null
<1>5. IInv
  BY <1>1, InitInvariant
<1>6. ServerInv
  BY <1>1, <1>4 DEF Init, ServerInv, Unasked
<1>7. Before
  BY <1>1, <1>4 DEF Init, Before
<1>8. ClientTypes
  <2>1. cparser \in Parser
    BY <1>2, GarbageAssumption, NewParserType
  <2> QED BY <1>1, <1>4, <2>1, Texts DEF ClientTypes
<1> QED BY <1>1, <1>5, <1>6, <1>7, <1>8 DEF Whole, LinkInv

\* All of it stays true.
LEMMA NextWhole ==
  ASSUME NoStatus
  PROVE  Whole /\ [OpenNext]_allVars => Whole'
<1> SUFFICES ASSUME Whole, [OpenNext]_allVars PROVE Whole'
  OBVIOUS
<1>1. IInv /\ ServerInv /\ LinkInv
  BY DEF Whole
<1>2. IInv' /\ ServerInv' /\ LinkInv'
  BY <1>1, ConnectLink, FailLink, AskLink, BreakLink, WaitLink, ReturnLink, FrameLink, RecvLink,
     ServerLink, PushLink, ShutLink DEF OpenNext, Whole
<1>3. stage' = "closed" => UNCHANGED <<stage, linked>>
  BY DEF OpenNext, OpenConnect, OpenRefused, OpenAsk, OpenUnsent, Break, OpenWait, OpenReturn,
         ClientFrame, ClientRecv, ServerStep, HandlerSends, Shut, OpenEnded, allVars, client, temp
<1> QED BY <1>2, <1>3 DEF Whole

\* Hence it always is.
LEMMA WholeInvariant ==
  ASSUME NoStatus
  PROVE  OpenSpec => []Whole
<1>1. Whole /\ [OpenNext]_allVars => Whole'
  BY NextWhole
<1> QED BY <1>1, InitWhole, PTL DEF OpenSpec

\* When the server switches to frames nothing is left in its parser, so it loses
\* nothing of what the client sends: the client's first packet is the open packet,
\* and it sends the next only after the answer.
THEOREM NothingIsLeft ==
  ASSUME NoStatus
  PROVE  OpenSpec => []NothingBehindUpgrade
<1>1. Whole => NothingBehindUpgrade
  BY PhaseFacts DEF Whole, NothingBehindUpgrade, Up
<1> QED BY <1>1, WholeInvariant, PTL

\* Both ends agree on what came of the handshake: open returns TARO_OK only when
\* the server has answered the upgrade and handed over one open event, and fails
\* only when the connection was not made or broke, when the upgrade is refused or
\* a frame overtook the answer.
THEOREM BothEndsAgree ==
  ASSUME NoStatus
  PROVE  OpenSpec => []OpenAgrees
<1>1. Whole => OpenAgrees
  <2> SUFFICES ASSUME Whole PROVE OpenAgrees
    OBVIOUS
  <2>1. CASE stage = "open"
    <3>1. Switched /\ (Up \/ Plain)
      <4>1. ~Before /\ ~Waiting /\ ~Answered /\ ~Failed
        BY <2>1 DEF Before, Waiting, Answered, Failed
      <4> QED BY <4>1, PhaseFacts DEF Whole, LinkInv, Opened
    <3>2. script \in WsServed => mode = "ws" /\ OneOpen
      BY <3>1 DEF Up, Plain
    <3> QED BY <2>1, <3>1, <3>2 DEF OpenAgrees, OneOpen
  <2>2. CASE stage = "failed"
    <3>1. ~Before /\ ~Waiting /\ ~Answered /\ ~Opened
      BY <2>2 DEF Before, Waiting, Answered, Opened
    <3>2. ~linked \/ broken \/ early \/ replies = <<"404">>
      BY <3>1 DEF Whole, LinkInv, Failed
    <3>3. replies = <<"404">> => \E i \in DOMAIN replies : replies[i] = "404"
      OBVIOUS
    <3> QED BY <2>2, <3>2, <3>3 DEF OpenAgrees
  <2>3. CASE stage \notin {"open", "failed"}
    BY <2>3 DEF OpenAgrees
  <2> QED BY <2>1, <2>2, <2>3
<1> QED BY <1>1, WholeInvariant, PTL

\* The frames that the server sends reach the user of the client in order and
\* without a gap, but for some at the start of the connection; when the client
\* speaks first all of them do.
THEOREM FramesAreKept ==
  ASSUME NoStatus
  PROVE  OpenSpec => []FramesKept
<1>1. Whole => FramesKept
  <2> SUFFICES ASSUME Whole, stage = "open", script \in WsServed
               PROVE  /\ IsSuffix(received \o down, framed)
                      /\ script \in Quiet => received \o down = framed
    BY DEF FramesKept
  <2>1. Opened
    <3>1. ~Before /\ ~Waiting /\ ~Answered /\ ~Failed
      BY DEF Before, Waiting, Answered, Failed
    <3> QED BY <3>1 DEF Whole, LinkInv
  <2>2. Ends(received \o down, framed) /\ (script \in Quiet => received \o down = framed)
    BY <2>1 DEF Opened
  <2>3. received \o down \in Text /\ framed \in Text
    BY Texts DEF Whole, LinkInv, ClientTypes
  <2> QED BY <2>2, <2>3, EndsIsSuffix DEF Text
<1> QED BY <1>1, WholeInvariant, PTL
=============================================================================
