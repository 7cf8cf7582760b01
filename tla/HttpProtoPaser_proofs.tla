----------------------- MODULE HttpProtoPaser_proofs ------------------------
(***************************************************************************)
(* What the operations of the parser return and what they keep, for every  *)
(* buffer: the facts the components that own a parser rest on.             *)
(***************************************************************************)
EXTENDS HttpSender, Sequence_proofs

(* The operations of PacketList. *)

\* The first position of a set of positions is 0 exactly when there is none,
\* and otherwise one of them (PacketList::search).
LEMMA FirstIsHit ==
  ASSUME NEW hits \in SUBSET (Nat \ {0})
  PROVE  /\ First(hits) \in Nat
         /\ First(hits) = 0 <=> hits = {}
         /\ First(hits) # 0 => First(hits) \in hits
<1>1. CASE hits = {}
  BY <1>1 DEF First
<1>2. CASE hits # {}
  <2>1. \E m \in hits : \A k \in hits : m =< k
    BY <1>2, LeastExists
  <2>2. Min(hits) \in hits
    BY <2>1 DEF Min
  <2> QED BY <1>2, <2>2 DEF First
<1> QED BY <1>1, <1>2

\* search returns 0 or a position where the pattern fits.
LEMMA SearchRange ==
  ASSUME NEW S, NEW s \in Seq(S), NEW pat \in Seq(S), NEW from \in Nat \ {0}
  PROVE  /\ Search(s, pat, from) \in Nat
         /\ Search(s, pat, from) # 0 =>
              /\ Search(s, pat, from) >= from
              /\ Search(s, pat, from) + Len(pat) - 1 <= Len(s)
<1> DEFINE hits == {i \in from .. (Len(s) - Len(pat) + 1) :
                      SubSeq(s, i, i + Len(pat) - 1) = pat}
<1>1. hits \in SUBSET (Nat \ {0})
  BY LenProperties
<1>2. Search(s, pat, from) = First(hits)
  BY DEF Search
<1>3. \A i \in hits : i >= from /\ i + Len(pat) - 1 <= Len(s)
  BY LenProperties
<1> QED BY <1>1, <1>2, <1>3, FirstIsHit

\* The text search returns 0 or a position that holds one of the texts.
LEMMA SearchTextHit ==
  ASSUME NEW S, NEW s \in Seq(S), NEW tags
  PROVE  /\ SearchText(s, tags) \in Nat
         /\ SearchText(s, tags) # 0 =>
              /\ SearchText(s, tags) \in 1 .. Len(s)
              /\ s[SearchText(s, tags)][1] \in tags
<1> DEFINE hits == {i \in 1 .. Len(s) : s[i][1] \in tags}
<1>1. hits \in SUBSET (Nat \ {0})
  BY LenProperties
<1>2. SearchText(s, tags) = First(hits)
  BY DEF SearchText
<1> QED BY <1>1, <1>2, FirstIsHit

\* read returns symbols of the list, and all n of them when there are n.
LEMMA ReadType ==
  ASSUME NEW S, NEW s \in Seq(S), NEW n \in Int, n <= Len(s)
  PROVE  /\ Read(s, n) \in Seq(S)
         /\ n >= 0 => Len(Read(s, n)) = n
<1>1. CASE n >= 0
  BY <1>1, SubSeqProperties, LenProperties DEF Read
<1>2. CASE n < 0
  <2>1. Read(s, n) = << >>
    BY <1>2 DEF Read
  <2> QED BY <1>2, <2>1
<1> QED BY <1>1, <1>2

\* consume leaves the symbols behind the first n.
LEMMA ConsumeType ==
  ASSUME NEW S, NEW s \in Seq(S), NEW n \in Nat
  PROVE  /\ Consume(s, n) \in Seq(S)
         /\ n <= Len(s) => Len(Consume(s, n)) = Len(s) - n
<1>1. CASE n <= Len(s)
  BY <1>1, SubSeqProperties, LenProperties DEF Consume
<1>2. CASE n > Len(s)
  <2>1. Consume(s, n) = << >>
    BY <1>2, LenProperties DEF Consume
  <2> QED BY <1>2, <2>1, LenProperties
<1> QED BY <1>1, <1>2, LenProperties
-----------------------------------------------------------------------------
(* The operations of the parser. *)

\* The value behind a key has the type of its key.
LEMMA SymbolValue ==
  ASSUME NEW s \in Symbol
  PROVE  /\ s[1] = "multipart" => s[2] \in Boundaries \cup {NoBoundary}
         /\ s[1] \in {"length", "size"} => s[2] \in Int
         /\ s[1] = "line" => s[2] \in Urls
         /\ s[1] = "status" => s[2] \in Codes
<1>1. CASE s \in {CR, LF, Upgrade, WebSocket, WsKey, Chunked, Dashes}
  BY <1>1 DEF CR, LF, Upgrade, WebSocket, WsKey, Chunked, Dashes
<1>2. CASE s \in {Frame(op) : op \in Frames}
  BY <1>2 DEF Frame, Frames
<1>3. CASE s \in {"line"} \X Urls
  BY <1>3
<1>4. CASE s \in {"status"} \X Codes
  BY <1>4
<1>5. CASE s \in {"multipart", "flag"} \X (Boundaries \cup {NoBoundary})
  BY <1>5
<1>6. CASE s \in {"length", "size"} \X Int
  BY <1>6
<1>7. CASE s \in {"data"} \X Data
  BY <1>7
<1> QED BY <1>1, <1>2, <1>3, <1>4, <1>5, <1>6, <1>7 DEF Symbol

\* The fixed patterns that the parser searches for are symbols.
LEMMA Patterns ==
  /\ HTTP_SEP \in Seq(Symbol) /\ Len(HTTP_SEP) = 2
  /\ HTTP_END_FLAG \in Seq(Symbol) /\ Len(HTTP_END_FLAG) = 4
  /\ Null \in Seq(Symbol)
  /\ \A b \in Boundaries \cup {NoBoundary} :
       /\ <<Flag(b)>> \in Seq(Symbol) /\ Len(<<Flag(b)>>) = 1
       /\ <<Flag(b)>> \o <<Dashes>> \in Seq(Symbol)
       /\ Len(<<Flag(b)>> \o <<Dashes>>) = 2
<1>1. CR \in Symbol /\ LF \in Symbol /\ Dashes \in Symbol
  BY DEF Symbol
<1>2. \A b \in Boundaries \cup {NoBoundary} : Flag(b) \in Symbol
  BY DEF Symbol, Flag
<1> QED BY <1>1, <1>2 DEF HTTP_SEP, HTTP_END_FLAG, Null

\* The constructor and reset leave a parser that knows no message.
LEMMA NewParserType ==
  ASSUME NEW g \in Int
  PROVE  NewParser(g) \in Parser
BY Patterns DEF NewParser, Parser, Types

\* reset keeps what is buffered and the chunk size, and forgets the rest.
LEMMA ResetType ==
  ASSUME NEW p \in Parser
  PROVE  /\ Reset(p) \in Parser
         /\ Reset(p).type = "INVALID"
         /\ Reset(p).boundary = NoBoundary
         /\ Reset(p).chunkBytes = p.chunkBytes
<1>1. "INVALID" \in Types /\ Null \in Seq(Symbol) /\ -1 \in Int
  BY Patterns DEF Types
<1>2. \A t \in Types, h \in Seq(Symbol), n \in Int, b \in Boundaries \cup {NoBoundary} :
        [p EXCEPT !.type = t, !.header = h, !.bodyBytes = n, !.boundary = b] \in Parser
  BY DEF Parser
<1>3. Reset(p) \in Parser
  BY <1>1, <1>2 DEF Reset
<1> QED BY <1>3 DEF Reset, Parser

\* push changes only the buffer.
LEMMA PushType ==
  ASSUME NEW p \in Parser, NEW packet \in Seq(Symbol)
  PROVE  /\ Push(p, packet) \in Parser
         /\ Push(p, packet).type = p.type
         /\ Push(p, packet).bodyBytes = p.bodyBytes
         /\ Push(p, packet).boundary = p.boundary /\ Push(p, packet).header = p.header
         /\ Push(p, packet).chunkBytes = p.chunkBytes
BY ConcatProperties DEF Push, Parser

\* A type is chosen only together with what the later calls need for it: a
\* content length that is not negative.
LEMMA ClassifyType ==
  ASSUME NEW p \in Parser
  PROVE  /\ Classify(p) \in Parser
         /\ Classify(p).chunkBytes = p.chunkBytes
         /\ Classify(p).pkts = p.pkts
         /\ Classify(p).type = "INVALID" => Classify(p) = p
         /\ p.type = "INVALID" /\ Classify(p).type = "NORMAL" =>
              Classify(p).bodyBytes >= 0
<1> DEFINE At(tags) == SearchText(p.pkts, tags)
<1>1. p.pkts \in Seq(Symbol)
  BY DEF Parser
<1>2. At({"multipart"}) # 0 => p.pkts[At({"multipart"})][2] \in Boundaries \cup {NoBoundary}
  BY <1>1, SearchTextHit, ElementOfSeq, SymbolValue
<1>3. At({"length"}) # 0 => p.pkts[At({"length"})][2] \in Int
  BY <1>1, SearchTextHit, ElementOfSeq, SymbolValue
<1> HIDE DEF At
<1>4. Types = {"NORMAL", "CHUNK", "BOUNDARY", "WEBSOCKET", "INVALID"}
  BY DEF Types
<1>5. CASE \E t \in {"WEBSOCKET", "CHUNK"} : Classify(p) = [p EXCEPT !.type = t]
  <2>1. PICK t \in {"WEBSOCKET", "CHUNK"} : Classify(p) = [p EXCEPT !.type = t]
    BY <1>5
  <2>2. t \in Types
    BY <1>4
  <2> QED BY <2>1, <2>2 DEF Parser
<1>6. CASE \E b \in Boundaries \cup {NoBoundary} :
             Classify(p) = [p EXCEPT !.type = "BOUNDARY", !.boundary = b]
  <2>1. PICK b \in Boundaries \cup {NoBoundary} :
               Classify(p) = [p EXCEPT !.type = "BOUNDARY", !.boundary = b]
    BY <1>6
  <2>2. "BOUNDARY" \in Types
    BY <1>4
  <2> QED BY <2>1, <2>2 DEF Parser
<1>7. CASE \E n \in Nat : Classify(p) = [p EXCEPT !.type = "NORMAL", !.bodyBytes = n]
  <2>1. PICK n \in Nat : Classify(p) = [p EXCEPT !.type = "NORMAL", !.bodyBytes = n]
    BY <1>7
  <2>2. "NORMAL" \in Types /\ n \in Int /\ n >= 0
    BY <1>4
  <2>3. Classify(p) \in Parser
    BY <2>1, <2>2 DEF Parser
  <2>4. /\ Classify(p).type = "NORMAL" /\ Classify(p).bodyBytes = n
        /\ Classify(p).pkts = p.pkts /\ Classify(p).chunkBytes = p.chunkBytes
    BY <2>1 DEF Parser
  <2> QED BY <2>2, <2>3, <2>4
<1>8. CASE Classify(p) = p
  BY <1>8
<1>9. \/ Classify(p) = [p EXCEPT !.type = "WEBSOCKET"]
      \/ Classify(p) = [p EXCEPT !.type = "CHUNK"]
      \/ /\ At({"multipart"}) # 0
         /\ Classify(p) = [p EXCEPT !.type = "BOUNDARY",
                                    !.boundary = p.pkts[At({"multipart"})][2]]
      \/ /\ At({"length"}) # 0
         /\ p.pkts[At({"length"})][2] >= 0
         /\ Classify(p) = [p EXCEPT !.type = "NORMAL",
                                    !.bodyBytes = p.pkts[At({"length"})][2]]
      \/ Classify(p) = [p EXCEPT !.type = "NORMAL", !.bodyBytes = 0]
      \/ Classify(p) = p
  BY DEF Classify, At
<1>10. At({"length"}) # 0 /\ p.pkts[At({"length"})][2] >= 0 =>
         p.pkts[At({"length"})][2] \in Nat
  BY <1>3
<1>11. \/ \E t \in {"WEBSOCKET", "CHUNK"} : Classify(p) = [p EXCEPT !.type = t]
       \/ \E b \in Boundaries \cup {NoBoundary} :
            Classify(p) = [p EXCEPT !.type = "BOUNDARY", !.boundary = b]
       \/ \E n \in Nat : Classify(p) = [p EXCEPT !.type = "NORMAL", !.bodyBytes = n]
       \/ Classify(p) = p
  BY <1>2, <1>9, <1>10, 0 \in Nat, Zenon
<1> QED BY <1>5, <1>6, <1>7, <1>8, <1>11

\* Taking the header changes only the header and the buffer.
LEMMA TakeHeaderType ==
  ASSUME NEW p \in Parser, NEW total \in Nat, 4 <= total, total <= Len(p.pkts)
  PROVE  /\ TakeHeader(p, total) \in Parser
         /\ TakeHeader(p, total).type = p.type
         /\ TakeHeader(p, total).bodyBytes = p.bodyBytes
         /\ TakeHeader(p, total).boundary = p.boundary
         /\ TakeHeader(p, total).chunkBytes = p.chunkBytes
<1> DEFINE head == Read(p.pkts, total - 2)
           rest == Consume(p.pkts, total)
<1>1. p.pkts \in Seq(Symbol) /\ Len(p.pkts) \in Nat
  BY LenProperties DEF Parser
<1>2. head \in Seq(Symbol)
  BY <1>1, ReadType
<1>3. rest \in Seq(Symbol)
  BY <1>1, ConsumeType
<1>4. TakeHeader(p, total) = [p EXCEPT !.header = head, !.pkts = rest]
  BY DEF TakeHeader
<1> HIDE DEF head, rest
<1> QED BY <1>2, <1>3, <1>4 DEF Parser

\* parse_header finds a type exactly when it succeeds, and gives it what the
\* later calls need; otherwise the parser still knows no message.
LEMMA ParseHeaderResult ==
  ASSUME NEW p \in Parser, p.type = "INVALID"
  PROVE  /\ ParseHeader(p).ret \in {"OK", "CONTINUE", "INVALID_ARG"}
         /\ ParseHeader(p).p \in Parser
         /\ ParseHeader(p).p.chunkBytes = p.chunkBytes
         /\ ParseHeader(p).ret = "OK" =>
              /\ ParseHeader(p).p.type # "INVALID"
              /\ ParseHeader(p).p.type = "NORMAL" => ParseHeader(p).p.bodyBytes >= 0
         /\ ParseHeader(p).ret # "OK" =>
              /\ ParseHeader(p).p.type = "INVALID"
              /\ ParseHeader(p).p.boundary = p.boundary
<1> DEFINE end == Search(p.pkts, HTTP_END_FLAG, 1)
           q   == Classify(p)
<1>1. p.pkts \in Seq(Symbol) /\ Len(p.pkts) \in Nat
  BY LenProperties DEF Parser
<1>2. end \in Nat /\ (end # 0 => end + 3 <= Len(p.pkts))
  <2>1. HTTP_END_FLAG \in Seq(Symbol) /\ Len(HTTP_END_FLAG) = 4 /\ 1 \in Nat \ {0}
    BY Patterns
  <2>2. end \in Nat /\ (end # 0 => end + Len(HTTP_END_FLAG) - 1 <= Len(p.pkts))
    BY <1>1, <2>1, SearchRange
  <2> QED BY <2>1, <2>2
<1>3. Consume(p.pkts, end + 3) \in Seq(Symbol)
  BY <1>1, <1>2, ConsumeType
<1>5. /\ q \in Parser
      /\ q.chunkBytes = p.chunkBytes
      /\ q.pkts = p.pkts
      /\ q.type = "NORMAL" => q.bodyBytes >= 0
  BY ClassifyType
<1>6. CASE end = 0
  BY <1>6 DEF ParseHeader, Result
<1>7. CASE end # 0 /\ q.type = "INVALID"
  <2> DEFINE rest == Consume(p.pkts, end + 3)
             u    == [p EXCEPT !.pkts = rest]
  <2>1. ParseHeader(p) = Result("INVALID_ARG", Null, u)
    BY <1>7 DEF ParseHeader
  <2> HIDE DEF rest
  <2>2. /\ u \in Parser /\ u.chunkBytes = p.chunkBytes
        /\ u.type = p.type /\ u.boundary = p.boundary
    BY <1>3 DEF Parser, rest
  <2> HIDE DEF u
  <2> QED BY <2>1, <2>2 DEF Result
<1>8. CASE end # 0 /\ q.type # "INVALID"
  <2> DEFINE u == TakeHeader(q, end + 3)
  <2>1. ParseHeader(p) = Result("OK", Null, u)
    BY <1>8 DEF ParseHeader
  <2> HIDE DEF end, q
  <2>2. /\ u \in Parser /\ u.chunkBytes = q.chunkBytes
        /\ u.type = q.type /\ u.bodyBytes = q.bodyBytes
    <3>1. end + 3 \in Nat /\ 4 <= end + 3 /\ end + 3 <= Len(q.pkts)
      BY <1>1, <1>2, <1>5, <1>8
    <3> QED BY <1>5, <3>1, TakeHeaderType
  <2> HIDE DEF u
  <2> QED BY <1>5, <1>8, <2>1, <2>2 DEF Result
<1> QED BY <1>6, <1>7, <1>8

\* get_content hands out symbols of the buffer and changes nothing else.
LEMMA GetContentResult ==
  ASSUME NEW p \in Parser, p.bodyBytes >= 0
  PROVE  /\ GetContent(p).ret \in {"OK", "CONTINUE"}
         /\ GetContent(p).packet \in Seq(Symbol)
         /\ GetContent(p).p \in Parser
         /\ GetContent(p).p.type = p.type /\ GetContent(p).p.header = p.header
         /\ GetContent(p).p.bodyBytes = p.bodyBytes
         /\ GetContent(p).p.boundary = p.boundary
         /\ GetContent(p).p.chunkBytes = p.chunkBytes
<1>1. /\ p.pkts \in Seq(Symbol) /\ Len(p.pkts) \in Nat
      /\ p.bodyBytes \in Nat /\ Null \in Seq(Symbol)
  BY LenProperties, Patterns DEF Parser
<1>2. CASE p.bodyBytes = 0
  BY <1>1, <1>2 DEF GetContent, Result
<1>3. CASE p.bodyBytes # 0 /\ Len(p.pkts) < p.bodyBytes
  BY <1>1, <1>3 DEF GetContent, Result
<1>4. CASE p.bodyBytes # 0 /\ ~ (Len(p.pkts) < p.bodyBytes)
  <2> DEFINE packet == Read(p.pkts, p.bodyBytes)
             rest   == Consume(p.pkts, p.bodyBytes)
             u      == [p EXCEPT !.pkts = rest]
  <2>1. p.bodyBytes \in Int /\ p.bodyBytes <= Len(p.pkts)
    BY <1>1, <1>4
  <2>2. packet \in Seq(Symbol)
    BY <1>1, <2>1, ReadType
  <2>3. rest \in Seq(Symbol)
    BY <1>1, ConsumeType
  <2>4. GetContent(p) = Result("OK", packet, u)
    BY <1>4 DEF GetContent
  <2> HIDE DEF packet, rest
  <2>5. /\ u \in Parser /\ u.chunkBytes = p.chunkBytes /\ u.type = p.type
        /\ u.boundary = p.boundary /\ u.bodyBytes = p.bodyBytes /\ u.header = p.header
    BY <2>3 DEF Parser
  <2> HIDE DEF u
  <2> QED BY <2>2, <2>4, <2>5 DEF Result
<1> QED BY <1>2, <1>3, <1>4

\* A line reads as an integer, whatever it holds.
LEMMA HexValueType ==
  ASSUME NEW line \in Seq(Symbol)
  PROVE  HexValue(line) \in Int
<1> DEFINE hits == {j \in 1 .. Len(line) : line[j] \notin {CR, LF}}
           i    == First(hits)
<1>1. Len(line) \in Nat
  BY LenProperties
<1>2. hits \in SUBSET (Nat \ {0})
  BY <1>1
<1>3. i # 0 => i \in 1 .. Len(line)
  <2> HIDE DEF hits
  <2>1. i # 0 => i \in hits
    BY <1>2, FirstIsHit
  <2> QED BY <2>1 DEF hits
<1>4. i # 0 /\ line[i][1] = "size" => line[i][2] \in Int
  BY <1>3, ElementOfSeq, SymbolValue
<1> QED BY <1>4 DEF HexValue

\* Reading a chunk size changes only the buffer and the size; a size that is
\* read is not negative.
LEMMA ReadChunkSizeResult ==
  ASSUME NEW p \in Parser
  PROVE  /\ ReadChunkSize(p).ret \in {"OK", "CONTINUE", "INVALID_ARG"}
         /\ ReadChunkSize(p).packet \in Seq(Symbol)
         /\ ReadChunkSize(p).p \in Parser
         /\ ReadChunkSize(p).p.type = p.type
         /\ ReadChunkSize(p).p.bodyBytes = p.bodyBytes
         /\ ReadChunkSize(p).p.boundary = p.boundary /\ ReadChunkSize(p).p.header = p.header
         /\ ReadChunkSize(p).ret = "OK" => ReadChunkSize(p).p.chunkBytes >= 0
<1> DEFINE end  == Search(p.pkts, HTTP_SEP, 1)
           line == Read(p.pkts, end - 1)
           size == HexValue(line)
           rest == Consume(p.pkts, end + 1)
           u    == [p EXCEPT !.pkts = rest, !.chunkBytes = size]
<1>1. p.pkts \in Seq(Symbol) /\ Len(p.pkts) \in Nat /\ Null \in Seq(Symbol)
  BY LenProperties, Patterns DEF Parser
<1>2. end \in Nat /\ (end # 0 => end + 1 <= Len(p.pkts))
  <2>1. HTTP_SEP \in Seq(Symbol) /\ Len(HTTP_SEP) = 2 /\ 1 \in Nat \ {0}
    BY Patterns
  <2>2. end \in Nat /\ (end # 0 => end + Len(HTTP_SEP) - 1 <= Len(p.pkts))
    BY <1>1, <2>1, SearchRange
  <2> QED BY <2>1, <2>2
<1>3. CASE end = 0
  BY <1>1, <1>3 DEF ReadChunkSize, Result
<1>4. CASE end = 1
  BY <1>1, <1>4 DEF ReadChunkSize, Result
<1>5. CASE end # 0 /\ end # 1
  <2>1. ReadChunkSize(p) = Result(IF size < 0 THEN "INVALID_ARG" ELSE "OK", Null, u)
    BY <1>5 DEF ReadChunkSize
  <2>2. size \in Int
    <3>1. end - 1 \in Int /\ end - 1 <= Len(p.pkts)
      BY <1>1, <1>2
    <3>2. line \in Seq(Symbol)
      BY <1>1, <3>1, ReadType
    <3> QED BY <3>2, HexValueType
  <2>3. rest \in Seq(Symbol)
    <3>1. end + 1 \in Nat
      BY <1>2
    <3> QED BY <1>1, <3>1, ConsumeType
  <2> HIDE DEF size, rest
  <2>4. /\ u \in Parser /\ u.type = p.type /\ u.bodyBytes = p.bodyBytes
        /\ u.boundary = p.boundary /\ u.header = p.header /\ u.chunkBytes = size
    BY <2>2, <2>3 DEF Parser
  <2> HIDE DEF u
  <2> QED BY <1>1, <2>1, <2>2, <2>4 DEF Result
<1> QED BY <1>3, <1>4, <1>5

\* get_chunk changes only the buffer and the size, and no size is left behind
\* when it hands out a chunk or the end.
LEMMA GetChunkResult ==
  ASSUME NEW p \in Parser
  PROVE  /\ GetChunk(p).ret \in {"OK", "CONTINUE", "INVALID_ARG"}
         /\ GetChunk(p).packet \in Seq(Symbol)
         /\ GetChunk(p).p \in Parser
         /\ GetChunk(p).p.type = p.type
         /\ GetChunk(p).p.bodyBytes = p.bodyBytes
         /\ GetChunk(p).p.boundary = p.boundary /\ GetChunk(p).p.header = p.header
         /\ GetChunk(p).ret = "OK" => GetChunk(p).p.chunkBytes = -1
<1> DEFINE r == IF p.chunkBytes < 0 THEN ReadChunkSize(p) ELSE Result("OK", Null, p)
           q == r.p
           n == q.chunkBytes
<1>1. /\ r.ret \in {"OK", "CONTINUE", "INVALID_ARG"}
      /\ r.packet \in Seq(Symbol)
      /\ q \in Parser
      /\ q.type = p.type /\ q.bodyBytes = p.bodyBytes /\ q.boundary = p.boundary /\ q.header = p.header
      /\ r.ret = "OK" => n >= 0
  <2>1. CASE p.chunkBytes < 0
    BY <2>1, ReadChunkSizeResult
  <2>2. CASE ~ (p.chunkBytes < 0)
    <3>1. p.chunkBytes \in Int /\ Null \in Seq(Symbol)
      BY Patterns DEF Parser
    <3> QED BY <2>2, <3>1 DEF Result
  <2> QED BY <2>1, <2>2
<1>2. /\ q.pkts \in Seq(Symbol) /\ Len(q.pkts) \in Nat
      /\ n \in Int /\ Null \in Seq(Symbol)
  BY <1>1, LenProperties, Patterns DEF Parser
<1>3. CASE r.ret # "OK"
  <2>1. GetChunk(p) = r
    BY <1>3 DEF GetChunk
  <2> HIDE DEF r
  <2> QED BY <1>1, <1>3, <2>1
<1>4. CASE r.ret = "OK" /\ n = 0
  <2> DEFINE rest == Consume(q.pkts, 2)
             u    == [q EXCEPT !.pkts = rest, !.chunkBytes = -1]
  <2>1. GetChunk(p) = Result("OK", Null, u)
    BY <1>4 DEF GetChunk
  <2>2. rest \in Seq(Symbol)
    BY <1>2, ConsumeType
  <2> HIDE DEF rest, r, q, n
  <2> q \in Parser /\ -1 \in Int
    BY <1>1
  <2>3. /\ u \in Parser /\ u.type = q.type /\ u.bodyBytes = q.bodyBytes
        /\ u.boundary = q.boundary /\ u.header = q.header /\ u.chunkBytes = -1
    BY <2>2 DEF Parser
  <2> HIDE DEF u
  <2> QED BY <1>1, <1>2, <2>1, <2>3 DEF Result
<1>w. CASE r.ret = "OK" /\ n # 0 /\ n > MaxChunk
  <2> DEFINE u == [q EXCEPT !.pkts = Null, !.chunkBytes = -1]
  <2>1. GetChunk(p) = Result("OK", q.pkts, u)
    BY <1>w DEF GetChunk
  <2> HIDE DEF r, q, n
  <2> q \in Parser /\ -1 \in Int
    BY <1>1
  <2>2. /\ u \in Parser /\ u.type = q.type /\ u.bodyBytes = q.bodyBytes
        /\ u.boundary = q.boundary /\ u.header = q.header /\ u.chunkBytes = -1
    BY <1>2 DEF Parser
  <2> HIDE DEF u
  <2> QED BY <1>1, <1>2, <2>1, <2>2 DEF Result
<1>5. CASE r.ret = "OK" /\ n # 0 /\ ~(n > MaxChunk) /\ n + 2 > Len(q.pkts)
  <2>1. GetChunk(p) = Result("CONTINUE", Null, q)
    BY <1>5 DEF GetChunk
  <2> HIDE DEF q
  <2> QED BY <1>1, <1>2, <2>1 DEF Result
<1>6. CASE r.ret = "OK" /\ n # 0 /\ ~(n > MaxChunk) /\ ~ (n + 2 > Len(q.pkts))
  <2> DEFINE rest   == Consume(q.pkts, n + 2)
             packet == Read(q.pkts, n)
             u      == [q EXCEPT !.pkts = rest, !.chunkBytes = -1]
  <2>1. GetChunk(p) = Result("OK", packet, u)
    BY <1>6 DEF GetChunk
  <2>2. n + 2 \in Nat /\ n <= Len(q.pkts)
    BY <1>1, <1>2, <1>6, SMTT(30)
  <2>3. rest \in Seq(Symbol)
    BY <1>2, <2>2, ConsumeType
  <2>4. packet \in Seq(Symbol)
    BY <1>2, <2>2, ReadType
  <2> HIDE DEF rest, packet, r, q, n
  <2> q \in Parser /\ -1 \in Int
    BY <1>1
  <2>5. /\ u \in Parser /\ u.type = q.type /\ u.bodyBytes = q.bodyBytes
        /\ u.boundary = q.boundary /\ u.header = q.header /\ u.chunkBytes = -1
    BY <2>3 DEF Parser
  <2> HIDE DEF u
  <2> QED BY <1>1, <2>1, <2>4, <2>5 DEF Result
<1> QED BY <1>3, <1>4, <1>5, <1>6, <1>w

\* get_boundary changes only the buffer.
LEMMA GetBoundaryResult ==
  ASSUME NEW p \in Parser
  PROVE  /\ GetBoundary(p).ret \in {"OK", "CONTINUE"}
         /\ GetBoundary(p).packet \in Seq(Symbol)
         /\ GetBoundary(p).p \in Parser
         /\ GetBoundary(p).p.type = p.type
         /\ GetBoundary(p).p.bodyBytes = p.bodyBytes
         /\ GetBoundary(p).p.boundary = p.boundary /\ GetBoundary(p).p.header = p.header
         /\ GetBoundary(p).p.chunkBytes = p.chunkBytes
<1> DEFINE flag   == <<Flag(p.boundary)>>
           end    == Search(p.pkts, flag \o <<Dashes>>, 1)
           begin  == Search(p.pkts, flag, 1)
           next   == Search(p.pkts, flag, begin + 3)
           n      == next - begin - 5
           opened == Consume(p.pkts, 3)
<1>1. p.pkts \in Seq(Symbol) /\ Len(p.pkts) \in Nat /\ Null \in Seq(Symbol)
  BY LenProperties, Patterns DEF Parser
<1>2. flag \in Seq(Symbol) /\ Len(flag) = 1
  <2>1. p.boundary \in Boundaries \cup {NoBoundary}
    BY DEF Parser
  <2> QED BY <2>1, Patterns
<1> HIDE DEF flag
<1>3. begin \in Nat
  <2>1. 1 \in Nat \ {0}
    OBVIOUS
  <2> QED BY <1>1, <1>2, <2>1, SearchRange
<1>4. next \in Nat /\ (next # 0 => next >= begin + 3 /\ next <= Len(p.pkts))
  <2> HIDE DEF begin
  <2>1. begin + 3 \in Nat \ {0}
    BY <1>3
  <2>2. next \in Nat /\ (next # 0 => next >= begin + 3 /\ next + Len(flag) - 1 <= Len(p.pkts))
    BY <1>1, <1>2, <2>1, SearchRange
  <2> QED BY <1>2, <2>2
<1>5. CASE begin = 0
  BY <1>1, <1>5 DEF GetBoundary, Result, flag
<1>w. CASE begin # 0 /\ next # 0 /\ n < 0
  <2> DEFINE u == [p EXCEPT !.pkts = Null]
  <2>1. GetBoundary(p) = Result("OK", opened, u)
    BY <1>w DEF GetBoundary, flag
  <2>2. opened \in Seq(Symbol)
    BY <1>1, ConsumeType
  <2> HIDE DEF opened
  <2>3. /\ u \in Parser /\ u.type = p.type /\ u.bodyBytes = p.bodyBytes
        /\ u.boundary = p.boundary /\ u.header = p.header /\ u.chunkBytes = p.chunkBytes
    BY <1>1 DEF Parser
  <2> HIDE DEF u
  <2> QED BY <2>1, <2>2, <2>3 DEF Result
<1>6. CASE begin # 0 /\ next # 0 /\ ~(n < 0)
  <2> DEFINE packet == Read(opened, n)
             rest   == Consume(opened, n + 2)
             u      == [p EXCEPT !.pkts = rest]
  <2>1. GetBoundary(p) = Result("OK", packet, u)
    BY <1>6 DEF GetBoundary, flag
  <2> HIDE DEF begin, next
  <2>2. 3 <= Len(p.pkts)
    BY <1>1, <1>3, <1>4, <1>6
  <2>3. opened \in Seq(Symbol) /\ Len(opened) = Len(p.pkts) - 3
    BY <1>1, <2>2, ConsumeType
  <2>4. n \in Int /\ n + 2 \in Nat /\ n <= Len(p.pkts) - 3
    BY <1>1, <1>3, <1>4, <1>6
  <2> HIDE DEF opened, n
  <2>5. packet \in Seq(Symbol)
    BY <2>3, <2>4, ReadType
  <2>6. rest \in Seq(Symbol)
    BY <2>3, <2>4, ConsumeType
  <2> HIDE DEF packet, rest
  <2>7. /\ u \in Parser /\ u.type = p.type /\ u.bodyBytes = p.bodyBytes
        /\ u.boundary = p.boundary /\ u.header = p.header /\ u.chunkBytes = p.chunkBytes
    BY <2>6 DEF Parser
  <2> HIDE DEF u
  <2> QED BY <2>1, <2>5, <2>7 DEF Result
<1>7. CASE begin # 0 /\ next = 0 /\ end # 0
  <2> DEFINE rest == Consume(p.pkts, 4)
             u    == [p EXCEPT !.pkts = rest]
  <2>1. GetBoundary(p) = Result("OK", Null, u)
    BY <1>7 DEF GetBoundary, flag
  <2>2. rest \in Seq(Symbol)
    BY <1>1, ConsumeType
  <2> HIDE DEF rest
  <2>3. /\ u \in Parser /\ u.type = p.type /\ u.bodyBytes = p.bodyBytes
        /\ u.boundary = p.boundary /\ u.header = p.header /\ u.chunkBytes = p.chunkBytes
    BY <2>2 DEF Parser
  <2> HIDE DEF u
  <2> QED BY <1>1, <2>1, <2>3 DEF Result
<1>8. CASE begin # 0 /\ next = 0 /\ end = 0
  BY <1>1, <1>8 DEF GetBoundary, Result, flag
<1> QED BY <1>5, <1>6, <1>7, <1>8, <1>w

-----------------------------------------------------------------------------
(* Parts of packets, and the symbols they are made of. *)

\* What is read and what is left are the buffer.
LEMMA ReadAndLeft ==
  ASSUME NEW s \in Seq(Symbol), NEW n \in 0 .. Len(s)
  PROVE  /\ Read(s, n) \in Seq(Symbol) /\ Len(Read(s, n)) = n
         /\ Consume(s, n) \in Seq(Symbol) /\ Len(Consume(s, n)) = Len(s) - n
         /\ \A i \in 1 .. n : Read(s, n)[i] = s[i]
         /\ \A i \in 1 .. Len(s) - n : Consume(s, n)[i] = s[n + i]
         /\ s = Read(s, n) \o Consume(s, n)
<1> DEFINE a == Read(s, n)
           b == Consume(s, n)
<1>1. PICK k \in Nat : k = Len(s)
  BY LenProperties
<1>2. n \in Nat /\ n <= k
  BY <1>1
<1>3. \A i \in 1 .. k : s[i] \in Symbol
  BY <1>1, ElementOfSeq
<1>4. a \in Seq(Symbol) /\ Len(a) = n /\ \A i \in 1 .. n : a[i] = s[i]
  <2>1. \A i \in 1 .. n : s[i] \in Symbol
    BY <1>2, <1>3
  <2> QED BY <1>2, <2>1, SubSeqProperties DEF Read
<1>5. b \in Seq(Symbol) /\ Len(b) = k - n /\ \A i \in 1 .. k - n : b[i] = s[n + i]
  <2>1. \A i \in n + 1 .. k : s[i] \in Symbol
    BY <1>2, <1>3
  <2>2. /\ SubSeq(s, n + 1, k) \in Seq(Symbol)
        /\ Len(SubSeq(s, n + 1, k)) = IF n + 1 <= k THEN k - (n + 1) + 1 ELSE 0
        /\ \A i \in 1 .. k - (n + 1) + 1 : SubSeq(s, n + 1, k)[i] = s[n + 1 + i - 1]
    <3>1. n + 1 \in Int /\ k \in Int
      BY <1>2
    <3> QED BY <2>1, <3>1, SubSeqProperties
  <2>3. b = SubSeq(s, n + 1, k)
    BY <1>1 DEF Consume
  <2>4. \A i \in 1 .. k - n : n + 1 + i - 1 = n + i
    BY <1>2
  <2> HIDE DEF b
  <2> QED BY <1>2, <2>2, <2>3, <2>4
<1> HIDE DEF a, b
<1>6. s = a \o b
  <2>1. /\ a \o b \in Seq(Symbol) /\ Len(a \o b) = k
        /\ \A i \in 1 .. k : (a \o b)[i] = IF i <= n THEN a[i] ELSE b[i - n]
    <3>1. n + (k - n) = k
      BY <1>2
    <3>2. /\ a \o b \in Seq(Symbol) /\ Len(a \o b) = Len(a) + Len(b)
          /\ \A i \in 1 .. Len(a) + Len(b) :
               (a \o b)[i] = IF i <= Len(a) THEN a[i] ELSE b[i - Len(a)]
      BY <1>4, <1>5, ConcatProperties
    <3> QED BY <1>4, <1>5, <3>1, <3>2
  <2>2. \A i \in 1 .. k : (a \o b)[i] = s[i]
    <3> SUFFICES ASSUME NEW i \in 1 .. k PROVE (a \o b)[i] = s[i]
      OBVIOUS
    <3>1. CASE i <= n
      BY <1>2, <1>4, <2>1, <3>1
    <3>2. CASE ~ (i <= n)
      <4>1. i - n \in 1 .. k - n /\ n + (i - n) = i
        BY <1>2, <3>2
      <4> QED BY <1>5, <2>1, <3>2, <4>1
    <3> QED BY <3>1, <3>2
  <2> QED BY <1>1, <2>1, <2>2, SeqEqual
<1> QED BY <1>1, <1>4, <1>5, <1>6 DEF a, b

\* It does not matter where symbols are put together first.
LEMMA Together ==
  \A a \in Seq(Symbol), b \in Seq(Symbol), c \in Seq(Symbol) : (a \o b) \o c = a \o (b \o c)
BY ConcatAssociative

\* What is put behind the same symbols is the same.
LEMMA SameBehind ==
  \A a \in Seq(Symbol), b \in Seq(Symbol), c \in Seq(Symbol) : a \o b = a \o c => b = c
BY ConcatSimplifications

\* Two ways to cut the same symbols, the first behind the second.
Twice(a, b, c, d) == a \o b = c \o d /\ Len(c) <= Len(a)

\* v is between the cuts.
Between(a, b, c, d, v) == a = c \o v /\ d = v \o b

\* There is something between the cuts.
LEMMA CutTwice ==
  ASSUME NEW a \in Seq(Symbol), NEW b \in Seq(Symbol), NEW c \in Seq(Symbol),
         NEW d \in Seq(Symbol), Twice(a, b, c, d)
  PROVE  \E v \in Seq(Symbol) : Between(a, b, c, d, v)
<1>0. a \o b = c \o d /\ Len(c) <= Len(a)
  BY DEF Twice
<1>1. PICK k \in Nat : k = Len(c)
  BY LenProperties
<1>2. PICK n \in Nat : n = Len(a)
  BY LenProperties
<1>3. k \in 0 .. Len(a)
  BY <1>0, <1>1, <1>2
<1>4. PICK e \in Seq(Symbol) : e = Read(a, k)
  BY <1>3, ReadAndLeft
<1>5. PICK v \in Seq(Symbol) : v = Consume(a, k)
  BY <1>3, ReadAndLeft
<1>6. /\ a = e \o v /\ Len(e) = k
      /\ \A i \in 1 .. k : e[i] = a[i]
  BY <1>3, <1>4, <1>5, ReadAndLeft
<1>7. e = c
  <2>1. \A i \in 1 .. k : e[i] = c[i]
    <3> SUFFICES ASSUME NEW i \in 1 .. k PROVE e[i] = c[i]
      OBVIOUS
    <3>1. (a \o b)[i] = a[i]
      <4>1. i \in 1 .. Len(a) + Len(b) /\ i <= Len(a)
        BY <1>0, <1>1, <1>2, LenProperties
      <4> QED BY <4>1, ConcatProperties
    <3>2. (c \o d)[i] = c[i]
      <4>1. i \in 1 .. Len(c) + Len(d) /\ i <= Len(c)
        BY <1>1, <1>2, LenProperties
      <4> QED BY <4>1, ConcatProperties
    <3> QED BY <1>0, <1>6, <3>1, <3>2
  <2> QED BY <1>1, <1>6, <2>1, SeqEqual
<1>8. c \o (v \o b) = c \o d
  <2>1. (c \o v) \o b = c \o (v \o b)
    BY Together, ZenonT(60)
  <2> QED BY <1>0, <1>6, <1>7, <2>1
<1>9. v \o b = d
  <2>1. v \o b \in Seq(Symbol)
    BY ConcatProperties
  <2> QED BY <1>8, <2>1, SameBehind, Zenon
<1> QED BY <1>6, <1>7, <1>9 DEF Between

\* A symbol more, and a line end more.
LEMMA OneMore ==
  ASSUME NEW s \in Seq(Symbol), NEW n \in Nat, n = Len(s), NEW a \in Symbol
  PROVE  /\ s \o <<a>> \in Seq(Symbol) /\ Len(s \o <<a>>) = n + 1
         /\ \A i \in 1 .. n : (s \o <<a>>)[i] = s[i]
         /\ (s \o <<a>>)[n + 1] = a
<1>1. <<a>> \in Seq(Symbol) /\ Len(<<a>>) = 1 /\ <<a>>[1] = a
  OBVIOUS
<1>2. /\ s \o <<a>> \in Seq(Symbol) /\ Len(s \o <<a>>) = n + 1
      /\ \A i \in 1 .. n + 1 : (s \o <<a>>)[i] = IF i <= n THEN s[i] ELSE <<a>>[i - n]
  BY <1>1, ConcatProperties
<1>3. n + 1 \in 1 .. n + 1 /\ n + 1 - n = 1 /\ ~ (n + 1 <= n)
  OBVIOUS
<1> QED BY <1>1, <1>2, <1>3

\* Two symbols more.
LEMMA TwoMore ==
  ASSUME NEW s \in Seq(Symbol), NEW n \in Nat, n = Len(s), NEW a \in Symbol, NEW b \in Symbol
  PROVE  /\ s \o <<a, b>> \in Seq(Symbol) /\ Len(s \o <<a, b>>) = n + 2
         /\ \A i \in 1 .. n : (s \o <<a, b>>)[i] = s[i]
         /\ (s \o <<a, b>>)[n + 1] = a /\ (s \o <<a, b>>)[n + 2] = b
<1>1. <<a, b>> \in Seq(Symbol) /\ Len(<<a, b>>) = 2 /\ <<a, b>>[1] = a /\ <<a, b>>[2] = b
  OBVIOUS
<1>2. /\ s \o <<a, b>> \in Seq(Symbol) /\ Len(s \o <<a, b>>) = n + 2
      /\ \A i \in 1 .. n + 2 : (s \o <<a, b>>)[i] = IF i <= n THEN s[i] ELSE <<a, b>>[i - n]
  BY <1>1, ConcatProperties
<1>3. /\ n + 1 \in 1 .. n + 2 /\ n + 1 - n = 1 /\ ~ (n + 1 <= n)
      /\ n + 2 \in 1 .. n + 2 /\ n + 2 - n = 2 /\ ~ (n + 2 <= n)
  OBVIOUS
<1> QED BY <1>1, <1>2, <1>3

\* The tags of the symbols.
LEMMA Tags ==
  /\ CR \in Symbol /\ LF \in Symbol /\ Upgrade \in Symbol /\ WebSocket \in Symbol
  /\ CR[1] = "CR" /\ LF[1] = "LF" /\ Upgrade[1] = "upgrade" /\ WebSocket[1] = "websocket"
  /\ WsKey[1] = "wskey" /\ WsKey \in Symbol
<1>1. /\ CR \in Symbol /\ LF \in Symbol /\ Upgrade \in Symbol /\ WebSocket \in Symbol
      /\ WsKey \in Symbol
  BY DEF Symbol
<1> QED BY <1>1 DEF CR, LF, Upgrade, WebSocket, WsKey

-----------------------------------------------------------------------------
(* What parse_header finds in a packet. *)

\* The first position of a set is the least one.
LEMMA FirstIsLeast ==
  ASSUME NEW hits \in SUBSET (Nat \ {0}), NEW k \in hits
  PROVE  First(hits) # 0 /\ First(hits) <= k
<1>1. \E m \in hits : \A j \in hits : m =< j
  BY LeastExists
<1>2. Min(hits) \in hits /\ \A j \in hits : Min(hits) =< j
  BY <1>1 DEF Min
<1> QED BY <1>2 DEF First

\* search finds where the pattern first fits.
LEMMA SearchFinds ==
  ASSUME NEW s \in Seq(Symbol), NEW pat \in Seq(Symbol), NEW m \in Nat, m = Len(s),
         NEW n \in Nat, n = Len(pat)
  PROVE  /\ Search(s, pat, 1) \in Nat
         /\ Search(s, pat, 1) # 0 =>
              /\ Search(s, pat, 1) + n - 1 <= m
              /\ \A k \in 1 .. n : s[Search(s, pat, 1) + k - 1] = pat[k]
         /\ \A i \in 1 .. m - n + 1 :
              (\A k \in 1 .. n : s[i + k - 1] = pat[k])
                => Search(s, pat, 1) # 0 /\ Search(s, pat, 1) <= i
<1> DEFINE hits == {i \in 1 .. (Len(s) - Len(pat) + 1) : SubSeq(s, i, i + Len(pat) - 1) = pat}
           e    == Search(s, pat, 1)
<1>1. e = First(hits)
  BY DEF Search
<1>2. hits \in SUBSET (Nat \ {0})
  OBVIOUS
<1>3. \A i \in 1 .. m : s[i] \in Symbol
  BY ElementOfSeq
<1>4. ASSUME NEW i \in 1 .. m - n + 1
      PROVE  /\ SubSeq(s, i, i + n - 1) \in Seq(Symbol)
             /\ Len(SubSeq(s, i, i + n - 1)) = n
             /\ \A k \in 1 .. n : SubSeq(s, i, i + n - 1)[k] = s[i + k - 1]
  <2>1. \A j \in i .. i + n - 1 : s[j] \in Symbol
    BY <1>3
  <2>2. i \in Int /\ i + n - 1 \in Int
    OBVIOUS
  <2>3. /\ SubSeq(s, i, i + n - 1) \in Seq(Symbol)
        /\ Len(SubSeq(s, i, i + n - 1)) = IF i <= i + n - 1 THEN (i + n - 1) - i + 1 ELSE 0
        /\ \A k \in 1 .. (i + n - 1) - i + 1 : SubSeq(s, i, i + n - 1)[k] = s[i + k - 1]
    BY <2>1, <2>2, SubSeqProperties
  <2>4. (i + n - 1) - i + 1 = n /\ (i <= i + n - 1 <=> n # 0)
    OBVIOUS
  <2> QED BY <2>3, <2>4
<1>5. hits = {i \in 1 .. m - n + 1 : SubSeq(s, i, i + n - 1) = pat}
  OBVIOUS
<1>6. e \in Nat /\ (e # 0 => e \in hits)
  BY <1>1, <1>2, FirstIsHit
<1>7. e # 0 => /\ e + n - 1 <= m
               /\ \A k \in 1 .. n : s[e + k - 1] = pat[k]
  <2> HIDE DEF e, hits
  <2> SUFFICES ASSUME e # 0
               PROVE  e + n - 1 <= m /\ \A k \in 1 .. n : s[e + k - 1] = pat[k]
    OBVIOUS
  <2>1. e \in 1 .. m - n + 1 /\ SubSeq(s, e, e + n - 1) = pat
    BY <1>5, <1>6
  <2>2. e + n - 1 <= m
    BY <2>1
  <2> QED BY <1>4, <2>1, <2>2
<1>8. ASSUME NEW i \in 1 .. m - n + 1, \A k \in 1 .. n : s[i + k - 1] = pat[k]
      PROVE  e # 0 /\ e <= i
  <2>1. SubSeq(s, i, i + n - 1) = pat
    BY <1>4, <1>8, SeqEqual
  <2> HIDE DEF e
  <2>2. i \in hits
    BY <1>5, <2>1
  <2> HIDE DEF hits
  <2> QED BY <1>1, <1>2, <2>2, FirstIsLeast
<1> HIDE DEF e, hits
<1>9. \A i \in 1 .. m - n + 1 : (\A k \in 1 .. n : s[i + k - 1] = pat[k]) => e # 0 /\ e <= i
  BY <1>8
<1> QED BY <1>6, <1>7, <1>9 DEF e

\* The end flag is at e.
EndAt(s, e) == s[e] = CR /\ s[e + 1] = LF /\ s[e + 2] = CR /\ s[e + 3] = LF

\* Its symbols.
LEMMA EndFlag ==
  /\ HTTP_END_FLAG \in Seq(Symbol) /\ Len(HTTP_END_FLAG) = 4
  /\ HTTP_END_FLAG[1] = CR /\ HTTP_END_FLAG[2] = LF
  /\ HTTP_END_FLAG[3] = CR /\ HTTP_END_FLAG[4] = LF
<1>1. CR \in Symbol /\ LF \in Symbol
  BY Tags
<1> QED BY <1>1 DEF HTTP_END_FLAG

\* It is found where it first is.
LEMMA EndFound ==
  ASSUME NEW s \in Seq(Symbol), NEW m \in Nat, m = Len(s)
  PROVE  \E e \in Nat :
           /\ e = Search(s, HTTP_END_FLAG, 1)
           /\ e # 0 => e + 3 <= m /\ EndAt(s, e)
           /\ \A i \in Nat \ {0} : i + 3 <= m /\ EndAt(s, i) => e # 0 /\ e <= i
<1>1. PICK f \in Seq(Symbol) : /\ f = HTTP_END_FLAG /\ Len(f) = 4
                               /\ f[1] = CR /\ f[2] = LF /\ f[3] = CR /\ f[4] = LF
  BY EndFlag, Zenon
<1>2. 4 \in Nat /\ 4 = Len(f)
  BY <1>1
<1>3. ASSUME NEW n \in Nat, n = Len(f)
      PROVE  /\ Search(s, f, 1) \in Nat
             /\ Search(s, f, 1) # 0 =>
                  /\ Search(s, f, 1) + n - 1 <= m
                  /\ \A k \in 1 .. n : s[Search(s, f, 1) + k - 1] = f[k]
             /\ \A i \in 1 .. m - n + 1 :
                  (\A k \in 1 .. n : s[i + k - 1] = f[k])
                    => Search(s, f, 1) # 0 /\ Search(s, f, 1) <= i
  BY <1>3, SearchFinds, ZenonT(60)
<1>4. PICK e \in Nat :
        /\ e = Search(s, f, 1)
        /\ e # 0 => e + 4 - 1 <= m /\ \A k \in 1 .. 4 : s[e + k - 1] = f[k]
        /\ \A i \in 1 .. m - 4 + 1 : (\A k \in 1 .. 4 : s[i + k - 1] = f[k]) => e # 0 /\ e <= i
  BY <1>2, <1>3
<1>5. ASSUME NEW i \in Nat \ {0}
      PROVE  (\A k \in 1 .. 4 : s[i + k - 1] = f[k]) <=> EndAt(s, i)
  <2>1. /\ i + 1 - 1 = i /\ i + 2 - 1 = i + 1 /\ i + 3 - 1 = i + 2 /\ i + 4 - 1 = i + 3
        /\ \A k \in 1 .. 4 : k = 1 \/ k = 2 \/ k = 3 \/ k = 4
        /\ 1 \in 1 .. 4 /\ 2 \in 1 .. 4 /\ 3 \in 1 .. 4 /\ 4 \in 1 .. 4
    OBVIOUS
  <2> QED BY <1>1, <2>1 DEF EndAt
<1>6. e # 0 => e + 3 <= m /\ EndAt(s, e)
  BY <1>4, <1>5
<1>7. ASSUME NEW i \in Nat \ {0}, i + 3 <= m, EndAt(s, i)
      PROVE  e # 0 /\ e <= i
  <2>1. i \in 1 .. m - 4 + 1
    BY <1>7
  <2> QED BY <1>4, <1>5, <1>7, <2>1
<1> QED BY <1>1, <1>4, <1>6, <1>7

\* A text that is there is found.
LEMMA TextFound ==
  ASSUME NEW s \in Seq(Symbol), NEW tags, NEW i \in 1 .. Len(s), s[i][1] \in tags
  PROVE  SearchText(s, tags) # 0
<1> DEFINE hits == {j \in 1 .. Len(s) : s[j][1] \in tags}
<1>1. hits \in SUBSET (Nat \ {0}) /\ i \in hits
  BY LenProperties
<1>2. SearchText(s, tags) = First(hits)
  BY DEF SearchText
<1> HIDE DEF hits
<1> QED BY <1>1, <1>2, FirstIsLeast

\* Taking the header, member by member.
LEMMA TakeHeaderIs ==
  ASSUME NEW p \in Parser, NEW total
  PROVE  TakeHeader(p, total) =
           [p EXCEPT !.header = Read(p.pkts, total - 2), !.pkts = Consume(p.pkts, total)]
<1> DEFINE head == Read(p.pkts, total - 2)
           rest == Consume(p.pkts, total)
<1>1. TakeHeader(p, total) = [p EXCEPT !.header = head, !.pkts = rest]
  BY DEF TakeHeader
<1> QED BY <1>1

\* What parse_header takes from the buffer.
LEMMA HeaderTaken ==
  ASSUME NEW p \in Parser, p.type = "INVALID",
         NEW e \in Nat, e = Search(p.pkts, HTTP_END_FLAG, 1)
  PROVE  /\ e = 0 => ParseHeader(p).ret = "CONTINUE" /\ ParseHeader(p).p = p
         /\ e # 0 => ParseHeader(p).p.pkts = Consume(p.pkts, e + 3)
         /\ e # 0 /\ Classify(p).type = "INVALID" =>
              /\ ParseHeader(p).ret = "INVALID_ARG" /\ ParseHeader(p).p.type = "INVALID"
              /\ ParseHeader(p).p.header = p.header
         /\ e # 0 /\ Classify(p).type # "INVALID" =>
              /\ ParseHeader(p).ret = "OK" /\ ParseHeader(p).p.type = Classify(p).type
              /\ ParseHeader(p).p.header = Read(p.pkts, e + 1)
<1> DEFINE q == Classify(p)
           h == ParseHeader(p)
<1>1. p.pkts \in Seq(Symbol) /\ Len(p.pkts) \in Nat
  BY LenProperties DEF Parser
<1>2. q \in Parser /\ q.pkts = p.pkts
  BY ClassifyType
<1> HIDE DEF q
<1>3. CASE e = 0
  <2>1. h = Result("CONTINUE", Null, p)
    BY <1>3 DEF ParseHeader
  <2> QED BY <1>3, <2>1 DEF Result
<1>4. CASE e # 0 /\ q.type = "INVALID"
  <2> DEFINE rest == Consume(p.pkts, e + 3)
             u    == [p EXCEPT !.pkts = rest]
  <2>1. h = Result("INVALID_ARG", Null, u)
    BY <1>4 DEF ParseHeader, q
  <2> HIDE DEF rest
  <2>2. u.pkts = rest /\ u.type = p.type /\ u.header = p.header
    BY DEF Parser
  <2> HIDE DEF u
  <2> QED BY <1>4, <2>1, <2>2 DEF Result, rest, q
<1>5. CASE e # 0 /\ q.type # "INVALID"
  <2> DEFINE rest == Consume(p.pkts, e + 3)
             head == Read(p.pkts, e + 1)
             u    == [q EXCEPT !.header = head, !.pkts = rest]
  <2>1. TakeHeader(q, e + 3) = u
    <3>1. PICK total \in Nat : total = e + 3 /\ total - 2 = e + 1
      OBVIOUS
    <3>2. TakeHeader(q, total) =
            [q EXCEPT !.header = Read(q.pkts, total - 2), !.pkts = Consume(q.pkts, total)]
      BY <1>2, TakeHeaderIs
    <3>3. Read(q.pkts, total - 2) = head /\ Consume(q.pkts, total) = rest
      BY <1>2, <3>1
    <3> HIDE DEF head, rest
    <3> QED BY <3>1, <3>2, <3>3
  <2>2. h = Result("OK", Null, u)
    BY <1>5, <2>1 DEF ParseHeader, q
  <2> HIDE DEF rest, head
  <2>3. u.pkts = rest /\ u.type = q.type /\ u.header = head
    BY <1>2 DEF Parser
  <2> HIDE DEF u
  <2> QED BY <1>5, <2>2, <2>3 DEF Result, rest, head, q
<1> QED BY <1>3, <1>4, <1>5 DEF q

\* A buffer that holds both words is that of an upgrade.
LEMMA UpgradeKnown ==
  ASSUME NEW p \in Parser, NEW i \in 1 .. Len(p.pkts), p.pkts[i][1] = "upgrade",
         NEW j \in 1 .. Len(p.pkts), p.pkts[j][1] = "websocket"
  PROVE  Classify(p).type = "WEBSOCKET"
<1>1. p.pkts \in Seq(Symbol)
  BY DEF Parser
<1>2. SearchText(p.pkts, {"upgrade"}) # 0
  BY <1>1, TextFound
<1>3. SearchText(p.pkts, {"websocket", "wskey"}) # 0
  BY <1>1, TextFound
<1>4. Classify(p) = [p EXCEPT !.type = "WEBSOCKET"]
  BY <1>2, <1>3 DEF Classify
<1> QED BY <1>4 DEF Parser

-----------------------------------------------------------------------------
(* What stands in front of a buffer, and what a header line is. *)

\* The pattern, of n symbols, fits at i.
FitsAt(s, pat, n, i) == \A k \in 1 .. n : s[i + k - 1] = pat[k]

\* search finds where the pattern first fits at or behind a position.
LEMMA SearchFrom ==
  ASSUME NEW s \in Seq(Symbol), NEW pat \in Seq(Symbol), NEW m \in Nat, m = Len(s),
         NEW n \in Nat, n = Len(pat), NEW from \in Nat \ {0}
  PROVE  /\ Search(s, pat, from) \in Nat
         /\ Search(s, pat, from) # 0 => /\ from <= Search(s, pat, from)
                                       /\ Search(s, pat, from) + n - 1 <= m
                                       /\ FitsAt(s, pat, n, Search(s, pat, from))
         /\ \A i \in Nat : from <= i /\ i + n - 1 <= m /\ FitsAt(s, pat, n, i)
                             => Search(s, pat, from) # 0 /\ Search(s, pat, from) <= i
<1> DEFINE hits == {i \in from .. (Len(s) - Len(pat) + 1) : SubSeq(s, i, i + Len(pat) - 1) = pat}
           e    == Search(s, pat, from)
<1>1. e = First(hits)
  BY DEF Search
<1>2. hits \in SUBSET (Nat \ {0})
  OBVIOUS
<1>3. \A i \in 1 .. m : s[i] \in Symbol
  BY ElementOfSeq
<1>4. ASSUME NEW i \in from .. m - n + 1
      PROVE  /\ SubSeq(s, i, i + n - 1) \in Seq(Symbol)
             /\ Len(SubSeq(s, i, i + n - 1)) = n
             /\ \A k \in 1 .. n : SubSeq(s, i, i + n - 1)[k] = s[i + k - 1]
  <2>1. \A j \in i .. i + n - 1 : s[j] \in Symbol
    BY <1>3
  <2>2. i \in Int /\ i + n - 1 \in Int
    OBVIOUS
  <2>3. /\ SubSeq(s, i, i + n - 1) \in Seq(Symbol)
        /\ Len(SubSeq(s, i, i + n - 1)) = IF i <= i + n - 1 THEN (i + n - 1) - i + 1 ELSE 0
        /\ \A k \in 1 .. (i + n - 1) - i + 1 : SubSeq(s, i, i + n - 1)[k] = s[i + k - 1]
    BY <2>1, <2>2, SubSeqProperties
  <2>4. (i + n - 1) - i + 1 = n /\ (i <= i + n - 1 <=> n # 0)
    OBVIOUS
  <2> QED BY <2>3, <2>4
<1>5. hits = {i \in from .. m - n + 1 : SubSeq(s, i, i + n - 1) = pat}
  OBVIOUS
<1>6. e \in Nat /\ (e # 0 => e \in hits)
  BY <1>1, <1>2, FirstIsHit
<1>7. e # 0 => /\ from <= e /\ e + n - 1 <= m
               /\ FitsAt(s, pat, n, e)
  <2> HIDE DEF e, hits
  <2> SUFFICES ASSUME e # 0
               PROVE  /\ from <= e /\ e + n - 1 <= m
                      /\ FitsAt(s, pat, n, e)
    OBVIOUS
  <2>1. e \in from .. m - n + 1 /\ SubSeq(s, e, e + n - 1) = pat
    BY <1>5, <1>6
  <2>2. from <= e /\ e + n - 1 <= m
    BY <2>1
  <2>3. \A k \in 1 .. n : s[e + k - 1] = pat[k]
    BY <1>4, <2>1
  <2> QED BY <2>2, <2>3 DEF FitsAt
<1>8. ASSUME NEW i \in Nat, from <= i, i + n - 1 <= m, FitsAt(s, pat, n, i)
      PROVE  e # 0 /\ e <= i
  <2>0. i \in from .. m - n + 1
    BY <1>8
  <2>1. SubSeq(s, i, i + n - 1) = pat
    BY <1>4, <1>8, <2>0, SeqEqual, SMTT(30) DEF FitsAt
  <2> HIDE DEF e
  <2>2. i \in hits
    BY <1>5, <2>0, <2>1
  <2> HIDE DEF hits
  <2> QED BY <1>1, <1>2, <2>2, FirstIsLeast
<1> HIDE DEF e, hits
<1>9. \A i \in Nat : from <= i /\ i + n - 1 <= m /\ FitsAt(s, pat, n, i) => e # 0 /\ e <= i
  BY <1>8
<1> QED BY <1>6, <1>7, <1>9 DEF e

\* The first m symbols of t are those of s.
FrontIs(s, m, t) == m <= Len(t) /\ \A i \in 1 .. m : s[i] = t[i]

\* What a connection has received is the front of what it has received and will receive.
LEMMA FrontOf ==
  ASSUME NEW s \in Seq(Symbol), NEW w \in Seq(Symbol)
  PROVE  /\ s \o w \in Seq(Symbol) /\ Len(s \o w) = Len(s) + Len(w)
         /\ FrontIs(s, Len(s), s \o w)
<1>1. Len(s) \in Nat /\ Len(w) \in Nat
  BY LenProperties
<1>2. /\ s \o w \in Seq(Symbol) /\ Len(s \o w) = Len(s) + Len(w)
      /\ \A i \in 1 .. Len(s) + Len(w) : (s \o w)[i] = IF i <= Len(s) THEN s[i] ELSE w[i - Len(s)]
  BY ConcatProperties
<1>3. \A i \in 1 .. Len(s) : (s \o w)[i] = s[i]
  BY <1>1, <1>2
<1> QED BY <1>1, <1>2, <1>3 DEF FrontIs

\* It fits nowhere before e.
NotBefore(t, pat, n, from, e) == \A i \in from .. e - 1 : ~FitsAt(t, pat, n, i)

\* What is searched in s is found where it first fits in t, if s is that long.
LEMMA SearchFront ==
  ASSUME NEW s \in Seq(Symbol), NEW m \in Nat, NEW t \in Seq(Symbol), NEW pat \in Seq(Symbol),
         NEW n \in Nat \ {0}, NEW from \in Nat \ {0}, NEW e \in Nat,
         m = Len(s), n = Len(pat), FrontIs(s, m, t), from <= e, NotBefore(t, pat, n, from, e)
  PROVE  /\ Search(s, pat, from) \in Nat
         /\ FitsAt(t, pat, n, e) /\ e + n - 1 <= m => Search(s, pat, from) = e
         /\ FitsAt(t, pat, n, e) /\ ~(e + n - 1 <= m) => Search(s, pat, from) = 0
         /\ m < e => Search(s, pat, from) = 0
<1> DEFINE f == Search(s, pat, from)
<1>1. /\ f \in Nat
      /\ f # 0 => from <= f /\ f + n - 1 <= m /\ FitsAt(s, pat, n, f)
      /\ \A i \in Nat : from <= i /\ i + n - 1 <= m /\ FitsAt(s, pat, n, i) => f # 0 /\ f <= i
  <2>1. n \in Nat
    OBVIOUS
  <2> QED BY <2>1, SearchFrom
<1> HIDE DEF f
<1>2. ASSUME NEW i \in Nat \ {0}, i + n - 1 <= m
      PROVE  FitsAt(s, pat, n, i) <=> FitsAt(t, pat, n, i)
  <2>1. \A k \in 1 .. n : i + k - 1 \in 1 .. m
    BY <1>2
  <2>2. \A k \in 1 .. n : s[i + k - 1] = t[i + k - 1]
    BY <2>1 DEF FrontIs
  <2> QED BY <2>2 DEF FitsAt
<1>3. f # 0 => e <= f /\ f + n - 1 <= m
  <2> SUFFICES ASSUME f # 0 PROVE e <= f /\ f + n - 1 <= m
    OBVIOUS
  <2>1. from <= f /\ f + n - 1 <= m /\ FitsAt(t, pat, n, f)
    BY <1>1, <1>2
  <2>2. ~(f \in from .. e - 1)
    BY <2>1 DEF NotBefore
  <2> QED BY <1>1, <2>1, <2>2
<1>4. FitsAt(t, pat, n, e) /\ e + n - 1 <= m => f # 0 /\ f <= e
  BY <1>1, <1>2
<1> QED BY <1>1, <1>3, <1>4 DEF f

\* s and then w are t.
Makes(s, w, t) == s \o w = t

\* What is behind a in s \o w, once s holds all of a.
LEMMA FrontLeft ==
  ASSUME NEW s \in Seq(Symbol), NEW w \in Seq(Symbol), NEW a \in Seq(Symbol), NEW b \in Seq(Symbol),
         NEW n \in Nat, n = Len(a), Twice(s, w, a, b)
  PROVE  /\ n \in 0 .. Len(s)
         /\ Read(s, n) = a
         /\ Consume(s, n) \in Seq(Symbol)
         /\ Makes(Consume(s, n), w, b)
<1>1. PICK v \in Seq(Symbol) : Between(s, w, a, b, v)
  BY CutTwice
<1>2. s = a \o v /\ b = v \o w
  BY <1>1 DEF Between
<1>3. n \in 0 .. Len(s)
  BY LenProperties DEF Twice
<1>4. PICK m \in Nat : m = Len(s)
  BY LenProperties
<1>5. PICK r \in Seq(Symbol) : r = Read(s, n) /\ Len(r) = n /\ \A i \in 1 .. n : r[i] = s[i]
  BY <1>3, ReadAndLeft
<1>6. PICK c \in Seq(Symbol) : c = Consume(s, n) /\ s = r \o c
  BY <1>3, <1>5, ReadAndLeft
<1>7. r = a
  <2>1. FrontIs(a, Len(a), a \o v)
    BY FrontOf
  <2>2. \A i \in 1 .. n : a[i] = r[i]
    BY <1>2, <1>5, <2>1, Zenon DEF FrontIs
  <2> QED BY <1>5, <2>2, SeqEqual
<1>8. c = v
  BY <1>2, <1>6, <1>7, SameBehind, Zenon
<1>9. Consume(s, n) \in Seq(Symbol)
  BY <1>6
<1>10. Makes(Consume(s, n), w, b)
  BY <1>2, <1>6, <1>8, Zenon DEF Makes
<1>11. Read(s, n) = a
  BY <1>5, <1>7
<1> QED BY <1>3, <1>9, <1>10, <1>11

\* What is received is in front of what is not.
LEMMA ReceivedSame ==
  ASSUME NEW p \in Parser, NEW w \in Seq(Symbol), NEW n \in 0 .. Len(w)
  PROVE  Push(p, Read(w, n)).pkts \o Consume(w, n) = p.pkts \o w
<1>1. PICK a \in Seq(Symbol) : a = Read(w, n)
  BY ReadAndLeft
<1>2. PICK b \in Seq(Symbol) : b = Consume(w, n)
  BY ReadAndLeft
<1>3. w = a \o b
  BY <1>1, <1>2, ReadAndLeft, Zenon
<1>4. p.pkts \in Seq(Symbol)
  BY DEF Parser
<1>5. Push(p, a).pkts = p.pkts \o a
  BY DEF Push, Parser
<1>6. (p.pkts \o a) \o b = p.pkts \o (a \o b)
  BY <1>4, Together, Zenon
<1> QED BY <1>1, <1>2, <1>3, <1>5, <1>6, Zenon

\* No symbol has one of the tags, so no text is found;
LEMMA NoText ==
  ASSUME NEW s \in Seq(Symbol), NEW tags, \A i \in 1 .. Len(s) : s[i][1] \notin tags
  PROVE  SearchText(s, tags) = 0
<1>1. SearchText(s, tags) # 0 => /\ SearchText(s, tags) \in 1 .. Len(s)
                                /\ s[SearchText(s, tags)][1] \in tags
  BY SearchTextHit
<1> QED BY <1>1

\* only the symbol at j has one of them, so it is found.
LEMMA OnlyText ==
  ASSUME NEW s \in Seq(Symbol), NEW tags, NEW j \in 1 .. Len(s), s[j][1] \in tags,
         \A i \in 1 .. Len(s) : i # j => s[i][1] \notin tags
  PROVE  SearchText(s, tags) = j
<1>1. SearchText(s, tags) # 0
  BY TextFound
<1>2. SearchText(s, tags) # 0 => /\ SearchText(s, tags) \in 1 .. Len(s)
                                /\ s[SearchText(s, tags)][1] \in tags
  BY SearchTextHit
<1> QED BY <1>1, <1>2

\* The tags that parse_header looks for.
HeadTags == {"upgrade", "websocket", "wskey", "chunked", "multipart", "length"}

\* A buffer with no field is that of a request without a body.
LEMMA ClassifyNone ==
  ASSUME NEW p \in Parser, \A i \in 1 .. Len(p.pkts) : p.pkts[i][1] \notin HeadTags
  PROVE  Classify(p).type = "NORMAL" /\ Classify(p).bodyBytes = 0
<1>1. p.pkts \in Seq(Symbol)
  BY DEF Parser
<1>2. ASSUME NEW tags, tags \subseteq HeadTags
      PROVE  SearchText(p.pkts, tags) = 0
  BY <1>1, <1>2, NoText
<1>3. /\ SearchText(p.pkts, {"upgrade"}) = 0 /\ SearchText(p.pkts, {"chunked"}) = 0
      /\ SearchText(p.pkts, {"multipart"}) = 0 /\ SearchText(p.pkts, {"length"}) = 0
  BY <1>2 DEF HeadTags
<1>4. Classify(p) = [p EXCEPT !.type = "NORMAL", !.bodyBytes = 0]
  BY <1>3 DEF Classify
<1> QED BY <1>4 DEF Parser

\* A buffer with one field, in a line, is of the kind that the field says.
LEMMA ClassifyOnly ==
  ASSUME NEW p \in Parser, NEW j \in 1 .. Len(p.pkts), Search(p.pkts, HTTP_SEP, j) # 0,
         \A i \in 1 .. Len(p.pkts) : i # j => p.pkts[i][1] \notin HeadTags
  PROVE  /\ p.pkts[j] = Chunked => Classify(p).type = "CHUNK"
         /\ \A b : p.pkts[j] = Multipart(b) /\ b # NoBoundary =>
              Classify(p).type = "BOUNDARY" /\ Classify(p).boundary = b
         /\ \A n \in Nat : p.pkts[j] = ContentLen(n) =>
              Classify(p).type = "NORMAL" /\ Classify(p).bodyBytes = n
<1>1. p.pkts \in Seq(Symbol)
  BY DEF Parser
<1>2. ASSUME NEW tags, tags \subseteq HeadTags, p.pkts[j][1] \notin tags
      PROVE  SearchText(p.pkts, tags) = 0
  <2>1. \A i \in 1 .. Len(p.pkts) : p.pkts[i][1] \notin tags
    BY <1>2
  <2> QED BY <1>1, <2>1, NoText
<1>3. ASSUME NEW tags, tags \subseteq HeadTags, p.pkts[j][1] \in tags
      PROVE  SearchText(p.pkts, tags) = j
  <2>1. \A i \in 1 .. Len(p.pkts) : i # j => p.pkts[i][1] \notin tags
    BY <1>3
  <2> QED BY <1>1, <1>3, <2>1, OnlyText
<1>4. j # 0 /\ j \in Nat
  OBVIOUS
<1>5. ASSUME p.pkts[j] = Chunked
      PROVE  Classify(p).type = "CHUNK"
  <2>1. p.pkts[j][1] = "chunked"
    BY <1>5 DEF Chunked
  <2>2. SearchText(p.pkts, {"upgrade"}) = 0
    BY <1>2, <2>1 DEF HeadTags
  <2>3. SearchText(p.pkts, {"chunked"}) = j
    BY <1>3, <2>1 DEF HeadTags
  <2>4. Classify(p) = [p EXCEPT !.type = "CHUNK"]
    BY <1>4, <2>2, <2>3 DEF Classify
  <2> QED BY <2>4 DEF Parser
<1>6. ASSUME NEW b, p.pkts[j] = Multipart(b), b # NoBoundary
      PROVE  Classify(p).type = "BOUNDARY" /\ Classify(p).boundary = b
  <2>1. p.pkts[j][1] = "multipart" /\ p.pkts[j][2] = b
    BY <1>6 DEF Multipart
  <2>2. SearchText(p.pkts, {"upgrade"}) = 0
    BY <1>2, <2>1 DEF HeadTags
  <2>3. SearchText(p.pkts, {"chunked"}) = 0
    BY <1>2, <2>1 DEF HeadTags
  <2>4. SearchText(p.pkts, {"multipart"}) = j
    BY <1>3, <2>1 DEF HeadTags
  <2>5. Classify(p) = [p EXCEPT !.type = "BOUNDARY", !.boundary = b]
    BY <1>4, <1>6, <2>1, <2>2, <2>3, <2>4 DEF Classify
  <2> QED BY <2>5 DEF Parser
<1>7. ASSUME NEW n \in Nat, p.pkts[j] = ContentLen(n)
      PROVE  Classify(p).type = "NORMAL" /\ Classify(p).bodyBytes = n
  <2>1. p.pkts[j][1] = "length" /\ p.pkts[j][2] = n /\ n >= 0
    BY <1>7 DEF ContentLen
  <2>2. SearchText(p.pkts, {"upgrade"}) = 0
    BY <1>2, <2>1 DEF HeadTags
  <2>3. SearchText(p.pkts, {"chunked"}) = 0
    BY <1>2, <2>1 DEF HeadTags
  <2>4. SearchText(p.pkts, {"multipart"}) = 0
    BY <1>2, <2>1 DEF HeadTags
  <2>5. SearchText(p.pkts, {"length"}) = j
    BY <1>3, <2>1 DEF HeadTags
  <2>6. Classify(p) = [p EXCEPT !.type = "NORMAL", !.bodyBytes = n]
    BY <1>4, <2>1, <2>2, <2>3, <2>4, <2>5 DEF Classify
  <2> QED BY <2>6 DEF Parser
<1> QED BY <1>5, <1>6, <1>7

\* The first line end is at e.
SepFirst(t, e) ==
  /\ t[e] = CR /\ t[e + 1] = LF
  /\ \A i \in 1 .. e - 1 : ~(t[i] = CR /\ t[i + 1] = LF)

\* It is found there, once it has arrived.
LEMMA SepFound ==
  ASSUME NEW s \in Seq(Symbol), NEW m \in Nat, m = Len(s), NEW t \in Seq(Symbol), FrontIs(s, m, t),
         NEW e \in Nat \ {0}, SepFirst(t, e)
  PROVE  /\ e + 1 <= m => Search(s, HTTP_SEP, 1) = e
         /\ ~(e + 1 <= m) => Search(s, HTTP_SEP, 1) = 0
<1>1. HTTP_SEP \in Seq(Symbol) /\ Len(HTTP_SEP) = 2
  BY Patterns
<1>2. ASSUME NEW i \in Nat
      PROVE  FitsAt(t, HTTP_SEP, 2, i) <=> t[i] = CR /\ t[i + 1] = LF
  <2>1. 1 .. 2 = {1, 2} /\ i + 1 - 1 = i /\ i + 2 - 1 = i + 1
    OBVIOUS
  <2>2. HTTP_SEP[1] = CR /\ HTTP_SEP[2] = LF
    BY DEF HTTP_SEP
  <2> QED BY <2>1, <2>2 DEF FitsAt
<1>3. PICK n \in Nat \ {0} : n = 2 /\ n = Len(HTTP_SEP)
  BY <1>1
<1>4. PICK from \in Nat \ {0} : from = 1
  OBVIOUS
<1>5. e \in Nat /\ from <= e /\ NotBefore(t, HTTP_SEP, n, from, e) /\ FitsAt(t, HTTP_SEP, n, e)
  BY <1>2, <1>3, <1>4 DEF SepFirst, NotBefore
<1>6. /\ e + n - 1 <= m => Search(s, HTTP_SEP, from) = e
      /\ ~(e + n - 1 <= m) => Search(s, HTTP_SEP, from) = 0
  <2>1. HTTP_SEP \in Seq(Symbol)
    BY <1>1
  <2>2. n = Len(HTTP_SEP)
    BY <1>3
  <2> QED BY <1>5, <2>1, <2>2, SearchFront
<1> QED BY <1>3, <1>4, <1>6

\* The first lines of requests and responses.
FirstLines == ({"line"} \X Urls) \cup ({"status"} \X Codes)

\* They are symbols of their own.
LEMMA FirstLineTags ==
  ASSUME NEW first \in FirstLines
  PROVE  /\ first \in Symbol /\ first # CR /\ first # LF
         /\ first[1] \notin {"data", "CR", "LF"} /\ first[1] \notin HeadTags
<1>1. first \in Symbol
  BY DEF FirstLines, Symbol
<1>2. first[1] \in {"line", "status"}
  BY DEF FirstLines
<1>3. CR[1] = "CR" /\ LF[1] = "LF"
  BY DEF CR, LF
<1> QED BY <1>1, <1>2, <1>3 DEF HeadTags

\* A header of l symbols with this first line is in t behind c symbols, which are the rest of the
\* line end of the message before.
HeadAt(t, c, l, first) ==
  /\ c \in {0, 1, 2} /\ l \in Nat /\ 5 <= l /\ c + l <= Len(t) /\ first \in FirstLines
  /\ c = 1 => t[1] = LF
  /\ c = 2 => t[1] = CR /\ t[2] = LF
  /\ t[c + 1] = first /\ t[c + 2] = CR /\ t[c + 3] = LF
  /\ EndAt(t, c + l - 3)
  /\ \A i \in 1 .. c + l - 4 : ~EndAt(t, i)

\* parse_header waits for all of it, and takes it.
LEMMA ParseAt ==
  ASSUME NEW p \in Parser, p.type = "INVALID", NEW m \in Nat, m = Len(p.pkts),
         NEW t \in Seq(Symbol), FrontIs(p.pkts, m, t),
         NEW c, NEW l, NEW first, HeadAt(t, c, l, first)
  PROVE  /\ m < c + l => ParseHeader(p).ret = "CONTINUE" /\ ParseHeader(p).p = p
         /\ c + l <= m => /\ ParseHeader(p).p.pkts = Consume(p.pkts, c + l)
                          /\ Classify(p).type # "INVALID" =>
                               /\ ParseHeader(p).ret = "OK"
                               /\ ParseHeader(p).p.type = Classify(p).type
                               /\ ParseHeader(p).p.header = Read(p.pkts, c + l - 2)
<1>1. /\ c \in Nat /\ l \in Nat /\ 5 <= l /\ EndAt(t, c + l - 3)
      /\ \A i \in 1 .. c + l - 4 : ~EndAt(t, i)
  BY DEF HeadAt
<1>2. PICK s \in Seq(Symbol) : s = p.pkts
  BY DEF Parser
<1>3. PICK e \in Nat :
           /\ e = Search(s, HTTP_END_FLAG, 1)
           /\ e # 0 => e + 3 <= m /\ EndAt(s, e)
           /\ \A i \in Nat \ {0} : i + 3 <= m /\ EndAt(s, i) => e # 0 /\ e <= i
  BY <1>2, EndFound
<1>4. ASSUME NEW i \in Nat \ {0}, i + 3 <= m PROVE EndAt(s, i) <=> EndAt(t, i)
  <2>1. i \in 1 .. m /\ i + 1 \in 1 .. m /\ i + 2 \in 1 .. m /\ i + 3 \in 1 .. m
    BY <1>4
  <2>2. \A j \in 1 .. m : s[j] = t[j]
    BY <1>2 DEF FrontIs
  <2> QED BY <2>1, <2>2 DEF EndAt
<1>5. e # 0 => c + l - 3 <= e
  <2> SUFFICES ASSUME e # 0 PROVE c + l - 3 <= e
    OBVIOUS
  <2>1. EndAt(t, e)
    BY <1>3, <1>4
  <2>2. ~(e \in 1 .. c + l - 4)
    BY <1>1, <2>1
  <2> QED BY <1>1, <1>3, <2>2
<1>6. CASE m < c + l
  <2>1. e = 0
    BY <1>1, <1>3, <1>5, <1>6
  <2> QED BY <1>1, <1>2, <1>3, <1>6, <2>1, HeaderTaken
<1>7. CASE c + l <= m
  <2>1. c + l - 3 \in Nat \ {0} /\ (c + l - 3) + 3 <= m
    BY <1>1, <1>7
  <2>2. e # 0 /\ e <= c + l - 3
    BY <1>1, <1>3, <1>4, <2>1
  <2>3. e = c + l - 3
    BY <1>1, <1>5, <2>2
  <2>4. e + 3 = c + l /\ e + 1 = c + l - 2
    BY <1>1, <2>3
  <2> QED BY <1>1, <1>2, <1>3, <1>7, <2>2, <2>4, HeaderTaken, SMTT(30)
<1> QED BY <1>1, <1>6, <1>7

\* What deserialize looks at: the first line of a header, and the words in it.
Words(line)     == {i \in 1 .. Len(line) : line[i][1] \notin {"data", "CR", "LF"}}

\* It finds no word if a whole line end is in front, and else the one that was sent.
FirstWordIs(header, c, first) ==
  /\ c = 2 => Words(FirstLine(header)) = {}
  /\ c # 2 => \E k \in Nat \ {0} : Words(FirstLine(header)) = {k} /\ FirstLine(header)[k] = first

\* The line is made of symbols, and a symbol with blanks is one of them.
LEMMA FirstLineType ==
  ASSUME NEW header \in Seq(Symbol)
  PROVE  /\ FirstLine(header) \in Seq(Symbol)
         /\ Spaced(FirstLine(header)) # {} =>
              First(Spaced(FirstLine(header))) \in 1 .. Len(FirstLine(header))
<1> DEFINE end  == Search(header, HTTP_SEP, 1)
           line == FirstLine(header)
<1>1. line \in Seq(Symbol)
  <2>1. HTTP_SEP \in Seq(Symbol) /\ Len(HTTP_SEP) = 2 /\ 1 \in Nat \ {0}
    BY Patterns
  <2>2. end \in Nat /\ (end # 0 => end + Len(HTTP_SEP) - 1 <= Len(header))
    BY <2>1, SearchRange
  <2>3. Len(header) \in Nat
    BY LenProperties
  <2>4. end - 1 \in Int /\ end - 1 <= Len(header)
    BY <2>1, <2>2, <2>3
  <2> QED BY <2>4, ReadType DEF FirstLine
<1> HIDE DEF line
<1>2. Len(line) \in Nat
  BY <1>1, LenProperties
<1>3. Spaced(line) \in SUBSET (Nat \ {0}) /\ \A i \in Spaced(line) : i \in 1 .. Len(line)
  BY <1>2 DEF Spaced
<1>4. Spaced(line) # {} => First(Spaced(line)) \in Spaced(line)
  BY <1>3, FirstIsHit
<1> QED BY <1>1, <1>3, <1>4 DEF line

\* How many words there are in a line with blanks in one symbol or in none.
LEMMA WordsCounted ==
  ASSUME NEW line
  PROVE  /\ Spaced(line) = {} => WordCount(line) = 1
         /\ \A k \in Nat \ {0} : Spaced(line) = {k} /\ Blanks(line[k]) = 2 =>
              WordCount(line) = 3 /\ First(Spaced(line)) = k
<1> DEFINE blanks == UNION {{i} \X (1 .. Blanks(line[i])) : i \in Spaced(line)}
<1>1. WordCount(line) = 1 + Cardinality(blanks)
  BY DEF WordCount
<1>2. ASSUME Spaced(line) = {} PROVE WordCount(line) = 1
  <2>1. blanks = {}
    BY <1>2
  <2> HIDE DEF blanks
  <2>2. Cardinality(blanks) = 0
    BY <2>1, FS_EmptySet
  <2> QED BY <1>1, <2>2
<1>3. ASSUME NEW k \in Nat \ {0}, Spaced(line) = {k}, Blanks(line[k]) = 2
      PROVE  WordCount(line) = 3 /\ First(Spaced(line)) = k
  <2>1. blanks = {k} \X (1 .. Blanks(line[k]))
    BY <1>3
  <2>2. 1 .. 2 = {1, 2}
    OBVIOUS
  <2>3. blanks = {<<k, 1>>} \cup {<<k, 2>>}
    BY <1>3, <2>1, <2>2
  <2> HIDE DEF blanks
  <2>4. IsFiniteSet({<<k, 1>>}) /\ Cardinality({<<k, 1>>}) = 1
    BY FS_Singleton
  <2>5. <<k, 2>> \notin {<<k, 1>>}
    OBVIOUS
  <2>6. Cardinality({<<k, 1>>} \cup {<<k, 2>>}) = 2
    <3>1. PICK S, x : S = {<<k, 1>>} /\ x = <<k, 2>>
      OBVIOUS
    <3>2. IsFiniteSet(S) /\ Cardinality(S) = 1 /\ x \notin S
      BY <2>4, <2>5, <3>1
    <3>3. Cardinality(S \cup {x}) = 2
      BY <3>2, FS_AddElement
    <3> QED BY <3>1, <3>3
  <2>7. {k} \in SUBSET (Nat \ {0}) /\ {k} # {}
    OBVIOUS
  <2>8. First({k}) \in {k}
    BY <2>7, FirstIsHit
  <2> QED BY <1>1, <1>3, <2>3, <2>6, <2>8
<1> QED BY <1>2, <1>3

\* So deserialize counts one word if a whole line end is in front of the header,
\* and three when it is the line that was sent.
LEMMA FirstWordCounted ==
  ASSUME NEW header, NEW c, NEW first, FirstWordIs(header, c, first), Blanks(first) = 2
  PROVE  LET line == FirstLine(header)
         IN /\ c = 2 => WordCount(line) = 1
            /\ c # 2 => WordCount(line) = 3 /\ line[First(Spaced(line))] = first
<1> DEFINE line == FirstLine(header)
<1>1. \A i \in Spaced(line) : i \in Words(line)
  BY DEF Spaced, Blanks, Words
<1>2. ASSUME c = 2 PROVE WordCount(line) = 1
  <2>1. Words(line) = {}
    BY <1>2 DEF FirstWordIs
  <2>2. Spaced(line) = {}
    BY <1>1, <2>1
  <2> HIDE DEF line
  <2> QED BY <2>2, WordsCounted
<1>3. ASSUME c # 2 PROVE WordCount(line) = 3 /\ line[First(Spaced(line))] = first
  <2>1. PICK k \in Nat \ {0} : Words(line) = {k} /\ line[k] = first
    BY <1>3 DEF FirstWordIs
  <2> HIDE DEF line
  <2>2. k \in 1 .. Len(line)
    BY <2>1 DEF Words
  <2>3. Spaced(line) = {k}
    BY <1>1, <2>1, <2>2 DEF Spaced
  <2> QED BY <2>1, <2>3, WordsCounted
<1> QED BY <1>2, <1>3

\* That is so of the header that parse_header keeps.
LEMMA FirstLineAt ==
  ASSUME NEW s \in Seq(Symbol), NEW t \in Seq(Symbol), NEW c, NEW l, NEW first, HeadAt(t, c, l, first),
         Len(s) = c + l - 2, FrontIs(s, Len(s), t)
  PROVE  FirstWordIs(s, c, first)
<1>1. /\ c \in {0, 1, 2} /\ c \in Nat /\ l \in Nat /\ 5 <= l
      /\ c = 1 => t[1] = LF
      /\ c = 2 => t[1] = CR /\ t[2] = LF
      /\ t[c + 1] = first /\ t[c + 2] = CR /\ t[c + 3] = LF
  BY DEF HeadAt
<1>2. PICK m \in Nat : m = Len(s)
  BY LenProperties
<1>3. /\ HTTP_SEP \in Seq(Symbol) /\ Len(HTTP_SEP) = 2 /\ HTTP_SEP[1] = CR /\ HTTP_SEP[2] = LF
  BY Patterns DEF HTTP_SEP
<1>4. ASSUME NEW i \in Nat
      PROVE  FitsAt(t, HTTP_SEP, 2, i) <=> t[i] = CR /\ t[i + 1] = LF
  <2>1. 1 .. 2 = {1, 2} /\ i + 1 - 1 = i /\ i + 2 - 1 = i + 1
    OBVIOUS
  <2> QED BY <1>3, <2>1 DEF FitsAt
<1>5. CR # LF /\ first # CR /\ first # LF /\ first[1] \notin {"data", "CR", "LF"}
  <2>1. first \in FirstLines
    BY DEF HeadAt
  <2> QED BY <2>1, FirstLineTags DEF CR, LF
<1>6. LF[1] = "LF"
  BY DEF LF
<1>7. PICK f : f = Search(s, HTTP_SEP, 1)
  OBVIOUS
<1>8. FrontIs(s, m, t)
  BY <1>2
<1>9. CASE c = 2
  <2>2. f = 1
    <3>1. PICK e \in Nat \ {0} : e = 1
      OBVIOUS
    <3>2. SepFirst(t, e) /\ e + 1 <= m
      BY <1>1, <1>2, <1>9, <3>1 DEF SepFirst
    <3> QED BY <1>2, <1>7, <1>8, <3>1, <3>2, SepFound
  <2>f. PICK line : line = Read(s, f - 1)
    OBVIOUS
  <2>w. PICK words : words = Words(line)
    OBVIOUS
  <2>3. Len(line) = 0
    <3>1. 0 \in Int /\ 0 <= Len(s) /\ 0 >= 0 /\ f - 1 = 0
      BY <1>2, <2>2
    <3> QED BY <2>f, <3>1, ReadType
  <2>4. words = {}
    BY <2>w, <2>3 DEF Words
  <2>5. FirstLine(s) = line
    BY <1>7, <2>f DEF FirstLine
  <2> QED BY <1>9, <2>w, <2>4, <2>5 DEF FirstWordIs
<1>10. CASE c # 2
  <2>1. PICK e \in Nat \ {0} : e = c + 2
    BY <1>1
  <2>2. f = c + 2
    <3>1. ASSUME NEW i \in 1 .. e - 1 PROVE ~(t[i] = CR /\ t[i + 1] = LF)
      <4>1. i = c + 1 \/ (c = 1 /\ i = 1)
        BY <1>1, <1>10, <2>1
      <4> QED BY <1>1, <1>5, <4>1
    <3>2. t[e] = CR /\ t[e + 1] = LF /\ e + 1 <= m
      <4>1. e + 1 = c + 3
        BY <1>1, <2>1
      <4> QED BY <1>1, <1>2, <2>1, <4>1
    <3>3. SepFirst(t, e)
      BY <3>1, <3>2 DEF SepFirst
    <3> QED BY <1>2, <1>7, <1>8, <2>1, <3>2, <3>3, SepFound
  <2>f. PICK line : line = Read(s, f - 1)
    OBVIOUS
  <2>w. PICK words : words = Words(line)
    OBVIOUS
  <2>3. Len(line) = c + 1 /\ \A i \in 1 .. c + 1 : line[i] = t[i]
    <3>1. c + 1 \in 0 .. Len(s) /\ f - 1 = c + 1 /\ \A i \in 1 .. c + 1 : i \in 1 .. m
      BY <1>1, <1>2, <2>2
    <3>2. Len(Read(s, c + 1)) = c + 1 /\ \A i \in 1 .. c + 1 : Read(s, c + 1)[i] = s[i]
      BY <3>1, ReadAndLeft
    <3> QED BY <1>8, <2>f, <3>1, <3>2 DEF FrontIs
  <2>4. words = {c + 1}
    <3>1. c + 1 \in words
      BY <1>1, <1>5, <2>w, <2>3 DEF Words
    <3>2. ASSUME NEW i \in words PROVE i = c + 1
      <4>1. i \in 1 .. c + 1 /\ t[i][1] \notin {"data", "CR", "LF"}
        BY <2>w, <2>3 DEF Words
      <4>2. CASE c = 1 /\ i = 1
        BY <1>1, <1>6, <4>1, <4>2
      <4>3. i = c + 1 \/ (c = 1 /\ i = 1)
        BY <1>1, <1>10, <4>1
      <4> QED BY <4>2, <4>3
    <3> QED BY <3>1, <3>2
  <2>5. line[c + 1] = first /\ c + 1 \in Nat \ {0}
    BY <1>1, <2>3
  <2>6. PICK k \in Nat \ {0} : words = {k} /\ line[k] = first
    BY <2>4, <2>5
  <2>7. FirstLine(s) = line
    BY <1>7, <2>f DEF FirstLine
  <2> QED BY <1>10, <2>w, <2>6, <2>7 DEF FirstWordIs
<1> QED BY <1>9, <1>10

-----------------------------------------------------------------------------
(* The messages of a peer built on this library. *)

\* Payload, a packet of a body, and what may be in an encoded body.
Payload    == {"data"} \X Data

\* get_chunk can add the separator to the length of c.
Fitting(c) == ~(Len(c) > MaxChunk)

BodyPacket == {c \in Seq(Payload) \ {Null} : Fitting(c)}

BodySymbol == {CR, LF, Dashes} \cup ({"size"} \X Int)
                \cup ({"flag"} \X (Boundaries \cup {NoBoundary})) \cup Payload

\* They are symbols, and parse_header looks for none of them.
LEMMA BodySymbols ==
  /\ Payload \subseteq BodySymbol /\ BodySymbol \subseteq Symbol
  /\ \A a \in BodySymbol : a[1] \notin HeadTags
  /\ \A a \in Payload : a # CR /\ a # LF /\ a[1] = "data"
  /\ HTTP_SEP \in Seq(BodySymbol)
<1>1. Payload \subseteq BodySymbol /\ BodySymbol \subseteq Symbol
  BY DEF Payload, BodySymbol, Symbol
<1>2. ASSUME NEW a \in BodySymbol PROVE a[1] \notin HeadTags
  <2>1. a[1] \in {"CR", "LF", "dashes", "size", "flag", "data"}
    BY DEF BodySymbol, Payload, CR, LF, Dashes
  <2> QED BY <2>1 DEF HeadTags
<1>3. \A a \in Payload : a[1] = "data"
  BY DEF Payload
<1>4. CR[1] = "CR" /\ LF[1] = "LF"
  BY DEF CR, LF
<1>5. \A a \in Payload : a # CR /\ a # LF
  BY <1>3, <1>4
<1>6. CR \in BodySymbol /\ LF \in BodySymbol
  BY DEF BodySymbol
<1>7. HTTP_SEP \in Seq(BodySymbol)
  BY <1>6 DEF HTTP_SEP
<1> QED BY <1>1, <1>2, <1>3, <1>5, <1>7

\* A sequence over a set is one over a larger set.
LEMMA SeqWider == ASSUME NEW S, NEW B, S \subseteq B, NEW s \in Seq(S) PROVE s \in Seq(B)
<1>1. Len(s) \in Nat /\ DOMAIN s = 1 .. Len(s) /\ \A i \in 1 .. Len(s) : s[i] \in S
  BY LenProperties, ElementOfSeq
<1>2. \A i \in 1 .. Len(s) : s[i] \in B
  BY <1>1
<1>3. s = [i \in 1 .. Len(s) |-> s[i]]
  BY <1>1
<1> QED BY <1>1, <1>2, <1>3, IsASeq

\* A line.
LEMMA LineIs ==
  ASSUME NEW a \in Symbol
  PROVE  <<a>> \o HTTP_SEP = <<a, CR, LF>> /\ <<a, CR, LF>> \in Seq(Symbol)
<1>1. CR \in Symbol /\ LF \in Symbol
  BY Tags
<1> DEFINE x == <<a>>
           y == HTTP_SEP
           z == <<a, CR, LF>>
<1>2. x \in Seq(Symbol) /\ Len(x) = 1 /\ x[1] = a
  OBVIOUS
<1>3. y \in Seq(Symbol) /\ Len(y) = 2 /\ y[1] = CR /\ y[2] = LF
  BY <1>1 DEF HTTP_SEP
<1>4. z \in Seq(Symbol) /\ Len(z) = 3 /\ z[1] = a /\ z[2] = CR /\ z[3] = LF
  BY <1>1
<1> HIDE DEF x, y, z
<1>5. x \o y \in Seq(Symbol) /\ Len(x \o y) = 3 /\ \A i \in 1 .. 3 : (x \o y)[i] = IF i <= 1 THEN x[i] ELSE y[i - 1]
  <2>1. 1 + 2 = 3
    OBVIOUS
  <2>2. /\ x \o y \in Seq(Symbol) /\ Len(x \o y) = Len(x) + Len(y)
        /\ \A i \in 1 .. Len(x) + Len(y) : (x \o y)[i] = IF i <= Len(x) THEN x[i] ELSE y[i - Len(x)]
    BY <1>2, <1>3, ConcatProperties
  <2> QED BY <1>2, <1>3, <2>1, <2>2
<1>6. \A i \in 1 .. 3 : (x \o y)[i] = z[i]
  BY <1>2, <1>3, <1>4, <1>5
<1>7. x \o y = z
  BY <1>4, <1>5, <1>6, SeqEqual
<1> QED BY <1>4, <1>7 DEF x, y, z

\* The three headers.
NoField(first)     == <<first, CR, LF, CR, LF>>
OneField(first, x) == <<first, CR, LF, x, CR, LF, CR, LF>>
WsHeader(first)    == <<first, CR, LF, Upgrade, WebSocket, CR, LF, WsKey, CR, LF, CR, LF>>

\* package_header makes them.
LEMMA HeaderIs ==
  ASSUME NEW first \in FirstLines
  PROVE  /\ Header(first, <<>>) = NoField(first)
         /\ \A x \in Symbol : Header(first, <<x>>) = OneField(first, x)
<1>0. first \in Symbol /\ CR \in Symbol /\ LF \in Symbol
  BY FirstLineTags, Tags
<1>1. Header(first, <<>>) = NoField(first)
  <2>1. [i \in DOMAIN <<>> |-> <<<<>>[i]>> \o HTTP_SEP] = <<>>
    OBVIOUS
  <2>2. Header(first, <<>>) = <<first>> \o HTTP_SEP \o <<>> \o HTTP_SEP
    BY <2>1, FlattenEmpty DEF Header
  <2> QED BY <1>0, <2>2 DEF NoField, HTTP_SEP
<1>2. ASSUME NEW x \in Symbol
      PROVE  Header(first, <<x>>) = OneField(first, x)
  <2>1. [i \in DOMAIN <<x>> |-> <<<<x>>[i]>> \o HTTP_SEP] = <<<<x>> \o HTTP_SEP>>
    OBVIOUS
  <2> DEFINE line == <<x>> \o HTTP_SEP
  <2>2. line \in Seq(Symbol) /\ line = <<x, CR, LF>>
    BY LineIs
  <2> HIDE DEF line
  <2>3. FlattenSeq(<<line>>) = line
    <3>1. <<>> \in Seq(Seq(Symbol)) /\ <<line>> = Append(<<>>, line) /\ <<>> \o line = line
      BY <2>2
    <3>2. FlattenSeq(Append(<<>>, line)) = FlattenSeq(<<>>) \o line
      BY <2>2, <3>1, FlattenAppend
    <3> QED BY <3>1, <3>2, FlattenEmpty
  <2>4. Header(first, <<x>>) = <<first>> \o HTTP_SEP \o line \o HTTP_SEP
    BY <2>1, <2>3 DEF Header, line
  <2> QED BY <1>0, <2>2, <2>4 DEF OneField, HTTP_SEP
<1> QED BY <1>1, <1>2

\* A header of l symbols that begins with first.
HeadShape(h, l, first) ==
  /\ h \in Seq(Symbol) /\ l \in Nat /\ l = Len(h) /\ 5 <= l
  /\ h[1] = first /\ h[2] = CR /\ h[3] = LF
  /\ EndAt(h, l - 3)
  /\ \A i \in 1 .. l - 4 : ~EndAt(h, i)

\* They have that shape.
LEMMA HeadersHaveShape ==
  ASSUME NEW first \in FirstLines
  PROVE  /\ HeadShape(NoField(first), 5, first)
         /\ \A x \in Symbol \ {CR} : HeadShape(OneField(first, x), 8, first)
         /\ HeadShape(WsHeader(first), 12, first)
<1>0. /\ first \in Symbol /\ first # CR
      /\ CR \in Symbol /\ LF \in Symbol /\ LF # CR
      /\ Upgrade \in Symbol /\ WebSocket \in Symbol /\ WsKey \in Symbol
      /\ Upgrade # CR /\ WebSocket # CR /\ WsKey # CR
  <2>1. first \in Symbol
    BY FirstLineTags
  <2>2. first # CR /\ LF # CR /\ Upgrade # CR /\ WebSocket # CR /\ WsKey # CR
    BY FirstLineTags DEF CR, LF, Upgrade, WebSocket, WsKey
  <2> QED BY <2>1, <2>2, Tags
<1>1. HeadShape(NoField(first), 5, first)
  <2> DEFINE h == NoField(first)
  <2>1. /\ h \in Seq(Symbol) /\ Len(h) = 5 /\ h[1] = first /\ h[2] = CR /\ h[3] = LF
        /\ h[4] = CR /\ h[5] = LF
    BY <1>0 DEF NoField
  <2> HIDE DEF h
  <2>2. EndAt(h, 2) /\ ~EndAt(h, 1)
    BY <1>0, <2>1 DEF EndAt
  <2>3. 5 - 3 = 2 /\ 1 .. 5 - 4 = {1} /\ 5 \in Nat /\ 5 <= 5
    OBVIOUS
  <2>4. EndAt(h, 5 - 3) /\ \A i \in 1 .. 5 - 4 : ~EndAt(h, i)
    BY <2>2, <2>3
  <2>5. HeadShape(h, 5, first)
    BY <2>1, <2>3, <2>4 DEF HeadShape
  <2> QED BY <2>5 DEF h
<1>2. ASSUME NEW x \in Symbol \ {CR} PROVE HeadShape(OneField(first, x), 8, first)
  <2> DEFINE h == OneField(first, x)
  <2>1. /\ h \in Seq(Symbol) /\ Len(h) = 8 /\ h[1] = first /\ h[2] = CR /\ h[3] = LF
        /\ h[4] = x /\ h[5] = CR /\ h[6] = LF /\ h[7] = CR /\ h[8] = LF
    BY <1>0 DEF OneField
  <2> HIDE DEF h
  <2>2. EndAt(h, 5) /\ ~EndAt(h, 1) /\ ~EndAt(h, 2) /\ ~EndAt(h, 3) /\ ~EndAt(h, 4)
    BY <1>0, <2>1 DEF EndAt
  <2>3. 8 - 3 = 5 /\ 1 .. 8 - 4 = {1, 2, 3, 4} /\ 8 \in Nat /\ 5 <= 8
    OBVIOUS
  <2>4. EndAt(h, 8 - 3) /\ \A i \in 1 .. 8 - 4 : ~EndAt(h, i)
    BY <2>2, <2>3
  <2>5. HeadShape(h, 8, first)
    BY <2>1, <2>3, <2>4 DEF HeadShape
  <2> QED BY <2>5 DEF h
<1>3. HeadShape(WsHeader(first), 12, first)
  <2> DEFINE h == WsHeader(first)
  <2>1. /\ h \in Seq(Symbol) /\ Len(h) = 12 /\ h[1] = first /\ h[2] = CR /\ h[3] = LF
        /\ h[4] = Upgrade /\ h[5] = WebSocket /\ h[6] = CR /\ h[7] = LF
        /\ h[8] = WsKey /\ h[9] = CR /\ h[10] = LF /\ h[11] = CR /\ h[12] = LF
    BY <1>0 DEF WsHeader
  <2> HIDE DEF h
  <2>2. /\ EndAt(h, 9) /\ ~EndAt(h, 1) /\ ~EndAt(h, 2) /\ ~EndAt(h, 3) /\ ~EndAt(h, 4)
        /\ ~EndAt(h, 5) /\ ~EndAt(h, 6) /\ ~EndAt(h, 7) /\ ~EndAt(h, 8)
    BY <1>0, <2>1 DEF EndAt
  <2>3. 12 - 3 = 9 /\ 1 .. 12 - 4 = {1, 2, 3, 4, 5, 6, 7, 8} /\ 12 \in Nat /\ 5 <= 12
    OBVIOUS
  <2>4. EndAt(h, 12 - 3) /\ \A i \in 1 .. 12 - 4 : ~EndAt(h, i)
    BY <2>2, <2>3
  <2>5. HeadShape(h, 12, first)
    BY <2>1, <2>3, <2>4 DEF HeadShape
  <2> QED BY <2>5 DEF h
<1> QED BY <1>1, <1>2, <1>3

\* What the end of a streamed message may leave: the rest of its last line end.
Junk == {<<>>, <<LF>>, <<CR, LF>>}

\* A header behind that is found there.
LEMMA ShapeAt ==
  ASSUME NEW g \in Junk, NEW h, NEW l, NEW first \in FirstLines, HeadShape(h, l, first), NEW r \in Seq(Symbol)
  PROVE  /\ g \in Seq(Symbol) /\ h \in Seq(Symbol) /\ g \o h \in Seq(Symbol) /\ Len(g \o h) = Len(g) + l
         /\ g \o (h \o r) = (g \o h) \o r
         /\ HeadAt(g \o (h \o r), Len(g), l, first)
         /\ \A i \in 1 .. l : (g \o (h \o r))[Len(g) + i] = h[i]
         /\ \A i \in 1 .. Len(g) : (g \o (h \o r))[i] \in {CR, LF}
         /\ g # <<CR, LF>> <=> Len(g) # 2
<1>1. /\ h \in Seq(Symbol) /\ l \in Nat /\ l = Len(h) /\ 5 <= l
      /\ h[1] = first /\ h[2] = CR /\ h[3] = LF
      /\ EndAt(h, l - 3)
      /\ \A i \in 1 .. l - 4 : ~EndAt(h, i)
  BY DEF HeadShape
<1>2. CR \in Symbol /\ LF \in Symbol /\ CR # LF /\ first # CR
  BY Tags, FirstLineTags DEF CR, LF
<1>3. /\ g \in Seq(Symbol) /\ Len(g) \in {0, 1, 2} /\ (g # <<CR, LF>> <=> Len(g) # 2)
      /\ Len(g) = 1 => g[1] = LF
      /\ Len(g) = 2 => g[1] = CR /\ g[2] = LF
  <2>1. CASE g = <<>>
    <3>1. g \in Seq(Symbol) /\ Len(g) = 0 /\ Len(<<CR, LF>>) = 2
      BY <2>1
    <3> QED BY <3>1
  <2>2. CASE g = <<LF>>
    <3>1. g \in Seq(Symbol) /\ Len(g) = 1 /\ g[1] = LF /\ Len(<<CR, LF>>) = 2
      BY <1>2, <2>2
    <3> QED BY <3>1
  <2>3. CASE g = <<CR, LF>>
    <3>1. g \in Seq(Symbol) /\ Len(g) = 2 /\ g[1] = CR /\ g[2] = LF
      BY <1>2, <2>3
    <3> QED BY <2>3, <3>1
  <2> QED BY <2>1, <2>2, <2>3 DEF Junk
<1>4. PICK c \in {0, 1, 2} : c = Len(g)
  BY <1>3
<1>5. PICK t \in Seq(Symbol) : t = g \o (h \o r)
  BY <1>1, <1>3, ConcatProperties
<1>6. t = (g \o h) \o r
  BY <1>1, <1>3, <1>5, Together, ZenonT(60)
<1>7. PICK k \in Nat : k = Len(r)
  BY LenProperties
<1>8. PICK z \in Seq(Symbol) : /\ z = h \o r /\ Len(z) = l + k
                               /\ \A i \in 1 .. l : z[i] = h[i]
  <2>1. h \o r \in Seq(Symbol) /\ Len(h \o r) = Len(h) + Len(r) /\ FrontIs(h, Len(h), h \o r)
    BY <1>1, FrontOf
  <2> QED BY <1>1, <1>7, <2>1 DEF FrontIs
<1>9. /\ Len(t) = c + (l + k)
      /\ \A i \in 1 .. c : t[i] = g[i]
      /\ \A i \in 1 .. l + k : t[c + i] = z[i]
  <2>1. /\ Len(g \o z) = Len(g) + Len(z)
        /\ \A i \in 1 .. Len(g) + Len(z) :
             (g \o z)[i] = IF i <= Len(g) THEN g[i] ELSE z[i - Len(g)]
    BY <1>3, <1>8, ConcatProperties
  <2>2. \A i \in 1 .. c : i \in 1 .. c + (l + k) /\ i <= c
    BY <1>1
  <2>3. \A i \in 1 .. l + k : c + i \in 1 .. c + (l + k) /\ ~(c + i <= c) /\ (c + i) - c = i
    BY <1>1
  <2>4. t = g \o z
    BY <1>5, <1>8
  <2> QED BY <1>4, <1>8, <2>1, <2>2, <2>3, <2>4
<1>10. \A i \in 1 .. l : t[c + i] = h[i]
  <2>1. \A i \in 1 .. l : i \in 1 .. l + k
    BY <1>1
  <2> QED BY <1>8, <1>9, <2>1
<1>11. /\ t[c + 1] = first /\ t[c + 2] = CR /\ t[c + 3] = LF
       /\ c = 1 => t[1] = LF
       /\ c = 2 => t[1] = CR /\ t[2] = LF
  <2>1. 1 \in 1 .. l /\ 2 \in 1 .. l /\ 3 \in 1 .. l
    BY <1>1
  <2>2. (c = 1 => 1 \in 1 .. c) /\ (c = 2 => 1 \in 1 .. c /\ 2 \in 1 .. c)
    OBVIOUS
  <2> QED BY <1>1, <1>3, <1>4, <1>9, <1>10, <2>1, <2>2
<1>12. ASSUME NEW i \in Nat \ {0}, i + 3 <= l PROVE EndAt(t, c + i) <=> EndAt(h, i)
  <2>1. i \in 1 .. l /\ i + 1 \in 1 .. l /\ i + 2 \in 1 .. l /\ i + 3 \in 1 .. l
    BY <1>1, <1>12
  <2>2. /\ c + (i + 1) = (c + i) + 1 /\ c + (i + 2) = (c + i) + 2 /\ c + (i + 3) = (c + i) + 3
    OBVIOUS
  <2>3. t[c + i] = h[i] /\ t[(c + i) + 1] = h[i + 1] /\ t[(c + i) + 2] = h[i + 2]
        /\ t[(c + i) + 3] = h[i + 3]
    BY <1>10, <2>1, <2>2
  <2> QED BY <2>3 DEF EndAt
<1>13. EndAt(t, c + l - 3)
  <2>1. l \in Nat /\ 5 <= l
    BY <1>1
  <2>2. l - 3 \in Nat \ {0}
    BY <2>1
  <2>3. (l - 3) + 3 <= l
    BY <2>1
  <2>4. c + (l - 3) = c + l - 3
    BY <2>1
  <2> QED BY <1>1, <1>12, <2>2, <2>3, <2>4
<1>14. ASSUME NEW i \in 1 .. c + l - 4 PROVE ~EndAt(t, i)
  <2>1. CASE i <= c
    <3>1. (c = 1 /\ i = 1) \/ (c = 2 /\ i = 1) \/ (c = 2 /\ i = 2)
      BY <2>1
    <3>2. c = 2 /\ i = 1 => i + 2 = c + 1
      OBVIOUS
    <3> QED BY <1>2, <1>11, <3>1, <3>2 DEF EndAt
  <2>2. CASE ~(i <= c)
    <3>1. i - c \in Nat \ {0} /\ (i - c) + 3 <= l /\ i - c \in 1 .. l - 4 /\ c + (i - c) = i
      BY <1>1, <2>2
    <3> QED BY <1>1, <1>12, <3>1
  <2> QED BY <2>1, <2>2
<1>15. HeadAt(t, c, l, first)
  <2>1. c + l <= Len(t)
    BY <1>1, <1>9
  <2> QED BY <1>1, <1>11, <1>13, <1>14, <2>1 DEF HeadAt
<1>16. g \o h \in Seq(Symbol) /\ Len(g \o h) = Len(g) + l
  BY <1>1, <1>3, ConcatProperties
<1>17. \A i \in 1 .. Len(g) : t[i] \in {CR, LF}
  BY <1>3, <1>4, <1>9, SMTT(30)
<1> QED BY <1>1, <1>3, <1>4, <1>5, <1>6, <1>10, <1>15, <1>16, <1>17

\* ts[i] is what is left of the flattened sequence behind its first i.
Tails(ts, encs, S) ==
  /\ ts \in [0 .. Len(encs) -> Seq(S)]
  /\ ts[Len(encs)] = <<>>
  /\ \A i \in 1 .. Len(encs) : ts[i - 1] = encs[i] \o ts[i]

\* There are such.
LEMMA TailsExist ==
  ASSUME NEW S, NEW encs \in Seq(Seq(S))
  PROVE  \E ts : Tails(ts, encs, S) /\ ts[0] = FlattenSeq(encs)
<1>1. PICK f : Flattens(f, encs, S)
  BY FlattensExists
<1>2. PICK n \in Nat : n = Len(encs)
  BY LenProperties
<1>3. /\ f \in [0 .. n -> Seq(S)] /\ f[0] = <<>>
      /\ \A i \in 1 .. n : f[i] = f[i - 1] \o encs[i]
      /\ \A i \in 1 .. n : encs[i] \in Seq(S)
  BY <1>1, <1>2, ElementOfSeq DEF Flattens
<1>4. \A a \in Seq(S), b \in Seq(S), c \in Seq(S) : a \o b = a \o c => b = c
  BY ConcatSimplifications
<1>5. \A a \in Seq(S), b \in Seq(S), c \in Seq(S) : (a \o b) \o c = a \o (b \o c)
  BY ConcatAssociative
<1>6. ASSUME NEW k \in 0 .. n PROVE \E w \in Seq(S) : f[n] = f[k] \o w
  <2>1. k \in 0 .. Len(encs)
    BY <1>2
  <2>2. Begins(f[k], f[Len(encs)], S)
    BY <1>1, <2>1, FlattensBegins
  <2> QED BY <1>2, <2>2 DEF Begins
<1> DEFINE ts == [k \in 0 .. n |-> CHOOSE w \in Seq(S) : f[n] = f[k] \o w]
<1>7. ASSUME NEW k \in 0 .. n PROVE ts[k] \in Seq(S) /\ f[n] = f[k] \o ts[k]
  BY <1>6
<1>8. ts \in [0 .. n -> Seq(S)]
  BY <1>7
<1> HIDE DEF ts
<1>9. n \in 0 .. n /\ 0 \in 0 .. n
  OBVIOUS
<1>10. ts[0] = f[n]
  <2>1. f[n] = <<>> \o ts[0] /\ ts[0] \in Seq(S)
    BY <1>3, <1>7, <1>9
  <2> QED BY <2>1, ConcatEmptySeq
<1>11. ts[n] = <<>>
  <2>1. f[n] = f[n] \o ts[n] /\ ts[n] \in Seq(S) /\ f[n] \in Seq(S)
    BY <1>3, <1>7, <1>9
  <2>2. f[n] = f[n] \o <<>> /\ <<>> \in Seq(S)
    BY <2>1, ConcatEmptySeq
  <2>3. f[n] \o ts[n] = f[n] \o <<>>
    BY <2>1, <2>2, Zenon
  <2> QED BY <1>4, <2>1, <2>2, <2>3, Zenon
<1>12. ASSUME NEW i \in 1 .. n PROVE ts[i - 1] = encs[i] \o ts[i]
  <2>1. i - 1 \in 0 .. n /\ i \in 0 .. n
    BY <1>2
  <2>2. /\ ts[i] \in Seq(S) /\ ts[i - 1] \in Seq(S) /\ f[i - 1] \in Seq(S) /\ encs[i] \in Seq(S)
        /\ encs[i] \o ts[i] \in Seq(S)
    BY <1>3, <1>7, <2>1, ConcatProperties
  <2>3. f[n] = f[i - 1] \o ts[i - 1] /\ f[n] = (f[i - 1] \o encs[i]) \o ts[i]
    BY <1>3, <1>7, <2>1
  <2>4. f[i - 1] \o ts[i - 1] = f[i - 1] \o (encs[i] \o ts[i])
    BY <1>5, <2>2, <2>3, Zenon
  <2> QED BY <1>4, <2>2, <2>4, Zenon
<1>13. f[n] = FlattenSeq(encs)
  BY <1>1, <1>2, FlattenResult
<1> QED BY <1>2, <1>8, <1>10, <1>11, <1>12, <1>13 DEF Tails

\* How a packet of a streamed body is sent.
Sent1(kind, b, c) == IF kind = "CHUNK" THEN SendChunkBody(c) ELSE SendBoundaryBody(c, b)

\* The packets the receiver of a request is to hand on.
PacketsOf(kind, packs) ==
  /\ packs \in Seq(Seq(Payload)) /\ Len(packs) \in Nat \ {0}
  /\ kind = "NORMAL" => Len(packs) = 1
  /\ kind # "NORMAL" => \A i \in 1 .. Len(packs) : packs[i] = Null <=> i = Len(packs)
  /\ \A i \in 1 .. Len(packs) : Fitting(packs[i])

\* How they are sent.
Encoded(kind, b, packs) == [i \in 1 .. Len(packs) |-> Sent1(kind, b, packs[i])]

\* left[i] is what is sent behind the i-th of them.
Behinds(left, kind, b, packs) ==
  /\ left \in [0 .. Len(packs) -> Seq(BodySymbol)]
  /\ left[0] = FlattenSeq(Encoded(kind, b, packs))
  /\ left[Len(packs)] = <<>>
  /\ \A i \in 1 .. Len(packs) : left[i - 1] = Sent1(kind, b, packs[i]) \o left[i]

\* That function.
LeftOf(kind, b, packs) == CHOOSE left : Behinds(left, kind, b, packs)

\* The symbols t are what is left of a body behind the first k of packs, n of them the size of a
\* chunk that is already read.
Rest(t, n, kind, b, packs, k) ==
  \/ k < Len(packs) /\ n = -1 /\ t = LeftOf(kind, b, packs)[k]
  \/ /\ k < Len(packs) /\ kind = "CHUNK" /\ packs[k + 1] # Null /\ n = Len(packs[k + 1])
     /\ t = packs[k + 1] \o (HTTP_SEP \o LeftOf(kind, b, packs)[k + 1])
  \/ k = Len(packs) /\ n = -1 /\ t \in Junk

\* The parser p is behind the first k of packs, with w on the wire.
IsBehind(p, w, packs, k) ==
  IF p.type = "NORMAL"
  THEN \/ k = 0 /\ p.pkts \o w = packs[1] /\ p.bodyBytes = Len(packs[1])
       \/ k = 1 /\ p.pkts \o w = <<>>
  ELSE Rest(p.pkts \o w, p.chunkBytes, p.type, p.boundary, packs, k)

\* r takes the next packet, or waits for it.
Takes(w, packs, k, r) ==
  \/ r.ret = "CONTINUE" /\ IsBehind(r.p, w, packs, k)
  \/ r.ret = "OK" /\ r.packet = packs[k + 1] /\ IsBehind(r.p, w, packs, k + 1)

\* How the packets are sent, symbol by symbol.
LEMMA EncodedIs ==
  ASSUME NEW c \in Seq(Payload), NEW b \in Boundaries \cup {NoBoundary}
  PROVE  /\ c \in Seq(BodySymbol) /\ c \in Seq(Symbol) /\ Len(c) \in Nat
         /\ <<Size(Len(c)), CR, LF>> \in Seq(BodySymbol) /\ <<Flag(b), CR, LF>> \in Seq(BodySymbol)
         /\ SendChunkBody(c) \in Seq(BodySymbol) /\ SendBoundaryBody(c, b) \in Seq(BodySymbol)
         /\ c # Null =>
              /\ SendChunkBody(c) = (<<Size(Len(c)), CR, LF>> \o c) \o HTTP_SEP
              /\ SendBoundaryBody(c, b) = (<<Flag(b), CR, LF>> \o c) \o HTTP_SEP
         /\ c = Null =>
              /\ SendChunkBody(c) = <<Size(0), CR, LF>> \o <<CR, LF>>
              /\ SendBoundaryBody(c, b) = <<Flag(b), Dashes, CR, LF>>
<1>1. c \in Seq(BodySymbol) /\ c \in Seq(Symbol) /\ Len(c) \in Nat
  BY BodySymbols, SeqWider, LenProperties
<1>2. /\ Size(Len(c)) \in BodySymbol /\ Size(0) \in BodySymbol /\ Flag(b) \in BodySymbol
      /\ Dashes \in BodySymbol /\ CR \in BodySymbol /\ LF \in BodySymbol
  BY <1>1 DEF BodySymbol, Size, Flag
<1>3. HTTP_SEP \in Seq(BodySymbol)
  BY BodySymbols
<1>4. \A a \in BodySymbol : <<a>> \o HTTP_SEP = <<a, CR, LF>>
  BY BodySymbols, LineIs
<1>5. /\ <<Size(Len(c)), CR, LF>> \in Seq(BodySymbol) /\ <<Flag(b), CR, LF>> \in Seq(BodySymbol)
      /\ <<Size(0), CR, LF>> \in Seq(BodySymbol) /\ <<Flag(b), Dashes, CR, LF>> \in Seq(BodySymbol)
      /\ <<CR, LF>> \in Seq(BodySymbol)
  BY <1>2
<1>6. CASE c # Null
  <2>1. /\ SendChunkBody(c) = (<<Size(Len(c)), CR, LF>> \o c) \o HTTP_SEP
        /\ SendBoundaryBody(c, b) = (<<Flag(b), CR, LF>> \o c) \o HTTP_SEP
    BY <1>2, <1>4, <1>6 DEF SendChunkBody, SendBoundaryBody
  <2>2. /\ (<<Size(Len(c)), CR, LF>> \o c) \o HTTP_SEP \in Seq(BodySymbol)
        /\ (<<Flag(b), CR, LF>> \o c) \o HTTP_SEP \in Seq(BodySymbol)
    BY <1>1, <1>3, <1>5, ConcatProperties
  <2> QED BY <1>1, <1>5, <1>6, <2>1, <2>2
<1>7. CASE c = Null
  <2>1. SendChunkBody(c) = <<Size(0), CR, LF>> \o <<CR, LF>>
    <3>1. SendChunkBody(c) = (<<Size(0)>> \o HTTP_SEP) \o HTTP_SEP
      BY <1>7 DEF SendChunkBody
    <3> QED BY <1>2, <1>4, <3>1 DEF HTTP_SEP
  <2>2. SendBoundaryBody(c, b) = <<Flag(b), Dashes>> \o <<CR, LF>>
    BY <1>7 DEF SendBoundaryBody, HTTP_SEP
  <2>3. <<Flag(b), Dashes>> \o <<CR, LF>> = <<Flag(b), Dashes, CR, LF>>
    <3> DEFINE x == <<Flag(b), Dashes>>
               y == HTTP_SEP
               z == <<Flag(b), Dashes, CR, LF>>
    <3>1. x \in Seq(Symbol) /\ Len(x) = 2 /\ x[1] = Flag(b) /\ x[2] = Dashes
      BY <1>2, BodySymbols
    <3>2. z \in Seq(Symbol) /\ Len(z) = 4 /\ z[1] = Flag(b) /\ z[2] = Dashes /\ z[3] = CR /\ z[4] = LF
      BY <1>2, BodySymbols
    <3>3. y \in Seq(Symbol) /\ Len(y) = 2 /\ y[1] = CR /\ y[2] = LF
      BY Patterns DEF HTTP_SEP
    <3> HIDE DEF x, y, z
    <3>4. /\ x \o y \in Seq(Symbol) /\ Len(x \o y) = 4
          /\ \A i \in 1 .. 4 : (x \o y)[i] = IF i <= 2 THEN x[i] ELSE y[i - 2]
      <4>1. 2 + 2 = 4
        OBVIOUS
      <4>2. /\ x \o y \in Seq(Symbol) /\ Len(x \o y) = Len(x) + Len(y)
            /\ \A i \in 1 .. Len(x) + Len(y) : (x \o y)[i] = IF i <= Len(x) THEN x[i] ELSE y[i - Len(x)]
        BY <3>1, <3>3, ConcatProperties
      <4> QED BY <3>1, <3>3, <4>1, <4>2
    <3>5. \A i \in 1 .. 4 : (x \o y)[i] = z[i]
      BY <3>1, <3>2, <3>3, <3>4
    <3>6. x \o y = z
      BY <3>2, <3>4, <3>5, SeqEqual
    <3> QED BY <3>6 DEF x, y, z, HTTP_SEP
  <2>4. <<Size(0), CR, LF>> \o <<CR, LF>> \in Seq(BodySymbol)
    BY <1>5, ConcatProperties
  <2> QED BY <1>1, <1>5, <1>7, <2>1, <2>2, <2>3, <2>4
<1> QED BY <1>6, <1>7

\* There is such a function.
LEMMA LeftIs ==
  ASSUME NEW kind, NEW packs, PacketsOf(kind, packs), NEW b \in Boundaries \cup {NoBoundary}
  PROVE  Behinds(LeftOf(kind, b, packs), kind, b, packs)
<1>1. PICK n \in Nat : n = Len(packs)
  BY LenProperties DEF PacketsOf
<1>2. ASSUME NEW i \in 1 .. n PROVE packs[i] \in Seq(Payload)
  BY <1>1, ElementOfSeq DEF PacketsOf
<1>3. ASSUME NEW i \in 1 .. n PROVE Sent1(kind, b, packs[i]) \in Seq(BodySymbol)
  BY <1>2, EncodedIs DEF Sent1
<1> DEFINE encs == Encoded(kind, b, packs)
<1>4. encs = [i \in 1 .. n |-> Sent1(kind, b, packs[i])]
  BY <1>1 DEF Encoded
<1> HIDE DEF encs
<1>5. \A i \in 1 .. n : encs[i] = Sent1(kind, b, packs[i]) /\ encs[i] \in Seq(BodySymbol)
  BY <1>3, <1>4
<1>6. encs = [i \in 1 .. n |-> encs[i]]
  BY <1>4
<1>7. encs \in Seq(Seq(BodySymbol)) /\ Len(encs) = n
  BY <1>5, <1>6, FunctionIsSeq
<1>8. PICK ts : Tails(ts, encs, BodySymbol) /\ ts[0] = FlattenSeq(encs)
  BY <1>7, TailsExist
<1>9. Behinds(ts, kind, b, packs)
  BY <1>1, <1>5, <1>7, <1>8 DEF Tails, Behinds, encs
<1> QED BY <1>9 DEF LeftOf

\* What consuming the last two symbols, or as many of them as have arrived, leaves.
LEMMA JunkLeft ==
  ASSUME NEW s \in Seq(Symbol), NEW w \in Seq(Symbol), NEW n \in Nat, 2 <= n,
         n = Len(s \o w), (s \o w)[n - 1] = CR, (s \o w)[n] = LF, n - 2 <= Len(s)
  PROVE  Consume(s, n) \in Seq(Symbol) /\ Consume(s, n) \o w \in Junk
<1>1. PICK m \in Nat : m = Len(s)
  BY LenProperties
<1>2. PICK k \in Nat : k = Len(w)
  BY LenProperties
<1>3. /\ Len(s \o w) = m + k
      /\ \A i \in 1 .. m + k : (s \o w)[i] = IF i <= m THEN s[i] ELSE w[i - m]
  BY <1>1, <1>2, ConcatProperties
<1>4. n = m + k /\ k \in {0, 1, 2}
  BY <1>1, <1>3
<1>5. Consume(s, n) = <<>>
  BY <1>1, <1>4, EmptySeq DEF Consume
<1>6. Consume(s, n) \o w = w
  BY <1>5, ConcatEmptySeq
<1>7. \A i \in 1 .. k : w[i] = (s \o w)[m + i]
  <2> SUFFICES ASSUME NEW i \in 1 .. k PROVE w[i] = (s \o w)[m + i]
    OBVIOUS
  <2>1. m + i \in 1 .. m + k /\ ~(m + i <= m) /\ (m + i) - m = i
    OBVIOUS
  <2> QED BY <1>3, <2>1
<1>8. CR \in Symbol /\ LF \in Symbol
  BY Tags
<1>9. CASE k = 0
  <2>1. w = <<>>
    BY <1>2, <1>9, EmptySeq
  <2> QED BY <1>5, <1>6, <2>1 DEF Junk
<1>10. CASE k = 1
  <2> DEFINE z == <<LF>>
  <2>1. z \in Seq(Symbol) /\ Len(z) = 1 /\ z[1] = LF
    BY <1>8
  <2> HIDE DEF z
  <2>2. w[1] = LF
    <3>1. 1 \in 1 .. k /\ m + 1 = n
      BY <1>4, <1>10
    <3> QED BY <1>7, <3>1
  <2>3. w = z
    <3>1. \A i \in 1 .. 1 : w[i] = z[i]
      BY <2>1, <2>2
    <3> QED BY <1>2, <1>10, <2>1, <3>1, SeqEqual
  <2> QED BY <1>5, <1>6, <2>3 DEF Junk, z
<1>11. CASE k = 2
  <2> DEFINE z == <<CR, LF>>
  <2>1. z \in Seq(Symbol) /\ Len(z) = 2 /\ z[1] = CR /\ z[2] = LF
    BY <1>8
  <2> HIDE DEF z
  <2>2. w[1] = CR /\ w[2] = LF
    <3>1. m + 1 = n - 1 /\ m + 2 = n /\ 1 \in 1 .. k /\ 2 \in 1 .. k
      BY <1>4, <1>11
    <3> QED BY <1>7, <3>1
  <2>3. w = z
    <3>1. \A i \in 1 .. 2 : w[i] = z[i]
      BY <2>1, <2>2
    <3> QED BY <1>2, <1>11, <2>1, <3>1, SeqEqual
  <2> QED BY <1>5, <1>6, <2>3 DEF Junk, z
<1> QED BY <1>4, <1>9, <1>10, <1>11

\* A line with a size reads as that number.
LEMMA HexOne ==
  ASSUME NEW line \in Seq(Symbol), Len(line) = 1, NEW v, line[1] = Size(v)
  PROVE  HexValue(line) = v
<1> DEFINE hits == {j \in 1 .. Len(line) : line[j] \notin {CR, LF}}
<1>1. Size(v) # CR /\ Size(v) # LF /\ Size(v)[1] = "size" /\ Size(v)[2] = v
  BY DEF Size, CR, LF
<1>2. hits = {1}
  BY <1>1
<1>3. HexValue(line) = IF First(hits) # 0 /\ line[First(hits)][1] = "size"
                       THEN line[First(hits)][2] ELSE 0
  BY DEF HexValue
<1> HIDE DEF hits
<1>4. First(hits) = 1
  <2>1. hits \in SUBSET (Nat \ {0}) /\ 1 \in hits
    BY <1>2
  <2>2. First(hits) # 0 /\ First(hits) <= 1
    BY <2>1, FirstIsLeast
  <2>3. First(hits) \in hits
    BY <2>1, <2>2, FirstIsHit
  <2> QED BY <1>2, <2>3
<1> QED BY <1>1, <1>3, <1>4

\* s and then w are a and then b.
Joined(s, w, a, b) == s \o w = a \o b

\* The line of a chunk size, in front of the buffer s and then w.
LEMMA SizeLine ==
  ASSUME NEW s \in Seq(Symbol), NEW m \in Nat, m = Len(s), NEW w \in Seq(Symbol),
         NEW v \in Nat, NEW a \in Seq(Symbol), 3 = Len(a),
         a[1] = Size(v), a[2] = CR, a[3] = LF,
         NEW rest \in Seq(Symbol), Joined(s, w, a, rest)
  PROVE  /\ ~(3 <= m) => Search(s, HTTP_SEP, 1) = 0
         /\ 3 <= m => /\ Search(s, HTTP_SEP, 1) = 2 /\ HexValue(Read(s, 1)) = v
                      /\ Consume(s, 3) \in Seq(Symbol) /\ Makes(Consume(s, 3), w, rest)
<1>1. PICK t \in Seq(Symbol) : t = s \o w /\ FrontIs(s, m, t)
  BY FrontOf
<1>2. t = a \o rest
  BY <1>1 DEF Joined
<1>3. t[1] = Size(v) /\ t[2] = CR /\ t[3] = LF
  <2>1. FrontIs(a, 3, t)
    BY <1>2, FrontOf
  <2> QED BY <2>1 DEF FrontIs
<1>4. /\ 3 <= m => Search(s, HTTP_SEP, 1) = 2
      /\ ~(3 <= m) => Search(s, HTTP_SEP, 1) = 0
  <2>1. Size(v) # CR
    BY DEF Size, CR
  <2>2. PICK e \in Nat \ {0} : e = 2
    OBVIOUS
  <2>3. SepFirst(t, e)
    BY <1>3, <2>1, <2>2 DEF SepFirst
  <2>4. /\ e + 1 <= m => Search(s, HTTP_SEP, 1) = e
        /\ ~(e + 1 <= m) => Search(s, HTTP_SEP, 1) = 0
    BY <1>1, <2>3, SepFound
  <2> QED BY <2>2, <2>4
<1>5. ASSUME 3 <= m PROVE Consume(s, 3) \in Seq(Symbol) /\ Makes(Consume(s, 3), w, rest)
  <2>1. Twice(s, w, a, rest)
    BY <1>5 DEF Twice, Joined
  <2>2. PICK n \in Nat : n = 3 /\ n = Len(a)
    OBVIOUS
  <2>3. Consume(s, n) \in Seq(Symbol) /\ Makes(Consume(s, n), w, rest)
    BY <2>1, <2>2, FrontLeft
  <2> QED BY <2>2, <2>3
<1>6. ASSUME 3 <= m PROVE HexValue(Read(s, 1)) = v
  <2>1. 1 \in 0 .. Len(s) /\ 1 \in 1 .. 1 /\ 1 \in 1 .. m
    BY <1>6
  <2>2. /\ Read(s, 1) \in Seq(Symbol) /\ Len(Read(s, 1)) = 1
        /\ \A i \in 1 .. 1 : Read(s, 1)[i] = s[i]
    BY <2>1, ReadAndLeft
  <2>3. Read(s, 1)[1] = Size(v)
    BY <1>1, <1>3, <2>1, <2>2 DEF FrontIs
  <2> QED BY <2>2, <2>3, HexOne
<1> QED BY <1>4, <1>5, <1>6

\* It is waited for, or read.
LEMMA SizeRead ==
  ASSUME NEW p \in Parser, NEW w \in Seq(Symbol), NEW v \in Nat,
         NEW a \in Seq(Symbol), 3 = Len(a), a[1] = Size(v), a[2] = CR, a[3] = LF,
         NEW rest \in Seq(Symbol), Joined(p.pkts, w, a, rest)
  PROVE  \/ ReadChunkSize(p).ret = "CONTINUE" /\ ReadChunkSize(p).p = p
         \/ /\ ReadChunkSize(p).ret = "OK"
            /\ ReadChunkSize(p).p.chunkBytes = v
            /\ ReadChunkSize(p).p.pkts \in Seq(Symbol)
            /\ Makes(ReadChunkSize(p).p.pkts, w, rest)
<1>1. p.pkts \in Seq(Symbol)
  BY DEF Parser
<1>2. PICK m \in Nat : m = Len(p.pkts)
  BY <1>1, LenProperties
<1>3. /\ ~(3 <= m) => Search(p.pkts, HTTP_SEP, 1) = 0
      /\ 3 <= m => /\ Search(p.pkts, HTTP_SEP, 1) = 2 /\ HexValue(Read(p.pkts, 1)) = v
                   /\ Consume(p.pkts, 3) \in Seq(Symbol) /\ Makes(Consume(p.pkts, 3), w, rest)
  BY <1>1, <1>2, SizeLine
<1>4. CASE ~(3 <= m)
  <2>1. ReadChunkSize(p) = Result("CONTINUE", Null, p)
    BY <1>3, <1>4 DEF ReadChunkSize
  <2> QED BY <2>1 DEF Result
<1>5. CASE 3 <= m
  <2> DEFINE c == Consume(p.pkts, 3)
             q == [p EXCEPT !.pkts = c, !.chunkBytes = v]
  <2>1. ReadChunkSize(p) = Result("OK", Null, q)
    <3>1. 2 - 1 = 1 /\ 2 + 1 = 3 /\ ~(v < 0) /\ 2 # 0 /\ 2 # 1
      OBVIOUS
    <3> QED BY <1>3, <1>5, <3>1 DEF ReadChunkSize
  <2>2. c \in Seq(Symbol) /\ Makes(c, w, rest)
    BY <1>3, <1>5
  <2> HIDE DEF c
  <2>3. q.pkts = c /\ q.chunkBytes = v
    BY DEF Parser
  <2> HIDE DEF q
  <2>4. ReadChunkSize(p).ret = "OK" /\ ReadChunkSize(p).p = q
    BY <2>1 DEF Result
  <2> QED BY <2>2, <2>3, <2>4
<1> QED BY <1>4, <1>5

\* The lines in front of a packet and at the end.
SizeHead(v) == <<Size(v), CR, LF>>
FlagHead(b) == <<Flag(b), CR, LF>>
FlagEnd(b)  == <<Flag(b), Dashes, CR, LF>>

\* Their symbols.
LEMMA HeadsAre ==
  ASSUME NEW b \in Boundaries \cup {NoBoundary}, NEW v \in Int
  PROVE  /\ SizeHead(v) \in Seq(Symbol) /\ 3 = Len(SizeHead(v))
         /\ SizeHead(v)[1] = Size(v) /\ SizeHead(v)[2] = CR /\ SizeHead(v)[3] = LF
         /\ FlagHead(b) \in Seq(Symbol) /\ 3 = Len(FlagHead(b))
         /\ FlagHead(b)[1] = Flag(b) /\ FlagHead(b)[2] = CR /\ FlagHead(b)[3] = LF
         /\ FlagEnd(b) \in Seq(Symbol) /\ 4 = Len(FlagEnd(b))
         /\ FlagEnd(b)[1] = Flag(b) /\ FlagEnd(b)[2] = Dashes
         /\ FlagEnd(b)[3] = CR /\ FlagEnd(b)[4] = LF
<1>1. Size(v) \in Symbol /\ Flag(b) \in Symbol /\ Dashes \in Symbol /\ CR \in Symbol /\ LF \in Symbol
  BY DEF Symbol, Size, Flag
<1> QED BY <1>1 DEF SizeHead, FlagHead, FlagEnd

\* What is sent behind the first k packets: the next one, at j, and what is behind it.
NextAt(kind, b, packs, k, j) ==
  /\ packs[j] \in Seq(Payload) /\ Fitting(packs[j]) /\ j <= Len(packs)
  /\ LeftOf(kind, b, packs)[j] \in Seq(BodySymbol)
  /\ LeftOf(kind, b, packs)[k] = Sent1(kind, b, packs[j]) \o LeftOf(kind, b, packs)[j]
  /\ (packs[j] = Null <=> j = Len(packs))
  /\ (packs[j] = Null => LeftOf(kind, b, packs)[j] = <<>>)

\* It is that.
LEMMA NextIs ==
  ASSUME NEW kind, kind \in {"CHUNK", "BOUNDARY"}, NEW packs, PacketsOf(kind, packs),
         NEW b \in Boundaries \cup {NoBoundary}, NEW k \in Nat, NEW j \in Nat, j = k + 1,
         k < Len(packs)
  PROVE  NextAt(kind, b, packs, k, j)
<1>1. PICK n \in Nat : n = Len(packs)
  BY LenProperties DEF PacketsOf
<1>2. j \in 1 .. n /\ j - 1 = k /\ j \in 0 .. n
  BY <1>1
<1>3. packs[j] \in Seq(Payload) /\ (packs[j] = Null <=> j = Len(packs)) /\ Fitting(packs[j])
  BY <1>1, <1>2, ElementOfSeq DEF PacketsOf
<1> DEFINE left == LeftOf(kind, b, packs)
<1>4. Behinds(left, kind, b, packs)
  BY LeftIs
<1> HIDE DEF left
<1>5. left[j] \in Seq(BodySymbol) /\ left[j - 1] = Sent1(kind, b, packs[j]) \o left[j] /\ left[n] = <<>>
  BY <1>1, <1>2, <1>4 DEF Behinds
<1>6. left[k] = Sent1(kind, b, packs[j]) \o left[j]
  BY <1>2, <1>5
<1>7. packs[j] = Null => left[j] = <<>>
  BY <1>1, <1>3, <1>5
<1>8. j <= Len(packs)
  OBVIOUS
<1>9. left[j] \in Seq(BodySymbol)
  BY <1>5
<1> QED BY <1>3, <1>6, <1>7, <1>8, <1>9, Zenon DEF left, NextAt

\* Symbol by symbol.
LEMMA NextSymbols ==
  ASSUME NEW c \in Seq(Payload), NEW b \in Boundaries \cup {NoBoundary}, NEW rest \in Seq(BodySymbol)
  PROVE  /\ c \in Seq(Symbol) /\ rest \in Seq(Symbol) /\ HTTP_SEP \o rest \in Seq(Symbol)
         /\ c \o (HTTP_SEP \o rest) \in Seq(Symbol)
         /\ c # Null =>
              /\ SendChunkBody(c) \o rest = SizeHead(Len(c)) \o (c \o (HTTP_SEP \o rest))
              /\ SendBoundaryBody(c, b) \o rest = FlagHead(b) \o (c \o (HTTP_SEP \o rest))
         /\ c = Null /\ rest = <<>> =>
              /\ SendChunkBody(c) \o rest = SizeHead(0) \o HTTP_SEP
              /\ SendBoundaryBody(c, b) \o rest = FlagEnd(b)
<1>1. /\ c \in Seq(Symbol) /\ Len(c) \in Nat
      /\ SendChunkBody(c) \in Seq(BodySymbol) /\ SendBoundaryBody(c, b) \in Seq(BodySymbol)
      /\ c # Null =>
           /\ SendChunkBody(c) = (SizeHead(Len(c)) \o c) \o HTTP_SEP
           /\ SendBoundaryBody(c, b) = (FlagHead(b) \o c) \o HTTP_SEP
      /\ c = Null =>
           /\ SendChunkBody(c) = SizeHead(0) \o HTTP_SEP
           /\ SendBoundaryBody(c, b) = FlagEnd(b)
  BY EncodedIs DEF SizeHead, FlagHead, FlagEnd, HTTP_SEP
<1>2. rest \in Seq(Symbol) /\ HTTP_SEP \in Seq(Symbol)
  BY BodySymbols, SeqWider
<1>3. /\ HTTP_SEP \o rest \in Seq(Symbol) /\ c \o (HTTP_SEP \o rest) \in Seq(Symbol)
  BY <1>1, <1>2, ConcatProperties
<1>4. ASSUME NEW h \in Seq(Symbol)
      PROVE  ((h \o c) \o HTTP_SEP) \o rest = h \o (c \o (HTTP_SEP \o rest))
  <2>1. h \o c \in Seq(Symbol)
    BY <1>1, ConcatProperties
  <2>2. ((h \o c) \o HTTP_SEP) \o rest = (h \o c) \o (HTTP_SEP \o rest)
    BY <1>2, <2>1, Together, Zenon
  <2>3. (h \o c) \o (HTTP_SEP \o rest) = h \o (c \o (HTTP_SEP \o rest))
    BY <1>1, <1>3, Together, Zenon
  <2> QED BY <2>2, <2>3, Zenon
<1>5. c # Null =>
        /\ SendChunkBody(c) \o rest = SizeHead(Len(c)) \o (c \o (HTTP_SEP \o rest))
        /\ SendBoundaryBody(c, b) \o rest = FlagHead(b) \o (c \o (HTTP_SEP \o rest))
  <2>1. SizeHead(Len(c)) \in Seq(Symbol) /\ FlagHead(b) \in Seq(Symbol)
    <3>1. Len(c) \in Int
      BY <1>1
    <3> QED BY <3>1, HeadsAre
  <2> QED BY <1>1, <1>4, <2>1, Zenon
<1>6. c = Null /\ rest = <<>> =>
        /\ SendChunkBody(c) \o rest = SendChunkBody(c)
        /\ SendBoundaryBody(c, b) \o rest = SendBoundaryBody(c, b)
  BY <1>1, ConcatEmptySeq
<1> QED BY <1>1, <1>2, <1>3, <1>5, <1>6

\* The l symbols c are at the front of s, and rest is behind the first e in s and then w.
FrontTaken(s, w, c, l, e, rest) ==
  Read(s, l) = c /\ Consume(s, e) \in Seq(Symbol) /\ Makes(Consume(s, e), w, rest)

\* e is behind l and a line end, and within m.
WithEnd(l, e, m) == e = l + 2 /\ e <= m

\* The packet c and its line end, in front of the buffer s and then w.
LEMMA LineTaken ==
  ASSUME NEW s \in Seq(Symbol), NEW m \in Nat, NEW w \in Seq(Symbol), NEW c \in Seq(Symbol),
         NEW l \in Nat, NEW e \in Nat, NEW rest \in Seq(Symbol), NEW r \in Seq(Symbol), Makes(HTTP_SEP, rest, r),
         m = Len(s), l = Len(c), Joined(s, w, c, r), WithEnd(l, e, m)
  PROVE  FrontTaken(s, w, c, l, e, rest)
<1>0. e = l + 2 /\ e <= m
  BY DEF WithEnd
<1>1. HTTP_SEP \in Seq(Symbol) /\ Len(HTTP_SEP) = 2
  BY Patterns
<1>2. r = HTTP_SEP \o rest
  BY Zenon DEF Makes
<1> DEFINE a == c \o HTTP_SEP
<1>3. a \in Seq(Symbol) /\ Len(a) = l + 2
  <2>1. a \in Seq(Symbol) /\ Len(a) = Len(c) + Len(HTTP_SEP)
    BY <1>1, ConcatProperties
  <2> HIDE DEF a
  <2> QED BY <1>1, <2>1
<1>4. c \o r = a \o rest
  <2>1. \A x \in Seq(Symbol) : (c \o x) \o rest = c \o (x \o rest)
    BY Together, ZenonT(60)
  <2>2. (c \o HTTP_SEP) \o rest = c \o (HTTP_SEP \o rest)
    BY <1>1, <2>1, Zenon
  <2> QED BY <1>2, <2>2, Zenon
<1> HIDE DEF a
<1>5. Twice(s, w, c, r)
  <2>1. Len(c) <= Len(s)
    BY <1>0
  <2>2. s \o w = c \o r
    BY DEF Joined
  <2> QED BY <2>1, <2>2 DEF Twice
<1>6. Twice(s, w, a, rest)
  <2>1. Len(a) <= Len(s)
    BY <1>0, <1>3
  <2>2. s \o w = a \o rest
    BY <1>4, Zenon DEF Joined
  <2> QED BY <2>1, <2>2 DEF Twice
<1>7. Read(s, l) = c
  BY <1>5, FrontLeft
<1>8. e = Len(a)
  BY <1>0, <1>3
<1>9. Consume(s, e) \in Seq(Symbol) /\ Makes(Consume(s, e), w, rest)
  BY <1>3, <1>6, <1>8, FrontLeft
<1> QED BY <1>7, <1>9 DEF FrontTaken

\* get_chunk once the size is known.
GotChunk(q) ==
  IF q.chunkBytes = 0
  THEN Result("OK", Null, [q EXCEPT !.pkts = Consume(@, 2), !.chunkBytes = -1])
  ELSE IF q.chunkBytes > MaxChunk
  THEN Result("OK", q.pkts, [q EXCEPT !.pkts = Null, !.chunkBytes = -1])
  ELSE IF q.chunkBytes + 2 > Len(q.pkts)
  THEN Result("CONTINUE", Null, q)
  ELSE Result("OK", Read(q.pkts, q.chunkBytes),
              [q EXCEPT !.pkts = Consume(@, q.chunkBytes + 2), !.chunkBytes = -1])

\* get_chunk is that, behind the size.
LEMMA GetChunkIs ==
  ASSUME NEW p \in Parser
  PROVE  /\ p.chunkBytes >= 0 => GetChunk(p) = GotChunk(p)
         /\ p.chunkBytes < 0 /\ ReadChunkSize(p).ret # "OK" => GetChunk(p) = ReadChunkSize(p)
         /\ p.chunkBytes < 0 /\ ReadChunkSize(p).ret = "OK" => GetChunk(p) = GotChunk(ReadChunkSize(p).p)
<1>1. p.chunkBytes \in Int
  BY DEF Parser
<1>2. CASE p.chunkBytes >= 0
  <2>1. ~(p.chunkBytes < 0)
    BY <1>1, <1>2
  <2>2. GetChunk(p) = GotChunk(Result("OK", Null, p).p)
    BY <2>1 DEF GetChunk, GotChunk, Result
  <2>3. Result("OK", Null, p).p = p
    BY DEF Result
  <2> QED BY <1>2, <2>1, <2>2, <2>3
<1>3. CASE p.chunkBytes < 0
  <2>1. ~(p.chunkBytes >= 0)
    BY <1>1, <1>3
  <2> DEFINE r == ReadChunkSize(p)
  <2>2. GetChunk(p) = IF r.ret # "OK" THEN r ELSE GotChunk(r.p)
    <3>1. \A x, y : x # "OK" => (IF x # "OK" THEN y ELSE GotChunk(y)) = y
      OBVIOUS
    <3> QED BY <1>3 DEF GetChunk, GotChunk
  <2> HIDE DEF r
  <2> QED BY <2>1, <2>2 DEF r
<1> QED BY <1>1, <1>2, <1>3

\* A chunk is waited for, or taken with its line end.
LEMMA GotOne ==
  ASSUME NEW q \in Parser, NEW w \in Seq(Symbol), NEW c \in Seq(Symbol), NEW l \in Nat,
         NEW rest \in Seq(Symbol), NEW r \in Seq(Symbol), Makes(HTTP_SEP, rest, r),
         l = Len(c), l # 0, Fitting(c), q.chunkBytes = l, Joined(q.pkts, w, c, r)
  PROVE  \/ GotChunk(q).ret = "CONTINUE" /\ GotChunk(q).p = q
         \/ /\ GotChunk(q).ret = "OK" /\ GotChunk(q).packet = c /\ GotChunk(q).p.chunkBytes = -1
            /\ Makes(GotChunk(q).p.pkts, w, rest)
<1>1. q.pkts \in Seq(Symbol)
  BY DEF Parser
<1>2. PICK m \in Nat : m = Len(q.pkts)
  BY <1>1, LenProperties
<1>3. CASE ~(l + 2 <= m)
  <2>1. q.chunkBytes + 2 > Len(q.pkts) /\ q.chunkBytes # 0 /\ ~(q.chunkBytes > MaxChunk)
    BY <1>2, <1>3 DEF Fitting
  <2>2. GotChunk(q) = Result("CONTINUE", Null, q)
    BY <2>1 DEF GotChunk
  <2> QED BY <2>2 DEF Result
<1>4. CASE l + 2 <= m
  <2> DEFINE z == Consume(q.pkts, l + 2)
             x == [q EXCEPT !.pkts = z, !.chunkBytes = -1]
  <2>1. Read(q.pkts, l) = c /\ Makes(z, w, rest)
    <3>1. PICK s \in Seq(Symbol) : s = q.pkts
      BY <1>1
    <3>2. m = Len(s) /\ Joined(s, w, c, r)
      BY <1>2, <3>1
    <3>e. PICK e \in Nat : e = l + 2 /\ e <= m
      BY <1>4
    <3>3. WithEnd(l, e, m)
      BY <3>e DEF WithEnd
    <3>4. FrontTaken(s, w, c, l, e, rest)
      BY <3>2, <3>3, LineTaken
    <3> QED BY <3>e, <3>1, <3>4 DEF FrontTaken
  <2>2. ~(q.chunkBytes + 2 > Len(q.pkts)) /\ q.chunkBytes # 0 /\ ~(q.chunkBytes > MaxChunk)
    BY <1>2, <1>4 DEF Fitting
  <2>3. GotChunk(q) = Result("OK", c, x)
    BY <2>1, <2>2 DEF GotChunk
  <2> HIDE DEF z
  <2>4. x.pkts = z /\ x.chunkBytes = -1
    BY DEF Parser
  <2> HIDE DEF x
  <2>5. GotChunk(q).ret = "OK" /\ GotChunk(q).packet = c /\ GotChunk(q).p = x
    BY <2>3 DEF Result
  <2> QED BY <2>1, <2>4, <2>5
<1> QED BY <1>3, <1>4

\* The last chunk is taken, and of its line end what has arrived.
LEMMA GotLast ==
  ASSUME NEW q \in Parser, NEW w \in Seq(Symbol), q.chunkBytes = 0, Makes(q.pkts, w, HTTP_SEP)
  PROVE  /\ GotChunk(q).ret = "OK" /\ GotChunk(q).packet = Null /\ GotChunk(q).p.chunkBytes = -1
         /\ GotChunk(q).p.pkts \o w \in Junk
<1>1. q.pkts \in Seq(Symbol)
  BY DEF Parser
<1>2. q.pkts \o w = HTTP_SEP
  BY DEF Makes
<1>3. PICK n \in Nat : n = 2
  OBVIOUS
<1>4. n = Len(q.pkts \o w) /\ (q.pkts \o w)[n - 1] = CR /\ (q.pkts \o w)[n] = LF
  <2>1. Len(HTTP_SEP) = 2 /\ HTTP_SEP[1] = CR /\ HTTP_SEP[2] = LF /\ n - 1 = 1
    BY <1>3, Patterns DEF HTTP_SEP
  <2> QED BY <1>2, <1>3, <2>1
<1>5. 2 <= n /\ n - 2 <= Len(q.pkts)
  BY <1>1, <1>3, LenProperties
<1>6. Consume(q.pkts, n) \o w \in Junk
  BY <1>1, <1>4, <1>5, JunkLeft
<1> DEFINE z == Consume(q.pkts, 2)
           x == [q EXCEPT !.pkts = z, !.chunkBytes = -1]
<1>7. GotChunk(q) = Result("OK", Null, x)
  BY DEF GotChunk
<1>8. z \o w \in Junk
  BY <1>3, <1>6
<1> HIDE DEF z
<1>9. x.pkts = z /\ x.chunkBytes = -1
  BY DEF Parser
<1> HIDE DEF x
<1>10. GotChunk(q).ret = "OK" /\ GotChunk(q).packet = Null /\ GotChunk(q).p = x
  BY <1>7 DEF Result
<1> QED BY <1>8, <1>9, <1>10

\* GotChunk keeps what get_chunk keeps.
LEMMA GotKeeps ==
  ASSUME NEW q \in Parser, q.chunkBytes >= 0
  PROVE  GotChunk(q).p.type = q.type /\ GotChunk(q).p.boundary = q.boundary

BY GetChunkIs, GetChunkResult

\* A chunk of which the size is read.
LEMMA SizedTakes ==
  ASSUME NEW q \in Parser, q.type = "CHUNK", NEW w \in Seq(Symbol), NEW packs, NEW k \in Nat, NEW j \in Nat,
         j = k + 1, j < Len(packs), packs[j] # Null, packs[j] \in Seq(Symbol),
         NEW l \in Nat, l = Len(packs[j]), l # 0, Fitting(packs[j]), q.chunkBytes = l,
         NEW rest \in Seq(Symbol), rest = LeftOf("CHUNK", q.boundary, packs)[j],
         NEW r \in Seq(Symbol), Makes(HTTP_SEP, rest, r), Joined(q.pkts, w, packs[j], r)
  PROVE  Takes(w, packs, k, GotChunk(q))
<1>1. GotChunk(q).p.type = "CHUNK" /\ GotChunk(q).p.boundary = q.boundary
  BY GotKeeps
<1>2. \/ GotChunk(q).ret = "CONTINUE" /\ GotChunk(q).p = q
      \/ /\ GotChunk(q).ret = "OK" /\ GotChunk(q).packet = packs[j] /\ GotChunk(q).p.chunkBytes = -1
         /\ Makes(GotChunk(q).p.pkts, w, rest)
  BY GotOne
<1>3. CASE GotChunk(q).ret = "CONTINUE" /\ GotChunk(q).p = q
  <2>1. q.pkts \o w = packs[j] \o (HTTP_SEP \o LeftOf("CHUNK", q.boundary, packs)[j])
    BY Zenon DEF Makes, Joined
  <2>2. k < Len(packs)
    OBVIOUS
  <2>3. packs[k + 1] # Null /\ q.chunkBytes = Len(packs[k + 1])
        /\ q.pkts \o w = packs[k + 1] \o (HTTP_SEP \o LeftOf("CHUNK", q.boundary, packs)[k + 1])
    BY <2>1, Zenon
  <2>4. Rest(q.pkts \o w, q.chunkBytes, "CHUNK", q.boundary, packs, k)
    BY <2>2, <2>3, Zenon DEF Rest
  <2>5. IsBehind(q, w, packs, k)
    BY <2>4 DEF IsBehind
  <2> QED BY <1>3, <2>5 DEF Takes
<1>4. CASE /\ GotChunk(q).ret = "OK" /\ GotChunk(q).packet = packs[j] /\ GotChunk(q).p.chunkBytes = -1
           /\ Makes(GotChunk(q).p.pkts, w, rest)
  <2> DEFINE x == GotChunk(q).p
  <2>1. x.pkts \o w = LeftOf("CHUNK", q.boundary, packs)[j]
    BY <1>4, Zenon DEF Makes
  <2>2. x.chunkBytes = -1 /\ x.type = "CHUNK" /\ x.boundary = q.boundary
    BY <1>1, <1>4
  <2> HIDE DEF x
  <2>3. Rest(x.pkts \o w, x.chunkBytes, "CHUNK", q.boundary, packs, j)
    BY <2>1, <2>2, Zenon DEF Rest
  <2>4. IsBehind(x, w, packs, j)
    BY <2>2, <2>3 DEF IsBehind
  <2>5. IsBehind(GotChunk(q).p, w, packs, k + 1)
    BY <2>4 DEF x
  <2> QED BY <1>4, <2>5 DEF Takes
<1> QED BY <1>2, <1>3, <1>4

\* The last chunk, once its size is read.
LEMMA LastTakes ==
  ASSUME NEW q \in Parser, q.type = "CHUNK", NEW w \in Seq(Symbol), NEW packs, NEW k \in Nat, NEW j \in Nat,
         j = k + 1, j = Len(packs), packs[j] = Null, q.chunkBytes = 0, Makes(q.pkts, w, HTTP_SEP)
  PROVE  Takes(w, packs, k, GotChunk(q))
<1>1. GotChunk(q).p.type = "CHUNK"
  <2>1. q.chunkBytes >= 0
    OBVIOUS
  <2> QED BY <2>1, GotKeeps
<1>2. /\ GotChunk(q).ret = "OK" /\ GotChunk(q).packet = Null /\ GotChunk(q).p.chunkBytes = -1
      /\ GotChunk(q).p.pkts \o w \in Junk
  BY GotLast
<1>3. Rest(GotChunk(q).p.pkts \o w, GotChunk(q).p.chunkBytes, "CHUNK", GotChunk(q).p.boundary, packs, j)
  BY <1>2, Zenon DEF Rest
<1>4. IsBehind(GotChunk(q).p, w, packs, j)
  BY <1>1, <1>3 DEF IsBehind
<1> QED BY <1>2, <1>4 DEF Takes

\* The symbols of a line with a size, and of a line with a flag.
LEMMA SizeHeadIs ==
  ASSUME NEW v \in Nat
  PROVE  /\ SizeHead(v) \in Seq(Symbol) /\ 3 = Len(SizeHead(v))
         /\ SizeHead(v)[1] = Size(v) /\ SizeHead(v)[2] = CR /\ SizeHead(v)[3] = LF
<1>1. v \in Int /\ NoBoundary \in Boundaries \cup {NoBoundary}
  OBVIOUS
<1> QED BY <1>1, HeadsAre

\* get_chunk takes the next chunk, or waits for it.
LEMMA ChunkTakes ==
  ASSUME NEW p \in Parser, p.type = "CHUNK", NEW w \in Seq(Symbol), NEW packs, PacketsOf("CHUNK", packs),
         NEW k \in Nat, k < Len(packs), IsBehind(p, w, packs, k)
  PROVE  Takes(w, packs, k, GetChunk(p))
<1>0. PICK b \in Boundaries \cup {NoBoundary} : b = p.boundary
  BY DEF Parser
<1>1. PICK j \in Nat : j = k + 1
  OBVIOUS
<1>2. PICK kind : kind = "CHUNK"
  OBVIOUS
<1>3. /\ packs[j] \in Seq(Payload) /\ Fitting(packs[j]) /\ j <= Len(packs)
      /\ LeftOf(kind, b, packs)[j] \in Seq(BodySymbol)
      /\ LeftOf(kind, b, packs)[k] = Sent1(kind, b, packs[j]) \o LeftOf(kind, b, packs)[j]
      /\ (packs[j] = Null <=> j = Len(packs))
      /\ (packs[j] = Null => LeftOf(kind, b, packs)[j] = <<>>)
  <2>1. PacketsOf(kind, packs) /\ kind \in {"CHUNK", "BOUNDARY"}
    BY <1>2
  <2>2. NextAt(kind, b, packs, k, j)
    BY <1>1, <2>1, NextIs
  <2> QED BY <2>2, Zenon DEF NextAt
<1>4. PICK c \in Seq(Payload) : c = packs[j]
  BY <1>3
<1>5. PICK rest \in Seq(BodySymbol) : rest = LeftOf("CHUNK", b, packs)[j]
  BY <1>2, <1>3
<1>6. LeftOf("CHUNK", b, packs)[k] = SendChunkBody(c) \o rest
  BY <1>2, <1>3, <1>4, <1>5 DEF Sent1
<1>7. /\ c \in Seq(Symbol) /\ rest \in Seq(Symbol) /\ HTTP_SEP \o rest \in Seq(Symbol)
      /\ c \o (HTTP_SEP \o rest) \in Seq(Symbol)
      /\ c # Null => SendChunkBody(c) \o rest = SizeHead(Len(c)) \o (c \o (HTTP_SEP \o rest))
      /\ c = Null /\ rest = <<>> => SendChunkBody(c) \o rest = SizeHead(0) \o HTTP_SEP
  BY NextSymbols
<1>8. PICK l \in Nat : l = Len(c)
  BY <1>7, LenProperties
<1>9. c # Null => l # 0
  BY <1>7, <1>8, EmptySeq DEF Null
<1>10. PICK r \in Seq(Symbol) : Makes(HTTP_SEP, rest, r)
  BY <1>7 DEF Makes
<1>11. ASSUME NEW q \in Parser, q.type = "CHUNK", q.boundary = b, c # Null, q.chunkBytes = l, Joined(q.pkts, w, c, r)
       PROVE  Takes(w, packs, k, GotChunk(q))
  <2>1. j < Len(packs) /\ Fitting(packs[j])
    BY <1>3, <1>4, <1>11
  <2> QED BY <1>1, <1>4, <1>5, <1>7, <1>8, <1>9, <1>10, <1>11, <2>1, SizedTakes
<1>12. ASSUME NEW q \in Parser, q.type = "CHUNK", c = Null, q.chunkBytes = 0, Makes(q.pkts, w, HTTP_SEP)
       PROVE  Takes(w, packs, k, GotChunk(q))
  BY <1>1, <1>3, <1>4, <1>12, LastTakes
<1>13. Rest(p.pkts \o w, p.chunkBytes, "CHUNK", b, packs, k)
  BY <1>0 DEF IsBehind
<1>14. CASE p.chunkBytes = -1 /\ p.pkts \o w = LeftOf("CHUNK", b, packs)[k]
  <2>1. p.chunkBytes < 0
    BY <1>14
  <2> DEFINE q == ReadChunkSize(p).p
  <2>2. q \in Parser /\ q.type = "CHUNK" /\ q.boundary = b
    BY <1>0, ReadChunkSizeResult
  <2>3. ASSUME ReadChunkSize(p).ret = "CONTINUE", ReadChunkSize(p).p = p
        PROVE  Takes(w, packs, k, GetChunk(p))
    <3>1. GetChunk(p) = ReadChunkSize(p)
      BY <2>1, <2>3, GetChunkIs
    <3> QED BY <2>3, <3>1 DEF Takes
  <2>4. ReadChunkSize(p).ret = "OK" => GetChunk(p) = GotChunk(q)
    BY <2>1, GetChunkIs
  <2> HIDE DEF q
  <2>5. CASE c # Null
    <3> DEFINE a == SizeHead(l)
               z == c \o (HTTP_SEP \o rest)
    <3>1. a \in Seq(Symbol) /\ 3 = Len(a) /\ a[1] = Size(l) /\ a[2] = CR /\ a[3] = LF
      BY SizeHeadIs
    <3>2. z \in Seq(Symbol) /\ p.pkts \o w = a \o z
      BY <1>6, <1>7, <1>8, <1>14, <2>5, Zenon
    <3>3. z = c \o r
      BY <1>10, Zenon DEF Makes
    <3> HIDE DEF a, z
    <3>4. Joined(p.pkts, w, a, z)
      BY <3>2 DEF Joined
    <3>5. \/ ReadChunkSize(p).ret = "CONTINUE" /\ ReadChunkSize(p).p = p
          \/ ReadChunkSize(p).ret = "OK" /\ q.chunkBytes = l /\ Makes(q.pkts, w, z)
      BY <3>1, <3>2, <3>4, SizeRead DEF q
    <3>6. ASSUME ReadChunkSize(p).ret = "OK", q.chunkBytes = l, Makes(q.pkts, w, z)
          PROVE  Takes(w, packs, k, GetChunk(p))
      <4>1. Joined(q.pkts, w, c, r)
        BY <3>3, <3>6, Zenon DEF Makes, Joined
      <4> QED BY <1>11, <2>2, <2>4, <2>5, <3>6, <4>1
    <3> QED BY <2>3, <3>5, <3>6
  <2>6. CASE c = Null
    <3> DEFINE a == SizeHead(0)
    <3>1. a \in Seq(Symbol) /\ 3 = Len(a) /\ a[1] = Size(0) /\ a[2] = CR /\ a[3] = LF
      BY SizeHeadIs
    <3>2. HTTP_SEP \in Seq(Symbol) /\ p.pkts \o w = a \o HTTP_SEP
      BY <1>3, <1>4, <1>5, <1>2, <1>6, <1>7, <1>14, <2>6, Patterns, Zenon
    <3> HIDE DEF a
    <3>4. Joined(p.pkts, w, a, HTTP_SEP)
      BY <3>2 DEF Joined
    <3>5. \/ ReadChunkSize(p).ret = "CONTINUE" /\ ReadChunkSize(p).p = p
          \/ ReadChunkSize(p).ret = "OK" /\ q.chunkBytes = 0 /\ Makes(q.pkts, w, HTTP_SEP)
      BY <3>1, <3>2, <3>4, SizeRead DEF q
    <3> QED BY <1>12, <2>2, <2>3, <2>4, <2>6, <3>5
  <2> QED BY <2>5, <2>6
<1>15. CASE /\ packs[k + 1] # Null /\ p.chunkBytes = Len(packs[k + 1])
            /\ p.pkts \o w = packs[k + 1] \o (HTTP_SEP \o LeftOf("CHUNK", b, packs)[k + 1])
  <2>1. c # Null /\ p.chunkBytes = l
    BY <1>1, <1>4, <1>8, <1>15
  <2>2. Joined(p.pkts, w, c, r)
    BY <1>1, <1>4, <1>5, <1>10, <1>15, Zenon DEF Makes, Joined
  <2>3. Takes(w, packs, k, GotChunk(p))
    BY <1>0, <1>11, <2>1, <2>2
  <2>4. GetChunk(p) = GotChunk(p)
    BY <2>1, GetChunkIs
  <2> QED BY <2>3, <2>4
<1>16. k # Len(packs)
  OBVIOUS
<1>17. \/ p.chunkBytes = -1 /\ p.pkts \o w = LeftOf("CHUNK", b, packs)[k]
       \/ /\ packs[k + 1] # Null /\ p.chunkBytes = Len(packs[k + 1])
          /\ p.pkts \o w = packs[k + 1] \o (HTTP_SEP \o LeftOf("CHUNK", b, packs)[k + 1])
  BY <1>13, <1>16, Zenon DEF Rest
<1> QED BY <1>14, <1>15, <1>17, Zenon

\* A part with l symbols between two flags f.
PartAt(t, f, l) ==
  /\ t[1] = f /\ t[2] = CR /\ t[3] = LF
  /\ \A i \in 4 .. l + 3 : t[i] \in Payload
  /\ t[l + 4] = CR /\ t[l + 5] = LF /\ t[l + 6] = f

\* The patterns of get_boundary.
OneFlag(f)    == <<f>>
FlagDashes(f) == <<f>> \o <<Dashes>>

\* What they fit.
LEMMA FlagPatterns ==
  ASSUME NEW f \in Symbol, NEW t, NEW i \in Nat
  PROVE  /\ OneFlag(f) \in Seq(Symbol) /\ Len(OneFlag(f)) = 1
         /\ FlagDashes(f) \in Seq(Symbol) /\ Len(FlagDashes(f)) = 2
         /\ (FitsAt(t, OneFlag(f), 1, i) <=> t[i] = f)
         /\ (FitsAt(t, FlagDashes(f), 2, i) <=> t[i] = f /\ t[i + 1] = Dashes)
<1>1. Dashes \in Symbol
  BY DEF Symbol
<1>2. <<f>> \in Seq(Symbol) /\ Len(<<f>>) = 1 /\ <<f>>[1] = f
  OBVIOUS
<1>3. <<Dashes>> \in Seq(Symbol) /\ Len(<<Dashes>>) = 1 /\ <<Dashes>>[1] = Dashes
  BY <1>1
<1> DEFINE x == <<f>>
           y == x \o <<Dashes>>
<1>4. y \in Seq(Symbol) /\ Len(y) = 2 /\ y[1] = f /\ y[2] = Dashes
  <2>1. /\ y \in Seq(Symbol) /\ Len(y) = Len(x) + Len(<<Dashes>>)
        /\ \A j \in 1 .. Len(x) + Len(<<Dashes>>) : y[j] = IF j <= Len(x) THEN x[j] ELSE <<Dashes>>[j - Len(x)]
    BY <1>2, <1>3, ConcatProperties
  <2> HIDE DEF y
  <2> QED BY <1>2, <1>3, <2>1
<1>5. x \in Seq(Symbol) /\ Len(x) = 1 /\ x[1] = f
  BY <1>2
<1> HIDE DEF x, y
<1>6. FitsAt(t, x, 1, i) <=> t[i] = f
  <2>1. 1 .. 1 = {1} /\ i + 1 - 1 = i
    OBVIOUS
  <2> QED BY <1>5, <2>1 DEF FitsAt
<1>7. FitsAt(t, y, 2, i) <=> t[i] = f /\ t[i + 1] = Dashes
  <2>1. 1 .. 2 = {1, 2} /\ i + 1 - 1 = i /\ i + 2 - 1 = i + 1
    OBVIOUS
  <2> QED BY <1>4, <2>1 DEF FitsAt
<1> QED BY <1>4, <1>5, <1>6, <1>7 DEF x, y, OneFlag, FlagDashes

\* A flag is not one of the other symbols.
LEMMA FlagOther ==
  ASSUME NEW b
  PROVE  Flag(b) # CR /\ Flag(b) # LF /\ Flag(b) # Dashes /\ Flag(b) \notin Payload /\ CR # Dashes
<1>1. Flag(b)[1] = "flag" /\ CR[1] = "CR" /\ LF[1] = "LF" /\ Dashes[1] = "dashes"
  BY DEF Flag, CR, LF, Dashes
<1> QED BY <1>1, BodySymbols

\* What get_boundary finds in the m symbols s while there is a part.
PartFound(s, m, f, l) ==
  /\ m = 0 => Search(s, <<f>>, 1) = 0
  /\ m # 0 => Search(s, <<f>>, 1) = 1
  /\ l + 6 <= m => Search(s, <<f>>, 4) = l + 6
  /\ ~(l + 6 <= m) => Search(s, <<f>>, 4) = 0 /\ Search(s, <<f>> \o <<Dashes>>, 1) = 0

\* It finds that.
LEMMA PartSearch ==
  ASSUME NEW s \in Seq(Symbol), NEW m \in Nat, m = Len(s), NEW t \in Seq(Symbol), FrontIs(s, m, t),
         NEW b \in Boundaries \cup {NoBoundary}, NEW f, f = Flag(b), NEW l \in Nat, PartAt(t, f, l)
  PROVE  PartFound(s, m, f, l)
<1>1. f \in Symbol
  BY DEF Flag, Symbol
<1>2. f # CR /\ f # LF /\ f \notin Payload /\ CR # Dashes
  BY FlagOther
<1> DEFINE x == OneFlag(f)
           y == FlagDashes(f)
<1>p. /\ x \in Seq(Symbol) /\ Len(x) = 1 /\ y \in Seq(Symbol) /\ Len(y) = 2
      /\ \A i \in Nat : FitsAt(t, x, 1, i) <=> t[i] = f
      /\ \A i \in Nat : FitsAt(t, y, 2, i) <=> t[i] = f /\ t[i + 1] = Dashes
  <2>1. ASSUME NEW i \in Nat
        PROVE  /\ x \in Seq(Symbol) /\ Len(x) = 1 /\ y \in Seq(Symbol) /\ Len(y) = 2
               /\ (FitsAt(t, x, 1, i) <=> t[i] = f)
               /\ (FitsAt(t, y, 2, i) <=> t[i] = f /\ t[i + 1] = Dashes)
    BY <1>1, FlagPatterns
  <2>2. 0 \in Nat
    OBVIOUS
  <2> QED BY <2>1, <2>2, Zenon
<1> HIDE DEF x, y
<1>3. x \in Seq(Symbol) /\ Len(x) = 1 /\ \A i \in Nat : FitsAt(t, x, 1, i) <=> t[i] = f
  BY <1>p
<1>4. /\ y \in Seq(Symbol) /\ Len(y) = 2
      /\ \A i \in Nat : FitsAt(t, y, 2, i) <=> t[i] = f /\ t[i + 1] = Dashes
  BY <1>p
<1>q. x \in Seq(Symbol) /\ y \in Seq(Symbol)
  BY <1>p
<1>5. PICK one \in Nat \ {0} : one = 1 /\ one = Len(x)
  BY <1>3
<1>6. PICK two \in Nat \ {0} : two = 2 /\ two = Len(y)
  BY <1>4
<1>7. PICK four \in Nat \ {0} : four = 4
  OBVIOUS
<1>8. PICK e \in Nat : e = l + 6 /\ four <= e /\ one <= e
  BY <1>5, <1>7
<1>r. one = Len(x) /\ two = Len(y) /\ four <= e /\ one <= e
  BY <1>5, <1>6, <1>8
<1>9. ASSUME NEW i \in Nat, 2 <= i, i <= l + 5 PROVE t[i] # f
  <2>1. i = 2 \/ i = 3 \/ i \in 4 .. l + 3 \/ i = l + 4 \/ i = l + 5
    BY <1>9
  <2> QED BY <1>2, <2>1 DEF PartAt
<1>10. t[1] = f /\ t[2] = CR /\ t[e] = f
  BY <1>8 DEF PartAt
<1>11. /\ m = 0 => Search(s, x, one) = 0
       /\ m # 0 => Search(s, x, one) = one
  <2>1. one \in Nat /\ one <= one /\ NotBefore(t, x, one, one, one) /\ FitsAt(t, x, one, one)
    BY <1>3, <1>5, <1>10 DEF NotBefore
  <2>2. /\ one + one - 1 <= m => Search(s, x, one) = one
        /\ m < one => Search(s, x, one) = 0
    BY <1>r, <2>1, <1>q, SearchFront
  <2> QED BY <1>5, <2>2
<1>12. /\ l + 6 <= m => Search(s, x, four) = e
       /\ ~(l + 6 <= m) => Search(s, x, four) = 0
  <2>1. NotBefore(t, x, one, four, e) /\ FitsAt(t, x, one, e)
    BY <1>3, <1>5, <1>7, <1>8, <1>9, <1>10 DEF NotBefore
  <2>2. /\ e + one - 1 <= m => Search(s, x, four) = e
        /\ m < e => Search(s, x, four) = 0
    BY <1>r, <2>1, <1>q, SearchFront
  <2> QED BY <1>5, <1>8, <2>2
<1>13. ~(l + 6 <= m) => Search(s, y, one) = 0
  <2>1. NotBefore(t, y, two, one, e)
    <3> SUFFICES ASSUME NEW i \in one .. e - 1 PROVE ~FitsAt(t, y, two, i)
      BY DEF NotBefore
    <3>1. i \in Nat /\ (i = 1 \/ (2 <= i /\ i <= l + 5))
      BY <1>5, <1>8
    <3>2. ~(t[i] = f /\ t[i + 1] = Dashes)
      BY <1>2, <1>9, <1>10, <3>1
    <3> QED BY <1>4, <1>6, <3>1, <3>2
  <2>2. m < e => Search(s, y, one) = 0
    BY <1>r, <2>1, <1>q, SearchFront, SMTT(30)
  <2> QED BY <1>8, <2>2
<1> QED BY <1>5, <1>7, <1>8, <1>11, <1>12, <1>13 DEF x, y, OneFlag, FlagDashes, PartFound

\* The end flag, and its line end.
EndFlagAt(t, f) == 4 = Len(t) /\ t[1] = f /\ t[2] = Dashes /\ t[3] = CR /\ t[4] = LF

\* What it finds at the end.
LEMMA EndSearch ==
  ASSUME NEW s \in Seq(Symbol), NEW m \in Nat, m = Len(s), NEW t \in Seq(Symbol), FrontIs(s, m, t),
         NEW b \in Boundaries \cup {NoBoundary}, NEW f, f = Flag(b), EndFlagAt(t, f)
  PROVE  /\ m = 0 => Search(s, <<f>>, 1) = 0
         /\ m # 0 => Search(s, <<f>>, 1) = 1
         /\ Search(s, <<f>>, 4) = 0
         /\ 2 <= m => Search(s, <<f>> \o <<Dashes>>, 1) = 1
         /\ ~(2 <= m) => Search(s, <<f>> \o <<Dashes>>, 1) = 0
<1>1. f \in Symbol
  BY DEF Flag, Symbol
<1>2. f # CR /\ f # LF
  BY FlagOther
<1> DEFINE x == OneFlag(f)
           y == FlagDashes(f)
<1>p. /\ x \in Seq(Symbol) /\ Len(x) = 1 /\ y \in Seq(Symbol) /\ Len(y) = 2
      /\ \A i \in Nat : FitsAt(t, x, 1, i) <=> t[i] = f
      /\ \A i \in Nat : FitsAt(t, y, 2, i) <=> t[i] = f /\ t[i + 1] = Dashes
  <2>1. ASSUME NEW i \in Nat
        PROVE  /\ x \in Seq(Symbol) /\ Len(x) = 1 /\ y \in Seq(Symbol) /\ Len(y) = 2
               /\ (FitsAt(t, x, 1, i) <=> t[i] = f)
               /\ (FitsAt(t, y, 2, i) <=> t[i] = f /\ t[i + 1] = Dashes)
    BY <1>1, FlagPatterns
  <2>2. 0 \in Nat
    OBVIOUS
  <2> QED BY <2>1, <2>2, Zenon
<1> HIDE DEF x, y
<1>3. x \in Seq(Symbol) /\ Len(x) = 1 /\ \A i \in Nat : FitsAt(t, x, 1, i) <=> t[i] = f
  BY <1>p
<1>4. /\ y \in Seq(Symbol) /\ Len(y) = 2
      /\ \A i \in Nat : FitsAt(t, y, 2, i) <=> t[i] = f /\ t[i + 1] = Dashes
  BY <1>p
<1>q. x \in Seq(Symbol) /\ y \in Seq(Symbol)
  BY <1>p
<1>5. PICK one \in Nat \ {0} : one = 1 /\ one = Len(x)
  BY <1>3
<1>6. PICK two \in Nat \ {0} : two = 2 /\ two = Len(y)
  BY <1>4
<1>7. PICK four \in Nat \ {0} : four = 4
  OBVIOUS
<1>8. PICK e \in Nat : e = 5 /\ four <= e
  BY <1>7
<1>r. one = Len(x) /\ two = Len(y) /\ four <= e
  BY <1>5, <1>6, <1>8
<1>9. m <= 4
  BY DEF FrontIs, EndFlagAt
<1>10. /\ m = 0 => Search(s, x, one) = 0
       /\ m # 0 => Search(s, x, one) = one
  <2>1. one \in Nat /\ one <= one /\ NotBefore(t, x, one, one, one) /\ FitsAt(t, x, one, one)
    BY <1>3, <1>5 DEF NotBefore, EndFlagAt
  <2>2. /\ one + one - 1 <= m => Search(s, x, one) = one
        /\ m < one => Search(s, x, one) = 0
    BY <1>r, <2>1, <1>q, SearchFront
  <2> QED BY <1>5, <2>2
<1>11. Search(s, x, four) = 0
  <2>1. NotBefore(t, x, one, four, e)
    BY <1>2, <1>3, <1>5, <1>7, <1>8 DEF NotBefore, EndFlagAt
  <2>2. m < e => Search(s, x, four) = 0
    BY <1>r, <2>1, <1>q, SearchFront, SMTT(30)
  <2> QED BY <1>8, <1>9, <2>2
<1>12. /\ 2 <= m => Search(s, y, one) = one
       /\ ~(2 <= m) => Search(s, y, one) = 0
  <2>1. one \in Nat /\ one <= one /\ NotBefore(t, y, two, one, one) /\ FitsAt(t, y, two, one)
    BY <1>4, <1>5, <1>6 DEF NotBefore, EndFlagAt
  <2>2. /\ one + two - 1 <= m => Search(s, y, one) = one
        /\ ~(one + two - 1 <= m) => Search(s, y, one) = 0
    BY <1>r, <2>1, <1>q, SearchFront, SMTT(30)
  <2> QED BY <1>5, <1>6, <2>2
<1> QED BY <1>5, <1>7, <1>10, <1>11, <1>12 DEF x, y, OneFlag, FlagDashes

\* t is the n symbols of x and then the k symbols of y.
Apart(x, n, y, k, t) ==
  /\ t \in Seq(Symbol) /\ Len(t) = n + k
  /\ \A i \in 1 .. n : t[i] = x[i]
  /\ \A i \in 1 .. k : t[n + i] = y[i]

\* So is a concatenation.
LEMMA Places ==
  ASSUME NEW x \in Seq(Symbol), NEW y \in Seq(Symbol), NEW n \in Nat, n = Len(x), NEW k \in Nat, k = Len(y),
         NEW t, Makes(x, y, t)
  PROVE  Apart(x, n, y, k, t)
<1>1. /\ x \o y \in Seq(Symbol) /\ Len(x \o y) = n + k
      /\ \A i \in 1 .. n + k : (x \o y)[i] = IF i <= n THEN x[i] ELSE y[i - n]
  BY ConcatProperties
<1>2. x \o y = t
  BY DEF Makes
<1>3. t \in Seq(Symbol) /\ Len(t) = n + k /\ \A i \in 1 .. n + k : t[i] = IF i <= n THEN x[i] ELSE y[i - n]
  BY <1>1, <1>2, Zenon
<1>4. ASSUME NEW i \in 1 .. n PROVE t[i] = x[i]
  <2>1. i \in 1 .. n + k /\ i <= n
    OBVIOUS
  <2> QED BY <1>3, <2>1
<1>5. ASSUME NEW i \in 1 .. k PROVE t[n + i] = y[i]
  <2>1. n + i \in 1 .. n + k /\ ~(n + i <= n) /\ (n + i) - n = i
    OBVIOUS
  <2> QED BY <1>3, <2>1
<1> QED BY <1>3, <1>4, <1>5 DEF Apart

\* A part is where get_boundary looks for it.
LEMMA PartIs ==
  ASSUME NEW b \in Boundaries \cup {NoBoundary}, NEW c \in Seq(Payload), NEW l \in Nat, l = Len(c),
         NEW rest \in Seq(Symbol), NEW k \in Nat \ {0}, k = Len(rest), rest[1] = Flag(b),
         NEW r \in Seq(Symbol), Makes(HTTP_SEP, rest, r), NEW z \in Seq(Symbol), Makes(c, r, z),
         NEW t, Makes(FlagHead(b), z, t)
  PROVE  t \in Seq(Symbol) /\ PartAt(t, Flag(b), l)
<1>1. PICK two \in Nat : two = 2 /\ two = Len(HTTP_SEP)
  BY Patterns
<1>2. HTTP_SEP \in Seq(Symbol) /\ HTTP_SEP[1] = CR /\ HTTP_SEP[2] = LF
  BY Patterns DEF HTTP_SEP
<1>3. PICK three \in Nat : three = 3 /\ three = Len(FlagHead(b))
  <2>1. 3 = Len(FlagHead(b))
    BY HeadsAre, 0 \in Int
  <2> QED BY <2>1
<1>4. /\ FlagHead(b) \in Seq(Symbol)
      /\ FlagHead(b)[1] = Flag(b) /\ FlagHead(b)[2] = CR /\ FlagHead(b)[3] = LF
  BY HeadsAre, 0 \in Int
<1>5. c \in Seq(Symbol)
  BY BodySymbols, SeqWider
<1>6. /\ Len(r) = two + k
      /\ \A i \in 1 .. two : r[i] = HTTP_SEP[i]
      /\ \A i \in 1 .. k : r[two + i] = rest[i]
  <2>1. two = Len(HTTP_SEP) /\ HTTP_SEP \in Seq(Symbol) /\ k \in Nat
    BY <1>1, <1>2
  <2>2. Apart(HTTP_SEP, two, rest, k, r)
    BY <2>1, Places
  <2> QED BY <2>2, Zenon DEF Apart
<1>7. PICK j \in Nat : j = Len(r)
  BY LenProperties
<1>8. /\ Len(z) = l + j
      /\ \A i \in 1 .. l : z[i] = c[i]
      /\ \A i \in 1 .. j : z[l + i] = r[i]
  <2>1. Apart(c, l, r, j, z)
    BY <1>5, <1>7, Places
  <2> QED BY <2>1, Zenon DEF Apart
<1>9. PICK h \in Nat : h = Len(z)
  BY LenProperties
<1>10. /\ t \in Seq(Symbol) /\ Len(t) = three + h
       /\ \A i \in 1 .. three : t[i] = FlagHead(b)[i]
       /\ \A i \in 1 .. h : t[three + i] = z[i]
  <2>1. three = Len(FlagHead(b))
    BY <1>3
  <2>2. FlagHead(b) \in Seq(Symbol)
    BY <1>4
  <2>3. Apart(FlagHead(b), three, z, h, t)
    BY <1>9, <2>1, <2>2, Places
  <2> QED BY <2>3, Zenon DEF Apart
<1>11. t[1] = Flag(b) /\ t[2] = CR /\ t[3] = LF
  <2>1. 1 \in 1 .. three /\ 2 \in 1 .. three /\ 3 \in 1 .. three
    BY <1>3
  <2> QED BY <1>4, <1>10, <2>1
<1>12. r[1] = CR /\ r[2] = LF /\ r[3] = Flag(b)
  <2>1. 1 \in 1 .. two /\ 2 \in 1 .. two /\ 1 \in 1 .. k /\ two + 1 = 3
    BY <1>1
  <2> QED BY <1>2, <1>6, <2>1
<1>13. ASSUME NEW i \in 4 .. l + 3 PROVE t[i] \in Payload
  <2>1. i - 3 \in 1 .. l /\ i - 3 \in 1 .. h /\ three + (i - 3) = i
    BY <1>3, <1>8, <1>9
  <2>2. t[i] = c[i - 3]
    BY <1>8, <1>10, <2>1
  <2> QED BY <2>1, <2>2, ElementOfSeq
<1>14. ASSUME NEW i \in 1 .. 3 PROVE t[l + 3 + i] = r[i]
  <2>1. i \in 1 .. j /\ l + i \in 1 .. h /\ three + (l + i) = l + 3 + i
    <3>1. two = 2 /\ three = 3 /\ j = two + k /\ h = l + j
      BY <1>1, <1>3, <1>6, <1>7, <1>8, <1>9
    <3> QED BY <3>1
  <2> QED BY <1>8, <1>10, <2>1
<1>15. t[l + 4] = CR /\ t[l + 5] = LF /\ t[l + 6] = Flag(b)
  <2>1. l + 3 + 1 = l + 4 /\ l + 3 + 2 = l + 5 /\ l + 3 + 3 = l + 6
        /\ 1 \in 1 .. 3 /\ 2 \in 1 .. 3 /\ 3 \in 1 .. 3
    OBVIOUS
  <2> QED BY <1>12, <1>14, <2>1
<1> QED BY <1>10, <1>11, <1>13, <1>15 DEF PartAt

\* The part is taken with its flag and line ends.
LEMMA PartTaken ==
  ASSUME NEW s \in Seq(Symbol), NEW m \in Nat, m = Len(s), NEW w \in Seq(Symbol),
         NEW b \in Boundaries \cup {NoBoundary}, NEW c \in Seq(Symbol), NEW l \in Nat, l = Len(c),
         NEW rest \in Seq(Symbol), NEW r \in Seq(Symbol), Makes(HTTP_SEP, rest, r),
         NEW z \in Seq(Symbol), Makes(c, r, z), Joined(s, w, FlagHead(b), z), l + 6 <= m
  PROVE  /\ Read(Consume(s, 3), l) = c
         /\ Makes(Consume(Consume(s, 3), l + 2), w, rest)
<1>1. FlagHead(b) \in Seq(Symbol) /\ 3 = Len(FlagHead(b))
  BY HeadsAre, 0 \in Int
<1>2. Twice(s, w, FlagHead(b), z)
  <2>1. Len(FlagHead(b)) <= Len(s)
    BY <1>1
  <2>2. s \o w = FlagHead(b) \o z
    BY DEF Joined
  <2> QED BY <2>1, <2>2 DEF Twice
<1>3. PICK n \in Nat : n = 3
  OBVIOUS
<1>4. n = Len(FlagHead(b))
  BY <1>1, <1>3
<1>5. /\ n \in 0 .. Len(s) /\ Consume(s, n) \in Seq(Symbol)
      /\ Makes(Consume(s, n), w, z)
  BY <1>1, <1>2, <1>4, FrontLeft
<1>6. Len(Consume(s, n)) = m - n
  BY <1>5, ReadAndLeft
<1>7. PICK o \in Seq(Symbol) : o = Consume(s, n)
  BY <1>5
<1>8. PICK k \in Nat : k = Len(o) /\ k = m - n
  BY <1>6, <1>7, LenProperties
<1>9. PICK e \in Nat : e = l + 2 /\ e <= k
  BY <1>3, <1>8
<1>12. k = Len(o)
  BY <1>8
<1>10. Joined(o, w, c, r)
  BY <1>5, <1>7, Zenon DEF Makes, Joined
<1>11. WithEnd(l, e, k)
  BY <1>9 DEF WithEnd
<1>13. FrontTaken(o, w, c, l, e, rest)
  BY <1>10, <1>11, <1>12, LineTaken
<1> QED BY <1>3, <1>7, <1>9, <1>13 DEF FrontTaken

\* What get_boundary makes of what it finds.
LEMMA GetBoundaryIs ==
  ASSUME NEW p \in Parser, NEW f, f = Flag(p.boundary)
  PROVE  /\ Search(p.pkts, <<f>>, 1) = 0 => GetBoundary(p).ret = "CONTINUE" /\ GetBoundary(p).p = p
         /\ \A l \in Nat : Search(p.pkts, <<f>>, 1) = 1 /\ Search(p.pkts, <<f>>, 4) = l + 6 =>
              /\ GetBoundary(p).ret = "OK" /\ GetBoundary(p).packet = Read(Consume(p.pkts, 3), l)
              /\ GetBoundary(p).p.pkts = Consume(Consume(p.pkts, 3), l + 2)
         /\ Search(p.pkts, <<f>>, 1) = 1 /\ Search(p.pkts, <<f>>, 4) = 0 =>
              /\ Search(p.pkts, <<f>> \o <<Dashes>>, 1) = 0 =>
                   GetBoundary(p).ret = "CONTINUE" /\ GetBoundary(p).p = p
              /\ Search(p.pkts, <<f>> \o <<Dashes>>, 1) # 0 =>
                   /\ GetBoundary(p).ret = "OK" /\ GetBoundary(p).packet = Null
                   /\ GetBoundary(p).p.pkts = Consume(p.pkts, 4)
<1> DEFINE begin == Search(p.pkts, <<f>>, 1)
           next  == Search(p.pkts, <<f>>, 4)
           dash  == Search(p.pkts, <<f>> \o <<Dashes>>, 1)
           open  == Consume(p.pkts, 3)
           four  == Consume(p.pkts, 4)
<1>1. CASE begin = 0
  <2>1. GetBoundary(p) = Result("CONTINUE", Null, p)
    BY <1>1 DEF GetBoundary
  <2> QED BY <1>1, <2>1 DEF Result
<1>2. CASE begin = 1
  <2>1. GetBoundary(p) =
          IF next # 0
          THEN IF next - 1 - 5 < 0
               THEN Result("OK", open, [p EXCEPT !.pkts = Null])
               ELSE Result("OK", Read(open, next - 1 - 5), [p EXCEPT !.pkts = Consume(open, next - 1 - 5 + 2)])
          ELSE IF dash # 0
          THEN Result("OK", Null, [p EXCEPT !.pkts = four])
          ELSE Result("CONTINUE", Null, p)
    <3>1. 1 + 3 = 4 /\ 1 # 0
      OBVIOUS
    <3>2. Search(p.pkts, <<Flag(p.boundary)>>, begin + 3) = next
      BY <1>2, <3>1
    <3> QED BY <1>2, <3>1, <3>2 DEF GetBoundary
  <2> HIDE DEF begin, next, dash, open, four
  <2>2. ASSUME NEW l \in Nat, next = l + 6
        PROVE  /\ GetBoundary(p).ret = "OK" /\ GetBoundary(p).packet = Read(open, l)
               /\ GetBoundary(p).p.pkts = Consume(open, l + 2)
    <3>1. next # 0 /\ next - 1 - 5 = l /\ ~(l < 0)
      BY <2>2
    <3> DEFINE z == Consume(open, l + 2)
               x == [p EXCEPT !.pkts = z]
               a == Read(open, l)
    <3>2. GetBoundary(p) = Result("OK", a, x)
      BY <2>1, <3>1
    <3> HIDE DEF z, a
    <3>3. x.pkts = z
      BY DEF Parser
    <3> HIDE DEF x
    <3>4. GetBoundary(p).ret = "OK" /\ GetBoundary(p).packet = a /\ GetBoundary(p).p = x
      BY <3>2 DEF Result
    <3> QED BY <3>3, <3>4 DEF z, a
  <2>3. ASSUME next = 0, dash # 0
        PROVE  /\ GetBoundary(p).ret = "OK" /\ GetBoundary(p).packet = Null
               /\ GetBoundary(p).p.pkts = four
    <3> DEFINE x == [p EXCEPT !.pkts = four]
    <3>1. GetBoundary(p) = Result("OK", Null, x)
      BY <2>1, <2>3
    <3>2. x.pkts = four
      BY DEF Parser
    <3> HIDE DEF x
    <3>3. GetBoundary(p).ret = "OK" /\ GetBoundary(p).packet = Null /\ GetBoundary(p).p = x
      BY <3>1 DEF Result
    <3> QED BY <3>2, <3>3
  <2>4. ASSUME next = 0, dash = 0
        PROVE  GetBoundary(p).ret = "CONTINUE" /\ GetBoundary(p).p = p
    BY <2>1, <2>4 DEF Result
  <2>5. begin # 0
    BY <1>2
  <2> QED BY <2>2, <2>3, <2>4, <2>5 DEF begin, next, dash, open, four
<1>3. CASE begin # 0 /\ begin # 1
  BY <1>3
<1> QED BY <1>1, <1>2, <1>3

\* What is sent for a packet begins with the flag.
LEMMA FlagFirst ==
  ASSUME NEW b \in Boundaries \cup {NoBoundary}, NEW c \in Seq(Payload), NEW more \in Seq(BodySymbol),
         c = Null => more = <<>>, NEW rest \in Seq(Symbol), Makes(SendBoundaryBody(c, b), more, rest)
  PROVE  rest[1] = Flag(b) /\ \E k \in Nat \ {0} : k = Len(rest)
<1>1. rest = SendBoundaryBody(c, b) \o more
  BY DEF Makes
<1>2. /\ c \o (HTTP_SEP \o more) \in Seq(Symbol)
      /\ c # Null => SendBoundaryBody(c, b) \o more = FlagHead(b) \o (c \o (HTTP_SEP \o more))
      /\ c = Null /\ more = <<>> => SendBoundaryBody(c, b) \o more = FlagEnd(b)
  BY NextSymbols
<1>3. CASE c # Null
  <2>1. PICK z \in Seq(Symbol) : z = c \o (HTTP_SEP \o more)
    BY <1>2
  <2>2. Makes(FlagHead(b), z, rest)
    BY <1>1, <1>2, <1>3, <2>1, Zenon DEF Makes
  <2>3. PICK n \in Nat : n = 3 /\ n = Len(FlagHead(b))
    <3>1. 3 = Len(FlagHead(b))
      BY HeadsAre, 0 \in Int
    <3> QED BY <3>1
  <2>4. FlagHead(b) \in Seq(Symbol) /\ FlagHead(b)[1] = Flag(b)
    BY HeadsAre, 0 \in Int
  <2>5. PICK k \in Nat : k = Len(z)
    BY LenProperties
  <2>6. Apart(FlagHead(b), n, z, k, rest)
    <3>1. n = Len(FlagHead(b)) /\ FlagHead(b) \in Seq(Symbol)
      BY <2>3, <2>4
    <3> QED BY <2>2, <2>5, <3>1, Places
  <2>7. Len(rest) = n + k /\ \A i \in 1 .. n : rest[i] = FlagHead(b)[i]
    BY <2>6, Zenon DEF Apart
  <2>8. 1 \in 1 .. n /\ n + k \in Nat \ {0}
    BY <2>3
  <2> QED BY <2>4, <2>7, <2>8
<1>4. CASE c = Null
  <2>1. rest = FlagEnd(b)
    BY <1>1, <1>2, <1>4, Zenon
  <2>2. 4 = Len(FlagEnd(b)) /\ FlagEnd(b)[1] = Flag(b)
    BY HeadsAre, 0 \in Int
  <2> QED BY <2>1, <2>2
<1> QED BY <1>3, <1>4

\* A part is taken, or waited for.
LEMMA PartGot ==
  ASSUME NEW p \in Parser, NEW w \in Seq(Symbol), NEW b \in Boundaries \cup {NoBoundary}, b = p.boundary,
         NEW c \in Seq(Payload), NEW l \in Nat, l = Len(c), NEW rest \in Seq(Symbol),
         NEW k \in Nat \ {0}, k = Len(rest), rest[1] = Flag(b), NEW r \in Seq(Symbol), Makes(HTTP_SEP, rest, r),
         NEW z \in Seq(Symbol), Makes(c, r, z), Joined(p.pkts, w, FlagHead(b), z)
  PROVE  \/ GetBoundary(p).ret = "CONTINUE" /\ GetBoundary(p).p = p
         \/ /\ GetBoundary(p).ret = "OK" /\ GetBoundary(p).packet = c
            /\ Makes(GetBoundary(p).p.pkts, w, rest)
<1>1. PICK s \in Seq(Symbol) : s = p.pkts
  BY DEF Parser
<1>2. PICK m \in Nat : m = Len(s)
  BY LenProperties
<1>3. PICK f : f = Flag(b)
  OBVIOUS
<1>4. PICK t \in Seq(Symbol) : t = s \o w /\ FrontIs(s, m, t)
  BY <1>2, FrontOf
<1>5. Makes(FlagHead(b), z, t)
  BY <1>1, <1>4, Zenon DEF Joined, Makes
<1>6. PartAt(t, f, l)
  BY <1>3, <1>5, PartIs
<1>7. FrontIs(s, m, t)
  BY <1>4
<1>8. /\ m = 0 => Search(s, <<f>>, 1) = 0
      /\ m # 0 => Search(s, <<f>>, 1) = 1
      /\ l + 6 <= m => Search(s, <<f>>, 4) = l + 6
      /\ ~(l + 6 <= m) => Search(s, <<f>>, 4) = 0 /\ Search(s, <<f>> \o <<Dashes>>, 1) = 0
  <2>1. PartFound(s, m, f, l)
    BY <1>2, <1>3, <1>6, <1>7, PartSearch
  <2> QED BY <2>1 DEF PartFound
<1>9. f = Flag(p.boundary)
  BY <1>3
<1>10. CASE m = 0
  <2>1. Search(p.pkts, <<f>>, 1) = 0
    BY <1>1, <1>8, <1>10
  <2> QED BY <1>9, <2>1, GetBoundaryIs
<1>11. CASE m # 0 /\ ~(l + 6 <= m)
  <2>1. /\ Search(p.pkts, <<f>>, 1) = 1 /\ Search(p.pkts, <<f>>, 4) = 0
        /\ Search(p.pkts, <<f>> \o <<Dashes>>, 1) = 0
    BY <1>1, <1>8, <1>11
  <2> QED BY <1>9, <2>1, GetBoundaryIs
<1>12. CASE l + 6 <= m
  <2>1. Search(p.pkts, <<f>>, 1) = 1 /\ Search(p.pkts, <<f>>, 4) = l + 6
    <3>1. m # 0
      BY <1>12
    <3> QED BY <1>1, <1>8, <1>12, <3>1
  <2>2. /\ GetBoundary(p).ret = "OK" /\ GetBoundary(p).packet = Read(Consume(p.pkts, 3), l)
        /\ GetBoundary(p).p.pkts = Consume(Consume(p.pkts, 3), l + 2)
    BY <1>9, <2>1, GetBoundaryIs
  <2>3. c \in Seq(Symbol) /\ Joined(s, w, FlagHead(b), z)
    BY <1>1, BodySymbols, SeqWider
  <2>4. Read(Consume(s, 3), l) = c /\ Makes(Consume(Consume(s, 3), l + 2), w, rest)
    BY <1>2, <1>12, <2>3, PartTaken, SMTT(30)
  <2> QED BY <1>1, <2>2, <2>4
<1> QED BY <1>10, <1>11, <1>12

\* The end flag is taken, and of its line end what has arrived; or it is waited for.
LEMMA EndGot ==
  ASSUME NEW p \in Parser, NEW w \in Seq(Symbol), NEW b \in Boundaries \cup {NoBoundary}, b = p.boundary,
         Makes(p.pkts, w, FlagEnd(b))
  PROVE  \/ GetBoundary(p).ret = "CONTINUE" /\ GetBoundary(p).p = p
         \/ /\ GetBoundary(p).ret = "OK" /\ GetBoundary(p).packet = Null
            /\ GetBoundary(p).p.pkts \o w \in Junk
<1>1. PICK s \in Seq(Symbol) : s = p.pkts
  BY DEF Parser
<1>2. PICK m \in Nat : m = Len(s)
  BY LenProperties
<1>3. PICK f : f = Flag(b)
  OBVIOUS
<1>4. PICK t \in Seq(Symbol) : t = s \o w /\ FrontIs(s, m, t)
  BY <1>2, FrontOf
<1>5. t = FlagEnd(b)
  BY <1>1, <1>4, Zenon DEF Makes
<1>6. EndFlagAt(t, f)
  <2>1. /\ 4 = Len(FlagEnd(b)) /\ FlagEnd(b)[1] = Flag(b) /\ FlagEnd(b)[2] = Dashes
        /\ FlagEnd(b)[3] = CR /\ FlagEnd(b)[4] = LF
    BY HeadsAre, 0 \in Int
  <2> QED BY <1>3, <1>5, <2>1 DEF EndFlagAt
<1>7. FrontIs(s, m, t)
  BY <1>4
<1>8. /\ m = 0 => Search(s, <<f>>, 1) = 0
      /\ m # 0 => Search(s, <<f>>, 1) = 1
      /\ Search(s, <<f>>, 4) = 0
      /\ 2 <= m => Search(s, <<f>> \o <<Dashes>>, 1) = 1
      /\ ~(2 <= m) => Search(s, <<f>> \o <<Dashes>>, 1) = 0
  BY <1>2, <1>3, <1>6, <1>7, EndSearch
<1>9. f = Flag(p.boundary)
  BY <1>3
<1>10. CASE m = 0
  <2>1. Search(p.pkts, <<f>>, 1) = 0
    BY <1>1, <1>8, <1>10
  <2> QED BY <1>9, <2>1, GetBoundaryIs
<1>11. CASE m # 0 /\ ~(2 <= m)
  <2>1. /\ Search(p.pkts, <<f>>, 1) = 1 /\ Search(p.pkts, <<f>>, 4) = 0
        /\ Search(p.pkts, <<f>> \o <<Dashes>>, 1) = 0
    BY <1>1, <1>8, <1>11
  <2> QED BY <1>9, <2>1, GetBoundaryIs
<1>12. CASE 2 <= m
  <2>1. /\ Search(p.pkts, <<f>>, 1) = 1 /\ Search(p.pkts, <<f>>, 4) = 0
        /\ Search(p.pkts, <<f>> \o <<Dashes>>, 1) # 0
    <3>1. m # 0
      BY <1>12
    <3> QED BY <1>1, <1>8, <1>12, <3>1
  <2>2. /\ GetBoundary(p).ret = "OK" /\ GetBoundary(p).packet = Null
        /\ GetBoundary(p).p.pkts = Consume(p.pkts, 4)
    BY <1>9, <2>1, GetBoundaryIs
  <2>3. PICK n \in Nat : n = 4
    OBVIOUS
  <2>4. /\ 2 <= n /\ n = Len(s \o w) /\ (s \o w)[n - 1] = CR /\ (s \o w)[n] = LF
        /\ n - 2 <= Len(s)
    <3>1. n - 1 = 3 /\ n - 2 = 2 /\ 2 <= n
      BY <2>3
    <3>2. 4 = Len(t) /\ t[3] = CR /\ t[4] = LF
      BY <1>6 DEF EndFlagAt
    <3>3. t = s \o w
      BY <1>4
    <3>4. 2 <= Len(s)
      BY <1>2, <1>12
    <3> QED BY <2>3, <3>1, <3>2, <3>3, <3>4
  <2>5. Consume(s, n) \o w \in Junk
    BY <2>4, JunkLeft
  <2> QED BY <1>1, <2>2, <2>3, <2>5
<1> QED BY <1>10, <1>11, <1>12

\* get_boundary takes the next part, or waits for it.
LEMMA BoundaryTakes ==
  ASSUME NEW p \in Parser, p.type = "BOUNDARY", NEW w \in Seq(Symbol), NEW packs,
         PacketsOf("BOUNDARY", packs), NEW k \in Nat, k < Len(packs), IsBehind(p, w, packs, k),
         p.chunkBytes = -1
  PROVE  Takes(w, packs, k, GetBoundary(p))
<1>0. PICK b \in Boundaries \cup {NoBoundary} : b = p.boundary
  BY DEF Parser
<1>1. PICK j \in Nat : j = k + 1
  OBVIOUS
<1>2. PICK kind : kind = "BOUNDARY"
  OBVIOUS
<1>3. PacketsOf(kind, packs) /\ kind \in {"CHUNK", "BOUNDARY"}
  BY <1>2
<1>4. NextAt(kind, b, packs, k, j)
  BY <1>1, <1>3, NextIs
<1>5. /\ packs[j] \in Seq(Payload) /\ j <= Len(packs)
      /\ LeftOf(kind, b, packs)[j] \in Seq(BodySymbol)
      /\ LeftOf(kind, b, packs)[k] = Sent1(kind, b, packs[j]) \o LeftOf(kind, b, packs)[j]
      /\ (packs[j] = Null <=> j = Len(packs))
      /\ (packs[j] = Null => LeftOf(kind, b, packs)[j] = <<>>)
  BY <1>4, Zenon DEF NextAt
<1>6. PICK c \in Seq(Payload) : c = packs[j]
  BY <1>5
<1>7. PICK rest \in Seq(BodySymbol) : rest = LeftOf("BOUNDARY", b, packs)[j]
  BY <1>2, <1>5
<1>8. LeftOf("BOUNDARY", b, packs)[k] = SendBoundaryBody(c, b) \o rest
  BY <1>2, <1>5, <1>6, <1>7 DEF Sent1
<1>9. p.pkts \o w = LeftOf("BOUNDARY", b, packs)[k]
  <2>1. Rest(p.pkts \o w, p.chunkBytes, "BOUNDARY", b, packs, k)
    BY <1>0 DEF IsBehind
  <2>2. k # Len(packs) /\ "BOUNDARY" # "CHUNK"
    OBVIOUS
  <2> QED BY <2>1, <2>2, Zenon DEF Rest
<1>10. p.pkts \o w = SendBoundaryBody(c, b) \o rest
  BY <1>8, <1>9, Zenon
<1>11. /\ c \in Seq(Symbol) /\ rest \in Seq(Symbol) /\ HTTP_SEP \o rest \in Seq(Symbol)
       /\ c \o (HTTP_SEP \o rest) \in Seq(Symbol)
       /\ c # Null => SendBoundaryBody(c, b) \o rest = FlagHead(b) \o (c \o (HTTP_SEP \o rest))
       /\ c = Null /\ rest = <<>> => SendBoundaryBody(c, b) \o rest = FlagEnd(b)
  BY NextSymbols
<1>12. GetBoundary(p).p.type = "BOUNDARY" /\ GetBoundary(p).p.boundary = b /\ GetBoundary(p).p.chunkBytes = -1
  BY <1>0, GetBoundaryResult
<1>13. ASSUME GetBoundary(p).ret = "CONTINUE", GetBoundary(p).p = p
       PROVE  Takes(w, packs, k, GetBoundary(p))
  BY <1>13 DEF Takes
<1>14. CASE c = Null
  <2>1. rest = <<>> /\ j = Len(packs)
    BY <1>2, <1>5, <1>6, <1>7, <1>14
  <2>2. Makes(p.pkts, w, FlagEnd(b))
    BY <1>10, <1>11, <1>14, <2>1, Zenon DEF Makes
  <2>3. \/ GetBoundary(p).ret = "CONTINUE" /\ GetBoundary(p).p = p
        \/ /\ GetBoundary(p).ret = "OK" /\ GetBoundary(p).packet = Null
           /\ GetBoundary(p).p.pkts \o w \in Junk
    BY <1>0, <2>2, EndGot
  <2>4. ASSUME GetBoundary(p).ret = "OK", GetBoundary(p).packet = Null, GetBoundary(p).p.pkts \o w \in Junk
        PROVE  Takes(w, packs, k, GetBoundary(p))
    <3> DEFINE x == GetBoundary(p).p
    <3>1. x.type = "BOUNDARY" /\ x.chunkBytes = -1 /\ x.pkts \o w \in Junk
      BY <1>12, <2>4
    <3> HIDE DEF x
    <3>2. Rest(x.pkts \o w, x.chunkBytes, "BOUNDARY", x.boundary, packs, j)
      BY <2>1, <3>1, Zenon DEF Rest
    <3>3. IsBehind(x, w, packs, j)
      BY <3>1, <3>2 DEF IsBehind
    <3>4. GetBoundary(p).packet = packs[k + 1] /\ IsBehind(GetBoundary(p).p, w, packs, k + 1)
      BY <1>1, <1>6, <1>14, <2>4, <3>3 DEF x
    <3> QED BY <2>4, <3>4 DEF Takes
  <2> QED BY <1>13, <2>3, <2>4
<1>15. CASE c # Null
  <2>1. j < Len(packs)
    BY <1>5, <1>6, <1>15
  <2>2. PICK i \in Nat : i = j + 1
    OBVIOUS
  <2>3. NextAt(kind, b, packs, j, i)
    BY <1>3, <2>1, <2>2, NextIs
  <2>4. /\ packs[i] \in Seq(Payload) /\ LeftOf(kind, b, packs)[i] \in Seq(BodySymbol)
        /\ LeftOf(kind, b, packs)[j] = Sent1(kind, b, packs[i]) \o LeftOf(kind, b, packs)[i]
        /\ (packs[i] = Null => LeftOf(kind, b, packs)[i] = <<>>)
    BY <2>3, Zenon DEF NextAt
  <2>5. PICK d \in Seq(Payload) : d = packs[i]
    BY <2>4
  <2>6. PICK more \in Seq(BodySymbol) : more = LeftOf(kind, b, packs)[i]
    BY <2>4
  <2>7. Makes(SendBoundaryBody(d, b), more, rest)
    BY <1>2, <1>7, <2>4, <2>5, <2>6 DEF Sent1, Makes
  <2>8. d = Null => more = <<>>
    BY <2>4, <2>5, <2>6
  <2>9. rest[1] = Flag(b) /\ \E x \in Nat \ {0} : x = Len(rest)
    BY <1>11, <2>7, <2>8, FlagFirst
  <2>10. PICK x \in Nat \ {0} : x = Len(rest)
    BY <2>9
  <2>11. PICK l \in Nat : l = Len(c)
    BY <1>11, LenProperties
  <2>12. PICK r \in Seq(Symbol) : r = HTTP_SEP \o rest
    BY <1>11
  <2>13. PICK z \in Seq(Symbol) : z = c \o (HTTP_SEP \o rest)
    BY <1>11
  <2>14. Makes(HTTP_SEP, rest, r) /\ Makes(c, r, z) /\ Joined(p.pkts, w, FlagHead(b), z)
    BY <1>10, <1>11, <1>15, <2>12, <2>13, Zenon DEF Makes, Joined
  <2>15. rest \in Seq(Symbol) /\ rest[1] = Flag(b)
    BY <1>11, <2>9
  <2>16. \/ GetBoundary(p).ret = "CONTINUE" /\ GetBoundary(p).p = p
         \/ /\ GetBoundary(p).ret = "OK" /\ GetBoundary(p).packet = c
            /\ Makes(GetBoundary(p).p.pkts, w, rest)
    BY <1>0, <2>10, <2>11, <2>14, <2>15, PartGot
  <2>17. ASSUME GetBoundary(p).ret = "OK", GetBoundary(p).packet = c, Makes(GetBoundary(p).p.pkts, w, rest)
         PROVE  Takes(w, packs, k, GetBoundary(p))
    <3> DEFINE y == GetBoundary(p).p
    <3>1. y.type = "BOUNDARY" /\ y.chunkBytes = -1 /\ y.boundary = b
      BY <1>12
    <3>2. y.pkts \o w = LeftOf("BOUNDARY", b, packs)[j]
      BY <1>7, <2>17, Zenon DEF Makes
    <3> HIDE DEF y
    <3>3. Rest(y.pkts \o w, y.chunkBytes, "BOUNDARY", b, packs, j)
      BY <2>1, <3>1, <3>2, Zenon DEF Rest
    <3>4. IsBehind(y, w, packs, j)
      BY <3>1, <3>3 DEF IsBehind
    <3>5. GetBoundary(p).packet = packs[k + 1] /\ IsBehind(GetBoundary(p).p, w, packs, k + 1)
      BY <1>1, <1>6, <2>17, <3>4 DEF y
    <3> QED BY <2>17, <3>5 DEF Takes
  <2> QED BY <1>13, <2>16, <2>17
<1> QED BY <1>14, <1>15

\* get_content takes the body, or waits for it.
LEMMA ContentTakes ==
  ASSUME NEW p \in Parser, p.type = "NORMAL", NEW w \in Seq(Symbol), NEW packs,
         PacketsOf("NORMAL", packs), NEW k \in Nat, k = 0, IsBehind(p, w, packs, k)
  PROVE  Takes(w, packs, k, GetContent(p))
<1>1. PICK c \in Seq(Symbol) : c = packs[1]
  <2>1. packs \in Seq(Seq(Payload)) /\ 1 \in 1 .. Len(packs)
    BY DEF PacketsOf
  <2>2. packs[1] \in Seq(Payload)
    BY <2>1, ElementOfSeq
  <2> QED BY <2>2, BodySymbols, SeqWider
<1>2. PICK n \in Nat : n = Len(c)
  BY LenProperties
<1>3. PICK s \in Seq(Symbol) : s = p.pkts
  BY DEF Parser
<1>4. s \o w = c /\ p.bodyBytes = n
  BY <1>1, <1>2, <1>3 DEF IsBehind
<1>5. PICK m \in Nat : m = Len(s)
  BY LenProperties
<1>6. ASSUME GetContent(p) = Result("CONTINUE", Null, p)
      PROVE  Takes(w, packs, k, GetContent(p))
  <2>1. GetContent(p).ret = "CONTINUE" /\ GetContent(p).p = p
    BY <1>6 DEF Result
  <2> QED BY <2>1 DEF Takes
<1>7. ASSUME NEW x, GetContent(p) = Result("OK", c, x), x.type = "NORMAL", x.pkts \o w = <<>>
      PROVE  Takes(w, packs, k, GetContent(p))
  <2>1. GetContent(p).ret = "OK" /\ GetContent(p).packet = c /\ GetContent(p).p = x
    BY <1>7 DEF Result
  <2>2. k + 1 = 1
    OBVIOUS
  <2>3. IsBehind(x, w, packs, 1)
    BY <1>7, Zenon DEF IsBehind
  <2> QED BY <1>1, <2>1, <2>2, <2>3 DEF Takes
<1>8. CASE n = 0
  <2>1. GetContent(p) = Result("OK", Null, p)
    BY <1>4, <1>8 DEF GetContent
  <2>2. c = Null
    BY <1>2, <1>8, EmptySeq DEF Null
  <2>3. p.pkts \o w = <<>>
    BY <1>3, <1>4, <2>2 DEF Null
  <2> QED BY <1>7, <2>1, <2>2, <2>3
<1>9. CASE n # 0 /\ m < n
  <2>1. Len(p.pkts) < p.bodyBytes /\ p.bodyBytes # 0
    BY <1>3, <1>4, <1>5, <1>9
  <2>2. GetContent(p) = Result("CONTINUE", Null, p)
    BY <2>1 DEF GetContent
  <2> QED BY <1>6, <2>2
<1>10. CASE n # 0 /\ ~(m < n)
  <2> DEFINE y == Consume(s, n)
             x == [p EXCEPT !.pkts = y]
  <2>1. Twice(s, w, c, <<>>)
    <3>1. c \o <<>> = c
      BY ConcatEmptySeq
    <3>2. s \o w = c \o <<>>
      BY <1>4, <3>1, Zenon
    <3>3. Len(c) <= Len(s)
      BY <1>2, <1>5, <1>10
    <3> QED BY <3>2, <3>3 DEF Twice
  <2> DEFINE e == <<>>
  <2>2. e \in Seq(Symbol)
    OBVIOUS
  <2>9. Twice(s, w, c, e)
    BY <2>1
  <2> HIDE DEF e
  <2>10. Read(s, n) = c /\ Makes(y, w, e)
    BY <1>2, <2>2, <2>9, FrontLeft
  <2>3. Read(s, n) = c /\ Makes(y, w, <<>>)
    BY <2>10 DEF e
  <2>4. ~(Len(p.pkts) < p.bodyBytes) /\ p.bodyBytes # 0
    BY <1>3, <1>4, <1>5, <1>10
  <2>5. GetContent(p) = Result("OK", c, x)
    BY <1>3, <1>4, <2>3, <2>4 DEF GetContent
  <2>6. y \o w = <<>>
    BY <2>3 DEF Makes
  <2> HIDE DEF y
  <2>7. x.type = "NORMAL" /\ x.pkts = y
    BY DEF Parser
  <2>8. x.pkts \o w = <<>>
    BY <2>6, <2>7, Zenon
  <2> HIDE DEF x
  <2> QED BY <1>7, <2>5, <2>7, <2>8
<1> QED BY <1>8, <1>9, <1>10

\* The other members that parse_header leaves.
LEMMA ParseKeeps ==
  ASSUME NEW p \in Parser, p.type = "INVALID", ParseHeader(p).ret = "OK"
  PROVE  /\ ParseHeader(p).p.boundary = Classify(p).boundary
         /\ ParseHeader(p).p.bodyBytes = Classify(p).bodyBytes
<1> DEFINE q == Classify(p)
           e == Search(p.pkts, HTTP_END_FLAG, 1)
<1>1. q \in Parser
  BY ClassifyType
<1>2. ParseHeader(p) = IF e = 0 THEN Result("CONTINUE", Null, p)
                       ELSE IF q.type = "INVALID" THEN Result("INVALID_ARG", Null, [p EXCEPT !.pkts = Consume(@, e + 3)])
                       ELSE Result("OK", Null, TakeHeader(q, e + 3))
  BY DEF ParseHeader
<1> HIDE DEF q, e
<1>3. e # 0 /\ q.type # "INVALID"
  <2>1. Result("CONTINUE", Null, p).ret # "OK"
    BY DEF Result
  <2>2. Result("INVALID_ARG", Null, [p EXCEPT !.pkts = Consume(@, e + 3)]).ret # "OK"
    BY DEF Result
  <2> QED BY <1>2, <2>1, <2>2
<1>4. ParseHeader(p) = Result("OK", Null, TakeHeader(q, e + 3))
  BY <1>2, <1>3
<1> DEFINE head == Read(q.pkts, (e + 3) - 2)
           rest == Consume(q.pkts, e + 3)
           u    == [q EXCEPT !.header = head, !.pkts = rest]
<1>5. TakeHeader(q, e + 3) = u
  <2>1. \A total : TakeHeader(q, total) =
          [q EXCEPT !.header = Read(q.pkts, total - 2), !.pkts = Consume(q.pkts, total)]
    BY <1>1, TakeHeaderIs
  <2> QED BY <2>1, Zenon
<1> HIDE DEF head, rest
<1>6. u.boundary = q.boundary /\ u.bodyBytes = q.bodyBytes
  BY <1>1 DEF Parser
<1> HIDE DEF u
<1>7. ParseHeader(p).p = u
  BY <1>4, <1>5 DEF Result
<1> QED BY <1>6, <1>7 DEF q

\* What parse_header makes of a header with this first line, of l symbols behind c, with rest behind it.
HeaderDone(p, r, w, c, l, first, rest) ==
  /\ c + l <= Len(p.pkts)
  /\ Classify(p).type # "INVALID" =>
       /\ r.ret = "OK" /\ r.p.type = Classify(p).type
       /\ r.p.boundary = Classify(p).boundary /\ r.p.bodyBytes = Classify(p).bodyBytes
       /\ Makes(r.p.pkts, w, rest)
       /\ FirstWordIs(r.p.header, c, first)

\* What parse_header makes of a header of n symbols, k of which it keeps, when m have arrived.
HeaderParsed(p, m, n, k) ==
  /\ m < n => ParseHeader(p).ret = "CONTINUE" /\ ParseHeader(p).p = p
  /\ n <= m => /\ ParseHeader(p).p.pkts = Consume(p.pkts, n)
               /\ Classify(p).type # "INVALID" =>
                    /\ ParseHeader(p).ret = "OK"
                    /\ ParseHeader(p).p.type = Classify(p).type
                    /\ ParseHeader(p).p.header = Read(p.pkts, k)

\* It makes that.
LEMMA ParsedAt ==
  ASSUME NEW p \in Parser, p.type = "INVALID", NEW m \in Nat, m = Len(p.pkts),
         NEW t \in Seq(Symbol), FrontIs(p.pkts, m, t),
         NEW c, NEW l, NEW first, HeadAt(t, c, l, first),
         NEW n \in Nat, n = c + l, NEW k \in Nat, k = n - 2
  PROVE  HeaderParsed(p, m, n, k)
<1>1. k = c + l - 2
  BY DEF HeadAt
<1>2. /\ m < c + l => ParseHeader(p).ret = "CONTINUE" /\ ParseHeader(p).p = p
      /\ c + l <= m => /\ ParseHeader(p).p.pkts = Consume(p.pkts, c + l)
                       /\ Classify(p).type # "INVALID" =>
                            /\ ParseHeader(p).ret = "OK"
                            /\ ParseHeader(p).p.type = Classify(p).type
                            /\ ParseHeader(p).p.header = Read(p.pkts, c + l - 2)
  BY ParseAt
<1> QED BY <1>1, <1>2 DEF HeaderParsed

\* A header is waited for or taken.
LEMMA HeaderRead ==
  ASSUME NEW p \in Parser, p.type = "INVALID", NEW w \in Seq(Symbol), NEW g \in Junk, NEW h, NEW l,
         NEW first \in FirstLines, HeadShape(h, l, first), NEW rest \in Seq(Symbol), NEW t, t = g \o (h \o rest),
         Makes(p.pkts, w, t), NEW c, c = Len(g)
  PROVE  \/ ParseHeader(p).ret = "CONTINUE" /\ ParseHeader(p).p = p
         \/ HeaderDone(p, ParseHeader(p), w, c, l, first, rest)
<1>1. /\ g \in Seq(Symbol) /\ h \in Seq(Symbol) /\ g \o h \in Seq(Symbol) /\ Len(g \o h) = c + l
      /\ t = (g \o h) \o rest
      /\ HeadAt(t, c, l, first)
  BY ShapeAt, SMTT(30)
<1>2. PICK s \in Seq(Symbol) : s = p.pkts
  BY DEF Parser
<1>3. PICK m \in Nat : m = Len(s)
  BY LenProperties
<1>4. /\ s \o w \in Seq(Symbol) /\ FrontIs(s, m, s \o w)
  BY <1>3, FrontOf
<1>5. s \o w = t
  BY <1>2 DEF Makes
<1>6. t \in Seq(Symbol) /\ FrontIs(s, m, t)
  BY <1>4, <1>5
<1>7. PICK n \in Nat : n = c + l /\ 5 <= n
  <2>1. c \in Nat /\ l \in Nat /\ 5 <= l
    BY <1>1 DEF HeadAt
  <2> QED BY <2>1
<1>8. PICK k \in Nat : k = n - 2
  BY <1>7
<1>9. m = Len(p.pkts) /\ FrontIs(p.pkts, m, t) /\ n = c + l
  BY <1>2, <1>3, <1>6, <1>7
<1>10. HeaderParsed(p, m, n, k)
  BY <1>1, <1>6, <1>8, <1>9, ParsedAt
<1>11. CASE m < n
  BY <1>10, <1>11 DEF HeaderParsed
<1>12. CASE ~(m < n)
  <2>1. n <= m /\ k <= m
    BY <1>8, <1>12
  <2>2. SUFFICES ASSUME Classify(p).type # "INVALID"
                 PROVE  HeaderDone(p, ParseHeader(p), w, c, l, first, rest)
    <3>1. c + l <= Len(p.pkts)
      BY <1>9, <2>1
    <3> QED BY <3>1, Zenon DEF HeaderDone
  <2>3. /\ ParseHeader(p).ret = "OK" /\ ParseHeader(p).p.type = Classify(p).type
        /\ ParseHeader(p).p.header = Read(s, k) /\ ParseHeader(p).p.pkts = Consume(s, n)
    BY <1>2, <1>10, <2>1, <2>2 DEF HeaderParsed
  <2>4. /\ ParseHeader(p).p.boundary = Classify(p).boundary
        /\ ParseHeader(p).p.bodyBytes = Classify(p).bodyBytes
    BY <2>3, ParseKeeps
  <2> DEFINE a == g \o h
  <2>6. a \in Seq(Symbol) /\ n = Len(a)
    BY <1>1, <1>9
  <2>7. Twice(s, w, a, rest)
    <3>1. Len(a) <= Len(s)
      BY <1>3, <2>1, <2>6
    <3>2. s \o w = a \o rest
      BY <1>1, <1>5, Zenon
    <3> QED BY <3>1, <3>2 DEF Twice
  <2> HIDE DEF a
  <2>8. Makes(Consume(s, n), w, rest)
    BY <2>6, <2>7, FrontLeft
  <2>9. k \in 0 .. Len(s)
    BY <1>3, <2>1
  <2>10. PICK f \in Seq(Symbol) : f = Read(s, k) /\ Len(f) = k /\ \A i \in 1 .. k : f[i] = s[i]
    BY <2>9, ReadAndLeft
  <2>11. FrontIs(f, Len(f), t)
    <3>1. PICK z \in Nat : z = Len(t)
      BY <1>6, LenProperties
    <3>2. m <= z /\ \A i \in 1 .. m : s[i] = t[i]
      BY <1>6, <3>1 DEF FrontIs
    <3>3. k <= z /\ \A i \in 1 .. k : i \in 1 .. m
      BY <2>1, <3>2
    <3> QED BY <2>10, <3>1, <3>2, <3>3 DEF FrontIs
  <2>12. Len(f) = c + l - 2
    <3>1. c \in Nat /\ l \in Nat
      BY <1>1 DEF HeadAt
    <3>2. k = c + l - 2
      BY <1>8, <1>9, <3>1
    <3> QED BY <2>10, <3>2
  <2>13. FirstWordIs(f, c, first)
    BY <1>1, <1>6, <2>11, <2>12, FirstLineAt
  <2>14. ParseHeader(p).p.header = f /\ Makes(ParseHeader(p).p.pkts, w, rest)
    BY <2>3, <2>8, <2>10
  <2>15. FirstWordIs(ParseHeader(p).p.header, c, first)
    BY <2>13, <2>14
  <2>16. c + l <= Len(p.pkts)
    BY <1>9, <2>1
  <2> QED BY <2>3, <2>4, <2>14, <2>15, <2>16 DEF HeaderDone
<1> QED BY <1>11, <1>12

\* The header h of l symbols is in t, behind the c symbols g and in front of rest.
ShapedAt(t, g, c, h, l, rest) ==
  /\ g \in Seq(Symbol) /\ h \in Seq(Symbol) /\ g \o h \in Seq(Symbol) /\ Len(g \o h) = c + l
  /\ c \in Nat /\ l \in Nat
  /\ t = (g \o h) \o rest
  /\ \A i \in 1 .. l : t[c + i] = h[i]
  /\ \A i \in 1 .. c : t[i] \in {CR, LF}

\* It is there.
LEMMA ShapedThere ==
  ASSUME NEW g \in Junk, NEW c, c = Len(g), NEW h, NEW l, NEW first \in FirstLines, HeadShape(h, l, first),
         NEW rest \in Seq(Symbol), NEW t, t = g \o (h \o rest)
  PROVE  ShapedAt(t, g, c, h, l, rest)
<1>1. /\ g \in Seq(Symbol) /\ h \in Seq(Symbol) /\ g \o h \in Seq(Symbol) /\ Len(g \o h) = Len(g) + l
      /\ g \o (h \o rest) = (g \o h) \o rest
  BY ShapeAt
<1>2. c \in Nat /\ l \in Nat
  BY <1>1, LenProperties DEF HeadShape
<1>3. \A i \in 1 .. l : t[c + i] = h[i]
  <2> DEFINE a == g \o h
  <2>1. a \in Seq(Symbol) /\ Len(a) = c + l /\ Makes(g, h, a) /\ Makes(a, rest, t)
    BY <1>1, Zenon DEF Makes
  <2> HIDE DEF a
  <2>2. h \in Seq(Symbol) /\ l = Len(h)
    BY DEF HeadShape
  <2>3. Apart(g, c, h, l, a)
    BY <1>1, <1>2, <2>1, <2>2, Places
  <2>4. PICK n \in Nat : n = Len(a)
    BY <2>1, LenProperties
  <2>5. PICK k \in Nat : k = Len(rest)
    BY LenProperties
  <2>6. Apart(a, n, rest, k, t)
    BY <2>1, <2>4, <2>5, Places
  <2>7. \A i \in 1 .. n : t[i] = a[i]
    BY <2>6 DEF Apart
  <2>8. \A i \in 1 .. l : a[c + i] = h[i]
    BY <2>3 DEF Apart
  <2>9. \A i \in 1 .. l : c + i \in 1 .. n
    BY <1>2, <2>1, <2>4
  <2> QED BY <2>7, <2>8, <2>9
<1>4. \A i \in 1 .. Len(g) : (g \o (h \o rest))[i] \in {CR, LF}
  BY ShapeAt
<1> QED BY <1>1, <1>2, <1>3, <1>4, Zenon DEF ShapedAt

\* Only the symbol at e may be a field that parse_header looks for.
OnlyField(s, m, e) == \A i \in 1 .. m : i # e => s[i][1] \notin HeadTags

\* That is so of what is received of a header with one field at f, or none, and a body.
LEMMA FieldsIn ==
  ASSUME NEW g \in Junk, NEW c, c = Len(g), NEW h, NEW l, NEW first \in FirstLines, HeadShape(h, l, first),
         NEW rest \in Seq(BodySymbol), NEW t, t = g \o (h \o rest),
         NEW s \in Seq(Symbol), NEW m \in Nat, FrontIs(s, m, t),
         NEW f \in Int, \A i \in 1 .. l : i # f => h[i][1] \notin HeadTags,
         NEW e \in Int, e = c + f
  PROVE  OnlyField(s, m, e)
<1>1. rest \in Seq(Symbol)
  BY BodySymbols, SeqWider
<1>0. ShapedAt(t, g, c, h, l, rest)
  BY <1>1, ShapedThere
<1>2. /\ g \in Seq(Symbol) /\ h \in Seq(Symbol) /\ g \o h \in Seq(Symbol) /\ Len(g \o h) = c + l
      /\ t = (g \o h) \o rest
      /\ \A i \in 1 .. l : t[c + i] = h[i]
      /\ \A i \in 1 .. c : t[i] \in {CR, LF}
  BY <1>1, <1>0, Zenon DEF ShapedAt
<1>3. c \in Nat /\ l \in Nat
  BY <1>0 DEF ShapedAt
<1> DEFINE a == g \o h
<1>4. /\ a \in Seq(Symbol) /\ Len(a) = c + l /\ Makes(a, rest, t)
  BY <1>2, Zenon DEF Makes
<1> HIDE DEF a
<1>5. PICK n \in Nat : n = Len(a)
  BY <1>4, LenProperties
<1>6. PICK k \in Nat : k = Len(rest)
  BY LenProperties
<1>7. Apart(a, n, rest, k, t)
  BY <1>1, <1>4, <1>5, <1>6, Places
<1>8. Len(t) = n + k /\ (\A i \in 1 .. k : t[n + i] = rest[i]) /\ n = c + l
  BY <1>4, <1>5, <1>7 DEF Apart
<1>9. m <= n + k /\ \A i \in 1 .. m : s[i] = t[i]
  BY <1>8 DEF FrontIs
<1>10. ASSUME NEW i \in 1 .. m, i # e PROVE s[i][1] \notin HeadTags
  <2>1. s[i] = t[i]
    BY <1>9
  <2>2. CASE i \in 1 .. c
    <3>1. s[i] \in {CR, LF}
      BY <1>2, <2>1, <2>2
    <3> QED BY <3>1 DEF CR, LF, HeadTags
  <2>3. CASE i - c \in 1 .. l
    <3>1. PICK j \in 1 .. l : j = i - c
      BY <2>3
    <3>2. i = c + j /\ j # f
      BY <1>3, <1>10, <3>1
    <3>3. t[i] = h[j]
      BY <1>2, <3>2
    <3> QED BY <2>1, <3>2, <3>3
  <2>4. CASE i - n \in 1 .. k
    <3>1. PICK j \in 1 .. k : j = i - n
      BY <2>4
    <3>2. i = n + j
      BY <3>1
    <3>3. t[i] = rest[j]
      BY <1>8, <3>2
    <3>4. rest[j] \in BodySymbol
      BY <1>6, ElementOfSeq
    <3> QED BY <2>1, <3>3, <3>4, BodySymbols
  <2>5. i \in 1 .. c \/ i - c \in 1 .. l \/ i - n \in 1 .. k
    BY <1>3, <1>8, <1>9
  <2> QED BY <2>2, <2>3, <2>4, <2>5
<1> QED BY <1>10 DEF OnlyField

\* l symbols behind c are within m.
Within(c, l, m) == c + l <= m

\* The symbol behind c in s is the one at f of h.
SymbolIs(s, m, c, f, h) == c + f \in 1 .. m /\ s[c + f] = h[f]

\* The symbol at f of the header is there.
LEMMA FieldThere ==
  ASSUME NEW g \in Junk, NEW c, c = Len(g), NEW h, NEW l, NEW first \in FirstLines, HeadShape(h, l, first),
         NEW rest \in Seq(BodySymbol), NEW t, t = g \o (h \o rest),
         NEW s \in Seq(Symbol), NEW m \in Nat, FrontIs(s, m, t), Within(c, l, m),
         NEW f \in 1 .. l
  PROVE  SymbolIs(s, m, c, f, h)
<1>1. rest \in Seq(Symbol)
  BY BodySymbols, SeqWider
<1>0. ShapedAt(t, g, c, h, l, rest)
  BY <1>1, ShapedThere
<1>2. g \in Seq(Symbol) /\ \A i \in 1 .. l : t[c + i] = h[i]
  BY <1>1, <1>0, Zenon DEF ShapedAt
<1>3. c \in Nat /\ l \in Nat
  BY <1>0 DEF ShapedAt
<1>4. c + f \in 1 .. m
  BY <1>3 DEF Within
<1>5. s[c + f] = t[c + f]
  BY <1>4 DEF FrontIs
<1> QED BY <1>2, <1>4, <1>5 DEF SymbolIs

\* The open packet and the answer to it: a first line and three fields, the last
\* of which is key in one and "websocket" in the other.
Handshake(first, key) == <<first, CR, LF, Upgrade, WebSocket, CR, LF, key, CR, LF, CR, LF>>

\* The symbols of a handshake tell the line ends from the rest.
Telling(first, key) ==
  /\ first \in Symbol /\ key \in Symbol
  /\ first[1] \notin {"CR", "LF", "data"} /\ key[1] \notin {"CR", "LF"}

\* The symbols of a handshake.
LEMMA HandshakeSymbols ==
  ASSUME NEW first, NEW key, Telling(first, key)
  PROVE  /\ Handshake(first, key) \in Seq(Symbol)
         /\ Len(Handshake(first, key)) = 12
         /\ Handshake(first, key)[1] = first /\ Handshake(first, key)[2] = CR
         /\ Handshake(first, key)[3] = LF /\ Handshake(first, key)[4] = Upgrade
         /\ Handshake(first, key)[5] = WebSocket /\ Handshake(first, key)[6] = CR
         /\ Handshake(first, key)[7] = LF /\ Handshake(first, key)[8] = key
         /\ Handshake(first, key)[9] = CR /\ Handshake(first, key)[10] = LF
         /\ Handshake(first, key)[11] = CR /\ Handshake(first, key)[12] = LF
<1>1. first \in Symbol /\ key \in Symbol
  BY DEF Telling
<1>2. CR \in Symbol /\ LF \in Symbol /\ Upgrade \in Symbol /\ WebSocket \in Symbol
  BY DEF Symbol
<1> QED BY <1>1, <1>2 DEF Handshake

\* A line end behind something.
LEMMA LineEnd ==
  ASSUME NEW t \in Seq(Symbol), NEW n \in Nat, n = Len(t)
  PROVE  /\ t \o <<CR, LF>> \in Seq(Symbol) /\ Len(t \o <<CR, LF>>) = n + 2
         /\ \A i \in 1 .. n : (t \o <<CR, LF>>)[i] = t[i]
         /\ (t \o <<CR, LF>>)[n + 1] = CR /\ (t \o <<CR, LF>>)[n + 2] = LF

BY Tags, TwoMore

\* What is sent for the handshake, line by line.
LEMMA HandshakeSent ==
  ASSUME NEW first, NEW key, Telling(first, key)
  PROVE  <<first>> \o HTTP_SEP \o <<Upgrade, WebSocket>> \o HTTP_SEP \o <<key>> \o HTTP_SEP
           \o HTTP_SEP = Handshake(first, key)
<1>1. first \in Symbol /\ key \in Symbol
  BY DEF Telling
<1>2. /\ CR \in Symbol /\ LF \in Symbol /\ Upgrade \in Symbol /\ WebSocket \in Symbol
      /\ HTTP_SEP = <<CR, LF>>
  BY Tags DEF HTTP_SEP
<1>3. <<first>> \in Seq(Symbol) /\ Len(<<first>>) = 1 /\ <<first>>[1] = first
  BY <1>1
<1>4. PICK t1 \in Seq(Symbol) : /\ t1 = <<first>> \o HTTP_SEP /\ Len(t1) = 3
                                /\ t1[1] = first /\ t1[2] = CR /\ t1[3] = LF
  <2>1. 1 \in Nat /\ 1 \in 1 .. 1 /\ 1 + 1 = 2 /\ 1 + 2 = 3
    OBVIOUS
  <2>2. /\ <<first>> \o <<CR, LF>> \in Seq(Symbol) /\ Len(<<first>> \o <<CR, LF>>) = 1 + 2
        /\ \A i \in 1 .. 1 : (<<first>> \o <<CR, LF>>)[i] = <<first>>[i]
        /\ (<<first>> \o <<CR, LF>>)[1 + 1] = CR /\ (<<first>> \o <<CR, LF>>)[1 + 2] = LF
    BY <1>2, <1>3, <2>1, TwoMore
  <2> QED BY <1>2, <1>3, <2>1, <2>2
<1>5. PICK t2 \in Seq(Symbol) : /\ t2 = t1 \o <<Upgrade, WebSocket>> /\ Len(t2) = 5
                                /\ t2[1] = first /\ t2[2] = CR /\ t2[3] = LF
                                /\ t2[4] = Upgrade /\ t2[5] = WebSocket
  <2>1. 3 \in Nat /\ {1, 2, 3} \subseteq 1 .. 3 /\ 3 + 1 = 4 /\ 3 + 2 = 5
    OBVIOUS
  <2>2. /\ t1 \o <<Upgrade, WebSocket>> \in Seq(Symbol)
        /\ Len(t1 \o <<Upgrade, WebSocket>>) = 3 + 2
        /\ \A i \in 1 .. 3 : (t1 \o <<Upgrade, WebSocket>>)[i] = t1[i]
        /\ (t1 \o <<Upgrade, WebSocket>>)[3 + 1] = Upgrade
        /\ (t1 \o <<Upgrade, WebSocket>>)[3 + 2] = WebSocket
    BY <1>2, <1>4, <2>1, TwoMore
  <2> QED BY <1>4, <2>1, <2>2
<1>6. PICK t3 \in Seq(Symbol) : /\ t3 = t2 \o HTTP_SEP /\ Len(t3) = 7
                                /\ t3[1] = first /\ t3[2] = CR /\ t3[3] = LF
                                /\ t3[4] = Upgrade /\ t3[5] = WebSocket
                                /\ t3[6] = CR /\ t3[7] = LF
  <2>1. 5 \in Nat /\ {1, 2, 3, 4, 5} \subseteq 1 .. 5 /\ 5 + 1 = 6 /\ 5 + 2 = 7
    OBVIOUS
  <2>2. /\ t2 \o <<CR, LF>> \in Seq(Symbol) /\ Len(t2 \o <<CR, LF>>) = 5 + 2
        /\ \A i \in 1 .. 5 : (t2 \o <<CR, LF>>)[i] = t2[i]
        /\ (t2 \o <<CR, LF>>)[5 + 1] = CR /\ (t2 \o <<CR, LF>>)[5 + 2] = LF
    BY <1>2, <1>5, <2>1, TwoMore
  <2> QED BY <1>2, <1>5, <2>1, <2>2
<1>7. PICK t4 \in Seq(Symbol) : /\ t4 = t3 \o <<key>> /\ Len(t4) = 8
                                /\ t4[1] = first /\ t4[2] = CR /\ t4[3] = LF
                                /\ t4[4] = Upgrade /\ t4[5] = WebSocket
                                /\ t4[6] = CR /\ t4[7] = LF /\ t4[8] = key
  <2>1. 7 \in Nat /\ {1, 2, 3, 4, 5, 6, 7} \subseteq 1 .. 7 /\ 7 + 1 = 8
    OBVIOUS
  <2>2. /\ t3 \o <<key>> \in Seq(Symbol) /\ Len(t3 \o <<key>>) = 7 + 1
        /\ \A i \in 1 .. 7 : (t3 \o <<key>>)[i] = t3[i]
        /\ (t3 \o <<key>>)[7 + 1] = key
    BY <1>1, <1>6, <2>1, OneMore
  <2> QED BY <1>6, <2>1, <2>2
<1>8. PICK t5 \in Seq(Symbol) : /\ t5 = t4 \o HTTP_SEP /\ Len(t5) = 10
                                /\ t5[1] = first /\ t5[2] = CR /\ t5[3] = LF
                                /\ t5[4] = Upgrade /\ t5[5] = WebSocket
                                /\ t5[6] = CR /\ t5[7] = LF /\ t5[8] = key
                                /\ t5[9] = CR /\ t5[10] = LF
  <2>1. 8 \in Nat /\ {1, 2, 3, 4, 5, 6, 7, 8} \subseteq 1 .. 8 /\ 8 + 1 = 9 /\ 8 + 2 = 10
    OBVIOUS
  <2>2. /\ t4 \o <<CR, LF>> \in Seq(Symbol) /\ Len(t4 \o <<CR, LF>>) = 8 + 2
        /\ \A i \in 1 .. 8 : (t4 \o <<CR, LF>>)[i] = t4[i]
        /\ (t4 \o <<CR, LF>>)[8 + 1] = CR /\ (t4 \o <<CR, LF>>)[8 + 2] = LF
    BY <1>2, <1>7, <2>1, TwoMore, SMTT(30)
  <2> QED BY <1>2, <1>7, <2>1, <2>2
<1>9. PICK t6 \in Seq(Symbol) : /\ t6 = t5 \o HTTP_SEP /\ Len(t6) = 12
                                /\ t6[1] = first /\ t6[2] = CR /\ t6[3] = LF
                                /\ t6[4] = Upgrade /\ t6[5] = WebSocket
                                /\ t6[6] = CR /\ t6[7] = LF /\ t6[8] = key
                                /\ t6[9] = CR /\ t6[10] = LF /\ t6[11] = CR /\ t6[12] = LF
  <2>1. 10 \in Nat /\ {1, 2, 3, 4, 5, 6, 7, 8, 9, 10} \subseteq 1 .. 10 /\ 10 + 1 = 11
        /\ 10 + 2 = 12
    OBVIOUS
  <2>2. /\ t5 \o <<CR, LF>> \in Seq(Symbol) /\ Len(t5 \o <<CR, LF>>) = 10 + 2
        /\ \A i \in 1 .. 10 : (t5 \o <<CR, LF>>)[i] = t5[i]
        /\ (t5 \o <<CR, LF>>)[10 + 1] = CR /\ (t5 \o <<CR, LF>>)[10 + 2] = LF
    <3>1. 10 \in Nat /\ 10 = Len(t5)
      BY <1>8
    <3> QED BY <3>1, LineEnd
  <2> QED BY <1>2, <1>8, <2>1, <2>2, ZenonT(60)
<1> DEFINE h == Handshake(first, key)
<1>10. t6 = h
  <2>1. /\ h \in Seq(Symbol) /\ Len(h) = 12
        /\ h[1] = first /\ h[2] = CR /\ h[3] = LF /\ h[4] = Upgrade /\ h[5] = WebSocket
        /\ h[6] = CR /\ h[7] = LF /\ h[8] = key /\ h[9] = CR /\ h[10] = LF
        /\ h[11] = CR /\ h[12] = LF
    BY HandshakeSymbols
  <2> HIDE DEF h
  <2>2. \A i \in 1 .. 12 : \/ i = 1 \/ i = 2 \/ i = 3 \/ i = 4 \/ i = 5 \/ i = 6
                           \/ i = 7 \/ i = 8 \/ i = 9 \/ i = 10 \/ i = 11 \/ i = 12
    OBVIOUS
  <2>3. \A i \in 1 .. 12 : t6[i] = h[i]
    BY <1>9, <2>1, <2>2
  <2> QED BY <1>9, <2>1, <2>3, SeqEqual
<1> QED BY <1>4, <1>5, <1>6, <1>7, <1>8, <1>9, <1>10

\* The header of a message.
HeadIs(kind, first, b, packs, h) ==
  \/ kind = "NORMAL" /\ packs[1] = Null /\ h = NoField(first)
  \/ kind = "NORMAL" /\ h = OneField(first, ContentLen(Len(packs[1])))
  \/ kind = "CHUNK" /\ h = OneField(first, Chunked)
  \/ kind = "BOUNDARY" /\ b # NoBoundary /\ h = OneField(first, Multipart(b))
  \/ kind = "WEBSOCKET" /\ h = WsHeader(first)

\* What is behind it.
BodyIs(kind, b, packs, rest) ==
  /\ rest \in Seq(BodySymbol)
  /\ kind = "WEBSOCKET" => packs = <<>> /\ rest = <<>>
  /\ kind # "WEBSOCKET" => PacketsOf(kind, packs)
  /\ kind = "NORMAL" => rest = packs[1]
  /\ kind \in {"CHUNK", "BOUNDARY"} => rest = LeftOf(kind, b, packs)[0]

\* The body is one that the kind can carry.
Sendable(kind, body, b) ==
  /\ kind \in {"NORMAL", "CHUNK", "BOUNDARY", "WEBSOCKET"}
  /\ body \in Seq(BodyPacket) /\ b \in Boundaries \cup {NoBoundary}
  /\ kind = "NORMAL" => Len(body) <= 1
  /\ kind = "BOUNDARY" => b # NoBoundary

\* bytes are the header h and then rest.
SentAs(bytes, kind, first, b, packs, h, rest) ==
  /\ kind \in {"NORMAL", "CHUNK", "BOUNDARY", "WEBSOCKET"} /\ first \in FirstLines
  /\ b \in Boundaries \cup {NoBoundary} /\ (kind # "BOUNDARY" => b = NoBoundary)
  /\ HeadIs(kind, first, b, packs, h) /\ BodyIs(kind, b, packs, rest)
  /\ bytes = h \o rest

\* The packets of a body.
LEMMA PacketsAre ==
  ASSUME NEW body \in Seq(BodyPacket)
  PROVE  /\ body \in Seq(Seq(Payload)) /\ Len(body) \in Nat
         /\ \A i \in 1 .. Len(body) : body[i] \in Seq(Payload) /\ body[i] # Null /\ Fitting(body[i])
         /\ Append(body, Null) \in Seq(Seq(Payload))
         /\ Len(Append(body, Null)) = Len(body) + 1
         /\ \A i \in 1 .. Len(body) : Append(body, Null)[i] = body[i]
         /\ Append(body, Null)[Len(body) + 1] = Null
         /\ \A kind \in {"CHUNK", "BOUNDARY"} : PacketsOf(kind, Append(body, Null))
<1>1. BodyPacket \subseteq Seq(Payload)
  BY DEF BodyPacket
<1>2. body \in Seq(Seq(Payload)) /\ Len(body) \in Nat
  BY <1>1, SeqWider, LenProperties
<1>3. \A i \in 1 .. Len(body) : body[i] \in BodyPacket
  BY ElementOfSeq
<1>4. \A i \in 1 .. Len(body) : body[i] \in Seq(Payload) /\ body[i] # Null /\ Fitting(body[i])
  BY <1>3 DEF BodyPacket
<1>5. Null \in Seq(Payload) /\ Fitting(Null)
  BY DEF Null, Fitting, MaxChunk
<1> DEFINE packs == Append(body, Null)
<1>6. /\ packs \in Seq(Seq(Payload)) /\ Len(packs) = Len(body) + 1
      /\ \A i \in 1 .. Len(body) : packs[i] = body[i]
      /\ packs[Len(body) + 1] = Null
  BY <1>2, <1>5, AppendProperties
<1> HIDE DEF packs
<1>7. ASSUME NEW kind \in {"CHUNK", "BOUNDARY"} PROVE PacketsOf(kind, packs)
  <2>1. \A i \in 1 .. Len(packs) : i # Len(packs) => i \in 1 .. Len(body)
    BY <1>2, <1>6
  <2>2. \A i \in 1 .. Len(packs) : packs[i] = Null <=> i = Len(packs)
    BY <1>4, <1>6, <2>1
  <2>3. Len(packs) \in Nat \ {0} /\ kind # "NORMAL"
    BY <1>2, <1>6
  <2>4. \A i \in 1 .. Len(packs) : Fitting(packs[i])
    BY <1>4, <1>5, <1>6, <2>1
  <2> QED BY <1>6, <2>2, <2>3, <2>4 DEF PacketsOf
<1> QED BY <1>2, <1>4, <1>6, <1>7 DEF packs

\* A message without a body, and one with a length.
LEMMA NormalSent ==
  ASSUME NEW first \in FirstLines, NEW body, NEW b, Sendable("NORMAL", body, b),
         NEW bytes, bytes = Encode(first, "NORMAL", body, b)
  PROVE  \E d, h, rest : SentAs(bytes, "NORMAL", first, d, Packets("NORMAL", body), h, rest)
<1>1. /\ first \in FirstLines /\ body \in Seq(BodyPacket) /\ b \in Boundaries \cup {NoBoundary}
      /\ Len(body) <= 1 /\ bytes = Encode(first, "NORMAL", body, b)
  BY DEF Sendable
<1>2. CASE body = <<>>
  <2> DEFINE packs == <<Null>>
  <2>1. Packets("NORMAL", body) = packs
    BY <1>2 DEF Packets
  <2>2. bytes = NoField(first)
    BY <1>1, <1>2, HeaderIs DEF Encode
  <2>3. NoField(first) \in Seq(Symbol)
    BY <1>1, HeadersHaveShape DEF HeadShape
  <2>4. NoField(first) \o <<>> = NoField(first)
    BY <2>3
  <2>5. Null \in Seq(Payload) /\ Null = <<>> /\ Null \in Seq(BodySymbol) /\ Fitting(Null)
    BY DEF Null, Fitting, MaxChunk
  <2>6. packs \in Seq(Seq(Payload)) /\ Len(packs) = 1 /\ packs[1] = Null
    BY <2>5
  <2> HIDE DEF packs
  <2>7. PacketsOf("NORMAL", packs)
    <3>1. \A i \in 1 .. Len(packs) : Fitting(packs[i])
      BY <2>5, <2>6
    <3> QED BY <2>6, <3>1 DEF PacketsOf
  <2>8. BodyIs("NORMAL", NoBoundary, packs, Null)
    BY <2>5, <2>6, <2>7 DEF BodyIs
  <2>9. HeadIs("NORMAL", first, NoBoundary, packs, NoField(first))
    BY <2>6 DEF HeadIs
  <2>10. bytes = NoField(first) \o Null
    BY <2>2, <2>4, <2>5
  <2>11. SentAs(bytes, "NORMAL", first, NoBoundary, packs, NoField(first), Null)
    BY <1>1, <2>1, <2>8, <2>9, <2>10 DEF SentAs
  <2> QED BY <2>1, <2>11
<1>3. CASE body # <<>>
  <2>1. Packets("NORMAL", body) = body
    BY <1>3 DEF Packets
  <2>2. bytes = Header(first, <<ContentLen(Len(body[1]))>>) \o body[1]
    BY <1>1, <1>3 DEF Encode
  <2>3. Len(body) \in Nat /\ Len(body) # 0
    BY <1>1, <1>3, EmptySeq, LenProperties
  <2>4. PICK one \in 1 .. Len(body) : one = 1 /\ Len(body) = one
    BY <1>1, <2>3
  <2>5. /\ body \in Seq(Seq(Payload)) /\ body[1] \in Seq(Payload)
        /\ \A i \in 1 .. Len(body) : Fitting(body[i])
    BY <1>1, <2>4, PacketsAre
  <2>6. body[1] \in Seq(BodySymbol) /\ Len(body[1]) \in Nat
    BY <2>5, SeqWider, BodySymbols, LenProperties
  <2>7. ContentLen(Len(body[1])) \in Symbol
    BY <2>6 DEF ContentLen, Symbol
  <2>8. bytes = OneField(first, ContentLen(Len(body[1]))) \o body[1]
    BY <1>1, <2>2, <2>7, HeaderIs
  <2>9. PacketsOf("NORMAL", body)
    BY <2>3, <2>4, <2>5 DEF PacketsOf
  <2>10. BodyIs("NORMAL", NoBoundary, body, body[1])
    BY <2>6, <2>9 DEF BodyIs
  <2>11. HeadIs("NORMAL", first, NoBoundary, body, OneField(first, ContentLen(Len(body[1]))))
    BY DEF HeadIs
  <2>12. SentAs(bytes, "NORMAL", first, NoBoundary, body, OneField(first, ContentLen(Len(body[1]))), body[1])
    BY <1>1, <2>1, <2>8, <2>10, <2>11 DEF SentAs
  <2> QED BY <2>1, <2>12
<1> QED BY <1>2, <1>3

\* A message with a streamed body.
LEMMA StreamSent ==
  ASSUME NEW first \in FirstLines, NEW body, NEW b, NEW kind \in {"CHUNK", "BOUNDARY"},
         Sendable(kind, body, b), NEW bytes, bytes = Encode(first, kind, body, b)
  PROVE  \E d, h, rest : SentAs(bytes, kind, first, d, Packets(kind, body), h, rest)
<1> DEFINE packs == Append(body, Null)
           field == IF kind = "CHUNK" THEN Chunked ELSE Multipart(b)
           d     == IF kind = "CHUNK" THEN NoBoundary ELSE b
           rest  == LeftOf(kind, d, packs)[0]
<1>1. /\ first \in FirstLines /\ body \in Seq(BodyPacket) /\ b \in Boundaries \cup {NoBoundary}
      /\ d \in Boundaries \cup {NoBoundary}
      /\ kind = "BOUNDARY" => d # NoBoundary /\ d = b
      /\ kind # "BOUNDARY" => d = NoBoundary
      /\ bytes = Encode(first, kind, body, b)
  BY DEF Sendable
<1>2. Packets(kind, body) = packs
  BY DEF Packets
<1>3. field \in Symbol
  BY <1>1 DEF Symbol, Chunked, Multipart
<1>4. PacketsOf(kind, packs)
  BY <1>1, PacketsAre
<1>5. Behinds(LeftOf(kind, d, packs), kind, d, packs)
  BY <1>1, <1>4, LeftIs
<1>6. rest = FlattenSeq(Encoded(kind, d, packs))
  BY <1>5 DEF Behinds
<1>7. rest \in Seq(BodySymbol)
  <2>1. Len(packs) \in Nat
    BY <1>4 DEF PacketsOf
  <2>2. 0 \in 0 .. Len(packs) /\ LeftOf(kind, d, packs) \in [0 .. Len(packs) -> Seq(BodySymbol)]
    BY <1>5, <2>1 DEF Behinds
  <2> QED BY <2>2
<1>8. /\ Len(body) \in Nat /\ Len(packs) = Len(body) + 1
      /\ \A i \in 1 .. Len(body) : packs[i] = body[i]
      /\ packs[Len(body) + 1] = Null
  BY <1>1, PacketsAre
<1> HIDE DEF packs
<1>9. \A i \in 1 .. Len(body) + 1 : (IF i <= Len(body) THEN body[i] ELSE Null) = packs[i]
  <2> TAKE i \in 1 .. Len(body) + 1
  <2>1. CASE i <= Len(body)
    <3>1. i \in 1 .. Len(body)
      BY <2>1
    <3> QED BY <1>8, <2>1, <3>1
  <2>2. CASE ~(i <= Len(body))
    <3>1. i = Len(body) + 1
      BY <1>8, <2>2
    <3> QED BY <1>8, <2>2, <3>1
  <2> QED BY <2>1, <2>2
<1>10. /\ kind = "CHUNK" =>
            [i \in 1 .. Len(body) + 1 |-> SendChunkBody(IF i <= Len(body) THEN body[i] ELSE Null)]
              = Encoded(kind, d, packs)
       /\ kind = "BOUNDARY" =>
            [i \in 1 .. Len(body) + 1 |-> SendBoundaryBody(IF i <= Len(body) THEN body[i] ELSE Null, b)]
              = Encoded(kind, d, packs)
  BY <1>8, <1>9 DEF Encoded, Sent1
<1>11. bytes = Header(first, <<field>>) \o rest
  <2>1. CASE kind = "CHUNK"
    BY <1>1, <1>6, <1>10, <2>1 DEF Encode
  <2>2. CASE kind = "BOUNDARY"
    BY <1>1, <1>6, <1>10, <2>2 DEF Encode
  <2> QED BY <2>1, <2>2
<1>12. bytes = OneField(first, field) \o rest
  BY <1>1, <1>3, <1>11, HeaderIs
<1>13. HeadIs(kind, first, d, packs, OneField(first, field))
  BY <1>1 DEF HeadIs
<1>14. BodyIs(kind, d, packs, rest)
  BY <1>4, <1>7 DEF BodyIs
<1>15. SentAs(bytes, kind, first, d, packs, OneField(first, field), rest)
  BY <1>1, <1>2, <1>12, <1>13, <1>14 DEF SentAs
<1> QED BY <1>2, <1>15

\* A switch.
LEMMA UpgradeSent ==
  ASSUME NEW first \in FirstLines, NEW body, NEW b, Sendable("WEBSOCKET", body, b),
         NEW bytes, bytes = Encode(first, "WEBSOCKET", body, b)
  PROVE  \E d, h, rest : SentAs(bytes, "WEBSOCKET", first, d, Packets("WEBSOCKET", body), h, rest)
<1>1. /\ first \in FirstLines /\ b \in Boundaries \cup {NoBoundary}
      /\ bytes = Encode(first, "WEBSOCKET", body, b)
  BY DEF Sendable
<1>2. Packets("WEBSOCKET", body) = <<>>
  BY DEF Packets
<1>3. first \in Symbol
  BY FirstLineTags
<1>4. bytes = <<first>> \o HTTP_SEP \o <<Upgrade, WebSocket>> \o HTTP_SEP
                  \o <<WsKey>> \o HTTP_SEP \o HTTP_SEP
  BY <1>1 DEF Encode
<1>5. bytes = WsHeader(first) \o <<>>
  <2>1. Telling(first, WsKey)
    BY <1>3, FirstLineTags, Tags DEF Telling, WsKey
  <2>2. Handshake(first, WsKey) = WsHeader(first)
    BY Zenon DEF Handshake, WsHeader
  <2>8. bytes = WsHeader(first)
    BY <1>4, <2>1, <2>2, HandshakeSent
  <2>9. WsHeader(first) \in Seq(Symbol)
    BY <1>1, HeadersHaveShape DEF HeadShape
  <2>10. \A z \in Seq(Symbol) : z \o <<>> = z
    OBVIOUS
  <2> QED BY <2>8, <2>9, <2>10
<1>6. <<>> \in Seq(BodySymbol)
  OBVIOUS
<1>7. BodyIs("WEBSOCKET", NoBoundary, <<>>, <<>>)
  BY <1>6, Zenon DEF BodyIs
<1>8. HeadIs("WEBSOCKET", first, NoBoundary, <<>>, WsHeader(first))
  BY DEF HeadIs
<1>9. SentAs(bytes, "WEBSOCKET", first, NoBoundary, <<>>, WsHeader(first), <<>>)
  BY <1>1, <1>2, <1>5, <1>7, <1>8, Zenon DEF SentAs
<1> QED BY <1>2, <1>9, Zenon

\* A message that is sent as this library sends it is a header and a body.
LEMMA SentIs ==
  ASSUME NEW first \in FirstLines, NEW kind, NEW body, NEW b, Sendable(kind, body, b),
         NEW bytes, bytes = Encode(first, kind, body, b)
  PROVE  \E d, h, rest : SentAs(bytes, kind, first, d, Packets(kind, body), h, rest)
<1>1. kind = "NORMAL" \/ kind \in {"CHUNK", "BOUNDARY"} \/ kind = "WEBSOCKET"
  BY DEF Sendable
<1>2. CASE kind = "NORMAL"
  BY <1>2, NormalSent
<1>3. CASE kind \in {"CHUNK", "BOUNDARY"}
  BY <1>3, StreamSent
<1>4. CASE kind = "WEBSOCKET"
  BY <1>4, UpgradeSent
<1> QED BY <1>1, <1>2, <1>3, <1>4

\* The one field x, in a line, at j.
FieldAt(s, m, j, x) ==
  /\ j \in 1 .. m /\ s[j] = x /\ Search(s, HTTP_SEP, j) # 0 /\ OnlyField(s, m, j)

\* That is so of a header with one field.
LEMMA FieldFound ==
  ASSUME NEW g \in Junk, NEW c, c = Len(g), NEW first \in FirstLines, NEW x \in Symbol, x # CR,
         NEW rest \in Seq(BodySymbol), NEW t, t = g \o (OneField(first, x) \o rest),
         NEW s \in Seq(Symbol), NEW m \in Nat, m = Len(s), FrontIs(s, m, t), c + 8 <= m
  PROVE  FieldAt(s, m, c + 4, x)
<1> DEFINE h == OneField(first, x)
<1>1. PICK l \in Nat : l = 8
  OBVIOUS
<1>2. HeadShape(h, l, first)
  BY <1>1, HeadersHaveShape
<1>3. /\ h[1] = first /\ h[2] = CR /\ h[3] = LF /\ h[4] = x /\ h[5] = CR
      /\ h[6] = LF /\ h[7] = CR /\ h[8] = LF
  BY DEF OneField
<1> HIDE DEF h
<1>4. t = g \o (h \o rest)
  BY Zenon DEF h
<1>5. c \in Nat
  <2>1. rest \in Seq(Symbol)
    BY BodySymbols, SeqWider
  <2>2. ShapedAt(t, g, c, h, l, rest)
    BY <1>2, <1>4, <2>1, ShapedThere
  <2> QED BY <2>2 DEF ShapedAt
<1>6. ASSUME NEW f \in 1 .. l PROVE c + f \in 1 .. m /\ s[c + f] = h[f]
  <2>1. Within(c, l, m)
    BY <1>1, <1>5 DEF Within
  <2>2. SymbolIs(s, m, c, f, h)
    BY <1>2, <1>4, <2>1, FieldThere
  <2> QED BY <2>2 DEF SymbolIs
<1>7. PICK f \in 1 .. l : f = 4 /\ f + 1 \in 1 .. l /\ f + 2 \in 1 .. l
  BY <1>1
<1>8. \A i \in 1 .. l : i # f => h[i][1] \notin HeadTags
  <2>1. \A i \in 1 .. l : i \in {1, 2, 3, 4, 5, 6, 7, 8}
    BY <1>1
  <2>2. first[1] \notin HeadTags /\ CR[1] \notin HeadTags /\ LF[1] \notin HeadTags
    BY FirstLineTags DEF CR, LF, HeadTags
  <2> QED BY <1>3, <1>7, <2>1, <2>2
<1>9. PICK j \in Nat : j = c + f
  BY <1>5, <1>7
<1>10. f \in Int /\ j \in Int
  BY <1>7
<1>11. OnlyField(s, m, j)
  BY <1>2, <1>4, <1>8, <1>9, <1>10, FieldsIn
<1>12. j \in 1 .. m /\ s[j] = x
  BY <1>3, <1>6, <1>7, <1>9
<1>13. Search(s, HTTP_SEP, j) # 0
  <2>1. c + (f + 1) \in 1 .. m /\ s[c + (f + 1)] = h[f + 1]
    BY <1>6, <1>7
  <2>2. c + (f + 2) \in 1 .. m /\ s[c + (f + 2)] = h[f + 2]
    BY <1>6, <1>7
  <2>3. PICK k \in Nat : k = j + 1
    BY <1>9
  <2>4. s[k] = CR /\ s[k + 1] = LF /\ j <= k /\ k + 1 <= m
    <3>1. h[f + 1] = CR /\ h[f + 2] = LF
      BY <1>3, <1>7
    <3>2. k = c + (f + 1) /\ k + 1 = c + (f + 2)
      BY <1>5, <1>7, <1>9, <2>3
    <3>3. s[k] = CR /\ s[k + 1] = LF
      BY <2>1, <2>2, <3>1, <3>2, Zenon
    <3>4. k + 1 \in 1 .. m
      BY <2>2, <3>2
    <3> QED BY <2>3, <3>3, <3>4
  <2>5. PICK n \in Nat : n = 2 /\ n = Len(HTTP_SEP)
    BY Patterns
  <2>6. FitsAt(s, HTTP_SEP, n, k)
    <3>1. HTTP_SEP[1] = CR /\ HTTP_SEP[2] = LF
      BY DEF HTTP_SEP
    <3>2. \A i \in 1 .. n : i = 1 \/ i = 2
      BY <2>5
    <3>3. k + 1 - 1 = k /\ k + 2 - 1 = k + 1
      OBVIOUS
    <3>4. ASSUME NEW i \in 1 .. n PROVE s[k + i - 1] = HTTP_SEP[i]
      <4>1. CASE i = 1
        BY <2>4, <3>1, <3>3, <4>1
      <4>2. CASE i = 2
        BY <2>4, <3>1, <3>3, <4>2
      <4> QED BY <3>2, <4>1, <4>2
    <3> QED BY <3>4 DEF FitsAt
  <2>7. HTTP_SEP \in Seq(Symbol) /\ j \in Nat \ {0} /\ n = Len(HTTP_SEP)
    BY <1>12, <2>5, Patterns
  <2>8. k + n - 1 <= m
    BY <2>4, <2>5
  <2>9. \A i \in Nat : j <= i /\ i + n - 1 <= m /\ FitsAt(s, HTTP_SEP, n, i)
                         => Search(s, HTTP_SEP, j) # 0 /\ Search(s, HTTP_SEP, j) <= i
    BY <2>7, SearchFrom
  <2> QED BY <2>4, <2>6, <2>8, <2>9
<1>14. c + 4 = j
  BY <1>7, <1>9
<1> QED BY <1>11, <1>12, <1>13, <1>14 DEF FieldAt

\* Only a boundary changes the boundary.
LEMMA BoundaryKept ==
  ASSUME NEW p \in Parser, Classify(p).type # "BOUNDARY"
  PROVE  Classify(p).boundary = p.boundary
<1> DEFINE multipart == SearchText(p.pkts, {"multipart"})
           length    == SearchText(p.pkts, {"length"})
           mvalue    == p.pkts[multipart][2]
           lvalue    == p.pkts[length][2]
           q         == Classify(p)
<1>1. \/ q = [p EXCEPT !.type = "WEBSOCKET"] \/ q = [p EXCEPT !.type = "CHUNK"]
      \/ q = [p EXCEPT !.type = "BOUNDARY", !.boundary = mvalue]
      \/ q = p \/ q = [p EXCEPT !.type = "NORMAL", !.bodyBytes = lvalue]
      \/ q = [p EXCEPT !.type = "NORMAL", !.bodyBytes = 0]
  BY DEF Classify
<1> HIDE DEF multipart, length, mvalue, lvalue
<1>2. [p EXCEPT !.type = "BOUNDARY", !.boundary = mvalue].type = "BOUNDARY"
  BY DEF Parser
<1>3. q # [p EXCEPT !.type = "BOUNDARY", !.boundary = mvalue]
  BY <1>2
<1> HIDE DEF q
<1> QED BY <1>1, <1>3 DEF Parser, q

\* What parse_header knows of a request.
KnownAs(q, kind, b, packs) ==
  /\ q.type = kind /\ q.boundary = b
  /\ kind = "NORMAL" => q.bodyBytes = Len(packs[1])

\* The kind of a request with one field,
LEMMA FieldKnown ==
  ASSUME NEW p \in Parser, p.boundary = NoBoundary, NEW g \in Junk, NEW c, c = Len(g), NEW first \in FirstLines,
         NEW kind, NEW b \in Boundaries \cup {NoBoundary}, NEW packs, NEW x \in Symbol, x # CR,
         NEW rest \in Seq(BodySymbol), NEW t, t = g \o (OneField(first, x) \o rest),
         NEW m \in Nat, m = Len(p.pkts), FrontIs(p.pkts, m, t), c + 8 <= m,
         \/ kind = "NORMAL" /\ b = NoBoundary /\ x = ContentLen(Len(packs[1])) /\ Len(packs[1]) \in Nat
         \/ kind = "CHUNK" /\ b = NoBoundary /\ x = Chunked
         \/ kind = "BOUNDARY" /\ b # NoBoundary /\ x = Multipart(b)
  PROVE  KnownAs(Classify(p), kind, b, packs)
<1>1. PICK s \in Seq(Symbol) : s = p.pkts
  BY DEF Parser
<1>2. FrontIs(s, m, t) /\ m = Len(s)
  BY <1>1
<1>3. FieldAt(s, m, c + 4, x)
  BY <1>2, FieldFound
<1>4. PICK j : j = c + 4
  OBVIOUS
<1>5. j \in 1 .. Len(p.pkts) /\ p.pkts[j] = x /\ Search(p.pkts, HTTP_SEP, j) # 0
  BY <1>1, <1>2, <1>3, <1>4 DEF FieldAt
<1>6. \A i \in 1 .. Len(p.pkts) : i # j => p.pkts[i][1] \notin HeadTags
  BY <1>1, <1>2, <1>3, <1>4 DEF FieldAt, OnlyField
<1>7. /\ p.pkts[j] = Chunked => Classify(p).type = "CHUNK"
      /\ \A d : p.pkts[j] = Multipart(d) /\ d # NoBoundary =>
           Classify(p).type = "BOUNDARY" /\ Classify(p).boundary = d
      /\ \A n \in Nat : p.pkts[j] = ContentLen(n) =>
           Classify(p).type = "NORMAL" /\ Classify(p).bodyBytes = n
  BY <1>5, <1>6, ClassifyOnly
<1>8. CASE kind = "NORMAL" /\ b = NoBoundary /\ x = ContentLen(Len(packs[1])) /\ Len(packs[1]) \in Nat
  <2>1. Classify(p).type = "NORMAL" /\ Classify(p).bodyBytes = Len(packs[1])
    BY <1>5, <1>7, <1>8
  <2>2. Classify(p).boundary = NoBoundary
    BY <2>1, BoundaryKept
  <2> QED BY <1>8, <2>1, <2>2 DEF KnownAs
<1>9. CASE kind = "CHUNK" /\ b = NoBoundary /\ x = Chunked
  <2>1. Classify(p).type = "CHUNK"
    BY <1>5, <1>7, <1>9
  <2>2. Classify(p).boundary = NoBoundary
    BY <2>1, BoundaryKept
  <2> QED BY <1>9, <2>1, <2>2 DEF KnownAs
<1>10. CASE kind = "BOUNDARY" /\ b # NoBoundary /\ x = Multipart(b)
  <2>1. Classify(p).type = "BOUNDARY" /\ Classify(p).boundary = b
    BY <1>5, <1>7, <1>10
  <2> QED BY <1>10, <2>1 DEF KnownAs
<1> QED BY <1>8, <1>9, <1>10

\* of one without a field,
LEMMA NothingKnown ==
  ASSUME NEW p \in Parser, p.boundary = NoBoundary, NEW g \in Junk, NEW c, c = Len(g), NEW first \in FirstLines,
         NEW packs, packs[1] = Null, NEW rest \in Seq(BodySymbol), NEW t, t = g \o (NoField(first) \o rest),
         NEW m \in Nat, m = Len(p.pkts), FrontIs(p.pkts, m, t)
  PROVE  KnownAs(Classify(p), "NORMAL", NoBoundary, packs)
<1> DEFINE h == NoField(first)
<1>1. PICK l \in Nat : l = 5
  OBVIOUS
<1>2. HeadShape(h, l, first)
  BY <1>1, HeadersHaveShape
<1>3. h[1] = first /\ h[2] = CR /\ h[3] = LF /\ h[4] = CR /\ h[5] = LF
  BY DEF NoField
<1> HIDE DEF h
<1>4. t = g \o (h \o rest)
  BY Zenon DEF h
<1>5. c \in Nat
  <2>1. rest \in Seq(Symbol)
    BY BodySymbols, SeqWider
  <2>2. ShapedAt(t, g, c, h, l, rest)
    BY <1>2, <1>4, <2>1, ShapedThere
  <2> QED BY <2>2 DEF ShapedAt
<1>6. PICK s \in Seq(Symbol) : s = p.pkts
  BY DEF Parser
<1>7. PICK f \in Int : f = -c
  BY <1>5
<1>8. PICK e \in Int : e = c + f /\ e = 0
  BY <1>5, <1>7
<1>9. \A i \in 1 .. l : h[i][1] \notin HeadTags
  <2>1. \A i \in 1 .. l : i \in {1, 2, 3, 4, 5}
    BY <1>1
  <2>2. first[1] \notin HeadTags /\ CR[1] \notin HeadTags /\ LF[1] \notin HeadTags
    BY FirstLineTags DEF CR, LF, HeadTags
  <2> QED BY <1>3, <2>1, <2>2
<1>10. FrontIs(s, m, t) /\ m = Len(s) /\ e = c + f
  BY <1>6, <1>8
<1>11. \A i \in 1 .. l : i # f => h[i][1] \notin HeadTags
  BY <1>9
<1>12. OnlyField(s, m, e)
  BY <1>2, <1>4, <1>10, <1>11, FieldsIn
<1>13. \A i \in 1 .. Len(p.pkts) : p.pkts[i][1] \notin HeadTags
  <2>1. \A i \in 1 .. m : i # e
    BY <1>8
  <2> QED BY <1>6, <1>10, <1>12, <2>1 DEF OnlyField
<1>14. Classify(p).type = "NORMAL" /\ Classify(p).bodyBytes = 0
  BY <1>13, ClassifyNone
<1>15. Classify(p).boundary = NoBoundary
  BY <1>14, BoundaryKept
<1>16. Len(packs[1]) = 0
  BY DEF Null
<1> QED BY <1>14, <1>15, <1>16 DEF KnownAs

\* and of an upgrade.
LEMMA UpgradeFound ==
  ASSUME NEW p \in Parser, p.boundary = NoBoundary, NEW g \in Junk, NEW c, c = Len(g), NEW first \in FirstLines,
         NEW packs, NEW rest \in Seq(BodySymbol), NEW t, t = g \o (WsHeader(first) \o rest),
         NEW m \in Nat, m = Len(p.pkts), FrontIs(p.pkts, m, t), c + 12 <= m
  PROVE  KnownAs(Classify(p), "WEBSOCKET", NoBoundary, packs)
<1> DEFINE h == WsHeader(first)
<1>1. PICK l \in Nat : l = 12
  OBVIOUS
<1>2. HeadShape(h, l, first)
  BY <1>1, HeadersHaveShape
<1>3. h[4] = Upgrade /\ h[5] = WebSocket
  BY DEF WsHeader
<1> HIDE DEF h
<1>4. t = g \o (h \o rest)
  BY Zenon DEF h
<1>5. Within(c, l, m)
  BY <1>1 DEF Within
<1>6. PICK s \in Seq(Symbol) : s = p.pkts
  BY DEF Parser
<1>7. FrontIs(s, m, t) /\ m = Len(s)
  BY <1>6
<1>8. ASSUME NEW f \in 1 .. l PROVE SymbolIs(s, m, c, f, h)
  BY <1>2, <1>4, <1>5, <1>7, FieldThere
<1>9. PICK f \in 1 .. l : f = 4
  BY <1>1
<1>10. PICK k \in 1 .. l : k = 5
  BY <1>1
<1>11. PICK i \in 1 .. m : s[i] = Upgrade
  <2>1. SymbolIs(s, m, c, f, h)
    BY <1>8
  <2> QED BY <1>3, <1>9, <2>1 DEF SymbolIs
<1>12. PICK j \in 1 .. m : s[j] = WebSocket
  <2>1. SymbolIs(s, m, c, k, h)
    BY <1>8
  <2> QED BY <1>3, <1>10, <2>1 DEF SymbolIs
<1>13. Classify(p).type = "WEBSOCKET"
  <2>1. i \in 1 .. Len(p.pkts) /\ j \in 1 .. Len(p.pkts)
    BY <1>6, <1>7
  <2>2. p.pkts[i][1] = "upgrade" /\ p.pkts[j][1] = "websocket"
    BY <1>6, <1>11, <1>12, Tags
  <2> QED BY <2>1, <2>2, UpgradeKnown
<1>14. Classify(p).boundary = NoBoundary
  BY <1>13, BoundaryKept
<1> QED BY <1>13, <1>14 DEF KnownAs

\* The header of a request is l symbols long, and all of it says what the request is.
LEMMA KindFound ==
  ASSUME NEW p \in Parser, p.boundary = NoBoundary, NEW g \in Junk, NEW c, c = Len(g), NEW first \in FirstLines,
         NEW kind, NEW b \in Boundaries \cup {NoBoundary}, kind # "BOUNDARY" => b = NoBoundary,
         NEW packs, NEW h, NEW rest, HeadIs(kind, first, b, packs, h), BodyIs(kind, b, packs, rest),
         NEW t, t = g \o (h \o rest), NEW m \in Nat, m = Len(p.pkts), FrontIs(p.pkts, m, t)
  PROVE  \E l \in Nat : HeadShape(h, l, first) /\ (Within(c, l, m) => KnownAs(Classify(p), kind, b, packs))
<1>1. rest \in Seq(BodySymbol)
  BY DEF BodyIs
<1>2. CASE kind = "NORMAL" /\ packs[1] = Null /\ h = NoField(first)
  <2>1. PICK l \in Nat : l = 5
    OBVIOUS
  <2>2. HeadShape(h, l, first)
    BY <1>2, <2>1, HeadersHaveShape
  <2>3. t = g \o (NoField(first) \o rest) /\ b = NoBoundary
    BY <1>2
  <2>4. KnownAs(Classify(p), "NORMAL", NoBoundary, packs)
    BY <1>1, <1>2, <2>3, NothingKnown
  <2> QED BY <1>2, <2>2, <2>3, <2>4
<1>3. ASSUME NEW x \in Symbol, x # CR, h = OneField(first, x),
             \/ kind = "NORMAL" /\ b = NoBoundary /\ x = ContentLen(Len(packs[1])) /\ Len(packs[1]) \in Nat
             \/ kind = "CHUNK" /\ b = NoBoundary /\ x = Chunked
             \/ kind = "BOUNDARY" /\ b # NoBoundary /\ x = Multipart(b)
      PROVE  \E l \in Nat : HeadShape(h, l, first) /\ (Within(c, l, m) => KnownAs(Classify(p), kind, b, packs))
  <2>1. PICK l \in Nat : l = 8
    OBVIOUS
  <2>2. HeadShape(h, l, first)
    BY <1>3, <2>1, HeadersHaveShape
  <2>3. t = g \o (OneField(first, x) \o rest)
    BY <1>3
  <2>4. ASSUME Within(c, l, m) PROVE KnownAs(Classify(p), kind, b, packs)
    <3>1. c + 8 <= m
      BY <2>1, <2>4 DEF Within
    <3> QED BY <1>1, <1>3, <2>3, <3>1, FieldKnown
  <2> QED BY <2>2, <2>4
<1>4. CASE kind = "NORMAL" /\ h = OneField(first, ContentLen(Len(packs[1])))
  <2>1. packs[1] \in Seq(BodySymbol)
    BY <1>4 DEF BodyIs
  <2>2. PICK n \in Nat : n = Len(packs[1])
    BY <2>1, LenProperties
  <2>3. ContentLen(n) \in Symbol /\ ContentLen(n) # CR
    BY DEF ContentLen, Symbol, CR
  <2> QED BY <1>3, <1>4, <2>2, <2>3
<1>5. CASE kind = "CHUNK" /\ h = OneField(first, Chunked)
  <2>1. Chunked \in Symbol /\ Chunked # CR
    BY DEF Chunked, Symbol, CR
  <2> QED BY <1>3, <1>5, <2>1
<1>6. CASE kind = "BOUNDARY" /\ b # NoBoundary /\ h = OneField(first, Multipart(b))
  <2>1. Multipart(b) \in Symbol /\ Multipart(b) # CR
    BY DEF Multipart, Symbol, CR
  <2> QED BY <1>3, <1>6, <2>1
<1>7. CASE kind = "WEBSOCKET" /\ h = WsHeader(first)
  <2>1. PICK l \in Nat : l = 12
    OBVIOUS
  <2>2. HeadShape(h, l, first)
    BY <1>7, <2>1, HeadersHaveShape
  <2>3. t = g \o (WsHeader(first) \o rest) /\ b = NoBoundary
    BY <1>7
  <2>4. ASSUME Within(c, l, m) PROVE KnownAs(Classify(p), "WEBSOCKET", NoBoundary, packs)
    <3>1. c + 12 <= m
      BY <2>1, <2>4 DEF Within
    <3> QED BY <1>1, <2>3, <3>1, UpgradeFound
  <2> QED BY <1>7, <2>2, <2>3, <2>4
<1> QED BY <1>2, <1>4, <1>5, <1>6, <1>7 DEF HeadIs

\* The message is known, and the parser is in front of its packets.
HeaderKnown(r, w, c, kind, first, packs) ==
  /\ r.ret = "OK" /\ r.p.type = kind /\ FirstWordIs(r.p.header, c, first)
  /\ kind = "WEBSOCKET" => packs = <<>> /\ Makes(r.p.pkts, w, <<>>)
  /\ kind # "WEBSOCKET" => PacketsOf(kind, packs) /\ IsBehind(r.p, w, packs, 0)

\* parse_header waits for the header of a message, or knows the message.
LEMMA HeaderIsKnown ==
  ASSUME NEW p \in Parser, p.type = "INVALID", p.boundary = NoBoundary, p.chunkBytes = -1,
         NEW w \in Seq(Symbol), NEW g \in Junk, NEW c, c = Len(g),
         NEW bytes, NEW kind, NEW first, NEW b, NEW packs, NEW h, NEW rest,
         SentAs(bytes, kind, first, b, packs, h, rest), Joined(p.pkts, w, g, bytes)
  PROVE  \/ ParseHeader(p).ret = "CONTINUE" /\ ParseHeader(p).p = p
         \/ HeaderKnown(ParseHeader(p), w, c, kind, first, packs)
<1> DEFINE r == ParseHeader(p)
<1>1. /\ kind \in {"NORMAL", "CHUNK", "BOUNDARY", "WEBSOCKET"} /\ first \in FirstLines
      /\ b \in Boundaries \cup {NoBoundary} /\ (kind # "BOUNDARY" => b = NoBoundary)
      /\ HeadIs(kind, first, b, packs, h) /\ BodyIs(kind, b, packs, rest)
      /\ bytes = h \o rest
  BY DEF SentAs
<1>2. rest \in Seq(BodySymbol) /\ rest \in Seq(Symbol)
  BY <1>1, BodySymbols, SeqWider DEF BodyIs
<1>3. PICK t : t = g \o (h \o rest)
  OBVIOUS
<1>4. Makes(p.pkts, w, t)
  BY <1>1, <1>3 DEF Joined, Makes
<1>5. PICK n \in Nat : n = Len(p.pkts)
  BY LenProperties DEF Parser
<1>6. FrontIs(p.pkts, n, t)
  <2>1. PICK s \in Seq(Symbol) : s = p.pkts
    BY DEF Parser
  <2>2. FrontIs(s, Len(s), s \o w)
    BY FrontOf
  <2> QED BY <1>4, <1>5, <2>1, <2>2 DEF Makes
<1>7. PICK l \in Nat : HeadShape(h, l, first) /\ (Within(c, l, n) => KnownAs(Classify(p), kind, b, packs))
  BY <1>1, <1>3, <1>5, <1>6, KindFound
<1>8. \/ r.ret = "CONTINUE" /\ r.p = p
      \/ HeaderDone(p, r, w, c, l, first, rest)
  BY <1>1, <1>2, <1>3, <1>4, <1>7, HeaderRead
<1>9. CASE HeaderDone(p, r, w, c, l, first, rest)
  <2>1. KnownAs(Classify(p), kind, b, packs)
    BY <1>5, <1>7, <1>9 DEF HeaderDone, Within
  <2>2. /\ Classify(p).type = kind /\ Classify(p).boundary = b
        /\ kind = "NORMAL" => Classify(p).bodyBytes = Len(packs[1])
    BY <2>1 DEF KnownAs
  <2>3. /\ r.ret = "OK" /\ r.p.type = kind /\ r.p.boundary = b
        /\ kind = "NORMAL" => r.p.bodyBytes = Len(packs[1])
        /\ r.p.pkts \o w = rest
        /\ FirstWordIs(r.p.header, c, first)
    BY <1>1, <1>9, <2>2 DEF HeaderDone, Makes
  <2>4. r.p.chunkBytes = -1
    BY ParseHeaderResult
  <2>5. ASSUME kind # "WEBSOCKET" PROVE PacketsOf(kind, packs) /\ IsBehind(r.p, w, packs, 0)
    <3>1. PacketsOf(kind, packs)
      BY <1>1, <2>5 DEF BodyIs
    <3>2. CASE kind = "NORMAL"
      <4>1. rest = packs[1]
        BY <1>1, <3>2 DEF BodyIs
      <4> QED BY <2>3, <3>1, <3>2, <4>1 DEF IsBehind
    <3>3. CASE kind # "NORMAL"
      <4>1. rest = LeftOf(kind, b, packs)[0]
        BY <1>1, <2>5, <3>3 DEF BodyIs
      <4>2. 0 < Len(packs)
        BY <3>1 DEF PacketsOf
      <4>3. Rest(rest, -1, kind, b, packs, 0)
        BY <4>1, <4>2 DEF Rest
      <4> QED BY <2>3, <2>4, <3>1, <3>3, <4>3 DEF IsBehind
    <3> QED BY <3>2, <3>3
  <2>6. kind = "WEBSOCKET" => packs = <<>> /\ Makes(r.p.pkts, w, <<>>)
    BY <1>1, <2>3 DEF BodyIs, Makes
  <2> QED BY <2>3, <2>5, <2>6 DEF HeaderKnown
<1> QED BY <1>8, <1>9

-----------------------------------------------------------------------------
(* Waiting, and the end of a message. *)

\* Parsing is not possible yet.
StillWaits(p) == ParseHeader(p).ret = "CONTINUE" /\ ParseHeader(p).p = p

\* The buffer is too short for the end flag.
LEMMA ShortWaits ==
  ASSUME NEW p \in Parser, p.type = "INVALID", NEW m \in Nat, m = Len(p.pkts), m <= 3
  PROVE  StillWaits(p)
<1>1. PICK s \in Seq(Symbol) : s = p.pkts
  BY DEF Parser
<1>2. PICK e \in Nat : /\ e = Search(s, HTTP_END_FLAG, 1)
                       /\ e # 0 => e + 3 <= m /\ EndAt(s, e)
  BY <1>1, EndFound
<1>3. e = 0
  BY <1>2
<1> QED BY <1>1, <1>2, <1>3, HeaderTaken DEF StillWaits

\* What a message leaves is short.
LEMMA JunkIsShort ==
  ASSUME NEW g \in Junk
  PROVE  g \in Seq(Symbol) /\ Len(g) \in Nat /\ Len(g) <= 2
<1>1. <<>> \in Seq(Symbol) /\ Len(<<>>) = 0
  OBVIOUS
<1>2. <<LF>> \in Seq(Symbol) /\ Len(<<LF>>) = 1
  BY Tags
<1>3. <<CR, LF>> \in Seq(Symbol) /\ Len(<<CR, LF>>) = 2
  BY Tags
<1>4. g = <<>> \/ g = <<LF>> \/ g = <<CR, LF>>
  BY DEF Junk
<1>5. CASE g = <<>>
  BY <1>1, <1>5
<1>6. CASE g = <<LF>>
  BY <1>2, <1>6
<1>7. CASE g = <<CR, LF>>
  BY <1>3, <1>7
<1> QED BY <1>4, <1>5, <1>6, <1>7

\* With nothing but what a message leaves, parsing is not possible.
LEMMA LeftWaits ==
  ASSUME NEW p \in Parser, p.type = "INVALID", NEW w \in Seq(Symbol), p.pkts \o w \in Junk
  PROVE  StillWaits(p)
<1>1. PICK s \in Seq(Symbol) : s = p.pkts
  BY DEF Parser
<1>2. PICK m \in Nat, n \in Nat : m = Len(s) /\ n = Len(w)
  BY LenProperties
<1>3. Len(s \o w) = m + n
  BY <1>2, ConcatProperties
<1>4. Len(s \o w) <= 2
  BY <1>1, JunkIsShort
<1>5. m <= 3
  BY <1>3, <1>4
<1> QED BY <1>1, <1>2, <1>5, ShortWaits

\* A parser that got more of the same is as far in a body as before.
LEMMA BehindKept ==
  ASSUME NEW p, NEW q, NEW w, NEW x, NEW packs, NEW k, q.type = p.type, q.bodyBytes = p.bodyBytes,
         q.boundary = p.boundary, q.chunkBytes = p.chunkBytes, q.pkts \o x = p.pkts \o w,
         IsBehind(p, w, packs, k)
  PROVE  IsBehind(q, x, packs, k)
BY Zenon DEF IsBehind

\* What a message leaves once all of its packets were handed over.
LEMMA EndLeaves ==
  ASSUME NEW p, p.type \in {"NORMAL", "CHUNK", "BOUNDARY"}, NEW w, NEW packs, PacketsOf(p.type, packs),
         NEW k \in Nat, k <= Len(packs), k # 0, IsBehind(p, w, packs, k),
         p.type = "NORMAL" \/ packs[k] = Null
  PROVE  /\ k = Len(packs) /\ p.pkts \o w \in Junk
         /\ p.type = "NORMAL" => p.pkts \o w = <<>>
<1>1. Len(packs) \in Nat \ {0}
  BY DEF PacketsOf
<1>2. CASE p.type = "NORMAL"
  <2>1. k = 1 /\ Len(packs) = 1
    <3>1. Len(packs) = 1
      BY <1>1, <1>2 DEF PacketsOf
    <3>2. k \in Nat /\ k <= 1
      BY <1>1, <3>1
    <3> QED BY <3>1, <3>2
  <2>2. p.pkts \o w = <<>>
    BY <1>1, <1>2, <2>1 DEF IsBehind
  <2> QED BY <2>1, <2>2 DEF Junk
<1>3. CASE p.type # "NORMAL"
  <2>1. k \in 1 .. Len(packs)
    BY <1>1
  <2>2. k = Len(packs)
    BY <1>1, <1>3, <2>1 DEF PacketsOf
  <2>3. ~(k < Len(packs))
    BY <1>1, <2>2
  <2>4. p.pkts \o w \in Junk
    BY <1>1, <1>3, <2>3 DEF IsBehind, Rest
  <2> QED BY <1>3, <2>2, <2>4
<1> QED BY <1>2, <1>3

\* get_content, get_chunk or get_boundary, as the type says.
NextOf(p) == CASE p.type = "NORMAL"   -> GetContent(p)
               [] p.type = "CHUNK"    -> GetChunk(p)
               [] p.type = "BOUNDARY" -> GetBoundary(p)

\* It is one of them.
LEMMA NextOfIs ==
  ASSUME NEW p
  PROVE  /\ p.type = "NORMAL"   => NextOf(p) = GetContent(p)
         /\ p.type = "CHUNK"    => NextOf(p) = GetChunk(p)
         /\ p.type = "BOUNDARY" => NextOf(p) = GetBoundary(p)
BY DEF NextOf

\* What all of them keep.
LEMMA NextKeeps ==
  ASSUME NEW p \in Parser, p.type \in {"NORMAL", "CHUNK", "BOUNDARY"}, p.type = "NORMAL" => p.bodyBytes >= 0
  PROVE  /\ NextOf(p).p \in Parser /\ NextOf(p).packet \in Seq(Symbol)
         /\ NextOf(p).p.type = p.type /\ NextOf(p).p.header = p.header
         /\ NextOf(p).p.bodyBytes = p.bodyBytes /\ NextOf(p).p.boundary = p.boundary
<1>1. CASE p.type = "NORMAL"
  BY <1>1, NextOfIs, GetContentResult
<1>2. CASE p.type = "CHUNK"
  BY <1>2, NextOfIs, GetChunkResult
<1>3. CASE p.type = "BOUNDARY"
  BY <1>3, NextOfIs, GetBoundaryResult
<1> QED BY <1>1, <1>2, <1>3

\* The next packet is taken, or waited for.
LEMMA NextTakes ==
  ASSUME NEW p \in Parser, p.type \in {"NORMAL", "CHUNK", "BOUNDARY"}, NEW w \in Seq(Symbol), NEW packs,
         PacketsOf(p.type, packs), NEW k \in Nat, k < Len(packs), IsBehind(p, w, packs, k),
         p.type # "CHUNK" => p.chunkBytes = -1
  PROVE  Takes(w, packs, k, NextOf(p))
<1>1. CASE p.type = "NORMAL"
  <2>1. k = 0
    <3>1. Len(packs) = 1
      BY <1>1 DEF PacketsOf
    <3> QED BY <3>1
  <2>2. PacketsOf("NORMAL", packs)
    BY <1>1
  <2> QED BY <1>1, <2>1, <2>2, NextOfIs, ContentTakes
<1>2. CASE p.type = "CHUNK"
  <2>1. PacketsOf("CHUNK", packs)
    BY <1>2
  <2> QED BY <1>2, <2>1, NextOfIs, ChunkTakes
<1>3. CASE p.type = "BOUNDARY"
  <2>1. PacketsOf("BOUNDARY", packs) /\ p.chunkBytes = -1
    BY <1>3
  <2> QED BY <1>3, <2>1, NextOfIs, BoundaryTakes
<1> QED BY <1>1, <1>2, <1>3

\* The next packet is not there yet.
BodyWaits(p) == NextOf(p).ret = "CONTINUE" /\ NextOf(p).p = p

\* The size of a chunk is waited for with the same parser.
LEMMA SizeWaits ==
  ASSUME NEW p \in Parser, ReadChunkSize(p).ret = "CONTINUE"
  PROVE  ReadChunkSize(p).p = p
BY DEF ReadChunkSize, Result

\* Once a packet is waited for, it is not there until more arrives.
LEMMA NextWaits ==
  ASSUME NEW p \in Parser, p.type \in {"NORMAL", "CHUNK", "BOUNDARY"},
         p.type = "NORMAL" => p.bodyBytes >= 0, NextOf(p).ret = "CONTINUE"
  PROVE  BodyWaits(NextOf(p).p)
<1>1. CASE p.type = "NORMAL"
  <2>1. GetContent(p).ret = "CONTINUE" => GetContent(p).p = p
    BY DEF GetContent, Result
  <2> QED BY <1>1, <2>1, NextOfIs DEF BodyWaits
<1>2. CASE p.type = "BOUNDARY"
  <2>1. GetBoundary(p).ret = "CONTINUE" => GetBoundary(p).p = p
    BY DEF GetBoundary, Result
  <2> QED BY <1>2, <2>1, NextOfIs DEF BodyWaits
<1>3. CASE p.type = "CHUNK"
  <2>1. NextOf(p) = GetChunk(p)
    BY <1>3, NextOfIs
  <2>2. ASSUME NEW q \in Parser, q.chunkBytes >= 0, GotChunk(q).ret = "CONTINUE"
        PROVE  GotChunk(q).p = q /\ GetChunk(q) = GotChunk(q)
    <3>1. GetChunk(q) = GotChunk(q)
      BY <2>2, GetChunkIs
    <3>2. GotChunk(q).p = q
      BY <2>2 DEF GotChunk, Result
    <3> QED BY <3>1, <3>2
  <2>3. p.chunkBytes \in Int
    BY DEF Parser
  <2>4. CASE p.chunkBytes >= 0
    BY <1>3, <2>1, <2>2, <2>4, GetChunkIs DEF BodyWaits
  <2>5. CASE p.chunkBytes < 0 /\ ReadChunkSize(p).ret # "OK"
    <3>1. GetChunk(p) = ReadChunkSize(p)
      BY <2>5, GetChunkIs
    <3>2. GetChunk(p).p = p
      BY <2>1, <3>1, SizeWaits
    <3> QED BY <2>1, <3>2 DEF BodyWaits
  <2>6. CASE p.chunkBytes < 0 /\ ReadChunkSize(p).ret = "OK"
    <3>1. GetChunk(p) = GotChunk(ReadChunkSize(p).p)
      BY <2>6, GetChunkIs
    <3>2. /\ ReadChunkSize(p).p \in Parser /\ ReadChunkSize(p).p.type = "CHUNK"
          /\ ReadChunkSize(p).p.chunkBytes >= 0
      BY <1>3, <2>6, ReadChunkSizeResult
    <3>3. PICK q \in Parser : q = ReadChunkSize(p).p
      BY <3>2
    <3>4. GotChunk(q).p = q /\ GetChunk(q) = GotChunk(q) /\ GotChunk(q).ret = "CONTINUE"
      BY <2>1, <2>2, <3>1, <3>2, <3>3
    <3>5. NextOf(p).p = q /\ NextOf(q) = GetChunk(q)
      BY <2>1, <3>1, <3>2, <3>3, <3>4, NextOfIs
    <3> QED BY <3>4, <3>5 DEF BodyWaits
  <2> QED BY <2>3, <2>4, <2>5, <2>6
<1> QED BY <1>1, <1>2, <1>3
=============================================================================
