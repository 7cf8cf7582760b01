--------------------------- MODULE HttpProtoPaser ---------------------------
(***************************************************************************)
(* The class HttpProtoPaser (include/impl/http_proto_impl.h): the          *)
(* incremental parser that the server connection and the HTTP client share.*)
(* A parser is a record of the members of the class; an operation returns  *)
(* the code, the packet and the parser that the method leaves behind.      *)
(*                                                                         *)
(* The header is abstracted to the parts that the parser tells apart, and  *)
(* the line separator to its two bytes, so that a separator can be split   *)
(* between two packets.                                                    *)
(***************************************************************************)
EXTENDS PacketList

CONSTANTS Urls,       \* the urls of request lines
          Codes,      \* the status codes of response lines
          Boundaries, \* the boundary strings of multipart messages
          NoBoundary, \* the empty boundary string
          Data        \* the payload bytes that look like nothing else

CR == <<"CR">>
LF == <<"LF">>

\* HTTP_SEP and HTTP_END_FLAG.
HTTP_SEP      == <<CR, LF>>
HTTP_END_FLAG == <<CR, LF, CR, LF>>

Line(url)     == <<"line", url>>          \* "GET url HTTP/1.1"
Status(code)  == <<"status", code>>       \* "HTTP/1.1 code text"
Upgrade       == <<"upgrade">>            \* a text with "Upgrade" in it
WebSocket     == <<"websocket">>          \* a text with "websocket" in it
WsKey         == <<"wskey">>              \* "Sec-WebSocket-Key: ..."
Chunked       == <<"chunked">>            \* "Transfer-Encoding: chunked"
Multipart(b)  == <<"multipart", b>>       \* "multipart/form-data; boundary=b"
ContentLen(n) == <<"length", n>>          \* "Content-Length: n", -1 if no value
Size(n)       == <<"size", n>>            \* a chunk size in hex, n as read into an int32_t
Flag(b)       == <<"flag", b>>            \* "--b"
Dashes        == <<"dashes">>             \* "--"
Byte(d)       == <<"data", d>>            \* a byte of payload
Frame(op)     == <<op>>                   \* a websocket frame

\* What a frame is to its receiver: content (text, binary or continuation),
\* a control frame, or an opcode that recv_ws rejects.
Frames == {"content", "close", "ping", "pong", "reserved"}

\* Every symbol that can be on the wire.
Symbol ==
  {CR, LF, Upgrade, WebSocket, WsKey, Chunked, Dashes}
    \cup {Frame(op) : op \in Frames}
    \cup ({"line"} \X Urls) \cup ({"status"} \X Codes)
    \cup ({"multipart", "flag"} \X (Boundaries \cup {NoBoundary}))
    \cup ({"length", "size"} \X Int) \cup ({"data"} \X Data)

\* The null packet: no packet the parser hands out is empty.
Null == <<>>

\* The largest int32_t to which get_chunk can add HTTP_SEP_LEN.
MaxChunk == 2147483645

\* The text up to the first separator.
FirstLine(header) == Read(header, Search(header, HTTP_SEP, 1) - 1)

\* The blanks in the text of a symbol: the reason of a status line is one word,
\* and a frame with content has a blank in it.
Blanks(sym) == CASE sym[1] \in {"line", "status", "multipart"} -> 2
                 [] sym[1] \in {"upgrade", "websocket", "wskey", "chunked", "length", "content"} -> 1
                 [] OTHER -> 0

\* The symbols of a line that have blanks: the others are glued to their neighbours.
Spaced(line) == {i \in 1 .. Len(line) : Blanks(line[i]) > 0}

\* How many words split_string makes of a line that is not empty.
WordCount(line) ==
  1 + Cardinality(UNION {{i} \X (1 .. Blanks(line[i])) : i \in Spaced(line)})

\* HttpProtoType.
Types == {"NORMAL", "CHUNK", "BOUNDARY", "WEBSOCKET", "INVALID"}

\* The members of the class.
Parser == [type : Types, header : Seq(Symbol), bodyBytes : Int,
           boundary : Boundaries \cup {NoBoundary},
           pkts : Seq(Symbol), chunkBytes : Int]

\* What the constructor leaves: body_bytes_ is not initialised, so it is
\* whatever the memory holds.
NewParser(garbage) ==
  [type |-> "INVALID", header |-> Null, bodyBytes |-> garbage,
   boundary |-> NoBoundary, pkts |-> <<>>, chunkBytes |-> -1]

Result(ret, packet, p) == [ret |-> ret, packet |-> packet, p |-> p]

\* push: append the received packet.
Push(p, packet) == [p EXCEPT !.pkts = @ \o packet]

\* Mutant of Classify: the boundary is read from where its key begins.
ClassifyFromKey(p) ==
  LET multipart == SearchText(p.pkts, {"multipart"})
      length    == SearchText(p.pkts, {"length"})
  IN CASE SearchText(p.pkts, {"chunked"}) # 0 -> [p EXCEPT !.type = "CHUNK"]
       [] multipart # 0 -> [p EXCEPT !.type = "BOUNDARY",
                                     !.boundary = p.pkts[multipart][1]]
       [] OTHER -> [p EXCEPT !.type = "NORMAL",
                             !.bodyBytes = IF length = 0 THEN 0 ELSE p.pkts[length][2]]

\* The branches of parse_header that choose the type.  Every search is over
\* all that is buffered, not only over the header.  A parser of type INVALID
\* stands for the two error branches (no boundary, no content length).
Classify(p) ==
  LET At(tags)  == SearchText(p.pkts, tags)
      Ended(i)  == Search(p.pkts, HTTP_SEP, i) # 0
      Value(i)  == p.pkts[i][2]
      multipart == At({"multipart"})
      length    == At({"length"})
  IN IF At({"upgrade"}) # 0 /\ At({"websocket", "wskey"}) # 0
     THEN [p EXCEPT !.type = "WEBSOCKET"]
     ELSE IF At({"chunked"}) # 0
     THEN [p EXCEPT !.type = "CHUNK"]
     ELSE IF multipart # 0
     THEN IF Ended(multipart) /\ Value(multipart) # NoBoundary
          THEN [p EXCEPT !.type = "BOUNDARY", !.boundary = Value(multipart)]
          ELSE p
     ELSE IF length # 0
     THEN IF Ended(length) /\ Value(length) >= 0
          THEN [p EXCEPT !.type = "NORMAL", !.bodyBytes = Value(length)]
          ELSE p
     ELSE [p EXCEPT !.type = "NORMAL", !.bodyBytes = 0]

\* The header of total symbols leaves the buffer; it keeps one separator of the
\* end flag.
TakeHeader(p, total) ==
  [p EXCEPT !.header = Read(p.pkts, total - 2), !.pkts = Consume(@, total)]

\* Mutant of ParseHeader: the separator kept for the header is not consumed.
ParseHeaderKeepsLine(p) ==
  LET end  == Search(p.pkts, HTTP_END_FLAG, 1)
      q    == Classify(p)
      kept == Consume(p.pkts, end + 1)
  IN IF end = 0 THEN Result("CONTINUE", Null, p)
     ELSE IF q.type = "INVALID" THEN Result("INVALID_ARG", Null, p)
     ELSE Result("OK", Null, [q EXCEPT !.header = Read(p.pkts, end + 1), !.pkts = kept])

\* parse_header, called only while the type is INVALID.
ParseHeader(p) ==
  LET end   == Search(p.pkts, HTTP_END_FLAG, 1)
      total == end + 3
      q     == Classify(p)
  IN IF end = 0
     THEN Result("CONTINUE", Null, p)
     ELSE IF q.type = "INVALID"
     THEN Result("INVALID_ARG", Null, [p EXCEPT !.pkts = Consume(@, total)])
     ELSE Result("OK", Null, TakeHeader(q, total))

\* Mutant of GetContent: one more symbol than the body is waited for.
GetContentOneMore(p) ==
  IF p.bodyBytes = 0
  THEN Result("OK", Null, p)
  ELSE IF Len(p.pkts) <= p.bodyBytes
  THEN Result("CONTINUE", Null, p)
  ELSE Result("OK", Read(p.pkts, p.bodyBytes),
              [p EXCEPT !.pkts = Consume(@, p.bodyBytes)])

\* get_content: the whole body of a message with a content length.
GetContent(p) ==
  IF p.bodyBytes = 0
  THEN Result("OK", Null, p)
  ELSE IF Len(p.pkts) < p.bodyBytes
  THEN Result("CONTINUE", Null, p)
  ELSE Result("OK", Read(p.pkts, p.bodyBytes),
              [p EXCEPT !.pkts = Consume(@, p.bodyBytes)])

\* What ">> std::hex" makes of a line: blanks are skipped, and a text that is
\* not a number reads as 0.
HexValue(line) ==
  LET i == First({j \in 1 .. Len(line) : line[j] \notin {CR, LF}})
  IN IF i # 0 /\ line[i][1] = "size" THEN line[i][2] ELSE 0

\* The part of get_chunk that reads and consumes the chunk size.
ReadChunkSize(p) ==
  LET end  == Search(p.pkts, HTTP_SEP, 1)
      size == HexValue(Read(p.pkts, end - 1))
  IN IF end = 0
     THEN Result("CONTINUE", Null, p)
     ELSE IF end = 1
     THEN Result("INVALID_ARG", Null, p)
     ELSE Result(IF size < 0 THEN "INVALID_ARG" ELSE "OK", Null,
                 [p EXCEPT !.pkts = Consume(@, end + 1), !.chunkBytes = size])

\* Mutant of GetChunk: the size 0 is still there after the last chunk.
GetChunkKeepsSize(p) ==
  LET r == IF p.chunkBytes < 0 THEN ReadChunkSize(p) ELSE Result("OK", Null, p)
      q == r.p
      n == q.chunkBytes
  IN IF r.ret # "OK" THEN r
     ELSE IF n = 0 THEN Result("OK", Null, [q EXCEPT !.pkts = Consume(@, 2)])
     ELSE IF n + 2 > Len(q.pkts) THEN Result("CONTINUE", Null, q)
     ELSE Result("OK", Read(q.pkts, n),
                 [q EXCEPT !.pkts = Consume(@, n + 2), !.chunkBytes = -1])

\* get_chunk: the next chunk, the null packet for the last one.  The size is
\* kept until the chunk and its separator have arrived; the separator after
\* the last chunk is consumed whether it has arrived or not.  Beyond MaxChunk the
\* sum is an int32_t that wraps round: nothing is waited for, and read takes all
\* there is.
GetChunk(p) ==
  LET r == IF p.chunkBytes < 0 THEN ReadChunkSize(p) ELSE Result("OK", Null, p)
      q == r.p
      n == q.chunkBytes
  IN IF r.ret # "OK"
     THEN r
     ELSE IF n = 0
     THEN Result("OK", Null, [q EXCEPT !.pkts = Consume(@, 2), !.chunkBytes = -1])
     ELSE IF n > MaxChunk
     THEN Result("OK", q.pkts, [q EXCEPT !.pkts = Null, !.chunkBytes = -1])
     ELSE IF n + 2 > Len(q.pkts)
     THEN Result("CONTINUE", Null, q)
     ELSE Result("OK", Read(q.pkts, n),
                 [q EXCEPT !.pkts = Consume(@, n + 2), !.chunkBytes = -1])

\* Mutant of GetBoundary: the separator after a part is taken for its end.
GetBoundaryWithLine(p) ==
  LET flag   == <<Flag(p.boundary)>>
      begin  == Search(p.pkts, flag, 1)
      next   == Search(p.pkts, flag, begin + 3)
      opened == Consume(p.pkts, 3)
  IN IF begin = 0 THEN Result("CONTINUE", Null, p)
     ELSE IF next # 0
     THEN Result("OK", Read(opened, next - begin - 3),
                 [p EXCEPT !.pkts = Consume(opened, next - begin - 3)])
     ELSE IF Search(p.pkts, flag \o <<Dashes>>, 1) # 0
     THEN Result("OK", Null, [p EXCEPT !.pkts = Consume(@, 4)])
     ELSE Result("CONTINUE", Null, p)

\* get_boundary: the next part, the null packet for the end flag.  A part is
\* complete once the flag after it has arrived.  What is consumed is counted
\* from the front of the list.  Its length is unsigned: when there are less than
\* two separators between the flags it wraps round, and read takes all there is.
GetBoundary(p) ==
  LET flag   == <<Flag(p.boundary)>>
      begin  == Search(p.pkts, flag, 1)
      next   == Search(p.pkts, flag, begin + 3)
      n      == next - begin - 5
      opened == Consume(p.pkts, 3)
  IN IF begin = 0
     THEN Result("CONTINUE", Null, p)
     ELSE IF next # 0
     THEN IF n < 0
          THEN Result("OK", opened, [p EXCEPT !.pkts = Null])
          ELSE Result("OK", Read(opened, n), [p EXCEPT !.pkts = Consume(opened, n + 2)])
     ELSE IF Search(p.pkts, flag \o <<Dashes>>, 1) # 0
     THEN Result("OK", Null, [p EXCEPT !.pkts = Consume(@, 4)])
     ELSE Result("CONTINUE", Null, p)

\* reset: the buffered symbols and chunk_bytes_ are kept.
Reset(p) == [p EXCEPT !.type = "INVALID", !.header = Null, !.bodyBytes = -1,
                      !.boundary = NoBoundary]
=============================================================================
