----------------------------- MODULE HttpSender -----------------------------
(***************************************************************************)
(* What a peer built on this library puts on the wire: the serialisation   *)
(* of requests and responses (http_proto_impl.h) and the body senders of   *)
(* HttpClient (src/http_client.cc).  A body is a sequence of contents.     *)
(***************************************************************************)
EXTENDS HttpProtoPaser, SequencesExt

\* package_header: one line for each item, then the empty line.
Header(first, items) ==
  <<first>> \o HTTP_SEP
    \o FlattenSeq([i \in DOMAIN items |-> <<items[i]>> \o HTTP_SEP]) \o HTTP_SEP

\* send_chunk_body: an empty body is the last chunk.
SendChunkBody(c) ==
  IF c = Null THEN <<Size(0)>> \o HTTP_SEP \o HTTP_SEP
              ELSE <<Size(Len(c))>> \o HTTP_SEP \o c \o HTTP_SEP

\* send_boundary_body: an empty body is the end flag.
SendBoundaryBody(c, b) ==
  IF c = Null THEN <<Flag(b), Dashes>> \o HTTP_SEP
              ELSE <<Flag(b)>> \o HTTP_SEP \o c \o HTTP_SEP

\* The bytes of a message whose first line is first and whose body is body,
\* sent the way its kind is sent; the last body call of a loop is empty.
Encode(first, kind, body, b) ==
  CASE kind = "NORMAL" ->
         IF body = <<>> THEN Header(first, <<>>)
                        ELSE Header(first, <<ContentLen(Len(body[1]))>>) \o body[1]
    [] kind = "CHUNK" ->
         Header(first, <<Chunked>>)
           \o FlattenSeq([i \in 1 .. Len(body) + 1 |->
                            SendChunkBody(IF i <= Len(body) THEN body[i] ELSE Null)])
    [] kind = "BOUNDARY" ->
         Header(first, <<Multipart(b)>>)
           \o FlattenSeq([i \in 1 .. Len(body) + 1 |->
                            SendBoundaryBody(IF i <= Len(body) THEN body[i] ELSE Null, b)])
    [] kind = "WEBSOCKET" ->
         <<first>> \o HTTP_SEP \o <<Upgrade, WebSocket>> \o HTTP_SEP
           \o <<WsKey>> \o HTTP_SEP \o HTTP_SEP

\* What the receiver of the message hands on: the packets of the body and, for
\* the streamed kinds, the null packet that ends it.
Packets(kind, body) ==
  CASE kind = "NORMAL" -> IF body = <<>> THEN <<Null>> ELSE body
    [] kind \in {"CHUNK", "BOUNDARY"} -> Append(body, Null)
    [] kind = "WEBSOCKET" -> <<>>
=============================================================================
