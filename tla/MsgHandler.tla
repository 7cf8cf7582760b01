----------------------------- MODULE MsgHandler -----------------------------
(***************************************************************************)
(* One connection of the web server: the coroutine client_handle and its   *)
(* MsgHandler (src/web_server.cc), from the first received byte to the end *)
(* of the connection, with the peer that talks to it.                      *)
(*                                                                         *)
(* Coroutines switch only where they wait: in recv and inside the routines *)
(* of the application; between two waits the code runs in several steps    *)
(* here, and only the peer, which sees nothing of them, can come between.  *)
(* A recv that returns TARO_ERR_CONTINUE changes nothing: it is a stutter. *)
(* The control point pc is                                                 *)
(*   "recv"      in client_->recv, or about to enter it                    *)
(*   "arrived"   the parser knows the type of the message                  *)
(*   "dispatch"  the request is known, the body is taken from the parser   *)
(*   "routine"   inside an http routine of the application                 *)
(*   "wsopen"    inside the websocket handler, for the open event          *)
(*   "wsevent"   inside the websocket handler, for a received frame        *)
(*   "closed"    the coroutine has returned                                *)
(*                                                                         *)
(* The peer sends a script of messages.  A message has                     *)
(*   kind      NORMAL, CHUNK, BOUNDARY, WEBSOCKET, FRAME, or INVALID for   *)
(*             bytes that are no message                                   *)
(*   bytes     the symbols that are sent                                   *)
(*   contents  the contents it carries for the routine, as pairs           *)
(***************************************************************************)
EXTENDS HttpProtoPaser, SequencesExt

CONSTANTS Routines,     \* the http routines of the application
          NoRoutine,    \* the empty std::function
          NoUrl,        \* no request has been decoded
          OtherUrl,     \* the middle word of a first line that is no request
          Route,        \* the routine that find_handler finds for a url
          Scripts,      \* what a peer may send
          WsServed,     \* those played against a server with a websocket handler
          Garbage,      \* what uninitialised memory may hold
          RecvMax       \* the size of the receive buffer, 1024 in the code

Content == (Routines \cup {NoRoutine}) \X Seq(Symbol)
Message == [kind : Types \cup {"FRAME"}, bytes : Seq(Symbol),
            contents : Seq(Content)]

ASSUME RouteAssumption   == /\ Route \in [Urls -> Routines \cup {NoRoutine}]
                            /\ NoRoutine \notin Routines
                            /\ NoUrl \notin Urls
                            /\ OtherUrl \in Urls
ASSUME GarbageAssumption == Garbage \subseteq Int
ASSUME RecvMaxAssumption == RecvMax \in Nat \ {0}
ASSUME ScriptAssumption  == /\ \A s \in Scripts : s \in Seq(Message)
                            /\ WsServed \subseteq Scripts

VARIABLES
  script,   \* the messages the peer sends on this connection
  sent,     \* how many of them it has sent
  wire,     \* the symbols sent and not received yet
  gone,     \* whether the peer has closed the connection
  pc,       \* where the coroutine is
  parser,   \* parser_
  url,      \* header_: the url of the request, NoUrl while there is none
  handler,  \* handler_
  mode,     \* msg_handler_: "http" for on_http_recv, "ws" for on_ws_recv
  content,  \* the packet the running routine was called with
  calls,    \* the contents handed to the routines so far
  done,     \* how many messages were served to their end
  replies,  \* the websocket and error replies sent: "404", "101", "pong"
  events,   \* the websocket events handed to the application
  verdict   \* the last value that a routine or websocket handler returned

peer == <<script, sent, wire, gone>>
conn == <<pc, parser, url, handler, mode, content>>
hist == <<calls, done, replies, events, verdict>>
vars == <<peer, conn, hist>>

Init ==
  /\ script \in Scripts
  /\ sent = 0
  /\ wire = <<>>
  /\ gone = FALSE
  /\ pc = "recv"
  /\ parser \in {NewParser(g) : g \in Garbage}
  /\ url = NoUrl
  /\ handler = NoRoutine
  /\ mode = "http"
  /\ content = Null
  /\ calls = <<>>
  /\ done = 0
  /\ replies = <<>>
  /\ events = <<>>
  /\ verdict = TRUE
-----------------------------------------------------------------------------
(* The peer. *)

\* The next message of the script is sent.
SendNext ==
  /\ ~gone
  /\ sent < Len(script)
  /\ wire' = wire \o script[sent + 1].bytes
  /\ sent' = sent + 1
  /\ UNCHANGED <<script, gone, conn, hist>>

\* A peer that waits for the answer to a message before it sends the next;
\* once the connection is a websocket it sends frames without waiting.
PeerSend ==
  /\ SendNext
  /\ \/ sent = done
     \/ script[sent + 1].kind = "FRAME" /\ \E i \in DOMAIN replies : replies[i] = "101"

\* The peer closes the connection or dies.
PeerClose ==
  /\ ~gone
  /\ gone' = TRUE
  /\ UNCHANGED <<script, sent, wire, conn, hist>>
-----------------------------------------------------------------------------
(* The coroutine. *)

\* Mutant of Clear: header_ is not reset.
ClearKeepsUrl(p) ==
  /\ url' = url
  /\ handler' = NoRoutine
  /\ parser' = Reset(p)

\* clear: forget the message, keep what is buffered behind it.
Clear(p) ==
  /\ url' = NoUrl
  /\ handler' = NoRoutine
  /\ parser' = Reset(p)

\* recv_msg returns false: client_handle leaves its loop.
Close == pc' = "closed"

\* HttpRequestImpl::deserialize: any first line of three words is a request, and
\* its url is the second word.
Deserialize(header) ==
  LET first == FirstLine(header)
      word  == First(Spaced(first))
  IN IF WordCount(first) # 3
     THEN NoUrl
     ELSE IF first[word][1] = "line" THEN first[word][2] ELSE OtherUrl

\* on_http_recv, and on_http_arrived up to parse_header.  recv returns between
\* one byte and a buffer full of what has arrived, wherever that cuts it.
OnHttpRecv(n) ==
  /\ pc = "recv"
  /\ mode = "http"
  /\ n <= Len(wire)
  /\ wire' = Consume(wire, n)
  /\ LET p == Push(parser, Read(wire, n))
         r == IF p.type = "INVALID" THEN ParseHeader(p) ELSE Result("OK", Null, p)
     IN /\ parser' = r.p
        /\ \/ r.ret = "INVALID_ARG" /\ Close
           \/ r.ret = "CONTINUE" /\ UNCHANGED pc
           \/ r.ret = "OK" /\ pc' = "arrived"
  /\ UNCHANGED <<script, sent, gone, url, handler, mode, content, hist>>

\* on_http_arrived once the parser knows the type: the first time for a
\* message, the request is decoded and its routine found.
Identify ==
  /\ pc = "arrived"
  /\ LET u == Deserialize(parser.header)
     IN \/ /\ url # NoUrl
           /\ pc' = "dispatch"
           /\ UNCHANGED <<parser, url, handler, replies>>
        \/ /\ url = NoUrl
           /\ u = NoUrl
           /\ Close
           /\ UNCHANGED <<parser, url, handler, replies>>
        \/ /\ url = NoUrl
           /\ u # NoUrl
           /\ Route[u] = NoRoutine
           /\ Close
           /\ replies' = Append(replies, "404")
           /\ Clear(parser)
        \/ /\ url = NoUrl
           /\ u # NoUrl
           /\ Route[u] # NoRoutine
           /\ url' = u
           /\ handler' = Route[u]
           /\ pc' = "dispatch"
           /\ UNCHANGED <<parser, replies>>
  /\ UNCHANGED <<peer, mode, content, calls, done, events, verdict>>

\* recv fails: the peer is gone, and what it sent last may be lost with it.
RecvFail ==
  /\ pc = "recv"
  /\ gone
  /\ Close
  /\ UNCHANGED <<peer, parser, url, handler, mode, content, hist>>

\* What the branch of on_http_arrived for the type takes from the parser.
Take(p) == CASE p.type = "NORMAL"   -> GetContent(p)
             [] p.type = "CHUNK"    -> GetChunk(p)
             [] p.type = "BOUNDARY" -> GetBoundary(p)

\* One round of the loops of on_chunk_msg and on_boundary_msg, or the
\* TYPE_NORMAL branch, up to the call of the routine.
Dispatch ==
  /\ pc = "dispatch"
  /\ parser.type # "WEBSOCKET"
  /\ LET r == Take(parser)
     IN /\ parser' = r.p
        /\ \/ /\ r.ret = "INVALID_ARG"
              /\ Close
              /\ UNCHANGED <<content, calls>>
           \/ /\ r.ret = "CONTINUE"
              /\ pc' = "recv"
              /\ UNCHANGED <<content, calls>>
           \/ /\ r.ret = "OK"
              /\ pc' = "routine"
              /\ content' = r.packet
              /\ calls' = Append(calls, <<handler, r.packet>>)
  /\ UNCHANGED <<peer, url, handler, mode, done, replies, events, verdict>>

\* Mutant of RoutineReturn: the value is ignored inside the loops.
RoutineReturnIgnored(keep) ==
  /\ pc = "routine"
  /\ verdict' = keep
  /\ content' = Null
  /\ IF parser.type = "NORMAL" \/ content = Null
     THEN /\ IF keep THEN pc' = "recv" ELSE Close
          /\ Clear(parser)
          /\ done' = done + 1
     ELSE /\ pc' = "dispatch"
          /\ UNCHANGED <<parser, url, handler, done>>
  /\ UNCHANGED <<peer, mode, calls, replies, events>>

\* The routine returns keep, after answering a message that has ended.  The
\* message ends with its content or, in the loops, with the null packet.
RoutineReturn(keep) ==
  /\ pc = "routine"
  /\ verdict' = keep
  /\ content' = Null
  /\ IF ~keep
     THEN /\ Close
          /\ UNCHANGED <<parser, url, handler, done>>
     ELSE IF parser.type = "NORMAL" \/ content = Null
     THEN /\ pc' = "recv"
          /\ Clear(parser)
          /\ done' = done + 1
     ELSE /\ pc' = "dispatch"
          /\ UNCHANGED <<parser, url, handler, done>>
  /\ UNCHANGED <<peer, mode, calls, replies, events>>

\* The end of on_web_socket: the 101 answer.
Switch == /\ replies' = Append(replies, "101")
          /\ done' = done + 1

\* on_web_socket up to the open event; without a websocket handler there is
\* no event and the connection stays with on_http_recv.
OnWebSocket ==
  /\ pc = "dispatch"
  /\ parser.type = "WEBSOCKET"
  /\ IF SearchText(parser.header, {"wskey"}) = 0
     THEN Close /\ UNCHANGED <<events, replies, done>>
     ELSE IF script \in WsServed
     THEN /\ events' = Append(events, "open")
          /\ pc' = "wsopen"
          /\ UNCHANGED <<replies, done>>
     ELSE Switch /\ pc' = "recv" /\ UNCHANGED events
  /\ UNCHANGED <<peer, parser, url, handler, mode, content, calls, verdict>>

\* Mutant of WsOpenReturn: msg_handler_ is not switched.
WsOpenReturnStaysHttp(keep) ==
  /\ pc = "wsopen"
  /\ verdict' = keep
  /\ Switch
  /\ pc' = "recv"
  /\ UNCHANGED <<peer, parser, url, handler, mode, content, calls, events>>

\* Mutant of WsOpenReturn: when the handler returns false nothing is answered.
WsOpenReturnSilent(keep) ==
  /\ pc = "wsopen"
  /\ verdict' = keep
  /\ mode' = "ws"
  /\ IF keep THEN Switch ELSE UNCHANGED <<replies, done>>
  /\ pc' = "recv"
  /\ UNCHANGED <<peer, parser, url, handler, content, calls, events>>

\* The handler of the open event returns; only then is the answer sent.
WsOpenReturn(keep) ==
  /\ pc = "wsopen"
  /\ verdict' = keep
  /\ mode' = "ws"
  /\ Switch
  /\ pc' = "recv"
  /\ UNCHANGED <<peer, parser, url, handler, content, calls, events>>

\* Mutant of OnWsRecv: no continue after the pong, the ping is handed over too.
OnWsRecvPingEvent ==
  /\ pc = "recv" /\ mode = "ws" /\ wire # <<>>
  /\ wire' = Tail(wire)
  /\ LET op == Head(wire)[1]
     IN CASE op = "ping" -> /\ replies' = Append(replies, "pong")
                            /\ pc' = "wsevent"
                            /\ events' = Append(events, "content")
          [] op = "pong" -> UNCHANGED <<pc, events, replies>>
          [] op \in {"content", "close"} -> /\ pc' = "wsevent"
                                         /\ events' = Append(events, op)
                                         /\ UNCHANGED replies
          [] OTHER -> Close /\ UNCHANGED <<events, replies>>
  /\ UNCHANGED <<script, sent, gone, parser, url, handler, mode, content,
                 calls, done, verdict>>

\* Mutant of OnWsRecv: a close frame is skipped like a pong.
OnWsRecvNoClose ==
  /\ pc = "recv" /\ mode = "ws" /\ wire # <<>>
  /\ wire' = Tail(wire)
  /\ LET op == Head(wire)[1]
     IN CASE op = "ping" -> /\ replies' = Append(replies, "pong")
                            /\ UNCHANGED <<pc, events>>
          [] op \in {"pong", "close"} -> UNCHANGED <<pc, events, replies>>
          [] op = "content" -> /\ pc' = "wsevent"
                               /\ events' = Append(events, op)
                               /\ UNCHANGED replies
          [] OTHER -> Close /\ UNCHANGED <<events, replies>>
  /\ UNCHANGED <<script, sent, gone, parser, url, handler, mode, content,
                 calls, done, verdict>>

\* on_ws_recv: recv_ws takes one frame, answers a ping, skips a pong, and
\* hands anything else to the websocket handler.
OnWsRecv ==
  /\ pc = "recv"
  /\ mode = "ws"
  /\ wire # <<>>
  /\ wire' = Tail(wire)
  /\ LET op == Head(wire)[1]
     IN CASE op = "ping" -> /\ replies' = Append(replies, "pong")
                            /\ UNCHANGED <<pc, events>>
          [] op = "pong" -> UNCHANGED <<pc, events, replies>>
          [] op \in {"content", "close"} -> /\ pc' = "wsevent"
                                         /\ events' = Append(events, op)
                                         /\ UNCHANGED replies
          [] OTHER -> Close /\ UNCHANGED <<events, replies>>
  /\ UNCHANGED <<script, sent, gone, parser, url, handler, mode, content,
                 calls, done, verdict>>

\* The websocket handler returns; on_ws_recv does not look at the value.
WsEventReturn(keep) ==
  /\ pc = "wsevent"
  /\ verdict' = keep
  /\ pc' = "recv"
  /\ UNCHANGED <<peer, parser, url, handler, mode, content, calls, done,
                 replies, events>>

Coroutine == \/ \E n \in 1 .. RecvMax : OnHttpRecv(n)
             \/ RecvFail
             \/ Identify
             \/ Dispatch
             \/ OnWebSocket
             \/ OnWsRecv

Application == \E keep \in BOOLEAN :
                 RoutineReturn(keep) \/ WsOpenReturn(keep) \/ WsEventReturn(keep)

\* The coroutine has ended and nothing is left to do.
Ended == pc = "closed" /\ UNCHANGED vars

Next == PeerSend \/ PeerClose \/ Coroutine \/ Application \/ Ended

Spec == Init /\ [][Next]_vars

\* The scheduler resumes a coroutine whose wait is over, and the routines of
\* the application return.  Nothing forces the peer to send or to close.
FairSpec == Spec /\ WF_vars(Coroutine) /\ WF_vars(Application)
-----------------------------------------------------------------------------
(* Properties. *)

\* Type correctness of the connection and its peer.
TypeOK ==
  /\ script \in Scripts
  /\ sent \in 0 .. Len(script)
  /\ wire \in Seq(Symbol)
  /\ gone \in BOOLEAN
  /\ pc \in {"recv", "arrived", "dispatch", "routine", "wsopen", "wsevent", "closed"}
  /\ parser \in Parser
  /\ url \in Urls \cup {NoUrl}
  /\ handler \in Routines \cup {NoRoutine}
  /\ mode \in {"http", "ws"}
  /\ content \in Seq(Symbol)
  /\ calls \in Seq(Content)
  /\ done \in Nat
  /\ replies \in Seq({"404", "101", "pong"})
  /\ events \in Seq({"open", "content", "close"})
  /\ verdict \in BOOLEAN

\* Whenever on_http_arrived takes a body and calls handler_, a request is
\* decoded, handler_ is the routine of its url and not the empty function, the
\* parser knows the type, and a content length is never the uninitialised
\* body_bytes_: whatever the sequence of messages and cuts before.
HandlerReady ==
  pc \in {"dispatch", "routine"} =>
    /\ url \in Urls
    /\ handler = Route[url]
    /\ handler \in Routines
    /\ parser.type # "INVALID"
    /\ parser.type = "NORMAL" => parser.bodyBytes >= 0

\* Between two messages nothing of the last one is left in the parser, in
\* particular no chunk size: reset() does not clear chunk_bytes_, so this rests
\* on every path that ends a message.  And a type is known exactly while a
\* request is.
CleanBetween ==
  pc = "recv" /\ url = NoUrl =>
    /\ parser.type = "INVALID"
    /\ parser.chunkBytes = -1
    /\ parser.boundary = NoBoundary
    /\ handler = NoRoutine

\* Once a routine has returned false no routine is called again on this
\* connection, however many chunks are already buffered.
NoCallAfterFalse == [][calls' # calls => verdict]_vars

\* The server closes a connection on which messages of these kinds were sent
\* only when a routine said so, the peer left, or no routine was found.
KeptFor(kinds) ==
  pc = "closed" /\ (\A i \in 1 .. sent : script[i].kind \in kinds) =>
    \/ ~verdict
    \/ gone
    \/ \E i \in DOMAIN replies : replies[i] = "404"

\* web_server.h:24: a routine returns true to keep the connection.  That is so
\* after every sequence of messages with a content length or without a body.
NormalKept == KeptFor({"NORMAL"})

\* The same for every kind of message.
KeepAlive == KeptFor({"NORMAL", "CHUNK", "BOUNDARY"})

\* The contents of the first n messages of the script.
Carried(n) == FlattenSeq([i \in 1 .. n |-> script[i].contents])

Delivery ==
  INSTANCE HttpDelivery
    WITH Contents <- {m.contents : m \in UNION {Range(s) : s \in Scripts}},
         promised <- Carried(sent), delivered <- calls, up <- pc # "closed"

\* The routines receive exactly the contents that were sent to their urls, in
\* order and once, however the bytes were cut into packets; and all of them
\* unless the connection is closed.
DeliverySpec == Delivery!Spec

\* The members of s whose tag is in ops.
Tagged(s, ops) == FlattenSeq([i \in DOMAIN s |-> IF s[i][1] \in ops THEN <<s[i]>> ELSE <<>>])

\* Those of the messages that were sent.
FramesSent(ops) == Tagged(FlattenSeq([i \in 1 .. sent |-> script[i].bytes]), ops)

\* Events or replies, as the frames they are named for.
AsFrames(names) == [i \in DOMAIN names |-> Frame(names[i])]

\* Of the frames sent after an upgrade to a server with a websocket handler,
\* those with content are handed to it once and in order, and every ping is
\* answered by one pong.
FramesOnce ==
  script \in WsServed =>
    /\ Tagged(AsFrames(events), {"content", "close"}) \o Tagged(wire, {"content", "close"})
         = FramesSent({"content", "close"})
    /\ Len(Tagged(AsFrames(replies), {"pong"})) + Len(Tagged(wire, {"ping"}))
         = Len(FramesSent({"ping"}))

\* With a websocket handler, the switch to the websocket protocol is answered
\* once, and no frame is handed over or answered before the answer is out.
WsAfterUpgrade ==
  LET switches == {i \in DOMAIN replies : replies[i] = "101"}
      pongs    == {i \in DOMAIN replies : replies[i] = "pong"}
  IN script \in WsServed =>
     /\ Cardinality(switches) <= 1
     /\ \A i \in pongs : \E j \in switches : j < i
     /\ Len(events) > 1 => events[1] = "open" /\ switches # {}

\* Every frame with content reaches the websocket handler if there is one, or
\* the connection ends.
FramesHandled ==
  LET frames == Len(FramesSent({"content", "close"}))
  IN \A k \in 1 .. 2 : script \in WsServed /\ frames >= k ~> Len(events) > k \/ pc = "closed"

\* test/http_test.cc:232: a client that has sent a body with its length waits for
\* the answer.  So every message that was sent is served, or the connection ends.
Served == \A n \in 1 .. 2 : sent >= n ~> done >= n \/ pc = "closed"

\* web_server.h:33: the websocket handler, too, returns false to drop the
\* connection, so no event follows a false.
NoEventAfterFalse == [][events' # events => verdict]_vars
=============================================================================
