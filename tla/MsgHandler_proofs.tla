------------------------- MODULE MsgHandler_proofs --------------------------
(***************************************************************************)
(* Theorems about MsgHandler, for every set of routines, every script and  *)
(* every way the bytes are cut into packets.  The invariants the runs check*)
(* follow from one inductive invariant.                                    *)
(***************************************************************************)
EXTENDS MsgHandler, HttpProtoPaser_proofs

\* What on_http_arrived and its callees rely on between two waits.
\* A request is known exactly while a type is, but for the moment when the
\* request is decoded, and its routine is known with it; a chunk size is known
\* only inside a chunked message that waits for bytes.
Consistent ==
  pc # "closed" =>
    /\ IF pc = "arrived"
       THEN parser.type # "INVALID"
       ELSE (url = NoUrl <=> parser.type = "INVALID")
              /\ (url = NoUrl => parser.boundary = NoBoundary)
    /\ url = NoUrl => handler = NoRoutine
    /\ url # NoUrl => handler = Route[url] /\ handler # NoRoutine
    /\ parser.type = "NORMAL" => parser.bodyBytes >= 0
    /\ parser.type # "CHUNK" \/ pc = "routine" => parser.chunkBytes = -1
    /\ pc \notin {"recv", "arrived"} \/ mode = "ws" => url # NoUrl

\* A false verdict ends the http part of the connection.
Obeyed ==
  /\ ~verdict => pc = "closed" \/ mode = "ws"
  /\ mode = "ws" => pc \in {"recv", "wsevent", "closed"}
  /\ pc = "wsevent" => mode = "ws"

\* The inductive invariant.
IInv == TypeOK /\ Consistent /\ Obeyed

\* deserialize yields a url of the request lines, or none.
LEMMA DeserializeType ==
  ASSUME NEW header \in Seq(Symbol)
  PROVE  Deserialize(header) \in Urls \cup {NoUrl}
<1> DEFINE first == FirstLine(header)
           word  == First(Spaced(first))
<1>1. first \in Seq(Symbol) /\ (Spaced(first) # {} => word \in 1 .. Len(first))
  BY FirstLineType
<1>2. WordCount(first) # 3 \/ Spaced(first) # {}
  BY WordsCounted
<1> HIDE DEF first
<1>3. Spaced(first) # {} /\ first[word][1] = "line" => first[word][2] \in Urls
  BY <1>1, ElementOfSeq, SymbolValue
<1> QED BY <1>2, <1>3, RouteAssumption DEF Deserialize, first

\* The state a connection starts in.
LEMMA InitInvariant == Init => IInv
<1> SUFFICES ASSUME Init PROVE IInv
  OBVIOUS
<1>1. PICK g \in Garbage : parser = NewParser(g)
  BY DEF Init
<1>2. g \in Int
  BY GarbageAssumption
<1>3. parser \in Parser
  BY <1>1, <1>2, NewParserType
<1>4. script \in Seq(Message) /\ Len(script) \in Nat
  BY ScriptAssumption, LenProperties DEF Init
<1>5. TypeOK
  <2>1. /\ script \in Scripts /\ sent \in 0 .. Len(script)
        /\ pc = "recv" /\ mode = "http" /\ done \in Nat
        /\ url = NoUrl /\ handler = NoRoutine
    BY <1>4 DEF Init
  <2>3. gone \in BOOLEAN /\ verdict \in BOOLEAN
    BY Zenon DEF Init
  <2>2. /\ wire \in Seq(Symbol) /\ content \in Seq(Symbol)
        /\ calls \in Seq(Content)
        /\ replies \in Seq({"404", "101", "pong"})
        /\ events \in Seq({"open", "content", "close"})
    BY DEF Init, Null
  <2> QED BY <1>3, <2>1, <2>2, <2>3 DEF TypeOK
<1>6. Consistent /\ Obeyed
  BY <1>1 DEF Init, Consistent, Obeyed, NewParser
<1> QED BY <1>5, <1>6 DEF IInv

\* The peer changes nothing that the connection relies on.
LEMMA SendNextStep == IInv /\ SendNext => IInv'
<1> SUFFICES ASSUME IInv, SendNext PROVE IInv'
  OBVIOUS
<1> USE DEF IInv
<1>1. script \in Seq(Message) /\ sent \in 0 .. Len(script) /\ Len(script) \in Nat
  BY ScriptAssumption, LenProperties DEF TypeOK
<1>2. /\ script' = script /\ sent' = sent + 1 /\ sent < Len(script)
      /\ wire' = wire \o script[sent + 1].bytes
      /\ UNCHANGED <<gone, conn, hist>>
  BY DEF SendNext
<1>3. wire' \in Seq(Symbol)
  <2>1. script[sent + 1] \in Message
    BY <1>1, <1>2, ElementOfSeq
  <2>2. script[sent + 1].bytes \in Seq(Symbol)
    BY <2>1 DEF Message
  <2> QED BY <1>2, <2>2, ConcatProperties DEF TypeOK
<1>4. sent' \in 0 .. Len(script')
  BY <1>1, <1>2
<1>5. TypeOK'
  BY <1>2, <1>3, <1>4 DEF TypeOK, conn, hist
<1>6. Consistent' /\ Obeyed'
  BY <1>2 DEF Consistent, Obeyed, conn, hist
<1> QED BY <1>5, <1>6

\* A peer that leaves changes nothing but gone.
LEMMA PeerCloseStep == IInv /\ PeerClose => IInv'
<1> SUFFICES ASSUME IInv, PeerClose PROVE IInv'
  OBVIOUS
<1> USE DEF IInv
<1>1. gone' \in BOOLEAN
  BY Zenon DEF PeerClose
<1>2. UNCHANGED <<script, sent, wire, conn, hist>>
  BY DEF PeerClose
<1>3. TypeOK'
  BY <1>1, <1>2 DEF TypeOK, conn, hist
<1>4. Consistent' /\ Obeyed'
  BY <1>2 DEF Consistent, Obeyed, conn, hist
<1> QED BY <1>3, <1>4

\* A step that changes nothing.
LEMMA StutterStep == IInv /\ UNCHANGED vars => IInv'
BY DEF IInv, TypeOK, Consistent, Obeyed, vars, peer, conn, hist

\* Leaving the loop of client_handle.
LEMMA RecvFailStep == IInv /\ RecvFail => IInv'
<1> SUFFICES ASSUME IInv, RecvFail PROVE IInv'
  OBVIOUS
<1> USE DEF IInv
<1>1. /\ pc' = "closed"
      /\ UNCHANGED <<peer, parser, url, handler, mode, content, hist>>
  BY DEF RecvFail, Close
<1>2. TypeOK'
  BY <1>1 DEF TypeOK, peer, hist
<1>3. Consistent' /\ Obeyed'
  BY <1>1 DEF Consistent, Obeyed, hist
<1> QED BY <1>2, <1>3

\* What parse_header leaves behind is consistent, whatever it returns.
LEMMA OnHttpRecvStep == ASSUME NEW n \in 1 .. RecvMax, IInv, OnHttpRecv(n) PROVE IInv'
<1> USE DEF IInv
<1> DEFINE p == Push(parser, Read(wire, n))
           r == IF p.type = "INVALID" THEN ParseHeader(p) ELSE Result("OK", Null, p)
<1>1. /\ pc = "recv" /\ mode = "http" /\ n <= Len(wire)
      /\ wire' = Consume(wire, n)
      /\ UNCHANGED <<script, sent, gone, url, handler, mode, content, hist>>
  BY DEF OnHttpRecv
<1>2. n \in Nat /\ wire \in Seq(Symbol)
  BY RecvMaxAssumption DEF TypeOK
<1>3. wire' \in Seq(Symbol) /\ Read(wire, n) \in Seq(Symbol)
  BY <1>1, <1>2, ReadType, ConsumeType
<1>4. parser \in Parser /\ url \in Urls \cup {NoUrl} /\ handler \in Routines \cup {NoRoutine}
  BY DEF TypeOK
<1>5. /\ p \in Parser /\ p.type = parser.type /\ p.bodyBytes = parser.bodyBytes
      /\ p.boundary = parser.boundary /\ p.chunkBytes = parser.chunkBytes
  BY <1>3, <1>4, PushType
<1>6. /\ url = NoUrl <=> parser.type = "INVALID"
      /\ url = NoUrl => handler = NoRoutine /\ parser.boundary = NoBoundary
      /\ url # NoUrl => handler = Route[url] /\ handler # NoRoutine
      /\ parser.type = "NORMAL" => parser.bodyBytes >= 0
      /\ parser.type # "CHUNK" => parser.chunkBytes = -1
  BY <1>1 DEF Consistent
<1>7. verdict
  BY <1>1 DEF Obeyed
<1>8. /\ parser' = r.p
      /\ \/ r.ret = "INVALID_ARG" /\ pc' = "closed"
         \/ r.ret = "CONTINUE" /\ pc' = "recv"
         \/ r.ret = "OK" /\ pc' = "arrived"
  BY <1>1 DEF OnHttpRecv, Close
<1> HIDE DEF p
<1>9. /\ r.p \in Parser
      /\ r.ret # "OK" => r.p.type = "INVALID" /\ r.p.boundary = NoBoundary
                         /\ r.p.chunkBytes = -1 /\ url = NoUrl
      /\ r.ret = "OK" => /\ r.p.type # "INVALID"
                         /\ r.p.type = "NORMAL" => r.p.bodyBytes >= 0
                         /\ r.p.type # "CHUNK" => r.p.chunkBytes = -1
  <2>1. CASE p.type = "INVALID"
    <3>1. r = ParseHeader(p)
      BY <2>1
    <3> HIDE DEF r
    <3> QED BY <1>5, <1>6, <2>1, <3>1, ParseHeaderResult
  <2>2. CASE p.type # "INVALID"
    <3>1. r = Result("OK", Null, p)
      BY <2>2
    <3> HIDE DEF r
    <3> QED BY <1>5, <1>6, <2>2, <3>1 DEF Result
  <2> QED BY <2>1, <2>2
<1> HIDE DEF r
<1>10. TypeOK'
  BY <1>1, <1>3, <1>8, <1>9 DEF TypeOK, hist
<1>11. Consistent' /\ Obeyed'
  BY <1>1, <1>6, <1>7, <1>8, <1>9 DEF Consistent, Obeyed, hist
<1> QED BY <1>10, <1>11

\* Identify brings the request, the routine and the type together.
LEMMA IdentifyStep == IInv /\ Identify => IInv'
<1> SUFFICES ASSUME IInv, Identify PROVE IInv'
  OBVIOUS
<1> USE DEF IInv
<1> DEFINE u == Deserialize(parser.header)
<1>1. /\ pc = "arrived"
      /\ UNCHANGED <<peer, mode, content, calls, done, events, verdict>>
  BY DEF Identify
<1>2. /\ parser \in Parser /\ parser.type # "INVALID"
      /\ url = NoUrl => handler = NoRoutine
      /\ url # NoUrl => handler = Route[url] /\ handler # NoRoutine
      /\ parser.type = "NORMAL" => parser.bodyBytes >= 0
      /\ parser.type # "CHUNK" => parser.chunkBytes = -1
      /\ verdict /\ mode = "http"
  BY <1>1 DEF TypeOK, Consistent, Obeyed
<1>3. u \in Urls \cup {NoUrl}
  <2>1. parser.header \in Seq(Symbol)
    BY <1>2 DEF Parser
  <2> QED BY <2>1, DeserializeType
<1>4. \A v \in Urls : Route[v] \in Routines \cup {NoRoutine}
  BY RouteAssumption
<1>5. CASE url # NoUrl
  <2>1. pc' = "dispatch" /\ UNCHANGED <<parser, url, handler, replies>>
    BY <1>5 DEF Identify
  <2> QED BY <1>1, <1>2, <1>5, <2>1 DEF TypeOK, Consistent, Obeyed, peer
<1>6. CASE url = NoUrl /\ u = NoUrl
  <2>1. pc' = "closed" /\ UNCHANGED <<parser, url, handler, replies>>
    BY <1>6 DEF Identify, Close
  <2> QED BY <1>1, <1>2, <2>1 DEF TypeOK, Consistent, Obeyed, peer
<1>7. CASE url = NoUrl /\ u # NoUrl /\ Route[u] = NoRoutine
  <2>1. /\ parser' = Reset(parser) /\ pc' = "closed" /\ url' = NoUrl
        /\ handler' = NoRoutine /\ replies' = Append(replies, "404")
    BY <1>7 DEF Identify, Close, Clear
  <2>2. parser' \in Parser
    BY <1>2, <2>1, ResetType
  <2>3. replies' \in Seq({"404", "101", "pong"})
    BY <2>1, AppendProperties DEF TypeOK
  <2> QED BY <1>1, <1>2, <2>1, <2>2, <2>3 DEF TypeOK, Consistent, Obeyed, peer
<1>8. CASE url = NoUrl /\ u # NoUrl /\ Route[u] # NoRoutine
  <2>1. /\ pc' = "dispatch" /\ url' = u /\ handler' = Route[u]
        /\ UNCHANGED <<parser, replies>>
    BY <1>8 DEF Identify
  <2> HIDE DEF u
  <2>2. u \in Urls /\ Route[u] \in Routines
    BY <1>3, <1>4, <1>8
  <2> QED BY <1>1, <1>2, <1>8, <2>1, <2>2 DEF TypeOK, Consistent, Obeyed, peer
<1> QED BY <1>5, <1>6, <1>7, <1>8

\* Taking a body keeps the type and the request; a chunk that is handed out
\* leaves no size behind.
LEMMA DispatchStep == IInv /\ Dispatch => IInv'
<1> SUFFICES ASSUME IInv, Dispatch PROVE IInv'
  OBVIOUS
<1> USE DEF IInv
<1> DEFINE r == Take(parser)
<1>1. /\ pc = "dispatch" /\ parser.type # "WEBSOCKET" /\ parser' = r.p
      /\ UNCHANGED <<peer, url, handler, mode, done, replies, events, verdict>>
  BY DEF Dispatch
<1>2. \/ /\ r.ret = "INVALID_ARG" /\ pc' = "closed"
         /\ UNCHANGED <<content, calls>>
      \/ /\ r.ret = "CONTINUE" /\ pc' = "recv"
         /\ UNCHANGED <<content, calls>>
      \/ /\ r.ret = "OK" /\ pc' = "routine" /\ content' = r.packet
         /\ calls' = Append(calls, <<handler, r.packet>>)
  BY DEF Dispatch, Close
<1>3. /\ parser \in Parser /\ url # NoUrl /\ parser.type # "INVALID"
      /\ handler = Route[url] /\ handler # NoRoutine
      /\ parser.type = "NORMAL" => parser.bodyBytes >= 0
      /\ parser.type # "CHUNK" => parser.chunkBytes = -1
  BY <1>1 DEF TypeOK, Consistent
<1>4. verdict /\ mode = "http"
  BY <1>1 DEF Obeyed, TypeOK
<1>5. /\ r.p \in Parser
      /\ r.ret = "OK" => r.packet \in Seq(Symbol)
      /\ r.p.type = parser.type
      /\ r.p.type = "NORMAL" => r.p.bodyBytes >= 0
      /\ r.p.type # "CHUNK" \/ r.ret = "OK" => r.p.chunkBytes = -1
  <2>1. parser.type \in Types
    BY <1>3 DEF Parser
  <2>2. CASE parser.type = "NORMAL"
    <3>1. r = GetContent(parser)
      BY <2>2 DEF Take
    <3> HIDE DEF r
    <3> QED BY <1>3, <2>2, <3>1, GetContentResult
  <2>3. CASE parser.type = "CHUNK"
    <3>1. r = GetChunk(parser)
      BY <2>3 DEF Take
    <3> HIDE DEF r
    <3> QED BY <1>3, <2>3, <3>1, GetChunkResult
  <2>4. CASE parser.type = "BOUNDARY"
    <3>1. r = GetBoundary(parser)
      BY <2>4 DEF Take
    <3> HIDE DEF r
    <3> QED BY <1>3, <2>4, <3>1, GetBoundaryResult
  <2> QED BY <1>1, <1>3, <2>1, <2>2, <2>3, <2>4 DEF Types
<1> HIDE DEF r
<1>6. content' \in Seq(Symbol) /\ calls' \in Seq(Content)
  <2>1. handler \in Routines \cup {NoRoutine}
    BY DEF TypeOK
  <2>2. CASE r.ret = "OK" /\ content' = r.packet
             /\ calls' = Append(calls, <<handler, r.packet>>)
    <3>1. <<handler, r.packet>> \in Content
      BY <1>5, <2>1, <2>2 DEF Content
    <3> QED BY <1>5, <2>2, <3>1, AppendProperties DEF TypeOK
  <2>3. CASE UNCHANGED <<content, calls>>
    BY <2>3 DEF TypeOK
  <2> QED BY <1>2, <2>2, <2>3
<1>7. pc' \in {"closed", "recv", "routine"} /\ (pc' = "routine" => r.ret = "OK")
  BY <1>2
<1>8. TypeOK'
  BY <1>1, <1>5, <1>6, <1>7 DEF TypeOK, peer
<1>9. Consistent' /\ Obeyed'
  BY <1>1, <1>3, <1>4, <1>5, <1>7 DEF Consistent, Obeyed
<1> QED BY <1>8, <1>9

\* The routine's verdict decides between the next part, the next message and
\* the end.
LEMMA RoutineReturnStep == ASSUME NEW keep \in BOOLEAN, IInv, RoutineReturn(keep) PROVE IInv'
<1> USE DEF IInv
<1>1. /\ pc = "routine" /\ verdict' = keep /\ content' = Null
      /\ UNCHANGED <<peer, mode, calls, replies, events>>
  BY DEF RoutineReturn
<1>2. Null \in Seq(Symbol)
  BY Patterns
<1>3. /\ parser \in Parser /\ url # NoUrl /\ parser.type # "INVALID"
      /\ handler = Route[url] /\ handler # NoRoutine
      /\ parser.type = "NORMAL" => parser.bodyBytes >= 0
      /\ parser.chunkBytes = -1
  BY <1>1 DEF TypeOK, Consistent
<1>4. mode = "http"
  BY <1>1 DEF Obeyed, TypeOK
<1>5. CASE ~keep
  <2>1. pc' = "closed" /\ UNCHANGED <<parser, url, handler, done>>
    BY <1>5 DEF RoutineReturn, Close
  <2>2. TypeOK'
    BY <1>1, <1>2, <2>1 DEF TypeOK, peer
  <2> QED BY <2>1, <2>2 DEF Consistent, Obeyed
<1>6. CASE keep /\ (parser.type = "NORMAL" \/ content = Null)
  <2>1. /\ pc' = "recv" /\ url' = NoUrl /\ handler' = NoRoutine
        /\ parser' = Reset(parser) /\ done' = done + 1
    BY <1>6 DEF RoutineReturn, Clear
  <2>2. /\ parser' \in Parser /\ parser'.type = "INVALID"
        /\ parser'.boundary = NoBoundary /\ parser'.chunkBytes = -1
    BY <1>3, <2>1, ResetType
  <2>3. TypeOK'
    BY <1>1, <1>2, <2>1, <2>2 DEF TypeOK, peer
  <2> QED BY <1>1, <1>4, <1>6, <2>1, <2>2, <2>3 DEF Consistent, Obeyed
<1>7. CASE keep /\ ~(parser.type = "NORMAL" \/ content = Null)
  <2>1. pc' = "dispatch" /\ UNCHANGED <<parser, url, handler, done>>
    BY <1>7 DEF RoutineReturn
  <2>2. TypeOK'
    BY <1>1, <1>2, <2>1 DEF TypeOK, peer
  <2> QED BY <1>1, <1>3, <1>4, <1>7, <2>1, <2>2 DEF Consistent, Obeyed
<1> QED BY <1>5, <1>6, <1>7

\* The upgrade keeps the request and the parser.
LEMMA OnWebSocketStep == IInv /\ OnWebSocket => IInv'
<1> SUFFICES ASSUME IInv, OnWebSocket PROVE IInv'
  OBVIOUS
<1> USE DEF IInv
<1>1. /\ pc = "dispatch"
      /\ UNCHANGED <<peer, parser, url, handler, mode, content, calls, verdict>>
  BY DEF OnWebSocket
<1>2. \/ pc' = "closed" /\ UNCHANGED <<events, replies, done>>
      \/ /\ events' = Append(events, "open") /\ pc' = "wsopen"
         /\ UNCHANGED <<replies, done>>
      \/ /\ replies' = Append(replies, "101") /\ done' = done + 1
         /\ pc' = "recv" /\ UNCHANGED events
  BY DEF OnWebSocket, Close, Switch
<1>3. /\ pc' \in {"closed", "wsopen", "recv"} /\ done' \in Nat
      /\ events' \in Seq({"open", "content", "close"})
      /\ replies' \in Seq({"404", "101", "pong"})
  <2>1. /\ Append(events, "open") \in Seq({"open", "content", "close"})
        /\ Append(replies, "101") \in Seq({"404", "101", "pong"})
    BY AppendProperties DEF TypeOK
  <2>2. /\ done \in Nat
        /\ events \in Seq({"open", "content", "close"})
        /\ replies \in Seq({"404", "101", "pong"})
    BY DEF TypeOK
  <2>3. done' \in Nat
    BY <1>2, <2>2
  <2>4. pc' \in {"closed", "wsopen", "recv"}
    BY <1>2
  <2>5. events' \in Seq({"open", "content", "close"})
    BY <1>2, <2>1, <2>2, Zenon
  <2>6. replies' \in Seq({"404", "101", "pong"})
    BY <1>2, <2>1, <2>2, Zenon
  <2> QED BY <2>3, <2>4, <2>5, <2>6
<1>4. TypeOK'
  BY <1>1, <1>3 DEF TypeOK, peer
<1>5. Consistent' /\ Obeyed'
  BY <1>1, <1>3 DEF TypeOK, Consistent, Obeyed
<1> QED BY <1>4, <1>5

\* After the open event the connection is a websocket with its request still
\* decoded.
LEMMA WsOpenReturnStep == ASSUME NEW keep \in BOOLEAN, IInv, WsOpenReturn(keep) PROVE IInv'
<1> USE DEF IInv
<1>1. /\ pc = "wsopen" /\ pc' = "recv" /\ mode' = "ws" /\ verdict' = keep
      /\ replies' = Append(replies, "101") /\ done' = done + 1
      /\ UNCHANGED <<peer, parser, url, handler, content, calls, events>>
  BY DEF WsOpenReturn, Switch
<1>2. replies' \in Seq({"404", "101", "pong"}) /\ done' \in Nat
  BY <1>1, AppendProperties DEF TypeOK
<1>3. TypeOK'
  BY <1>1, <1>2 DEF TypeOK, peer
<1>4. Consistent' /\ Obeyed'
  BY <1>1 DEF Consistent, Obeyed
<1> QED BY <1>3, <1>4

\* A frame goes to the websocket handler only while the connection is a websocket.
LEMMA OnWsRecvStep == IInv /\ OnWsRecv => IInv'
<1> SUFFICES ASSUME IInv, OnWsRecv PROVE IInv'
  OBVIOUS
<1> USE DEF IInv
<1> DEFINE op == Head(wire)[1]
<1>1. /\ pc = "recv" /\ mode = "ws" /\ wire # <<>> /\ wire' = Tail(wire)
      /\ UNCHANGED <<script, sent, gone, parser, url, handler, mode, content,
                     calls, done, verdict>>
  BY DEF OnWsRecv
<1>2. wire' \in Seq(Symbol)
  BY <1>1, HeadTailProperties DEF TypeOK
<1>3. \/ replies' = Append(replies, "pong") /\ UNCHANGED <<pc, events>>
      \/ UNCHANGED <<pc, events, replies>>
      \/ /\ op \in {"content", "close"} /\ pc' = "wsevent"
         /\ events' = Append(events, op) /\ UNCHANGED replies
      \/ pc' = "closed" /\ UNCHANGED <<events, replies>>
  BY DEF OnWsRecv, Close
<1> HIDE DEF op
<1>4. /\ pc' \in {"recv", "wsevent", "closed"}
      /\ events' \in Seq({"open", "content", "close"})
      /\ replies' \in Seq({"404", "101", "pong"})
  <2>1. /\ op \in {"content", "close"} =>
             Append(events, op) \in Seq({"open", "content", "close"})
        /\ Append(replies, "pong") \in Seq({"404", "101", "pong"})
    BY AppendProperties DEF TypeOK
  <2> QED BY <1>1, <1>3, <2>1 DEF TypeOK
<1>5. TypeOK'
  BY <1>1, <1>2, <1>4 DEF TypeOK
<1>6. url # NoUrl
  BY <1>1 DEF Consistent
<1>7. Consistent' /\ Obeyed'
  BY <1>1, <1>4, <1>6 DEF Consistent, Obeyed
<1> QED BY <1>5, <1>7

\* After an event the connection waits for the next frame, whatever was returned.
LEMMA WsEventReturnStep == ASSUME NEW keep \in BOOLEAN, IInv, WsEventReturn(keep) PROVE IInv'
<1> USE DEF IInv
<1>1. /\ pc = "wsevent" /\ pc' = "recv" /\ verdict' = keep
      /\ UNCHANGED <<peer, parser, url, handler, mode, content, calls, done,
                     replies, events>>
  BY DEF WsEventReturn
<1>2. TypeOK'
  BY <1>1 DEF TypeOK, peer
<1>3. Consistent' /\ Obeyed'
  BY <1>1 DEF Consistent, Obeyed
<1> QED BY <1>2, <1>3

\* Every step keeps the inductive invariant.
LEMMA NextInvariant == IInv /\ [Next]_vars => IInv'
<1> SUFFICES ASSUME IInv, [Next]_vars PROVE IInv'
  OBVIOUS
<1>1. CASE Coroutine
  BY <1>1, OnHttpRecvStep, RecvFailStep, IdentifyStep, DispatchStep, OnWebSocketStep,
     OnWsRecvStep DEF Coroutine
<1>2. CASE Application
  BY <1>2, RoutineReturnStep, WsOpenReturnStep, WsEventReturnStep DEF Application
<1>3. CASE PeerSend \/ PeerClose
  BY <1>3, SendNextStep, PeerCloseStep DEF PeerSend
<1>4. CASE Ended \/ UNCHANGED vars
  BY <1>4, StutterStep DEF Ended
<1> QED BY <1>1, <1>2, <1>3, <1>4 DEF Next

\* The inductive invariant holds of every connection.
LEMMA Invariant == Spec => []IInv
<1>1. Init => IInv
  BY InitInvariant
<1>2. IInv /\ [Next]_vars => IInv'
  BY NextInvariant
<1> QED BY <1>1, <1>2, PTL DEF Spec

\* The types of the connection's members, whatever is sent and however it is
\* cut.
THEOREM TypeCorrect == Spec => []TypeOK
<1>1. IInv => TypeOK
  BY DEF IInv
<1> QED BY <1>1, Invariant, PTL

\* handler_ is never called empty or with the request of another url, and no
\* body is taken with a type or a length that is not known (on_http_arrived).
THEOREM HandlerAlwaysReady == Spec => []HandlerReady
<1>1. IInv => HandlerReady
  BY RouteAssumption DEF IInv, TypeOK, Consistent, HandlerReady
<1> QED BY <1>1, Invariant, PTL

\* No message leaves a chunk size, a boundary or a routine to the next one.
THEOREM AlwaysCleanBetween == Spec => []CleanBetween
<1>1. IInv => CleanBetween
  BY DEF IInv, Consistent, CleanBetween
<1> QED BY <1>1, Invariant, PTL

\* A routine that returned false is the last one that is called.
THEOREM FalseIsFinal == Spec => NoCallAfterFalse
<1>1. IInv /\ [Next]_vars => [calls' # calls => verdict]_vars
  <2> SUFFICES ASSUME IInv, Next, calls' # calls PROVE verdict
    BY DEF vars, hist
  <2>1. Dispatch
    BY DEF Next, PeerSend, SendNext, PeerClose, Coroutine, Application, Ended, OnHttpRecv, Identify,
           RecvFail, OnWebSocket, OnWsRecv, RoutineReturn, WsOpenReturn,
           WsEventReturn, vars, hist
  <2>2. pc = "dispatch"
    BY <2>1 DEF Dispatch
  <2> QED BY <2>2 DEF IInv, Obeyed
<1> QED BY <1>1, Invariant, PTL DEF Spec, NoCallAfterFalse

\* How far an upgrade to a server with a websocket handler is: before its answer
\* there is no frame and no pong; after it there is one answer, in front of them.
Upgraded ==
  script \in WsServed =>
    /\ mode = "http" =>
         /\ \A i \in DOMAIN replies : replies[i] = "404"
         /\ events = IF pc = "wsopen" THEN <<"open">> ELSE <<>>
    /\ mode = "ws" =>
         /\ events # <<>> /\ events[1] = "open"
         /\ \E j \in DOMAIN replies :
              /\ replies[j] = "101"
              /\ \A i \in DOMAIN replies : replies[i] = "101" => i = j
              /\ \A i \in DOMAIN replies : replies[i] = "pong" => j < i

\* Nothing is answered at first.
LEMMA InitUpgraded == Init => Upgraded
BY DEF Init, Upgraded

\* Steps that neither answer an upgrade nor reach the websocket handler.
LEMMA OtherUpgraded ==
  ASSUME Upgraded, UNCHANGED <<script, mode, replies, events>>,
         pc' = "wsopen" <=> pc = "wsopen"
  PROVE  Upgraded'
BY DEF Upgraded

\* The only answer before the upgrade's is that there is no routine.
LEMMA IdentifyUpgraded == IInv /\ Upgraded /\ Identify => Upgraded'
<1> SUFFICES ASSUME IInv, Upgraded, Identify PROVE Upgraded'
  OBVIOUS
<1>1. /\ pc = "arrived" /\ pc' \in {"dispatch", "closed"}
      /\ UNCHANGED <<script, mode, events>>
      /\ replies' = replies \/ replies' = Append(replies, "404")
  BY DEF Identify, Close, peer
<1>2. mode = "http"
  BY <1>1 DEF IInv, Obeyed, TypeOK
<1>3. /\ replies \in Seq({"404", "101", "pong"}) /\ Len(replies) \in Nat
      /\ DOMAIN replies = 1 .. Len(replies)
  BY LenProperties DEF IInv, TypeOK
<1>4. (\A i \in DOMAIN replies : replies[i] = "404")
        => \A i \in DOMAIN replies' : replies'[i] = "404"
  <2>1. CASE replies' = replies
    BY <2>1
  <2>2. CASE replies' = Append(replies, "404")
    <3>1. "404" \in {"404", "101", "pong"}
      OBVIOUS
    <3>2. /\ replies' \in Seq({"404", "101", "pong"}) /\ Len(replies') = Len(replies) + 1
          /\ \A i \in 1 .. Len(replies) : replies'[i] = replies[i]
          /\ replies'[Len(replies) + 1] = "404"
      BY <1>3, <2>2, <3>1, AppendProperties
    <3>3. DOMAIN replies' = 1 .. Len(replies) + 1
      BY <3>2, LenProperties
    <3> QED BY <1>3, <3>2, <3>3
  <2> QED BY <1>1, <2>1, <2>2
<1> QED BY <1>1, <1>2, <1>4 DEF Upgraded

\* The open event is the first one; without a websocket handler there is none.
LEMMA OnWebSocketUpgraded == IInv /\ Upgraded /\ OnWebSocket => Upgraded'
<1> SUFFICES ASSUME IInv, Upgraded, OnWebSocket, script \in WsServed PROVE Upgraded'
  BY DEF OnWebSocket, peer, Upgraded
<1>1. /\ pc = "dispatch" /\ UNCHANGED <<script, mode, replies>>
      /\ \/ pc' = "closed" /\ events' = events
         \/ pc' = "wsopen" /\ events' = Append(events, "open")
  BY DEF OnWebSocket, Close, peer
<1>2. mode = "http"
  BY <1>1 DEF IInv, Obeyed, TypeOK
<1>3. events = <<>>
  BY <1>1, <1>2 DEF Upgraded
<1>4. Append(events, "open") = <<"open">>
  BY <1>3
<1> QED BY <1>1, <1>2, <1>3, <1>4 DEF Upgraded

\* The answer to the upgrade comes when its event was handled.
LEMMA WsOpenReturnUpgraded ==
  ASSUME IInv, Upgraded, NEW keep \in BOOLEAN, WsOpenReturn(keep)
  PROVE  Upgraded'
<1>1. /\ pc = "wsopen" /\ pc' = "recv" /\ mode' = "ws"
      /\ replies' = Append(replies, "101") /\ UNCHANGED <<script, events>>
  BY DEF WsOpenReturn, Switch, peer
<1>2. mode = "http"
  BY <1>1 DEF IInv, Obeyed, TypeOK
<1>3. /\ replies \in Seq({"404", "101", "pong"}) /\ Len(replies) \in Nat
      /\ DOMAIN replies = 1 .. Len(replies)
  BY LenProperties DEF IInv, TypeOK
<1>4. "101" \in {"404", "101", "pong"}
  OBVIOUS
<1>5. /\ replies' \in Seq({"404", "101", "pong"}) /\ Len(replies') = Len(replies) + 1
      /\ \A i \in 1 .. Len(replies) : replies'[i] = replies[i]
      /\ replies'[Len(replies) + 1] = "101"
  BY <1>1, <1>3, <1>4, AppendProperties
<1>6. DOMAIN replies' = 1 .. Len(replies) + 1
  BY <1>5, LenProperties
<1>7. SUFFICES ASSUME script \in WsServed
               PROVE  /\ events # <<>> /\ events[1] = "open"
                      /\ \E j \in DOMAIN replies' :
                           /\ replies'[j] = "101"
                           /\ \A i \in DOMAIN replies' : replies'[i] = "101" => i = j
                           /\ \A i \in DOMAIN replies' : replies'[i] = "pong" => j < i
  BY <1>1 DEF Upgraded
<1>8. events = <<"open">> /\ \A i \in DOMAIN replies : replies[i] = "404"
  BY <1>1, <1>2, <1>7 DEF Upgraded
<1>9. \A i \in 1 .. Len(replies) : replies'[i] = "404"
  BY <1>3, <1>5, <1>8
<1>10. Len(replies) + 1 \in DOMAIN replies'
  BY <1>3, <1>6
<1>11. \A i \in DOMAIN replies' : replies'[i] # "404" => i = Len(replies) + 1
  BY <1>3, <1>6, <1>9
<1> QED BY <1>5, <1>8, <1>10, <1>11

\* Frames and pongs come behind the answer.
LEMMA OnWsRecvUpgraded == IInv /\ Upgraded /\ OnWsRecv => Upgraded'
<1> SUFFICES ASSUME IInv, Upgraded, OnWsRecv, script \in WsServed PROVE Upgraded'
  BY DEF OnWsRecv, Upgraded
<1> DEFINE op == Head(wire)[1]
<1>1. /\ mode = "ws" /\ mode' = "ws" /\ script' = script
      /\ replies' = replies \/ replies' = Append(replies, "pong")
      /\ \/ events' = events
         \/ op \in {"open", "content", "close"} /\ events' = Append(events, op)
  BY DEF OnWsRecv, Close
<1> HIDE DEF op
<1>2. /\ replies \in Seq({"404", "101", "pong"}) /\ Len(replies) \in Nat
      /\ DOMAIN replies = 1 .. Len(replies)
      /\ events \in Seq({"open", "content", "close"}) /\ Len(events) \in Nat
  BY LenProperties DEF IInv, TypeOK
<1>3. events # <<>> /\ events[1] = "open"
  BY <1>1 DEF Upgraded
<1>4. PICK j \in DOMAIN replies :
        /\ replies[j] = "101"
        /\ \A i \in DOMAIN replies : replies[i] = "101" => i = j
        /\ \A i \in DOMAIN replies : replies[i] = "pong" => j < i
  BY <1>1 DEF Upgraded
<1>5. events' # <<>> /\ events'[1] = "open"
  <2>1. CASE events' = events
    BY <1>3, <2>1
  <2>2. CASE op \in {"open", "content", "close"} /\ events' = Append(events, op)
    <3>1. /\ events' # <<>>
          /\ \A i \in 1 .. Len(events) : events'[i] = events[i]
      BY <1>2, <2>2, AppendProperties
    <3>2. 1 \in 1 .. Len(events)
      BY <1>2, <1>3, EmptySeq
    <3> QED BY <1>3, <3>1, <3>2
  <2> QED BY <1>1, <2>1, <2>2
<1>6. /\ j \in DOMAIN replies'
      /\ replies'[j] = "101"
      /\ \A i \in DOMAIN replies' : replies'[i] = "101" => i = j
      /\ \A i \in DOMAIN replies' : replies'[i] = "pong" => j < i
  <2>1. CASE replies' = replies
    BY <1>4, <2>1
  <2>2. CASE replies' = Append(replies, "pong")
    <3>1. "pong" \in {"404", "101", "pong"}
      OBVIOUS
    <3>2. /\ replies' \in Seq({"404", "101", "pong"}) /\ Len(replies') = Len(replies) + 1
          /\ \A i \in 1 .. Len(replies) : replies'[i] = replies[i]
          /\ replies'[Len(replies) + 1] = "pong"
      BY <1>2, <2>2, <3>1, AppendProperties
    <3>3. DOMAIN replies' = 1 .. Len(replies) + 1
      BY <3>2, LenProperties
    <3> QED BY <1>2, <1>4, <3>2, <3>3
  <2> QED BY <1>1, <2>1, <2>2
<1> QED BY <1>1, <1>5, <1>6 DEF Upgraded

\* Every step keeps the order of the upgrade.
LEMMA NextUpgraded == IInv /\ Upgraded /\ [Next]_vars => Upgraded'
<1> SUFFICES ASSUME IInv, Upgraded, [Next]_vars PROVE Upgraded'
  OBVIOUS
<1>1. CASE \/ PeerSend \/ PeerClose \/ (\E n \in 1 .. RecvMax : OnHttpRecv(n)) \/ RecvFail
           \/ Dispatch \/ Ended \/ UNCHANGED vars
           \/ \E keep \in BOOLEAN : RoutineReturn(keep) \/ WsEventReturn(keep)
  <2>1. UNCHANGED <<script, mode, replies, events>> /\ (pc' = "wsopen" <=> pc = "wsopen")
    BY <1>1 DEF PeerSend, SendNext, PeerClose, OnHttpRecv, RecvFail, Dispatch, Ended, RoutineReturn,
                WsEventReturn, Close, vars, peer, conn, hist
  <2> QED BY <2>1, OtherUpgraded
<1>2. CASE Identify \/ OnWebSocket \/ OnWsRecv
  BY <1>2, IdentifyUpgraded, OnWebSocketUpgraded, OnWsRecvUpgraded
<1>3. CASE \E keep \in BOOLEAN : WsOpenReturn(keep)
  BY <1>3, WsOpenReturnUpgraded
<1> QED BY <1>1, <1>2, <1>3 DEF Next, Coroutine, Application

\* With a websocket handler an upgrade is answered once, behind the open event and
\* in front of every frame and pong, whatever the peer sends and however it is cut.
THEOREM AlwaysAfterUpgrade == Spec => []WsAfterUpgrade
<1>1. IInv /\ Upgraded => WsAfterUpgrade
  <2> SUFFICES ASSUME IInv, Upgraded, script \in WsServed
               PROVE  LET switches == {i \in DOMAIN replies : replies[i] = "101"}
                          pongs    == {i \in DOMAIN replies : replies[i] = "pong"}
                      IN /\ Cardinality(switches) <= 1
                         /\ \A i \in pongs : \E j \in switches : j < i
                         /\ Len(events) > 1 => events[1] = "open" /\ switches # {}
    BY DEF WsAfterUpgrade
  <2> DEFINE switches == {i \in DOMAIN replies : replies[i] = "101"}
  <2>1. mode \in {"http", "ws"}
    BY DEF IInv, TypeOK
  <2>2. CASE mode = "http"
    <3>1. /\ switches = {} /\ {i \in DOMAIN replies : replies[i] = "pong"} = {}
          /\ events = <<"open">> \/ events = <<>>
      BY <2>2 DEF Upgraded
    <3>2. ~(Len(events) > 1)
      <4>1. Len(<<"open">>) = 1 /\ Len(<<>>) = 0
        OBVIOUS
      <4>2. Len(events) = 1 \/ Len(events) = 0
        BY <3>1, <4>1, Zenon
      <4>3. ASSUME NEW n \in {0, 1} PROVE ~(n > 1)
        OBVIOUS
      <4> QED BY <4>2, <4>3
    <3>3. Cardinality(switches) = 0
      BY <3>1, FS_EmptySet
    <3> QED BY <3>1, <3>2, <3>3
  <2>3. CASE mode = "ws"
    <3>1. PICK j \in DOMAIN replies :
            /\ replies[j] = "101"
            /\ \A i \in DOMAIN replies : replies[i] = "101" => i = j
            /\ \A i \in DOMAIN replies : replies[i] = "pong" => j < i
      BY <2>3 DEF Upgraded
    <3>2. switches = {j}
      BY <3>1
    <3>3. Cardinality(switches) = 1
      BY <3>2, FS_Singleton
    <3>4. events[1] = "open"
      BY <2>3 DEF Upgraded
    <3> QED BY <3>1, <3>2, <3>3, <3>4
  <2> QED BY <2>1, <2>2, <2>3
<1>2. Init => Upgraded
  BY InitUpgraded
<1>3. IInv /\ Upgraded /\ [Next]_vars => Upgraded'
  BY NextUpgraded
<1> QED BY <1>1, <1>2, <1>3, Invariant, PTL DEF Spec

-----------------------------------------------------------------------------
(* The request of a message sent as this library sends it. *)

\* What the routine of a url is called with for the first k packets.
ServedWith(u, packs, k) ==
  IF Route[u] = NoRoutine THEN <<>> ELSE [i \in 1 .. k |-> <<Route[u], packs[i]>>]

\* m is a request to u with this body, as package_header and the body senders send it.
Request(m, u, body, b) ==
  /\ u \in Urls /\ Sendable(m.kind, body, b)
  /\ m.bytes = Encode(Line(u), m.kind, body, b)
  /\ m.contents = ServedWith(u, Packets(m.kind, body), Len(Packets(m.kind, body)))

\* deserialize finds the url, unless a whole line end is in front of it.
LEMMA DeserializeFirst ==
  ASSUME NEW header, NEW c, NEW u, FirstWordIs(header, c, Line(u))
  PROVE  Deserialize(header) = IF c = 2 THEN NoUrl ELSE u
<1>1. PICK first : first = FirstLine(header)
  OBVIOUS
<1>2. Line(u)[1] = "line" /\ Line(u)[2] = u /\ Blanks(Line(u)) = 2
  BY DEF Line, Blanks
<1>3. /\ c = 2 => WordCount(first) = 1
      /\ c # 2 => WordCount(first) = 3 /\ first[First(Spaced(first))] = Line(u)
  BY <1>1, <1>2, FirstWordCounted
<1> QED BY <1>1, <1>2, <1>3 DEF Deserialize

\* The branch of on_http_arrived for the type takes the next packet, or waits for it.
LEMMA TakeTakes ==
  ASSUME NEW p \in Parser, p.type \in {"NORMAL", "CHUNK", "BOUNDARY"}, NEW w \in Seq(Symbol), NEW packs,
         PacketsOf(p.type, packs), NEW k \in Nat, k < Len(packs), IsBehind(p, w, packs, k),
         p.type # "CHUNK" => p.chunkBytes = -1, p.type = "NORMAL" => p.bodyBytes >= 0
  PROVE  Takes(w, packs, k, Take(p)) /\ Take(p).p.type = p.type
<1>1. Take(p) = NextOf(p)
  BY DEF Take, NextOf
<1> QED BY <1>1, NextTakes, NextKeeps

-----------------------------------------------------------------------------
(* What is delivered. *)

\* The contents of the first n messages of the script s.
CarriedOf(s, n) == FlattenSeq([i \in 1 .. n |-> s[i].contents])

\* Message by message.
LEMMA CarriedMore ==
  ASSUME NEW s \in Seq(Message), NEW n \in Nat, n <= Len(s)
  PROVE  /\ CarriedOf(s, n) \in Seq(Content)
         /\ n = 0 => CarriedOf(s, n) = <<>>
         /\ \A k \in Nat : n = k + 1 => /\ CarriedOf(s, k) \in Seq(Content)
                                       /\ s[n].contents \in Seq(Content)
                                       /\ CarriedOf(s, n) = CarriedOf(s, k) \o s[n].contents
<1> DEFINE c == [i \in 1 .. Len(s) |-> s[i].contents]
<1>1. Len(s) \in Nat /\ \A i \in 1 .. Len(s) : s[i].contents \in Seq(Content) /\ c[i] = s[i].contents
  <2>1. \A i \in 1 .. Len(s) : s[i] \in Message
    BY ElementOfSeq
  <2> QED BY <2>1, LenProperties DEF Message
<1>2. ASSUME NEW k \in Nat, k <= Len(s) PROVE CarriedOf(s, k) = UpTo(c, k)
  <2>1. [i \in 1 .. k |-> c[i]] = [i \in 1 .. k |-> s[i].contents]
    BY <1>1, <1>2
  <2> QED BY <2>1 DEF CarriedOf, UpTo
<1> HIDE DEF c
<1>3. /\ UpTo(c, n) \in Seq(Content)
      /\ n = 0 => UpTo(c, n) = <<>>
      /\ \A k \in Nat : n = k + 1 => /\ UpTo(c, k) \in Seq(Content) /\ c[n] \in Seq(Content)
                                    /\ UpTo(c, n) = UpTo(c, k) \o c[n]
  <2>1. PICK m \in Nat : m = Len(s)
    BY <1>1
  <2>2. (\A i \in 1 .. m : c[i] \in Seq(Content)) /\ n <= m
    BY <1>1, <2>1
  <2> QED BY <2>2, FlattenUpTo
<1>4. ASSUME NEW k \in Nat, n = k + 1
      PROVE  /\ CarriedOf(s, k) \in Seq(Content) /\ s[n].contents \in Seq(Content)
             /\ CarriedOf(s, n) = CarriedOf(s, k) \o s[n].contents
  <2>1. k <= Len(s) /\ n \in 1 .. Len(s)
    BY <1>1, <1>4
  <2> QED BY <1>1, <1>2, <1>3, <1>4, <2>1
<1> QED BY <1>2, <1>3, <1>4

\* What the routine has for the first packets, packet by packet.
LEMMA ServedMore ==
  ASSUME NEW u \in Urls, NEW S, NEW packs \in Seq(S), S \subseteq Seq(Symbol), NEW k \in Nat, k < Len(packs)
  PROVE  /\ ServedWith(u, packs, k) \in Seq(Content) /\ ServedWith(u, packs, k + 1) \in Seq(Content)
         /\ ServedWith(u, packs, 0) = <<>>
         /\ Route[u] # NoRoutine => Append(ServedWith(u, packs, k), <<Route[u], packs[k + 1]>>)
                                      = ServedWith(u, packs, k + 1)
<1>1. Route[u] \in Routines \cup {NoRoutine}
  BY RouteAssumption
<1>2. Len(packs) \in Nat /\ \A i \in 1 .. Len(packs) : <<Route[u], packs[i]>> \in Content
  <2>1. \A i \in 1 .. Len(packs) : packs[i] \in Seq(Symbol)
    BY ElementOfSeq
  <2> QED BY <1>1, <2>1, LenProperties DEF Content
<1> DEFINE f(j) == [i \in 1 .. j |-> <<Route[u], packs[i]>>]
<1>3. ASSUME NEW j \in Nat, j <= Len(packs) PROVE f(j) \in Seq(Content) /\ Len(f(j)) = j
  <2> DEFINE e == f(j)
  <2>1. e = [i \in 1 .. j |-> e[i]] /\ \A i \in 1 .. j : e[i] \in Content
    BY <1>2, <1>3
  <2> HIDE DEF e
  <2>2. e \in Seq(Content) /\ Len(e) = j
    BY <2>1, FunctionIsSeq
  <2> QED BY <2>2 DEF e
<1>4. /\ f(k) \in Seq(Content) /\ Len(f(k)) = k
      /\ f(k + 1) \in Seq(Content) /\ Len(f(k + 1)) = k + 1
  BY <1>2, <1>3
<1>5. ServedWith(u, packs, k) \in Seq(Content) /\ ServedWith(u, packs, k + 1) \in Seq(Content)
  <2>1. <<>> \in Seq(Content)
    OBVIOUS
  <2> QED BY <1>4, <2>1 DEF ServedWith
<1>6. ServedWith(u, packs, 0) = <<>>
  <2>1. f(0) = <<>>
    OBVIOUS
  <2> QED BY <2>1 DEF ServedWith
<1>7. ASSUME Route[u] # NoRoutine
      PROVE  Append(ServedWith(u, packs, k), <<Route[u], packs[k + 1]>>) = ServedWith(u, packs, k + 1)
  <2> DEFINE a == f(k)
             b == f(k + 1)
             c == <<Route[u], packs[k + 1]>>
  <2>1. a \in Seq(Content) /\ Len(a) = k /\ b \in Seq(Content) /\ Len(b) = k + 1
    BY <1>4
  <2>2. c \in Content /\ b[k + 1] = c /\ \A i \in 1 .. k : b[i] = a[i]
    BY <1>2
  <2>3. ServedWith(u, packs, k) = a /\ ServedWith(u, packs, k + 1) = b
    BY <1>7 DEF ServedWith
  <2> HIDE DEF a, b, c
  <2>4. /\ Append(a, c) \in Seq(Content) /\ Len(Append(a, c)) = k + 1
        /\ \A i \in 1 .. k : Append(a, c)[i] = a[i]
        /\ Append(a, c)[k + 1] = c
    BY <2>1, <2>2, AppendProperties
  <2>5. \A i \in 1 .. k + 1 : b[i] = Append(a, c)[i]
    <3> TAKE i \in 1 .. k + 1
    <3>1. i \in 1 .. k \/ i = k + 1
      OBVIOUS
    <3> QED BY <2>2, <2>4, <3>1
  <2>6. b = Append(a, c)
    BY <2>1, <2>4, <2>5, SeqEqual
  <2> QED BY <2>3, <2>6 DEF c
<1> QED BY <1>5, <1>6, <1>7

\* m is a websocket frame.
FrameMessage(m) == m.kind = "FRAME" /\ m.contents = <<>> /\ \E op \in Frames : m.bytes = <<Frame(op)>>

\* m is sent the way this library sends requests and frames.
WellSent(m) == FrameMessage(m) \/ \E u, body, b : Request(m, u, body, b)

\* The first n messages of s are.
AllWell(s, n) == \A i \in 1 .. n : WellSent(s[i])

\* They are requests with a content length or without a body.
AllNormal(s, n) == \A i \in 1 .. n : s[i].kind = "NORMAL"

\* g may be left behind them.
LeftBehind(s, n, g) == g \in Junk /\ (AllNormal(s, n) => g = <<>>)

\* What a message leaves, alone or with a frame behind it, is too short.
LEMMA JunkWaits ==
  ASSUME NEW p \in Parser, p.type = "INVALID", NEW w \in Seq(Symbol), NEW g \in Junk
  PROVE  /\ Makes(p.pkts, w, g) => StillWaits(p)
         /\ \A m : FrameMessage(m) /\ Joined(p.pkts, w, g, m.bytes) => StillWaits(p)
<1>1. PICK s \in Seq(Symbol) : s = p.pkts
  BY DEF Parser
<1>2. PICK m \in Nat, n \in Nat : m = Len(s) /\ n = Len(w)
  BY LenProperties
<1>3. Len(s \o w) = m + n
  BY <1>2, ConcatProperties
<1>4. PICK k \in Nat : k = Len(g) /\ k <= 2 /\ g \in Seq(Symbol)
  BY JunkIsShort
<1>5. ASSUME s \o w = g PROVE StillWaits(p)
  BY <1>1, <1>5, LeftWaits
<1>6. ASSUME NEW x, FrameMessage(x), s \o w = g \o x.bytes PROVE StillWaits(p)
  <2>1. PICK op \in Frames : x.bytes = <<Frame(op)>>
    BY <1>6 DEF FrameMessage
  <2>2. Frame(op) \in Symbol
    BY DEF Symbol
  <2>3. Len(g \o <<Frame(op)>>) = k + 1
    BY <1>4, <2>2, OneMore
  <2>4. m + n = k + 1
    BY <1>3, <1>6, <2>1, <2>3
  <2>5. m <= 3
    BY <1>2, <1>4, <2>4
  <2> QED BY <1>1, <1>2, <2>5, ShortWaits
<1> QED BY <1>1, <1>5, <1>6 DEF Makes, Joined

\* A message that is well sent is a frame or is sent as a header and a body.
LEMMA WellSentAs ==
  ASSUME NEW m, WellSent(m)
  PROVE  FrameMessage(m) \/ \E u, b, packs, h, rest :
                              /\ u \in Urls /\ SentAs(m.bytes, m.kind, Line(u), b, packs, h, rest)
                              /\ m.contents = ServedWith(u, packs, Len(packs))
<1>1. ASSUME NEW u, NEW body, NEW b, Request(m, u, body, b)
      PROVE  \E d, packs, h, rest : /\ u \in Urls /\ SentAs(m.bytes, m.kind, Line(u), d, packs, h, rest)
                                    /\ m.contents = ServedWith(u, packs, Len(packs))
  <2> DEFINE packs == Packets(m.kind, body)
  <2>1. /\ u \in Urls /\ Sendable(m.kind, body, b) /\ m.bytes = Encode(Line(u), m.kind, body, b)
        /\ m.contents = ServedWith(u, packs, Len(packs))
    BY <1>1 DEF Request
  <2>2. Line(u) \in FirstLines
    BY <2>1 DEF Line, FirstLines
  <2>3. \E d, h, rest : SentAs(m.bytes, m.kind, Line(u), d, packs, h, rest)
    BY <2>1, <2>2, SentIs
  <2> HIDE DEF packs
  <2> QED BY <2>1, <2>3
<1> QED BY <1>1 DEF WellSent

\* What the routine has for the first packets is the beginning of what it is to have.
LEMMA ServedBegins ==
  ASSUME NEW u \in Urls, NEW S, NEW packs \in Seq(S), S \subseteq Seq(Symbol), NEW k \in Nat, k <= Len(packs)
  PROVE  /\ ServedWith(u, packs, k) \in Seq(Content) /\ ServedWith(u, packs, Len(packs)) \in Seq(Content)
         /\ Begins(ServedWith(u, packs, k), ServedWith(u, packs, Len(packs)), Content)
<1>1. Route[u] \in Routines \cup {NoRoutine}
  BY RouteAssumption
<1>2. PICK n \in Nat : n = Len(packs)
  BY LenProperties
<1>6. n - k \in Nat
  <2>1. k <= n
    BY <1>2
  <2> QED BY <2>1
<1>3. \A i \in 1 .. n : <<Route[u], packs[i]>> \in Content
  <2>1. \A i \in 1 .. n : packs[i] \in Seq(Symbol)
    BY <1>2, ElementOfSeq
  <2> QED BY <1>1, <2>1 DEF Content
<1>4. CASE Route[u] = NoRoutine
  <2>1. ServedWith(u, packs, k) = <<>> /\ ServedWith(u, packs, Len(packs)) = <<>>
    BY <1>4 DEF ServedWith
  <2>2. <<>> \in Seq(Content)
    OBVIOUS
  <2> QED BY <2>1, <2>2, BeginsItself
<1>5. CASE Route[u] # NoRoutine
  <2> DEFINE a == [i \in 1 .. k |-> <<Route[u], packs[i]>>]
             b == [i \in 1 .. n |-> <<Route[u], packs[i]>>]
             c == [i \in 1 .. n - k |-> <<Route[u], packs[k + i]>>]
  <2>1. a = [i \in 1 .. k |-> a[i]] /\ \A i \in 1 .. k : a[i] \in Content
    BY <1>2, <1>3
  <2>2. b = [i \in 1 .. n |-> b[i]] /\ \A i \in 1 .. n : b[i] \in Content
    BY <1>3
  <2>3. PICK d \in Nat : d = n - k
    BY <1>6
  <2>4. c = [i \in 1 .. d |-> c[i]] /\ \A i \in 1 .. d : c[i] \in Content
    BY <1>2, <1>3, <2>3
  <2>5. (\A i \in 1 .. k : b[i] = a[i]) /\ (\A i \in 1 .. d : b[k + i] = c[i])
    BY <1>2, <2>3
  <2>6. ServedWith(u, packs, k) = a /\ ServedWith(u, packs, Len(packs)) = b
    BY <1>2, <1>5 DEF ServedWith
  <2> HIDE DEF a, b, c
  <2>7. a \in Seq(Content) /\ Len(a) = k /\ b \in Seq(Content) /\ Len(b) = n /\ c \in Seq(Content) /\ Len(c) = d
    BY <2>1, <2>2, <2>4, FunctionIsSeq
  <2>8. /\ a \o c \in Seq(Content) /\ Len(a \o c) = k + d
        /\ \A i \in 1 .. k + d : (a \o c)[i] = IF i <= k THEN a[i] ELSE c[i - k]
    BY <2>7, ConcatProperties
  <2>9. k + d = n
    BY <1>2, <2>3
  <2>10. \A i \in 1 .. n : b[i] = (a \o c)[i]
    <3> TAKE i \in 1 .. n
    <3>1. CASE i <= k
      BY <2>5, <2>8, <2>9, <3>1
    <3>2. CASE ~(i <= k)
      <4>1. PICK j \in 1 .. d : j = i - k /\ i = k + j
        BY <2>9, <3>2
      <4> QED BY <2>5, <2>8, <2>9, <3>2, <4>1
    <3> QED BY <3>1, <3>2
  <2>11. b = a \o c
    BY <2>7, <2>8, <2>9, <2>10, SeqEqual
  <2> QED BY <2>6, <2>7, <2>11 DEF Begins
<1> QED BY <1>4, <1>5

\* What the first messages carry is the beginning of what one more message and they carry.
LEMMA CarriedBegins ==
  ASSUME NEW s \in Seq(Message), NEW k \in Nat, NEW n \in Nat, n = k + 1, n <= Len(s)
  PROVE  Begins(CarriedOf(s, k), CarriedOf(s, n), Content)
<1>1. /\ s[n].contents \in Seq(Content)
      /\ CarriedOf(s, n) = CarriedOf(s, k) \o s[n].contents
  BY CarriedMore
<1> QED BY <1>1 DEF Begins

\* The kinds of a message and what it holds are of the right type.
LEMMA MessageIs ==
  ASSUME NEW s \in Seq(Message), NEW n \in 1 .. Len(s)
  PROVE  s[n].bytes \in Seq(Symbol) /\ s[n].contents \in Seq(Content)
<1>1. s[n] \in Message
  BY ElementOfSeq
<1> QED BY <1>1 DEF Message

-----------------------------------------------------------------------------
(* How far a connection is. *)

\* Every message that was sent is served, and of the last one nothing but the rest of a
\* line end is left.
Idle ==
  /\ sent = done
  /\ parser.type = "INVALID"
  /\ pc = "recv"
  /\ calls = CarriedOf(script, done)
  /\ LeftBehind(script, done, parser.pkts \o wire)

\* One more was sent, and its header has not arrived.
Awaiting ==
  /\ sent = done + 1
  /\ parser.type = "INVALID"
  /\ pc = "recv"
  /\ calls = CarriedOf(script, done)
  /\ \E g : LeftBehind(script, done, g) /\ Joined(parser.pkts, wire, g, script[sent].bytes)

\* The first k of the packets of the message behind the first d of s, which is for u, were handed
\* over, and the parser p is behind them.
Serves(s, d, p, w, cs, u, packs, k) ==
  /\ u \in Urls /\ k \in Nat /\ k <= Len(packs)
  /\ p.type = s[d + 1].kind
  /\ p.type \in {"NORMAL", "CHUNK", "BOUNDARY"} /\ PacketsOf(p.type, packs)
  /\ s[d + 1].contents = ServedWith(u, packs, Len(packs))
  /\ cs = CarriedOf(s, d) \o ServedWith(u, packs, k)
  /\ IsBehind(p, w, packs, k)

\* deserialize finds u in the header h, but for what a streamed message may leave in front of it.
Decodes(s, d, h, u) ==
  Deserialize(h) \in {u, NoUrl} /\ (AllNormal(s, d) => Deserialize(h) = u)

\* Where the coroutine is then.
Placed(u, packs, k) ==
  /\ url \in {u, NoUrl}
  /\ pc = "arrived" /\ url = NoUrl => k = 0 /\ Decodes(script, done, parser.header, u)
  /\ pc = "routine" => k # 0 /\ content = packs[k]
  /\ pc # "routine" => k < Len(packs)

\* The message is being served.
Serving ==
  /\ sent = done + 1
  /\ pc \in {"recv", "arrived", "dispatch", "routine"}
  /\ \E u, packs, k : Serves(script, done, parser, wire, calls, u, packs, k) /\ Placed(u, packs, k)

\* The parser knows an upgrade, and no routine is called any more.
OnSocket ==
  /\ parser.type = "WEBSOCKET"
  /\ pc # "routine"
  /\ ~AllNormal(script, sent)
  /\ Begins(calls, CarriedOf(script, sent), Content)

\* One of these.
Talk == Idle \/ Awaiting \/ Serving \/ OnSocket

\* Why a connection may be closed.
Excused == ~verdict \/ gone \/ \E i \in DOMAIN replies : replies[i] = "404"

\* A connection whose peer sends as this library does is in one of these states until it is closed.
Conversing ==
  AllWell(script, sent) =>
    /\ pc # "closed" => Talk
    /\ pc = "closed" => /\ Begins(calls, CarriedOf(script, sent), Content)
                        /\ (AllNormal(script, sent) => Excused)

\* The answer to an upgrade is sent while the parser knows it.
Switches ==
  /\ pc # "closed" /\ (mode = "ws" \/ pc \in {"wsopen", "wsevent"} \/ \E i \in DOMAIN replies : replies[i] = "101")
       => parser.type = "WEBSOCKET"
  /\ pc = "routine" => parser.type # "WEBSOCKET"

\* What was delivered is the beginning of what was promised.
LEMMA TalkBegins ==
  ASSUME IInv, Talk
  PROVE  Begins(calls, CarriedOf(script, sent), Content)
<1>1. script \in Seq(Message) /\ sent \in Nat /\ sent <= Len(script) /\ done \in Nat
  BY ScriptAssumption, LenProperties DEF IInv, TypeOK
<1>2. CASE Idle
  <2>1. CarriedOf(script, sent) \in Seq(Content)
    BY <1>1, CarriedMore
  <2> QED BY <1>2, <2>1, BeginsItself DEF Idle
<1>3. CASE Awaiting
  BY <1>1, <1>3, CarriedBegins DEF Awaiting
<1>4. CASE Serving
  <2>1. PICK u, packs, k : Serves(script, done, parser, wire, calls, u, packs, k)
    BY <1>4 DEF Serving
  <2>2. sent = done + 1
    BY <1>4 DEF Serving
  <2>3. PICK m \in Seq(Content) : m = script[sent].contents
    <3>1. sent \in 1 .. Len(script)
      BY <1>1, <2>2
    <3> QED BY <1>1, <3>1, MessageIs
  <2>4. CarriedOf(script, done) \in Seq(Content) /\ CarriedOf(script, sent) = CarriedOf(script, done) \o m
    BY <1>1, <2>2, <2>3, CarriedMore
  <2>5. /\ packs \in Seq(Seq(Payload)) /\ Seq(Payload) \subseteq Seq(Symbol)
        /\ u \in Urls /\ k \in Nat /\ k <= Len(packs)
    <3>1. Seq(Payload) \subseteq Seq(Symbol)
      BY BodySymbols, SeqWider
    <3> QED BY <2>1, <3>1 DEF Serves, PacketsOf
  <2>6. /\ ServedWith(u, packs, k) \in Seq(Content)
        /\ Begins(ServedWith(u, packs, k), ServedWith(u, packs, Len(packs)), Content)
    BY <2>5, ServedBegins
  <2>7. ServedWith(u, packs, Len(packs)) = m /\ calls = CarriedOf(script, done) \o ServedWith(u, packs, k)
    BY <2>1, <2>2, <2>3 DEF Serves
  <2> QED BY <2>4, <2>6, <2>7, BeginsBehind
<1>5. CASE OnSocket
  BY <1>5 DEF OnSocket
<1> QED BY <1>2, <1>3, <1>4, <1>5 DEF Talk

\* Taking a body keeps the type.
LEMMA TakeKeepsType ==
  ASSUME NEW p \in Parser, p.type \in {"NORMAL", "CHUNK", "BOUNDARY"}, p.type = "NORMAL" => p.bodyBytes >= 0
  PROVE  Take(p).p.type = p.type
<1>1. CASE p.type = "NORMAL"
  <2>1. Take(p) = GetContent(p)
    BY <1>1 DEF Take
  <2> QED BY <1>1, <2>1, GetContentResult
<1>2. CASE p.type = "CHUNK"
  <2>1. Take(p) = GetChunk(p)
    BY <1>2 DEF Take
  <2> QED BY <2>1, GetChunkResult
<1>3. CASE p.type = "BOUNDARY"
  <2>1. Take(p) = GetBoundary(p)
    BY <1>3 DEF Take
  <2> QED BY <2>1, GetBoundaryResult
<1> QED BY <1>1, <1>2, <1>3

\* The type that a body is taken for.
LEMMA DispatchType ==
  ASSUME IInv, Dispatch
  PROVE  /\ parser.type \in {"NORMAL", "CHUNK", "BOUNDARY"} /\ parser'.type = parser.type
         /\ parser \in Parser /\ url # NoUrl /\ url \in Urls /\ handler = Route[url] /\ handler # NoRoutine
         /\ parser.type # "CHUNK" => parser.chunkBytes = -1
         /\ parser.type = "NORMAL" => parser.bodyBytes >= 0
<1>1. /\ pc = "dispatch" /\ parser.type # "WEBSOCKET" /\ parser' = Take(parser).p
  BY DEF Dispatch
<1>2. /\ parser \in Parser /\ parser.type \in Types /\ parser.type # "INVALID"
      /\ parser.type = "NORMAL" => parser.bodyBytes >= 0
      /\ parser.type # "CHUNK" => parser.chunkBytes = -1
      /\ url # NoUrl /\ url \in Urls /\ handler = Route[url] /\ handler # NoRoutine
  BY <1>1 DEF IInv, TypeOK, Consistent, Parser
<1>3. parser.type \in {"NORMAL", "CHUNK", "BOUNDARY"}
  BY <1>1, <1>2 DEF Types
<1> QED BY <1>1, <1>2, <1>3, TakeKeepsType

\* What a received packet does to the parser.
LEMMA PushedType ==
  ASSUME IInv, NEW n \in Nat, n <= Len(wire)
  PROVE  /\ Push(parser, Read(wire, n)) \in Parser /\ Push(parser, Read(wire, n)).type = parser.type
         /\ Push(parser, Read(wire, n)).boundary = parser.boundary
         /\ Push(parser, Read(wire, n)).bodyBytes = parser.bodyBytes
         /\ Push(parser, Read(wire, n)).chunkBytes = parser.chunkBytes
         /\ Push(parser, Read(wire, n)).pkts \o Consume(wire, n) = parser.pkts \o wire
<1>1. parser \in Parser /\ wire \in Seq(Symbol)
  BY DEF IInv, TypeOK
<1>2. n \in 0 .. Len(wire)
  BY <1>1, LenProperties
<1>3. Read(wire, n) \in Seq(Symbol)
  BY <1>1, <1>2, ReadAndLeft
<1> QED BY <1>1, <1>2, <1>3, PushType, ReceivedSame

\* There is no answer at first.
LEMMA InitSwitches == Init => Switches

BY DEF Init, Switches

\* An answer is only sent for an upgrade, and only a request that is served forgets its type.
LEMMA NextSwitches == IInv /\ Switches /\ [Next]_vars => Switches'
<1> SUFFICES ASSUME IInv, Switches, [Next]_vars PROVE Switches'
  OBVIOUS
<1>1. CASE PeerSend \/ PeerClose \/ Ended \/ UNCHANGED vars
  <2>1. UNCHANGED <<pc, parser, mode, replies>>
    BY <1>1 DEF PeerSend, SendNext, PeerClose, Ended, vars, conn, hist
  <2> QED BY <2>1 DEF Switches
<1>2. ASSUME NEW n \in 1 .. RecvMax, OnHttpRecv(n) PROVE Switches'
  <2> DEFINE p == Push(parser, Read(wire, n))
             r == IF p.type = "INVALID" THEN ParseHeader(p) ELSE Result("OK", Null, p)
  <2>1. /\ pc = "recv" /\ mode = "http" /\ n <= Len(wire) /\ parser' = r.p /\ UNCHANGED <<mode, hist>>
        /\ pc' \in {"closed", "recv", "arrived"}
    BY <1>2 DEF OnHttpRecv, Close
  <2>2. p.type = parser.type
    <3>1. n \in Nat
      BY RecvMaxAssumption
    <3> QED BY <2>1, <3>1, PushedType
  <2>3. parser.type = "WEBSOCKET" => parser'.type = "WEBSOCKET"
    BY <2>1, <2>2 DEF Result
  <2> HIDE DEF r
  <2> QED BY <2>1, <2>3 DEF Switches, hist
<1>3. CASE RecvFail
  BY <1>3 DEF RecvFail, Close, Switches
<1>4. CASE Identify
  <2>1. \/ pc' = "closed"
        \/ pc = "arrived" /\ pc' = "dispatch" /\ UNCHANGED <<parser, mode, replies>>
    BY <1>4 DEF Identify, Close
  <2>2. CASE pc' = "closed"
    BY <2>2 DEF Switches
  <2>3. CASE pc = "arrived" /\ pc' = "dispatch" /\ UNCHANGED <<parser, mode, replies>>
    BY <2>3 DEF Switches
  <2> QED BY <2>1, <2>2, <2>3
<1>5. CASE Dispatch
  <2>1. parser'.type = parser.type /\ parser.type # "WEBSOCKET"
    BY <1>5, DispatchType
  <2>2. pc = "dispatch" /\ UNCHANGED <<mode, replies>>
    BY <1>5 DEF Dispatch
  <2>3. pc' \notin {"wsopen", "wsevent"}
    BY <1>5 DEF Dispatch, Close
  <2> QED BY <2>1, <2>2, <2>3 DEF Switches
<1>6. CASE OnWebSocket
  <2>1. parser.type = "WEBSOCKET" /\ parser' = parser /\ pc' # "routine"
    BY <1>6 DEF OnWebSocket, Close, Switch
  <2> QED BY <2>1 DEF Switches
<1>7. CASE OnWsRecv
  <2>1. /\ pc = "recv" /\ mode = "ws" /\ UNCHANGED <<parser, mode>> /\ pc' # "routine"
    BY <1>7 DEF OnWsRecv, Close
  <2> QED BY <2>1 DEF Switches
<1>8. ASSUME NEW keep \in BOOLEAN, RoutineReturn(keep) PROVE Switches'
  <2>1. pc = "routine" /\ pc' \in {"closed", "recv", "dispatch"} /\ UNCHANGED <<mode, replies>>
    BY <1>8 DEF RoutineReturn, Close
  <2>2. parser.type # "WEBSOCKET"
    BY <2>1 DEF Switches
  <2> QED BY <2>1, <2>2 DEF Switches
<1>9. ASSUME NEW keep \in BOOLEAN, WsOpenReturn(keep) \/ WsEventReturn(keep) PROVE Switches'
  <2>1. pc \in {"wsopen", "wsevent"} /\ pc' = "recv" /\ parser' = parser
    BY <1>9 DEF WsOpenReturn, WsEventReturn
  <2> QED BY <2>1 DEF Switches
<1> QED BY <1>1, <1>2, <1>3, <1>4, <1>5, <1>6, <1>7, <1>8, <1>9 DEF Next, Coroutine, Application

\* The peer waits for the answer to what it sent, unless the parser knows an upgrade.
LEMMA SendsWhen ==
  ASSUME IInv, Switches, PeerSend
  PROVE  sent = done \/ pc = "closed" \/ parser.type = "WEBSOCKET"

BY DEF PeerSend, Switches

\* The type of the history.
LEMMA HistoryType ==
  ASSUME IInv
  PROVE  /\ script \in Seq(Message) /\ sent \in Nat /\ sent <= Len(script) /\ done \in Nat
         /\ parser \in Parser /\ wire \in Seq(Symbol) /\ calls \in Seq(Content)

BY ScriptAssumption, LenProperties DEF IInv, TypeOK

\* The peer sends its next message.
LEMMA SendConversing ==
  ASSUME IInv, Switches, Conversing, PeerSend
  PROVE  Conversing'
<1>1. /\ sent < Len(script) /\ wire' = wire \o script[sent + 1].bytes /\ sent' = sent + 1
      /\ UNCHANGED <<script, gone, conn, hist>>
  BY DEF PeerSend, SendNext
<1>2. PICK s \in Seq(Message) : s = script
  BY HistoryType
<1>3. PICK n \in Nat, j \in Nat : n = sent /\ j = n + 1
  BY HistoryType
<1>4. j <= Len(s) /\ j \in 1 .. Len(s)
  <2>1. Len(s) \in Nat
    BY LenProperties
  <2> QED BY <1>1, <1>2, <1>3, <2>1
<1>5. SUFFICES ASSUME AllWell(s, j)
               PROVE  /\ pc # "closed" => Talk'
                      /\ pc = "closed" => /\ Begins(calls, CarriedOf(s, j), Content)
                                          /\ (AllNormal(s, j) => Excused)
  BY <1>1, <1>2, <1>3 DEF Conversing, Excused, conn, hist
<1>6. AllWell(s, n) /\ (AllNormal(s, j) => AllNormal(s, n))
  BY <1>3, <1>5 DEF AllWell, AllNormal
<1>7. Begins(CarriedOf(s, n), CarriedOf(s, j), Content)
  BY <1>3, <1>4, CarriedBegins
<1>8. calls \in Seq(Content)
  BY HistoryType
<1>9. CASE pc = "closed"
  <2>1. Begins(calls, CarriedOf(s, n), Content) /\ (AllNormal(s, n) => Excused)
    BY <1>2, <1>3, <1>6, <1>9 DEF Conversing
  <2>2. Begins(calls, CarriedOf(s, j), Content)
    BY <1>7, <1>8, <2>1, BeginsOnward
  <2> QED BY <1>6, <1>9, <2>1, <2>2
<1>10. CASE pc # "closed"
  <2>1. Talk
    BY <1>2, <1>3, <1>6, <1>10 DEF Conversing
  <2>2. CASE Idle
    <3> DEFINE g == parser.pkts \o wire
    <3>1. /\ sent = done /\ parser.type = "INVALID" /\ pc = "recv" /\ calls = CarriedOf(script, done)
          /\ LeftBehind(script, done, g)
      BY <2>2 DEF Idle
    <3>2. parser.pkts \in Seq(Symbol) /\ wire \in Seq(Symbol) /\ s[j].bytes \in Seq(Symbol)
      BY <1>4, HistoryType, MessageIs DEF Parser
    <3>3. parser.pkts \o (wire \o s[j].bytes) = g \o s[j].bytes
      BY <3>2, Together
    <3>4. Joined(parser.pkts, wire', g, script[sent'].bytes)
      BY <1>1, <1>2, <1>3, <3>3 DEF Joined
    <3> HIDE DEF g
    <3>5. \E h : LeftBehind(script, done, h) /\ Joined(parser.pkts, wire', h, script[sent'].bytes)
      BY <3>1, <3>4
    <3>6. /\ script' = script /\ done' = done /\ parser' = parser /\ pc' = pc /\ calls' = calls
          /\ sent' = done + 1
      BY <1>1, <3>1 DEF conn, hist
    <3>7. Awaiting'
      BY <3>1, <3>5, <3>6 DEF Awaiting
    <3> QED BY <1>10, <3>7 DEF Talk
  <2>3. CASE OnSocket
    <3>1. Begins(calls, CarriedOf(s, n), Content) /\ ~AllNormal(s, n)
      BY <1>2, <1>3, <2>3 DEF OnSocket
    <3>2. Begins(calls, CarriedOf(s, j), Content)
      BY <1>7, <1>8, <3>1, BeginsOnward
    <3>3. OnSocket'
      BY <1>1, <1>2, <1>3, <1>6, <2>3, <3>1, <3>2 DEF OnSocket, conn, hist
    <3> QED BY <1>10, <3>3 DEF Talk
  <2>4. CASE Awaiting \/ Serving
    <3>1. sent = done + 1 /\ parser.type # "WEBSOCKET"
      BY <2>4 DEF Awaiting, Serving, Serves
    <3>2. done \in Nat
      BY HistoryType
    <3> QED BY <1>10, <3>1, <3>2, SendsWhen
  <2> QED BY <2>1, <2>2, <2>3, <2>4 DEF Talk
<1> QED BY <1>9, <1>10

\* The peer leaves, or nothing happens.
LEMMA QuietConversing ==
  ASSUME Conversing, PeerClose \/ Ended \/ UNCHANGED vars
  PROVE  Conversing'
<1>1. UNCHANGED <<script, sent, wire, pc, parser, url, content, calls, done, replies, verdict>> /\ (gone => gone')
  BY DEF PeerClose, Ended, vars, peer, conn, hist
<1>2. (Idle => Idle') /\ (Awaiting => Awaiting') /\ (OnSocket => OnSocket')
  BY <1>1 DEF Idle, Awaiting, OnSocket
<1>3. Serving => Serving'
  BY <1>1 DEF Serving, Placed
<1>4. Talk => Talk'
  BY <1>2, <1>3 DEF Talk
<1>5. Excused => Excused'
  BY <1>1 DEF Excused
<1> QED BY <1>1, <1>4, <1>5 DEF Conversing

\* A step that closes the connection for a reason keeps what was delivered.
LEMMA CloseConversing ==
  ASSUME IInv, Conversing, pc # "closed", pc' = "closed", UNCHANGED <<script, sent, calls>>,
         AllWell(script, sent) /\ Talk /\ AllNormal(script, sent) => Excused'
  PROVE  Conversing'
<1> SUFFICES ASSUME AllWell(script, sent)
             PROVE  /\ Begins(calls, CarriedOf(script, sent), Content)
                    /\ (AllNormal(script, sent) => Excused')
  BY DEF Conversing
<1>1. Talk
  BY DEF Conversing
<1> QED BY <1>1, TalkBegins

\* The request is known, and the parser is in front of its packets.
Accepted(r, w, c, kind, u, packs) ==
  /\ r.ret = "OK" /\ r.p.type = kind
  /\ Deserialize(r.p.header) = IF c = 2 THEN NoUrl ELSE u
  /\ kind # "WEBSOCKET" => PacketsOf(kind, packs) /\ IsBehind(r.p, w, packs, 0)

\* What the parser makes of the packets so far: nothing before the header of a message is complete,
\* and then what the message is.
LEMMA WaitingReads ==
  ASSUME NEW p \in Parser, p.type = "INVALID", p.boundary = NoBoundary, p.chunkBytes = -1,
         NEW w \in Seq(Symbol), NEW s, NEW d, NEW g, LeftBehind(s, d, g),
         NEW m, WellSent(m), Joined(p.pkts, w, g, m.bytes)
  PROVE  \/ StillWaits(p)
         \/ \E c, u, packs : /\ Accepted(ParseHeader(p), w, c, m.kind, u, packs) /\ u \in Urls
                             /\ m.kind \in {"NORMAL", "CHUNK", "BOUNDARY", "WEBSOCKET"}
                             /\ m.contents = ServedWith(u, packs, Len(packs))
                             /\ (AllNormal(s, d) => c # 2)
<1>1. g \in Junk /\ (AllNormal(s, d) => g = <<>>)
  BY DEF LeftBehind
<1>2. CASE FrameMessage(m)
  BY <1>1, <1>2, JunkWaits
<1>3. ASSUME NEW u, NEW b, NEW packs, NEW h, NEW rest, u \in Urls,
             SentAs(m.bytes, m.kind, Line(u), b, packs, h, rest), m.contents = ServedWith(u, packs, Len(packs))
      PROVE  \/ StillWaits(p)
             \/ \E c : /\ Accepted(ParseHeader(p), w, c, m.kind, u, packs) /\ u \in Urls
                       /\ m.kind \in {"NORMAL", "CHUNK", "BOUNDARY", "WEBSOCKET"}
                       /\ m.contents = ServedWith(u, packs, Len(packs))
                       /\ (AllNormal(s, d) => c # 2)
  <2>1. PICK c : c = Len(g)
    OBVIOUS
  <2>2. AllNormal(s, d) => c # 2
    <3>1. Len(<<>>) = 0
      OBVIOUS
    <3> QED BY <1>1, <2>1, <3>1
  <2>3. \/ ParseHeader(p).ret = "CONTINUE" /\ ParseHeader(p).p = p
        \/ HeaderKnown(ParseHeader(p), w, c, m.kind, Line(u), packs)
    BY <1>1, <1>3, <2>1, HeaderIsKnown
  <2>4. m.kind \in {"NORMAL", "CHUNK", "BOUNDARY", "WEBSOCKET"}
    BY <1>3 DEF SentAs
  <2>5. ASSUME HeaderKnown(ParseHeader(p), w, c, m.kind, Line(u), packs)
        PROVE  Accepted(ParseHeader(p), w, c, m.kind, u, packs)
    <3>1. Deserialize(ParseHeader(p).p.header) = IF c = 2 THEN NoUrl ELSE u
      BY <2>5, DeserializeFirst DEF HeaderKnown
    <3> QED BY <2>5, <3>1 DEF HeaderKnown, Accepted
  <2> QED BY <1>3, <2>2, <2>3, <2>4, <2>5 DEF StillWaits
<1> QED BY <1>2, <1>3, WellSentAs

\* More has arrived.
LEMMA RecvConversing ==
  ASSUME IInv, Switches, Conversing, NEW n \in 1 .. RecvMax, OnHttpRecv(n)
  PROVE  Conversing'
<1> DEFINE p == Push(parser, Read(wire, n))
           w == Consume(wire, n)
           r == IF p.type = "INVALID" THEN ParseHeader(p) ELSE Result("OK", Null, p)
<1>1. /\ pc = "recv" /\ n <= Len(wire) /\ wire' = w /\ parser' = r.p
      /\ r.ret = "CONTINUE" => pc' = pc
      /\ r.ret = "OK" => pc' = "arrived"
      /\ UNCHANGED <<script, sent, gone, url, handler, mode, content, hist>>
  BY DEF OnHttpRecv
<1>2. n \in Nat
  BY RecvMaxAssumption
<1>3. /\ p \in Parser /\ p.type = parser.type /\ p.boundary = parser.boundary
      /\ p.bodyBytes = parser.bodyBytes /\ p.chunkBytes = parser.chunkBytes
      /\ p.pkts \o w = parser.pkts \o wire
  BY <1>1, <1>2, PushedType
<1>4. w \in Seq(Symbol)
  <2>1. n \in 0 .. Len(wire) /\ wire \in Seq(Symbol)
    BY <1>1, <1>2, HistoryType, LenProperties
  <2> QED BY <2>1, ReadAndLeft
<1>5. /\ p.type = "INVALID" => r = ParseHeader(p)
      /\ p.type # "INVALID" => r.ret = "OK" /\ r.p = p
  BY DEF Result
<1> HIDE DEF p, w, r
<1>6. /\ parser.type = "INVALID" <=> url = NoUrl
      /\ parser.type = "INVALID" => parser.boundary = NoBoundary /\ parser.chunkBytes = -1
  BY <1>1 DEF IInv, Consistent
<1>7. UNCHANGED <<script, sent, url, content, calls, done>>
  BY <1>1 DEF hist
<1>8. SUFFICES ASSUME AllWell(script, sent), Talk
               PROVE  pc' \in {"recv", "arrived"} /\ Talk'
  BY <1>1, <1>7 DEF Conversing
<1>9. done \in Nat /\ script \in Seq(Message) /\ sent \in Nat
  BY HistoryType
<1>10. CASE Idle
  <2>1. parser.type = "INVALID" /\ LeftBehind(script, done, parser.pkts \o wire)
    BY <1>10 DEF Idle
  <2>2. StillWaits(p)
    <3>1. PICK g \in Junk : g = parser.pkts \o wire
      BY <2>1 DEF LeftBehind
    <3>2. Makes(p.pkts, w, g)
      BY <1>3, <3>1 DEF Makes
    <3> QED BY <1>3, <1>4, <2>1, <3>2, JunkWaits
  <2>3. parser' = p /\ pc' = pc
    BY <1>1, <1>3, <1>5, <2>1, <2>2 DEF StillWaits
  <2>4. Idle'
    BY <1>1, <1>3, <1>7, <1>10, <2>1, <2>3 DEF Idle
  <2> QED BY <1>1, <2>3, <2>4 DEF Talk
<1>11. CASE Awaiting
  <2>1. /\ sent = done + 1 /\ parser.type = "INVALID" /\ calls = CarriedOf(script, done)
    BY <1>11 DEF Awaiting
  <2> DEFINE m == script[sent]
  <2>2. PICK g : LeftBehind(script, done, g) /\ Joined(parser.pkts, wire, g, m.bytes)
    BY <1>11 DEF Awaiting
  <2>3. Joined(p.pkts, w, g, m.bytes)
    BY <1>3, <2>2 DEF Joined
  <2>4. WellSent(m)
    <3>1. sent \in 1 .. sent
      BY <1>9, <2>1
    <3> QED BY <1>8, <3>1 DEF AllWell
  <2> HIDE DEF m
  <2>5. /\ p.type = "INVALID" /\ p.boundary = NoBoundary /\ p.chunkBytes = -1 /\ url = NoUrl
        /\ r = ParseHeader(p)
    BY <1>3, <1>5, <1>6, <2>1
  <2>6. CASE StillWaits(p)
    <3>1. parser' = p /\ pc' = pc
      BY <1>1, <2>5, <2>6 DEF StillWaits
    <3>2. \E h : LeftBehind(script, done, h) /\ Joined(p.pkts, w, h, script[sent].bytes)
      BY <2>2, <2>3 DEF m
    <3>3. Awaiting'
      BY <1>1, <1>7, <2>1, <2>5, <3>1, <3>2 DEF Awaiting
    <3> QED BY <1>1, <3>1, <3>3 DEF Talk
  <2>7. ASSUME NEW c, NEW u, NEW packs, Accepted(ParseHeader(p), w, c, m.kind, u, packs), u \in Urls,
               m.kind \in {"NORMAL", "CHUNK", "BOUNDARY", "WEBSOCKET"},
               m.contents = ServedWith(u, packs, Len(packs)),
               AllNormal(script, done) => c # 2
        PROVE  pc' \in {"recv", "arrived"} /\ Talk'
    <3>1. /\ pc' = "arrived" /\ parser'.type = m.kind
          /\ Deserialize(parser'.header) = IF c = 2 THEN NoUrl ELSE u
          /\ m.kind # "WEBSOCKET" => PacketsOf(m.kind, packs) /\ IsBehind(parser', wire', packs, 0)
      BY <1>1, <2>5, <2>7 DEF Accepted
    <3>2. CASE m.kind = "WEBSOCKET"
      <4>1. ~AllNormal(script, sent)
        <5>1. sent \in 1 .. sent
          BY <1>9, <2>1
        <5> QED BY <3>2, <5>1 DEF AllNormal, m
      <4>2. Begins(calls, CarriedOf(script, sent), Content)
        BY <1>8, TalkBegins
      <4>3. OnSocket'
        BY <1>7, <3>1, <3>2, <4>1, <4>2 DEF OnSocket
      <4> QED BY <3>1, <4>3 DEF Talk
    <3>3. CASE m.kind # "WEBSOCKET"
      <4>1. PacketsOf(m.kind, packs) /\ IsBehind(parser', wire', packs, 0)
        BY <3>1, <3>3
      <4>2. 0 < Len(packs) /\ 0 <= Len(packs)
        BY <4>1 DEF PacketsOf
      <4>3. calls = CarriedOf(script, done) \o ServedWith(u, packs, 0)
        <5>1. ServedWith(u, packs, 0) = <<>>
          <6>1. [i \in 1 .. 0 |-> <<Route[u], packs[i]>>] = <<>>
            OBVIOUS
          <6> QED BY <6>1 DEF ServedWith
        <5>2. CarriedOf(script, done) \in Seq(Content)
          BY <2>1, HistoryType
        <5> QED BY <2>1, <5>1, <5>2, ConcatEmptySeq
      <4>4. Serves(script, done, parser', wire', calls, u, packs, 0)
        <5>1. script[done + 1] = m
          BY <2>1 DEF m
        <5> QED BY <2>7, <3>1, <3>3, <4>1, <4>2, <4>3, <5>1 DEF Serves
      <4>5. Decodes(script, done, parser'.header, u)
        BY <2>7, <3>1 DEF Decodes
      <4>6. Placed(u, packs, 0)'
        BY <1>7, <2>5, <3>1, <4>2, <4>5 DEF Placed
      <4>7. Serving'
        <5>1. \E v, x, k : Serves(script, done, parser', wire', calls, v, x, k) /\ Placed(v, x, k)'
          BY <4>4, <4>6
        <5> QED BY <1>7, <2>1, <3>1, <5>1 DEF Serving
      <4> QED BY <3>1, <4>7 DEF Talk
    <3> QED BY <3>2, <3>3
  <2> QED BY <1>4, <1>3, <2>2, <2>3, <2>4, <2>5, <2>6, <2>7, WaitingReads
<1>12. CASE Serving
  <2>1. PICK u, packs, k : Serves(script, done, parser, wire, calls, u, packs, k) /\ Placed(u, packs, k)
    BY <1>12 DEF Serving
  <2>2. p.type # "INVALID" /\ parser' = p /\ pc' = "arrived" /\ url # NoUrl
    BY <1>1, <1>3, <1>5, <1>6, <2>1 DEF Serves
  <2>3. IsBehind(p, w, packs, k)
    BY <1>3, <2>1, BehindKept DEF Serves
  <2>4. Serves(script, done, parser', wire', calls, u, packs, k)
    BY <1>1, <1>3, <2>1, <2>2, <2>3 DEF Serves
  <2>5. Placed(u, packs, k)'
    BY <1>1, <1>7, <2>1, <2>2 DEF Placed
  <2>6. Serving'
    BY <1>7, <1>12, <2>2, <2>4, <2>5 DEF Serving
  <2> QED BY <2>2, <2>6 DEF Talk
<1>13. CASE OnSocket
  <2>1. p.type # "INVALID" /\ parser' = p /\ pc' = "arrived" /\ p.type = "WEBSOCKET"
    BY <1>1, <1>3, <1>5, <1>13 DEF OnSocket
  <2>2. OnSocket'
    BY <1>7, <1>13, <2>1 DEF OnSocket
  <2> QED BY <2>1, <2>2 DEF Talk
<1> QED BY <1>8, <1>10, <1>11, <1>12, <1>13 DEF Talk

\* A piece of the proof state that closing steps share: nothing was sent or delivered.
LEMMA FailConversing ==
  ASSUME IInv, Conversing, RecvFail
  PROVE  Conversing'
<1>1. /\ pc = "recv" /\ gone /\ pc' = "closed" /\ UNCHANGED <<script, sent, calls, gone>>
  BY DEF RecvFail, Close, peer, hist
<1>2. Excused'
  BY <1>1 DEF Excused
<1> QED BY <1>1, <1>2, CloseConversing

\* The request is decoded.
LEMMA IdentifyConversing ==
  ASSUME IInv, Conversing, Identify
  PROVE  Conversing'
<1>1. /\ pc = "arrived" /\ pc' \in {"closed", "dispatch"}
      /\ UNCHANGED <<peer, mode, content, calls, done, events, verdict>>
      /\ pc' = "dispatch" => /\ parser' = parser
                             /\ \/ url' = url /\ url # NoUrl
                                \/ url = NoUrl /\ url' = Deserialize(parser.header) /\ url' # NoUrl
      /\ pc' = "closed" => /\ url = NoUrl
                           /\ \/ Deserialize(parser.header) = NoUrl
                              \/ replies' = Append(replies, "404")
  BY DEF Identify, Close
<1>2. UNCHANGED <<script, sent, wire, content, calls, done>>
  BY <1>1 DEF peer
<1>3. CASE pc' = "closed"
  <2>1. ASSUME AllWell(script, sent), Talk, AllNormal(script, sent) PROVE Excused'
    <3>1. CASE replies' = Append(replies, "404")
      <4>1. replies \in Seq({"404", "101", "pong"})
        BY DEF IInv, TypeOK
      <4>2. PICK n \in Nat : n = Len(replies)
        BY <4>1, LenProperties
      <4>3. /\ replies' \in Seq({"404", "101", "pong"}) /\ Len(replies') = n + 1
            /\ replies'[n + 1] = "404"
        BY <3>1, <4>1, <4>2, AppendProperties
      <4>4. n + 1 \in DOMAIN replies'
        BY <4>2, <4>3, LenProperties
      <4> QED BY <4>3, <4>4 DEF Excused
    <3>2. CASE Deserialize(parser.header) = NoUrl
      <4>1. Serving
        BY <1>1, <2>1 DEF Talk, Idle, Awaiting, OnSocket
      <4>2. PICK u, packs, k : Serves(script, done, parser, wire, calls, u, packs, k) /\ Placed(u, packs, k)
        BY <4>1 DEF Serving
      <4>3. u \in Urls /\ Decodes(script, done, parser.header, u)
        BY <1>1, <1>3, <4>2 DEF Serves, Placed
      <4>4. sent = done + 1 /\ done \in Nat
        BY <4>1, HistoryType DEF Serving
      <4>5. AllNormal(script, done)
        BY <2>1, <4>4 DEF AllNormal
      <4>6. u # NoUrl
        BY <4>3, RouteAssumption
      <4> QED BY <3>2, <4>3, <4>5, <4>6 DEF Decodes
    <3> QED BY <1>1, <1>3, <3>1, <3>2
  <2> QED BY <1>1, <1>2, <1>3, <2>1, CloseConversing
<1>4. CASE pc' = "dispatch"
  <2>1. SUFFICES ASSUME AllWell(script, sent), Talk
                 PROVE  Talk'
    BY <1>1, <1>2, <1>4 DEF Conversing
  <2>2. CASE Serving
    <3>1. PICK u, packs, k : Serves(script, done, parser, wire, calls, u, packs, k) /\ Placed(u, packs, k)
      BY <2>2 DEF Serving
    <3>2. url' = u
      BY <1>1, <1>4, <3>1 DEF Placed, Decodes
    <3>3. Placed(u, packs, k)'
      BY <1>1, <1>2, <1>4, <3>1, <3>2 DEF Placed
    <3>4. Serves(script', done', parser', wire', calls', u, packs, k)
      BY <1>1, <1>2, <1>4, <3>1
    <3>5. \E v, x, i : Serves(script', done', parser', wire', calls', v, x, i) /\ Placed(v, x, i)'
      BY <3>3, <3>4
    <3>6. Serving'
      BY <1>2, <1>4, <2>2, <3>5 DEF Serving
    <3> QED BY <3>6 DEF Talk
  <2>3. CASE OnSocket
    <3>1. OnSocket'
      BY <1>1, <1>2, <1>4, <2>3 DEF OnSocket
    <3> QED BY <3>1 DEF Talk
  <2> QED BY <1>1, <2>1, <2>2, <2>3 DEF Talk, Idle, Awaiting
<1> QED BY <1>1, <1>3, <1>4

\* The next packet is taken and handed over, or waited for.
LEMMA DispatchConversing ==
  ASSUME IInv, Conversing, Dispatch
  PROVE  Conversing'
<1> DEFINE r == Take(parser)
<1>1. /\ pc = "dispatch" /\ parser.type # "WEBSOCKET" /\ parser' = r.p
      /\ UNCHANGED <<peer, url, handler, mode, done, replies, events, verdict>>
      /\ r.ret = "CONTINUE" => pc' = "recv" /\ UNCHANGED <<content, calls>>
      /\ r.ret = "OK" => /\ pc' = "routine" /\ content' = r.packet
                         /\ calls' = Append(calls, <<handler, r.packet>>)
      /\ pc' = "closed" => r.ret = "INVALID_ARG" /\ calls' = calls
      /\ pc' \in {"closed", "recv", "routine"}
  BY DEF Dispatch, Close
<1>2. /\ parser.type \in {"NORMAL", "CHUNK", "BOUNDARY"} /\ parser'.type = parser.type
      /\ parser \in Parser /\ url # NoUrl /\ url \in Urls /\ handler = Route[url] /\ handler # NoRoutine
      /\ parser.type # "CHUNK" => parser.chunkBytes = -1
      /\ parser.type = "NORMAL" => parser.bodyBytes >= 0
  BY DispatchType
<1>3. UNCHANGED <<script, sent, wire, done, url>>
  BY <1>1 DEF peer
<1> HIDE DEF r
<1>4. SUFFICES ASSUME AllWell(script, sent), Talk
               PROVE  pc' \in {"recv", "routine"} /\ Talk'
  BY <1>1, <1>3 DEF Conversing
<1>5. Serving
  BY <1>1, <1>4 DEF Talk, Idle, Awaiting, OnSocket
<1>6. PICK u, packs, k : Serves(script, done, parser, wire, calls, u, packs, k) /\ Placed(u, packs, k)
  BY <1>5 DEF Serving
<1>7. /\ k \in Nat /\ k < Len(packs) /\ u \in Urls /\ url = u /\ Route[u] # NoRoutine
      /\ PacketsOf(parser.type, packs) /\ IsBehind(parser, wire, packs, k)
      /\ parser.type = script[done + 1].kind
      /\ script[done + 1].contents = ServedWith(u, packs, Len(packs))
      /\ calls = CarriedOf(script, done) \o ServedWith(u, packs, k)
  BY <1>1, <1>2, <1>6 DEF Serves, Placed
<1>8. Takes(wire, packs, k, r)
  <2>1. wire \in Seq(Symbol)
    BY HistoryType
  <2> QED BY <1>2, <1>7, <2>1, TakeTakes DEF r
<1>9. CASE r.ret = "CONTINUE" /\ IsBehind(r.p, wire, packs, k)
  <2>1. pc' = "recv" /\ calls' = calls
    BY <1>1, <1>9
  <2>2. k <= Len(packs)
    BY <1>6 DEF Serves
  <2>3. Serves(script', done', parser', wire', calls', u, packs, k)
    BY <1>1, <1>2, <1>3, <1>7, <1>9, <2>1, <2>2 DEF Serves
  <2>4. Placed(u, packs, k)'
    BY <1>3, <1>7, <2>1 DEF Placed
  <2>5. \E v, x, i : Serves(script', done', parser', wire', calls', v, x, i) /\ Placed(v, x, i)'
    BY <2>3, <2>4
  <2>6. Serving'
    BY <1>3, <1>5, <2>1, <2>5 DEF Serving
  <2> QED BY <2>1, <2>6 DEF Talk
<1>10. CASE r.ret = "OK" /\ r.packet = packs[k + 1] /\ IsBehind(r.p, wire, packs, k + 1)
  <2>1. PICK j \in Nat : j = k + 1 /\ j # 0
    BY <1>7
  <2>2. j <= Len(packs)
    <3>1. Len(packs) \in Nat
      BY <1>7 DEF PacketsOf
    <3> QED BY <1>7, <2>1, <3>1
  <2>3. /\ pc' = "routine" /\ content' = packs[j]
        /\ calls' = Append(calls, <<Route[u], packs[j]>>)
    BY <1>1, <1>2, <1>7, <1>10, <2>1
  <2>4. calls' = CarriedOf(script, done) \o ServedWith(u, packs, j)
    <3>1. packs \in Seq(Seq(Payload)) /\ Seq(Payload) \subseteq Seq(Symbol)
      BY <1>7, BodySymbols, SeqWider DEF PacketsOf
    <3> DEFINE a == CarriedOf(script, done)
               b == ServedWith(u, packs, k)
               c == <<Route[u], packs[j]>>
    <3>2. b \in Seq(Content) /\ Append(b, c) = ServedWith(u, packs, j)
      BY <1>7, <2>1, <3>1, ServedMore
    <3>3. a \in Seq(Content)
      BY <1>4, <1>7, HistoryType, CarriedMore, <1>5 DEF Serving
    <3>4. c \in Content
      <4>1. packs[j] \in Seq(Symbol)
        <5>1. j \in 1 .. Len(packs)
          BY <1>7, <2>1, <2>2 DEF PacketsOf
        <5> QED BY <3>1, <5>1, ElementOfSeq
      <4>2. Route[u] \in Routines \cup {NoRoutine}
        BY <1>7, RouteAssumption
      <4> QED BY <4>1, <4>2 DEF Content
    <3>5. calls = a \o b /\ calls' = Append(calls, c) /\ ServedWith(u, packs, j) = Append(b, c)
      BY <1>7, <2>3, <3>2
    <3> HIDE DEF a, b, c
    <3>6. Append(a \o b, c) = a \o Append(b, c)
      <4>1. a \o b \in Seq(Content) /\ <<c>> \in Seq(Content)
        BY <3>2, <3>3, <3>4, ConcatProperties
      <4>2. Append(a \o b, c) = (a \o b) \o <<c>> /\ Append(b, c) = b \o <<c>>
        BY <3>2, <3>4, <4>1, AppendIsConcat
      <4> QED BY <3>2, <3>3, <4>1, <4>2, ConcatAssociative
    <3> QED BY <3>5, <3>6 DEF a
  <2>5. Serves(script', done', parser', wire', calls', u, packs, j)
    BY <1>1, <1>2, <1>3, <1>7, <1>10, <2>1, <2>2, <2>4 DEF Serves
  <2>6. Placed(u, packs, j)'
    BY <1>3, <1>7, <2>1, <2>3 DEF Placed
  <2>7. \E v, x, i : Serves(script', done', parser', wire', calls', v, x, i) /\ Placed(v, x, i)'
    BY <2>5, <2>6
  <2>8. Serving'
    BY <1>3, <1>5, <2>3, <2>7 DEF Serving
  <2> QED BY <2>3, <2>8 DEF Talk
<1> QED BY <1>8, <1>9, <1>10 DEF Takes

\* What a message leaves once all of its packets were handed over.
LEMMA LeftAtEnd ==
  ASSUME NEW s, NEW d \in Nat, NEW p, NEW w, NEW cs, NEW u, NEW packs, NEW k,
         Serves(s, d, p, w, cs, u, packs, k), k # 0,
         p.type = "NORMAL" \/ packs[k] = Null
  PROVE  k = Len(packs) /\ LeftBehind(s, d + 1, p.pkts \o w)
<1>1. /\ k \in Nat /\ k <= Len(packs) /\ PacketsOf(p.type, packs)
      /\ p.type \in {"NORMAL", "CHUNK", "BOUNDARY"} /\ p.type = s[d + 1].kind /\ IsBehind(p, w, packs, k)
  BY DEF Serves
<1>2. /\ k = Len(packs) /\ p.pkts \o w \in Junk
      /\ p.type = "NORMAL" => p.pkts \o w = <<>>
  BY <1>1, EndLeaves
<1>3. AllNormal(s, d + 1) => p.type = "NORMAL"
  <2>1. d + 1 \in 1 .. d + 1
    OBVIOUS
  <2> QED BY <1>1, <2>1 DEF AllNormal
<1> QED BY <1>2, <1>3 DEF LeftBehind

\* The routine returns.
LEMMA ReturnConversing ==
  ASSUME IInv, Conversing, NEW keep \in BOOLEAN, RoutineReturn(keep)
  PROVE  Conversing'
<1>1. /\ pc = "routine" /\ verdict' = keep
      /\ UNCHANGED <<peer, mode, calls, replies, events>>
  BY DEF RoutineReturn
<1>2. UNCHANGED <<script, sent, wire, calls>>
  BY <1>1 DEF peer
<1>3. CASE ~keep
  <2>1. pc' = "closed"
    BY <1>3 DEF RoutineReturn, Close
  <2>2. Excused'
    BY <1>1, <1>3 DEF Excused
  <2> QED BY <1>1, <1>2, <2>1, <2>2, CloseConversing
<1>4. CASE keep
  <2>1. \/ /\ parser.type = "NORMAL" \/ content = Null
           /\ pc' = "recv" /\ parser' = Reset(parser) /\ done' = done + 1
        \/ /\ ~(parser.type = "NORMAL" \/ content = Null)
           /\ pc' = "dispatch" /\ UNCHANGED <<parser, url, handler, done>>
    BY <1>4 DEF RoutineReturn, Clear
  <2>2. SUFFICES ASSUME AllWell(script, sent), Talk
                 PROVE  Talk'
    BY <1>1, <1>2, <2>1 DEF Conversing
  <2>3. Serving
    BY <1>1, <2>2 DEF Talk, Idle, Awaiting, OnSocket
  <2>4. PICK u, packs, k : Serves(script, done, parser, wire, calls, u, packs, k) /\ Placed(u, packs, k)
    BY <2>3 DEF Serving
  <2>5. k # 0 /\ content = packs[k]
    BY <1>1, <2>4 DEF Placed
  <2>6. sent = done + 1 /\ done \in Nat /\ script \in Seq(Message) /\ sent <= Len(script) /\ sent \in Nat
    BY <2>3, HistoryType DEF Serving
  <2>7. CASE (parser.type = "NORMAL" \/ content = Null) /\ pc' = "recv" /\ parser' = Reset(parser) /\ done' = done + 1
    <3>1. k = Len(packs) /\ LeftBehind(script, done + 1, parser.pkts \o wire)
      BY <2>4, <2>5, <2>6, <2>7, LeftAtEnd
    <3>2. parser'.type = "INVALID" /\ parser'.pkts = parser.pkts
      BY <2>7, HistoryType DEF Reset, Parser
    <3>3. calls = CarriedOf(script, sent)
      <4>1. CarriedOf(script, sent) = CarriedOf(script, done) \o script[sent].contents
        BY <2>6, CarriedMore
      <4> QED BY <2>4, <2>6, <3>1, <4>1 DEF Serves
    <3>4. Idle'
      BY <1>2, <2>6, <2>7, <3>1, <3>2, <3>3 DEF Idle
    <3> QED BY <3>4 DEF Talk
  <2>8. CASE ~(parser.type = "NORMAL" \/ content = Null) /\ pc' = "dispatch" /\ UNCHANGED <<parser, url, handler, done>>
    <3>1. k < Len(packs)
      <4>1. k \in Nat /\ k <= Len(packs) /\ Len(packs) \in Nat \ {0} /\ PacketsOf(parser.type, packs)
        BY <2>4 DEF Serves, PacketsOf
      <4>2. k \in 1 .. Len(packs)
        BY <2>5, <4>1
      <4>3. k # Len(packs)
        BY <2>5, <2>8, <4>1, <4>2 DEF PacketsOf
      <4> QED BY <4>1, <4>3
    <3>2. Placed(u, packs, k)'
      BY <2>4, <2>8, <3>1 DEF Placed
    <3>3. Serves(script', done', parser', wire', calls', u, packs, k)
      BY <1>2, <2>4, <2>8
    <3>4. \E v, x, i : Serves(script', done', parser', wire', calls', v, x, i) /\ Placed(v, x, i)'
      BY <3>2, <3>3
    <3>5. Serving'
      BY <1>2, <2>3, <2>8, <3>4 DEF Serving
    <3> QED BY <3>5 DEF Talk
  <2> QED BY <2>1, <2>7, <2>8
<1> QED BY <1>3, <1>4

\* A step of an upgraded connection.
LEMMA UpgradedConversing ==
  ASSUME IInv, Conversing, pc # "closed", pc # "routine", parser.type = "WEBSOCKET", UNCHANGED <<script, sent, calls, parser>>,
         pc' # "routine"
  PROVE  Conversing'
<1>1. Talk => OnSocket
  BY DEF Talk, Idle, Awaiting, Serving, Serves
<1>2. OnSocket => OnSocket'
  BY DEF OnSocket
<1>3. CASE pc' = "closed"
  <2>1. Talk => ~AllNormal(script, sent)
    BY <1>1 DEF OnSocket
  <2> QED BY <1>3, <2>1, CloseConversing
<1>4. CASE pc' # "closed"
  BY <1>1, <1>2, <1>4 DEF Conversing, Talk
<1> QED BY <1>3, <1>4

\* The steps of the upgrade and of the websocket handler.
LEMMA SocketConversing ==
  ASSUME IInv, Switches, Conversing,
         OnWebSocket \/ OnWsRecv \/ \E keep \in BOOLEAN : WsOpenReturn(keep) \/ WsEventReturn(keep)
  PROVE  Conversing'
<1>1. CASE OnWebSocket
  <2>1. pc = "dispatch" /\ parser.type = "WEBSOCKET" /\ UNCHANGED <<script, sent, calls, parser>> /\ pc' # "routine"
    BY <1>1 DEF OnWebSocket, Close, Switch, peer
  <2> QED BY <2>1, UpgradedConversing
<1>2. CASE OnWsRecv
  <2>1. pc = "recv" /\ mode = "ws" /\ UNCHANGED <<script, sent, calls, parser>> /\ pc' # "routine"
    BY <1>2 DEF OnWsRecv, Close
  <2>2. parser.type = "WEBSOCKET"
    BY <2>1 DEF Switches
  <2> QED BY <2>1, <2>2, UpgradedConversing
<1>3. ASSUME NEW keep \in BOOLEAN, WsOpenReturn(keep) \/ WsEventReturn(keep) PROVE Conversing'
  <2>1. pc \in {"wsopen", "wsevent"} /\ UNCHANGED <<script, sent, calls, parser>> /\ pc' = "recv"
    BY <1>3 DEF WsOpenReturn, WsEventReturn, peer
  <2>2. parser.type = "WEBSOCKET"
    BY <2>1 DEF Switches
  <2> QED BY <2>1, <2>2, UpgradedConversing
<1> QED BY <1>1, <1>2, <1>3

\* Before anything is sent nothing is buffered.
LEMMA InitConversing == Init => Conversing
<1> SUFFICES ASSUME Init PROVE Conversing
  OBVIOUS
<1>1. /\ sent = 0 /\ done = 0 /\ pc = "recv" /\ calls = <<>> /\ wire = <<>> /\ script \in Seq(Message)
      /\ parser.type = "INVALID" /\ parser.pkts = <<>>
  BY ScriptAssumption DEF Init, NewParser
<1>2. CarriedOf(script, done) = <<>>
  <2>1. 0 \in Nat /\ 0 <= Len(script)
    BY <1>1, LenProperties
  <2> QED BY <1>1, <2>1, CarriedMore
<1>3. parser.pkts \o wire = <<>>
  BY <1>1
<1>4. LeftBehind(script, done, parser.pkts \o wire)
  BY <1>3 DEF LeftBehind, Junk
<1>5. Idle
  BY <1>1, <1>2, <1>4 DEF Idle
<1> QED BY <1>1, <1>5 DEF Conversing, Talk

\* Every step keeps a connection in one of the states.
LEMMA NextConversing == IInv /\ Switches /\ Conversing /\ [Next]_vars => Conversing'
<1> SUFFICES ASSUME IInv, Switches, Conversing, [Next]_vars PROVE Conversing'
  OBVIOUS
<1>1. CASE PeerSend
  BY <1>1, SendConversing
<1>2. CASE PeerClose \/ Ended \/ UNCHANGED vars
  BY <1>2, QuietConversing
<1>3. ASSUME NEW n \in 1 .. RecvMax, OnHttpRecv(n) PROVE Conversing'
  BY <1>3, RecvConversing
<1>4. CASE RecvFail
  BY <1>4, FailConversing
<1>5. CASE Identify
  BY <1>5, IdentifyConversing
<1>6. CASE Dispatch
  BY <1>6, DispatchConversing
<1>7. ASSUME NEW keep \in BOOLEAN, RoutineReturn(keep) PROVE Conversing'
  BY <1>7, ReturnConversing
<1>8. CASE OnWebSocket \/ OnWsRecv \/ \E keep \in BOOLEAN : WsOpenReturn(keep) \/ WsEventReturn(keep)
  BY <1>8, SocketConversing
<1> QED BY <1>1, <1>2, <1>3, <1>4, <1>5, <1>6, <1>7, <1>8 DEF Next, Coroutine, Application

\* The invariants of a connection with such a peer.
LEMMA AlwaysConversing == Spec => [](IInv /\ Switches /\ Conversing)
<1>1. Init => IInv /\ Switches /\ Conversing
  BY InitInvariant, InitSwitches, InitConversing
<1>2. (IInv /\ Switches /\ Conversing) /\ [Next]_vars => (IInv /\ Switches /\ Conversing)'
  BY NextInvariant, NextSwitches, NextConversing
<1> QED BY <1>1, <1>2, PTL DEF Spec

\* The messages of s with a content length, or without a body, are well sent.
NormalsWell(s) == \A i \in 1 .. Len(s) : s[i].kind = "NORMAL" => WellSent(s[i])

\* The script of a connection does not change.
LEMMA ScriptKept == ASSUME [Next]_vars PROVE script' = script
<1>1. CASE PeerSend \/ PeerClose \/ Ended \/ UNCHANGED vars
  BY <1>1 DEF PeerSend, SendNext, PeerClose, Ended, vars, peer
<1>2. CASE Coroutine
  BY <1>2 DEF Coroutine, OnHttpRecv, RecvFail, Identify, Dispatch, OnWebSocket, OnWsRecv, peer
<1>3. CASE Application
  BY <1>3 DEF Application, RoutineReturn, WsOpenReturn, WsEventReturn, peer
<1> QED BY <1>1, <1>2, <1>3 DEF Next

\* web_server.h:24: on a connection on which the peer sends requests with a content length, or
\* without a body, as this library sends them, the server keeps the connection until a routine
\* returns false, the peer leaves, or a url has no routine; whatever else it may send later, and
\* however the bytes are cut into packets.
THEOREM NormalAlwaysKept == Spec /\ NormalsWell(script) => []NormalKept
<1>1. IInv /\ Switches /\ Conversing /\ NormalsWell(script) => NormalKept
  <2> SUFFICES ASSUME IInv, Switches, Conversing, NormalsWell(script), pc = "closed",
                      \A i \in 1 .. sent : script[i].kind \in {"NORMAL"}
               PROVE  Excused
    BY DEF NormalKept, KeptFor, Excused
  <2>1. AllNormal(script, sent)
    BY DEF AllNormal
  <2>2. AllWell(script, sent)
    <3>1. sent \in Nat /\ Len(script) \in Nat /\ sent <= Len(script)
      BY HistoryType, LenProperties
    <3> QED BY <3>1 DEF AllWell, NormalsWell
  <2> QED BY <2>1, <2>2 DEF Conversing
<1>2. NormalsWell(script) /\ [Next]_vars => NormalsWell(script)'
  BY ScriptKept
<1> QED BY <1>1, <1>2, AlwaysConversing, PTL DEF Spec

\* The steps behind the peer's: the history grows by one content, or not at all.
LEMMA OtherSteps ==
  ASSUME [Next]_vars, ~PeerSend
  PROVE  /\ UNCHANGED <<script, sent>>
         /\ pc = "closed" => pc' = "closed"
         /\ \/ calls' = calls
            \/ /\ pc # "closed" /\ pc' # "closed"
               /\ calls' = Append(calls, <<handler, content'>>)
<1>1. CASE PeerClose \/ Ended \/ UNCHANGED vars
  BY <1>1 DEF PeerClose, Ended, vars, peer, conn, hist
<1>2. ASSUME NEW n \in 1 .. RecvMax, OnHttpRecv(n)
      PROVE  UNCHANGED <<script, sent, calls>> /\ pc # "closed"
  BY <1>2 DEF OnHttpRecv, hist
<1>3. CASE RecvFail \/ Identify \/ OnWebSocket \/ OnWsRecv
  BY <1>3 DEF RecvFail, Identify, OnWebSocket, OnWsRecv, peer, hist
<1>4. CASE Dispatch
  BY <1>4 DEF Dispatch, Close, peer
<1>5. CASE Application
  BY <1>5 DEF Application, RoutineReturn, WsOpenReturn, WsEventReturn, peer
<1> QED BY <1>1, <1>2, <1>3, <1>4, <1>5 DEF Next, Coroutine

\* What a message carries is something that a message may carry.
LEMMA ContentsOf ==
  ASSUME IInv, NEW n \in 1 .. Len(script)
  PROVE  script[n].contents \in {m.contents : m \in UNION {Range(s) : s \in Scripts}}
<1>1. script \in Scripts /\ script \in Seq(Message)
  BY ScriptAssumption DEF IInv, TypeOK
<1>2. script[n] \in Range(script)
  <2>1. n \in DOMAIN script
    BY <1>1, LenProperties
  <2> QED BY <2>1 DEF Range
<1> QED BY <1>1, <1>2

\* What was delivered is the beginning of what was promised after a step, too.
LEMMA TalkBeginsThen == (IInv /\ Talk => Begins(calls, CarriedOf(script, sent), Content))'
<1>1. IInv /\ Talk => Begins(calls, CarriedOf(script, sent), Content)
  BY TalkBegins
<1> QED BY <1>1, PTL

\* Every step of such a connection is a step of HttpDelivery, or changes nothing there.
LEMMA StepDelivers ==
  ASSUME IInv, Switches, Conversing, AllWell(script, Len(script)), [Next]_vars
  PROVE  [Delivery!Next]_(Delivery!vars)
<1>1. /\ script \in Seq(Message) /\ sent \in Nat /\ sent <= Len(script) /\ Len(script) \in Nat
      /\ calls \in Seq(Content)
  BY HistoryType, LenProperties
<1>2. AllWell(script, sent)
  BY <1>1 DEF AllWell
<1>3. \A n : Carried(n) = CarriedOf(script, n)
  BY DEF Carried, CarriedOf
<1>4. script' = script
  BY ScriptKept
<1>5. Carried(sent)' = CarriedOf(script, sent')
  BY <1>4 DEF Carried, CarriedOf
<1>6. CASE PeerSend
  <2>1. sent < Len(script) /\ sent' = sent + 1 /\ UNCHANGED <<calls, pc>>
    BY <1>6 DEF PeerSend, SendNext, conn, hist
  <2>2. sent + 1 \in Nat /\ sent + 1 <= Len(script) /\ sent + 1 \in 1 .. Len(script)
    BY <1>1, <2>1
  <2>3. CarriedOf(script, sent + 1) = CarriedOf(script, sent) \o script[sent + 1].contents
    BY <1>1, <2>2, CarriedMore
  <2>4. script[sent + 1].contents \in {m.contents : m \in UNION {Range(s) : s \in Scripts}}
    BY <2>2, ContentsOf
  <2>5. Carried(sent)' = Carried(sent) \o script[sent + 1].contents
    BY <1>3, <1>5, <2>1, <2>3
  <2>6. Delivery!Send
    BY <2>1, <2>4, <2>5 DEF Delivery!Send
  <2> QED BY <2>6 DEF Delivery!Next
<1>7. CASE ~PeerSend
  <2>1. /\ UNCHANGED <<script, sent>>
        /\ pc = "closed" => pc' = "closed"
        /\ \/ calls' = calls
           \/ /\ pc # "closed" /\ pc' # "closed"
              /\ calls' = Append(calls, <<handler, content'>>)
    BY <1>7, OtherSteps
  <2>2. Carried(sent)' = Carried(sent)
    BY <1>3, <1>5, <2>1
  <2>3. CASE calls' = calls /\ (pc' = "closed" <=> pc = "closed")
    BY <2>2, <2>3 DEF Delivery!vars
  <2>4. CASE calls' = calls /\ pc # "closed" /\ pc' = "closed"
    <3>1. Delivery!Drop
      BY <2>2, <2>4 DEF Delivery!Drop
    <3> QED BY <3>1 DEF Delivery!Next
  <2>5. CASE pc # "closed" /\ pc' # "closed" /\ calls' = Append(calls, <<handler, content'>>)
    <3>1. IInv' /\ Conversing'
      BY NextInvariant, NextConversing
    <3>2. Talk'
      BY <1>2, <2>1, <2>5, <3>1 DEF Conversing
    <3>3. Begins(calls', CarriedOf(script', sent'), Content)
      BY <3>1, <3>2, TalkBeginsThen
    <3> DEFINE c == <<handler, content'>>
               a == Carried(sent)
    <3>4. PICK v \in Seq(Content) : a = Append(calls, c) \o v
      BY <1>3, <2>1, <2>5, <3>3 DEF Begins
    <3>5. c \in Content
      BY <3>1 DEF IInv, TypeOK, Content
    <3> HIDE DEF a, c
    <3>6. Len(calls) < Len(a) /\ a[Len(calls) + 1] = c
      <4>1. PICK n \in Nat, k \in Nat : n = Len(calls) /\ k = Len(v)
        BY <1>1, LenProperties
      <4>2. /\ Append(calls, c) \in Seq(Content) /\ Len(Append(calls, c)) = n + 1
            /\ Append(calls, c)[n + 1] = c
        BY <1>1, <3>5, <4>1, AppendProperties
      <4>3. Len(a) = (n + 1) + k /\ a[n + 1] = Append(calls, c)[n + 1]
        BY <3>4, <4>1, <4>2, ConcatProperties
      <4> QED BY <4>1, <4>2, <4>3
    <3>7. Len(calls) < Len(Carried(sent)) /\ calls' = Append(calls, Carried(sent)[Len(calls) + 1])
      BY <2>5, <3>6 DEF a, c
    <3>8. Delivery!Deliver
      BY <2>2, <2>5, <3>7 DEF Delivery!Deliver
    <3> QED BY <3>8 DEF Delivery!Next
  <2> QED BY <2>1, <2>3, <2>4, <2>5
<1> QED BY <1>6, <1>7

\* A connection starts where HttpDelivery does.
LEMMA InitDelivers == Init => Delivery!Init
<1> SUFFICES ASSUME Init PROVE Delivery!Init
  OBVIOUS
<1>1. sent = 0 /\ calls = <<>> /\ pc = "recv" /\ script \in Seq(Message)
  BY ScriptAssumption DEF Init
<1>2. Carried(sent) = <<>>
  <2>1. 0 \in Nat /\ 0 <= Len(script)
    BY <1>1, LenProperties
  <2>2. CarriedOf(script, 0) = <<>>
    BY <1>1, <2>1, CarriedMore
  <2> QED BY <1>1, <2>2 DEF Carried, CarriedOf
<1> QED BY <1>1, <1>2 DEF Delivery!Init

\* client_handle and MsgHandler, with a peer that sends as this library does, implement the safety
\* part of HttpDelivery: the routines receive what was sent to their urls, whole, in order and at
\* most once, however the bytes are cut into packets, whatever the routines answer and whenever the
\* peer leaves.
THEOREM ImplementsDelivery ==
  Spec /\ AllWell(script, Len(script)) => Delivery!SafeSpec
<1>1. Init => Delivery!Init
  BY InitDelivers
<1>2. IInv /\ Switches /\ Conversing /\ AllWell(script, Len(script)) /\ [Next]_vars
        => [Delivery!Next]_(Delivery!vars)
  BY StepDelivers
<1>3. AllWell(script, Len(script)) /\ [Next]_vars => AllWell(script, Len(script))'
  BY ScriptKept
<1> QED BY <1>1, <1>2, <1>3, AlwaysConversing, PTL DEF Spec, Delivery!SafeSpec

-----------------------------------------------------------------------------
(* The frames that are sent, waiting and handed over. *)

\* Symbols, and the names of events and replies.
Sign == Symbol \cup {Frame(n) : n \in {"open", "404", "101"}}

\* The symbols that are no frames.
Frameless == {x \in Symbol : x[1] \notin Frames}

\* They are signs.
LEMMA Signs == /\ Symbol \subseteq Sign /\ Frameless \subseteq Sign
               /\ \A s \in Seq(Symbol) : s \in Seq(Sign)
               /\ \A s \in Seq(Frameless) : s \in Seq(Sign)
<1>1. Symbol \subseteq Sign /\ Frameless \subseteq Sign
  BY DEF Sign, Frameless
<1> QED BY <1>1, SeqWider

\* A member of a sequence, if its tag is in ops.
IfTagged(x, ops) == IF x[1] \in ops THEN <<x>> ELSE <<>>

\* The members of a sequence one by one.
Singly(s, ops) == [i \in 1 .. Len(s) |-> IfTagged(s[i], ops)]

\* They are sequences of their own.
LEMMA SinglyIs ==
  ASSUME NEW s \in Seq(Sign), NEW ops
  PROVE  /\ Singly(s, ops) \in Seq(Seq(Sign)) /\ Len(Singly(s, ops)) = Len(s) /\ Len(s) \in Nat
         /\ \A i \in 1 .. Len(s) : Singly(s, ops)[i] = IfTagged(s[i], ops)
         /\ Tagged(s, ops) = FlattenSeq(Singly(s, ops))
<1>1. PICK n \in Nat : n = Len(s) /\ DOMAIN s = 1 .. n
  BY LenProperties
<1> DEFINE e == Singly(s, ops)
<1>2. e = [i \in 1 .. n |-> e[i]] /\ \A i \in 1 .. n : e[i] = IfTagged(s[i], ops)
  BY <1>1 DEF Singly
<1>3. Tagged(s, ops) = FlattenSeq(e)
  BY <1>1 DEF Tagged, Singly, IfTagged
<1> HIDE DEF e
<1>4. \A i \in 1 .. n : e[i] \in Seq(Sign)
  <2> TAKE i \in 1 .. n
  <2>1. s[i] \in Sign
    BY <1>1, ElementOfSeq
  <2>2. <<s[i]>> \in Seq(Sign) /\ <<>> \in Seq(Sign)
    BY <2>1
  <2> QED BY <1>2, <2>2 DEF IfTagged
<1>5. e \in Seq(Seq(Sign)) /\ Len(e) = n
  <2>1. PICK U : U = Seq(Sign)
    OBVIOUS
  <2>2. \A i \in 1 .. n : e[i] \in U
    BY <1>4, <2>1
  <2> QED BY <1>2, <2>1, <2>2, FunctionIsSeq
<1> QED BY <1>1, <1>2, <1>3, <1>5 DEF e

\* Those of two sequences, one behind the other.
LEMMA TaggedConcat ==
  \A ops : \A s \in Seq(Sign) :
    /\ Tagged(s, ops) \in Seq(Sign)
    /\ \A t \in Seq(Sign) : Tagged(s \o t, ops) = Tagged(s, ops) \o Tagged(t, ops)
<1> SUFFICES ASSUME NEW ops, NEW s \in Seq(Sign), NEW t \in Seq(Sign)
             PROVE  /\ Tagged(s, ops) \in Seq(Sign) /\ Tagged(t, ops) \in Seq(Sign)
                    /\ Tagged(s \o t, ops) = Tagged(s, ops) \o Tagged(t, ops)
  OBVIOUS
<1>1. PICK m \in Nat, n \in Nat : m = Len(s) /\ n = Len(t)
  BY LenProperties
<1>2. PICK c : c = s \o t
  OBVIOUS
<1>3. /\ c \in Seq(Sign) /\ Len(c) = m + n
      /\ \A i \in 1 .. m + n : c[i] = IF i <= m THEN s[i] ELSE t[i - m]
  BY <1>1, <1>2, ConcatProperties
<1>4. PICK a \in Seq(Seq(Sign)), b \in Seq(Seq(Sign)), d \in Seq(Seq(Sign)) :
        a = Singly(s, ops) /\ b = Singly(t, ops) /\ d = Singly(c, ops)
  BY <1>3, SinglyIs
<1>5. /\ Len(a) = m /\ \A i \in 1 .. m : a[i] = IfTagged(s[i], ops)
      /\ Len(b) = n /\ \A i \in 1 .. n : b[i] = IfTagged(t[i], ops)
      /\ Len(d) = m + n /\ \A i \in 1 .. m + n : d[i] = IfTagged(c[i], ops)
      /\ Tagged(s, ops) = FlattenSeq(a) /\ Tagged(t, ops) = FlattenSeq(b) /\ Tagged(c, ops) = FlattenSeq(d)
  BY <1>1, <1>3, <1>4, SinglyIs
<1>6. d = a \o b
  <2>1. PICK U : U = Seq(Sign)
    OBVIOUS
  <2>2. a \in Seq(U) /\ b \in Seq(U) /\ d \in Seq(U)
    BY <2>1
  <2>3. /\ a \o b \in Seq(U) /\ Len(a \o b) = m + n
        /\ \A i \in 1 .. m + n : (a \o b)[i] = IF i <= m THEN a[i] ELSE b[i - m]
    BY <1>5, <2>2, ConcatProperties
  <2>4. \A i \in 1 .. m + n : d[i] = (a \o b)[i]
    <3> TAKE i \in 1 .. m + n
    <3>1. CASE i <= m
      <4>1. i \in 1 .. m
        BY <3>1
      <4>2. d[i] = IfTagged(c[i], ops) /\ c[i] = s[i]
        BY <1>3, <1>5, <3>1
      <4>3. (a \o b)[i] = a[i]
        BY <2>3, <3>1
      <4>4. a[i] = IfTagged(s[i], ops)
        BY <1>5, <4>1
      <4> QED BY <4>2, <4>3, <4>4
    <3>2. CASE ~(i <= m)
      <4>1. PICK j \in 1 .. n : j = i - m
        BY <3>2
      <4>2. d[i] = IfTagged(c[i], ops) /\ c[i] = t[j]
        BY <1>3, <1>5, <3>2, <4>1
      <4>3. (a \o b)[i] = b[j]
        BY <2>3, <3>2, <4>1
      <4>4. b[j] = IfTagged(t[j], ops)
        BY <1>5, <4>1
      <4> QED BY <4>2, <4>3, <4>4
    <3> QED BY <3>1, <3>2
  <2> QED BY <1>5, <2>2, <2>3, <2>4, SeqEqual
<1>7. FlattenSeq(a \o b) = FlattenSeq(a) \o FlattenSeq(b)
  BY FlattenConcat
<1>8. FlattenSeq(a) \in Seq(Sign) /\ FlattenSeq(b) \in Seq(Sign)
  BY FlattenType
<1> QED BY <1>2, <1>5, <1>6, <1>7, <1>8

\* That of one member.
LEMMA TaggedOne == ASSUME NEW x \in Sign, NEW ops PROVE Tagged(<<x>>, ops) = IfTagged(x, ops)
<1>1. PICK s \in Seq(Sign) : s = <<x>> /\ Len(s) = 1 /\ s[1] = x
  <2>1. <<x>> \in Seq(Sign) /\ Len(<<x>>) = 1 /\ <<x>>[1] = x
    OBVIOUS
  <2> QED BY <2>1
<1>2. Singly(s, ops) = <<IfTagged(x, ops)>>
  BY <1>1 DEF Singly
<1>3. IfTagged(x, ops) \in Seq(Sign)
  BY DEF IfTagged
<1>4. FlattenSeq(<<IfTagged(x, ops)>>) = IfTagged(x, ops)
  BY <1>3, FlattenOne
<1> QED BY <1>1, <1>2, <1>4, SinglyIs

\* There is none in an empty sequence.
LEMMA TaggedEmpty == ASSUME NEW ops PROVE Tagged(<<>>, ops) = <<>>
<1>1. Tagged(<<>>, ops) = FlattenSeq([i \in DOMAIN <<>> |-> IF <<>>[i][1] \in ops THEN <<<<>>[i]>> ELSE <<>>])
  BY DEF Tagged
<1>2. [i \in DOMAIN <<>> |-> IF <<>>[i][1] \in ops THEN <<<<>>[i]>> ELSE <<>>] = <<>>
  OBVIOUS
<1> QED BY <1>1, <1>2, FlattenEmpty

\* Nor where no member has such a tag.
LEMMA TaggedNone ==
  ASSUME NEW s \in Seq(Frameless), NEW ops, ops \subseteq Frames
  PROVE  Tagged(s, ops) = <<>>
<1> DEFINE e == Singly(s, ops)
<1>1. PICK n \in Nat : n = Len(s)
  BY LenProperties
<1>2. e = [i \in 1 .. n |-> e[i]]
  BY <1>1 DEF Singly
<1>3. \A i \in 1 .. n : e[i] = <<>>
  <2> TAKE i \in 1 .. n
  <2>1. s[i] \in Frameless
    BY <1>1, ElementOfSeq
  <2>2. s[i][1] \notin ops
    BY <2>1 DEF Frameless
  <2> QED BY <1>1, <2>2 DEF Singly, IfTagged
<1>4. Tagged(s, ops) = FlattenSeq(e)
  BY Signs, SinglyIs
<1> HIDE DEF e
<1>5. PICK U : U = Seq({})
  OBVIOUS
<1>6. \A i \in 1 .. n : e[i] \in U
  <2>1. <<>> \in U
    BY <1>5
  <2> QED BY <1>3, <2>1
<1>7. e \in Seq(U)
  BY <1>2, <1>6, FunctionIsSeq
<1>8. FlattenSeq(e) \in Seq({})
  BY <1>5, <1>7, FlattenType
<1>9. \A f \in Seq({}) : f = <<>>
  <2> TAKE f \in Seq({})
  <2>1. Len(f) \in Nat /\ \A i \in 1 .. Len(f) : f[i] \in {}
    BY LenProperties, ElementOfSeq
  <2>2. Len(f) = 0
    <3>1. Len(f) # 0 => 1 \in 1 .. Len(f)
      BY <2>1
    <3> QED BY <2>1, <3>1
  <2> QED BY <2>2, EmptySeq
<1> QED BY <1>4, <1>8, <1>9

\* There is no frame in a request.
LEMMA RequestPlain ==
  ASSUME NEW m, NEW u, NEW body, NEW b, Request(m, u, body, b)
  PROVE  m.bytes \in Seq(Frameless)
<1>1. PICK first : first = Line(u)
  OBVIOUS
<1>2. first \in FirstLines
  BY <1>1 DEF Request, Line, FirstLines
<1>3. PICK d, packs, h, rest : SentAs(m.bytes, m.kind, first, d, packs, h, rest)
  BY <1>1, <1>2, SentIs DEF Request
<1>4. first \in Frameless
  BY <1>2 DEF FirstLines, Frameless, Symbol, Frames
<1>5. /\ CR \in Frameless /\ LF \in Frameless /\ Upgrade \in Frameless /\ WebSocket \in Frameless /\ WsKey \in Frameless
      /\ Chunked \in Frameless
  BY DEF CR, LF, Upgrade, WebSocket, WsKey, Chunked, Frameless, Symbol, Frames
<1>6. h \in Seq(Frameless)
  <2>1. NoField(first) \in Seq(Frameless) /\ WsHeader(first) \in Seq(Frameless)
    BY <1>4, <1>5 DEF NoField, WsHeader
  <2>2. \A x \in Frameless : OneField(first, x) \in Seq(Frameless)
    BY <1>4, <1>5 DEF OneField
  <2>3. Multipart(d) \in Frameless
    BY <1>3 DEF SentAs, Multipart, Frameless, Symbol, Frames
  <2>4. m.kind = "NORMAL" => ContentLen(Len(packs[1])) \in Frameless
    <3> SUFFICES ASSUME m.kind = "NORMAL" PROVE ContentLen(Len(packs[1])) \in Frameless
      OBVIOUS
    <3>1. rest = packs[1] /\ rest \in Seq(BodySymbol)
      BY <1>3 DEF SentAs, BodyIs
    <3>2. Len(packs[1]) \in Nat
      BY <3>1, LenProperties
    <3> QED BY <3>2 DEF ContentLen, Frameless, Symbol, Frames
  <2>5. HeadIs(m.kind, first, d, packs, h)
    BY <1>3 DEF SentAs
  <2> QED BY <1>5, <2>1, <2>2, <2>3, <2>4, <2>5 DEF HeadIs
<1>7. rest \in Seq(Frameless)
  <2>1. rest \in Seq(BodySymbol)
    BY <1>3 DEF SentAs, BodyIs
  <2>2. BodySymbol \subseteq Frameless
    BY DEF BodySymbol, Payload, Frameless, Symbol, Frames, CR, LF, Dashes
  <2> QED BY <2>1, <2>2, SeqWider
<1>8. m.bytes = h \o rest
  BY <1>3 DEF SentAs
<1> QED BY <1>6, <1>7, <1>8, ConcatProperties

\* The frames among the first n messages of s.
SentOf(s, n, ops) == Tagged(FlattenSeq([i \in 1 .. n |-> s[i].bytes]), ops)

\* Message by message.
LEMMA SentMore ==
  ASSUME NEW s \in Seq(Message), NEW n \in Nat, n <= Len(s), NEW ops
  PROVE  /\ SentOf(s, n, ops) \in Seq(Sign)
         /\ n = 0 => SentOf(s, n, ops) = <<>>
         /\ \A k \in Nat : n = k + 1 => /\ SentOf(s, k, ops) \in Seq(Sign)
                                       /\ Tagged(s[n].bytes, ops) \in Seq(Sign)
                                       /\ SentOf(s, n, ops) = SentOf(s, k, ops) \o Tagged(s[n].bytes, ops)
<1> DEFINE c == [i \in 1 .. Len(s) |-> s[i].bytes]
<1>1. Len(s) \in Nat /\ \A i \in 1 .. Len(s) : s[i].bytes \in Seq(Sign) /\ c[i] = s[i].bytes
  BY MessageIs, Signs, LenProperties
<1>2. ASSUME NEW k \in Nat, k <= Len(s) PROVE SentOf(s, k, ops) = Tagged(UpTo(c, k), ops)
  <2>1. [i \in 1 .. k |-> c[i]] = [i \in 1 .. k |-> s[i].bytes]
    BY <1>1, <1>2
  <2> QED BY <2>1 DEF SentOf, UpTo
<1> HIDE DEF c
<1>3. /\ UpTo(c, n) \in Seq(Sign)
      /\ n = 0 => UpTo(c, n) = <<>>
      /\ \A k \in Nat : n = k + 1 => /\ UpTo(c, k) \in Seq(Sign) /\ c[n] \in Seq(Sign)
                                    /\ UpTo(c, n) = UpTo(c, k) \o c[n]
  <2>1. PICK m \in Nat : m = Len(s)
    BY <1>1
  <2>2. (\A i \in 1 .. m : c[i] \in Seq(Sign)) /\ n <= m
    BY <1>1, <2>1
  <2> QED BY <2>2, FlattenUpTo
<1>4. SentOf(s, n, ops) \in Seq(Sign)
  <2>1. Tagged(UpTo(c, n), ops) \in Seq(Sign)
    BY <1>3, TaggedConcat
  <2> QED BY <1>2, <2>1
<1>5. n = 0 => SentOf(s, n, ops) = <<>>
  <2>1. Tagged(<<>>, ops) = <<>>
    BY TaggedEmpty
  <2> QED BY <1>2, <1>3, <2>1
<1>6. ASSUME NEW k \in Nat, n = k + 1
      PROVE  /\ SentOf(s, k, ops) \in Seq(Sign) /\ Tagged(s[n].bytes, ops) \in Seq(Sign)
             /\ SentOf(s, n, ops) = SentOf(s, k, ops) \o Tagged(s[n].bytes, ops)
  <2>1. k <= Len(s) /\ n \in 1 .. Len(s)
    BY <1>1, <1>6
  <2>2. UpTo(c, k) \in Seq(Sign) /\ c[n] \in Seq(Sign) /\ UpTo(c, n) = UpTo(c, k) \o c[n]
    BY <1>3, <1>6
  <2>3. /\ Tagged(UpTo(c, k), ops) \in Seq(Sign) /\ Tagged(c[n], ops) \in Seq(Sign)
        /\ Tagged(UpTo(c, k) \o c[n], ops) = Tagged(UpTo(c, k), ops) \o Tagged(c[n], ops)
    <3>1. PICK x \in Seq(Sign), y \in Seq(Sign) : x = UpTo(c, k) /\ y = c[n]
      BY <2>2
    <3>2. /\ Tagged(x, ops) \in Seq(Sign) /\ Tagged(y, ops) \in Seq(Sign)
          /\ Tagged(x \o y, ops) = Tagged(x, ops) \o Tagged(y, ops)
      BY TaggedConcat
    <3> QED BY <3>1, <3>2
  <2> QED BY <1>1, <1>2, <2>1, <2>2, <2>3
<1> QED BY <1>4, <1>5, <1>6

\* The names of events and replies.
Names == {"open", "content", "close", "404", "101", "pong"}

\* Their frames.
LEMMA AsFramesIs ==
  ASSUME NEW s \in Seq(Names)
  PROVE  AsFrames(s) \in Seq(Sign) /\ Len(AsFrames(s)) = Len(s)
         /\ \A i \in 1 .. Len(s) : AsFrames(s)[i] = Frame(s[i])
<1> DEFINE e == AsFrames(s)
<1>1. PICK n \in Nat : n = Len(s) /\ DOMAIN s = 1 .. n
  BY LenProperties
<1>2. e = [i \in 1 .. n |-> e[i]] /\ \A i \in 1 .. n : e[i] = Frame(s[i])
  BY <1>1 DEF AsFrames
<1> HIDE DEF e
<1>3. \A x \in Names : Frame(x) \in Sign
  BY DEF Names, Sign, Symbol, Frames
<1>4. \A i \in 1 .. n : e[i] \in Sign
  <2> TAKE i \in 1 .. n
  <2>1. s[i] \in Names
    BY <1>1, ElementOfSeq
  <2> QED BY <1>2, <1>3, <2>1
<1>5. e \in Seq(Sign) /\ Len(e) = n
  BY <1>2, <1>4, FunctionIsSeq
<1> QED BY <1>1, <1>2, <1>5 DEF e

\* One name more.
LEMMA TaggedMore ==
  ASSUME NEW s \in Seq(Names), NEW x \in Names, NEW ops
  PROVE  /\ Tagged(AsFrames(s), ops) \in Seq(Sign)
         /\ Tagged(AsFrames(Append(s, x)), ops) = Tagged(AsFrames(s), ops) \o IfTagged(Frame(x), ops)
<1>1. PICK n \in Nat : n = Len(s)
  BY LenProperties
<1>2. PICK y \in Seq(Names) : y = Append(s, x)
  BY AppendProperties
<1>3. Len(y) = n + 1 /\ (\A i \in 1 .. n : y[i] = s[i]) /\ y[n + 1] = x
  BY <1>1, <1>2, AppendProperties
<1>4. PICK a \in Seq(Sign), b \in Seq(Sign) : a = AsFrames(s) /\ b = AsFrames(y)
  BY AsFramesIs
<1>5. /\ Len(a) = n /\ \A i \in 1 .. n : a[i] = Frame(s[i])
      /\ Len(b) = n + 1 /\ \A i \in 1 .. n + 1 : b[i] = Frame(y[i])
  BY <1>1, <1>3, <1>4, AsFramesIs
<1>6. PICK f \in Sign : f = Frame(x)
  <2>1. Frame(x) \in Sign
    BY DEF Names, Sign, Symbol, Frames
  <2> QED BY <2>1
<1>7. PICK d \in Seq(Sign) : d = <<f>> /\ Len(d) = 1 /\ d[1] = f
  <2>1. <<f>> \in Seq(Sign) /\ Len(<<f>>) = 1 /\ <<f>>[1] = f
    OBVIOUS
  <2> QED BY <2>1
<1>8. /\ a \o d \in Seq(Sign) /\ Len(a \o d) = n + 1
      /\ \A i \in 1 .. n + 1 : (a \o d)[i] = IF i <= n THEN a[i] ELSE d[i - n]
  BY <1>5, <1>7, ConcatProperties
<1>9. \A i \in 1 .. n + 1 : b[i] = (a \o d)[i]
  <2> TAKE i \in 1 .. n + 1
  <2>1. CASE i \in 1 .. n
    <3>1. b[i] = Frame(s[i])
      BY <1>3, <1>5, <2>1
    <3> QED BY <1>5, <1>8, <2>1, <3>1
  <2>2. CASE i = n + 1
    <3>1. b[i] = f
      BY <1>3, <1>5, <1>6, <2>2
    <3>2. ~(i <= n) /\ i - n = 1
      BY <2>2
    <3> QED BY <1>7, <1>8, <3>1, <3>2
  <2>3. i \in 1 .. n \/ i = n + 1
    OBVIOUS
  <2> QED BY <2>1, <2>2, <2>3
<1>10. b = a \o d
  BY <1>5, <1>8, <1>9, SeqEqual
<1>11. Tagged(a \o d, ops) = Tagged(a, ops) \o Tagged(d, ops) /\ Tagged(a, ops) \in Seq(Sign)
  BY TaggedConcat
<1>12. Tagged(d, ops) = IfTagged(f, ops)
  BY <1>7, TaggedOne
<1> QED BY <1>2, <1>4, <1>6, <1>10, <1>11, <1>12

\* The frames that hand over contents.
Contentful == {"content", "close"}

\* The frames of a script are behind an upgrade.
FramesBehind(s) ==
  \A i \in 1 .. Len(s) : s[i].kind = "FRAME" => \E j \in 1 .. i : s[j].kind = "WEBSOCKET"

\* The script s of a server with a websocket handler is well sent.
SocketWell(s) == s \in WsServed => AllWell(s, Len(s)) /\ FramesBehind(s)

\* Before the answer to an upgrade, messages are sent one by one and none that was
\* served is an upgrade.
OneByOne ==
  script \in WsServed /\ mode = "http" /\ pc # "closed" =>
    /\ sent <= done + 1
    /\ \A i \in 1 .. done : script[i].kind # "WEBSOCKET"

\* So the messages that were sent are no frames.
LEMMA NoFrameSent ==
  ASSUME IInv, SocketWell(script), OneByOne, script \in WsServed, mode = "http", pc # "closed",
         NEW ops, ops \subseteq Frames
  PROVE  SentOf(script, sent, ops) = <<>>
<1>1. /\ script \in Seq(Message) /\ sent \in Nat /\ sent <= Len(script) /\ Len(script) \in Nat
      /\ done \in Nat
  BY HistoryType, LenProperties
<1>2. PICK s \in Seq(Message), n \in Nat : s = script /\ n = sent /\ n <= Len(s)
  BY <1>1
<1>3. \A i \in 1 .. n : s[i].kind # "FRAME"
  <2> SUFFICES ASSUME NEW i \in 1 .. n, s[i].kind = "FRAME" PROVE FALSE
    OBVIOUS
  <2>1. PICK j \in 1 .. i : s[j].kind = "WEBSOCKET"
    <3>1. i \in 1 .. Len(s)
      BY <1>1, <1>2
    <3> QED BY <1>2, <3>1 DEF SocketWell, FramesBehind
  <2>2. j # i
    BY <2>1
  <2>3. j \in 1 .. done
    BY <1>1, <1>2, <2>2 DEF OneByOne
  <2> QED BY <1>2, <2>1, <2>3 DEF OneByOne
<1>4. \A i \in 1 .. n : s[i].bytes \in Seq(Frameless)
  <2> TAKE i \in 1 .. n
  <2>1. WellSent(s[i])
    <3>1. i \in 1 .. Len(s)
      BY <1>1, <1>2
    <3> QED BY <1>2, <3>1 DEF SocketWell, AllWell
  <2>2. PICK u, body, b : Request(s[i], u, body, b)
    BY <1>3, <2>1 DEF WellSent, FrameMessage
  <2> QED BY <2>2, RequestPlain
<1> DEFINE c == [i \in 1 .. n |-> s[i].bytes]
<1>5. c = [i \in 1 .. n |-> c[i]] /\ \A i \in 1 .. n : c[i] \in Seq(Frameless)
  BY <1>4
<1> HIDE DEF c
<1>6. c \in Seq(Seq(Frameless))
  <2>1. PICK U : U = Seq(Frameless)
    OBVIOUS
  <2>2. \A i \in 1 .. n : c[i] \in U
    BY <1>5, <2>1
  <2> QED BY <1>5, <2>1, <2>2, FunctionIsSeq
<1>7. FlattenSeq(c) \in Seq(Frameless)
  BY <1>6, FlattenType
<1>8. Tagged(FlattenSeq(c), ops) = <<>>
  BY <1>7, TaggedNone
<1> QED BY <1>2, <1>8 DEF SentOf, c

\* What FramesOnce says of the events ev, the replies re, the wire w and the first n messages of s.
Balance(ev, re, w, s, n) ==
  /\ Tagged(AsFrames(ev), Contentful) \o Tagged(w, Contentful) = SentOf(s, n, Contentful)
  /\ Len(Tagged(AsFrames(re), {"pong"})) + Len(Tagged(w, {"ping"})) = Len(SentOf(s, n, {"ping"}))

\* It does.
LEMMA FramesOnceIs == FramesOnce <=> (script \in WsServed => Balance(events, replies, wire, script, sent))
BY DEF FramesOnce, Balance, FramesSent, SentOf, Contentful

\* What is of the type of the events, of the replies and of the wire.
Kept(ev, re, w) ==
  /\ ev \in Seq({"open", "content", "close"}) /\ re \in Seq({"404", "101", "pong"}) /\ w \in Seq(Symbol)

\* Events and replies are names.
LEMMA KeptNames ==
  ASSUME NEW ev, NEW re, NEW w, Kept(ev, re, w)
  PROVE  /\ ev \in Seq(Names) /\ re \in Seq(Names) /\ w \in Seq(Sign)
         /\ \A ops : /\ Tagged(AsFrames(ev), ops) \in Seq(Sign)
                     /\ Tagged(AsFrames(re), ops) \in Seq(Sign)
                     /\ Tagged(w, ops) \in Seq(Sign)
<1>1. ev \in Seq(Names) /\ re \in Seq(Names) /\ w \in Seq(Sign)
  <2>1. {"open", "content", "close"} \subseteq Names /\ {"404", "101", "pong"} \subseteq Names
    BY DEF Names
  <2> QED BY <2>1, SeqWider, Signs DEF Kept
<1>2. AsFrames(ev) \in Seq(Sign) /\ AsFrames(re) \in Seq(Sign)
  BY <1>1, AsFramesIs
<1> QED BY <1>1, <1>2, TaggedConcat

\* The peer sends a message.
LEMMA BalanceSend ==
  ASSUME NEW ev, NEW re, NEW w, Kept(ev, re, w), NEW s \in Seq(Message), NEW n \in Nat, NEW j \in Nat,
         j = n + 1, j <= Len(s), Balance(ev, re, w, s, n)
  PROVE  Balance(ev, re, w \o s[j].bytes, s, j)
<1>1. PICK b \in Seq(Sign) : b = s[j].bytes
  <2>1. j \in 1 .. Len(s)
    BY LenProperties
  <2> QED BY <2>1, MessageIs, Signs
<1>2. w \in Seq(Sign)
  BY KeptNames
<1>3. ASSUME NEW ops
      PROVE  /\ Tagged(w, ops) \in Seq(Sign) /\ Tagged(b, ops) \in Seq(Sign) /\ SentOf(s, n, ops) \in Seq(Sign)
             /\ Tagged(w \o b, ops) = Tagged(w, ops) \o Tagged(b, ops)
             /\ SentOf(s, j, ops) = SentOf(s, n, ops) \o Tagged(b, ops)
  <2>1. \A k \in Nat : j = k + 1 => /\ SentOf(s, k, ops) \in Seq(Sign)
                                    /\ SentOf(s, j, ops) = SentOf(s, k, ops) \o Tagged(s[j].bytes, ops)
    BY SentMore
  <2> QED BY <1>1, <1>2, <2>1, TaggedConcat
<1>4. Tagged(AsFrames(ev), Contentful) \o Tagged(w \o b, Contentful) = SentOf(s, j, Contentful)
  <2>1. PICK x \in Seq(Sign), y \in Seq(Sign), z \in Seq(Sign) :
          x = Tagged(AsFrames(ev), Contentful) /\ y = Tagged(w, Contentful) /\ z = Tagged(b, Contentful)
    BY <1>3, KeptNames
  <2>2. (x \o y) \o z = x \o (y \o z)
    BY ConcatAssociative, SMTT(30)
  <2>3. Tagged(w \o b, Contentful) = y \o z /\ SentOf(s, j, Contentful) = (x \o y) \o z
    BY <1>3, <2>1 DEF Balance
  <2> QED BY <2>1, <2>2, <2>3
<1>5. Len(Tagged(AsFrames(re), {"pong"})) + Len(Tagged(w \o b, {"ping"})) = Len(SentOf(s, j, {"ping"}))
  <2>1. PICK x \in Seq(Sign), y \in Seq(Sign), z \in Seq(Sign), f \in Seq(Sign) :
          /\ x = Tagged(AsFrames(re), {"pong"}) /\ y = Tagged(w, {"ping"}) /\ z = Tagged(b, {"ping"})
          /\ f = SentOf(s, n, {"ping"})
    BY <1>3, KeptNames
  <2>2. Tagged(w \o b, {"ping"}) = y \o z /\ SentOf(s, j, {"ping"}) = f \o z /\ Len(x) + Len(y) = Len(f)
    BY <1>3, <2>1 DEF Balance
  <2>3. Len(y \o z) = Len(y) + Len(z) /\ Len(f \o z) = Len(f) + Len(z)
    BY ConcatProperties
  <2>4. Len(x) \in Nat /\ Len(y) \in Nat /\ Len(z) \in Nat /\ Len(f) \in Nat
    BY LenProperties
  <2> QED BY <2>1, <2>2, <2>3, <2>4
<1> QED BY <1>1, <1>4, <1>5 DEF Balance

\* An open event, and a reply other than a pong.
LEMMA BalanceOther ==
  ASSUME NEW ev, NEW re, NEW w, Kept(ev, re, w), NEW s, NEW n, Balance(ev, re, w, s, n)
  PROVE  /\ Balance(Append(ev, "open"), re, w, s, n)
         /\ \A r \in {"404", "101"} : Balance(ev, Append(re, r), w, s, n)
<1>1. \A x : x \o <<>> = x \/ x \notin Seq(Sign)
  BY ConcatEmptySeq
<1>2. Tagged(AsFrames(Append(ev, "open")), Contentful) = Tagged(AsFrames(ev), Contentful)
  <2>1. "open" \in Names /\ IfTagged(Frame("open"), Contentful) = <<>>
    BY DEF Names, IfTagged, Frame, Contentful
  <2>2. ev \in Seq(Names)
    BY KeptNames
  <2>3. /\ Tagged(AsFrames(ev), Contentful) \in Seq(Sign)
        /\ Tagged(AsFrames(Append(ev, "open")), Contentful)
             = Tagged(AsFrames(ev), Contentful) \o IfTagged(Frame("open"), Contentful)
    BY <2>1, <2>2, TaggedMore
  <2> QED BY <1>1, <2>1, <2>3
<1>3. ASSUME NEW r \in {"404", "101"}
      PROVE  Tagged(AsFrames(Append(re, r)), {"pong"}) = Tagged(AsFrames(re), {"pong"})
  <2>1. r \in Names /\ IfTagged(Frame(r), {"pong"}) = <<>>
    BY DEF Names, IfTagged, Frame
  <2>2. re \in Seq(Names)
    BY KeptNames
  <2>3. /\ Tagged(AsFrames(re), {"pong"}) \in Seq(Sign)
        /\ Tagged(AsFrames(Append(re, r)), {"pong"})
             = Tagged(AsFrames(re), {"pong"}) \o IfTagged(Frame(r), {"pong"})
    BY <2>1, <2>2, TaggedMore
  <2> QED BY <1>1, <2>1, <2>3
<1> QED BY <1>2, <1>3 DEF Balance

\* Where no frame was sent none is read as something else.
LEMMA BalanceRead ==
  ASSUME NEW ev, NEW re, NEW w, Kept(ev, re, w), NEW s, NEW n, Balance(ev, re, w, s, n),
         SentOf(s, n, Contentful) = <<>>, SentOf(s, n, {"ping"}) = <<>>, NEW k \in 0 .. Len(w)
  PROVE  Balance(ev, re, Consume(w, k), s, n)
<1>1. PICK r \in Seq(Symbol), c \in Seq(Symbol) : w = r \o c /\ c = Consume(w, k)
  BY ReadAndLeft DEF Kept
<1>2. r \in Seq(Sign) /\ c \in Seq(Sign)
  BY Signs
<1>3. ASSUME NEW ops
      PROVE  /\ Tagged(r, ops) \in Seq(Sign) /\ Tagged(c, ops) \in Seq(Sign)
             /\ Tagged(w, ops) = Tagged(r, ops) \o Tagged(c, ops)
  BY <1>1, <1>2, TaggedConcat
<1>4. Len(<<>>) = 0
  OBVIOUS
<1>5. Tagged(AsFrames(ev), Contentful) \o Tagged(c, Contentful) = <<>>
  <2>1. PICK x \in Seq(Sign), y \in Seq(Sign), z \in Seq(Sign) :
          x = Tagged(AsFrames(ev), Contentful) /\ y = Tagged(r, Contentful) /\ z = Tagged(c, Contentful)
    BY <1>3, KeptNames
  <2>2. x \o (y \o z) = <<>>
    BY <1>3, <2>1 DEF Balance
  <2>3. /\ y \o z \in Seq(Sign) /\ x \o z \in Seq(Sign)
        /\ Len(x \o (y \o z)) = Len(x) + Len(y \o z) /\ Len(y \o z) = Len(y) + Len(z)
        /\ Len(x \o z) = Len(x) + Len(z)
    BY ConcatProperties
  <2>4. Len(x) \in Nat /\ Len(y) \in Nat /\ Len(z) \in Nat
    BY LenProperties
  <2>5. Len(x \o z) = 0
    BY <1>4, <2>2, <2>3, <2>4
  <2> QED BY <2>1, <2>3, <2>5, EmptySeq
<1>6. Len(Tagged(AsFrames(re), {"pong"})) + Len(Tagged(c, {"ping"})) = 0
  <2>1. PICK x \in Seq(Sign), y \in Seq(Sign), z \in Seq(Sign) :
          x = Tagged(AsFrames(re), {"pong"}) /\ y = Tagged(r, {"ping"}) /\ z = Tagged(c, {"ping"})
    BY <1>3, KeptNames
  <2>2. Len(x) + Len(y \o z) = 0
    BY <1>3, <1>4, <2>1 DEF Balance
  <2>3. Len(y \o z) = Len(y) + Len(z)
    BY ConcatProperties
  <2>4. Len(x) \in Nat /\ Len(y) \in Nat /\ Len(z) \in Nat
    BY LenProperties
  <2>5. Len(x) + Len(z) = 0
    BY <2>2, <2>3, <2>4
  <2> QED BY <2>1, <2>5
<1> QED BY <1>1, <1>4, <1>5, <1>6 DEF Balance

\* A frame has the symbol of its tag, and the tags are distinct.
LEMMA FrameOf ==
  ASSUME NEW h \in Symbol, h[1] \in Frames
  PROVE  h = Frame(h[1])
BY DEF Symbol, Frames, Frame, CR, LF, Upgrade, WebSocket, WsKey, Chunked, Dashes

\* A sequence is its first member and what is behind it.
LEMMA HeadThenTail ==
  ASSUME NEW s \in Seq(Symbol), s # <<>>
  PROVE  Head(s) \in Symbol /\ Tail(s) \in Seq(Symbol) /\ s = <<Head(s)>> \o Tail(s)
<1>1. PICK n \in Nat : n = Len(s) /\ n # 0
  BY LenProperties, EmptySeq
<1>2. PICK h \in Symbol, t \in Seq(Symbol) :
        /\ h = Head(s) /\ h = s[1] /\ t = Tail(s) /\ Len(t) = n - 1
        /\ \A i \in 1 .. n - 1 : t[i] = s[i + 1]
  <2>1. /\ Head(s) \in Symbol /\ Tail(s) \in Seq(Symbol) /\ Len(Tail(s)) = n - 1
        /\ \A i \in 1 .. n - 1 : Tail(s)[i] = s[i + 1]
    BY <1>1, HeadTailProperties
  <2>2. Head(s) = s[1]
    OBVIOUS
  <2> QED BY <2>1, <2>2
<1>3. PICK x \in Seq(Symbol) : x = <<h>> /\ Len(x) = 1 /\ x[1] = h
  <2>1. <<h>> \in Seq(Symbol) /\ Len(<<h>>) = 1 /\ <<h>>[1] = h
    OBVIOUS
  <2> QED BY <2>1
<1>4. /\ x \o t \in Seq(Symbol) /\ Len(x \o t) = 1 + (n - 1)
      /\ \A i \in 1 .. 1 + (n - 1) : (x \o t)[i] = IF i <= 1 THEN x[i] ELSE t[i - 1]
  BY <1>2, <1>3, ConcatProperties
<1>5. \A i \in 1 .. n : s[i] = (x \o t)[i]
  <2> TAKE i \in 1 .. n
  <2>1. i \in 1 .. 1 + (n - 1)
    OBVIOUS
  <2>2. CASE i = 1
    BY <1>2, <1>3, <1>4, <2>1, <2>2
  <2>3. CASE i # 1
    <3>1. PICK j \in 1 .. n - 1 : j = i - 1 /\ i = j + 1 /\ ~(i <= 1)
      BY <2>3
    <3>2. (x \o t)[i] = t[j]
      BY <1>4, <2>1, <3>1
    <3> QED BY <1>2, <3>1, <3>2
  <2> QED BY <2>2, <2>3
<1>6. Len(x \o t) = n
  BY <1>4
<1>7. s = x \o t
  BY <1>1, <1>4, <1>5, <1>6, SeqEqual
<1> QED BY <1>2, <1>3, <1>7

\* recv_ws takes a frame.
LEMMA BalanceFrame ==
  ASSUME NEW ev, NEW re, NEW w, Kept(ev, re, w), NEW s, NEW n, Balance(ev, re, w, s, n), w # <<>>,
         NEW op, op = Head(w)[1]
  PROVE  /\ op \in Contentful => Balance(Append(ev, op), re, Tail(w), s, n)
         /\ op = "ping" => Balance(ev, Append(re, "pong"), Tail(w), s, n)
         /\ op \notin Contentful /\ op # "ping" => Balance(ev, re, Tail(w), s, n)
<1>1. w \in Seq(Symbol)
  BY DEF Kept
<1>2. PICK h \in Symbol, t \in Seq(Symbol) : h = Head(w) /\ t = Tail(w) /\ w = <<h>> \o t
  <2>1. /\ Head(w) \in Symbol /\ Tail(w) \in Seq(Symbol) /\ w = <<Head(w)>> \o Tail(w)
    BY <1>1, HeadThenTail
  <2> QED BY <2>1
<1>3. PICK x \in Seq(Sign) : x = <<h>>
  <2>1. <<h>> \in Seq(Sign)
    BY Signs
  <2> QED BY <2>1
<1>4. h \in Sign /\ t \in Seq(Sign)
  BY Signs
<1>5. ASSUME NEW ops
      PROVE  /\ Tagged(t, ops) \in Seq(Sign) /\ IfTagged(h, ops) \in Seq(Sign)
             /\ Tagged(w, ops) = IfTagged(h, ops) \o Tagged(t, ops)
  <2>1. Tagged(x, ops) = IfTagged(h, ops)
    BY <1>3, <1>4, TaggedOne
  <2>2. Tagged(x, ops) \in Seq(Sign) /\ Tagged(t, ops) \in Seq(Sign)
    BY <1>4, TaggedConcat
  <2>3. Tagged(x \o t, ops) = Tagged(x, ops) \o Tagged(t, ops)
    BY <1>4, TaggedConcat
  <2> QED BY <1>2, <1>3, <2>1, <2>2, <2>3
<1>6. \A y \in Seq(Sign) : <<>> \o y = y
  BY ConcatEmptySeq
<1>7. ASSUME NEW ops, op \notin ops PROVE Tagged(w, ops) = Tagged(t, ops)
  <2>1. IfTagged(h, ops) = <<>>
    BY <1>2, <1>7 DEF IfTagged
  <2> QED BY <1>5, <1>6, <2>1
<1>8. "ping" \notin Contentful /\ Contentful \subseteq Frames /\ "ping" \in Frames
  BY DEF Contentful, Frames
<1>9. ASSUME op \in Contentful PROVE Balance(Append(ev, op), re, t, s, n)
  <2>1. op \notin {"ping"}
    BY <1>8, <1>9
  <2>2. h = Frame(op)
    BY <1>2, <1>8, <1>9, FrameOf
  <2>3. ev \in Seq(Names) /\ op \in Names
    BY <1>9, KeptNames DEF Contentful, Names
  <2>4. Tagged(AsFrames(Append(ev, op)), Contentful)
          = Tagged(AsFrames(ev), Contentful) \o IfTagged(h, Contentful)
    BY <2>2, <2>3, TaggedMore
  <2>5. PICK a \in Seq(Sign), b \in Seq(Sign), c \in Seq(Sign) :
          a = Tagged(AsFrames(ev), Contentful) /\ b = IfTagged(h, Contentful) /\ c = Tagged(t, Contentful)
    BY <1>5, KeptNames
  <2>6. (a \o b) \o c = a \o (b \o c)
    BY ConcatAssociative
  <2>7. Tagged(AsFrames(Append(ev, op)), Contentful) \o Tagged(t, Contentful) = SentOf(s, n, Contentful)
    BY <1>5, <2>4, <2>5, <2>6 DEF Balance
  <2> QED BY <1>7, <2>1, <2>7 DEF Balance
<1>10. ASSUME op = "ping" PROVE Balance(ev, Append(re, "pong"), t, s, n)
  <2>1. op \notin Contentful
    BY <1>8, <1>10
  <2>2. re \in Seq(Names) /\ "pong" \in Names
    BY KeptNames DEF Names
  <2>3. IfTagged(Frame("pong"), {"pong"}) = <<Frame("pong")>>
    BY DEF IfTagged, Frame
  <2>4. IfTagged(h, {"ping"}) = <<h>>
    BY <1>2, <1>10 DEF IfTagged
  <2>5. PICK a \in Seq(Sign), c \in Seq(Sign) :
          a = Tagged(AsFrames(re), {"pong"}) /\ c = Tagged(t, {"ping"})
    BY <1>5, KeptNames
  <2>6. PICK f \in Seq(Sign) : f = <<Frame("pong")>> /\ Len(f) = 1
    <3>1. Frame("pong") \in Sign
      BY DEF Sign, Symbol, Frames
    <3>2. <<Frame("pong")>> \in Seq(Sign) /\ Len(<<Frame("pong")>>) = 1
      BY <3>1
    <3> QED BY <3>2
  <2>7. Tagged(AsFrames(Append(re, "pong")), {"pong"}) = a \o f /\ Tagged(w, {"ping"}) = x \o c
    BY <1>3, <1>5, <2>2, <2>3, <2>4, <2>5, <2>6, TaggedMore
  <2>8. Len(x) = 1
    BY <1>3
  <2>9. Len(a \o f) = Len(a) + Len(f) /\ Len(x \o c) = Len(x) + Len(c)
    BY ConcatProperties
  <2>10. Len(a) \in Nat /\ Len(c) \in Nat
    BY LenProperties
  <2>11. Len(Tagged(AsFrames(re), {"pong"})) + Len(Tagged(w, {"ping"})) = Len(SentOf(s, n, {"ping"}))
    BY DEF Balance
  <2>12. Len(a) + Len(x \o c) = Len(a \o f) + Len(c)
    BY <2>6, <2>8, <2>9, <2>10
  <2>13. Len(Tagged(AsFrames(Append(re, "pong")), {"pong"})) + Len(Tagged(t, {"ping"}))
           = Len(SentOf(s, n, {"ping"}))
    BY <2>5, <2>7, <2>11, <2>12
  <2>14. Tagged(AsFrames(ev), Contentful) \o Tagged(t, Contentful) = SentOf(s, n, Contentful)
    BY <1>7, <2>1 DEF Balance
  <2> QED BY <2>13, <2>14 DEF Balance
<1>11. ASSUME op \notin Contentful, op # "ping" PROVE Balance(ev, re, t, s, n)
  <2>1. Tagged(w, Contentful) = Tagged(t, Contentful) /\ Tagged(w, {"ping"}) = Tagged(t, {"ping"})
    BY <1>7, <1>11
  <2> QED BY <2>1 DEF Balance
<1> QED BY <1>2, <1>9, <1>10, <1>11

\* The type of what is counted.
LEMMA KeptAlways == ASSUME IInv PROVE Kept(events, replies, wire)
BY DEF IInv, TypeOK, Kept

\* A step keeps the balance.
LEMMA NextBalance ==
  ASSUME IInv, SocketWell(script), OneByOne, FramesOnce, [Next]_vars
  PROVE  FramesOnce'
<1>1. script' = script
  BY ScriptKept
<1>2. SUFFICES ASSUME script \in WsServed PROVE Balance(events', replies', wire', script', sent')
  <2>1. (FramesOnce <=> (script \in WsServed => Balance(events, replies, wire, script, sent)))'
    BY FramesOnceIs, PTL
  <2> QED BY <1>1, <2>1
<1>3. Balance(events, replies, wire, script, sent)
  BY <1>2, FramesOnceIs
<1>4. Kept(events, replies, wire)
  BY KeptAlways
<1>5. CASE PeerSend
  <2>1. /\ sent < Len(script) /\ wire' = wire \o script[sent + 1].bytes /\ sent' = sent + 1
        /\ UNCHANGED <<events, replies>>
    BY <1>5 DEF PeerSend, SendNext, hist
  <2>2. PICK s \in Seq(Message), n \in Nat, j \in Nat : s = script /\ n = sent /\ j = n + 1 /\ j <= Len(s)
    <3>1. script \in Seq(Message) /\ sent \in Nat /\ Len(script) \in Nat
      BY HistoryType, LenProperties
    <3>2. sent + 1 \in Nat /\ sent + 1 <= Len(script)
      BY <2>1, <3>1
    <3> QED BY <3>1, <3>2
  <2>3. Balance(events, replies, wire \o s[j].bytes, s, j)
    BY <1>3, <1>4, <2>2, BalanceSend
  <2> QED BY <1>1, <2>1, <2>2, <2>3
<1>6. CASE UNCHANGED <<sent, wire, replies, events>>
  BY <1>1, <1>3, <1>6
<1>7. ASSUME NEW n \in 1 .. RecvMax, OnHttpRecv(n)
      PROVE  Balance(events', replies', wire', script', sent')
  <2>1. /\ pc = "recv" /\ mode = "http" /\ n <= Len(wire) /\ wire' = Consume(wire, n)
        /\ UNCHANGED <<sent, events, replies>>
    BY <1>7 DEF OnHttpRecv, hist
  <2>2. SentOf(script, sent, Contentful) = <<>> /\ SentOf(script, sent, {"ping"}) = <<>>
    <3>1. Contentful \subseteq Frames /\ {"ping"} \subseteq Frames
      BY DEF Contentful, Frames
    <3> QED BY <1>2, <2>1, <3>1, NoFrameSent
  <2>3. n \in 0 .. Len(wire)
    BY <1>4, <2>1, RecvMaxAssumption, LenProperties DEF Kept
  <2>4. Balance(events, replies, Consume(wire, n), script, sent)
    BY <1>3, <1>4, <2>2, <2>3, BalanceRead
  <2> QED BY <1>1, <2>1, <2>4
<1>8. CASE Identify
  <2>1. UNCHANGED <<sent, wire, events>> /\ (replies' = replies \/ replies' = Append(replies, "404"))
    BY <1>8 DEF Identify, peer
  <2>2. Balance(events, Append(replies, "404"), wire, script, sent)
    BY <1>3, <1>4, BalanceOther
  <2> QED BY <1>1, <1>3, <2>1, <2>2
<1>9. CASE OnWebSocket
  <2>1. UNCHANGED <<sent, wire, replies>> /\ (events' = events \/ events' = Append(events, "open"))
    BY <1>2, <1>9 DEF OnWebSocket, peer
  <2>2. Balance(Append(events, "open"), replies, wire, script, sent)
    BY <1>3, <1>4, BalanceOther
  <2> QED BY <1>1, <1>3, <2>1, <2>2
<1>10. ASSUME NEW keep \in BOOLEAN, WsOpenReturn(keep)
       PROVE  Balance(events', replies', wire', script', sent')
  <2>1. UNCHANGED <<sent, wire, events>> /\ replies' = Append(replies, "101")
    BY <1>10 DEF WsOpenReturn, Switch, peer
  <2>2. Balance(events, Append(replies, "101"), wire, script, sent)
    BY <1>3, <1>4, BalanceOther
  <2> QED BY <1>1, <2>1, <2>2
<1>11. CASE OnWsRecv
  <2> DEFINE op == Head(wire)[1]
  <2>1. /\ wire # <<>> /\ wire' = Tail(wire) /\ sent' = sent
        /\ \/ op = "ping" /\ replies' = Append(replies, "pong") /\ events' = events
           \/ op \in Contentful /\ events' = Append(events, op) /\ replies' = replies
           \/ op # "ping" /\ op \notin Contentful /\ UNCHANGED <<events, replies>>
    <3>1. /\ wire # <<>> /\ wire' = Tail(wire) /\ sent' = sent
      BY <1>11 DEF OnWsRecv
    <3>2. CASE op = "ping"
      BY <1>11, <3>1, <3>2 DEF OnWsRecv
    <3>3. CASE op = "pong"
      BY <1>11, <3>1, <3>3 DEF OnWsRecv, Contentful
    <3>4. CASE op \in {"content", "close"}
      <4>1. op # "ping" /\ op # "pong"
        BY <3>4
      <4> QED BY <1>11, <3>1, <3>4, <4>1 DEF OnWsRecv, Contentful
    <3>5. CASE op # "ping" /\ op # "pong" /\ op \notin {"content", "close"}
      BY <1>11, <3>1, <3>5 DEF OnWsRecv, Contentful
    <3> QED BY <3>2, <3>3, <3>4, <3>5
  <2> HIDE DEF op
  <2>2. /\ op \in Contentful => Balance(Append(events, op), replies, Tail(wire), script, sent)
        /\ op = "ping" => Balance(events, Append(replies, "pong"), Tail(wire), script, sent)
        /\ op \notin Contentful /\ op # "ping" => Balance(events, replies, Tail(wire), script, sent)
    BY <1>3, <1>4, <2>1, BalanceFrame DEF op
  <2> QED BY <1>1, <2>1, <2>2
<1>12. CASE \/ PeerClose \/ RecvFail \/ Dispatch \/ Ended \/ UNCHANGED vars
            \/ \E keep \in BOOLEAN : RoutineReturn(keep) \/ WsEventReturn(keep)
  <2>1. UNCHANGED <<sent, wire, replies, events>>
    BY <1>12 DEF PeerClose, RecvFail, Dispatch, Ended, RoutineReturn, WsEventReturn, vars, peer, conn, hist
  <2> QED BY <1>6, <2>1
<1> QED BY <1>5, <1>7, <1>8, <1>9, <1>10, <1>11, <1>12 DEF Next, Coroutine, Application

\* Nothing was sent at first.
LEMMA InitBalance == Init => OneByOne /\ FramesOnce
<1> SUFFICES ASSUME Init PROVE OneByOne /\ FramesOnce
  OBVIOUS
<1>1. /\ sent = 0 /\ done = 0 /\ wire = <<>> /\ replies = <<>> /\ events = <<>>
      /\ script \in Seq(Message)
  BY ScriptAssumption DEF Init
<1>2. OneByOne
  <2>1. 1 .. done = {} /\ sent <= done + 1
    BY <1>1
  <2> QED BY <2>1 DEF OneByOne
<1>3. \A ops : Tagged(<<>>, ops) = <<>>
  BY TaggedEmpty
<1>4. AsFrames(<<>>) = <<>>
  <2>1. AsFrames(<<>>) = [i \in DOMAIN <<>> |-> Frame(<<>>[i])]
    BY DEF AsFrames
  <2>2. [i \in DOMAIN <<>> |-> Frame(<<>>[i])] = <<>>
    OBVIOUS
  <2> QED BY <2>1, <2>2
<1>5. ASSUME NEW ops PROVE SentOf(script, sent, ops) = <<>>
  <2>1. 0 \in Nat /\ 0 <= Len(script)
    BY <1>1, LenProperties
  <2>2. SentOf(script, 0, ops) = <<>>
    BY <1>1, <2>1, SentMore
  <2> QED BY <1>1, <2>2
<1>6. <<>> \o <<>> = <<>> /\ Len(<<>>) + Len(<<>>) = Len(<<>>)
  OBVIOUS
<1>7. Balance(events, replies, wire, script, sent)
  BY <1>1, <1>3, <1>4, <1>5, <1>6, Zenon DEF Balance
<1> QED BY <1>2, <1>7, FramesOnceIs

\* Messages are sent one by one until an upgrade is answered.
LEMMA NextOneByOne ==
  ASSUME IInv, Upgraded, Switches, Conversing, SocketWell(script), OneByOne, [Next]_vars
  PROVE  OneByOne'
<1>1. script' = script
  BY ScriptKept
<1>2. SUFFICES ASSUME script \in WsServed, mode' = "http", pc' # "closed"
               PROVE  /\ sent' <= done' + 1
                      /\ \A i \in 1 .. done' : script[i].kind # "WEBSOCKET"
  BY <1>1 DEF OneByOne
<1>3. /\ script \in Seq(Message) /\ sent \in Nat /\ done \in Nat /\ sent <= Len(script) /\ Len(script) \in Nat
      /\ mode \in {"http", "ws"}
  BY HistoryType, LenProperties DEF IInv, TypeOK
<1>4. ASSUME UNCHANGED <<sent, done>>, mode = "http", pc # "closed"
      PROVE  sent' <= done' + 1 /\ \A i \in 1 .. done' : script[i].kind # "WEBSOCKET"
  BY <1>2, <1>4 DEF OneByOne
<1>5. CASE PeerSend
  <2>1. /\ sent' = sent + 1 /\ UNCHANGED <<mode, pc, done, replies>>
        /\ sent = done \/ \E i \in DOMAIN replies : replies[i] = "101"
    BY <1>5 DEF PeerSend, SendNext, conn, hist
  <2>2. \A i \in DOMAIN replies : replies[i] # "101"
    BY <1>2, <2>1 DEF Upgraded
  <2>3. sent = done
    BY <2>1, <2>2
  <2>4. \A i \in 1 .. done : script[i].kind # "WEBSOCKET"
    BY <1>2, <2>1 DEF OneByOne
  <2> QED BY <1>3, <2>1, <2>3, <2>4
<1>6. CASE PeerClose \/ Ended \/ UNCHANGED vars
  <2>1. UNCHANGED <<sent, done, mode, pc>>
    BY <1>6 DEF PeerClose, Ended, vars, peer, conn, hist
  <2> QED BY <1>2, <1>4, <2>1
<1>7. CASE (\E n \in 1 .. RecvMax : OnHttpRecv(n)) \/ Identify \/ Dispatch \/ OnWsRecv
  <2>1. UNCHANGED <<sent, done, mode>> /\ pc # "closed"
    BY <1>7 DEF OnHttpRecv, Identify, Dispatch, OnWsRecv, peer, hist
  <2> QED BY <1>2, <1>4, <2>1
<1>8. CASE RecvFail
  BY <1>2, <1>8 DEF RecvFail, Close
<1>9. CASE OnWebSocket
  <2>1. pc = "dispatch" /\ UNCHANGED <<sent, mode>>
    BY <1>9 DEF OnWebSocket, peer
  <2>2. done' = done
    BY <1>2, <1>9 DEF OnWebSocket
  <2> QED BY <1>2, <1>4, <2>1, <2>2
<1>10. ASSUME NEW keep \in BOOLEAN, WsOpenReturn(keep) PROVE FALSE
  BY <1>2, <1>10 DEF WsOpenReturn
<1>11. ASSUME NEW keep \in BOOLEAN, WsEventReturn(keep)
       PROVE  sent' <= done' + 1 /\ \A i \in 1 .. done' : script[i].kind # "WEBSOCKET"
  <2>1. pc = "wsevent" /\ UNCHANGED <<sent, done, mode>>
    BY <1>11 DEF WsEventReturn, peer
  <2> QED BY <1>2, <1>4, <2>1
<1>12. ASSUME NEW keep \in BOOLEAN, RoutineReturn(keep)
       PROVE  sent' <= done' + 1 /\ \A i \in 1 .. done' : script[i].kind # "WEBSOCKET"
  <2>1. pc = "routine" /\ UNCHANGED <<sent, mode>> /\ (done' = done \/ done' = done + 1)
    BY <1>12 DEF RoutineReturn, peer
  <2>2. CASE done' = done
    BY <1>2, <1>4, <2>1, <2>2
  <2>3. CASE done' = done + 1
    <3>1. AllWell(script, sent)
      BY <1>2, <1>3 DEF SocketWell, AllWell
    <3>2. Talk
      BY <2>1, <3>1 DEF Conversing
    <3>3. Serving
      BY <2>1, <3>2 DEF Talk, Idle, Awaiting, OnSocket
    <3>4. sent = done + 1 /\ script[done + 1].kind # "WEBSOCKET"
      BY <3>3 DEF Serving, Serves
    <3>5. \A i \in 1 .. done : script[i].kind # "WEBSOCKET"
      BY <1>2, <2>1 DEF OneByOne
    <3>6. \A i \in 1 .. done + 1 : i \in 1 .. done \/ i = done + 1
      BY <1>3
    <3>7. \A i \in 1 .. done' : script[i].kind # "WEBSOCKET"
      BY <2>3, <3>4, <3>5, <3>6
    <3>8. sent' <= done' + 1
      BY <1>3, <2>1, <2>3, <3>4
    <3> QED BY <3>7, <3>8
  <2> QED BY <2>1, <2>2, <2>3
<1> QED BY <1>5, <1>6, <1>7, <1>8, <1>9, <1>10, <1>11, <1>12 DEF Next, Coroutine, Application

\* web_server.cc:on_ws_recv: on a connection to a server with a websocket handler whose peer sends
\* requests and frames as this library does, and frames only behind an upgrade, the frames with
\* content are handed over once and in order and every ping is answered by one pong, whatever the
\* handler returns, wherever the bytes are cut and whatever is sent behind the upgrade.
THEOREM FramesAlwaysOnce == Spec /\ SocketWell(script) => []FramesOnce
<1>1. Init => Upgraded /\ OneByOne /\ FramesOnce
  BY InitUpgraded, InitBalance
<1>2. IInv /\ Switches /\ Conversing /\ SocketWell(script) /\ (Upgraded /\ OneByOne /\ FramesOnce) /\ [Next]_vars
        => (Upgraded /\ OneByOne /\ FramesOnce)'
  BY NextUpgraded, NextOneByOne, NextBalance
<1>3. SocketWell(script) /\ [Next]_vars => SocketWell(script)'
  BY ScriptKept
<1> QED BY <1>1, <1>2, <1>3, AlwaysConversing, PTL DEF Spec
=============================================================================
