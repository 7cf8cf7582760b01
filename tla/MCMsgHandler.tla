---------------------------- MODULE MCMsgHandler ----------------------------
(***************************************************************************)
(* Instances of MsgHandler for TLC: the peers and their scripts.           *)
(***************************************************************************)
EXTENDS MsgHandler, HttpSender

MCUrls == {"/post", "/get", "/none", "another word"}
MCRoute == [u \in MCUrls |-> IF u \in {"/none", "another word"} THEN "no routine" ELSE "routine of " \o u]
MCRoutines == {"routine of /post", "routine of /get"}
MCGarbage == {-1, 0, 7}
ZeroGarbage == {0}

x == <<Byte("x")>>
yz == <<Byte("y"), Byte("z")>>

\* A message to a url, sent the way HttpClient sends it.
Msg(u, kind, body) ==
  [kind     |-> kind,
   bytes    |-> Encode(Line(u), kind, body, "B"),
   contents |-> IF MCRoute[u] = "no routine" THEN <<>>
                ELSE [i \in DOMAIN Packets(kind, body) |->
                        <<MCRoute[u], Packets(kind, body)[i]>>]]

FrameMsg(op) == [kind |-> "FRAME", bytes |-> <<Frame(op)>>, contents |-> <<>>]

Get      == Msg("/get", "NORMAL", <<>>)
Post     == Msg("/post", "NORMAL", <<yz>>)
Unknown  == Msg("/none", "NORMAL", <<x>>)
Chunks   == Msg("/post", "CHUNK", <<x, yz>>)
NoChunks == Msg("/post", "CHUNK", <<>>)
Parts    == Msg("/post", "BOUNDARY", <<yz, x>>)
WsOpen   == Msg("/get", "WEBSOCKET", <<>>)

\* Requests with a content length or without a body, in any order.
PlainScripts == [1 .. 3 -> {Get, Post, Unknown}]

\* Streamed requests followed by another request.
StreamScripts == {<<m, n>> : m \in {Chunks, NoChunks, Parts}, n \in {Get, Chunks, Parts}}

\* The upgrade, alone or after a request, then frames.
WsScripts == {<<WsOpen, FrameMsg(f), FrameMsg(g), FrameMsg(h)>> :
                f \in Frames, g \in {"content", "ping"}, h \in {"content", "close"}}
             \cup {<<Post, WsOpen, FrameMsg(f)>> : f \in {"content", "reserved"}}

\* A body that mentions a header.
TextScripts == {<<Msg("/post", "NORMAL", <<<<Byte("x"), Chunked>>>>)>>,
                <<Msg("/post", "NORMAL", <<<<Upgrade, WebSocket>>>>)>>}

\* Messages that the code rejects, with the contents they carry up to there;
\* the upgrade is for a server without websocket handler.
Malformed(items, rest, contents) ==
  [kind |-> "INVALID", bytes |-> Header(Line("/post"), items) \o rest,
   contents |-> [i \in DOMAIN contents |-> <<MCRoute["/post"], contents[i]>>]]

MalformedScripts ==
  {<<Malformed(<<ContentLen(-1)>>, x, <<>>)>>,
   <<Malformed(<<Multipart(NoBoundary)>>, <<>>, <<>>)>>,
   <<Malformed(<<Chunked>>, SendChunkBody(yz) \o HTTP_SEP, <<yz>>)>>,
   <<Malformed(<<Chunked>>, <<Size(-1)>> \o HTTP_SEP \o x \o HTTP_SEP, <<>>)>>,
   <<Malformed(<<Upgrade, WebSocket>>, <<>>, <<>>)>>,
   <<[kind |-> "INVALID", bytes |-> Header(Status(200), <<>>), contents |-> <<>>]>>,
   <<WsOpen, FrameMsg("content")>>}

HttpScripts == PlainScripts \cup StreamScripts \cup MalformedScripts
AllScripts == HttpScripts \cup WsScripts
NoScripts == {}
=============================================================================
