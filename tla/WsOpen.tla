------------------------------- MODULE WsOpen -------------------------------
(***************************************************************************)
(* WsClient::open (src/ws_client.cc) against the server: the connection of *)
(* MsgHandler and the temporary HttpClient that open makes, put together.  *)
(* The variables of MsgHandler are the server's; wire is what the client   *)
(* sent and the server has not received, down the other direction.         *)
(*                                                                         *)
(* The application of the server has its WsClient from the open event on   *)
(* and may send frames with it at any time, before the answer to the       *)
(* upgrade too.  A frame of the server is a sequence of symbols, because   *)
(* the client may receive it in pieces.  The connection may not come about,*)
(* and may break as long as open runs.  The stages of the client are       *)
(*   "closed"   open is not called yet                                     *)
(*   "linked"   the TCP connection is made                                 *)
(*   "asking"   open is inside request                                     *)
(*   "open"     open has returned TARO_OK                                  *)
(*   "failed"   open has returned an error                                 *)
(***************************************************************************)
EXTENDS MsgHandler, HttpSender

CONSTANTS NoCode,    \* as in HttpClient
          Pushes,    \* the frames that the server's application may send
          MaxPushes, \* bound on their number
          Quiet      \* the scripts against which it sends none before it gets one

\* create_open_packet.
OpenPacket(u) == Encode(Line(u), "WEBSOCKET", <<>>, NoBoundary)

\* What a client sends first is its open packet.
ASSUME OpenAssumption == /\ \A s \in Scripts : /\ s # <<>>
                                              /\ \E u \in Urls : s[1].bytes = OpenPacket(u)
                         /\ {101, 404} \subseteq Codes
                         /\ "x" \in Data
                         /\ NoCode \notin Codes \cup {0}
ASSUME PushAssumption == /\ \A f \in Pushes : f \in Seq(Symbol)
                         /\ MaxPushes \in Nat
                         /\ Quiet \subseteq Scripts

VARIABLES
  down,     \* the symbols that the server sent and the client has not received
  shut,     \* the server has closed the connection, or it breaks
  broken,   \* it breaks
  asks,     \* what answers the requests of the temporary client: one, to the upgrade
  served,   \* how many answers were sent
  linked,   \* the members of the temporary HttpClient and its coroutine
  cpc,
  asked,
  cparser,
  resp,
  results,
  stage,    \* where open is
  pushed,   \* how many frames the server's application has sent
  framed,   \* the symbols of all frames that the server has sent
  early,    \* one of them was sent before the answer
  received  \* the symbols that WsClient::recv has read

temp    == <<linked, cpc, asked, cparser, resp, results>>
client  == <<shut, broken, asks, temp, stage, received>>
allVars == <<vars, down, served, pushed, framed, early, client>>

Answer101  == <<Status(101)>> \o HTTP_SEP \o <<Upgrade, WebSocket>> \o HTTP_SEP
                \o <<WebSocket>> \o HTTP_SEP \o HTTP_SEP
Answer404  == Header(Status(404), <<ContentLen(1)>>) \o <<Byte("x")>>

Client == INSTANCE HttpClient
  WITH Scripts <- {<<Answer101>>}, Timed <- {}, Hasty <- {}, MaxCalls <- 1,
       script <- asks, wire <- down, gone <- shut, pc <- cpc, parser <- cparser

OpenInit ==
  /\ Init
  /\ down = <<>>
  /\ shut = FALSE
  /\ broken = FALSE
  /\ asks = <<Answer101>>
  /\ served = 0
  /\ linked = FALSE
  /\ cpc = "idle"
  /\ asked = 0
  /\ cparser \in {NewParser(g) : g \in Garbage}
  /\ resp = NoCode
  /\ results = <<>>
  /\ stage = "closed"
  /\ pushed = 0
  /\ framed = <<>>
  /\ early = FALSE
  /\ received = <<>>
-----------------------------------------------------------------------------
(* WsClient::open. *)

\* The TCP client is made and connected; client_ is not set yet.
OpenConnect ==
  /\ stage = "closed"
  /\ stage' = "linked"
  /\ Client!Connect
  /\ UNCHANGED <<vars, broken, pushed, framed, early, received>>

\* It is not connected, and open returns TARO_ERR_FAILED.
OpenRefused ==
  /\ stage = "closed"
  /\ stage' = "failed"
  /\ UNCHANGED <<vars, down, served, shut, broken, asks, temp, pushed, framed, early, received>>

\* request: the packet of create_open_packet is sent.
OpenAsk ==
  /\ stage = "linked"
  /\ stage' = "asking"
  /\ SendNext
  /\ Client!Request
  /\ UNCHANGED <<broken, pushed, framed, early, received>>

\* It cannot be sent, and open returns TARO_ERR_FAILED.
OpenUnsent ==
  /\ stage = "linked"
  /\ stage' = "failed"
  /\ Client!RequestUnsent
  /\ UNCHANGED <<vars, broken, pushed, framed, early, received>>

\* The connection breaks before open has returned.  Either end goes on until it
\* finds out, and what is on its way to it by then may arrive or be lost.
Break ==
  /\ stage \in {"linked", "asking"}
  /\ ~broken
  /\ broken' = TRUE
  /\ shut' = TRUE
  /\ PeerClose
  /\ UNCHANGED <<down, served, asks, temp, stage, pushed, framed, early, received>>

\* request waits for the answer.
OpenWait ==
  /\ stage = "asking"
  /\ Client!Coroutine
  /\ UNCHANGED <<vars, broken, stage, pushed, framed, early, received>>

\* Mutant of OpenReturn: what request returns is not looked at.
OpenReturnAnyway ==
  /\ stage = "asking"
  /\ stage' = "open"
  /\ UNCHANGED <<vars, down, served, shut, broken, asks, temp, pushed, framed, early,
                 received>>

\* The checks of the answer; that of a server of this library passes the last
\* two when its code is 101.  Only now is client_ set.  The temporary client and
\* what it has buffered are forgotten, and with an error the connection, too.
OpenReturn ==
  /\ stage = "asking"
  /\ cpc = "idle"
  /\ IF Last(results).ret = "OK" /\ Last(results).code = 101
     THEN stage' = "open" /\ UNCHANGED vars
     ELSE stage' = "failed" /\ (PeerClose \/ (gone /\ UNCHANGED vars))
  /\ UNCHANGED <<down, served, shut, broken, asks, temp, pushed, framed, early, received>>
-----------------------------------------------------------------------------
(* The open client. *)

\* WsClient::send sends the next frame; the connection may be closed.
ClientFrame == /\ stage = "open"
               /\ SendNext \/ PeerClose
               /\ UNCHANGED <<down, served, client, pushed, framed, early>>

\* WsClient::recv reads what has arrived.
ClientRecv == /\ stage = "open"
              /\ down # <<>>
              /\ down' = Tail(down)
              /\ received' = Append(received, Head(down))
              /\ UNCHANGED <<vars, served, shut, broken, asks, temp, stage, pushed, framed,
                             early>>
-----------------------------------------------------------------------------
(* The server. *)

\* A step of the connection, with what it sends to the client.
ServerStep ==
  /\ Coroutine \/ Application
  /\ LET reply == IF replies' = replies THEN "none" ELSE Last(replies')
     IN /\ down' = down \o CASE reply = "101"  -> Answer101
                             [] reply = "404"  -> Answer404
                             [] reply = "pong" -> <<Frame("pong")>>
                             [] reply = "none" -> <<>>
        /\ framed' = IF reply = "pong" THEN Append(framed, Frame("pong")) ELSE framed
        /\ served' = IF reply \in {"101", "404"} THEN served + 1 ELSE served
  /\ UNCHANGED <<client, pushed, early>>

Switched == \E i \in DOMAIN replies : replies[i] = "101"

\* The application of the server sends its next frame, inside the handler or in a
\* coroutine of its own.
HandlerSends ==
  /\ events # <<>>
  /\ script \in Quiet => Len(events) > 1
  /\ pushed < MaxPushes
  /\ pushed' = pushed + 1
  /\ \E f \in Pushes : down' = down \o f /\ framed' = framed \o f
  /\ early' = (early \/ ~Switched)
  /\ UNCHANGED <<vars, served, client>>

\* The coroutine of the connection has returned, and the TCP client is closed.
Shut == /\ pc = "closed"
        /\ ~shut
        /\ shut' = TRUE
        /\ UNCHANGED <<vars, down, served, broken, asks, temp, stage, pushed, framed, early,
                       received>>

\* Both ends wait for each other.
Silent == cpc = "recv" /\ pc = "recv" /\ down = <<>> /\ wire = <<>>

\* open has returned, or both ends wait: whether that can be is what Opens tells.
OpenEnded == (stage \in {"open", "failed"} \/ Silent) /\ UNCHANGED allVars

OpenNext == \/ OpenConnect \/ OpenRefused \/ OpenAsk \/ OpenUnsent \/ OpenWait \/ OpenReturn
            \/ Break
            \/ ClientFrame \/ ClientRecv \/ ServerStep \/ HandlerSends \/ Shut \/ OpenEnded

OpenSpec == OpenInit /\ [][OpenNext]_allVars

\* The schedulers of both ends resume their coroutines.
OpenFairSpec == /\ OpenSpec
                /\ WF_allVars(OpenWait) /\ WF_allVars(OpenReturn)
                /\ WF_allVars(ServerStep) /\ WF_allVars(Shut)
-----------------------------------------------------------------------------
(* Properties. *)

\* Both ends agree: when open returns TARO_OK the server has answered the upgrade
\* and, if it has a websocket handler, handed over one open event and switched; and
\* open fails only when the connection was not made or broke, when there is no
\* routine for the url, or when a frame of the server overtook the answer.
OpenAgrees ==
  /\ stage = "open" =>
       /\ Switched
       /\ script \in WsServed =>
            mode = "ws" /\ events[1] = "open"
              /\ \A i \in DOMAIN events : i > 1 => events[i] # "open"
  /\ stage = "failed" =>
       ~linked \/ broken \/ early \/ \E i \in DOMAIN replies : replies[i] = "404"

\* The frames of the server reach the user of the client in order, and without a
\* gap once the first symbol was read: lost are only frames, or the beginning of a
\* frame, at the start of the connection.  Nothing is lost when the client speaks
\* first.
FramesKept ==
  stage = "open" /\ script \in WsServed =>
    /\ IsSuffix(received \o down, framed)
    /\ script \in Quiet => received \o down = framed

\* Nothing is left in the parser of the server when it switches to frames: what
\* came behind the upgrade would be lost there.
NothingBehindUpgrade == mode = "ws" => parser.pkts = <<>>

\* open returns.
Opens == stage = "asking" ~> stage \in {"open", "failed"}
=============================================================================
