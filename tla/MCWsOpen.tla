------------------------------ MODULE MCWsOpen ------------------------------
(***************************************************************************)
(* Instances of WsOpen for TLC: a url for each kind of server.              *)
(***************************************************************************)
EXTENDS WsOpen

MCNoCode == -1
MCGarbage == {-1, 7}
MCUrls == {"/loud", "/quiet", "/plain", "/none", "another word"}
MCRoute == [u \in MCUrls |-> IF u \in {"/none", "another word"} THEN "no routine" ELSE "routine"]

\* The open packet, then frames of the client.
Script(u, ops) ==
  <<[kind |-> "WEBSOCKET", bytes |-> OpenPacket(u), contents |-> <<>>]>>
    \o [i \in DOMAIN ops |-> [kind |-> "FRAME", bytes |-> <<Frame(ops[i])>>,
                              contents |-> <<>>]]

QuietScripts  == {Script("/quiet", <<"ping", "content">>)}
ServedScripts == QuietScripts \cup {Script("/loud", <<"content", "ping">>)}
MCScripts     == ServedScripts \cup {Script("/plain", <<"content">>), Script("/none", <<>>)}

\* A frame without blanks, which becomes part of the word it touches, and one with a
\* blank.
MCPushes == {<<Byte("x"), Byte("y")>>, <<Byte("z")>>, <<Frame("content")>>}
=============================================================================
