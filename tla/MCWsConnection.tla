--------------------------- MODULE MCWsConnection ---------------------------
(***************************************************************************)
(* Instances of WsConnection for TLC.  The sizes are 2, 3 and 4, so that    *)
(* the messages below have headers of every form and one to three frames.  *)
(***************************************************************************)
EXTENDS WsConnection

MCKeys == {<<1, 130, 3, 255>>}

Msg(type, n, masked) ==
  [type |-> type, data |-> [i \in 1 .. n |-> 16 * n + i], masked |-> masked]

\* Two senders, of which the second sends a message or none.
Both(msgs, others) == ("s1" :> msgs) @@ ("s2" :> others)
Alone(msgs) == Both(msgs, <<>>)

Content == {Msg(1, n, masked) : n \in {0, 2, 3, 4, 5, 8, 9}, masked \in BOOLEAN}
Control == {Msg(9, n, masked) : n \in {0, 2}, masked \in BOOLEAN}
             \cup {Msg(10, 1, FALSE), Msg(8, 0, TRUE), Msg(11, 1, FALSE)}

\* Two messages, of which one may be a control frame; and pings that another coroutine
\* of the peer sends, also between the frames of a message.
WholeScripts ==
  {Alone(<<a, b>>) : a \in Content \cup Control, b \in {Msg(1, 3, TRUE), Msg(2, 9, FALSE)}}
    \cup {Alone(<<Msg(1, 5, TRUE), b>>) : b \in Control}
    \cup {Both(<<Msg(1, 9, TRUE), Msg(2, 5, FALSE)>>, <<Msg(9, n, TRUE)>>) : n \in {0, 2}}
    \cup {Both(<<Msg(2, 8, FALSE)>>, <<Msg(9, 3, FALSE), Msg(9, 2, TRUE)>>)}

\* Data that look like the two bytes of a header.
Fake(b) == [Msg(2, 2, FALSE) EXCEPT !.data = <<129, b>>]

\* Short messages that come in pieces.  In the last three scripts a receiver that has
\* lost bytes may take data for a header: with the mask bit; with eight bytes of
\* length, of which the fifth may be the first of a frame, 129; with both.
PieceScripts ==
  {Alone(<<Msg(2, m, FALSE), Msg(1, n, FALSE)>>) : m, n \in 1 .. 3}
    \cup {Alone(<<Msg(2, 3, FALSE), Fake(7), Msg(1, 2, FALSE)>>),
          Alone(<<Fake(4), Msg(2, 2, FALSE), Msg(1, 2, FALSE), Msg(1, 1, FALSE)>>),
          Alone(<<Fake(132), Msg(2, 2, FALSE), Msg(1, 2, FALSE), Msg(1, 3, FALSE)>>)}

\* Messages in one to three frames, and a ping, on a connection that may break.
FragileScripts ==
  {Alone(<<Msg(1, m, TRUE), Msg(2, n, FALSE)>>) : m \in {2, 8}, n \in {4, 9}}
    \cup {Alone(<<Msg(1, 5, TRUE), Msg(9, 2, TRUE)>>), Alone(<<Msg(2, 2, FALSE), Msg(1, 1, FALSE)>>)}

\* All, for a run in which only the second kind is cut and the third may break.
AllScripts == WholeScripts \cup PieceScripts \cup FragileScripts
NoScripts == {}

\* Two coroutines that send messages at the same time.
TwoScripts == {("s1" :> <<Msg(1, 6, FALSE)>>) @@ ("s2" :> <<Msg(2, n, TRUE)>>) : n \in {1, 5}}
=============================================================================
