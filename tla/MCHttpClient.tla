---------------------------- MODULE MCHttpClient ----------------------------
(***************************************************************************)
(* Instances of HttpClient for TLC: the servers and their answers.         *)
(***************************************************************************)
EXTENDS HttpClient, HttpSender

MCNoCode == -1
MCGarbage == {-1, 7}

x == <<Byte("x")>>
yz == <<Byte("y"), Byte("z")>>

\* An answer, sent the way a routine sends it.
Resp(code, kind, body) ==
  LET packets == IF kind = "WEBSOCKET" THEN <<Null>> ELSE Packets(kind, body)
  IN [kind     |-> kind,
      bytes    |-> Encode(Status(code), kind, body, "B"),
      contents |-> [i \in DOMAIN packets |-> <<code, packets[i]>>]]

Empty  == Resp(404, "NORMAL", <<>>)
Page   == Resp(200, "NORMAL", <<yz>>)
Chunks == Resp(200, "CHUNK", <<x, yz>>)
Parts  == Resp(200, "BOUNDARY", <<yz, x>>)
Switch == Resp(101, "WEBSOCKET", <<>>)

\* A response that is not a response.
Garbled == [kind |-> "INVALID", bytes |-> HTTP_SEP \o Header(Status(200), <<>>),
            contents |-> <<>>]

\* Every kind of response, a response without content before another, and one
\* behind a streamed one; the calls have no timeout.
PlainScripts == {<<Empty, Page>>, <<Page, Chunks>>, <<Switch, Parts>>,
                 <<Chunks, Empty>>}

\* Answers to calls that may time out and are then repeated.
PatientScripts == {<<Page, Chunks>>, <<Empty, Parts>>, <<Parts, Empty>>}

\* Answers to an application that may ask on after a timeout, so that two of them
\* may be buffered together.  The kind of the first is one that parse_header looks
\* for before the kind of the second: it searches all that is buffered, and would
\* else give the first answer the kind of the second, which is another question.
HastyScripts == {<<Page, Page>>, <<Empty, Empty>>, <<Chunks, Page>>, <<Parts, Page>>,
                 <<Chunks, Parts>>, <<Switch, Page>>}

\* Responses that are not well formed, with what they carry up to there.  The
\* chunk behind the wrong size is whole, and so is the rest of that message.
BadChunk == [kind |-> "INVALID", contents |-> <<>>,
             bytes |-> Header(Status(200), <<Chunked>>) \o <<Size(-1)>> \o HTTP_SEP
                         \o x \o HTTP_SEP \o SendChunkBody(Null)]
BadChunks == [kind |-> "INVALID", contents |-> <<>>, bytes |-> HTTP_SEP \o Chunks.bytes]
BadScripts == {<<Page, Garbled>>, <<Garbled, Page>>, <<BadChunk>>, <<BadChunks>>}

\* Answers that may time out, and all of them.
TimedAnswers == PatientScripts \cup HastyScripts \cup BadScripts
AllScripts == PlainScripts \cup TimedAnswers
=============================================================================
