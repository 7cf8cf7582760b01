----------------------------- MODULE HttpClient -----------------------------
(***************************************************************************)
(* The class HttpClient (src/http_client.cc) on the asking side: connect,  *)
(* send_req, recv_resp and request, with the server that answers.  One     *)
(* coroutine of the application uses the client.                           *)
(*                                                                         *)
(* The coroutine waits only in client_->recv.  The control point pc is     *)
(*   "idle"   the application runs                                         *)
(*   "loop"   at the top of the loop of recv_resp                          *)
(*   "body"   in the same loop, with a header that is known                *)
(*   "recv"   in recv_func                                                 *)
(*                                                                         *)
(* The server sends one answer of its script for each request, in order.   *)
(* An answer has a kind, its bytes and the contents it carries, as pairs   *)
(* <<code, packet>>.                                                       *)
(***************************************************************************)
EXTENDS HttpProtoPaser, SequencesExt

CONSTANTS NoCode,   \* no response has been decoded
          Scripts,  \* what a server may answer
          Garbage,  \* what uninitialised memory may hold
          RecvMax,  \* default_pack_size, 1024 in the code
          Timed,    \* those against which recv_resp is called with a timeout, ms > 0
          Hasty,    \* those whose application asks the next request although a call
                    \* ended with TARO_ERR_DISCONNECT; the others call recv_resp again
          MaxCalls  \* bound on the calls of recv_resp

Content == (Codes \cup {0}) \X Seq(Symbol)
Answer  == [kind : Types, bytes : Seq(Symbol), contents : Seq(Content)]
Rets    == {"OK", "DISCONNECT", "FORMAT", "FAILED", "UNSENT"}

ASSUME CodeAssumption    == NoCode \notin Codes \cup {0}
ASSUME GarbageAssumption == Garbage \subseteq Int
ASSUME RecvMaxAssumption == RecvMax \in Nat \ {0}
ASSUME ScriptAssumption  == /\ \A s \in Scripts : s \in Seq(Answer)
                            /\ Timed \subseteq Scripts
                            /\ Hasty \subseteq Scripts
                            /\ MaxCalls \in Nat

VARIABLES
  script,   \* the answers of this server
  served,   \* how many of them it has sent
  wire,     \* the symbols sent and not received yet
  gone,     \* whether the server has closed the connection
  linked,   \* client_ is not null
  pc,       \* where the coroutine is
  asked,    \* how many requests were sent
  parser,   \* parser_
  resp,     \* resp_: the code of the response that is being read, or NoCode
  results   \* what recv_resp returned, and for which request it was called

server == <<script, served, wire, gone>>
client == <<linked, pc, asked, parser, resp, results>>
vars   == <<server, client>>

Init ==
  /\ script \in Scripts
  /\ served = 0
  /\ wire = <<>>
  /\ gone = FALSE
  /\ linked = FALSE
  /\ pc = "idle"
  /\ asked = 0
  /\ parser \in {NewParser(g) : g \in Garbage}
  /\ resp = NoCode
  /\ results = <<>>
-----------------------------------------------------------------------------
(* The server. *)

SendAnswer ==
  /\ ~gone
  /\ served < asked
  /\ wire' = wire \o script[served + 1].bytes
  /\ served' = served + 1
  /\ UNCHANGED <<script, gone, client>>

ServerClose ==
  /\ linked
  /\ ~gone
  /\ gone' = TRUE
  /\ UNCHANGED <<script, served, wire, client>>
-----------------------------------------------------------------------------
(* The application. *)

\* connect: client_ is set only when the connection is made, and once.
Connect ==
  /\ pc = "idle"
  /\ ~linked
  /\ linked' = TRUE
  /\ UNCHANGED <<server, pc, asked, parser, resp, results>>

\* The last call of recv_resp failed.
Failed == results # <<>> /\ Last(results).ret # "OK"

\* A call returns to the application.
Return(ret, code, packet) ==
  /\ pc' = "idle"
  /\ results' = Append(results, [ret |-> ret, code |-> code, packet |-> packet,
                                 request |-> asked])

\* It failed because the time was over or the connection was broken.
CutShort == results # <<>> /\ Last(results).ret = "DISCONNECT"

\* The application asks when the previous response is complete or could not be
\* read, and, if it is hasty, when a call was cut short.
MayAsk == /\ pc = "idle"
          /\ linked
          /\ resp = NoCode \/ Failed
          /\ CutShort => script \in Hasty
          /\ asked < Len(script)
          /\ Len(results) < MaxCalls

\* request: send_req, then recv_resp.  What is sent to a server that has just
\* gone may still seem to be sent.
Request ==
  /\ MayAsk
  /\ asked' = asked + 1
  /\ pc' = "loop"
  /\ UNCHANGED <<server, linked, parser, resp, results>>

\* request, when send_req fails: recv_resp is not called.
RequestUnsent ==
  /\ MayAsk
  /\ gone
  /\ Return("UNSENT", NoCode, Null)
  /\ UNCHANGED <<server, linked, asked, parser, resp>>

\* recv_resp on its own: for the rest of a response, or to try again.
RecvResp ==
  /\ pc = "idle"
  /\ results # <<>>
  /\ resp # NoCode \/ Failed
  /\ Len(results) < MaxCalls
  /\ pc' = "loop"
  /\ UNCHANGED <<server, linked, asked, parser, resp, results>>
-----------------------------------------------------------------------------
(* recv_resp. *)

\* HttpResponseImpl::deserialize: any first line of three words or more is a
\* response, and its code is what atoi makes of the second word, 0 for a text.
Deserialize(header) ==
  LET first == FirstLine(header)
      word  == First(Spaced(first))
  IN IF WordCount(first) < 3
     THEN NoCode
     ELSE IF first[word][1] = "status" THEN first[word][2] ELSE 0

\* recv_func has to fetch more.
Wait == /\ pc' = "recv"
        /\ UNCHANGED results

\* Mutant of LoopNormal: the parser is reset before the header is decoded.
LoopNormalResets(p) ==
  \E c \in {GetContent(p)}, code \in {Deserialize(p.header)} :
     \/ c.ret = "CONTINUE" /\ Wait /\ parser' = c.p /\ UNCHANGED resp
     \/ /\ c.ret = "OK"
        /\ parser' = Reset(c.p)
        /\ resp' = NoCode
        /\ IF code = NoCode THEN Return("FORMAT", NoCode, Null)
                            ELSE Return("OK", code, c.packet)

\* Mutant of LoopNormal: the parser is not reset.
LoopNormalKeeps(p) ==
  LET c    == GetContent(p)
      code == Deserialize(p.header)
  IN /\ parser' = c.p
     /\ \/ c.ret = "CONTINUE" /\ Wait /\ UNCHANGED resp
        \/ /\ c.ret = "OK" /\ code = NoCode
           /\ Return("FORMAT", NoCode, Null)
           /\ UNCHANGED resp
        \/ /\ c.ret = "OK" /\ code # NoCode
           /\ Return("OK", code, c.packet)
           /\ resp' = NoCode

\* The branch TYPE_NORMAL.  A header that is not a response stays in the parser.
LoopNormal(p) ==
  \E c \in {GetContent(p)}, code \in {Deserialize(p.header)} :
     \/ /\ c.ret = "CONTINUE"
        /\ Wait
        /\ parser' = c.p
        /\ UNCHANGED resp
     \/ /\ c.ret = "OK"
        /\ code = NoCode
        /\ Return("FORMAT", NoCode, Null)
        /\ parser' = c.p
        /\ UNCHANGED resp
     \/ /\ c.ret = "OK"
        /\ code # NoCode
        /\ Return("OK", code, c.packet)
        /\ parser' = Reset(c.p)
        /\ resp' = NoCode

\* Mutant of LoopOther: resp_ is not reset with the parser.
LoopOtherKeepsResp(p, code) ==
  LET r == CASE p.type = "WEBSOCKET" -> Result("OK", Null, p)
             [] p.type = "CHUNK"     -> GetChunk(p)
             [] p.type = "BOUNDARY"  -> GetBoundary(p)
  IN /\ resp' = code
     /\ \/ r.ret = "CONTINUE" /\ Wait /\ parser' = r.p
        \/ r.ret = "INVALID_ARG" /\ Return("FAILED", NoCode, Null) /\ parser' = r.p
        \/ /\ r.ret = "OK"
           /\ Return("OK", code, r.packet)
           /\ parser' = IF r.packet = Null THEN Reset(r.p) ELSE r.p

\* The other branches; code is that of resp_, r what the parser hands out.
LoopOther(p, code) ==
  \E r \in {CASE p.type = "WEBSOCKET" -> Result("OK", Null, p)
             [] p.type = "CHUNK"     -> GetChunk(p)
             [] p.type = "BOUNDARY"  -> GetBoundary(p)} :
     \/ /\ r.ret = "CONTINUE"
        /\ Wait
        /\ parser' = r.p
        /\ resp' = code
     \/ /\ r.ret = "INVALID_ARG"
        /\ Return("FAILED", NoCode, Null)
        /\ parser' = r.p
        /\ resp' = code
     \/ /\ r.ret = "OK"
        /\ Return("OK", code, r.packet)
        /\ parser' = IF r.packet = Null THEN Reset(r.p) ELSE r.p
        /\ resp' = IF r.packet = Null THEN NoCode ELSE code

\* The first part of a round of the loop.  An error of parse_header is not told
\* from a header that is not complete yet.
Parse ==
  /\ pc = "loop"
  /\ \E h \in {IF parser.type = "INVALID" THEN ParseHeader(parser)
              ELSE Result("OK", Null, parser)} :
        /\ parser' = h.p
        /\ \/ h.ret = "OK" /\ pc' = "body" /\ UNCHANGED results
           \/ h.ret # "OK" /\ Wait
  /\ UNCHANGED <<server, linked, asked, resp>>

\* The rest of the round: the type is known.
Body ==
  /\ pc = "body"
  /\ \E code \in {IF resp = NoCode THEN Deserialize(parser.header) ELSE resp} :
        \/ parser.type = "NORMAL" /\ LoopNormal(parser)
        \/ /\ parser.type # "NORMAL"
           /\ code = NoCode
           /\ Return("FORMAT", NoCode, Null)
           /\ UNCHANGED <<parser, resp>>
        \/ /\ parser.type # "NORMAL"
           /\ code # NoCode
           /\ LoopOther(parser, code)
  /\ UNCHANGED <<server, linked, asked>>

\* recv_func gets up to a buffer full of what has arrived.
RecvSome(n) ==
  /\ pc = "recv"
  /\ n <= Len(wire)
  /\ wire' = Consume(wire, n)
  /\ parser' = Push(parser, Read(wire, n))
  /\ pc' = "loop"
  /\ UNCHANGED <<script, served, gone, linked, asked, resp, results>>

\* Mutant of Timeout: what was read of the response is given up.
TimeoutResets ==
  /\ pc = "recv"
  /\ script \in Timed
  /\ Return("DISCONNECT", NoCode, Null)
  /\ parser' = Reset(parser)
  /\ resp' = NoCode
  /\ UNCHANGED <<server, linked, asked>>

\* recv_func fails because the time is over.  What was read so far stays in the
\* parser, and what arrives later is read by the next call.
Timeout ==
  /\ pc = "recv"
  /\ script \in Timed
  /\ Return("DISCONNECT", NoCode, Null)
  /\ UNCHANGED <<server, linked, asked, parser, resp>>

\* recv_func fails because the connection is broken: what was not received by
\* then is lost, but client_ stays.
RecvFail ==
  /\ pc = "recv"
  /\ gone
  /\ wire' = <<>>
  /\ Return("DISCONNECT", NoCode, Null)
  /\ UNCHANGED <<script, served, gone, linked, asked, parser, resp>>

Coroutine == \/ Parse
             \/ Body
             \/ \E n \in 1 .. RecvMax : RecvSome(n)
             \/ Timeout
             \/ RecvFail

\* The application has no more to ask.
Ended == pc = "idle" /\ UNCHANGED vars

Next == SendAnswer \/ ServerClose \/ Connect \/ Request \/ RequestUnsent \/ RecvResp
          \/ Coroutine \/ Ended

Spec == Init /\ [][Next]_vars

\* The scheduler resumes the coroutine, and the server answers what it is asked
\* unless it goes away.
FairSpec == Spec /\ WF_vars(Coroutine) /\ WF_vars(SendAnswer)
-----------------------------------------------------------------------------
(* Properties. *)

\* What a call can return.
Outcome == [ret : Rets, code : Codes \cup {0, NoCode}, packet : Seq(Symbol),
            request : 0 .. Len(script)]

\* Type correctness of the client and its server.
TypeOK ==
  /\ script \in Scripts
  /\ served \in 0 .. asked
  /\ wire \in Seq(Symbol)
  /\ gone \in BOOLEAN
  /\ linked \in BOOLEAN
  /\ pc \in {"idle", "loop", "body", "recv"}
  /\ asked \in 0 .. Len(script)
  /\ parser \in Parser
  /\ resp \in Codes \cup {0, NoCode}
  /\ results \in Seq(Outcome)

\* resp_ and the parser speak of the same response: a code is kept only while a
\* chunked or multipart response is being read, and it is the code of the header
\* that the parser holds.  So no part of a response is handed out with the code
\* of another, after any sequence of timeouts, errors and retries.
SameResponse ==
  /\ resp # NoCode => /\ parser.type \in {"CHUNK", "BOUNDARY"}
                      /\ resp = Deserialize(parser.header)
  /\ parser.type = "NORMAL" => parser.bodyBytes >= 0

\* What recv_resp returned before the first error of the format, or of a chunk
\* size, and the contents of it with the code they came with.
Errors    == {i \in DOMAIN results : results[i].ret \in {"FORMAT", "FAILED"}}
Broken    == Errors # {}
Oks       == FlattenSeq([i \in DOMAIN results |->
                           IF results[i].ret = "OK" /\ (\A j \in Errors : i < j)
                           THEN <<results[i]>> ELSE <<>>])
Received  == [i \in DOMAIN Oks |-> <<Oks[i].code, Oks[i].packet>>]

\* The contents of the first n answers, and the number of their answer.
Carried(n) == FlattenSeq([i \in 1 .. n |-> script[i].contents])
Owner(n)   == FlattenSeq([i \in 1 .. n |-> [j \in DOMAIN script[i].contents |-> i]])

Delivery ==
  INSTANCE HttpDelivery
    WITH Contents <- {m.contents : m \in UNION {Range(s) : s \in Scripts}},
         promised <- Carried(served), delivered <- Received, up <- ~Broken

\* What recv_resp returns, up to the first error, are the contents that the server
\* sent, in order, once and whole, however they were cut and wherever a timeout
\* interrupted a call.  Behind an error of a chunk size the calls read on in the
\* middle of the message, and what they return there is not spoken of.
DeliverySafe == Delivery!SafeSpec

\* A response that cannot be decoded (http_client.cc:224 and 253) leaves its type and its
\* header in the parser: every later call reports it again, and no response is
\* returned on this connection any more.
FormatIsFinal ==
  \A i, j \in DOMAIN results :
     i < j /\ results[i].ret = "FORMAT" => results[j].ret # "OK"

\* http_client.h:91: request sends a request and waits for its answer.  What it
\* returns is the answer to the request that was sent last.
OwnAnswer == /\ Len(Oks) <= Len(Owner(served))
             /\ \A i \in DOMAIN Oks : Oks[i].request = Owner(served)[i]

\* It is so when the application calls recv_resp again after a call that was cut
\* short, for every sequence of kinds, every cut, every timeout and break.
OwnAnswerInTime == script \notin Hasty => OwnAnswer

\* The server answers what can be decoded; and only its last answer is streamed.
WellFormed(s)  == \A i \in DOMAIN s : s[i].kind # "INVALID"
StreamsLast(s) == \A i \in 1 .. Len(s) - 1 : s[i].kind \in {"NORMAL", "WEBSOCKET"}

\* http_client.h:91: the call waits for the answer.  A patient application of a server
\* that answers well is not told that an answer is wrong, when no answer comes behind
\* a streamed one.  Such an answer may begin with what the end of the streamed one left
\* (get_chunk and get_boundary consume the last separator before it has arrived), and
\* is then an error of the format.
NoFormatError ==
  script \notin Hasty /\ WellFormed(script) /\ StreamsLast(script) => ~Broken

\* A call of recv_resp returns: the answer comes, the time is over or the server
\* has closed the connection.
Returns == pc # "idle" ~> pc = "idle"
=============================================================================
