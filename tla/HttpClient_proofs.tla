-------------------------- MODULE HttpClient_proofs -------------------------
(***************************************************************************)
(* Theorems about HttpClient, for every server, every way the bytes are cut*)
(* into packets and every sequence of timeouts, errors and retries.        *)
(***************************************************************************)
EXTENDS HttpClient, HttpProtoPaser_proofs

\* The inductive invariant: in the second part of a round the type is known.
IInv ==
  /\ TypeOK
  /\ SameResponse
  /\ pc = "body" => parser.type # "INVALID"

\* deserialize yields a status code, 0 for a text that is none, or nothing.
LEMMA DeserializeType ==
  ASSUME NEW header \in Seq(Symbol)
  PROVE  Deserialize(header) \in Codes \cup {0, NoCode}
<1> DEFINE first == FirstLine(header)
           word  == First(Spaced(first))
<1>1. first \in Seq(Symbol) /\ (Spaced(first) # {} => word \in 1 .. Len(first))
  BY FirstLineType
<1>2. WordCount(first) < 3 \/ Spaced(first) # {}
  BY WordsCounted
<1> HIDE DEF first
<1>3. Spaced(first) # {} /\ first[word][1] = "status" => first[word][2] \in Codes
  BY <1>1, ElementOfSeq, SymbolValue
<1> QED BY <1>2, <1>3 DEF Deserialize, first

\* What a call returns is one more outcome.
LEMMA ReturnType ==
  ASSUME TypeOK, NEW ret \in Rets, NEW code \in Codes \cup {0, NoCode},
         NEW packet \in Seq(Symbol), Return(ret, code, packet)
  PROVE  pc' = "idle" /\ results' \in Seq(Outcome)
<1>1. /\ pc' = "idle"
      /\ results' = Append(results, [ret |-> ret, code |-> code, packet |-> packet,
                                     request |-> asked])
  BY DEF Return
<1>2. asked \in 0 .. Len(script) /\ results \in Seq(Outcome)
  BY DEF TypeOK
<1>3. [ret |-> ret, code |-> code, packet |-> packet, request |-> asked] \in Outcome
  BY <1>2 DEF Outcome
<1> QED BY <1>1, <1>2, <1>3, AppendProperties

\* The state the client starts in.
LEMMA InitInvariant == Init => IInv
<1> SUFFICES ASSUME Init PROVE IInv
  OBVIOUS
<1>1. PICK g \in Garbage : parser = NewParser(g)
  BY DEF Init
<1>2. g \in Int
  BY GarbageAssumption
<1>3. parser \in Parser
  BY <1>1, <1>2, NewParserType
<1>4. script \in Seq(Answer) /\ Len(script) \in Nat
  BY ScriptAssumption, LenProperties DEF Init
<1>5. TypeOK
  <2>1. /\ script \in Scripts /\ served = 0 /\ asked = 0
        /\ pc = "idle" /\ resp = NoCode
        /\ wire = <<>> /\ results = <<>>
    BY DEF Init
  <2>2. gone \in BOOLEAN /\ linked \in BOOLEAN
    BY Zenon DEF Init
  <2>3. served \in 0 .. asked /\ asked \in 0 .. Len(script)
    BY <1>4, <2>1
  <2>4. wire \in Seq(Symbol)
    BY <2>1
  <2>5. results \in Seq(Outcome)
    BY <2>1
  <2> QED BY <1>3, <2>1, <2>2, <2>3, <2>4, <2>5 DEF TypeOK
<1>6. SameResponse /\ pc # "body"
  BY <1>1 DEF Init, SameResponse, NewParser
<1> QED BY <1>5, <1>6 DEF IInv

\* The server changes nothing that the client relies on.
LEMMA ServerStep == IInv /\ (SendAnswer \/ ServerClose) => IInv'
<1> SUFFICES ASSUME IInv, SendAnswer \/ ServerClose PROVE IInv'
  OBVIOUS
<1> USE DEF IInv
<1>1. /\ script \in Seq(Answer) /\ Len(script) \in Nat
      /\ served \in 0 .. asked /\ asked \in 0 .. Len(script)
  BY ScriptAssumption, LenProperties DEF TypeOK
<1>2. UNCHANGED <<script, client>>
  BY DEF SendAnswer, ServerClose
<1>3. SameResponse' /\ (pc' = "body" => parser'.type # "INVALID")
  BY <1>2 DEF SameResponse, client
<1>4. CASE SendAnswer
  <2>1. /\ wire' = wire \o script[served + 1].bytes
        /\ served' = served + 1 /\ served < asked /\ gone' = gone
    BY <1>4 DEF SendAnswer
  <2>2. script[served + 1] \in Answer
    BY <1>1, <2>1, ElementOfSeq
  <2>3. script[served + 1].bytes \in Seq(Symbol)
    BY <2>2 DEF Answer
  <2>4. wire' \in Seq(Symbol)
    BY <2>1, <2>3, ConcatProperties DEF TypeOK
  <2>5. served' \in 0 .. asked
    BY <1>1, <2>1
  <2>6. TypeOK'
    BY <1>2, <2>1, <2>4, <2>5 DEF TypeOK, client, Outcome
  <2> QED BY <1>3, <2>6
<1>5. CASE ServerClose
  <2>1. gone' \in BOOLEAN
    BY <1>5, Zenon DEF ServerClose
  <2>2. UNCHANGED <<served, wire>>
    BY <1>5 DEF ServerClose
  <2>3. TypeOK'
    BY <1>2, <2>1, <2>2 DEF TypeOK, client, Outcome
  <2> QED BY <1>3, <2>3
<1> QED BY <1>4, <1>5

\* The calls of the application leave the parser and resp_ alone.
LEMMA CallStep ==
  IInv /\ (Connect \/ Request \/ RequestUnsent \/ RecvResp) => IInv'
<1> SUFFICES ASSUME IInv, Connect \/ Request \/ RequestUnsent \/ RecvResp PROVE IInv'
  OBVIOUS
<1> USE DEF IInv
<1>1. script \in Seq(Answer) /\ Len(script) \in Nat
  BY ScriptAssumption, LenProperties DEF TypeOK
<1>2. UNCHANGED <<server, parser, resp>> /\ pc' \in {"idle", "loop"}
  BY DEF Connect, Request, RequestUnsent, RecvResp, Return
<1>3. SameResponse' /\ pc' # "body"
  BY <1>2 DEF SameResponse
<1>4. CASE Connect
  <2>1. linked' \in BOOLEAN
    BY <1>4, Zenon DEF Connect
  <2>2. UNCHANGED <<asked, results>>
    BY <1>4 DEF Connect
  <2>3. TypeOK'
    BY <1>2, <2>1, <2>2 DEF TypeOK, server, Outcome
  <2> QED BY <1>3, <2>3
<1>5. CASE Request
  <2>1. asked' = asked + 1 /\ asked < Len(script) /\ UNCHANGED <<linked, results>>
    BY <1>5 DEF Request, MayAsk
  <2>2. asked' \in 0 .. Len(script) /\ served \in 0 .. asked'
    BY <1>1, <2>1 DEF TypeOK
  <2>3. TypeOK'
    BY <1>2, <2>1, <2>2 DEF TypeOK, server, Outcome
  <2> QED BY <1>3, <2>3
<1>6. CASE RequestUnsent
  <2>1. Return("UNSENT", NoCode, Null) /\ UNCHANGED <<linked, asked>>
    BY <1>6 DEF RequestUnsent
  <2>2. results' \in Seq(Outcome)
    BY <2>1, ReturnType, Patterns DEF Rets
  <2>3. TypeOK'
    BY <1>2, <2>1, <2>2 DEF TypeOK, server, Outcome
  <2> QED BY <1>3, <2>3
<1>7. CASE RecvResp
  <2>1. UNCHANGED <<linked, asked, results>>
    BY <1>7 DEF RecvResp
  <2>2. TypeOK'
    BY <1>2, <2>1 DEF TypeOK, server, Outcome
  <2> QED BY <1>3, <2>2
<1> QED BY <1>4, <1>5, <1>6, <1>7

\* While a code is kept the type is known, so parse_header is not called.
LEMMA ParseStep == IInv /\ Parse => IInv'
<1> SUFFICES ASSUME IInv, Parse PROVE IInv'
  OBVIOUS
<1> USE DEF IInv
<1> DEFINE h == IF parser.type = "INVALID" THEN ParseHeader(parser)
                ELSE Result("OK", Null, parser)
<1>1. /\ parser' = h.p
      /\ UNCHANGED <<server, linked, asked, resp, results>>
      /\ \/ h.ret = "OK" /\ pc' = "body"
         \/ h.ret # "OK" /\ pc' = "recv"
  BY DEF Parse, Wait
<1>2. parser \in Parser
  BY DEF TypeOK
<1>3. CASE parser.type = "INVALID"
  <2>1. h = ParseHeader(parser)
    BY <1>3
  <2>2. resp = NoCode
    BY <1>3 DEF SameResponse
  <2> HIDE DEF h
  <2>3. /\ h.p \in Parser
        /\ h.ret = "OK" => /\ h.p.type # "INVALID"
                           /\ h.p.type = "NORMAL" => h.p.bodyBytes >= 0
        /\ h.ret # "OK" => h.p.type = "INVALID"
    BY <1>2, <1>3, <2>1, ParseHeaderResult
  <2>4. SameResponse' /\ (pc' = "body" => parser'.type # "INVALID")
    BY <1>1, <2>2, <2>3 DEF SameResponse
  <2>5. TypeOK'
    BY <1>1, <2>3 DEF TypeOK, server, Outcome
  <2> QED BY <2>4, <2>5
<1>4. CASE parser.type # "INVALID"
  <2>1. h = Result("OK", Null, parser)
    BY <1>4
  <2> HIDE DEF h
  <2>2. h.p = parser /\ h.ret = "OK"
    BY <2>1 DEF Result
  <2>3. SameResponse' /\ (pc' = "body" => parser'.type # "INVALID")
    BY <1>1, <1>4, <2>2 DEF SameResponse
  <2>4. TypeOK'
    BY <1>1, <2>2 DEF TypeOK, server, Outcome
  <2> QED BY <2>3, <2>4
<1> QED BY <1>3, <1>4

\* A response with a content length is read whole, then parser and code are
\* reset together.
LEMMA LoopNormalStep ==
  ASSUME IInv, parser.type = "NORMAL", LoopNormal(parser),
         UNCHANGED <<server, linked, asked>>
  PROVE  IInv'
<1> USE DEF IInv
<1> DEFINE c    == GetContent(parser)
           code == Deserialize(parser.header)
<1>1. parser \in Parser /\ parser.bodyBytes >= 0 /\ resp = NoCode
  BY DEF TypeOK, SameResponse
<1>2. \/ /\ c.ret = "CONTINUE" /\ Wait /\ parser' = c.p /\ resp' = resp
      \/ /\ Return("FORMAT", NoCode, Null) /\ parser' = c.p /\ resp' = resp
      \/ /\ c.ret = "OK" /\ Return("OK", code, c.packet)
         /\ parser' = Reset(c.p) /\ resp' = NoCode
  BY DEF LoopNormal
<1>3. code \in Codes \cup {0, NoCode}
  BY <1>1, DeserializeType DEF Parser
<1> HIDE DEF c, code
<1>4. /\ c.packet \in Seq(Symbol) /\ c.p \in Parser
      /\ c.p.type = "NORMAL" /\ c.p.bodyBytes >= 0
  BY <1>1, GetContentResult DEF c
<1>5. Reset(c.p) \in Parser /\ Reset(c.p).type = "INVALID"
  BY <1>4, ResetType
<1>6. /\ parser' \in Parser /\ resp' = NoCode
      /\ parser'.type = "NORMAL" => parser'.bodyBytes >= 0
  BY <1>1, <1>2, <1>4, <1>5
<1>7. pc' \in {"idle", "recv"} /\ results' \in Seq(Outcome)
  <2>1. {"OK", "FORMAT"} \subseteq Rets /\ Null \in Seq(Symbol) /\ results \in Seq(Outcome)
    BY Patterns DEF Rets, TypeOK
  <2>2. CASE Wait
    BY <2>1, <2>2 DEF Wait
  <2>3. CASE Return("FORMAT", NoCode, Null)
    BY <2>1, <2>3, ReturnType
  <2>4. CASE Return("OK", code, c.packet)
    BY <1>3, <1>4, <2>1, <2>4, ReturnType
  <2> QED BY <1>2, <2>2, <2>3, <2>4
<1>8. SameResponse'
  BY <1>6 DEF SameResponse
<1>9. TypeOK'
  BY <1>6, <1>7 DEF TypeOK, server, Outcome
<1> QED BY <1>7, <1>8, <1>9

\* The code is kept as long as the parser keeps the header it came from.
LEMMA LoopOtherStep ==
  ASSUME IInv, parser.type \in {"WEBSOCKET", "CHUNK", "BOUNDARY"},
         NEW code, code = Deserialize(parser.header), code # NoCode,
         LoopOther(parser, code), UNCHANGED <<server, linked, asked>>
  PROVE  IInv'
<1> USE DEF IInv
<1> DEFINE r == CASE parser.type = "WEBSOCKET" -> Result("OK", Null, parser)
                  [] parser.type = "CHUNK"     -> GetChunk(parser)
                  [] parser.type = "BOUNDARY"  -> GetBoundary(parser)
<1>1. parser \in Parser /\ Null \in Seq(Symbol)
  BY Patterns DEF TypeOK
<1>2. code \in Codes \cup {0, NoCode}
  BY <1>1, DeserializeType DEF Parser
<1>3. \/ /\ r.ret = "CONTINUE" /\ Wait /\ parser' = r.p /\ resp' = code
      \/ /\ r.ret = "INVALID_ARG" /\ Return("FAILED", NoCode, Null)
         /\ parser' = r.p /\ resp' = code
      \/ /\ r.ret = "OK" /\ Return("OK", code, r.packet)
         /\ parser' = (IF r.packet = Null THEN Reset(r.p) ELSE r.p)
         /\ resp' = (IF r.packet = Null THEN NoCode ELSE code)
  BY DEF LoopOther
<1>4. /\ r.packet \in Seq(Symbol) /\ r.p \in Parser
      /\ r.p.type = parser.type /\ r.p.header = parser.header
      /\ parser.type = "WEBSOCKET" => r.ret = "OK" /\ r.packet = Null
  <2>1. CASE parser.type = "WEBSOCKET"
    BY <1>1, <2>1 DEF Result
  <2>2. CASE parser.type = "CHUNK"
    <3>1. r = GetChunk(parser)
      BY <2>2
    <3> HIDE DEF r
    <3> QED BY <1>1, <2>2, <3>1, GetChunkResult
  <2>3. CASE parser.type = "BOUNDARY"
    <3>1. r = GetBoundary(parser)
      BY <2>3
    <3> HIDE DEF r
    <3> QED BY <1>1, <2>3, <3>1, GetBoundaryResult
  <2> QED BY <2>1, <2>2, <2>3
<1> HIDE DEF r
<1>5. Reset(r.p) \in Parser /\ Reset(r.p).type = "INVALID"
  BY <1>4, ResetType
<1>6. /\ parser' \in Parser /\ resp' \in {code, NoCode}
      /\ parser'.type # "NORMAL"
      /\ resp' # NoCode => /\ parser'.type \in {"CHUNK", "BOUNDARY"}
                           /\ parser'.header = parser.header
  BY <1>3, <1>4, <1>5
<1>7. pc' \in {"idle", "recv"} /\ results' \in Seq(Outcome)
  <2>1. {"OK", "FAILED"} \subseteq Rets /\ results \in Seq(Outcome)
    BY DEF Rets, TypeOK
  <2>2. CASE Wait
    BY <2>1, <2>2 DEF Wait
  <2>3. CASE Return("FAILED", NoCode, Null)
    BY <1>1, <2>1, <2>3, ReturnType
  <2>4. CASE Return("OK", code, r.packet)
    BY <1>2, <1>4, <2>1, <2>4, ReturnType
  <2> QED BY <1>3, <2>2, <2>3, <2>4
<1>8. SameResponse'
  <2>1. resp' # NoCode => resp' = Deserialize(parser'.header)
    BY <1>6
  <2>2. Deserialize(parser'.header) = Deserialize(parser.header)'
    BY DEF Deserialize, FirstLine, HTTP_SEP, CR, LF
  <2> QED BY <1>6, <2>1, <2>2 DEF SameResponse
<1>9. TypeOK'
  BY <1>2, <1>6, <1>7 DEF TypeOK, server, Outcome
<1> QED BY <1>7, <1>8, <1>9

\* The rest of a round.
LEMMA BodyStep == IInv /\ Body => IInv'
<1> SUFFICES ASSUME IInv, Body PROVE IInv'
  OBVIOUS
<1> DEFINE code == Deserialize(parser.header)
<1>1. /\ pc = "body" /\ UNCHANGED <<server, linked, asked>>
      /\ parser.type # "INVALID" /\ parser \in Parser
  BY DEF Body, IInv, TypeOK
<1>2. code = IF resp = NoCode THEN code ELSE resp
  BY DEF IInv, SameResponse
<1>3. \/ parser.type = "NORMAL" /\ LoopNormal(parser)
      \/ /\ parser.type # "NORMAL" /\ code = NoCode
         /\ Return("FORMAT", NoCode, Null) /\ UNCHANGED <<parser, resp>>
      \/ /\ parser.type # "NORMAL" /\ code # NoCode /\ LoopOther(parser, code)
  BY <1>2 DEF Body
<1>4. parser.type \in {"NORMAL", "WEBSOCKET", "CHUNK", "BOUNDARY"}
  BY <1>1 DEF Parser, Types
<1> HIDE DEF code
<1>5. CASE parser.type = "NORMAL" /\ LoopNormal(parser)
  BY <1>1, <1>5, LoopNormalStep
<1>6. CASE Return("FORMAT", NoCode, Null) /\ UNCHANGED <<parser, resp>>
  <2>1. pc' = "idle" /\ results' \in Seq(Outcome)
    BY <1>6, ReturnType, Patterns DEF Rets, IInv
  <2>2. SameResponse'
    BY <1>6 DEF IInv, SameResponse
  <2>3. TypeOK'
    BY <1>1, <1>6, <2>1 DEF IInv, TypeOK, server, Outcome
  <2> QED BY <2>1, <2>2, <2>3 DEF IInv
<1>7. CASE parser.type # "NORMAL" /\ code # NoCode /\ LoopOther(parser, code)
  BY <1>1, <1>4, <1>7, LoopOtherStep DEF code
<1> QED BY <1>3, <1>5, <1>6, <1>7

\* recv_func adds to the buffer only.
LEMMA RecvSomeStep == ASSUME NEW n \in 1 .. RecvMax, IInv, RecvSome(n) PROVE IInv'
<1> USE DEF IInv
<1>1. /\ n <= Len(wire) /\ wire' = Consume(wire, n)
      /\ parser' = Push(parser, Read(wire, n)) /\ pc' = "loop"
      /\ UNCHANGED <<script, served, gone, linked, asked, resp, results>>
  BY DEF RecvSome
<1>2. n \in Nat /\ wire \in Seq(Symbol) /\ parser \in Parser
  BY RecvMaxAssumption DEF TypeOK
<1>3. wire' \in Seq(Symbol) /\ Read(wire, n) \in Seq(Symbol)
  BY <1>1, <1>2, ReadType, ConsumeType
<1>4. /\ parser' \in Parser /\ parser'.type = parser.type
      /\ parser'.bodyBytes = parser.bodyBytes /\ parser'.header = parser.header
  BY <1>1, <1>2, <1>3, PushType
<1>5. SameResponse'
  BY <1>1, <1>4 DEF SameResponse
<1>6. TypeOK'
  BY <1>1, <1>3, <1>4 DEF TypeOK, Outcome
<1> QED BY <1>1, <1>5, <1>6

\* A call that fails in recv_func leaves the parser and the code as they are.
LEMMA FailStep == IInv /\ (Timeout \/ RecvFail) => IInv'
<1> SUFFICES ASSUME IInv, Timeout \/ RecvFail PROVE IInv'
  OBVIOUS
<1> USE DEF IInv
<1>1. /\ Return("DISCONNECT", NoCode, Null)
      /\ UNCHANGED <<script, served, gone, linked, asked, parser, resp>>
      /\ wire' = wire \/ wire' = <<>>
  BY DEF Timeout, RecvFail, server
<1>2. pc' = "idle" /\ results' \in Seq(Outcome)
  BY <1>1, ReturnType, Patterns DEF Rets
<1>3. wire' \in Seq(Symbol)
  <2>1. wire \in Seq(Symbol) /\ <<>> \in Seq(Symbol)
    BY DEF TypeOK
  <2> QED BY <1>1, <2>1
<1>4. SameResponse'
  BY <1>1 DEF SameResponse
<1>5. TypeOK'
  BY <1>1, <1>2, <1>3 DEF TypeOK, Outcome
<1> QED BY <1>2, <1>4, <1>5

\* Every step keeps the inductive invariant.
LEMMA NextInvariant == IInv /\ [Next]_vars => IInv'
<1> SUFFICES ASSUME IInv, [Next]_vars PROVE IInv'
  OBVIOUS
<1>1. CASE SendAnswer \/ ServerClose
  BY <1>1, ServerStep
<1>2. CASE Connect \/ Request \/ RequestUnsent \/ RecvResp
  BY <1>2, CallStep
<1>3. CASE Coroutine
  BY <1>3, ParseStep, BodyStep, RecvSomeStep, FailStep DEF Coroutine
<1>4. CASE Ended \/ UNCHANGED vars
  <2>1. UNCHANGED <<script, served, wire, gone, linked, pc, asked, parser, resp, results>>
    BY <1>4 DEF Ended, vars, server, client
  <2>2. TypeOK'
    BY <2>1 DEF IInv, TypeOK, Outcome
  <2>3. SameResponse'
    BY <2>1 DEF IInv, SameResponse
  <2> QED BY <2>1, <2>2, <2>3 DEF IInv
<1> QED BY <1>1, <1>2, <1>3, <1>4 DEF Next

\* The inductive invariant holds of every client.
LEMMA Invariant == Spec => []IInv
<1>1. Init => IInv
  BY InitInvariant
<1>2. IInv /\ [Next]_vars => IInv'
  BY NextInvariant
<1> QED BY <1>1, <1>2, PTL DEF Spec

\* The types of the client's members.
THEOREM ClientTypeCorrect == Spec => []TypeOK
<1>1. IInv => TypeOK
  BY DEF IInv
<1> QED BY <1>1, Invariant, PTL

\* recv_resp never hands out a part of a response with the code of another.
THEOREM AlwaysSameResponse == Spec => []SameResponse
<1>1. IInv => SameResponse
  BY DEF IInv
<1> QED BY <1>1, Invariant, PTL

-----------------------------------------------------------------------------
(* What the calls return, as one sequence. *)

\* deserialize finds the code, unless a whole line end is in front of it.
LEMMA DeserializeFirst ==
  ASSUME NEW header, NEW c, NEW code, FirstWordIs(header, c, Status(code))
  PROVE  Deserialize(header) = IF c = 2 THEN NoCode ELSE code
<1>1. PICK first : first = FirstLine(header)
  OBVIOUS
<1>2. Status(code)[1] = "status" /\ Status(code)[2] = code /\ Blanks(Status(code)) = 2
  BY DEF Status, Blanks
<1>3. /\ c = 2 => WordCount(first) = 1
      /\ c # 2 => WordCount(first) = 3 /\ first[First(Spaced(first))] = Status(code)
  BY <1>1, <1>2, FirstWordCounted
<1> QED BY <1>1, <1>2, <1>3 DEF Deserialize

\* The outcomes of the calls for any request.
Got == [ret : Rets, code : Codes \cup {0, NoCode}, packet : Seq(Symbol), request : Nat]

\* Where rs has errors of the format, and the members of rs that carry a content in front of them.
ErrorsOf(rs) == {i \in DOMAIN rs : rs[i].ret \in {"FORMAT", "FAILED"}}
OksOf(rs) == FlattenSeq([i \in DOMAIN rs |->
               IF rs[i].ret = "OK" /\ (\A j \in ErrorsOf(rs) : i < j) THEN <<rs[i]>> ELSE <<>>])

\* Outcome by outcome.
LEMMA OksMore ==
  ASSUME NEW rs \in Seq(Got)
  PROVE  /\ OksOf(rs) \in Seq(Got)
         /\ \A o \in Got : OksOf(Append(rs, o)) =
                            IF o.ret = "OK" /\ ErrorsOf(rs) = {} THEN Append(OksOf(rs), o) ELSE OksOf(rs)
<1> DEFINE e(t) == [i \in DOMAIN t |->
                     IF t[i].ret = "OK" /\ (\A j \in ErrorsOf(t) : i < j) THEN <<t[i]>> ELSE <<>>]
<1>1. ASSUME NEW t \in Seq(Got)
      PROVE  e(t) \in Seq(Seq(Got)) /\ Len(e(t)) = Len(t) /\ \A i \in 1 .. Len(t) : e(t)[i] \in Seq(Got)
  <2>1. PICK n \in Nat : n = Len(t)
    BY LenProperties
  <2>2. DOMAIN t = 1 .. n /\ \A i \in 1 .. n : t[i] \in Got
    BY <2>1, ElementOfSeq, LenProperties
  <2>3. \A i \in 1 .. n : <<t[i]>> \in Seq(Got)
    BY <2>2
  <2>4. <<>> \in Seq(Got)
    OBVIOUS
  <2> DEFINE f == e(t)
  <2>5. f = [i \in 1 .. n |-> f[i]] /\ \A i \in 1 .. n : f[i] \in Seq(Got)
    BY <2>2, <2>3, <2>4
  <2> HIDE DEF f
  <2>6. f \in Seq(Seq(Got)) /\ Len(f) = n
    BY <2>5, FunctionIsSeq
  <2> QED BY <2>1, <2>5, <2>6 DEF f
<1>2. OksOf(rs) \in Seq(Got)
  BY <1>1, FlattenType DEF OksOf
<1>3. ASSUME NEW o \in Got
      PROVE  OksOf(Append(rs, o)) =
               IF o.ret = "OK" /\ ErrorsOf(rs) = {} THEN Append(OksOf(rs), o) ELSE OksOf(rs)
  <2> DEFINE x == IF o.ret = "OK" /\ ErrorsOf(rs) = {} THEN <<o>> ELSE <<>>
             a == e(rs)
             b == e(Append(rs, o))
  <2>1. PICK n \in Nat : n = Len(rs)
    BY LenProperties
  <2>2. /\ Append(rs, o) \in Seq(Got) /\ Len(Append(rs, o)) = n + 1
        /\ \A i \in 1 .. n : Append(rs, o)[i] = rs[i]
        /\ Append(rs, o)[n + 1] = o
        /\ DOMAIN rs = 1 .. n /\ DOMAIN Append(rs, o) = 1 .. n + 1
    BY <2>1, AppendProperties, LenProperties
  <2>3. x \in Seq(Got)
    OBVIOUS
  <2>4. a \in Seq(Seq(Got)) /\ Len(a) = n /\ b \in Seq(Seq(Got)) /\ Len(b) = n + 1
    BY <1>1, <2>1, <2>2
  <2>5. b[n + 1] = x /\ \A i \in 1 .. n : b[i] = a[i]
    <3> DEFINE E == ErrorsOf(rs)
               F == ErrorsOf(Append(rs, o))
    <3>1. E \subseteq 1 .. n /\ F \subseteq E \cup {n + 1} /\ E \subseteq F /\ (o.ret = "OK" => F = E)
      <4>1. F \subseteq E \cup {n + 1}
        <5>1. ASSUME NEW j \in F PROVE j \in E \cup {n + 1}
          <6>1. j \in 1 .. n + 1 /\ Append(rs, o)[j].ret \in {"FORMAT", "FAILED"}
            BY <2>2 DEF ErrorsOf
          <6>2. j = n + 1 \/ j \in 1 .. n
            BY <6>1
          <6>3. CASE j \in 1 .. n
            <7>1. rs[j].ret \in {"FORMAT", "FAILED"}
              BY <2>2, <6>1, <6>3
            <7> QED BY <2>2, <6>3, <7>1 DEF ErrorsOf
          <6> QED BY <6>2, <6>3
        <5> QED BY <5>1
      <4>2. E \subseteq F
        BY <2>2 DEF ErrorsOf
      <4>3. o.ret = "OK" => n + 1 \notin F
        BY <2>2 DEF ErrorsOf
      <4>4. E \subseteq 1 .. n
        BY <2>2 DEF ErrorsOf
      <4> QED BY <4>1, <4>2, <4>3, <4>4
    <3>2. /\ a = [i \in 1 .. n |-> IF rs[i].ret = "OK" /\ (\A j \in E : i < j) THEN <<rs[i]>> ELSE <<>>]
          /\ b = [i \in 1 .. n + 1 |->
                    IF Append(rs, o)[i].ret = "OK" /\ (\A j \in F : i < j)
                    THEN <<Append(rs, o)[i]>> ELSE <<>>]
      BY <2>2
    <3> HIDE DEF a, b, E, F
    <3>3. \A i \in 1 .. n : (\A j \in F : i < j) <=> (\A j \in E : i < j)
      BY <3>1
    <3>4. o.ret = "OK" => ((\A j \in F : n + 1 < j) <=> E = {})
      BY <3>1
    <3>5. \A i \in 1 .. n : b[i] = a[i]
      BY <2>2, <3>2, <3>3
    <3>6. b[n + 1] = x
      BY <2>2, <3>2, <3>4 DEF E
    <3> QED BY <3>5, <3>6
  <2>6. OksOf(rs) = FlattenSeq(a) /\ OksOf(Append(rs, o)) = FlattenSeq(b)
    BY DEF OksOf
  <2> HIDE DEF a, b, x, e
  <2>7. PICK U : U = Seq(Got)
    OBVIOUS
  <2>8. a \in Seq(U) /\ x \in U /\ b \in Seq(U)
    BY <2>3, <2>4, <2>7
  <2>9. /\ Append(a, x) \in Seq(U) /\ Len(Append(a, x)) = n + 1
        /\ \A i \in 1 .. n : Append(a, x)[i] = a[i]
        /\ Append(a, x)[n + 1] = x
    BY <2>4, <2>8, AppendProperties
  <2>10. \A i \in 1 .. n + 1 : b[i] = Append(a, x)[i]
    <3> TAKE i \in 1 .. n + 1
    <3>1. i \in 1 .. n \/ i = n + 1
      OBVIOUS
    <3> QED BY <2>5, <2>9, <3>1
  <2>11. b = Append(a, x)
    BY <2>4, <2>8, <2>9, <2>10, SeqEqual
  <2>12. FlattenSeq(Append(a, x)) = FlattenSeq(a) \o x
    BY <2>3, <2>4, FlattenAppend
  <2>13. OksOf(Append(rs, o)) = OksOf(rs) \o x
    BY <2>6, <2>11, <2>12
  <2>14. OksOf(rs) \o <<>> = OksOf(rs) /\ OksOf(rs) \o <<o>> = Append(OksOf(rs), o)
    BY <1>2
  <2> QED BY <2>13, <2>14 DEF x
<1> QED BY <1>2, <1>3

\* What the first k of the contents c of the answer n are returned as.
OwedBy(c, n, k) == [j \in 1 .. k |-> [ret |-> "OK", code |-> c[j][1], packet |-> c[j][2], request |-> n]]

\* Content by content.
LEMMA OwedByMore ==
  ASSUME NEW c \in Seq(Content), NEW n \in Nat, NEW k \in Nat, k <= Len(c)
  PROVE  /\ OwedBy(c, n, k) \in Seq(Got) /\ Len(OwedBy(c, n, k)) = k
         /\ OwedBy(c, n, 0) = <<>>
         /\ k < Len(c) => Append(OwedBy(c, n, k), [ret |-> "OK", code |-> c[k + 1][1], packet |-> c[k + 1][2],
                                                   request |-> n]) = OwedBy(c, n, k + 1)
         /\ Begins(OwedBy(c, n, k), OwedBy(c, n, Len(c)), Got)
<1>1. PICK m \in Nat : m = Len(c)
  BY LenProperties
<1> DEFINE g(j) == [ret |-> "OK", code |-> c[j][1], packet |-> c[j][2], request |-> n]
<1>2. \A j \in 1 .. m : g(j) \in Got
  <2> TAKE j \in 1 .. m
  <2>1. c[j] \in Content
    BY <1>1, ElementOfSeq
  <2>2. c[j][1] \in Codes \cup {0, NoCode} /\ c[j][2] \in Seq(Symbol)
    BY <2>1 DEF Content
  <2> QED BY <2>2 DEF Got, Rets
<1>3. \A i : OwedBy(c, n, i) = [j \in 1 .. i |-> g(j)]
  BY DEF OwedBy
<1> HIDE DEF g
<1>4. ASSUME NEW i \in Nat, i <= m
      PROVE  /\ OwedBy(c, n, i) \in Seq(Got) /\ Len(OwedBy(c, n, i)) = i
             /\ \A j \in 1 .. i : OwedBy(c, n, i)[j] = g(j)
  <2> DEFINE f == OwedBy(c, n, i)
  <2>1. f = [j \in 1 .. i |-> g(j)]
    BY <1>3
  <2> HIDE DEF f
  <2>2. f = [j \in 1 .. i |-> f[j]] /\ (\A j \in 1 .. i : f[j] = g(j)) /\ (\A j \in 1 .. i : f[j] \in Got)
    BY <1>2, <1>4, <2>1
  <2>3. f \in Seq(Got) /\ Len(f) = i
    BY <2>2, FunctionIsSeq
  <2> QED BY <2>2, <2>3 DEF f
<1>5. OwedBy(c, n, 0) = <<>>
  BY <1>3
<1>6. k <= m
  BY <1>1
<1>7. ASSUME k < m PROVE Append(OwedBy(c, n, k), g(k + 1)) = OwedBy(c, n, k + 1)
  <2> DEFINE a == OwedBy(c, n, k)
             b == OwedBy(c, n, k + 1)
  <2>1. a \in Seq(Got) /\ Len(a) = k /\ (\A j \in 1 .. k : a[j] = g(j))
    BY <1>4, <1>6
  <2>2. b \in Seq(Got) /\ Len(b) = k + 1 /\ (\A j \in 1 .. k + 1 : b[j] = g(j))
    <3>1. k + 1 \in Nat /\ k + 1 <= m
      BY <1>7
    <3> QED BY <1>4, <3>1
  <2>3. g(k + 1) \in Got
    <3>1. k + 1 \in 1 .. m
      BY <1>7
    <3> QED BY <1>2, <3>1
  <2> HIDE DEF a, b
  <2>4. PICK x \in Got : x = g(k + 1)
    BY <2>3
  <2>5. /\ Append(a, x) \in Seq(Got) /\ Len(Append(a, x)) = k + 1
        /\ \A j \in 1 .. k : Append(a, x)[j] = a[j]
        /\ Append(a, x)[k + 1] = x
    BY <2>1, <2>4, AppendProperties
  <2>6. \A j \in 1 .. k + 1 : b[j] = Append(a, x)[j]
    <3> TAKE j \in 1 .. k + 1
    <3>1. j \in 1 .. k \/ j = k + 1
      OBVIOUS
    <3>2. CASE j \in 1 .. k
      BY <2>1, <2>2, <2>5, <3>2
    <3>3. CASE j = k + 1
      BY <2>2, <2>4, <2>5, <3>3
    <3> QED BY <3>1, <3>2, <3>3
  <2>7. b = Append(a, x)
    BY <2>2, <2>5, <2>6, SeqEqual
  <2> QED BY <2>4, <2>7 DEF a, b
<1>8. Begins(OwedBy(c, n, k), OwedBy(c, n, m), Got)
  <2>1. PICK d \in Nat : d = m - k
    BY <1>6
  <2> DEFINE a == OwedBy(c, n, k)
             b == OwedBy(c, n, m)
             v == [j \in 1 .. d |-> b[k + j]]
  <2>2. /\ a \in Seq(Got) /\ Len(a) = k /\ (\A j \in 1 .. k : a[j] = g(j))
        /\ b \in Seq(Got) /\ Len(b) = m /\ (\A j \in 1 .. m : b[j] = g(j))
    BY <1>4, <1>6
  <2> HIDE DEF a, b
  <2>3. v \in Seq(Got) /\ Len(v) = d /\ \A j \in 1 .. d : v[j] = b[k + j]
    <3>1. \A j \in 1 .. d : k + j \in 1 .. m
      BY <2>1
    <3>2. \A j \in 1 .. m : b[j] \in Got
      BY <1>2, <2>2
    <3>3. v = [j \in 1 .. d |-> v[j]] /\ (\A j \in 1 .. d : v[j] = b[k + j]) /\ (\A j \in 1 .. d : v[j] \in Got)
      BY <3>1, <3>2
    <3> HIDE DEF v
    <3> QED BY <3>3, FunctionIsSeq
  <2> HIDE DEF v
  <2>4. /\ a \o v \in Seq(Got) /\ Len(a \o v) = k + d
        /\ \A j \in 1 .. k + d : (a \o v)[j] = IF j <= k THEN a[j] ELSE v[j - k]
    BY <2>2, <2>3, ConcatProperties, ZenonT(60)
  <2>5. k + d = m
    BY <2>1
  <2>6. \A j \in 1 .. m : b[j] = (a \o v)[j]
    <3> TAKE j \in 1 .. m
    <3>1. CASE j <= k
      <4>1. j \in 1 .. k
        BY <3>1
      <4> QED BY <2>2, <2>4, <2>5, <3>1, <4>1
    <3>2. CASE ~(j <= k)
      <4>1. PICK i \in 1 .. d : i = j - k /\ j = k + i
        BY <2>5, <3>2
      <4> QED BY <2>3, <2>4, <2>5, <3>2, <4>1
    <3> QED BY <3>1, <3>2
  <2>7. b = a \o v
    BY <2>2, <2>4, <2>5, <2>6, SeqEqual
  <2> QED BY <2>3, <2>7 DEF Begins, a, b
<1> QED BY <1>1, <1>4, <1>5, <1>6, <1>7, <1>8 DEF g

\* What the first n answers of the server s are returned as.
OwedOf(s, n) == FlattenSeq([i \in 1 .. n |-> OwedBy(s[i].contents, i, Len(s[i].contents))])

\* The contents of an answer.
LEMMA AnswerIs ==
  ASSUME NEW s \in Seq(Answer), NEW n \in 1 .. Len(s)
  PROVE  s[n].bytes \in Seq(Symbol) /\ s[n].contents \in Seq(Content) /\ n \in Nat
<1>1. s[n] \in Answer
  BY ElementOfSeq
<1> QED BY <1>1 DEF Answer

\* Answer by answer.
LEMMA OwedMore ==
  ASSUME NEW s \in Seq(Answer), NEW n \in Nat, n <= Len(s)
  PROVE  /\ OwedOf(s, n) \in Seq(Got)
         /\ n = 0 => OwedOf(s, n) = <<>>
         /\ \A k \in Nat : n = k + 1 =>
              /\ OwedOf(s, k) \in Seq(Got)
              /\ OwedOf(s, n) = OwedOf(s, k) \o OwedBy(s[n].contents, n, Len(s[n].contents))
              /\ Begins(OwedOf(s, k), OwedOf(s, n), Got)
<1>1. PICK m \in Nat : m = Len(s)
  BY LenProperties
<1> DEFINE c == [i \in 1 .. m |-> OwedBy(s[i].contents, i, Len(s[i].contents))]
<1>2. \A i \in 1 .. m : c[i] \in Seq(Got) /\ c[i] = OwedBy(s[i].contents, i, Len(s[i].contents))
  <2> TAKE i \in 1 .. m
  <2>1. s[i].contents \in Seq(Content) /\ i \in Nat
    BY <1>1, AnswerIs
  <2>2. PICK k \in Nat : k = Len(s[i].contents)
    BY <2>1, LenProperties
  <2>3. k <= Len(s[i].contents)
    BY <2>2
  <2>4. OwedBy(s[i].contents, i, k) \in Seq(Got)
    BY <2>1, <2>3, OwedByMore
  <2> QED BY <2>2, <2>4
<1>3. ASSUME NEW k \in Nat, k <= m PROVE OwedOf(s, k) = UpTo(c, k)
  <2>1. [i \in 1 .. k |-> c[i]] = [i \in 1 .. k |-> OwedBy(s[i].contents, i, Len(s[i].contents))]
    BY <1>2, <1>3
  <2> QED BY <2>1 DEF OwedOf, UpTo
<1> HIDE DEF c
<1>4. n <= m
  BY <1>1
<1>5. /\ UpTo(c, n) \in Seq(Got)
      /\ n = 0 => UpTo(c, n) = <<>>
      /\ \A k \in Nat : n = k + 1 => /\ UpTo(c, k) \in Seq(Got) /\ c[n] \in Seq(Got)
                                    /\ UpTo(c, n) = UpTo(c, k) \o c[n]
  <2>1. \A i \in 1 .. m : c[i] \in Seq(Got)
    BY <1>2
  <2> QED BY <2>1, <1>4, FlattenUpTo, Zenon
<1>6. ASSUME NEW k \in Nat, n = k + 1
      PROVE  /\ OwedOf(s, k) \in Seq(Got)
             /\ OwedOf(s, n) = OwedOf(s, k) \o OwedBy(s[n].contents, n, Len(s[n].contents))
             /\ Begins(OwedOf(s, k), OwedOf(s, n), Got)
  <2>1. k <= m /\ n \in 1 .. m
    BY <1>4, <1>6
  <2>2. /\ OwedOf(s, k) = UpTo(c, k) /\ OwedOf(s, n) = UpTo(c, n)
        /\ UpTo(c, k) \in Seq(Got) /\ c[n] \in Seq(Got) /\ UpTo(c, n) = UpTo(c, k) \o c[n]
    BY <1>3, <1>4, <1>5, <1>6, <2>1
  <2> QED BY <1>2, <2>1, <2>2 DEF Begins
<1> QED BY <1>3, <1>4, <1>5, <1>6

\* Two sequences put together, element by element.
LEMMA TwoTogether ==
  ASSUME NEW S, NEW s \in Seq(S), NEW t \in Seq(S), NEW m \in Nat, m = Len(s), NEW n \in Nat, n = Len(t)
  PROVE  /\ s \o t \in Seq(S) /\ Len(s \o t) = m + n
         /\ \A i \in 1 .. m + n : (s \o t)[i] = IF i <= m THEN s[i] ELSE t[i - m]
BY ConcatProperties

\* The contents c and the numbers w of their answers are those of the outcomes o.
Same(o, c, w) ==
  /\ o \in Seq(Got) /\ c \in Seq(Content) /\ w \in Seq(Nat)
  /\ Len(c) = Len(o) /\ Len(w) = Len(o)
  /\ \A i \in 1 .. Len(o) : c[i] = <<o[i].code, o[i].packet>> /\ w[i] = o[i].request

\* That is so of two of each, put together.
LEMMA SameTogether ==
  ASSUME NEW o, NEW c, NEW w, Same(o, c, w), NEW p, NEW d, NEW x, Same(p, d, x)
  PROVE  Same(o \o p, c \o d, w \o x)
<1>1. PICK m \in Nat, n \in Nat : m = Len(o) /\ n = Len(p)
  BY LenProperties DEF Same
<1>2. /\ o \in Seq(Got) /\ c \in Seq(Content) /\ w \in Seq(Nat)
      /\ p \in Seq(Got) /\ d \in Seq(Content) /\ x \in Seq(Nat)
      /\ Len(o) = m /\ Len(c) = m /\ Len(w) = m /\ Len(p) = n /\ Len(d) = n /\ Len(x) = n
      /\ \A i \in 1 .. m : c[i] = <<o[i].code, o[i].packet>> /\ w[i] = o[i].request
      /\ \A i \in 1 .. n : d[i] = <<p[i].code, p[i].packet>> /\ x[i] = p[i].request
  BY <1>1 DEF Same
<1>3. /\ o \o p \in Seq(Got) /\ Len(o \o p) = m + n
      /\ \A i \in 1 .. m + n : (o \o p)[i] = IF i <= m THEN o[i] ELSE p[i - m]
  <2>1. o \in Seq(Got) /\ p \in Seq(Got)
    BY <1>2
  <2>2. m = Len(o) /\ n = Len(p)
    BY <1>2
  <2> QED BY <2>1, <2>2, TwoTogether
<1>4. /\ c \o d \in Seq(Content) /\ Len(c \o d) = m + n
      /\ \A i \in 1 .. m + n : (c \o d)[i] = IF i <= m THEN c[i] ELSE d[i - m]
  <2>1. c \in Seq(Content) /\ d \in Seq(Content)
    BY <1>2
  <2>2. m = Len(c) /\ n = Len(d)
    BY <1>2
  <2> QED BY <2>1, <2>2, TwoTogether
<1>5. /\ w \o x \in Seq(Nat) /\ Len(w \o x) = m + n
      /\ \A i \in 1 .. m + n : (w \o x)[i] = IF i <= m THEN w[i] ELSE x[i - m]
  <2>1. w \in Seq(Nat) /\ x \in Seq(Nat)
    BY <1>2
  <2>2. m = Len(w) /\ n = Len(x)
    BY <1>2
  <2> QED BY <2>1, <2>2, TwoTogether
<1>6. \A i \in 1 .. m + n : /\ (c \o d)[i] = <<(o \o p)[i].code, (o \o p)[i].packet>>
                            /\ (w \o x)[i] = (o \o p)[i].request
  <2> TAKE i \in 1 .. m + n
  <2>1. CASE i <= m
    <3>1. i \in 1 .. m
      BY <2>1
    <3>2. (o \o p)[i] = o[i] /\ (c \o d)[i] = c[i] /\ (w \o x)[i] = w[i]
      BY <1>3, <1>4, <1>5, <2>1
    <3> QED BY <1>2, <3>1, <3>2
  <2>2. CASE ~(i <= m)
    <3>1. PICK j \in 1 .. n : j = i - m
      BY <2>2
    <3>2. (o \o p)[i] = p[j] /\ (c \o d)[i] = d[j] /\ (w \o x)[i] = x[j]
      BY <1>3, <1>4, <1>5, <2>2, <3>1
    <3> QED BY <1>2, <3>1, <3>2
  <2> QED BY <2>1, <2>2
<1> QED BY <1>3, <1>4, <1>5, <1>6 DEF Same

\* The contents of the first n answers of s, and the numbers of their answers.
CarriedOf(s, n) == FlattenSeq([i \in 1 .. n |-> s[i].contents])
OwnerOf(s, n)   == FlattenSeq([i \in 1 .. n |-> [j \in DOMAIN s[i].contents |-> i]])

\* Answer by answer.
LEMMA CarriedMore ==
  ASSUME NEW s \in Seq(Answer), NEW n \in Nat, n <= Len(s)
  PROVE  /\ n = 0 => CarriedOf(s, n) = <<>> /\ OwnerOf(s, n) = <<>>
         /\ \A k \in Nat : n = k + 1 =>
              /\ CarriedOf(s, n) = CarriedOf(s, k) \o s[n].contents
              /\ OwnerOf(s, n) = OwnerOf(s, k) \o [j \in DOMAIN s[n].contents |-> n]
<1>1. PICK m \in Nat : m = Len(s)
  BY LenProperties
<1> DEFINE c == [i \in 1 .. m |-> s[i].contents]
           w == [i \in 1 .. m |-> [j \in DOMAIN s[i].contents |-> i]]
<1>2. \A i \in 1 .. m : c[i] \in Seq(Content) /\ c[i] = s[i].contents
  BY <1>1, AnswerIs
<1>3. \A i \in 1 .. m : w[i] \in Seq(Nat) /\ w[i] = [j \in DOMAIN s[i].contents |-> i]
  <2> TAKE i \in 1 .. m
  <2>1. PICK k \in Nat : DOMAIN s[i].contents = 1 .. k
    BY <1>1, AnswerIs, LenProperties
  <2> DEFINE f == w[i]
  <2>2. f = [j \in 1 .. k |-> f[j]] /\ (\A j \in 1 .. k : f[j] \in Nat)
    BY <2>1
  <2> HIDE DEF f
  <2>3. f \in Seq(Nat)
    BY <2>2, FunctionIsSeq
  <2> QED BY <2>3 DEF f
<1>4. ASSUME NEW k \in Nat, k <= m PROVE CarriedOf(s, k) = UpTo(c, k) /\ OwnerOf(s, k) = UpTo(w, k)
  <2>1. [i \in 1 .. k |-> c[i]] = [i \in 1 .. k |-> s[i].contents]
    BY <1>4
  <2>2. [i \in 1 .. k |-> w[i]] = [i \in 1 .. k |-> [j \in DOMAIN s[i].contents |-> i]]
    BY <1>4
  <2> HIDE DEF c, w
  <2> QED BY <2>1, <2>2 DEF CarriedOf, OwnerOf, UpTo
<1> HIDE DEF c, w
<1>5. n <= m
  BY <1>1
<1>6. /\ n = 0 => UpTo(c, n) = <<>>
      /\ \A k \in Nat : n = k + 1 => UpTo(c, n) = UpTo(c, k) \o c[n]
  <2>1. \A i \in 1 .. m : c[i] \in Seq(Content)
    BY <1>2
  <2> QED BY <1>5, <2>1, FlattenUpTo
<1>7. /\ n = 0 => UpTo(w, n) = <<>>
      /\ \A k \in Nat : n = k + 1 => UpTo(w, n) = UpTo(w, k) \o w[n]
  <2>1. \A i \in 1 .. m : w[i] \in Seq(Nat)
    BY <1>3
  <2> QED BY <1>5, <2>1, FlattenUpTo
<1>8. ASSUME NEW k \in Nat, n = k + 1
      PROVE  /\ CarriedOf(s, n) = CarriedOf(s, k) \o s[n].contents
             /\ OwnerOf(s, n) = OwnerOf(s, k) \o [j \in DOMAIN s[n].contents |-> n]
  <2>1. k <= m /\ n \in 1 .. m
    BY <1>5, <1>8
  <2> QED BY <1>2, <1>3, <1>4, <1>5, <1>6, <1>7, <1>8, <2>1
<1> QED BY <1>4, <1>5, <1>6, <1>7, <1>8

\* The outcomes for one answer,
LEMMA OwedBySame ==
  ASSUME NEW c \in Seq(Content), NEW n \in Nat
  PROVE  Same(OwedBy(c, n, Len(c)), c, [j \in DOMAIN c |-> n])
<1>1. PICK m \in Nat : m = Len(c) /\ DOMAIN c = 1 .. m
  BY LenProperties
<1> DEFINE o == OwedBy(c, n, m)
           w == [j \in 1 .. m |-> n]
<1>2. o \in Seq(Got) /\ Len(o) = m
  <2>1. m <= Len(c)
    BY <1>1
  <2> QED BY <2>1, OwedByMore
<1>3. \A j \in 1 .. m : o[j].code = c[j][1] /\ o[j].packet = c[j][2] /\ o[j].request = n
  BY DEF OwedBy
<1>4. \A j \in 1 .. m : c[j] = <<c[j][1], c[j][2]>>
  <2> TAKE j \in 1 .. m
  <2>1. c[j] \in Content
    BY <1>1, ElementOfSeq
  <2> QED BY <2>1 DEF Content
<1>5. w = [j \in 1 .. m |-> w[j]] /\ \A j \in 1 .. m : w[j] \in Nat /\ w[j] = n
  OBVIOUS
<1> HIDE DEF o, w
<1>6. w \in Seq(Nat) /\ Len(w) = m
  BY <1>5, FunctionIsSeq
<1>7. Same(o, c, w)
  BY <1>1, <1>2, <1>3, <1>4, <1>5, <1>6 DEF Same
<1> QED BY <1>1, <1>7 DEF o, w

\* and for all of them.
LEMMA OwedSame ==
  ASSUME NEW s \in Seq(Answer), NEW n \in Nat, n <= Len(s)
  PROVE  Same(OwedOf(s, n), CarriedOf(s, n), OwnerOf(s, n))
<1>1. PICK m \in Nat : m = Len(s)
  BY LenProperties
<1> DEFINE N == {k \in Nat : k <= m => Same(OwedOf(s, k), CarriedOf(s, k), OwnerOf(s, k))}
<1>2. 0 \in N
  <2>1. 0 \in Nat /\ 0 <= Len(s)
    BY <1>1
  <2>2. OwedOf(s, 0) = <<>> /\ CarriedOf(s, 0) = <<>> /\ OwnerOf(s, 0) = <<>>
    BY <2>1, OwedMore, CarriedMore
  <2>3. Same(<<>>, <<>>, <<>>)
    BY DEF Same
  <2> QED BY <2>2, <2>3
<1>3. \A k \in N : k + 1 \in N
  <2> TAKE k \in N
  <2>1. PICK j \in Nat : j = k + 1
    OBVIOUS
  <2>2. SUFFICES ASSUME j <= m PROVE Same(OwedOf(s, j), CarriedOf(s, j), OwnerOf(s, j))
    BY <2>1
  <2>3. /\ k \in Nat /\ k <= m /\ j <= Len(s) /\ j \in 1 .. Len(s)
        /\ Same(OwedOf(s, k), CarriedOf(s, k), OwnerOf(s, k))
    BY <1>1, <2>1, <2>2
  <2> HIDE DEF N
  <2>4. /\ OwedOf(s, j) = OwedOf(s, k) \o OwedBy(s[j].contents, j, Len(s[j].contents))
        /\ CarriedOf(s, j) = CarriedOf(s, k) \o s[j].contents
        /\ OwnerOf(s, j) = OwnerOf(s, k) \o [i \in DOMAIN s[j].contents |-> j]
    BY <2>1, <2>3, OwedMore, CarriedMore
  <2>5. s[j].contents \in Seq(Content)
    BY <2>3, AnswerIs
  <2>6. Same(OwedBy(s[j].contents, j, Len(s[j].contents)), s[j].contents, [i \in DOMAIN s[j].contents |-> j])
    BY <2>5, OwedBySame
  <2> QED BY <2>3, <2>4, <2>6, SameTogether
<1>4. N \in SUBSET Nat
  OBVIOUS
<1> HIDE DEF N
<1>5. N = Nat
  BY <1>2, <1>3, <1>4, Induction
<1>6. n \in N
  BY <1>5
<1> QED BY <1>1, <1>6 DEF N

-----------------------------------------------------------------------------
(* A server that answers as this library does, to a client that asks for nothing else in between. *)

\* The contents that carry these packets with this code.
ServedAs(code, packs) == [i \in 1 .. Len(packs) |-> <<code, packs[i]>>]

\* a is a response with this code and this body, as package_header and the body senders send it.
Response(a, code, body, b) ==
  /\ code \in Codes /\ Sendable(a.kind, body, b)
  /\ a.bytes = Encode(Status(code), a.kind, body, b)
  /\ a.contents = ServedAs(code, IF a.kind = "WEBSOCKET" THEN <<Null>> ELSE Packets(a.kind, body))

\* a is sent the way this library sends responses.
WellSent(a) == \E code, body, b : Response(a, code, body, b)

\* All answers of s are.
AllWell(s) == \A i \in 1 .. Len(s) : WellSent(s[i])

\* The first n answers leave nothing behind: they are not streamed.
Plain(s, n) == \A i \in 1 .. n : s[i].kind \in {"NORMAL", "WEBSOCKET"}

\* g may be left behind them.
LeftBehind(s, n, g) == g \in Junk /\ (Plain(s, n) => g = <<>>)

\* The contents c are those of these packets with this code.
Fits(c, code, packs) ==
  /\ code \in Codes /\ c \in Seq(Content) /\ Len(c) \in Nat /\ Len(c) = Len(packs)
  /\ \A j \in 1 .. Len(c) : c[j][1] = code /\ c[j][2] = packs[j]

\* They are.
LEMMA ServedFits ==
  ASSUME NEW code \in Codes, NEW packs \in Seq(Seq(Symbol))
  PROVE  Fits(ServedAs(code, packs), code, packs)
<1>1. PICK n \in Nat : n = Len(packs)
  BY LenProperties
<1>2. \A i \in 1 .. n : packs[i] \in Seq(Symbol)
  BY <1>1, ElementOfSeq
<1> DEFINE c == ServedAs(code, packs)
<1>3. /\ c = [i \in 1 .. n |-> c[i]] /\ (\A i \in 1 .. n : c[i] \in Content)
      /\ \A i \in 1 .. n : c[i][1] = code /\ c[i][2] = packs[i]
  BY <1>1, <1>2 DEF ServedAs, Content
<1> HIDE DEF c
<1>4. c \in Seq(Content) /\ Len(c) = n
  BY <1>3, FunctionIsSeq
<1>5. Fits(c, code, packs)
  BY <1>1, <1>3, <1>4 DEF Fits
<1> QED BY <1>5 DEF c

\* An answer that is well sent is sent as a header and a body, and its contents are the packets.
LEMMA WellSentAs ==
  ASSUME NEW a, WellSent(a)
  PROVE  \E code, b, packs, h, rest :
           /\ code \in Codes /\ SentAs(a.bytes, a.kind, Status(code), b, packs, h, rest)
           /\ a.kind = "WEBSOCKET" => Fits(a.contents, code, <<Null>>)
           /\ a.kind # "WEBSOCKET" => Fits(a.contents, code, packs)
<1>1. PICK code, body, b : Response(a, code, body, b)
  BY DEF WellSent
<1> DEFINE packs == Packets(a.kind, body)
<1>2. /\ code \in Codes /\ Sendable(a.kind, body, b) /\ a.bytes = Encode(Status(code), a.kind, body, b)
      /\ a.contents = ServedAs(code, IF a.kind = "WEBSOCKET" THEN <<Null>> ELSE packs)
  BY <1>1 DEF Response
<1> HIDE DEF packs
<1>3. Status(code) \in FirstLines
  BY <1>2 DEF Status, FirstLines
<1>4. PICK d, h, rest : SentAs(a.bytes, a.kind, Status(code), d, packs, h, rest)
  BY <1>2, <1>3, SentIs DEF packs
<1>5. ASSUME a.kind # "WEBSOCKET" PROVE Fits(a.contents, code, packs)
  <2>1. packs \in Seq(Seq(Payload))
    BY <1>4, <1>5 DEF SentAs, BodyIs, PacketsOf
  <2>2. Seq(Payload) \subseteq Seq(Symbol)
    <3>1. Payload \subseteq Symbol
      BY BodySymbols
    <3> QED BY <3>1, SeqWider
  <2>3. packs \in Seq(Seq(Symbol))
    <3>1. PICK P, Q : P = Seq(Payload) /\ Q = Seq(Symbol)
      OBVIOUS
    <3>2. P \subseteq Q /\ packs \in Seq(P)
      BY <2>1, <2>2, <3>1
    <3>3. packs \in Seq(Q)
      BY <3>2, SeqWider
    <3> QED BY <3>1, <3>3
  <2> QED BY <1>2, <1>5, <2>3, ServedFits
<1>6. ASSUME a.kind = "WEBSOCKET" PROVE Fits(a.contents, code, <<Null>>)
  <2>1. Null \in Seq(Symbol)
    BY Patterns
  <2>2. <<Null>> \in Seq(Seq(Symbol))
    <3>1. PICK n \in Seq(Symbol) : n = Null
      BY <2>1
    <3>2. <<n>> \in Seq(Seq(Symbol))
      OBVIOUS
    <3> QED BY <3>1, <3>2
  <2>3. a.contents = ServedAs(code, <<Null>>)
    BY <1>2, <1>6
  <2> QED BY <1>2, <2>2, <2>3, ServedFits
<1> QED BY <1>2, <1>4, <1>5, <1>6

-----------------------------------------------------------------------------
(* How far the client is. *)

\* Nothing is known of a response.
Fresh(p) == p.type = "INVALID" /\ p.chunkBytes = -1 /\ p.boundary = NoBoundary

\* The application waits: it is in a call, or the last one was cut short.
Waiting == pc # "idle" \/ CutShort

\* Every answer that was sent is returned, and of the last one nothing but the rest of a line end
\* is left.
Quiet ==
  /\ Fresh(parser) /\ pc # "body"
  /\ asked \in {served, served + 1} /\ (asked # served => Waiting)
  /\ OksOf(results) = OwedOf(script, served)
  /\ LeftBehind(script, served, parser.pkts \o wire)

\* One more was sent, and its header has not arrived.
Awaiting ==
  /\ Fresh(parser) /\ pc # "body" /\ Waiting
  /\ asked = served
  /\ pc = "recv" => StillWaits(parser)
  /\ \E d, g : /\ d \in Nat /\ served = d + 1
               /\ OksOf(results) = OwedOf(script, d)
               /\ LeftBehind(script, d, g) /\ Joined(parser.pkts, wire, g, script[served].bytes)

\* The first k of the packets of the n-th answer of s, which has this code, were returned, and the
\* parser p is behind them.
Serves(s, d, n, p, w, os, code, packs, k) ==
  /\ d \in Nat /\ n = d + 1 /\ k \in Nat /\ k < Len(packs)
  /\ p.type = s[n].kind
  /\ p.type \in {"NORMAL", "CHUNK", "BOUNDARY"} /\ PacketsOf(p.type, packs)
  /\ Fits(s[n].contents, code, packs)
  /\ os = OwedOf(s, d) \o OwedBy(s[n].contents, n, k)
  /\ IsBehind(p, w, packs, k)
  /\ p.type # "CHUNK" => p.chunkBytes = -1
  /\ Deserialize(p.header) = code

\* The answer is being returned.
Serving ==
  /\ asked = served
  /\ \E d, code, packs, k : Serves(script, d, served, parser, wire, OksOf(results), code, packs, k)
  /\ pc = "idle" => CutShort \/ (resp # NoCode /\ ~Failed)
  /\ pc = "recv" => BodyWaits(parser)

\* The header of a switch is known, and it is to be returned.
Upgraded ==
  /\ asked = served /\ pc = "body"
  /\ parser.type = "WEBSOCKET" /\ parser.chunkBytes = -1 /\ parser.pkts \o wire = <<>>
  /\ \E d : d \in Nat /\ served = d + 1 /\ OksOf(results) = OwedOf(script, d)
  /\ Fits(script[served].contents, Deserialize(parser.header), <<Null>>)

\* The header that the parser keeps cannot be decoded.
Mute == parser.type # "INVALID" /\ resp = NoCode /\ Deserialize(parser.header) = NoCode

\* It does not begin with a status line: the line end of a streamed answer is in front of it.
Deaf ==
  /\ parser.type # "INVALID" /\ resp = NoCode /\ Deserialize(parser.header) = NoCode
  /\ \E d : d \in Nat /\ served = d + 1 /\ ~Plain(script, d)

\* The connection is broken, and nothing more comes out of what was received.
Lost ==
  /\ gone /\ wire = <<>>
  /\ \/ parser.type = "INVALID" /\ StillWaits(parser)
     \/ /\ parser.type \in {"NORMAL", "CHUNK", "BOUNDARY"} /\ BodyWaits(parser)
        /\ Deserialize(parser.header) # NoCode

\* One of these.
Talk == Quiet \/ Awaiting \/ Serving \/ Upgraded \/ Deaf \/ Lost

\* What was returned is the beginning of what was sent.
InOrder == Begins(OksOf(results), OwedOf(script, served), Got)

\* The invariant of a client that calls again after a call that was cut short, with such a server.
Conversing ==
  script \notin Hasty /\ AllWell(script) => InOrder /\ Talk /\ (Broken => Deaf)

\* The types of the history.
LEMMA HistoryType ==
  ASSUME IInv
  PROVE  /\ script \in Seq(Answer) /\ Len(script) \in Nat /\ served \in Nat /\ asked \in Nat
         /\ served <= asked /\ asked <= Len(script)
         /\ parser \in Parser /\ wire \in Seq(Symbol) /\ results \in Seq(Got)
         /\ pc \in {"idle", "loop", "body", "recv"} /\ resp \in Codes \cup {0, NoCode}
         /\ resp # NoCode => parser.type \in {"CHUNK", "BOUNDARY"} /\ resp = Deserialize(parser.header)
         /\ parser.type = "NORMAL" => parser.bodyBytes >= 0
         /\ pc = "body" => parser.type # "INVALID"
         /\ OksOf(results) \in Seq(Got)
<1>1. script \in Seq(Answer) /\ Len(script) \in Nat
  BY ScriptAssumption, LenProperties DEF IInv, TypeOK
<1>2. results \in Seq(Got)
  <2>1. Outcome \subseteq Got
    BY <1>1 DEF Outcome, Got
  <2>2. results \in Seq(Outcome)
    BY DEF IInv, TypeOK
  <2> QED BY <2>1, <2>2, SeqWider
<1>3. OksOf(results) \in Seq(Got)
  BY <1>2, OksMore
<1> QED BY <1>1, <1>2, <1>3 DEF IInv, TypeOK, SameResponse

\* What a call returns is one more outcome.
LEMMA Returned ==
  ASSUME IInv, NEW ret \in Rets, NEW code \in Codes \cup {0, NoCode}, NEW packet \in Seq(Symbol),
         Return(ret, code, packet),
         NEW o, o = [ret |-> ret, code |-> code, packet |-> packet, request |-> asked]
  PROVE  /\ pc' = "idle" /\ o \in Got /\ results' = Append(results, o)
         /\ ret = "OK" /\ ~Broken => OksOf(results') = Append(OksOf(results), o)
         /\ ret # "OK" => OksOf(results') = OksOf(results)
         /\ ret = "DISCONNECT" => CutShort'
         /\ ret \notin {"FORMAT", "FAILED"} => (Broken' => Broken)
         /\ ret = "OK" => ~Failed'
<1>1. pc' = "idle" /\ results' = Append(results, o)
  BY DEF Return
<1>2. results \in Seq(Got) /\ asked \in Nat
  BY HistoryType
<1>3. o \in Got
  BY <1>2 DEF Got
<1>4. PICK n \in Nat : n = Len(results)
  BY <1>2, LenProperties
<1>5. /\ results' \in Seq(Got) /\ Len(results') = n + 1
      /\ \A i \in 1 .. n : results'[i] = results[i]
      /\ results'[n + 1] = o
      /\ DOMAIN results = 1 .. n /\ DOMAIN results' = 1 .. n + 1
  BY <1>1, <1>2, <1>3, <1>4, AppendProperties, LenProperties
<1>6. o.ret = ret
  OBVIOUS
<1>7. /\ ret = "OK" /\ ~Broken => OksOf(results') = Append(OksOf(results), o)
      /\ ret # "OK" => OksOf(results') = OksOf(results)
  <2>1. ~Broken <=> ErrorsOf(results) = {}
    BY DEF Broken, Errors, ErrorsOf
  <2> QED BY <1>1, <1>2, <1>3, <1>6, <2>1, OksMore
<1>8. ASSUME ret \notin {"FORMAT", "FAILED"}, Broken' PROVE Broken
  <2>1. PICK i \in DOMAIN results' : results'[i].ret \in {"FORMAT", "FAILED"}
    BY <1>8 DEF Broken, Errors
  <2>2. i # n + 1
    BY <1>5, <1>6, <1>8, <2>1
  <2>3. i \in 1 .. n
    BY <1>5, <2>1, <2>2
  <2> QED BY <1>5, <2>1, <2>3 DEF Broken, Errors
<1>9. ASSUME ret = "OK" PROVE ~Failed'
  <2>1. Last(results') = o
    BY <1>5 DEF Last
  <2> QED BY <1>6, <1>9, <2>1 DEF Failed
<1>10. ASSUME ret = "DISCONNECT" PROVE CutShort'
  <2>1. Last(results') = o /\ results' # <<>>
    BY <1>2, <1>4, <1>5 DEF Last
  <2> QED BY <1>6, <1>10, <2>1 DEF CutShort
<1> QED BY <1>1, <1>3, <1>7, <1>8, <1>9, <1>10

-----------------------------------------------------------------------------
(* Every step keeps the client in one of these states. *)

\* What is true of such a conversation.
Talking == InOrder /\ Talk /\ (Broken => Deaf)

\* The steps of the server.
LEMMA SendTalking ==
  ASSUME IInv, Talking, SendAnswer
  PROVE  Talking'
<1>1. /\ ~gone /\ served < asked /\ wire' = wire \o script[served + 1].bytes /\ served' = served + 1
      /\ script' = script /\ gone' = gone /\ linked' = linked /\ pc' = pc /\ asked' = asked
      /\ parser' = parser /\ resp' = resp /\ results' = results
  BY DEF SendAnswer, client
<1>2. /\ script \in Seq(Answer) /\ Len(script) \in Nat /\ served \in Nat /\ asked \in Nat
      /\ served <= asked /\ asked <= Len(script) /\ wire \in Seq(Symbol)
      /\ parser \in Parser /\ parser.pkts \in Seq(Symbol) /\ OksOf(results) \in Seq(Got)
  BY HistoryType DEF Parser
<1>3. PICK n \in Nat : n = served + 1 /\ n \in 1 .. Len(script) /\ n <= Len(script)
  BY <1>1, <1>2
<1>4. script[n].bytes \in Seq(Symbol)
  BY <1>2, <1>3, AnswerIs
<1>5. InOrder'
  <2>1. Begins(OwedOf(script, served), OwedOf(script, n), Got)
    BY <1>2, <1>3, OwedMore
  <2>2. Begins(OksOf(results), OwedOf(script, n), Got)
    BY <1>2, <2>1, BeginsOnward DEF Talking, InOrder
  <2> QED BY <1>1, <1>3, <2>2 DEF InOrder
<1>6. ASSUME Deaf PROVE Deaf'
  <2>1. PICK d \in Nat : served = d + 1 /\ ~Plain(script, d)
    BY <1>6 DEF Deaf
  <2>2. ~Plain(script, served)
    <3>1. \A i \in 1 .. d : i \in 1 .. served
      BY <1>2, <2>1
    <3> QED BY <2>1, <3>1 DEF Plain
  <2>3. served \in Nat /\ served' = served + 1 /\ ~Plain(script', served)
    BY <1>1, <1>2, <2>2
  <2> QED BY <1>1, <1>6, <2>3 DEF Deaf
<1>7. ASSUME Quiet PROVE Awaiting'
  <2> DEFINE g == parser.pkts \o wire
  <2>1. /\ Fresh(parser) /\ pc # "body" /\ Waiting' /\ asked = n
        /\ OksOf(results) = OwedOf(script, served) /\ LeftBehind(script, served, g)
    <3>1. asked # served
      BY <1>1, <1>2
    <3>2. pc # "body" /\ Waiting' /\ asked = n
      BY <1>1, <1>3, <1>7, <3>1 DEF Quiet, Waiting, CutShort
    <3> QED BY <1>7, <3>2, HistoryType DEF Quiet
  <2>2. StillWaits(parser)
    BY <1>2, <2>1, LeftWaits DEF Fresh, LeftBehind
  <2>3. Joined(parser.pkts, wire', g, script[n].bytes)
    <3>1. wire' = wire \o script[n].bytes
      BY <1>1, <1>3
    <3>2. PICK s \in Seq(Symbol), w \in Seq(Symbol), b \in Seq(Symbol) : s = parser.pkts /\ w = wire /\ b = script[n].bytes
      BY <1>2, <1>4
    <3>3. s \o (w \o b) = (s \o w) \o b
      BY Together
    <3> QED BY <3>1, <3>2, <3>3 DEF Joined
  <2> HIDE DEF g
  <2>4. /\ served' = n /\ n = served + 1
    BY <1>1, <1>3
  <2>5. \E d, h : /\ d \in Nat /\ served' = d + 1
                  /\ OksOf(results') = OwedOf(script', d)
                  /\ LeftBehind(script', d, h) /\ Joined(parser'.pkts, wire', h, script'[served'].bytes)
    BY <1>1, <1>2, <2>1, <2>3, <2>4
  <2> QED BY <1>1, <2>1, <2>2, <2>4, <2>5 DEF Awaiting
<1>8. ~Awaiting /\ ~Serving /\ ~Upgraded /\ ~Lost
  <2>1. asked # served
    BY <1>1, <1>2
  <2> QED BY <1>1, <2>1 DEF Awaiting, Serving, Upgraded, Lost
<1>9. Broken' => Broken
  BY <1>1 DEF Broken, Errors
<1> QED BY <1>5, <1>6, <1>7, <1>8, <1>9 DEF Talking, Talk

\* Steps that leave the conversation alone.
LEMMA SameTalking ==
  ASSUME Talking, UNCHANGED <<script, served, wire, pc, asked, parser, resp, results>>, gone => gone'
  PROVE  Talking'
<1>1. /\ script' = script /\ served' = served /\ wire' = wire /\ pc' = pc /\ asked' = asked
      /\ parser' = parser /\ resp' = resp /\ results' = results
  OBVIOUS
<1>2. InOrder' /\ (Broken' => Broken) /\ (Failed' <=> Failed) /\ (CutShort' <=> CutShort)
  BY <1>1 DEF Talking, InOrder, Broken, Errors, Failed, CutShort
<1>3. (Quiet => Quiet') /\ (Awaiting => Awaiting') /\ (Upgraded => Upgraded') /\ (Deaf => Deaf')
  BY <1>1, <1>2 DEF Quiet, Awaiting, Upgraded, Deaf, Waiting
<1>4. Serving => Serving'
  BY <1>1, <1>2 DEF Serving
<1>5. Lost => Lost'
  BY <1>1 DEF Lost
<1> QED BY <1>2, <1>3, <1>4, <1>5 DEF Talking, Talk

\* Where the application may ask for the next response.
LEMMA AsksWhen ==
  ASSUME IInv, Talking, script \notin Hasty, MayAsk
  PROVE  (Quiet /\ asked = served) \/ Deaf \/ Lost
<1>1. pc = "idle" /\ (resp = NoCode \/ Failed) /\ ~CutShort
  BY DEF MayAsk
<1>2. ~Awaiting /\ ~Serving /\ ~Upgraded
  BY <1>1 DEF Awaiting, Serving, Upgraded, Waiting
<1>3. Quiet => asked = served
  BY <1>1 DEF Quiet, Waiting
<1> QED BY <1>2, <1>3 DEF Talking, Talk

\* A request is sent.
LEMMA RequestTalking ==
  ASSUME IInv, Talking, script \notin Hasty, Request
  PROVE  Talking'
<1>1. /\ MayAsk /\ asked' = asked + 1 /\ pc' = "loop" /\ script' = script /\ served' = served /\ wire' = wire
      /\ gone' = gone /\ parser' = parser /\ resp' = resp /\ results' = results
  BY DEF Request, server
<1>2. served \in Nat
  BY HistoryType
<1>3. InOrder' /\ (Broken' => Broken)
  BY <1>1 DEF Talking, InOrder, Broken, Errors
<1>4. ASSUME Quiet, asked = served PROVE Quiet'
  BY <1>1, <1>2, <1>4 DEF Quiet, Waiting
<1>5. (Deaf => Deaf') /\ (Lost => Lost')
  BY <1>1 DEF Deaf, Lost
<1> QED BY <1>1, <1>3, <1>4, <1>5, AsksWhen DEF Talking, Talk

\* A request cannot be sent.
LEMMA UnsentTalking ==
  ASSUME IInv, Talking, script \notin Hasty, RequestUnsent
  PROVE  Talking'
<1>1. /\ MayAsk /\ Return("UNSENT", NoCode, Null) /\ script' = script /\ served' = served /\ wire' = wire
      /\ gone' = gone /\ parser' = parser /\ resp' = resp /\ asked' = asked
  BY DEF RequestUnsent, server
<1>2. OksOf(results') = OksOf(results) /\ (Broken' => Broken) /\ pc' = "idle"
  <2>1. Null \in Seq(Symbol) /\ "UNSENT" \in Rets
    BY Patterns DEF Rets
  <2> QED BY <1>1, <2>1, Returned
<1>3. InOrder'
  BY <1>1, <1>2 DEF Talking, InOrder
<1>4. ASSUME Quiet, asked = served PROVE Quiet'
  BY <1>1, <1>2, <1>4 DEF Quiet
<1>5. (Deaf => Deaf') /\ (Lost => Lost')
  BY <1>1 DEF Deaf, Lost
<1> QED BY <1>1, <1>2, <1>3, <1>4, <1>5, AsksWhen DEF Talking, Talk

\* recv_resp is called on its own.
LEMMA CallTalking ==
  ASSUME IInv, Talking, RecvResp
  PROVE  Talking'
<1>1. /\ pc = "idle" /\ pc' = "loop" /\ script' = script /\ served' = served /\ wire' = wire
      /\ gone' = gone /\ parser' = parser /\ resp' = resp /\ results' = results /\ asked' = asked
  BY DEF RecvResp, server
<1>2. InOrder' /\ (Broken' => Broken)
  BY <1>1 DEF Talking, InOrder, Broken, Errors
<1>3. (Quiet => Quiet') /\ (Awaiting => Awaiting')
  BY <1>1 DEF Quiet, Awaiting, Waiting
<1>4. (Deaf => Deaf') /\ (Lost => Lost') /\ (Serving => Serving')
  BY <1>1 DEF Deaf, Lost, Serving
<1>5. ~Upgraded
  BY <1>1 DEF Upgraded
<1> QED BY <1>2, <1>3, <1>4, <1>5 DEF Talking, Talk

\* The time of a call is over.
LEMMA TimeoutTalking ==
  ASSUME IInv, Talking, Timeout
  PROVE  Talking'
<1>1. /\ pc = "recv" /\ Return("DISCONNECT", NoCode, Null) /\ script' = script /\ served' = served
      /\ wire' = wire /\ gone' = gone /\ asked' = asked /\ parser' = parser /\ resp' = resp
  BY DEF Timeout, server
<1>2. /\ OksOf(results') = OksOf(results) /\ (Broken' => Broken) /\ CutShort' /\ pc' = "idle"
  <2>1. Null \in Seq(Symbol) /\ "DISCONNECT" \in Rets
    BY Patterns DEF Rets
  <2> QED BY <1>1, <2>1, Returned
<1>3. InOrder'
  BY <1>1, <1>2 DEF Talking, InOrder
<1>4. (Quiet => Quiet') /\ (Awaiting => Awaiting')
  BY <1>1, <1>2 DEF Quiet, Awaiting, Waiting
<1>5. Serving => Serving'
  BY <1>1, <1>2 DEF Serving
<1>6. (Deaf => Deaf') /\ (Lost => Lost') /\ ~Upgraded
  BY <1>1 DEF Deaf, Lost, Upgraded
<1> QED BY <1>2, <1>3, <1>4, <1>5, <1>6 DEF Talking, Talk

\* The connection is broken while the client waits.
LEMMA BrokenTalking ==
  ASSUME IInv, Talking, RecvFail
  PROVE  Talking'
<1>1. /\ pc = "recv" /\ gone /\ wire' = <<>> /\ Return("DISCONNECT", NoCode, Null) /\ script' = script
      /\ served' = served /\ gone' = gone /\ asked' = asked /\ parser' = parser /\ resp' = resp
  BY DEF RecvFail
<1>2. OksOf(results') = OksOf(results) /\ (Broken' => Broken)
  <2>1. Null \in Seq(Symbol) /\ "DISCONNECT" \in Rets
    BY Patterns DEF Rets
  <2> QED BY <1>1, <2>1, Returned
<1>3. InOrder'
  BY <1>1, <1>2 DEF Talking, InOrder
<1>4. parser \in Parser /\ wire \in Seq(Symbol)
  BY HistoryType
<1>5. ASSUME Quiet PROVE Lost'
  <2>1. parser.type = "INVALID" /\ parser.pkts \o wire \in Junk
    BY <1>5 DEF Quiet, Fresh, LeftBehind
  <2>2. StillWaits(parser)
    BY <1>4, <2>1, LeftWaits
  <2> QED BY <1>1, <2>1, <2>2 DEF Lost
<1>6. ASSUME Awaiting PROVE Lost'
  BY <1>1, <1>6 DEF Awaiting, Lost, Fresh
<1>7. ASSUME Serving PROVE Lost'
  <2>1. PICK d, code, packs, k : Serves(script, d, served, parser, wire, OksOf(results), code, packs, k)
    BY <1>7 DEF Serving
  <2>2. code \in Codes /\ parser.type \in {"NORMAL", "CHUNK", "BOUNDARY"} /\ Deserialize(parser.header) = code
    BY <2>1 DEF Serves, Fits
  <2>3. Deserialize(parser.header) # NoCode
    BY <2>2, CodeAssumption
  <2> QED BY <1>1, <1>7, <2>2, <2>3 DEF Lost, Serving
<1>8. (Deaf => Deaf') /\ (Lost => Lost') /\ ~Upgraded
  BY <1>1 DEF Deaf, Lost, Upgraded
<1> QED BY <1>2, <1>3, <1>5, <1>6, <1>7, <1>8 DEF Talking, Talk

\* More has arrived.
LEMMA RecvTalking ==
  ASSUME IInv, Talking, NEW n \in 1 .. RecvMax, RecvSome(n)
  PROVE  Talking'
<1>1. /\ pc = "recv" /\ n <= Len(wire) /\ wire' = Consume(wire, n) /\ parser' = Push(parser, Read(wire, n))
      /\ pc' = "loop" /\ script' = script /\ served' = served /\ gone' = gone /\ asked' = asked /\ resp' = resp
      /\ results' = results
  BY DEF RecvSome
<1>2. parser \in Parser /\ wire \in Seq(Symbol)
  BY HistoryType
<1>3. n \in Nat /\ n # 0 /\ n \in 0 .. Len(wire)
  BY <1>1, <1>2, RecvMaxAssumption, LenProperties
<1>4. Read(wire, n) \in Seq(Symbol)
  BY <1>2, <1>3, ReadAndLeft
<1>5. /\ parser' \in Parser /\ parser'.type = parser.type /\ parser'.bodyBytes = parser.bodyBytes
      /\ parser'.boundary = parser.boundary /\ parser'.header = parser.header
      /\ parser'.chunkBytes = parser.chunkBytes
  BY <1>1, <1>2, <1>4, PushType
<1>6. parser'.pkts \o wire' = parser.pkts \o wire
  BY <1>1, <1>2, <1>3, ReceivedSame
<1>7. InOrder' /\ (Broken' => Broken)
  BY <1>1 DEF Talking, InOrder, Broken, Errors
<1>8. ASSUME Quiet PROVE Quiet'
  BY <1>1, <1>5, <1>6, <1>8 DEF Quiet, Fresh, Waiting
<1>9. ASSUME Awaiting PROVE Awaiting'
  BY <1>1, <1>5, <1>6, <1>9 DEF Awaiting, Fresh, Joined, Waiting
<1>10. ASSUME Serving PROVE Serving'
  <2>1. PICK d, code, packs, k : Serves(script, d, served, parser, wire, OksOf(results), code, packs, k)
    BY <1>10 DEF Serving
  <2>2. IsBehind(parser', wire', packs, k)
    BY <1>5, <1>6, <2>1, BehindKept DEF Serves
  <2>3. Serves(script, d, served, parser', wire', OksOf(results), code, packs, k)
    BY <1>5, <2>1, <2>2 DEF Serves
  <2> QED BY <1>1, <1>10, <2>3 DEF Serving
<1>11. Deaf => Deaf'
  BY <1>1, <1>5 DEF Deaf
<1>12. ~Upgraded /\ ~Lost
  <2>1. wire # <<>>
    BY <1>1, <1>3
  <2> QED BY <1>1, <2>1 DEF Upgraded, Lost
<1> QED BY <1>7, <1>8, <1>9, <1>10, <1>11, <1>12 DEF Talking, Talk

\* The header of the n-th answer is waited for, or known.
LEMMA HeaderReads ==
  ASSUME NEW p \in Parser, Fresh(p), NEW w \in Seq(Symbol), NEW s \in Seq(Answer), AllWell(s),
         NEW n \in 1 .. Len(s), NEW d, NEW g, LeftBehind(s, d, g), Joined(p.pkts, w, g, s[n].bytes)
  PROVE  \/ StillWaits(p)
         \/ \E c, code, packs :
              /\ HeaderKnown(ParseHeader(p), w, c, s[n].kind, Status(code), packs)
              /\ s[n].kind \in {"NORMAL", "CHUNK", "BOUNDARY", "WEBSOCKET"}
              /\ s[n].kind = "WEBSOCKET" => Fits(s[n].contents, code, <<Null>>)
              /\ s[n].kind # "WEBSOCKET" => Fits(s[n].contents, code, packs)
              /\ code \in Codes /\ (c = 2 => ~Plain(s, d))
<1>1. WellSent(s[n])
  BY DEF AllWell
<1> DEFINE a == s[n]
<1>2. PICK code, b, packs, h, rest :
           /\ code \in Codes /\ SentAs(a.bytes, a.kind, Status(code), b, packs, h, rest)
           /\ a.kind = "WEBSOCKET" => Fits(a.contents, code, <<Null>>)
           /\ a.kind # "WEBSOCKET" => Fits(a.contents, code, packs)
  BY <1>1, WellSentAs
<1>3. a.kind \in {"NORMAL", "CHUNK", "BOUNDARY", "WEBSOCKET"}
  BY <1>2 DEF SentAs
<1> HIDE DEF a
<1>4. PICK bytes, kind, first : bytes = a.bytes /\ kind = a.kind /\ first = Status(code)
  OBVIOUS
<1>5. SentAs(bytes, kind, first, b, packs, h, rest) /\ Joined(p.pkts, w, g, bytes)
  BY <1>2, <1>4 DEF a
<1>6. g \in Junk
  BY DEF LeftBehind
<1>7. PICK c : c = Len(g)
  OBVIOUS
<1>8. \/ ParseHeader(p).ret = "CONTINUE" /\ ParseHeader(p).p = p
      \/ HeaderKnown(ParseHeader(p), w, c, kind, first, packs)
  BY <1>5, <1>6, <1>7, HeaderIsKnown DEF Fresh
<1>9. c = 2 => ~Plain(s, d)
  <2>1. Plain(s, d) => g = <<>>
    BY DEF LeftBehind
  <2>2. g = <<>> => Len(g) = 0
    OBVIOUS
  <2> QED BY <1>7, <2>1, <2>2
<1> QED BY <1>2, <1>3, <1>4, <1>8, <1>9 DEF StillWaits, a

\* The header is known: the answer is returned from now on, or cannot be.
LEMMA KnownTalking ==
  ASSUME IInv, Talking, AllWell(script), Awaiting, Parse, ~StillWaits(parser)
  PROVE  Serving' \/ Upgraded' \/ Deaf'
<1> DEFINE r == ParseHeader(parser)
<1>1. PICK d, g : /\ d \in Nat /\ served = d + 1
                  /\ OksOf(results) = OwedOf(script, d)
                  /\ LeftBehind(script, d, g) /\ Joined(parser.pkts, wire, g, script[served].bytes)
  BY DEF Awaiting
<1>2. Fresh(parser) /\ asked = served
  BY DEF Awaiting
<1>3. /\ script \in Seq(Answer) /\ Len(script) \in Nat /\ served \in 1 .. Len(script) /\ d <= Len(script)
      /\ parser \in Parser /\ wire \in Seq(Symbol) /\ resp = NoCode
  BY <1>1, <1>2, HistoryType DEF Fresh
<1>4. PICK c, code, packs :
           /\ HeaderKnown(r, wire, c, script[served].kind, Status(code), packs)
           /\ script[served].kind \in {"NORMAL", "CHUNK", "BOUNDARY", "WEBSOCKET"}
           /\ script[served].kind = "WEBSOCKET" => Fits(script[served].contents, code, <<Null>>)
           /\ script[served].kind # "WEBSOCKET" => Fits(script[served].contents, code, packs)
           /\ code \in Codes /\ (c = 2 => ~Plain(script, d))
  BY <1>1, <1>2, <1>3, HeaderReads
<1>5. /\ script' = script /\ served' = served /\ wire' = wire /\ gone' = gone /\ asked' = asked /\ resp' = resp
      /\ parser' = r.p /\ (r.ret = "OK" => pc' = "body" /\ results' = results)
  BY <1>2 DEF Parse, server, Fresh
<1>6. r.p.chunkBytes = -1
  BY <1>2, <1>3, ParseHeaderResult DEF Fresh
<1> HIDE DEF r
<1>7. /\ r.ret = "OK" /\ r.p.type = script[served].kind /\ FirstWordIs(r.p.header, c, Status(code))
      /\ script[served].kind = "WEBSOCKET" => r.p.pkts \o wire = <<>>
      /\ script[served].kind # "WEBSOCKET" => PacketsOf(script[served].kind, packs) /\ IsBehind(r.p, wire, packs, 0)
  BY <1>4 DEF HeaderKnown, Makes
<1>8. Deserialize(r.p.header) = IF c = 2 THEN NoCode ELSE code
  BY <1>7, DeserializeFirst
<1>9. pc' = "body" /\ results' = results
  BY <1>5, <1>7
<1>10. CASE c = 2
  <2>1. r.p.type # "INVALID" /\ Deserialize(r.p.header) = NoCode /\ ~Plain(script, d)
    BY <1>4, <1>7, <1>8, <1>10
  <2>2. Deaf'
    BY <1>1, <1>3, <1>5, <2>1 DEF Deaf
  <2> QED BY <2>2
<1>11. CASE c # 2 /\ script[served].kind = "WEBSOCKET"
  <2>1. Fits(script[served].contents, Deserialize(r.p.header), <<Null>>)
    BY <1>4, <1>8, <1>11
  <2>2. Upgraded'
    BY <1>1, <1>2, <1>5, <1>6, <1>7, <1>9, <1>11, <2>1 DEF Upgraded
  <2> QED BY <2>2
<1>12. CASE c # 2 /\ script[served].kind # "WEBSOCKET"
  <2>1. PICK n : n = served /\ script[n].kind = r.p.type /\ n = d + 1
    BY <1>1, <1>7
  <2>2. OwedBy(script[n].contents, n, 0) = <<>> /\ OwedOf(script, d) \in Seq(Got)
    <3>1. OwedBy(script[n].contents, n, 0) = <<>>
      BY DEF OwedBy
    <3>2. OwedOf(script, d) \in Seq(Got)
      BY <1>1, <1>3, OwedMore
    <3> QED BY <3>1, <3>2
  <2>3. OksOf(results) = OwedOf(script, d) \o OwedBy(script[n].contents, n, 0)
    BY <1>1, <2>2
  <2>4. /\ PacketsOf(r.p.type, packs) /\ IsBehind(r.p, wire, packs, 0) /\ Fits(script[n].contents, code, packs)
        /\ Deserialize(r.p.header) = code /\ r.p.type \in {"NORMAL", "CHUNK", "BOUNDARY"}
    BY <1>4, <1>7, <1>8, <1>12, <2>1
  <2>5. 0 < Len(packs)
    BY <2>4 DEF PacketsOf
  <2>6. Serves(script, d, n, r.p, wire, OksOf(results), code, packs, 0)
    BY <1>1, <1>6, <2>1, <2>3, <2>4, <2>5 DEF Serves
  <2>7. \E dd, cc, pp, kk : Serves(script', dd, served', parser', wire', OksOf(results'), cc, pp, kk)
    BY <1>5, <1>9, <2>1, <2>6
  <2>8. asked' = served' /\ pc' = "body"
    BY <1>2, <1>5, <1>9
  <2>9. Serving'
    BY <2>7, <2>8 DEF Serving
  <2> QED BY <2>9
<1> QED BY <1>10, <1>11, <1>12

\* A header is waited for, found, or known already.
LEMMA ParseTalking ==
  ASSUME IInv, Talking, AllWell(script), Parse
  PROVE  Talking'
<1>1. /\ pc = "loop" /\ script' = script /\ served' = served /\ wire' = wire /\ gone' = gone /\ asked' = asked
      /\ resp' = resp /\ results' = results
  BY DEF Parse, server, Wait
<1>2. parser.type # "INVALID" => parser' = parser /\ pc' = "body"
  BY DEF Parse, Result
<1>3. StillWaits(parser) /\ parser.type = "INVALID" => parser' = parser /\ pc' = "recv"
  BY DEF Parse, StillWaits, Wait
<1>4. parser \in Parser /\ wire \in Seq(Symbol)
  BY HistoryType
<1>5. InOrder' /\ (Broken' => Broken)
  BY <1>1 DEF Talking, InOrder, Broken, Errors
<1>6. ASSUME Quiet PROVE Quiet'
  <2>1. parser.type = "INVALID" /\ parser.pkts \o wire \in Junk
    BY <1>6 DEF Quiet, Fresh, LeftBehind
  <2>2. StillWaits(parser)
    BY <1>4, <2>1, LeftWaits
  <2> QED BY <1>1, <1>3, <1>6, <2>1, <2>2 DEF Quiet, Waiting
<1>7. ASSUME Awaiting PROVE Awaiting' \/ Serving' \/ Upgraded' \/ Deaf'
  <2>1. CASE StillWaits(parser)
    <3>1. parser' = parser /\ pc' = "recv"
      BY <1>3, <1>7, <2>1 DEF Awaiting, Fresh
    <3>2. Awaiting'
      BY <1>1, <1>7, <2>1, <3>1 DEF Awaiting, Waiting
    <3> QED BY <3>2
  <2>2. CASE ~StillWaits(parser)
    BY <1>7, <2>2, KnownTalking
  <2> QED BY <2>1, <2>2
<1>8. ASSUME Serving PROVE Serving'
  <2>1. parser.type # "INVALID"
    BY <1>8 DEF Serving, Serves
  <2> QED BY <1>1, <1>2, <1>8, <2>1 DEF Serving
<1>9. Deaf => Deaf'
  BY <1>1, <1>2 DEF Deaf
<1>10. Lost => Lost'
  BY <1>1, <1>2, <1>3 DEF Lost
<1>11. ~Upgraded
  BY <1>1 DEF Upgraded
<1>12. Deaf => Deaf'
  BY <1>9
<1> QED BY <1>5, <1>6, <1>7, <1>8, <1>9, <1>10, <1>11 DEF Talking, Talk

\* What the rest of a round does with a body: r is what the parser hands out, code is what the
\* header says.
BodyDoes(r, code) ==
  \/ /\ r.ret = "CONTINUE" /\ (parser.type = "NORMAL" \/ code # NoCode)
     /\ Wait /\ parser' = r.p /\ resp' \in {resp, code}
  \/ /\ code = NoCode
     /\ Return("FORMAT", NoCode, Null) /\ parser' \in {parser, r.p} /\ resp' = resp
  \/ /\ r.ret = "INVALID_ARG" /\ code # NoCode
     /\ Return("FAILED", NoCode, Null) /\ parser' = r.p
  \/ /\ r.ret = "OK" /\ code # NoCode
     /\ Return("OK", code, r.packet)
     /\ IF parser.type = "NORMAL" \/ r.packet = Null
        THEN parser' = Reset(r.p) /\ resp' = NoCode
        ELSE parser' = r.p /\ resp' = code

\* It does that.
LEMMA BodyIsDone ==
  ASSUME IInv, Body, parser.type \in {"NORMAL", "CHUNK", "BOUNDARY"}
  PROVE  BodyDoes(NextOf(parser), Deserialize(parser.header))
<1> DEFINE code == Deserialize(parser.header)
           r    == NextOf(parser)
<1>1. code = IF resp = NoCode THEN code ELSE resp
  BY HistoryType
<1>2. CASE parser.type = "NORMAL"
  <2>1. LoopNormal(parser) /\ r = GetContent(parser)
    BY <1>2, NextOfIs DEF Body
  <2>2. \/ r.ret = "CONTINUE" /\ Wait /\ parser' = r.p /\ resp' = resp
        \/ code = NoCode /\ Return("FORMAT", NoCode, Null) /\ parser' = r.p /\ resp' = resp
        \/ r.ret = "OK" /\ code # NoCode /\ Return("OK", code, r.packet) /\ parser' = Reset(r.p) /\ resp' = NoCode
    <3> HIDE DEF r
    <3> QED BY <2>1 DEF LoopNormal
  <2> HIDE DEF r, code
  <2>3. BodyDoes(r, code)
    BY <1>2, <2>2 DEF BodyDoes
  <2> QED BY <2>3 DEF r, code
<1>3. CASE parser.type # "NORMAL"
  <2>1. \/ code = NoCode /\ Return("FORMAT", NoCode, Null) /\ UNCHANGED <<parser, resp>>
        \/ code # NoCode /\ LoopOther(parser, code)
    <3> HIDE DEF code
    <3>1. PICK x : x = (IF resp = NoCode THEN Deserialize(parser.header) ELSE resp) /\ x = code
      BY <1>1 DEF code
    <3> QED BY <1>3, <3>1 DEF Body
  <2>2. \A x : r = CASE parser.type = "WEBSOCKET" -> x
                     [] parser.type = "CHUNK"     -> GetChunk(parser)
                     [] parser.type = "BOUNDARY"  -> GetBoundary(parser)
    <3>1. CASE parser.type = "CHUNK"
      <4>1. r = GetChunk(parser)
        BY <3>1, NextOfIs
      <4> HIDE DEF r
      <4> QED BY <3>1, <4>1
    <3>2. CASE parser.type = "BOUNDARY"
      <4>1. r = GetBoundary(parser)
        BY <3>2, NextOfIs
      <4> HIDE DEF r
      <4> QED BY <3>2, <4>1
    <3> QED BY <1>3, <3>1, <3>2
  <2> HIDE DEF r, code
  <2>3. ASSUME LoopOther(parser, code)
        PROVE  \/ r.ret = "CONTINUE" /\ Wait /\ parser' = r.p /\ resp' = code
               \/ r.ret = "INVALID_ARG" /\ Return("FAILED", NoCode, Null) /\ parser' = r.p
               \/ /\ r.ret = "OK" /\ Return("OK", code, r.packet)
                  /\ parser' = (IF r.packet = Null THEN Reset(r.p) ELSE r.p)
                  /\ resp' = (IF r.packet = Null THEN NoCode ELSE code)
    BY <2>2, <2>3 DEF LoopOther
  <2>4. CASE code = NoCode /\ Return("FORMAT", NoCode, Null) /\ UNCHANGED <<parser, resp>>
    <3>1. BodyDoes(r, code)
      BY <2>4 DEF BodyDoes
    <3> QED BY <3>1 DEF r, code
  <2>5. CASE code # NoCode /\ LoopOther(parser, code)
    <3>1. BodyDoes(r, code)
      BY <1>3, <2>3, <2>5 DEF BodyDoes
    <3> QED BY <3>1 DEF r, code
  <2> QED BY <2>1, <2>4, <2>5
<1> QED BY <1>2, <1>3

\* The members that a round leaves alone.
LEMMA BodyKeeps ==
  ASSUME Body
  PROVE  /\ pc = "body" /\ script' = script /\ served' = served /\ wire' = wire /\ gone' = gone
         /\ asked' = asked
BY DEF Body, server

\* A switch is returned.
LEMMA SwitchTalking ==
  ASSUME IInv, Talking, Upgraded, Body
  PROVE  Talking'
<1> DEFINE code == Deserialize(parser.header)
           c    == script[served].contents
           o    == [ret |-> "OK", code |-> code, packet |-> Null, request |-> asked]
<1>1. PICK d : d \in Nat /\ served = d + 1 /\ OksOf(results) = OwedOf(script, d)
  BY DEF Upgraded
<1>2. /\ asked = served /\ parser.type = "WEBSOCKET" /\ parser.chunkBytes = -1 /\ parser.pkts \o wire = <<>>
      /\ Fits(c, code, <<Null>>)
  BY DEF Upgraded
<1>3. /\ script \in Seq(Answer) /\ Len(script) \in Nat /\ served \in 1 .. Len(script) /\ served \in Nat
      /\ served <= Len(script) /\ parser \in Parser /\ wire \in Seq(Symbol) /\ resp = NoCode
      /\ OksOf(results) \in Seq(Got)
  BY <1>1, <1>2, HistoryType
<1>4. code \in Codes /\ code # NoCode /\ Len(c) = 1 /\ c[1][1] = code /\ c[1][2] = Null /\ c \in Seq(Content)
  BY <1>2, CodeAssumption DEF Fits
<1> HIDE DEF c
<1>5. Return("OK", code, Null) /\ parser' = Reset(parser) /\ resp' = NoCode
  <2> HIDE DEF code
  <2>1. LoopOther(parser, code)
    <3>1. PICK x : x = (IF resp = NoCode THEN Deserialize(parser.header) ELSE resp) /\ x = code
      BY <1>3 DEF code
    <3> QED BY <1>2, <1>4, <3>1 DEF Body
  <2>2. PICK r : r = Result("OK", Null, parser)
    OBVIOUS
  <2>3. r.ret = "OK" /\ r.packet = Null /\ r.p = parser
    BY <2>2 DEF Result
  <2>4. \A x, y : r = CASE parser.type = "WEBSOCKET" -> r
                        [] parser.type = "CHUNK"     -> x
                        [] parser.type = "BOUNDARY"  -> y
    BY <1>2
  <2>5. /\ Return("OK", code, r.packet)
        /\ parser' = (IF r.packet = Null THEN Reset(r.p) ELSE r.p)
        /\ resp' = (IF r.packet = Null THEN NoCode ELSE code)
    BY <2>1, <2>2, <2>3, <2>4 DEF LoopOther
  <2> QED BY <2>3, <2>5
<1>12. ~Broken
  <2>1. ~Deaf
    BY <1>4 DEF Deaf, code
  <2> QED BY <2>1 DEF Talking
<1>6. pc' = "idle" /\ o \in Got /\ OksOf(results') = Append(OksOf(results), o) /\ (Broken' => Broken)
  <2>1. "OK" \in Rets /\ Null \in Seq(Symbol) /\ code \in Codes \cup {0, NoCode}
    BY <1>4, Patterns DEF Rets
  <2> HIDE DEF code
  <2> QED BY <1>5, <1>12, <2>1, Returned
<1>7. OksOf(results') = OwedOf(script, served)
  <2>1. PICK n \in Nat : n = served /\ n = d + 1 /\ n <= Len(script)
    BY <1>1, <1>3
  <2>2. OwedOf(script, n) = OwedOf(script, d) \o OwedBy(c, n, Len(c)) /\ OwedOf(script, d) \in Seq(Got)
    BY <1>1, <1>3, <2>1, OwedMore DEF c
  <2>3. OwedBy(c, n, Len(c)) = <<o>>
    <3>1. OwedBy(c, n, 1) = <<[ret |-> "OK", code |-> c[1][1], packet |-> c[1][2], request |-> n]>>
      BY DEF OwedBy
    <3> QED BY <1>2, <1>4, <2>1, <3>1
  <2> HIDE DEF o
  <2>4. OwedOf(script, d) \o <<o>> = Append(OwedOf(script, d), o)
    BY <1>6, <2>2
  <2> QED BY <1>1, <1>6, <2>1, <2>2, <2>3, <2>4
<1>8. Fresh(Reset(parser)) /\ Reset(parser).pkts \o wire = <<>>
  BY <1>2, <1>3, ResetType DEF Fresh, Reset, Parser
<1>9. LeftBehind(script, served, Reset(parser).pkts \o wire)
  BY <1>8 DEF LeftBehind, Junk
<1> HIDE DEF o, code
<1>10. Quiet'
  BY <1>2, <1>5, <1>6, <1>7, <1>8, <1>9, BodyKeeps DEF Quiet
<1>11. InOrder'
  <2>1. Begins(OksOf(results'), OwedOf(script, served), Got)
    <3>1. OwedOf(script, served) \in Seq(Got)
      BY <1>3, OwedMore
    <3> QED BY <1>7, <3>1, BeginsItself
  <2> QED BY <2>1, BodyKeeps DEF InOrder
<1> QED BY <1>6, <1>10, <1>11, <1>12 DEF Talking, Talk

\* A header that cannot be decoded is reported every time, and stays.
LEMMA MuteStays ==
  ASSUME IInv, Mute, Body
  PROVE  Mute' /\ (Wait \/ Return("FORMAT", NoCode, Null))
<1>1. parser.type # "INVALID" /\ resp = NoCode /\ Deserialize(parser.header) = NoCode
  BY DEF Mute
<1>2. parser \in Parser /\ (parser.type = "NORMAL" => parser.bodyBytes >= 0)
  BY HistoryType
<1>3. parser.type \in {"NORMAL", "CHUNK", "BOUNDARY", "WEBSOCKET"}
  BY <1>1, <1>2 DEF Parser, Types
<1>4. /\ parser'.type = parser.type /\ parser'.header = parser.header /\ resp' = NoCode
      /\ Wait \/ Return("FORMAT", NoCode, Null)
  <2>1. CASE parser.type # "WEBSOCKET"
    <3>1. NextOf(parser).p.type = parser.type /\ NextOf(parser).p.header = parser.header
      BY <1>2, <1>3, <2>1, NextKeeps
    <3>2. BodyDoes(NextOf(parser), NoCode)
      BY <1>1, <1>3, <2>1, BodyIsDone
    <3> QED BY <1>1, <3>1, <3>2 DEF BodyDoes
  <2>2. CASE parser.type = "WEBSOCKET"
    <3>1. PICK x : x = (IF resp = NoCode THEN Deserialize(parser.header) ELSE resp) /\ x = NoCode
      BY <1>1
    <3>2. Return("FORMAT", NoCode, Null) /\ UNCHANGED <<parser, resp>>
      BY <2>2, <3>1 DEF Body
    <3> QED BY <1>1, <3>2
  <2> QED BY <2>1, <2>2
<1>5. Mute'
  BY <1>1, <1>4 DEF Mute
<1> QED BY <1>4, <1>5

\* Such a header behind a streamed answer is reported every time.
LEMMA DeafStays ==
  ASSUME IInv, Deaf, Body
  PROVE  Deaf' /\ OksOf(results') = OksOf(results)
<1>1. Mute /\ \E d : d \in Nat /\ served = d + 1 /\ ~Plain(script, d)
  BY DEF Deaf, Mute
<1>2. Mute' /\ (Wait \/ Return("FORMAT", NoCode, Null))
  BY <1>1, MuteStays
<1>5. OksOf(results') = OksOf(results)
  <2>1. CASE Wait
    BY <2>1 DEF Wait
  <2>2. CASE Return("FORMAT", NoCode, Null)
    <3>1. "FORMAT" \in Rets /\ Null \in Seq(Symbol)
      BY Patterns DEF Rets
    <3> QED BY <2>2, <3>1, Returned
  <2> QED BY <1>2, <2>1, <2>2
<1>6. Deaf'
  BY <1>1, <1>2, BodyKeeps DEF Deaf, Mute
<1> QED BY <1>5, <1>6

\* Nothing is returned there.
LEMMA DeafTalking ==
  ASSUME IInv, Talking, Deaf, Body
  PROVE  Talking'
<1>1. Deaf' /\ OksOf(results') = OksOf(results)
  BY DeafStays
<1>2. InOrder'
  BY <1>1, BodyKeeps DEF Talking, InOrder
<1> QED BY <1>1, <1>2 DEF Talking, Talk

\* Nothing comes out of what is left of a broken connection.
LEMMA LostTalking ==
  ASSUME IInv, Talking, Lost, Body
  PROVE  Talking'
<1>1. /\ gone /\ wire = <<>> /\ parser.type \in {"NORMAL", "CHUNK", "BOUNDARY"} /\ BodyWaits(parser)
      /\ Deserialize(parser.header) # NoCode
  BY BodyKeeps, HistoryType DEF Lost
<1>2. BodyDoes(NextOf(parser), Deserialize(parser.header))
  BY <1>1, BodyIsDone
<1>3. Wait /\ parser' = parser
  BY <1>1, <1>2 DEF BodyDoes, BodyWaits
<1>4. results' = results
  BY <1>3 DEF Wait
<1>5. Lost'
  BY <1>1, <1>3, BodyKeeps DEF Lost
<1>6. InOrder' /\ (Broken' => Broken)
  BY <1>4, BodyKeeps DEF Talking, InOrder, Broken, Errors
<1>7. ~Deaf
  BY <1>1 DEF Deaf
<1> QED BY <1>5, <1>6, <1>7 DEF Talking, Talk

\* What is known of a parser that is in an answer.
LEMMA ServesIs ==
  ASSUME NEW s \in Seq(Answer), NEW n \in 1 .. Len(s), NEW p \in Parser, NEW w \in Seq(Symbol), NEW os,
         p.type = "NORMAL" => p.bodyBytes >= 0,
         NEW d, NEW code, NEW packs, NEW k, Serves(s, d, n, p, w, os, code, packs, k),
         NEW r, r = NextOf(p)
  PROVE  /\ code \in Codes /\ code # NoCode /\ Deserialize(p.header) = code
         /\ p.type \in {"NORMAL", "CHUNK", "BOUNDARY"} /\ k \in Nat /\ k < Len(packs)
         /\ r.p \in Parser /\ r.packet \in Seq(Symbol) /\ r.p.type = p.type /\ r.p.header = p.header
         /\ Takes(w, packs, k, r)
         /\ p.type # "CHUNK" => r.p.chunkBytes = -1
         /\ r.ret = "OK" => r.p.chunkBytes = -1
<1>1. /\ code \in Codes /\ Deserialize(p.header) = code /\ p.type \in {"NORMAL", "CHUNK", "BOUNDARY"}
      /\ k \in Nat /\ k < Len(packs) /\ PacketsOf(p.type, packs) /\ IsBehind(p, w, packs, k)
      /\ p.type # "CHUNK" => p.chunkBytes = -1
  BY DEF Serves, Fits
<1>2. code # NoCode
  BY <1>1, CodeAssumption
<1>3. /\ r.p \in Parser /\ r.packet \in Seq(Symbol) /\ r.p.type = p.type /\ r.p.header = p.header
  BY <1>1, NextKeeps
<1>4. Takes(w, packs, k, r)
  BY <1>1, NextTakes
<1>5. p.type = "NORMAL" => r.p.chunkBytes = -1
  BY <1>1, NextOfIs, GetContentResult
<1>6. p.type = "BOUNDARY" => r.p.chunkBytes = -1
  BY <1>1, NextOfIs, GetBoundaryResult
<1>7. p.type = "CHUNK" /\ r.ret = "OK" => r.p.chunkBytes = -1
  BY <1>1, NextOfIs, GetChunkResult
<1> QED BY <1>1, <1>2, <1>3, <1>4, <1>5, <1>6, <1>7

\* The next packet is waited for.
LEMMA ServesWait ==
  ASSUME NEW s \in Seq(Answer), NEW n \in 1 .. Len(s), NEW p \in Parser, NEW w \in Seq(Symbol), NEW os,
         p.type = "NORMAL" => p.bodyBytes >= 0,
         NEW d, NEW code, NEW packs, NEW k, Serves(s, d, n, p, w, os, code, packs, k),
         NEW r, r = NextOf(p), r.ret = "CONTINUE"
  PROVE  Serves(s, d, n, r.p, w, os, code, packs, k) /\ BodyWaits(r.p)
<1>1. /\ p.type \in {"NORMAL", "CHUNK", "BOUNDARY"}
      /\ r.p.type = p.type /\ r.p.header = p.header
      /\ Takes(w, packs, k, r)
      /\ p.type # "CHUNK" => r.p.chunkBytes = -1
  BY ServesIs
<1>2. IsBehind(r.p, w, packs, k)
  BY <1>1 DEF Takes
<1>3. BodyWaits(r.p)
  BY <1>1, NextWaits
<1>4. Serves(s, d, n, r.p, w, os, code, packs, k)
  BY <1>1, <1>2 DEF Serves
<1> QED BY <1>3, <1>4

\* An element that is added behind two sequences is added to the second.
AddsToSecond(a, b, x) == Append(a \o b, x) = a \o Append(b, x)

\* It is so.
LEMMA AppendBehind ==
  ASSUME NEW S, NEW a \in Seq(S), NEW b \in Seq(S), NEW x \in S
  PROVE  AddsToSecond(a, b, x)
<1>1. <<x>> \in Seq(S) /\ a \o b \in Seq(S)
  OBVIOUS
<1>2. \A s \in Seq(S) : Append(s, x) = s \o <<x>>
  OBVIOUS
<1>3. a \o (b \o <<x>>) = (a \o b) \o <<x>>
  BY <1>1, ConcatAssociative
<1> QED BY <1>1, <1>2, <1>3 DEF AddsToSecond

\* What a call returns for the packet x of the answer n.
OkOf(code, x, n) == [ret |-> "OK", code |-> code, packet |-> x, request |-> n]

\* The next packet is returned.
LEMMA ServesOk ==
  ASSUME NEW s \in Seq(Answer), NEW n \in 1 .. Len(s), NEW p \in Parser, NEW w \in Seq(Symbol), NEW os,
         p.type = "NORMAL" => p.bodyBytes >= 0,
         NEW d, NEW code, NEW packs, NEW k, Serves(s, d, n, p, w, os, code, packs, k),
         NEW r, r = NextOf(p), r.ret = "OK", NEW o, o = OkOf(code, r.packet, n)
  PROVE  /\ OwedOf(s, n) \in Seq(Got) /\ Begins(Append(os, o), OwedOf(s, n), Got)
         /\ p.type = "NORMAL" \/ r.packet = Null =>
              /\ Append(os, o) = OwedOf(s, n) /\ Fresh(Reset(r.p))
              /\ LeftBehind(s, n, Reset(r.p).pkts \o w)
         /\ ~(p.type = "NORMAL" \/ r.packet = Null) =>
              Serves(s, d, n, r.p, w, Append(os, o), code, packs, k + 1)
<1>1. /\ code \in Codes /\ k \in Nat /\ k < Len(packs)
      /\ p.type \in {"NORMAL", "CHUNK", "BOUNDARY"}
      /\ r.p \in Parser /\ r.packet \in Seq(Symbol) /\ r.p.type = p.type /\ r.p.header = p.header
      /\ r.packet = packs[k + 1] /\ IsBehind(r.p, w, packs, k + 1) /\ r.p.chunkBytes = -1
  BY ServesIs DEF Takes
<1>2. /\ d \in Nat /\ n = d + 1 /\ p.type = s[n].kind /\ PacketsOf(p.type, packs) /\ Deserialize(p.header) = code
      /\ os = OwedOf(s, d) \o OwedBy(s[n].contents, n, k)
      /\ Fits(s[n].contents, code, packs)
  BY DEF Serves
<1>3. PICK c \in Seq(Content) : c = s[n].contents
  BY <1>2 DEF Fits
<1>4. PICK m \in Nat : m = Len(packs) /\ m = Len(c)
  BY <1>2, <1>3 DEF Fits
<1>5. PICK j \in Nat : j = k + 1 /\ j \in 1 .. m
  BY <1>1, <1>4
<1>6. c[j][1] = code /\ c[j][2] = r.packet
  BY <1>1, <1>2, <1>3, <1>4, <1>5 DEF Fits
<1>7. n \in Nat /\ n <= Len(s) /\ d <= Len(s)
  BY <1>2, LenProperties
<1>8. /\ OwedOf(s, d) \in Seq(Got) /\ OwedOf(s, n) \in Seq(Got)
      /\ OwedOf(s, n) = OwedOf(s, d) \o OwedBy(c, n, m)
  BY <1>2, <1>3, <1>4, <1>7, OwedMore
<1>9. /\ OwedBy(c, n, k) \in Seq(Got) /\ OwedBy(c, n, j) \in Seq(Got)
      /\ Append(OwedBy(c, n, k), o) = OwedBy(c, n, j)
      /\ Begins(OwedBy(c, n, j), OwedBy(c, n, m), Got)
  <2>1. k < Len(c) /\ k <= Len(c) /\ j <= Len(c)
    BY <1>1, <1>4, <1>5
  <2>2. o = [ret |-> "OK", code |-> c[k + 1][1], packet |-> c[k + 1][2], request |-> n]
    BY <1>5, <1>6 DEF OkOf
  <2>3. OwedBy(c, n, k) \in Seq(Got) /\ Append(OwedBy(c, n, k), o) = OwedBy(c, n, j)
    BY <1>1, <1>5, <1>7, <2>1, <2>2, OwedByMore, SMTT(30)
  <2>4. OwedBy(c, n, j) \in Seq(Got) /\ Begins(OwedBy(c, n, j), OwedBy(c, n, m), Got)
    BY <1>4, <1>7, <2>1, OwedByMore
  <2> QED BY <2>3, <2>4
<1>10. o \in Got
  BY <1>1, <1>7 DEF OkOf, Got, Rets
<1>11. Append(os, o) = OwedOf(s, d) \o OwedBy(c, n, j)
  <2>1. PICK a \in Seq(Got), b \in Seq(Got) : a = OwedOf(s, d) /\ b = OwedBy(c, n, k)
    BY <1>8, <1>9
  <2>2. Append(a \o b, o) = a \o Append(b, o)
    <3>1. AddsToSecond(a, b, o)
      BY <1>10, AppendBehind
    <3> QED BY <3>1 DEF AddsToSecond
  <2> QED BY <1>2, <1>3, <1>9, <2>1, <2>2
<1>12. Begins(Append(os, o), OwedOf(s, n), Got)
  BY <1>8, <1>9, <1>11, BeginsBehind
<1>13. ASSUME p.type = "NORMAL" \/ r.packet = Null
       PROVE  /\ Append(os, o) = OwedOf(s, n) /\ Fresh(Reset(r.p))
              /\ LeftBehind(s, n, Reset(r.p).pkts \o w)
  <2>1. /\ j = Len(packs) /\ r.p.pkts \o w \in Junk
        /\ p.type = "NORMAL" => r.p.pkts \o w = <<>>
    <3>1. j <= Len(packs) /\ j # 0
      BY <1>4, <1>5
    <3>2. r.p.type \in {"NORMAL", "CHUNK", "BOUNDARY"} /\ PacketsOf(r.p.type, packs)
          /\ IsBehind(r.p, w, packs, j) /\ (r.p.type = "NORMAL" \/ packs[j] = Null)
      BY <1>1, <1>2, <1>5, <1>13
    <3>3. /\ j = Len(packs) /\ r.p.pkts \o w \in Junk
          /\ r.p.type = "NORMAL" => r.p.pkts \o w = <<>>
      BY <3>1, <3>2, EndLeaves
    <3> QED BY <1>1, <3>3
  <2>2. Append(os, o) = OwedOf(s, n)
    BY <1>4, <1>8, <1>11, <2>1
  <2>3. Reset(r.p).pkts = r.p.pkts
    BY <1>1 DEF Reset, Parser
  <2>4. Fresh(Reset(r.p))
    BY <1>1, ResetType DEF Fresh
  <2>5. Plain(s, n) => p.type = "NORMAL"
    <3>1. n \in 1 .. n
      BY <1>7
    <3> QED BY <1>1, <1>2, <3>1 DEF Plain
  <2> QED BY <2>1, <2>2, <2>3, <2>4, <2>5 DEF LeftBehind
<1>14. ASSUME ~(p.type = "NORMAL" \/ r.packet = Null)
       PROVE  Serves(s, d, n, r.p, w, Append(os, o), code, packs, j)
  <2>1. j < Len(packs)
    <3>1. j # Len(packs)
      BY <1>1, <1>2, <1>4, <1>5, <1>14 DEF PacketsOf
    <3> QED BY <1>4, <1>5, <3>1
  <2> QED BY <1>1, <1>2, <1>3, <1>5, <1>11, <2>1 DEF Serves
<1> QED BY <1>5, <1>8, <1>12, <1>13, <1>14

\* The next packet of an answer is returned, or waited for.
LEMMA ServingTalking ==
  ASSUME IInv, Talking, Serving, Body
  PROVE  Talking'
<1> DEFINE r == NextOf(parser)
<1>1. asked = served /\ \E d, code, packs, k : Serves(script, d, served, parser, wire, OksOf(results), code, packs, k)
  BY DEF Serving
<1>2. PICK d, code, packs, k : Serves(script, d, served, parser, wire, OksOf(results), code, packs, k)
  BY <1>1
<1>3. /\ script \in Seq(Answer) /\ served \in 1 .. Len(script) /\ served \in Nat /\ parser \in Parser
      /\ wire \in Seq(Symbol) /\ (parser.type = "NORMAL" => parser.bodyBytes >= 0) /\ Len(script) \in Nat
  BY <1>1, <1>2, HistoryType DEF Serves
<1>4. /\ code \in Codes /\ code # NoCode /\ Deserialize(parser.header) = code
      /\ parser.type \in {"NORMAL", "CHUNK", "BOUNDARY"} /\ r.packet \in Seq(Symbol)
      /\ r.ret \in {"OK", "CONTINUE"}
  BY <1>2, <1>3, ServesIs DEF Takes
<1>5. BodyDoes(r, code)
  BY <1>4, BodyIsDone
<1>6. ~Broken
  <2>1. ~Deaf
    BY <1>4 DEF Deaf
  <2> QED BY <2>1 DEF Talking
<1>7. /\ script' = script /\ served' = served /\ wire' = wire /\ asked' = asked
  BY BodyKeeps
<1> HIDE DEF r
<1>8. CASE r.ret = "CONTINUE"
  <2>1. pc' = "recv" /\ results' = results /\ parser' = r.p
    BY <1>4, <1>5, <1>8 DEF BodyDoes, Wait
  <2>2. Serves(script, d, served, r.p, wire, OksOf(results), code, packs, k) /\ BodyWaits(r.p)
    BY <1>2, <1>3, <1>8, ServesWait DEF r
  <2>3. Serving'
    BY <1>1, <1>7, <2>1, <2>2 DEF Serving
  <2>4. InOrder' /\ ~Broken'
    BY <1>6, <1>7, <2>1 DEF Talking, InOrder, Broken, Errors
  <2> QED BY <2>3, <2>4 DEF Talking, Talk
<1>9. CASE r.ret = "OK"
  <2>1. /\ Return("OK", code, r.packet)
        /\ IF parser.type = "NORMAL" \/ r.packet = Null
           THEN parser' = Reset(r.p) /\ resp' = NoCode
           ELSE parser' = r.p /\ resp' = code
    BY <1>4, <1>5, <1>9 DEF BodyDoes
  <2>2. PICK o : o = OkOf(code, r.packet, asked)
    OBVIOUS
  <2>3. pc' = "idle" /\ OksOf(results') = Append(OksOf(results), o) /\ (Broken' => Broken) /\ ~Failed'
    <3>1. "OK" \in Rets /\ code \in Codes \cup {0, NoCode}
      BY <1>4 DEF Rets
    <3>2. o = [ret |-> "OK", code |-> code, packet |-> r.packet, request |-> asked]
      BY <2>2 DEF OkOf
    <3> QED BY <1>4, <1>6, <2>1, <3>1, <3>2, Returned
  <2>4. o = OkOf(code, r.packet, served)
    BY <1>1, <2>2
  <2>5. /\ Begins(OksOf(results'), OwedOf(script, served), Got)
        /\ parser.type = "NORMAL" \/ r.packet = Null =>
             /\ OksOf(results') = OwedOf(script, served) /\ Fresh(Reset(r.p))
             /\ LeftBehind(script, served, Reset(r.p).pkts \o wire)
        /\ ~(parser.type = "NORMAL" \/ r.packet = Null) =>
             Serves(script, d, served, r.p, wire, OksOf(results'), code, packs, k + 1)
    BY <1>2, <1>3, <1>9, <2>3, <2>4, ServesOk DEF r
  <2>6. InOrder'
    BY <1>7, <2>5 DEF InOrder
  <2>7. CASE parser.type = "NORMAL" \/ r.packet = Null
    <3>1. Quiet'
      BY <1>1, <1>7, <2>1, <2>3, <2>5, <2>7 DEF Quiet
    <3> QED BY <1>6, <2>3, <2>6, <3>1 DEF Talking, Talk
  <2>8. CASE ~(parser.type = "NORMAL" \/ r.packet = Null)
    <3>1. Serving'
      BY <1>1, <1>4, <1>7, <2>1, <2>3, <2>5, <2>8 DEF Serving
    <3> QED BY <1>6, <2>3, <2>6, <3>1 DEF Talking, Talk
  <2> QED BY <2>7, <2>8
<1> QED BY <1>4, <1>8, <1>9

\* A round of the loop with a type that is known.
LEMMA BodyTalking ==
  ASSUME IInv, Talking, Body
  PROVE  Talking'
<1>1. ~Quiet /\ ~Awaiting
  BY BodyKeeps DEF Quiet, Awaiting
<1>2. Serving \/ Upgraded \/ Deaf \/ Lost
  BY <1>1 DEF Talking, Talk
<1> QED BY <1>2, ServingTalking, SwitchTalking, DeafTalking, LostTalking

\* Every step keeps the conversation.
LEMMA NextConversing ==
  ASSUME IInv, Conversing, [Next]_vars
  PROVE  Conversing'
<1>1. script' = script
  BY DEF Next, vars, server, SendAnswer, ServerClose, Connect, Request, RequestUnsent, RecvResp, Coroutine,
         Parse, Body, RecvSome, Timeout, RecvFail, Ended
<1>2. SUFFICES ASSUME script \notin Hasty, AllWell(script) PROVE Talking'
  BY <1>1 DEF Conversing, Talking
<1>3. Talking
  BY <1>2 DEF Conversing, Talking
<1>4. CASE SendAnswer
  BY <1>3, <1>4, SendTalking
<1>5. CASE Request
  BY <1>2, <1>3, <1>5, RequestTalking
<1>6. CASE RequestUnsent
  BY <1>2, <1>3, <1>6, UnsentTalking
<1>7. CASE RecvResp
  BY <1>3, <1>7, CallTalking
<1>8. CASE Parse
  BY <1>2, <1>3, <1>8, ParseTalking
<1>9. CASE Body
  BY <1>3, <1>9, BodyTalking
<1>10. ASSUME NEW n \in 1 .. RecvMax, RecvSome(n) PROVE Talking'
  BY <1>3, <1>10, RecvTalking
<1>11. CASE RecvFail
  BY <1>3, <1>11, BrokenTalking
<1>12. CASE Timeout
  BY <1>3, <1>12, TimeoutTalking
<1>13. CASE ServerClose \/ Connect \/ Ended \/ UNCHANGED vars
  <2>1. UNCHANGED <<script, served, wire, pc, asked, parser, resp, results>> /\ (gone => gone')
    BY <1>13 DEF ServerClose, Connect, Ended, vars, server, client
  <2> QED BY <1>3, <2>1, SameTalking
<1> QED BY <1>4, <1>5, <1>6, <1>7, <1>8, <1>9, <1>10, <1>11, <1>12, <1>13 DEF Next, Coroutine

\* Before the first call nothing was returned.
LEMMA NoOks == OksOf(<<>>) = <<>>
<1> DEFINE e == [i \in DOMAIN <<>> |->
                  IF (<<>>)[i].ret = "OK" /\ (\A j \in ErrorsOf(<<>>) : i < j)
                  THEN <<(<<>>)[i]>> ELSE <<>>]
<1>1. e = <<>>
  OBVIOUS
<1> HIDE DEF e
<1> QED BY <1>1, FlattenEmpty DEF OksOf, e

\* It begins with nothing asked.
LEMMA InitConversing ==
  ASSUME Init
  PROVE  Conversing
<1>1. PICK g \in Garbage : parser = NewParser(g)
  BY DEF Init
<1>2. /\ script \in Scripts /\ served = 0 /\ wire = <<>> /\ pc = "idle" /\ asked = 0 /\ results = <<>>
  BY DEF Init
<1>3. Fresh(parser) /\ parser.pkts = <<>>
  BY <1>1 DEF Fresh, NewParser
<1>4. script \in Seq(Answer) /\ 0 \in Nat /\ 0 <= Len(script)
  BY <1>2, ScriptAssumption, LenProperties
<1>5. OwedOf(script, 0) = <<>>
  BY <1>4, OwedMore
<1>6. OksOf(results) = <<>>
  BY <1>2, NoOks
<1>7. Begins(<<>>, <<>>, Got) /\ ~Broken
  <2>1. <<>> \in Seq(Got)
    OBVIOUS
  <2>2. Begins(<<>>, <<>>, Got)
    BY <2>1, BeginsItself
  <2>3. DOMAIN results = {}
    BY <1>2
  <2>4. ~Broken
    BY <2>3 DEF Broken, Errors
  <2> QED BY <2>2, <2>4
<1>8. LeftBehind(script, 0, parser.pkts \o wire)
  BY <1>2, <1>3 DEF LeftBehind, Junk
<1>9. Quiet
  BY <1>2, <1>3, <1>5, <1>6, <1>8 DEF Quiet
<1> QED BY <1>2, <1>5, <1>6, <1>7, <1>9 DEF Conversing, InOrder, Talk

\* So the conversation is in one of these states all the time.
LEMMA AlwaysConversing == Spec => [](IInv /\ Conversing)
<1>1. Spec => []IInv
  BY Invariant
<1>2. Init => Conversing
  BY InitConversing
<1>3. IInv /\ Conversing /\ [Next]_vars => Conversing'
  BY NextConversing
<1> QED BY <1>1, <1>2, <1>3, PTL DEF Spec

-----------------------------------------------------------------------------
(* What follows for the application. *)

\* The contents and the answers that Oks belongs to.
LEMMA OksAre ==
  ASSUME IInv, InOrder
  PROVE  /\ Oks \in Seq(Got) /\ Len(Oks) <= Len(Owner(served)) /\ Len(Oks) <= Len(Carried(served))
         /\ DOMAIN Oks = 1 .. Len(Oks)
         /\ \A i \in 1 .. Len(Oks) : /\ Oks[i].request = Owner(served)[i]
                                     /\ Carried(served)[i] = <<Oks[i].code, Oks[i].packet>>
<1> DEFINE os == OksOf(results)
           ow == OwedOf(script, served)
           c  == CarriedOf(script, served)
           w  == OwnerOf(script, served)
<1>1. Oks = os /\ Carried(served) = c /\ Owner(served) = w
  BY DEF Oks, OksOf, Errors, ErrorsOf, Carried, CarriedOf, Owner, OwnerOf
<1>2. os \in Seq(Got) /\ script \in Seq(Answer) /\ served \in Nat /\ served <= Len(script)
  BY HistoryType
<1>3. PICK u \in Seq(Got) : ow = os \o u
  BY DEF InOrder, Begins
<1>4. Same(ow, c, w)
  BY <1>2, OwedSame
<1> HIDE DEF os, ow, c, w
<1>5. PICK m \in Nat, n \in Nat : m = Len(os) /\ n = Len(u)
  BY <1>2, LenProperties
<1>6. Len(ow) = m + n /\ \A i \in 1 .. m + n : ow[i] = IF i <= m THEN os[i] ELSE u[i - m]
  BY <1>2, <1>3, <1>5, TwoTogether
<1>7. /\ Len(c) = m + n /\ Len(w) = m + n
      /\ \A i \in 1 .. m + n : c[i] = <<ow[i].code, ow[i].packet>> /\ w[i] = ow[i].request
  BY <1>4, <1>6 DEF Same
<1>8. \A i \in 1 .. m : i \in 1 .. m + n /\ i <= m
  BY <1>5
<1>9. \A i \in 1 .. m : c[i] = <<os[i].code, os[i].packet>> /\ w[i] = os[i].request
  BY <1>6, <1>7, <1>8
<1>10. m <= Len(c) /\ m <= Len(w)
  BY <1>5, <1>7
<1>11. DOMAIN os = 1 .. m
  BY <1>2, <1>5, LenProperties
<1> QED BY <1>1, <1>2, <1>5, <1>9, <1>10, <1>11

\* The script does not change, and what the calls returned grows by one outcome or not at all.
LEMMA OtherSteps ==
  ASSUME [Next]_vars
  PROVE  /\ script' = script
         /\ SendAnswer \/ served' = served
         /\ \/ results' = results
            \/ /\ served' = served
               /\ \E o : results' = Append(results, o) /\ (o.ret \in {"OK", "FORMAT"} => Body)
<1>1. CASE SendAnswer
  BY <1>1 DEF SendAnswer, client
<1>2. CASE ServerClose \/ Connect \/ Ended \/ UNCHANGED vars
  BY <1>2 DEF ServerClose, Connect, Ended, vars, server, client
<1>3. CASE Request \/ RecvResp
  BY <1>3 DEF Request, RecvResp, server
<1>4. CASE RequestUnsent
  BY <1>4 DEF RequestUnsent, server, Return
<1>5. CASE Parse
  BY <1>5 DEF Parse, Wait, server
<1>6. CASE Body
  <2>1. Wait \/ \E ret, code, packet : Return(ret, code, packet)
    <3>1. CASE parser.type = "NORMAL" /\ LoopNormal(parser)
      BY <3>1 DEF LoopNormal
    <3>2. ASSUME NEW code, LoopOther(parser, code) PROVE Wait \/ \E ret, c, packet : Return(ret, c, packet)
      BY <3>2 DEF LoopOther
    <3>3. CASE \E code, packet : Return("FORMAT", code, packet)
      BY <3>3
    <3> QED BY <1>6, <3>1, <3>2, <3>3 DEF Body
  <2>2. script' = script /\ served' = served
    BY <1>6 DEF Body, server
  <2>3. results' = results \/ \E o : results' = Append(results, o)
    BY <2>1 DEF Wait, Return
  <2> QED BY <1>6, <2>2, <2>3
<1>7. ASSUME NEW n \in 1 .. RecvMax, RecvSome(n) PROVE UNCHANGED <<script, served, results>>
  BY <1>7 DEF RecvSome
<1>8. CASE Timeout
  BY <1>8 DEF Timeout, server, Return
<1>9. CASE RecvFail
  BY <1>9 DEF RecvFail, Return
<1> QED BY <1>1, <1>2, <1>3, <1>4, <1>5, <1>6, <1>7, <1>8, <1>9 DEF Next, Coroutine

\* An error of the format was reported, and the header that it was reported of is still there.
Reported == \E i \in DOMAIN results : results[i].ret = "FORMAT"
FormatInv == FormatIsFinal /\ (Reported => Mute)

\* A call returns o, which is no content behind an error of the format.
LEMMA FinalMore ==
  ASSUME IInv, FormatIsFinal, NEW o, results' = Append(results, o), results' \in Seq(Got),
         o.ret = "OK" => ~Reported
  PROVE  FormatIsFinal' /\ (Reported' <=> Reported \/ o.ret = "FORMAT")
<1>1. results \in Seq(Got)
  BY HistoryType
<1>2. PICK n \in Nat : n = Len(results)
  BY <1>1, LenProperties
<1>3. /\ DOMAIN results = 1 .. n /\ DOMAIN results' = 1 .. n + 1 /\ results'[n + 1] = o
      /\ \A i \in 1 .. n : results'[i] = results[i]
  <2>1. o \in Got
    BY <1>1
  <2> QED BY <1>1, <1>2, <2>1, AppendProperties, LenProperties
<1>4. ASSUME NEW i \in 1 .. n + 1, NEW j \in 1 .. n + 1, i < j, results'[i].ret = "FORMAT"
      PROVE  results'[j].ret # "OK"
  <2>1. i \in 1 .. n /\ results[i].ret = "FORMAT"
    <3>1. i \in 1 .. n
      BY <1>4
    <3> QED BY <1>3, <1>4, <3>1
  <2>2. CASE j \in 1 .. n
    BY <1>3, <1>4, <2>1, <2>2 DEF FormatIsFinal
  <2>3. CASE j = n + 1
    BY <1>3, <2>1, <2>3 DEF Reported
  <2>4. j \in 1 .. n \/ j = n + 1
    OBVIOUS
  <2> QED BY <2>2, <2>3, <2>4
<1>5. FormatIsFinal'
  BY <1>3, <1>4 DEF FormatIsFinal
<1>6. Reported' <=> Reported \/ o.ret = "FORMAT"
  <2>1. 1 .. n \subseteq 1 .. n + 1 /\ n + 1 \in 1 .. n + 1 /\ \A i \in 1 .. n + 1 : i \in 1 .. n \/ i = n + 1
    OBVIOUS
  <2> QED BY <1>3, <2>1 DEF Reported
<1> QED BY <1>5, <1>6

\* A header that can be decoded is not reported.
LEMMA NoReport ==
  ASSUME IInv, Body, ~Mute
  PROVE  results' = results \/ \E o : results' = Append(results, o) /\ o.ret # "FORMAT"
<1> DEFINE code == Deserialize(parser.header)
<1>1. /\ parser.type # "INVALID" /\ parser \in Parser /\ code # NoCode
      /\ code = IF resp = NoCode THEN code ELSE resp
  <2>1. /\ parser.type # "INVALID" /\ parser \in Parser
        /\ resp # NoCode => resp = code
    BY BodyKeeps, HistoryType
  <2> QED BY <2>1 DEF Mute
<1>2. parser.type \in {"NORMAL", "CHUNK", "BOUNDARY", "WEBSOCKET"}
  BY <1>1 DEF Parser, Types
<1>3. Wait \/ \E ret, c, packet : ret # "FORMAT" /\ Return(ret, c, packet)
  <2>1. CASE parser.type # "WEBSOCKET"
    <3>1. BodyDoes(NextOf(parser), code)
      BY <1>2, <2>1, BodyIsDone
    <3> HIDE DEF code
    <3> QED BY <1>1, <3>1 DEF BodyDoes
  <2>2. CASE parser.type = "WEBSOCKET"
    <3> HIDE DEF code
    <3>1. PICK x : x = (IF resp = NoCode THEN Deserialize(parser.header) ELSE resp) /\ x = code
      BY <1>1 DEF code
    <3>2. LoopOther(parser, code)
      BY <1>1, <2>2, <3>1 DEF Body
    <3> QED BY <3>2 DEF LoopOther
  <2> QED BY <2>1, <2>2
<1>4. CASE Wait
  BY <1>4 DEF Wait
<1>5. ASSUME NEW ret, NEW c, NEW packet, ret # "FORMAT", Return(ret, c, packet)
      PROVE  \E o : results' = Append(results, o) /\ o.ret # "FORMAT"
  <2>1. PICK o : o = [ret |-> ret, code |-> c, packet |-> packet, request |-> asked]
    OBVIOUS
  <2>2. results' = Append(results, o)
    BY <1>5, <2>1 DEF Return
  <2>3. o.ret # "FORMAT"
    BY <1>5, <2>1
  <2> QED BY <2>2, <2>3
<1> QED BY <1>3, <1>4, <1>5

\* The other steps leave such a header alone.
LEMMA MuteElse ==
  ASSUME IInv, Mute, [Next]_vars, ~Body
  PROVE  Mute'
<1>1. parser \in Parser /\ wire \in Seq(Symbol)
  BY HistoryType
<1>2. CASE SendAnswer \/ ServerClose \/ Connect \/ Ended \/ UNCHANGED vars
  BY <1>2 DEF SendAnswer, ServerClose, Connect, Ended, vars, client, Mute
<1>3. CASE Request \/ RecvResp \/ RequestUnsent \/ Timeout \/ RecvFail
  BY <1>3 DEF Request, RecvResp, RequestUnsent, Timeout, RecvFail, Mute
<1>4. CASE Parse
  <2>1. parser' = parser /\ resp' = resp
    BY <1>4 DEF Parse, Result, Mute
  <2> QED BY <2>1 DEF Mute
<1>5. ASSUME NEW n \in 1 .. RecvMax, RecvSome(n) PROVE Mute'
  <2>1. n \in 0 .. Len(wire) /\ parser' = Push(parser, Read(wire, n)) /\ resp' = resp
    BY <1>1, <1>5, RecvMaxAssumption, LenProperties DEF RecvSome
  <2>2. Read(wire, n) \in Seq(Symbol)
    BY <1>1, <2>1, ReadAndLeft
  <2>3. parser'.type = parser.type /\ parser'.header = parser.header
    BY <1>1, <2>1, <2>2, PushType
  <2> QED BY <2>1, <2>3 DEF Mute
<1> QED BY <1>2, <1>3, <1>4, <1>5 DEF Next, Coroutine

\* The types of the history after a step.
LEMMA HistoryAfter == (IInv => results \in Seq(Got))'
<1>1. IInv => results \in Seq(Got)
  BY HistoryType
<1> QED BY <1>1, PTL

\* What was returned last is one outcome.
LEMMA OneAppended ==
  ASSUME IInv, results' \in Seq(Got), NEW o, results' = Append(results, o)
  PROVE  results' # results /\ \A x : results' = Append(results, x) => x = o
<1>1. results \in Seq(Got)
  BY HistoryType
<1>2. PICK n \in Nat : n = Len(results)
  BY <1>1, LenProperties
<1>3. ASSUME NEW x, results' = Append(results, x) PROVE Len(results') = n + 1 /\ results'[n + 1] = x
  BY <1>1, <1>2, <1>3
<1> QED BY <1>2, <1>3

\* Every step keeps that.
LEMMA NextFormat == IInv /\ FormatInv /\ [Next]_vars => FormatInv'
<1> SUFFICES ASSUME IInv, FormatInv, [Next]_vars PROVE FormatInv'
  OBVIOUS
<1>1. FormatIsFinal /\ (Reported => Mute)
  BY DEF FormatInv
<1>2. results' \in Seq(Got)
  BY NextInvariant, HistoryAfter
<1>3. CASE results' = results
  <2>1. FormatIsFinal' /\ (Reported' <=> Reported)
    BY <1>1, <1>3 DEF FormatIsFinal, Reported
  <2>2. Mute => Mute'
    BY MuteStays, MuteElse
  <2> QED BY <1>1, <2>1, <2>2 DEF FormatInv
<1>4. ASSUME NEW o, results' = Append(results, o), o.ret \in {"OK", "FORMAT"} => Body PROVE FormatInv'
  <2>1. CASE ~Body
    <3>1. o.ret \notin {"OK", "FORMAT"}
      BY <1>4, <2>1
    <3>2. FormatIsFinal' /\ (Reported' <=> Reported)
      BY <1>1, <1>2, <1>4, <3>1, FinalMore
    <3>3. Mute => Mute'
      BY <2>1, MuteElse
    <3> QED BY <1>1, <3>2, <3>3 DEF FormatInv
  <2>2. CASE Body /\ Mute
    <3>1. Mute' /\ (results' = results \/ \E x : results' = Append(results, x) /\ x.ret = "FORMAT")
      BY <2>2, MuteStays DEF Wait, Return
    <3>2. o.ret = "FORMAT"
      BY <1>2, <1>4, <3>1, OneAppended
    <3>3. FormatIsFinal'
      BY <1>1, <1>2, <1>4, <3>2, FinalMore
    <3> QED BY <3>1, <3>3 DEF FormatInv
  <2>3. CASE Body /\ ~Mute
    <3>1. results' = results \/ \E x : results' = Append(results, x) /\ x.ret # "FORMAT"
      BY <2>3, NoReport
    <3>2. o.ret # "FORMAT" /\ ~Reported
      BY <1>1, <1>2, <1>4, <2>3, <3>1, OneAppended
    <3>3. FormatIsFinal' /\ ~Reported'
      BY <1>1, <1>2, <1>4, <3>2, FinalMore
    <3> QED BY <3>3 DEF FormatInv
  <2> QED BY <2>1, <2>2, <2>3
<1> QED BY <1>3, <1>4, OtherSteps

\* A response that cannot be decoded ends the use of the connection, whatever the server sends:
\* it leaves its header in the parser, and no later call of recv_resp returns a response.
THEOREM AlwaysFormatIsFinal == Spec => []FormatIsFinal
<1>1. Init => FormatInv
  <2> SUFFICES ASSUME Init PROVE FormatInv
    OBVIOUS
  <2>1. DOMAIN results = {}
    BY DEF Init
  <2> QED BY <2>1 DEF FormatInv, FormatIsFinal, Reported
<1>2. FormatInv => FormatIsFinal
  BY DEF FormatInv
<1> QED BY <1>1, <1>2, NextFormat, Invariant, PTL DEF Spec

\* http_client.h:91: whatever kinds of answers the server sends, however the bytes are cut, and
\* whenever a call times out and is repeated or the connection breaks, what recv_resp returns is
\* the answer to the request that was sent last, if none is sent after a call that was cut short.
THEOREM AlwaysOwnAnswer == Spec /\ AllWell(script) => []OwnAnswerInTime
<1>1. IInv /\ Conversing /\ AllWell(script) => OwnAnswerInTime
  <2> SUFFICES ASSUME IInv, InOrder PROVE OwnAnswer
    BY DEF Conversing, OwnAnswerInTime
  <2> QED BY OksAre DEF OwnAnswer
<1>2. AllWell(script) /\ [Next]_vars => AllWell(script)'
  BY OtherSteps DEF AllWell
<1> QED BY <1>1, <1>2, AlwaysConversing, PTL DEF Spec

\* Against a server that answers as this library does, and streams at most its last answer, an
\* application that calls again after a call that was cut short is never told that an answer is
\* wrong.
THEOREM NeverFormatError == Spec /\ AllWell(script) => []NoFormatError
<1>1. IInv /\ Conversing /\ AllWell(script) => NoFormatError
  <2> SUFFICES ASSUME IInv, StreamsLast(script), Deaf PROVE FALSE
    BY DEF Conversing, NoFormatError
  <2>1. PICK d \in Nat : served = d + 1 /\ ~Plain(script, d)
    BY DEF Deaf
  <2>2. PICK i \in 1 .. d : script[i].kind \notin {"NORMAL", "WEBSOCKET"}
    BY <2>1 DEF Plain
  <2>3. Len(script) \in Nat /\ d + 1 <= Len(script)
    BY <2>1, HistoryType
  <2>4. i \in 1 .. Len(script) - 1
    BY <2>3
  <2> QED BY <2>2, <2>4 DEF StreamsLast
<1>2. AllWell(script) /\ [Next]_vars => AllWell(script)'
  BY OtherSteps DEF AllWell
<1> QED BY <1>1, <1>2, AlwaysConversing, PTL DEF Spec

\* The contents of the outcomes os.
ContentsIn(os) == [i \in DOMAIN os |-> <<os[i].code, os[i].packet>>]

\* Outcome by outcome.
LEMMA ContentsMore ==
  ASSUME NEW os \in Seq(Got), NEW o \in Got
  PROVE  /\ Len(ContentsIn(os)) = Len(os) /\ Len(os) \in Nat
         /\ ContentsIn(Append(os, o)) = Append(ContentsIn(os), <<o.code, o.packet>>)
<1>1. PICK n \in Nat : n = Len(os)
  BY LenProperties
<1>2. PICK S : S = {<<x.code, x.packet>> : x \in Got}
  OBVIOUS
<1> DEFINE a == ContentsIn(os)
           b == ContentsIn(Append(os, o))
           x == <<o.code, o.packet>>
<1>3. /\ Append(os, o) \in Seq(Got) /\ Len(Append(os, o)) = n + 1
      /\ \A i \in 1 .. n : Append(os, o)[i] = os[i]
      /\ Append(os, o)[n + 1] = o
      /\ DOMAIN os = 1 .. n /\ DOMAIN Append(os, o) = 1 .. n + 1
  BY <1>1, AppendProperties, LenProperties
<1>4. x \in S /\ \A i \in 1 .. n : <<os[i].code, os[i].packet>> \in S
  <2>1. \A i \in 1 .. n : os[i] \in Got
    BY <1>1, ElementOfSeq
  <2> QED BY <1>2, <2>1
<1>5. a = [i \in 1 .. n |-> a[i]] /\ \A i \in 1 .. n : a[i] \in S
  BY <1>3, <1>4 DEF ContentsIn
<1>6. /\ b = [i \in 1 .. n + 1 |-> b[i]] /\ b[n + 1] = x
      /\ \A i \in 1 .. n : b[i] = a[i]
  BY <1>3 DEF ContentsIn
<1> HIDE DEF a, b, x
<1>7. a \in Seq(S) /\ Len(a) = n
  BY <1>5, FunctionIsSeq
<1>8. \A i \in 1 .. n + 1 : b[i] \in S
  <2> TAKE i \in 1 .. n + 1
  <2>1. i \in 1 .. n \/ i = n + 1
    OBVIOUS
  <2> QED BY <1>4, <1>5, <1>6, <2>1
<1>9. b \in Seq(S) /\ Len(b) = n + 1
  <2>1. n + 1 \in Nat
    OBVIOUS
  <2> QED BY <1>6, <1>8, <2>1, FunctionIsSeq
<1>10. /\ Append(a, x) \in Seq(S) /\ Len(Append(a, x)) = n + 1
       /\ \A i \in 1 .. n : Append(a, x)[i] = a[i]
       /\ Append(a, x)[n + 1] = x
  BY <1>4, <1>7, AppendProperties
<1>11. \A i \in 1 .. n + 1 : b[i] = Append(a, x)[i]
  <2> TAKE i \in 1 .. n + 1
  <2>1. i \in 1 .. n \/ i = n + 1
    OBVIOUS
  <2> QED BY <1>6, <1>10, <2>1
<1>12. b = Append(a, x)
  BY <1>9, <1>10, <1>11, SeqEqual
<1> QED BY <1>1, <1>7, <1>12 DEF a, b, x

\* What an answer carries is something that an answer may carry.
LEMMA ContentsOf ==
  ASSUME IInv, NEW n \in 1 .. Len(script)
  PROVE  script[n].contents \in {m.contents : m \in UNION {Range(s) : s \in Scripts}}
<1>1. script \in Scripts /\ script \in Seq(Answer)
  BY ScriptAssumption DEF IInv, TypeOK
<1>2. script[n] \in Range(script)
  <2>1. n \in DOMAIN script
    BY <1>1, LenProperties
  <2> QED BY <2>1 DEF Range
<1> QED BY <1>1, <1>2

\* After a step, too, the history has its types, and Oks belongs to what was sent.
LEMMA AfterStep ==
  (/\ IInv => results \in Seq(Got)
   /\ IInv /\ InOrder => /\ Oks \in Seq(Got) /\ Len(Oks) <= Len(Carried(served))
                         /\ \A i \in 1 .. Len(Oks) : Carried(served)[i] = <<Oks[i].code, Oks[i].packet>>)'
<1>1. /\ IInv => results \in Seq(Got)
      /\ IInv /\ InOrder => /\ Oks \in Seq(Got) /\ Len(Oks) <= Len(Carried(served))
                            /\ \A i \in 1 .. Len(Oks) : Carried(served)[i] = <<Oks[i].code, Oks[i].packet>>
  BY HistoryType, OksAre
<1> QED BY <1>1, PTL

\* A call returns o.
LEMMA OneOutcomeMore ==
  ASSUME NEW o, IInv, results' \in Seq(Got), results' = Append(results, o)
  PROVE  /\ o \in Got
         /\ o.ret = "OK" /\ ~Broken => Oks' = Append(Oks, o)
         /\ o.ret # "OK" \/ Broken => Oks' = Oks
         /\ Broken' <=> Broken \/ o.ret \in {"FORMAT", "FAILED"}
<1>1. results \in Seq(Got) /\ results' \in Seq(Got)
  BY HistoryType
<1>2. Len(results) \in Nat
  BY <1>1, LenProperties
<1>3. o \in Got
  BY <1>1
<1>4. /\ Len(results') = Len(results) + 1 /\ results'[Len(results) + 1] = o
      /\ \A i \in 1 .. Len(results) : results'[i] = results[i]
  BY <1>1, <1>3, AppendProperties
<1>5. Oks = OksOf(results) /\ Oks' = OksOf(results')
  BY DEF Oks, OksOf, Errors, ErrorsOf
<1>6. /\ o.ret = "OK" /\ ~Broken => OksOf(results') = Append(OksOf(results), o)
      /\ o.ret # "OK" \/ Broken => OksOf(results') = OksOf(results)
  <2>1. Broken <=> ErrorsOf(results) # {}
    BY DEF Broken, Errors, ErrorsOf
  <2> QED BY <1>1, <1>3, <2>1, OksMore
<1>7. Broken' <=> Broken \/ o.ret \in {"FORMAT", "FAILED"}
  <2>1. DOMAIN results = 1 .. Len(results) /\ DOMAIN results' = 1 .. Len(results) + 1
    BY <1>1, <1>4, LenProperties
  <2>2. \A i \in 1 .. Len(results) + 1 : i \in 1 .. Len(results) \/ i = Len(results) + 1
    BY <1>2
  <2>3. 1 .. Len(results) \subseteq 1 .. Len(results) + 1 /\ Len(results) + 1 \in 1 .. Len(results) + 1
    BY <1>2
  <2> QED BY <1>4, <2>1, <2>2, <2>3 DEF Broken, Errors
<1>8. o.ret = "OK" /\ ~Broken => Oks' = Append(Oks, o)
  BY <1>5, <1>6
<1>9. o.ret # "OK" \/ Broken => Oks' = Oks
  BY <1>5, <1>6
<1> QED BY <1>3, <1>7, <1>8, <1>9

\* Every step of such a client is a step of HttpDelivery, or changes nothing there.
LEMMA StepDelivers ==
  ASSUME IInv, Conversing, script \notin Hasty, AllWell(script), [Next]_vars
  PROVE  [Delivery!Next]_(Delivery!vars)
<1>1. /\ script \in Seq(Answer) /\ served \in Nat /\ served <= Len(script) /\ Len(script) \in Nat
      /\ served <= asked /\ asked <= Len(script) /\ asked \in Nat
  BY HistoryType
<1>2. IInv' /\ Conversing'
  BY NextInvariant, NextConversing
<1>3. script' = script
  BY OtherSteps
<1>4. InOrder' /\ (Broken => Deaf)
  BY <1>2, <1>3 DEF Conversing
<1>5. /\ Carried(served) = CarriedOf(script, served)
      /\ Carried(served)' = CarriedOf(script, served')
      /\ Received = ContentsIn(Oks) /\ Received' = ContentsIn(Oks')
  BY <1>3 DEF Carried, CarriedOf, Received, ContentsIn
<1>6. CASE SendAnswer
  <2>1. served < asked /\ served' = served + 1 /\ results' = results
    BY <1>6 DEF SendAnswer, client
  <2>2. PICK n \in Nat : n = served + 1 /\ n <= Len(script) /\ n \in 1 .. Len(script)
    BY <1>1, <2>1
  <2>3. CarriedOf(script, n) = CarriedOf(script, served) \o script[n].contents
    BY <1>1, <2>2, CarriedMore
  <2>4. script[n].contents \in {m.contents : m \in UNION {Range(s) : s \in Scripts}}
    BY <2>2, ContentsOf
  <2>5. Carried(served)' = Carried(served) \o script[n].contents
    BY <1>5, <2>1, <2>2, <2>3
  <2>6. UNCHANGED <<Received, ~Broken>>
    BY <2>1 DEF Received, Oks, Broken, Errors
  <2>7. Delivery!Send
    BY <2>4, <2>5, <2>6 DEF Delivery!Send
  <2> QED BY <2>7 DEF Delivery!Next
<1>7. CASE results' = results /\ served' = served
  <2>1. Carried(served)' = Carried(served)
    BY <1>5, <1>7
  <2>2. UNCHANGED <<Received, ~Broken>>
    BY <1>7 DEF Received, Oks, Broken, Errors
  <2> QED BY <2>1, <2>2 DEF Delivery!vars
<1>8. ASSUME served' = served, NEW o, results' = Append(results, o)
      PROVE  [Delivery!Next]_(Delivery!vars)
  <2>1. Carried(served)' = Carried(served)
    BY <1>5, <1>8
  <2>2. /\ o \in Got
        /\ o.ret = "OK" /\ ~Broken => Oks' = Append(Oks, o)
        /\ o.ret # "OK" \/ Broken => Oks' = Oks
        /\ Broken' <=> Broken \/ o.ret \in {"FORMAT", "FAILED"}
    BY <1>2, <1>8, AfterStep, OneOutcomeMore
  <2>3. CASE o.ret = "OK" /\ ~Broken
    <3>1. Oks \in Seq(Got)
      BY OksAre, <1>1 DEF Conversing
    <3>2. Oks' = Append(Oks, o) /\ (Broken' <=> Broken)
      BY <2>2, <2>3
    <3>3. PICK n \in Nat : n = Len(Oks)
      BY <3>1, LenProperties
    <3>4. Len(Oks') = n + 1 /\ Oks'[n + 1] = o
      BY <2>2, <3>1, <3>2, <3>3, AppendProperties
    <3>5. ~Broken
      BY <2>3
    <3>6. /\ Len(Oks') <= Len(Carried(served)')
          /\ \A i \in 1 .. Len(Oks') : Carried(served)'[i] = <<Oks'[i].code, Oks'[i].packet>>
      BY <1>2, <1>4, AfterStep
    <3>7. n + 1 <= Len(Carried(served)) /\ Carried(served)[n + 1] = <<o.code, o.packet>>
      BY <2>1, <3>4, <3>6
    <3>8. Len(Received) = n /\ Received' = Append(Received, <<o.code, o.packet>>)
      BY <1>5, <2>2, <3>1, <3>2, <3>3, ContentsMore
    <3>9. Len(Received) < Len(Carried(served))
      <4>1. Len(Carried(served)) \in Nat
        BY <1>1, <1>5, OwedSame, LenProperties DEF Same
      <4> QED BY <3>7, <3>8, <4>1
    <3>10. Received' = Append(Received, Carried(served)[Len(Received) + 1])
      BY <3>7, <3>8
    <3>11. UNCHANGED <<Carried(served), ~Broken>>
      BY <2>1, <3>2
    <3>12. Delivery!Deliver
      BY <3>5, <3>9, <3>10, <3>11 DEF Delivery!Deliver
    <3> QED BY <3>12 DEF Delivery!Next
  <2>4. CASE o.ret # "OK" \/ Broken
    <3>1. Received' = Received
      BY <1>5, <2>2, <2>4
    <3>2. CASE Broken' <=> Broken
      BY <2>1, <3>1, <3>2 DEF Delivery!vars
    <3>3. CASE ~Broken /\ Broken'
      <4>1. Delivery!Drop
        BY <2>1, <3>1, <3>3 DEF Delivery!Drop
      <4> QED BY <4>1 DEF Delivery!Next
    <3> QED BY <2>2, <3>2, <3>3
  <2> QED BY <2>3, <2>4
<1> QED BY <1>6, <1>7, <1>8, OtherSteps

\* A client starts where HttpDelivery does.
LEMMA InitDelivers == Init => Delivery!Init
<1> SUFFICES ASSUME Init PROVE Delivery!Init
  OBVIOUS
<1>1. served = 0 /\ results = <<>> /\ script \in Seq(Answer)
  BY ScriptAssumption DEF Init
<1>2. Carried(served) = <<>>
  <2>1. 0 \in Nat /\ 0 <= Len(script)
    BY <1>1, LenProperties
  <2>2. CarriedOf(script, 0) = <<>>
    BY <1>1, <2>1, CarriedMore
  <2> QED BY <1>1, <2>2 DEF Carried, CarriedOf
<1>3. Oks = <<>>
  BY <1>1, NoOks DEF Oks, OksOf, Errors, ErrorsOf
<1>4. Received = <<>>
  <2>1. DOMAIN Oks = {}
    BY <1>3
  <2>2. Received = [i \in {} |-> <<Oks[i].code, Oks[i].packet>>]
    BY <2>1 DEF Received
  <2> QED BY <2>2
<1>5. ~Broken
  <2>1. DOMAIN results = {}
    BY <1>1
  <2> QED BY <2>1 DEF Broken, Errors
<1> QED BY <1>2, <1>4, <1>5 DEF Delivery!Init

\* With a server that answers as this library does, an application that calls again after a call
\* that was cut short implements the safety part of HttpDelivery: up to the first error of the
\* format, recv_resp returns what was sent, whole, in order and at most once, however the bytes are
\* cut, wherever timeouts interrupt the calls and whenever the connection breaks.
THEOREM ImplementsDelivery ==
  Spec /\ script \notin Hasty /\ AllWell(script) => DeliverySafe
<1> DEFINE Good == script \notin Hasty /\ AllWell(script)
<1>1. Init => Delivery!Init
  BY InitDelivers
<1>2. IInv /\ Conversing /\ Good /\ [Next]_vars => [Delivery!Next]_(Delivery!vars)
  BY StepDelivers
<1>3. Good /\ [Next]_vars => Good'
  BY OtherSteps
<1> HIDE DEF Good
<1>4. Spec /\ Good => Delivery!SafeSpec
  BY <1>1, <1>2, <1>3, AlwaysConversing, PTL DEF Spec, Delivery!SafeSpec
<1> QED BY <1>4 DEF Good, DeliverySafe
=============================================================================
