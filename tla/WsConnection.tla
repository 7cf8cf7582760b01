---------------------------- MODULE WsConnection ----------------------------
(***************************************************************************)
(* One direction of a websocket connection: WsClient::send at one end      *)
(* (src/ws_client.cc), the function recv_ws at the other                   *)
(* (include/impl/ws_client_impl.h), which the server uses too.             *)
(*                                                                         *)
(* Several coroutines may send on a connection; each waits in every call   *)
(* of client_->send, which sends one frame.  One coroutine receives, in a  *)
(* loop.  It waits in cli->recv, called by recv_msg for                    *)
(*   "head"   the first two bytes of a frame                               *)
(*   "ext"    the longer form of its length                                *)
(*   "mask"   its mask                                                     *)
(*   "data"   its data                                                     *)
(* and it is "failed" when recv_ws has returned an error, "undefined" when *)
(* it has written behind a packet.                                         *)
(***************************************************************************)
EXTENDS WsProto, SequencesExt

CONSTANTS Senders,    \* the coroutines that send
          Scripts,    \* the messages each of them may send
          Keys,       \* the masks that rand() may yield
          Segmented,  \* those whose frames may arrive in pieces
          Fragile     \* those whose connection may break

\* The opcodes of the messages: WsClient sends text and binary, another peer also
\* control frames.
OpCodes == 0 .. 15
Message == [type : OpCodes, data : Seq(ByteRange), masked : BOOLEAN]

\* A message that is one frame whatever its length, as a peer sends its control
\* frames.
IsControl(m) == m.type >= WS_OP_CODE_CLOSE

ASSUME ScriptAssumption ==
  /\ \A s \in Scripts : s \in [Senders -> Seq(Message)]
  /\ \A s \in Scripts, p \in Senders : \A i \in DOMAIN s[p] :
       /\ s[p][i].type # WS_OP_CODE_CONTINUE
       /\ IsControl(s[p][i]) => Len(s[p][i].data) < FrameLimit
  /\ Segmented \subseteq Scripts
  /\ Fragile \subseteq Scripts
  /\ \A k \in Keys : k \in [1 .. 4 -> ByteRange]

VARIABLES
  script,   \* the messages of this run, for each sender
  begun,    \* how many of them each sender has begun
  frames,   \* the frames that the call of send still has to send
  begins,   \* the messages in the order in which they were begun
  sent,     \* the frames sent, as they were meant
  flight,   \* the frames that have not arrived, as bytes
  socket,   \* the bytes that have arrived and are not read
  broken,   \* the connection is broken: nothing can be sent any more
  stage,    \* what recv_ws reads
  head,     \* the two bytes of the header
  size,     \* data_bytes as recv_msg takes it: its lower 32 bits, as an int32_t
  beyond,   \* data_bytes has more than 32 bits
  key,      \* mask, empty for a frame without
  results,  \* what recv_ws returned: the frames for the application
  pongs     \* the payloads of the pongs sent back

sender   == <<script, begun, frames, begins, sent>>
receiver == <<stage, head, size, beyond, key, results, pongs>>
net      == <<flight, socket, broken>>
vars     == <<sender, net, receiver>>

Init ==
  /\ script \in Scripts
  /\ begun = [s \in Senders |-> 0]
  /\ frames = [s \in Senders |-> <<>>]
  /\ begins = <<>>
  /\ sent = <<>>
  /\ flight = <<>>
  /\ socket = <<>>
  /\ broken = FALSE
  /\ stage = "head"
  /\ head = <<0, 0>>
  /\ size = 0
  /\ beyond = FALSE
  /\ key = <<>>
  /\ results = <<>>
  /\ pongs = <<>>
-----------------------------------------------------------------------------
(* Sending. *)

\* A part of a message with its data.
Slice(m, part) == [type |-> part.type, fin |-> part.fin, masked |-> m.masked,
                   data |-> SubSeq(m.data, part.offset + 1, part.offset + part.bytes)]

\* WsClient::send: the message is split; an empty one is not sent at all.  A
\* control frame of another peer is one frame.
Send(s) ==
  LET m == script[s][begun[s] + 1]
      parts == IF IsControl(m)
               THEN <<Part(0, Len(m.data), m.type, TRUE)>>
               ELSE SplitPacket(Len(m.data), m.type)
  IN /\ frames[s] = <<>>
     /\ begun[s] < Len(script[s])
     /\ begun' = [begun EXCEPT ![s] = @ + 1]
     /\ frames' = [frames EXCEPT ![s] = [i \in DOMAIN parts |-> Slice(m, parts[i])]]
     /\ begins' = IF parts = <<>> THEN begins ELSE Append(begins, m)
     /\ UNCHANGED <<script, sent, net, receiver>>

\* One call of client_->send in the loop of WsClient::send.
SendFrame(s) ==
  /\ frames[s] # <<>>
  /\ ~broken
  /\ LET f == Head(frames[s])
     IN /\ \E k \in IF f.masked THEN Keys ELSE {<<>>} :
             flight' = Append(flight, CreateSinglePacket(f.data, f.type, f.fin, k))
        /\ sent' = Append(sent, f)
  /\ frames' = [frames EXCEPT ![s] = Tail(@)]
  /\ UNCHANGED <<script, begun, begins, socket, broken, receiver>>

\* The call fails: WsClient::send returns false and drops the rest of the message.
SendFail(s) ==
  /\ frames[s] # <<>>
  /\ broken
  /\ frames' = [frames EXCEPT ![s] = <<>>]
  /\ UNCHANGED <<script, begun, begins, sent, net, receiver>>

\* The connection breaks between two calls.  What was sent is lost from some frame
\* on.
Break ==
  /\ script \in Fragile
  /\ ~broken
  /\ broken' = TRUE
  /\ \E n \in 0 .. Len(flight) : flight' = SubSeq(flight, 1, n)
  /\ UNCHANGED <<sender, socket, receiver>>

\* The network delivers the oldest frame, or a piece of it.
Arrive(n) ==
  /\ flight # <<>>
  /\ n <= Len(Head(flight))
  /\ script \in Segmented \/ n = Len(Head(flight))
  /\ LET rest == SubSeq(Head(flight), n + 1, Len(Head(flight)))
     IN flight' = IF rest = <<>> THEN Tail(flight) ELSE <<rest>> \o Tail(flight)
  /\ socket' = socket \o SubSeq(Head(flight), 1, n)
  /\ UNCHANGED <<sender, broken, receiver>>
-----------------------------------------------------------------------------
(* Receiving. *)

\* Mutant of LenBits: the byte is a signed char and the mask bit stays.
LenBitsSigned(h) == IF h[2] >= TopBit THEN h[2] - 256 ELSE h[2]

\* What the second byte says.
LenBits(h)  == h[2] % TopBit
HasMask(h)  == h[2] >= TopBit
ExtBytes(h) == CASE LenBits(h) = WS_MIN_PACKET_SIZE + 1 -> 2
                 [] LenBits(h) = WS_MIN_PACKET_SIZE + 2 -> 8
                 [] OTHER -> 0

\* What recv_msg was called for; it is below 0 for a size from 2^31 on.
Wanted == CASE stage = "head" -> 2
            [] stage = "ext"  -> ExtBytes(head)
            [] stage = "mask" -> 4
            [] stage = "data" -> size
            [] OTHER -> 0

\* What the memory holds behind the bytes that a packet got.
Stale == 256

\* Mutant of ShortRead: recv_msg takes what it got.
ShortReadTaken ==
  /\ stage = "data"
  /\ socket # <<>>
  /\ Len(socket) < Wanted
  /\ socket' = <<>>
  /\ results' = Append(results, [type |-> head[1] % 16, last |-> head[1] >= TopBit,
                                 body |-> Append(Mask(socket, key), Stale)])
  /\ stage' = "head"
  /\ UNCHANGED <<sender, flight, broken, head, size, beyond, key, pongs>>

\* recv_msg when recv returns less than it was asked for: it calls recv again
\* with the same buffer and the same size, so these bytes are overwritten.
ShortRead ==
  /\ socket # <<>>
  /\ Len(socket) < Wanted
  /\ socket' = <<>>
  /\ UNCHANGED <<sender, flight, broken, receiver>>

\* Mutant of RecvFail: recv_msg tries again whatever the error is.
RecvFailRetried == /\ broken /\ flight = <<>> /\ socket = <<>> /\ Wanted # 0
                   /\ UNCHANGED vars

\* recv_msg when recv returns an error, for nothing will come any more.
RecvFail ==
  /\ broken /\ flight = <<>> /\ socket = <<>> /\ Wanted # 0
  /\ stage' = "failed"
  /\ UNCHANGED <<sender, net, head, size, beyond, key, results, pongs>>

\* How many bytes recv_msg takes: it compares them with the size as an int32_t, so
\* below 0 it is content with whatever the first recv yields.
Taken == IF Wanted < 0 THEN Len(socket) ELSE Wanted

\* recv_msg has its bytes.
Fill == /\ Len(socket) >= Wanted
        /\ Wanted < 0 => socket # <<>>
        /\ socket' = SubSeq(socket, Taken + 1, Len(socket))
        /\ UNCHANGED <<sender, flight, broken>>

Filled == SubSeq(socket, 1, Taken)

\* The number whose bytes in network order are s: two bytes, or the last four of
\* eight as an int32_t.
FromBigEndian(s) ==
  LET Signed(b) == IF b >= TopBit THEN b - 256 ELSE b
  IN IF Len(s) = 2 THEN 256 * s[1] + s[2]
     ELSE 65536 * (256 * Signed(s[5]) + s[6]) + (256 * s[7] + s[8])

\* More than 32 bits.
Beyond(s) == Len(s) = 8 /\ \E i \in 1 .. 4 : s[i] # 0

\* The mask comes after the length, then the data.
AfterLength(h) == stage' = IF HasMask(h) THEN "mask" ELSE "data"

ReadHead ==
  /\ stage = "head"
  /\ Fill
  /\ head' = Filled
  /\ size' = LenBits(Filled)
  /\ beyond' = FALSE
  /\ key' = <<>>
  /\ IF ExtBytes(Filled) > 0 THEN stage' = "ext" ELSE AfterLength(Filled)
  /\ UNCHANGED <<results, pongs>>

ReadExt ==
  /\ stage = "ext"
  /\ Fill
  /\ size' = FromBigEndian(Filled)
  /\ beyond' = Beyond(Filled)
  /\ AfterLength(head)
  /\ UNCHANGED <<head, key, results, pongs>>

ReadMask ==
  /\ stage = "mask"
  /\ Fill
  /\ key' = Filled
  /\ stage' = "data"
  /\ UNCHANGED <<head, size, beyond, results, pongs>>

\* The packet, unmasked.  When recv_msg was content with too little, the rest is
\* what the memory held.
Body == IF size < 0 THEN Append(Mask(Filled, key), Stale) ELSE Mask(Filled, key)

\* Mutant of ReadData: the pong carries the data as they came, masked.
ReadDataPongMasked ==
  /\ stage = "data"
  /\ Fill
  /\ LET op == head[1] % 16
     IN /\ stage' = IF op \in {0, 1, 2, 8, 9, 10} THEN "head" ELSE "failed"
        /\ pongs' = IF op = WS_OP_CODE_PING /\ ~broken THEN Append(pongs, Filled) ELSE pongs
        /\ results' = IF op \in {0, 1, 2, 8}
                      THEN Append(results, [type |-> op, last |-> head[1] >= TopBit,
                                            body |-> Body])
                      ELSE results
  /\ UNCHANGED <<head, size, beyond, key>>

\* The loop of the mask runs over data_bytes, the packet has its lower 32 bits.
Overrun == beyond /\ key # <<>>

\* The frame is complete.  A ping is answered with its data, whether that can be
\* sent or not, a pong skipped, an opcode that is not known is an error; the rest is
\* returned.  In a result, type stands for kind and evt: text, binary, close, or
\* neither for 0.
ReadData ==
  /\ stage = "data"
  /\ Fill
  /\ LET op == head[1] % 16
     IN \/ /\ Overrun
           /\ stage' = "undefined"
           /\ UNCHANGED <<results, pongs>>
        \/ /\ ~Overrun
           /\ op = WS_OP_CODE_PING
           /\ pongs' = IF broken THEN pongs ELSE Append(pongs, Body)
           /\ stage' = "head"
           /\ UNCHANGED results
        \/ /\ ~Overrun
           /\ op = WS_OP_CODE_PONG
           /\ stage' = "head"
           /\ UNCHANGED <<results, pongs>>
        \/ /\ ~Overrun
           /\ op \in {WS_OP_CODE_CONTINUE, WS_OP_CONTENT_TEXT,
                      WS_OP_CONTENT_BINARY, WS_OP_CODE_CLOSE}
           /\ results' = Append(results, [type |-> op, last |-> head[1] >= TopBit,
                                          body |-> Body])
           /\ stage' = "head"
           /\ UNCHANGED pongs
        \/ /\ ~Overrun
           /\ op \notin {0, 1, 2, 8, 9, 10}
           /\ stage' = "failed"
           /\ UNCHANGED <<results, pongs>>
  /\ UNCHANGED <<head, size, beyond, key>>

Receive == ShortRead \/ RecvFail \/ ReadHead \/ ReadExt \/ ReadMask \/ ReadData

\* Everything is sent and read, or the application has given up.
Ended == /\ \A s \in Senders : frames[s] = <<>> /\ begun[s] = Len(script[s])
         /\ flight = <<>>
         /\ socket = <<>> \/ stage \in {"failed", "undefined"}
         /\ UNCHANGED vars

Sending == \E s \in Senders : Send(s) \/ SendFrame(s) \/ SendFail(s)

Arrival == flight # <<>> /\ \E n \in 1 .. Len(Head(flight)) : Arrive(n)

Next == Sending \/ Break \/ Arrival \/ Receive \/ Ended

Spec == Init /\ [][Next]_vars

\* The scheduler resumes the coroutines and the network delivers.
FairSpec == /\ Spec
            /\ WF_vars(Arrival)
            /\ WF_vars(Receive)
            /\ \A s \in Senders : WF_vars(SendFrame(s) \/ SendFail(s))
-----------------------------------------------------------------------------
(* Properties. *)

\* The contents of a packet.
Packet == Seq(ByteRange \cup {Stale})

\* Type correctness of the connection; also, a size below 0 or
\* one that is cut to 32 bits is that of a header with the longest form of a length.
TypeOK ==
  /\ script \in Scripts
  /\ begun \in [Senders -> Nat]
  /\ sent \in Seq([type : OpCodes, fin : BOOLEAN, masked : BOOLEAN, data : Seq(ByteRange)])
  /\ flight \in Seq(Seq(ByteRange))
  /\ socket \in Seq(ByteRange)
  /\ broken \in BOOLEAN
  /\ stage \in {"head", "ext", "mask", "data", "failed", "undefined"}
  /\ head \in ByteRange \X ByteRange
  /\ size \in Int
  /\ beyond \in BOOLEAN
  /\ size < 0 \/ beyond => ExtBytes(head) = 8
  /\ key \in {<<>>} \cup [1 .. 4 -> ByteRange]
  /\ results \in Seq([type : OpCodes, last : BOOLEAN, body : Packet])
  /\ pongs \in Seq(Packet)

\* Every frame of this connection arrives whole.
Whole == script \notin Segmented

\* The place of frame i among the frames sent with one of these opcodes.
Place(i, types) == Cardinality({j \in 1 .. i : sent[j].type \in types})

\* The opcodes of the frames that recv_ws does not answer or skip itself.
Returned == OpCodes \ {WS_OP_CODE_PING, WS_OP_CODE_PONG}

\* ws_client.h:45: a call that returns TARO_OK returns a frame that the peer has
\* sent: each once, in order, with its own data and flags.
FramesFaithful ==
  /\ Len(results) <= Place(Len(sent), Returned)
  /\ \A i \in DOMAIN sent :
       LET n == Place(i, Returned)
       IN sent[i].type \in Returned /\ n <= Len(results) =>
            results[n] = [type |-> sent[i].type, last |-> sent[i].fin,
                          body |-> sent[i].data]

\* It is so when every frame arrives whole, for every form of a header, masked or
\* not, and with control frames anywhere.
WholeFramesFaithful == Whole => FramesFaithful

\* The bytes of the frames sent, when no mask is used.
Stream == FlattenSeq([i \in DOMAIN sent |->
                        CreateSinglePacket(sent[i].data, sent[i].type, sent[i].fin, <<>>)])

\* However the frames are cut, and although recv_msg loses bytes then and may take
\* data for a header: a body that is returned is a run of bytes that came one after
\* the other, unmasked with four bytes that came before it if with any.  It is
\* filled up with what the packet happened to hold only if eight bytes with bit 31
\* set were taken for its length.
BodyReceived ==
  (\A i \in DOMAIN sent : ~sent[i].masked) =>
    \A i \in DOMAIN results :
      LET body  == results[i].body
          short == body # <<>> /\ Last(body) = Stale
          n     == Len(body) - (IF short THEN 1 ELSE 0)
      IN /\ \E j \in 1 .. Len(Stream) - n + 1 :
              \E k \in {<<>>} \cup {SubSeq(Stream, h, h + 3) : h \in 1 .. j - 4} :
                SubSeq(body, 1, n) = Mask(SubSeq(Stream, j, j + n - 1), k)
         /\ short => \E h \in 1 .. Len(Stream) - 7 :
                       FromBigEndian(SubSeq(Stream, h, h + 7)) < 0

\* A receiver in the middle of a message whose sender has failed is told so: a
\* connection that breaks makes recv_ws return an error, and send return false.
BreakNoticed ==
  broken ~> stage = "failed" /\ \A s \in Senders : frames[s] = <<>>

\* Every ping is answered once, in order, with the data that it carried before
\* masking.
PongsEcho ==
  Whole =>
    /\ Len(pongs) <= Place(Len(sent), {WS_OP_CODE_PING})
    /\ \A i \in DOMAIN sent :
         LET n == Place(i, {WS_OP_CODE_PING})
         IN sent[i].type = WS_OP_CODE_PING /\ n <= Len(pongs) => pongs[n] = sent[i].data

\* ws_client_impl.h:103: a message in several frames has one with the opcode,
\* then frames with opcode 0, and the last one alone has the fin bit.  So a frame
\* has opcode 0 exactly when the one before it was not the last of its message.
FragmentsTogether ==
  Whole => \A i \in DOMAIN results :
             results[i].type = WS_OP_CODE_CONTINUE <=> i > 1 /\ ~results[i - 1].last

\* The messages that the application can put together from the frames.
Ends     == SelectSeq([i \in DOMAIN results |-> i], LAMBDA i : results[i].last)
From(n)  == IF n = 1 THEN 1 ELSE Ends[n - 1] + 1
Together(n) == <<results[From(n)].type,
              FlattenSeq([i \in 1 .. Ends[n] - From(n) + 1 |-> results[From(n) + i - 1].body])>>

\* The messages that were sent for the application.
Promised == LET mine == SelectSeq(begins, LAMBDA m : m.type \in {1, 2, 8})
            IN [i \in DOMAIN mine |-> <<mine[i].type, mine[i].data>>]

Delivery ==
  INSTANCE HttpDelivery
    WITH Contents <- {<<<<m.type, m.data>>>> :
                        m \in UNION {Range(r[s]) : r \in Scripts, s \in Senders}},
         promised <- IF Whole THEN Promised ELSE <<>>,
         delivered <- IF Whole THEN [n \in DOMAIN Ends |-> Together(n)] ELSE <<>>,
         up <- Whole => stage # "failed"

\* The messages that a sender sends are received whole, once and in order, and
\* all of them unless the connection fails, as long as frames arrive whole.
DeliverySpec == Delivery!Spec
=============================================================================
