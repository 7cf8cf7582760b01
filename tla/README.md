# Verification of co_ws

`co_ws` is an HTTP and websocket library for the coroutine runtime `co_taro`:
a web server, an HTTP client and a websocket client. This directory holds TLA+
modules that model its state machines, TLC configurations that check them on
small instances, and proofs that TLAPS checks for every value of the constants.
`PROJECT.json` relates every definition to the lines of code it models, lists the
runs, the mutants that show that each property can fail, the findings, the
hazards and the theorems.

## 1. The system

| Component | State | Operations | Modelled in |
|---|---|---|---|
| `HttpProtoPaser` (`include/impl/http_proto_impl.h`): incremental parser | type, header, body length, boundary, buffered packets, chunk size | push, parse_header, get_content, get_chunk, get_boundary, reset | `HttpProtoPaser` |
| `PacketList` (external, co_taro) | received bytes | search, read, consume | `PacketList` |
| `MsgHandler`, `client_handle` (`src/web_server.cc`): one server connection | parser, request, routine, the function that receives next | on_http_recv, on_http_arrived, on_chunk_msg, on_boundary_msg, on_web_socket, on_ws_recv, clear | `MsgHandler` |
| `HttpClient` (`src/http_client.cc`), receiving | TCP client, parser, response being read | connect, request, recv_resp | `HttpClient` |
| `HttpClient`, sending | the connection, packets of the application | send_req, send_resp, send_body, send_chunk_body, send_boundary_body | `HttpUpload`, `HttpSender` |
| `HttpRequest`, `HttpResponse` (`src/http_proto.cc`) | list of items | set, contains, get, serialize, deserialize | `HttpMessage` (deserialize: `MsgHandler`, `HttpClient`) |
| `WsProto` (`include/impl/ws_proto.h`): framing | none | create_single_packet, split_packet, create_pong_packet, create_open_packet, create_key | `WsProto` |
| `WsClient`, `WsClientImpl::recv_ws` (`src/ws_client.cc`, `include/impl/ws_client_impl.h`) | TCP client | send, recv | `WsConnection` |
| `WsClient::open` | TCP client, a temporary `HttpClient` | open | `WsOpen` |
| `WebServer` (`src/web_server.cc`) | routine maps, websocket handler, file reader, TCP server | start, accept, set_routine, set_path, set_ws_handler, find_handler, destructor | `WebServer` (without the destructor) |
| `FileReader` (`include/impl/file_reader.h`) | root directory | on_message | `WebServer` |

How they interact. The server's accept coroutine starts one coroutine per
connection. That coroutine receives packets into its parser, decodes the request,
finds the routine and calls it with every part of the body; the routine answers
through an `HttpClient` that shares the TCP client. After an upgrade the same
coroutine reads frames with `recv_ws` and calls the websocket handler, which
sends through a `WsClient` on the same TCP client. The asking side uses the same
parser in `recv_resp`. Coroutines are cooperative: they switch only inside the
calls of the runtime that wait (`recv`, `send`, `accept`, sleeping in a routine).
All connections share the routine maps of the server; nothing else is shared. A
request keeps a copy of the function that was found for it, and the function of
`set_path` points to a `FileReader` that the next `set_path` deletes.

What is hard. Messages are cut into packets anywhere, and several may come in one;
the parser's members outlive a message; a call may time out with a response half
read; a connection changes its protocol; several coroutines may send on one
connection, or make their requests with the same packets; routines and paths are set
while requests are served; the server's application may speak before the handshake
is answered; a peer may close, a connection break, at any moment. `hazards` in
`PROJECT.json` lists each place where this bites, with the properties that would
notice.

What makes the components correct:

- parser: whatever the cuts, the contents of a message are handed out once, whole
  and in order, and nothing of a message is left to the next one;
- server connection: every content reaches the routine of its url; `handler_` is
  never called empty; a routine that returned false is the last one called; the
  connection is kept unless a routine, the peer or an error ends it; websocket
  events come once, in order and after the answer to the upgrade;
- client: a call returns the answer to its own request and returns at all; parts
  come with the code of their own response, through timeouts and retries; a client
  that waits for every answer is not told that a good one is wrong;
- sender: the kind and length in a header are those of the body behind it, the size
  of a chunk that of its data, also when a packet has grown since it was sent
  before; a key is never twice in a request;
- framing: the frames of a message cover it, and a reader puts together what was
  sent; when the connection breaks between two frames, both ends are told;
- handshake: it ends, both ends agree on its outcome, and no frame is lost behind it
  if the client speaks first;
- server: it listens exactly while it accepts; a request gets the best function
  there is and keeps it; no `FileReader` is used after it was deleted except by a
  request that was under way; header and body of a file are of one file.

## 2. The modules

`HttpDelivery` is the abstract specification: contents are promised by messages
that are sent, and delivered at most once, whole, in order, to the one they are
for, and all of them unless the connection is dropped. The three state machines
below implement it, each with its own refinement mapping
(`Delivery == INSTANCE HttpDelivery WITH ...`, property `DeliverySpec`, or
`DeliverySafe` where only its safety part is promised).

`PacketList` is a sequence of *symbols*. A symbol stands for a run of bytes that
the parser only ever matches as a whole: a request line, a header field, a chunk
size, a boundary flag, a byte of payload. The separator is two symbols, `CR` and
`LF`, because the code treats them as a pair that may be cut. Lengths and
positions count symbols; where the code adds `strlen` of a flag, the model adds 1.
Texts that merely contain the name of a header field (`Upgrade`,
`Sec-WebSocket-Key`) are symbols with that tag, so that the searches of
`parse_header` find what the code finds.

`HttpProtoPaser` has the class as a record and each method as an operator that
returns the code, the packet and the parser left behind. `NewParser(g)` has the
uninitialised `body_bytes_` as the parameter `g`. `Classify` searches all that is
buffered, as the code does; `GetChunk` and `GetBoundary` consume their last
separator without looking whether it has arrived. Where the code computes with
`int32_t` or `uint32_t` the operators do, too: the size of a chunk and its separator
wrap above `MaxChunk`, and a part between two flags that stand closer than the code
allows for is as long as what is buffered. `deserialize` counts the words of
the first line (`WordCount`, from the blanks in each symbol), as `split_string` does:
any three are a request, whose url is `OtherUrl` if the line is none of the model's, and any
three or more a response, with the code 0 if the second word is no number.

`HttpSender` has the encodings of the sending side: `package_header` and the body
senders. The scripts of peers and servers are built from it, so what the parser
reads is what this library writes.

`MsgHandler` is one connection with its peer. Control points: in `recv`; the type
is known (`arrived`); the body is taken (`dispatch`); in a routine; in the
websocket handler, for the open event or for a frame; closed. `OnHttpRecv(n)`
takes any number of symbols up to the buffer size; `Identify`, `Dispatch`,
`RoutineReturn`, `OnWebSocket`, `WsOpenReturn`, `OnWsRecv` and `WsEventReturn` are
the rest of the loop. Between two waits the coroutine takes several steps here;
only the peer can come between them, and it sees nothing of the connection but
its answers.

`HttpClient` is a client, the coroutine that uses it and a server that answers
each request in order. `recv_resp` is its loop: `Parse`, `Body` (the branches
`LoopNormal` and `LoopOther`), `RecvSome`, `Timeout`, `RecvFail`. The application
may call `recv_resp` again after an error, and send the next request when a response
is complete or could not be read. Only a *hasty* one (`Hasty`) also sends it
after a call that was cut short by a timeout; a patient one repeats the call.

`HttpMessage` has the items of a request: `SetStr` and `GetStr` find the first item
whose key is the same but for its case, and `Serialize` makes the header of
`HttpSender` from them; of its lines only the four kinds of field that the parser
looks for differ. Keys, their lower case and values are constants.

`HttpUpload` is the sending side with several coroutines on one client. Each
carries out a plan: items to set, then the request, then the packets of the body.
`SendReq`, `SendBody`, `SendSize`, `SendData` and `SendLast` are the single calls of
`client_->send`, so the coroutines can come between a size and its data. `SendData`
appends the separator to the application's packet, as the code does, before it
knows whether the send succeeds. Any send may fail; `Reconnect` is the application
that makes a new client and sends its requests again, with the items and packets it
has. `meant` records what the encodings of `HttpSender` say at the moment a request
is begun.

`WsProto` has the framing on bytes; the three sizes are constants, so that small
instances reach every form of a header and several frames. `WsConnection` is one
direction of a connection: coroutines that send, frame by frame; a network that
delivers frames, whole or in pieces, and may break (`Break`); and `recv_ws`, read by
read. `ShortRead` is `recv_msg` when `recv` returns less than it was asked for,
`RecvFail` when it returns an error; `SendFail` is `WsClient::send` when a frame
cannot be sent. A reader that has lost bytes may take anything for a length, so the
widths are those of the code: of eight bytes the last four as an `int32_t`
(`FromBigEndian`), a size below 0 with which `recv_msg` is content with what one
`recv` yields (`Taken`), the packet then filled up with what the memory held
(`Stale`), and a length of more than 32 bits, with which the loop of the mask runs
behind the packet (`Overrun`, stage `undefined`).

`WsOpen` composes the connection of the server (`MsgHandler`, whose variables are
the server's) with the temporary client of `open` (`Client == INSTANCE HttpClient`):
what the client sends is the server's `wire`, what the server sends the client's.
`OpenConnect`, `OpenAsk`, `OpenWait` and `OpenReturn` are the stages of `open`;
`HandlerSends` is the server's application, which has a `WsClient` from the open
event on, before the answer is sent, and may use it at once. Frames of the server
are symbols one by one, for the client may receive them in pieces. `OpenRefused` is a
connect that fails, `OpenUnsent` a request that cannot be sent. `Break` is the
connection that breaks while `open` runs: either end goes on until it finds out, and what is
on its way to it by then may arrive or be lost.

`WebServer` has the server and several connections, each reduced to what it keeps of
the server. `Start` may fail in either of its two ways and be called again;
`SetRoutine`, `SetPath` and `SetWsHandler` may come at any time. `Foremost` is the
front of the list that `find_handler` sorts: its comparator is no order, so the
merges of `std::list::sort` are followed with `Preferred`; an assumption of
`MCWebServer` checks that every tree of merges gives the same front. `OnMessage`
reads the file, `HeaderSent` and `BodySent` are the returns of its two sends. A
connection that calls a deleted `FileReader` becomes `undefined`.

The `MC*` modules give the scripts; the `.cfg` files give the values of constants.
The `*_proofs` modules hold the theorems.

## 3. The runs

| Run | Question | Result |
|---|---|---|
| `server_all` | requests of every kind, up to three in any order, every cut, every place where a message is rejected; upgrades, then frames of every kind | holds: `TypeOK`, `HandlerReady`, `CleanBetween`, `NormalKept`, `FramesOnce`, `WsAfterUpgrade`, `NoCallAfterFalse`, `DeliverySpec`, `FramesHandled` |
| `server_keepalive` | is the connection kept after streamed requests? | violated, finding |
| `server_text` | is a body that mentions a header field served? | violated, finding |
| `server_verdict` | does the websocket handler's false end its calls? | violated, finding |
| `client_all` | every kind of response; timeouts at any moment, retries, next requests, malformed responses | holds: `TypeOK`, `SameResponse`, `OwnAnswerInTime`, `NoFormatError`, `FormatIsFinal`, `DeliverySafe`, `Returns` |
| `client_late` | does a request get its own answer when another timed out? | violated, finding |
| `ws_all` | every header form, masks, control frames, one to three frames, pings between them; frames in pieces; connections that break | holds: `TypeOK`, `WholeFramesFaithful`, `PongsEcho`, `FragmentsTogether`, `BodyReceived`, `DeliverySpec`, `BreakNoticed` |
| `ws_short` | frames in pieces: are returned frames frames that were sent? | violated, finding |
| `ws_two` | two senders: do the frames of a message stay together? | violated, finding |
| `web_routes` | two connections are served while routines, paths and the websocket handler are set in any order | holds: `TypeOK`, `ListeningServed`, `OneRoutine`, `ReadersFresh`, `BodyMatchesHeader`, `ChosenBest` |
| `open_open` | the handshake, every cut, with frames of the server before and behind the answer, and with a connection that fails | holds: `OpenAgrees`, `FramesKept`, `NothingBehindUpgrade`, `Opens` |
| `upload_upload` | two coroutines make and send requests with every kind of body; sends fail and requests are sent again | holds: `TypeOK`, `OneItemPerKey`, `KindAgrees`, `SizesAgree`, `WireFaithful` |

`DeliverySpec` holds of streamed requests although `KeepAlive` does not: the
abstract specification allows a connection to be dropped, and the code drops it
rather than hand out something wrong. `NormalKept` is the part of `KeepAlive` that
holds, for requests that are not streamed; the same
cause makes a patient client report an error of the format, and `NoFormatError` holds
because it asks that only the last answer is streamed (`StreamsLast`). The scripts of
`client_all` also have answers behind streamed ones,
and there the error does occur; so `DeliverySafe` speaks of what is
returned before the first error, and `FormatIsFinal` of what is not returned behind
one. Behind an error of a chunk size it says nothing: the parser stays in the middle
of the message, and the next call may return what it reads there as the end of it.
`OwnAnswerInTime` is the part of `OwnAnswer` that holds of patient applications,
with timeouts, `WholeFramesFaithful` the part of `FramesFaithful` for frames that
arrive whole. A run has scripts of several sorts, and a constant that names the sort
a property speaks of (`Hasty`, `Segmented`, `Fragile`, `Serial`, `Quiet`,
`WsServed`): two coroutines that do not wait for each other do mix their chunks
(`WireFaithful` is about `Serial` plans, `SizesAgree` too), and a server that speaks
first does lose frames at the start (`FramesKept`).

Some properties say less than their hazard. `NothingBehindUpgrade` holds because the
client is `WsClient::open`, which sends nothing before it has the answer; a peer
that sends frames behind its upgrade at once is not modelled. `WireFaithful` takes
what was meant from the packets as they are when a request is begun, so a separator
that an earlier send left in a packet counts as meant, and it says nothing of
coroutines that share a client. `ReadersFresh` says which requests can meet a
deleted `FileReader`, not that none does. `Returns` is about well-formed answers;
for others a call ends only by its timeout.

Bounds. Scripts have up to three messages, bodies up to two symbols a part, two
parts; an error in how a message ends shows in the next one, and a third one returns
to the same state. `RecvMax` is 12 symbols, more than the longest header, so a
header may come alone, in pieces, or with its body. The peer of `MsgHandler` waits
for the answer before it sends the next request, as the library's own client does,
and sends websocket frames without waiting. `Garbage` is a negative number, 0 and a
number larger than any body. `MaxCalls` bounds the calls of `recv_resp` to one or
two more than the answers have contents, so a timeout can come at every point of an
answer and be followed by a retry. The sizes of `WsProto` are 2, 3 and 4: messages
of 0, 2, 3, 4, 5, 8 and 9 bytes lie on and next to each border; in pieces, data that
look like a header lead the reader to a mask and to lengths of 32 bits and more. Not
reached by the runs are `recv` returning 0 bytes, chunks beyond `MaxChunk` and flags
of a multipart body that stand too close: the operators have them, and the theorems
about the parser's types and members cover them. `WebServer` has two clients, so
that one can wait while another is served or changes its function, four patterns, of
which three have the same length and two a "?", two directories of which one has the
file, and four calls of setters: enough to set a path, find its function, set
another one and use it. `WsOpen` has three frames of the server, one of which
touches the answer without a blank, and `HttpUpload` two coroutines, packets that
are shared, used twice or empty, and three connections, so that a packet can grow
twice. There is no symmetry reduction, for contents are compared.

Fairness. `FairSpec` has weak fairness of the coroutine, because the scheduler
resumes a coroutine whose wait is over, and of the routines of the application,
which are expected to return. Nothing makes a peer send or close. The client's
`FairSpec` also assumes that a server answers unless it goes away; the websocket one
that the network delivers. `WebServer` has none: no liveness is claimed of it, since
whether a client is accepted depends on the scheduler alone. `WsOpen` has that of
the coroutines of both ends. Deadlock is checked in every run; the states in which
nothing is left to do are allowed explicitly by `Ended` (`OpenEnded`).

External assumptions. `recv` of the runtime returns between one byte and a buffer
full, of what has arrived, and an error when the connection is broken; `recv` with a
size of 0 returns at once; a call of `recv` that timed out leaves the TCP client
usable; `send` sends all or fails, and a send that fails on the server side is
noticed by the next `recv`; a send fails only when the connection is broken, and
then every later one does. `wildcard_match` and `is_wildcard` are constants.
`search`, `read` and `consume` of `PacketList` do what their names and uses say.

## 4. The proofs

`Sequence_proofs` has what the other modules need about sequences of any length.
Induction is stated about sets (`Induction`: a set of numbers with 0 and every
successor is `Nat`), and from it follows that recursive functions exist
(`Recursion`) and what `FlattenSeq` of the community modules computes
(`FlattenType`, `FlattenAppend`, `FlattensBegins`), which the encodings of messages
are built with.

`HttpProtoPaser_proofs` has the lemmas about `PacketList` and the parser: where a
search can point and that it finds the first place, that a read or consumed list
is one of symbols, what `parse_header` takes from a packet, and for each operation
what it returns and which members it can change. Then what the parser makes of a
message that is sent as `HttpSender` says, wherever it is cut. `SearchFront` is the
first step: in the part that has arrived a pattern is found where it stands in the
whole, or not yet. `ParsedAt` says that `parse_header` waits for a header or takes
exactly its symbols, `KindFound` that the kind, the length and the boundary found
in it are those that were sent, although all that is buffered is searched:
payload and chunk sizes are no header fields (`BodySymbol`). `IsBehind(p, w, packs, k)`
says that the parser, with what is still on the wire, is behind the first `k`
packets of a body; `ContentTakes` that the next call hands out packet `k` and is behind
`k + 1`, or waits and keeps everything. A streamed body may leave a `LF` or `CR LF`
of its end behind (`Junk`), when the end is cut where `get_chunk` does not look
(`LastTakes`, `EndGot`); the lemmas about headers allow for that in front.

`MsgHandler_proofs`: `TypeOK`, `HandlerReady` and `CleanBetween` are not inductive.
`HandlerReady` needs to know that the type and the request become known and are
forgotten together; `CleanBetween` that a chunk size is known only inside a
chunked message, although `reset()` does not clear it; `NoCallAfterFalse` that a
false verdict and a running HTTP connection exclude each other. The inductive
invariant is `IInv == TypeOK /\ Consistent /\ Obeyed`: one lemma per action shows
that it is kept, and the theorems follow from it. Assumed are only the named
assumptions of the module: `Route` maps urls to routines, scripts are sequences
of messages, the uninitialised value is an integer, the buffer is not empty. In
particular the peer's bytes are arbitrary, so the theorems hold for malformed
messages too. `WsAfterUpgrade` follows from a second invariant (`Upgraded`): before
the switch nothing is answered but a 404, and in the open event there is no event
but it; after it there is one 101, in front of every pong. It needs `IInv` to know
that a connection that decodes or dispatches a request has not switched.

What is delivered is the subject of a third invariant (`Conversing`), for a peer that
sends as this library does. `WellSent(m)` says that: `m` is a frame, or a request whose
bytes are the `Encode` of a body of any length and kind, and whose contents are that
body's packets for the routine of its url. Until the connection is closed it is then
in one of four states: `Idle`, all that was sent is served and at most a piece of a line end
is left; `Awaiting`, one message more is sent and its header has not all arrived;
`Serving`, `k` of its packets were handed over, and the parser is behind them;
`OnSocket`, the parser knows an upgrade. One lemma per action shows that it
leads from one of them to one of them. It needs `IInv`, and `Switches`, that the 101 is
sent only while the parser knows an upgrade, so that no peer sends early. From it follow

- `NormalAlwaysKept`, that is `NormalKept`: after requests with a content length or
  without a body the connection is closed only if a routine says so, the peer leaves
  or a url has no routine. It fails for streamed requests at just the place where
  the invariant says what is left behind: a header behind a `CR LF` has an empty
  first line, `deserialize` does not find the url, and the connection is closed
  (`server_keepalive`);
- `ImplementsDelivery`, the safety part of `DeliverySpec`: every step is a step of
  `HttpDelivery` or stutters, so contents of every kind of request are handed over
  whole, in order and at most once, also when the connection is closed in the
  middle, and also behind what a streamed request leaves.

- `FramesAlwaysOnce`, that is `FramesOnce`: behind an upgrade every frame with content
  is handed over once and in order and every ping is answered by one pong, also when the
  connection closes with frames on the wire. `FramesOnce` is an equation between the frames
  sent, handed over and waiting that each step keeps, except that `on_http_recv`
  would read a frame as part of a request. So it needs that no frame is on its way then
  (`NoFrameSent`), and that needs `OneByOne`: until the 101 is sent, messages are sent one
  by one, which `Upgraded` says, and none that was served is an upgrade, which `Conversing`
  says, the kind of a served request being the one the parser found.

The hypotheses are about the script alone (a chunk of a well sent message is not
above `MaxChunk`): `SocketWell`, that one that is played against a websocket handler
is well sent and has frames only behind an upgrade, where anything else may be, too;
`NormalsWell`, that its messages with a content length are well sent, the others
arbitrary, and `AllWell`, that all are. The malformed messages of the run
`server_all` are not, so of them the refinement is only model-checked.

`HttpClient_proofs`: `TypeOK` and `SameResponse` (`IInv`: both, and that the type is
known in the second part of a round) for every script, every timeout and every
sequence of calls. The step to note is that `recv_resp` sets `resp_` only from the
header that is in the parser and that every path that resets the parser resets `resp_`.

`FormatIsFinal` holds of every server and every application: an error of the format
is reported with a header in the parser that `deserialize` does not accept, and no
path takes that header away (`FormatInv`).

What the calls return is the subject of a second invariant (`Conversing`), for a
server that answers as this library does and an application that is patient, that is
for a script outside `Hasty`; its calls may time out at any moment and be repeated.
`OksOf(results)` is what was returned, `OwedOf(script, n)` what the first `n`
answers are to be returned as, with the code, the packet and the number of the
request. The first is always a beginning of the second (`InOrder`), and the client
is in one of six states: `Quiet`, all that was sent is returned and at most a piece
of a line end is left; `Awaiting`, one answer more is sent and its header has not
all arrived; `Serving`, `k` of its packets were returned and the parser is behind
them; `Upgraded`, the header of a 101 is known; `Deaf`, the header in the parser has
a line end of a streamed answer in front, so `deserialize` finds nothing and every
call reports an error of the format; `Lost`, the connection broke inside an answer.
An error of the format is reported only in `Deaf` (`Broken => Deaf`). One lemma per
action shows that it leads from one of them to one of them. That the application is
patient is needed: a hasty one sends the next request while an answer is due
(`client_late`). From it follow

- `AlwaysOwnAnswer`, that is `OwnAnswerInTime`: whatever kinds of answers there are,
  what is returned is the answer to the last request;
- `NeverFormatError`, that is `NoFormatError`: no error of the format when at most
  the last answer is streamed (`StreamsLast`), which the property says itself. It is
  no technicality: behind a streamed answer the client can become `Deaf`, as it
  does in scripts of `client_all` like a chunked answer before another;
- `ImplementsDelivery`, that is `DeliverySafe`, the safety part of `HttpDelivery`:
  what is returned are the contents of the answers, whole, in order and at most once
  up to the first error of the format, wherever timeouts interrupt the calls and the
  connection breaks.

`AllWell` is a hypothesis about the script alone, and all scripts of `client_all` but the
malformed ones satisfy it. The theorems do not cover hasty applications and malformed
answers, except `FormatIsFinal`: of those `DeliverySafe` is only model-checked.

`WsOpen_proofs`: the three invariants of the handshake, `NothingBehindUpgrade`,
`OpenAgrees` and `FramesKept`. The server goes through phases (`ServerInv`): nothing
was sent; the open packet arrives; it is decoded, and its handler called; then the
connection is a websocket, or one that answers every packet alike, or closed. A step
leads from phase to phase and answers only where `Moves` says. The client's `open`
goes through phases of its own (`LinkInv`): before it is answered, what arrives are
frames sent early, in which no header can say 101 (`Waiting`); then what is buffered
and what is on its way is *x*, the answer and *y*, where *x* are frames that were
sent early, none if none was, and *y* is an end of what was sent (`Answered`).
`HandshakeParsed` is the lemma all of it rests on: of such a buffer `parse_header`
takes nothing, or a part of *x*, or exactly *x* and the answer, never more and never
a part of it, wherever it is cut. The same lemma is used for the server and the open
packet. A connection that breaks may leave either end in any phase, and each goes on
from there: `Left` is a server that found out before it had answered, `Failed` an
`open` that never connected, found out, was refused or overtaken. Assumed are that a
script begins with an open packet, the rest of it being arbitrary, and as a
hypothesis of the theorems (`NoStatus`) that no frame of the server holds the status
line of a 101: one that does and overtakes the answer would be taken for it. The
frames of the run satisfy it.

`WsConnection_proofs`: `SplitPacketWell`, that the parts of a message of any
positive size cover it, in order, without gap or overlap, with the right opcodes and
the fin bit on the last alone; and of the connection `TypeOK`,
`WholeFramesFaithful`, `PongsEcho` and `FragmentsTogether`. The invariant
(`WholeInv`) says what is under way of each frame: its bytes are those of
`CreateSinglePacket` (`PacketIsFrame`, for each of the three forms of a header), the
reader is at the start of one or behind a part of its header that it has read right
(`Reading`), and what was returned is what was sent, in order (`Listed`).
`MaskTwice` shows that masking is undone by masking. An echo is compared by counting
pings and pongs (`Count`); `FragmentsTogether` needs that a sender's frames chain up
(`ChainInv`), and holds of one sender: `ws_two` shows that it fails of two.
`BodyReceived` is about frames in pieces, where `recv_msg` loses bytes: the
invariant (`StreamInv`) says that what is in the socket and in each piece in flight
are consecutive runs of the bytes sent (`Pieces`), that the mask of the receiver is
none or four bytes before what it reads next, that a size below 0 came from eight
bytes of the stream with bit 31 set, and that every body it returned was made so
(`Heard`). The sizes are any that keep the three forms apart (`SizeAssumption`; a
frame is below 2^24 bytes, the bytes of a length that are not modelled being 0
then).

`WebServer_proofs`: the invariants of a connection are proved for one connection
(`GoodConn`) and for all of them together with what the server's own members are
(`IInv`). Two facts make it inductive: the only pattern with a function on a
`FileReader` is "/*", bound to the one made last, because `set_path` writes that
entry whenever it makes a reader; and a connection that holds a function on an older
one found it before (`found`). `BodyMatchesHeader` needs that what a connection
sends was read before the header. From it follow `TypeOK`, `ListeningServed`,
`OneRoutine`, `ReadersFresh` and `BodyMatchesHeader`. `ChosenBest` is
an action property: the lemmas before it show that `Foremost` is an element that
no other one is longer than, or as long with a "?" that it lacks itself, for every
set of patterns, although `Preferred` is not transitive.

`HttpUpload_proofs`: `SetThenGet`, that `set_str` and `get_str` fit for every list
of items and all spellings of keys; `OneItemPerKey`, from the fact that `set_str`
appends only when there is no such key (`OneKey`); `TypeOK` with packets that grow
and sends that fail; `WireFaithful` and `SizesAgree`. For `WireFaithful` the
invariant (`WireInv`) is that at most one coroutine is in the middle of a request,
and that the wire is what was complete before, then the encoding of that request up
to the coroutine's step; `Fits` says that a packet is as it was when the request was
begun unless it was sent already. For `SizesAgree` (`SizesInv`) the chunks on the
wire are whole but the last, whose size is that of the packet that is sent next; its
hypothesis is that packets hold payload, and not sizes or separators, when the
program starts. Both assume that no value of an item is tagged as a size.
`KindAgrees` is about the parser of the receiver: a header is one sequence of lines
of three symbols, in which the line of a key is found where the last item of that
key put it (`LinesTogether`, by induction over the lines, and `FieldTags`), so the
parser reads the kind, the length and the boundary that the items name (`KindRead`).
The invariant (`KindInv`) is that the items of a coroutine's request are what the
first settings of its plan make of them, the last of each key winning whatever its
spelling, and that a packet which is the only part of a plain body is as large as
its plan says when it is sent. The hypothesis, `Announced`, is that a plan sets its
items to what its body is, as a caller of the library has to; TLC evaluates it for
the plans of the run (`PlansAnnounce`).

Only model-checked: the liveness properties and the fairness part of the
refinements (fairness and ENABLED are outside the prover); the safety part of the
refinement for malformed messages and for hasty applications, and of the websocket
connection.

## 5. Findings

Six runs end in a violation on purpose; each checks one sentence of a comment, a
header or a test against what the code does. `findings` in `PROJECT.json` quotes
them: a separator cut behind the last chunk closes a good connection (and
makes a client that waits for every answer report an error of the format); a body that
mentions a header field is misread; the websocket handler's verdict is ignored; a
late answer is taken for the next one; a frame that arrives in pieces is corrupted;
two senders mix their frames.

## 6. Plan

Done: the parser, the connection of the server, both sides of the client, framing,
the websocket connection and its handshake, routing, start and accepting, files and
items, with the runs and proofs above. Left, in this order:

1. Proofs: the safety part of the refinement of `HttpDelivery` by `HttpClient` when
   the application is hasty, where the parser can be behind two answers.
2. `MsgHandler` with several connections inside `WebServer`, so that the routine of a
   url changes while the parts of a message are parsed in detail.
3. Peers that do not wait for answers (pipelining).

## 7. Not modelled

- The destructor of `WebServer`: it deletes what the accept coroutine and the
  connections go on using, and nothing stops them, so there is no order of steps in
  which it is right once the server has started.
- Peers that send a request before the last one is answered: the library's own
  client and its tests do not, and the code only parses one message per packet.
- A send that fails on a connection that works afterwards: what errors co_taro's
  `send` has is not known.
- The conversions of `get` and `set` between numbers and text, `get_file_type`,
  `create_key`, `hex_to_str`, SHA-1, Base64: pure functions of values that no state
  depends on. A server of this library always answers with the key that `open`
  computes.
- Reading files, logging, the test program, build files and the demo pages.
