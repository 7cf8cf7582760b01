----------------------------- MODULE HttpUpload -----------------------------
(***************************************************************************)
(* The sending side of HttpClient (src/http_client.cc): coroutines that    *)
(* make requests item by item and send them, with their bodies, through    *)
(* one client.  Each call of client_->send is a wait, and may fail; then   *)
(* the connection is broken.  A packet is an object that the application   *)
(* owns; send_chunk_body and send_boundary_body change it.                 *)
(*                                                                         *)
(* A coroutine carries out a plan: the items it sets, the kind of its body *)
(* and the packets of the body.  Its control point is                      *)
(*   "set"     sets the items of its request                               *)
(*   "part"    has sent the request, sends the next part of the body       *)
(*   "data"    has sent the size or the flag of a part, inside the call    *)
(*   "done"    has sent all                                                *)
(*   "failed"  a send has failed                                           *)
(***************************************************************************)
EXTENDS HttpMessage

CONSTANTS Workers,     \* the coroutines
          Plans,       \* what they may be up to, a function on Workers
          Packets0,    \* the packets of the application and what is in them at first
          Serial,      \* the plans in which one request is sent after the other
          MaxConnects  \* bound on the connections

Plan == [sets : Seq(Keys \X (Values \cup ({"size of"} \X DOMAIN Packets0))),
         kind : {"NORMAL", "CHUNK", "BOUNDARY"}, boundary : Boundaries \cup {NoBoundary},
         parts : Seq(DOMAIN Packets0), url : Urls]

ASSUME PlanAssumption == /\ \A p \in Plans : p \in [Workers -> Plan]
                         /\ Serial \subseteq Plans
                         /\ MaxConnects \in Nat \ {0}
ASSUME ValueAssumption == \A v \in Values : v[1] # "size of"
ASSUME PacketAssumption == \A p \in DOMAIN Packets0 : Packets0[p] \in Seq(Symbol)

VARIABLES
  plan,      \* what each coroutine does
  pc,        \* where it is
  next,      \* the next item to set or the next part to send
  items,     \* the items of its request
  packets,   \* what is in the packets
  wire,      \* what was sent on this connection
  begun,     \* the requests on it in the order in which they were begun
  meant,     \* what was to be sent on it for them
  broken,    \* the connection has failed
  connects   \* how many connections there were

work == <<plan, pc, next, items>>
link == <<wire, begun, meant, broken, connects>>
vars == <<work, packets, link>>

Init ==
  /\ plan \in Plans
  /\ pc = [w \in Workers |-> "set"]
  /\ next = [w \in Workers |-> 1]
  /\ items = [w \in Workers |-> <<>>]
  /\ packets = Packets0
  /\ wire = <<>>
  /\ begun = <<>>
  /\ meant = <<>>
  /\ broken = FALSE
  /\ connects = 1
-----------------------------------------------------------------------------
\* The coroutine w goes on at step n of where.
Go(w, where, n) == /\ pc' = [pc EXCEPT ![w] = where]
                   /\ next' = [next EXCEPT ![w] = n]

\* client_->send: a send on a broken connection fails, and the caller returns.
Sent(w, symbols, where, n) ==
  \/ /\ ~broken
     /\ wire' = wire \o symbols
     /\ Go(w, where, n)
     /\ UNCHANGED broken
  \/ /\ broken' = TRUE
     /\ Go(w, "failed", 1)
     /\ UNCHANGED wire

\* Mutant of SetItem: what is set is the packet, not its size.
SetItemUnsized(w) ==
  /\ pc[w] = "set"
  /\ next[w] <= Len(plan[w].sets)
  /\ items' = [items EXCEPT ![w] =
                  SetStr(@, plan[w].sets[next[w]][1], plan[w].sets[next[w]][2])]
  /\ Go(w, "set", next[w] + 1)
  /\ UNCHANGED <<plan, packets, link>>

\* set: a size is that of the packet at this moment.
SetItem(w) ==
  LET s == plan[w].sets[next[w]]
  IN /\ pc[w] = "set"
     /\ next[w] <= Len(plan[w].sets)
     /\ items' = [items EXCEPT ![w] = SetStr(@, s[1],
                    IF s[2][1] = "size of" THEN ContentLen(Len(packets[s[2][2]])) ELSE s[2])]
     /\ Go(w, "set", next[w] + 1)
     /\ UNCHANGED <<plan, packets, link>>

\* The body that w means to send.
Meant(w) ==
  LET parts == [i \in DOMAIN plan[w].parts |-> packets[plan[w].parts[i]]]
      all   == Append(parts, Null)
  IN CASE plan[w].kind = "NORMAL" -> FlattenSeq(parts)
       [] plan[w].kind = "CHUNK" ->
            FlattenSeq([i \in DOMAIN all |-> SendChunkBody(all[i])])
       [] plan[w].kind = "BOUNDARY" ->
            FlattenSeq([i \in DOMAIN all |-> SendBoundaryBody(all[i], plan[w].boundary)])

\* send_req.
SendReq(w) ==
  LET header == Serialize(Line(plan[w].url), items[w])
  IN /\ pc[w] = "set"
     /\ next[w] > Len(plan[w].sets)
     /\ plan \in Serial => \A v \in Workers \ {w} : pc[v] \notin {"part", "data"}
     /\ Sent(w, header, "part", 1)
     /\ IF broken' THEN UNCHANGED <<begun, meant>>
        ELSE begun' = Append(begun, w) /\ meant' = meant \o header \o Meant(w)
     /\ UNCHANGED <<plan, items, packets, connects>>

\* The packet of the next part, and what is in it; the empty packet after the last.
More(w)   == next[w] <= Len(plan[w].parts)
Packet(w) == plan[w].parts[next[w]]
Body(w)   == IF More(w) THEN packets[Packet(w)] ELSE Null

\* The coroutine's next part after a call that has sent one.
After(w) == IF More(w) THEN next[w] + 1 ELSE next[w]

\* send_body refuses an empty packet; a request without a body is done at once.
SendBody(w) ==
  /\ pc[w] = "part"
  /\ plan[w].kind = "NORMAL"
  /\ IF Body(w) # Null
     THEN Sent(w, Body(w), "part", After(w))
     ELSE /\ Go(w, IF More(w) THEN "part" ELSE "done", After(w))
          /\ UNCHANGED <<wire, broken>>
  /\ UNCHANGED <<plan, items, packets, begun, meant, connects>>

\* Mutant of SendSize: the separator is counted as well.
SendSizeCountsLine(w) ==
  /\ pc[w] = "part"
  /\ plan[w].kind # "NORMAL"
  /\ Body(w) # Null
  /\ Sent(w, <<IF plan[w].kind = "CHUNK" THEN Size(Len(Body(w)) + 2)
                                         ELSE Flag(plan[w].boundary)>> \o HTTP_SEP,
          "data", next[w])
  /\ UNCHANGED <<plan, items, packets, begun, meant, connects>>

\* The first send of send_chunk_body or send_boundary_body: the size or the flag.
SendSize(w) ==
  LET head == IF plan[w].kind = "CHUNK" THEN Size(Len(Body(w)))
                                        ELSE Flag(plan[w].boundary)
  IN /\ pc[w] = "part"
     /\ plan[w].kind # "NORMAL"
     /\ Body(w) # Null
     /\ Sent(w, <<head>> \o HTTP_SEP, "data", next[w])
     /\ UNCHANGED <<plan, items, packets, begun, meant, connects>>

\* Mutant of SendLast: an empty part is not sent at all.
SendLastOmits(w) ==
  /\ pc[w] = "part"
  /\ plan[w].kind # "NORMAL"
  /\ Body(w) = Null
  /\ Go(w, IF More(w) THEN "part" ELSE "done", After(w))
  /\ UNCHANGED <<plan, items, packets, link>>

\* The only send of such a call when there is no packet, or an empty one.
SendLast(w) ==
  /\ pc[w] = "part"
  /\ plan[w].kind # "NORMAL"
  /\ Body(w) = Null
  /\ Sent(w, IF plan[w].kind = "CHUNK" THEN SendChunkBody(Null)
                                      ELSE SendBoundaryBody(Null, plan[w].boundary),
          IF More(w) THEN "part" ELSE "done", After(w))
  /\ UNCHANGED <<plan, items, packets, begun, meant, connects>>

\* The second send: the separator is appended to the packet itself, whether it can
\* be sent or not.
SendData(w) ==
  LET p == Packet(w)
  IN /\ pc[w] = "data"
     /\ packets' = [packets EXCEPT ![p] = @ \o HTTP_SEP]
     /\ Sent(w, packets'[p], "part", next[w] + 1)
     /\ UNCHANGED <<plan, items, begun, meant, connects>>

\* The application connects a new client, and those that failed send their
\* requests again, with the items and packets that they have.
Reconnect ==
  /\ broken
  /\ \A w \in Workers : pc[w] \in {"set", "done", "failed"}
  /\ connects < MaxConnects
  /\ connects' = connects + 1
  /\ broken' = FALSE
  /\ wire' = <<>>
  /\ begun' = <<>>
  /\ meant' = <<>>
  /\ pc' = [w \in Workers |-> IF pc[w] = "failed" THEN "set" ELSE pc[w]]
  /\ next' = [w \in Workers |-> IF pc[w] = "failed" THEN Len(plan[w].sets) + 1 ELSE next[w]]
  /\ UNCHANGED <<plan, items, packets>>

Ended == /\ \A w \in Workers : pc[w] \in {"done", "failed"}
         /\ UNCHANGED vars

Next == \/ \E w \in Workers : SetItem(w) \/ SendReq(w) \/ SendBody(w) \/ SendSize(w)
                                \/ SendLast(w) \/ SendData(w)
        \/ Reconnect
        \/ Ended

Spec == Init /\ [][Next]_vars
-----------------------------------------------------------------------------
(* Properties. *)

\* Type correctness of the coroutines, their packets and the connection.
TypeOK ==
  /\ plan \in Plans
  /\ pc \in [Workers -> {"set", "part", "data", "done", "failed"}]
  /\ next \in [Workers -> Nat \ {0}]
  /\ items \in [Workers -> Seq(Item)]
  /\ DOMAIN packets = DOMAIN Packets0
  /\ \A p \in DOMAIN packets : packets[p] \in Seq(Symbol)
  /\ begun \in Seq(Workers)
  /\ broken \in BOOLEAN
  /\ connects \in 1 .. MaxConnects

\* No request ever holds two items with the same key, whatever the spelling, so
\* that the parser, which takes the first it finds, reads what was set last.
OneItemPerKey ==
  \A w \in Workers : \A i, j \in DOMAIN items[w] :
    Lower[items[w][i].key] = Lower[items[w][j].key] => i = j

\* Every packet is used once in the plan.
Distinct ==
  \A v, w \in Workers : \A i \in DOMAIN plan[v].parts, j \in DOMAIN plan[w].parts :
    plan[v].parts[i] = plan[w].parts[j] => v = w /\ i = j

\* The value that the item under a key, in whatever spelling, is set to last: one, or
\* none.
SetLast(p, key) ==
  LET under == {i \in DOMAIN p.sets : Lower[p.sets[i][1]] = key}
  IN {p.sets[i][2] : i \in {i \in under : \A j \in under : j <= i}}

\* The items of a plan announce its body.
Announced(p) ==
  LET coding == SetLast(p, "transfer-encoding")
      type   == SetLast(p, "content-type")
      length == SetLast(p, "content-length")
      chunked == \E v \in coding : v[1] = "chunked"
  IN CASE p.kind = "CHUNK"    -> chunked
       [] p.kind = "BOUNDARY" -> /\ ~chunked
                                 /\ type = {<<"multipart", p.boundary>>}
                                 /\ p.boundary # NoBoundary
       [] p.kind = "NORMAL"   ->
            /\ ~chunked
            /\ \A v \in type : v[1] # "multipart"
            /\ \/ Len(p.parts) = 1 /\ length = {<<"size of", p.parts[1]>>}
               \/ p.parts = <<>> /\ \A v \in length :
                                      v[1] \in {"length", "size of"} => v = <<"length", 0>>

\* The kind and the length that the receiver's parser finds in a header are those
\* of the body that follows, if its packets are not shared: what was set last.
KindAgrees ==
  Distinct => \A i \in DOMAIN begun :
    LET w == begun[i]
        p == ParseHeader(Push(NewParser(-1), Serialize(Line(plan[w].url), items[w]))).p
    IN /\ p.type = plan[w].kind
       /\ p.type = "NORMAL" => p.bodyBytes = Len(Meant(w))
       /\ p.type = "BOUNDARY" => p.boundary = plan[w].boundary

\* The size of a chunk is that of the data behind it, also when the packet has
\* grown since it was first sent: behind the data and its separator is another
\* size, a request, or the end of what was sent.
SizesAgree ==
  plan \in Serial => \A i \in DOMAIN wire :
    LET n   == wire[i][2]
        end == i + 2 + n
    IN wire[i][1] = "size" /\ n > 0 /\ Len(wire) > i + 2
         => /\ Len(wire) >= end + 2
            /\ SubSeq(wire, end + 1, end + 2) = HTTP_SEP
            /\ Len(wire) > end + 2 => wire[end + 3][1] \in {"size", "line"}

\* When one request is sent after the other and no packet is used twice, what is on
\* the wire is the beginning of what the encodings of the requests say, with the
\* packets as they were when their request was begun; and all of it when the last
\* one is done.
WireFaithful ==
  plan \in Serial /\ Distinct =>
    /\ IsPrefix(wire, meant)
    /\ ~broken /\ (\A i \in DOMAIN begun : pc[begun[i]] = "done") => wire = meant
=============================================================================
