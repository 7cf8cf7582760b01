---------------------------- MODULE HttpMessage ----------------------------
(***************************************************************************)
(* The items of a request or response (src/http_proto.cc) and the header   *)
(* that is made of them (include/impl/http_proto_impl.h).  body_items_ is a *)
(* sequence of pairs of a key and a value; the same code stands twice, for *)
(* HttpRequest and for HttpResponse.  Keys are compared by string_compare, *)
(* which ignores their case: the server asks for "sec-websocket-key", and  *)
(* the client sets "Sec-WebSocket-Key".                                    *)
(***************************************************************************)
EXTENDS HttpSender

CONSTANTS Keys,    \* the keys of items, as they are spelled
          Lower,   \* to_lower
          Values   \* the values of items, tuples of a tag and what it stands for

ASSUME KeyAssumption == Lower \in [Keys -> STRING]

\* A length may be that of a packet that grows.
Item == [key : Keys, value : Values \cup ({"length"} \X Nat)]

\* What get_str leaves when there is no such item: false and no value.
NoValue == <<"none">>

\* string_compare in find_if: the first item with that key, 0 if there is none.
Find(items, key) == First({i \in DOMAIN items : Lower[items[i].key] = Lower[key]})

\* contains.
HasKey(items, key) == Find(items, key) # 0

\* Mutant of SetStr: an item is added for a key that is there already.
SetStrAdds(items, key, value) == Append(items, [key |-> key, value |-> value])

\* set_str: a key that is there keeps its spelling and its place.
SetStr(items, key, value) ==
  IF HasKey(items, key)
  THEN [items EXCEPT ![Find(items, key)].value = value]
  ELSE Append(items, [key |-> key, value |-> value])

\* get_str: the value of the item that set_str would change.
GetStr(items, key) ==
  IF HasKey(items, key) THEN items[Find(items, key)].value ELSE NoValue

\* The line of an item, as the parser reads it: only four fields matter to it.
Field(item) ==
  LET key == Lower[item.key]
      tag == item.value[1]
  IN CASE key = "content-length" /\ tag = "length"     -> ContentLen(item.value[2])
       [] key = "transfer-encoding" /\ tag = "chunked" -> Chunked
       [] key = "content-type" /\ tag = "multipart"    -> Multipart(item.value[2])
       [] OTHER                                        -> <<"item", item>>

\* HttpRequestImpl::serialize and HttpResponseImpl::serialize.
Serialize(first, items) == Header(first, [i \in DOMAIN items |-> Field(items[i])])
=============================================================================
