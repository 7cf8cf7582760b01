-------------------------- MODULE HttpUpload_proofs ---------------------------
(***************************************************************************)
(* Theorems about the items of a message (HttpMessage) and about the       *)
(* coroutines that make and send them (HttpUpload), for every set of keys, *)
(* values, packets and plans, and whatever sends fail.                     *)
(***************************************************************************)
EXTENDS HttpUpload, HttpProtoPaser_proofs

\* No two items have the same key.
OneKey(list) ==
  \A i, j \in DOMAIN list : Lower[list[i].key] = Lower[list[j].key] => i = j

\* find_if: 0 exactly when there is no such item, and otherwise the first one.
LEMMA FindResult ==
  ASSUME NEW list \in Seq(Item), NEW key
  PROVE  /\ Find(list, key) \in Nat
         /\ Find(list, key) = 0 <=>
              ~ \E i \in DOMAIN list : Lower[list[i].key] = Lower[key]
         /\ Find(list, key) # 0 =>
              /\ Find(list, key) \in DOMAIN list
              /\ Lower[list[Find(list, key)].key] = Lower[key]
              /\ \A i \in DOMAIN list :
                   Lower[list[i].key] = Lower[key] => Find(list, key) <= i
<1> DEFINE hits == {i \in DOMAIN list : Lower[list[i].key] = Lower[key]}
<1>1. hits \in SUBSET (Nat \ {0})
  BY LenProperties
<1>2. Find(list, key) = First(hits)
  BY DEF Find
<1>3. hits # {} => \A i \in hits : First(hits) <= i
  <2>1. SUFFICES ASSUME hits # {} PROVE \A i \in hits : First(hits) <= i
    OBVIOUS
  <2>2. \E m \in hits : \A k \in hits : m =< k
    BY <1>1, <2>1, LeastExists
  <2>3. \A k \in hits : Min(hits) =< k
    BY <2>2 DEF Min
  <2> QED BY <2>1, <2>3 DEF First
<1> QED BY <1>1, <1>2, <1>3, FirstIsHit

\* What set_str makes of the items: one of them is changed, or one is appended.
LEMMA SetStrResult ==
  ASSUME NEW list \in Seq(Item), NEW key \in Keys, NEW value,
         [key |-> key, value |-> value] \in Item
  PROVE  LET f == Find(list, key)
             n == SetStr(list, key, value)
         IN /\ n \in Seq(Item)
            /\ f # 0 => /\ DOMAIN n = DOMAIN list
                        /\ \A i \in DOMAIN list :
                             /\ n[i].key = list[i].key
                             /\ n[i].value = IF i = f THEN value ELSE list[i].value
            /\ f = 0 => /\ DOMAIN n = 1 .. Len(list) + 1
                        /\ \A i \in DOMAIN list : n[i] = list[i]
                        /\ n[Len(list) + 1] = [key |-> key, value |-> value]
<1> DEFINE f == Find(list, key)
           n == SetStr(list, key, value)
           e == [key |-> key, value |-> value]
<1>1. Len(list) \in Nat /\ DOMAIN list = 1 .. Len(list) /\ \A i \in DOMAIN list : list[i] \in Item
  BY LenProperties, ElementOfSeq
<1>2. f \in Nat /\ (f # 0 => f \in DOMAIN list)
  BY FindResult
<1>3. CASE f # 0
  <2>1. n = [list EXCEPT ![f].value = value]
    BY <1>3 DEF SetStr, HasKey
  <2> HIDE DEF f, n
  <2>2. [list[f] EXCEPT !.value = value] \in Item
    BY <1>1, <1>2, <1>3 DEF Item
  <2>3. n \in Seq(Item)
    BY <1>2, <1>3, <2>1, <2>2
  <2>4. /\ DOMAIN n = DOMAIN list
        /\ \A i \in DOMAIN list :
             n[i] = IF i = f THEN [list[f] EXCEPT !.value = value] ELSE list[i]
    BY <2>1
  <2>5. [list[f] EXCEPT !.value = value].key = list[f].key
        /\ [list[f] EXCEPT !.value = value].value = value
    BY <1>1, <1>2, <1>3 DEF Item
  <2> QED BY <1>3, <2>3, <2>4, <2>5 DEF f, n
<1>4. CASE f = 0
  <2>1. n = Append(list, e)
    BY <1>4 DEF SetStr, HasKey
  <2> HIDE DEF f, n, e
  <2>2. e \in Item
    BY DEF e
  <2> QED BY <1>1, <1>4, <2>1, <2>2, AppendProperties DEF f, n, e
<1> QED BY <1>3, <1>4

\* After set_str an item is found under every spelling of its key with the value
\* that was set, and what is found under another key is as before.
THEOREM SetThenGet ==
  ASSUME NEW list \in Seq(Item), NEW key \in Keys, NEW value,
         [key |-> key, value |-> value] \in Item, NEW other \in Keys
  PROVE  GetStr(SetStr(list, key, value), other) =
           IF Lower[other] = Lower[key] THEN value ELSE GetStr(list, other)
<1> DEFINE f == Find(list, key)
           n == SetStr(list, key, value)
           g == Find(n, other)
           b == Find(list, other)
<1>1. /\ n \in Seq(Item)
      /\ f # 0 => /\ DOMAIN n = DOMAIN list
                  /\ \A i \in DOMAIN list :
                       /\ n[i].key = list[i].key
                       /\ n[i].value = IF i = f THEN value ELSE list[i].value
      /\ f = 0 => /\ DOMAIN n = 1 .. Len(list) + 1
                  /\ \A i \in DOMAIN list : n[i] = list[i]
                  /\ n[Len(list) + 1] = [key |-> key, value |-> value]
  BY SetStrResult
<1>2. Len(list) \in Nat /\ DOMAIN list = 1 .. Len(list)
  BY LenProperties
<1>3. /\ f \in Nat
      /\ f = 0 <=> ~ \E i \in DOMAIN list : Lower[list[i].key] = Lower[key]
      /\ f # 0 => /\ f \in DOMAIN list
                  /\ Lower[list[f].key] = Lower[key]
                  /\ \A i \in DOMAIN list : Lower[list[i].key] = Lower[key] => f <= i
  BY FindResult
<1>4. /\ b \in Nat
      /\ b = 0 <=> ~ \E i \in DOMAIN list : Lower[list[i].key] = Lower[other]
      /\ b # 0 => /\ b \in DOMAIN list
                  /\ Lower[list[b].key] = Lower[other]
                  /\ \A i \in DOMAIN list : Lower[list[i].key] = Lower[other] => b <= i
  BY FindResult
<1> HIDE DEF n, f, b
<1>5. /\ g \in Nat
      /\ g = 0 <=> ~ \E i \in DOMAIN n : Lower[n[i].key] = Lower[other]
      /\ g # 0 => /\ g \in DOMAIN n
                  /\ Lower[n[g].key] = Lower[other]
                  /\ \A i \in DOMAIN n : Lower[n[i].key] = Lower[other] => g <= i
  BY <1>1, FindResult
<1> HIDE DEF g
<1>6. GetStr(n, other) = IF g # 0 THEN n[g].value ELSE NoValue
  BY DEF GetStr, HasKey, g
<1>7. GetStr(list, other) = IF b # 0 THEN list[b].value ELSE NoValue
  BY DEF GetStr, HasKey, b
<1>8. CASE Lower[other] = Lower[key]
  <2>1. CASE f # 0
    <3>1. g = f
      <4>1. f \in DOMAIN n /\ Lower[n[f].key] = Lower[other]
        BY <1>1, <1>3, <1>8, <2>1
      <4>2. g # 0 /\ g <= f
        BY <1>5, <4>1
      <4>3. g \in DOMAIN list /\ Lower[list[g].key] = Lower[key]
        BY <1>1, <1>5, <1>8, <2>1, <4>2
      <4>4. f <= g
        BY <1>3, <2>1, <4>3
      <4> QED BY <1>3, <1>5, <4>2, <4>4
    <3> QED BY <1>1, <1>3, <1>6, <1>8, <2>1, <3>1 DEF n
  <2>2. CASE f = 0
    <3>1. n[Len(list) + 1].key = key /\ n[Len(list) + 1].value = value
      BY <1>1, <2>2
    <3>2. g = Len(list) + 1
      BY <1>1, <1>2, <1>3, <1>5, <1>8, <2>2, <3>1
    <3> QED BY <1>2, <1>6, <1>8, <3>1, <3>2 DEF n
  <2> QED BY <2>1, <2>2
<1>9. CASE Lower[other] # Lower[key]
  <2>1. CASE f # 0
    <3>1. g = b
      <4>1. DOMAIN n = DOMAIN list /\ \A i \in DOMAIN list : n[i].key = list[i].key
        BY <1>1, <2>1
      <4>2. g # 0 => b # 0 /\ b <= g
        BY <1>4, <1>5, <4>1
      <4>3. b # 0 => g # 0 /\ g <= b
        BY <1>4, <1>5, <4>1
      <4> QED BY <1>4, <1>5, <4>2, <4>3
    <3>2. b # f
      BY <1>3, <1>4, <1>9, <2>1
    <3> QED BY <1>1, <1>4, <1>6, <1>7, <1>9, <2>1, <3>1, <3>2 DEF n
  <2>2. CASE f = 0
    <3>1. n[Len(list) + 1].key = key
      BY <1>1, <2>2
    <3>2. g # Len(list) + 1
      BY <1>2, <1>5, <1>9, <3>1
    <3>3. g = b
      <4>1. /\ DOMAIN n = 1 .. Len(list) + 1
            /\ \A i \in DOMAIN list : n[i].key = list[i].key
        BY <1>1, <2>2
      <4>2. g # 0 => g \in DOMAIN list
        BY <1>2, <1>5, <3>2, <4>1
      <4>3. g # 0 => b # 0 /\ b <= g
        BY <1>4, <1>5, <4>1, <4>2
      <4>4. b # 0 => b \in DOMAIN n /\ Lower[n[b].key] = Lower[other]
        BY <1>2, <1>4, <4>1
      <4>5. b # 0 => g # 0 /\ g <= b
        BY <1>5, <4>4
      <4> QED BY <1>4, <1>5, <4>3, <4>5
    <3> QED BY <1>1, <1>4, <1>6, <1>7, <1>9, <2>2, <3>3 DEF n
  <2> QED BY <2>1, <2>2
<1> QED BY <1>8, <1>9

\* set_str adds no second item with a key.
LEMMA SetStrKeepsOne ==
  ASSUME NEW list \in Seq(Item), NEW key \in Keys, NEW value,
         [key |-> key, value |-> value] \in Item, OneKey(list)
  PROVE  OneKey(SetStr(list, key, value))
<1> DEFINE f == Find(list, key)
           n == SetStr(list, key, value)
<1>1. /\ f # 0 => /\ DOMAIN n = DOMAIN list
                  /\ \A i \in DOMAIN list : n[i].key = list[i].key
      /\ f = 0 => /\ DOMAIN n = 1 .. Len(list) + 1
                  /\ \A i \in DOMAIN list : n[i] = list[i]
                  /\ n[Len(list) + 1] = [key |-> key, value |-> value]
  BY SetStrResult
<1>2. Len(list) \in Nat /\ DOMAIN list = 1 .. Len(list)
  BY LenProperties
<1>3. f = 0 => \A i \in DOMAIN list : Lower[list[i].key] # Lower[key]
  BY FindResult
<1> HIDE DEF n, f
<1>4. CASE f # 0
  BY <1>1, <1>4 DEF OneKey, n
<1>5. CASE f = 0
  <2>1. n[Len(list) + 1].key = key
    BY <1>1, <1>5
  <2>2. ASSUME NEW i \in DOMAIN n, NEW j \in DOMAIN n, Lower[n[i].key] = Lower[n[j].key]
        PROVE  i = j
    <3>1. CASE i \in DOMAIN list /\ j \in DOMAIN list
      BY <1>1, <1>5, <2>2, <3>1 DEF OneKey
    <3>2. CASE i = Len(list) + 1 /\ j \in DOMAIN list
      BY <1>1, <1>3, <1>5, <2>1, <2>2, <3>2
    <3>3. CASE j = Len(list) + 1 /\ i \in DOMAIN list
      BY <1>1, <1>3, <1>5, <2>1, <2>2, <3>3
    <3> QED BY <1>1, <1>2, <1>5, <3>1, <3>2, <3>3
  <2> QED BY <2>2 DEF OneKey, n
<1> QED BY <1>4, <1>5

\* The inductive invariant: every request has each key once.
IInv == TypeOK /\ \A w \in Workers : OneKey(items[w])

\* At first nothing is set.
LEMMA InitInvariant == Init => IInv
<1> SUFFICES ASSUME Init PROVE IInv
  OBVIOUS
<1>1. plan \in Plans /\ packets = Packets0 /\ begun = <<>> /\ connects = 1
      /\ pc = [w \in Workers |-> "set"] /\ next = [w \in Workers |-> 1]
      /\ items = [w \in Workers |-> <<>>]
  BY DEF Init
<1>2. broken \in BOOLEAN
  BY Zenon DEF Init
<1>3. items \in [Workers -> Seq(Item)] /\ begun \in Seq(Workers)
  <2>1. <<>> \in Seq(Item) /\ <<>> \in Seq(Workers)
    OBVIOUS
  <2> QED BY <1>1, <2>1
<1>4. TypeOK
  BY <1>1, <1>2, <1>3, PlanAssumption, PacketAssumption DEF TypeOK
<1>5. \A w \in Workers : DOMAIN items[w] = {}
  BY <1>1
<1> QED BY <1>4, <1>5 DEF IInv, OneKey

\* A send changes where the coroutine is, what is on the wire, and whether the
\* connection works.
LEMMA SentType ==
  ASSUME IInv, NEW w \in Workers, NEW symbols, NEW where \in {"part", "data", "done"},
         NEW n \in Nat \ {0}, Sent(w, symbols, where, n)
  PROVE  /\ pc' \in [Workers -> {"set", "part", "data", "done", "failed"}]
         /\ next' \in [Workers -> Nat \ {0}]
         /\ broken' \in BOOLEAN
<1>1. /\ pc \in [Workers -> {"set", "part", "data", "done", "failed"}]
      /\ next \in [Workers -> Nat \ {0}]
  BY DEF IInv, TypeOK
<1>2. Go(w, where, n) \/ Go(w, "failed", 1)
  BY DEF Sent
<1>3. broken' \in BOOLEAN
  BY Zenon DEF Sent, IInv, TypeOK
<1> QED BY <1>1, <1>2, <1>3 DEF Go

\* The next part comes behind this one.
LEMMA AfterType ==
  ASSUME IInv, NEW w \in Workers
  PROVE  After(w) \in Nat \ {0} /\ next[w] \in Nat \ {0}
  BY DEF After, IInv, TypeOK

\* An item is set.
LEMMA SetItemStep == ASSUME IInv, NEW w \in Workers, SetItem(w) PROVE IInv'
<1> DEFINE s == plan[w].sets[next[w]]
           v == IF s[2][1] = "size of" THEN ContentLen(Len(packets[s[2][2]])) ELSE s[2]
<1>1. /\ pc[w] = "set" /\ next[w] <= Len(plan[w].sets)
      /\ items' = [items EXCEPT ![w] = SetStr(items[w], s[1], v)]
      /\ Go(w, "set", next[w] + 1)
      /\ UNCHANGED <<plan, packets, begun, broken, connects>>
  BY DEF SetItem, link
<1>2. next[w] \in Nat \ {0} /\ plan[w] \in Plan
  BY PlanAssumption DEF IInv, TypeOK
<1>3. s \in Keys \X (Values \cup ({"size of"} \X DOMAIN Packets0))
  <2>1. plan[w].sets \in Seq(Keys \X (Values \cup ({"size of"} \X DOMAIN Packets0)))
    BY <1>2 DEF Plan
  <2>2. Len(plan[w].sets) \in Nat
    BY <2>1, LenProperties
  <2>3. next[w] <= Len(plan[w].sets)
    BY <1>1
  <2>4. next[w] \in 1 .. Len(plan[w].sets)
    BY <1>2, <2>2, <2>3
  <2> QED BY <2>1, <2>4, ElementOfSeq
<1>4. v \in Values \cup ({"length"} \X Nat)
  <2>1. CASE s[2][1] = "size of"
    <3>1. s[2][2] \in DOMAIN Packets0
      BY <1>3, <2>1, ValueAssumption
    <3>2. Len(packets[s[2][2]]) \in Nat
      BY <3>1, LenProperties DEF IInv, TypeOK
    <3> QED BY <2>1, <3>2 DEF ContentLen
  <2>2. CASE s[2][1] # "size of"
    BY <1>3, <2>2
  <2> QED BY <2>1, <2>2
<1>5. s[1] \in Keys
  BY <1>3
<1> HIDE DEF s, v
<1>6. [key |-> s[1], value |-> v] \in Item
  BY <1>4, <1>5 DEF Item
<1>7. items[w] \in Seq(Item) /\ OneKey(items[w]) /\ items \in [Workers -> Seq(Item)]
  BY DEF IInv, TypeOK
<1>8. SetStr(items[w], s[1], v) \in Seq(Item)
  BY <1>5, <1>6, <1>7, SetStrResult
<1>9. OneKey(SetStr(items[w], s[1], v))
  BY <1>5, <1>6, <1>7, SetStrKeepsOne
<1>10. items' \in [Workers -> Seq(Item)]
  BY <1>1, <1>7, <1>8
<1>11. (\A u \in Workers : OneKey(items[u]))'
  <2>1. ASSUME NEW u \in Workers PROVE OneKey(items'[u])
    <3>1. items'[u] = IF u = w THEN SetStr(items[w], s[1], v) ELSE items[u]
      BY <1>1, <1>7
    <3> QED BY <1>9, <3>1 DEF IInv
  <2> QED BY <2>1 DEF OneKey
<1>12. /\ pc' \in [Workers -> {"set", "part", "data", "done", "failed"}]
       /\ next' \in [Workers -> Nat \ {0}]
  BY <1>1, <1>2 DEF Go, IInv, TypeOK
<1>13. TypeOK'
  BY <1>1, <1>10, <1>12 DEF IInv, TypeOK
<1> QED BY <1>11, <1>13 DEF IInv

\* A step that leaves the items and the packets alone keeps the invariant when
\* what it changes has its type.
LEMMA OtherStep ==
  ASSUME IInv, UNCHANGED <<plan, items, packets>>,
         pc' \in [Workers -> {"set", "part", "data", "done", "failed"}],
         next' \in [Workers -> Nat \ {0}], broken' \in BOOLEAN,
         begun' \in Seq(Workers), connects' \in 1 .. MaxConnects
  PROVE  IInv'
<1>1. TypeOK'
  BY DEF IInv, TypeOK
<1>2. \A w \in Workers : OneKey(items'[w])
  BY DEF IInv
<1> QED BY <1>1, <1>2 DEF IInv, OneKey

\* A request is sent.
LEMMA SendReqStep == ASSUME IInv, NEW w \in Workers, SendReq(w) PROVE IInv'
<1> DEFINE header == Serialize(Line(plan[w].url), items[w])
<1>1. Sent(w, header, "part", 1) /\ UNCHANGED <<plan, items, packets, connects>>
  BY DEF SendReq
<1>2. begun' = begun \/ begun' = Append(begun, w)
  BY DEF SendReq
<1>3. begun' \in Seq(Workers)
  <2>1. begun \in Seq(Workers)
    BY DEF IInv, TypeOK
  <2>2. Append(begun, w) \in Seq(Workers)
    BY <2>1, AppendProperties
  <2> QED BY <1>2, <2>1, <2>2
<1> HIDE DEF header
<1>4. /\ pc' \in [Workers -> {"set", "part", "data", "done", "failed"}]
      /\ next' \in [Workers -> Nat \ {0}]
      /\ broken' \in BOOLEAN
  <2>1. "part" \in {"part", "data", "done"} /\ 1 \in Nat \ {0}
    OBVIOUS
  <2> QED BY <1>1, <2>1, SentType
<1>5. connects' \in 1 .. MaxConnects
  BY <1>1 DEF IInv, TypeOK
<1> QED BY <1>1, <1>3, <1>4, <1>5, OtherStep

\* A packet of a body that is neither chunked nor multipart is sent, or refused.
LEMMA SendBodyStep == ASSUME IInv, NEW w \in Workers, SendBody(w) PROVE IInv'
<1>1. UNCHANGED <<plan, items, packets, begun, connects>>
  BY DEF SendBody
<1>2. After(w) \in Nat \ {0}
  BY AfterType
<1>3. CASE Body(w) # Null
  <2>1. Sent(w, Body(w), "part", After(w))
    BY <1>3 DEF SendBody
  <2>2. "part" \in {"part", "data", "done"}
    OBVIOUS
  <2>3. /\ pc' \in [Workers -> {"set", "part", "data", "done", "failed"}]
        /\ next' \in [Workers -> Nat \ {0}]
        /\ broken' \in BOOLEAN
    BY <1>2, <2>1, <2>2, SentType
  <2> QED BY <1>1, <2>3, OtherStep DEF IInv, TypeOK
<1>4. CASE Body(w) = Null
  <2>1. Go(w, IF More(w) THEN "part" ELSE "done", After(w))
    BY <1>4 DEF SendBody
  <2>2. broken' = broken
    BY <1>4 DEF SendBody
  <2>3. broken' \in BOOLEAN
    BY Zenon, <2>2 DEF IInv, TypeOK
  <2>4. /\ pc' \in [Workers -> {"set", "part", "data", "done", "failed"}]
        /\ next' \in [Workers -> Nat \ {0}]
    BY <1>2, <2>1 DEF Go, IInv, TypeOK
  <2> QED BY <1>1, <2>3, <2>4, OtherStep DEF IInv, TypeOK
<1> QED BY <1>3, <1>4

\* The size of a chunk or the flag of a part is sent.
LEMMA SendSizeStep == ASSUME IInv, NEW w \in Workers, SendSize(w) PROVE IInv'
<1>1. PICK symbols : Sent(w, symbols, "data", next[w])
  BY DEF SendSize
<1>2. UNCHANGED <<plan, items, packets, begun, connects>>
  BY DEF SendSize
<1>3. "data" \in {"part", "data", "done"} /\ next[w] \in Nat \ {0}
  BY AfterType
<1>4. /\ pc' \in [Workers -> {"set", "part", "data", "done", "failed"}]
      /\ next' \in [Workers -> Nat \ {0}]
      /\ broken' \in BOOLEAN
  BY <1>1, <1>3, SentType
<1> QED BY <1>2, <1>4, OtherStep DEF IInv, TypeOK

\* The end of a streamed body is sent.
LEMMA SendLastStep == ASSUME IInv, NEW w \in Workers, SendLast(w) PROVE IInv'
<1> DEFINE where == IF More(w) THEN "part" ELSE "done"
<1>1. PICK symbols : Sent(w, symbols, where, After(w))
  BY DEF SendLast
<1>2. UNCHANGED <<plan, items, packets, begun, connects>>
  BY DEF SendLast
<1>3. where \in {"part", "data", "done"} /\ After(w) \in Nat \ {0}
  BY AfterType
<1> HIDE DEF where
<1>4. /\ pc' \in [Workers -> {"set", "part", "data", "done", "failed"}]
      /\ next' \in [Workers -> Nat \ {0}]
      /\ broken' \in BOOLEAN
  BY <1>1, <1>3, SentType
<1> QED BY <1>2, <1>4, OtherStep DEF IInv, TypeOK

\* A packet grows by the separator, which is made of symbols, and is sent.
LEMMA SendDataStep == ASSUME IInv, NEW w \in Workers, SendData(w) PROVE IInv'
<1> DEFINE p == Packet(w)
<1>1. packets' = [packets EXCEPT ![p] = packets[p] \o HTTP_SEP]
  BY DEF SendData
<1>2. PICK symbols : Sent(w, symbols, "part", next[w] + 1)
  BY DEF SendData
<1>3. UNCHANGED <<plan, items, begun, connects>>
  BY DEF SendData
<1>4. "part" \in {"part", "data", "done"} /\ next[w] + 1 \in Nat \ {0}
  BY AfterType
<1>5. /\ pc' \in [Workers -> {"set", "part", "data", "done", "failed"}]
      /\ next' \in [Workers -> Nat \ {0}]
      /\ broken' \in BOOLEAN
  BY <1>2, <1>4, SentType
<1> HIDE DEF p
<1>6. /\ DOMAIN packets' = DOMAIN Packets0
      /\ \A q \in DOMAIN packets' : packets'[q] \in Seq(Symbol)
  <2>1. DOMAIN packets = DOMAIN Packets0 /\ \A q \in DOMAIN packets : packets[q] \in Seq(Symbol)
    BY DEF IInv, TypeOK
  <2>2. \A s \in Seq(Symbol) : s \o HTTP_SEP \in Seq(Symbol)
    BY Patterns, ConcatProperties
  <2> QED BY <1>1, <2>1, <2>2
<1>7. TypeOK'
  BY <1>3, <1>5, <1>6 DEF IInv, TypeOK
<1>8. \A u \in Workers : OneKey(items'[u])
  BY <1>3 DEF IInv
<1> QED BY <1>7, <1>8 DEF IInv, OneKey

\* Another client is connected.
LEMMA ReconnectStep == ASSUME IInv, Reconnect PROVE IInv'
<1>1. /\ connects < MaxConnects /\ connects' = connects + 1 /\ begun' = <<>>
      /\ pc' = [w \in Workers |-> IF pc[w] = "failed" THEN "set" ELSE pc[w]]
      /\ next' = [w \in Workers |-> IF pc[w] = "failed" THEN Len(plan[w].sets) + 1
                                                      ELSE next[w]]
      /\ UNCHANGED <<plan, items, packets>>
  BY DEF Reconnect
<1>2. broken' \in BOOLEAN
  BY Zenon DEF Reconnect
<1>3. connects' \in 1 .. MaxConnects
  BY <1>1, PlanAssumption DEF IInv, TypeOK
<1>4. begun' \in Seq(Workers)
  <2>1. <<>> \in Seq(Workers)
    OBVIOUS
  <2> QED BY <1>1, <2>1
<1>5. \A w \in Workers : Len(plan[w].sets) + 1 \in Nat \ {0}
  <2>1. ASSUME NEW w \in Workers PROVE Len(plan[w].sets) \in Nat
    <3>1. plan[w] \in Plan
      BY PlanAssumption DEF IInv, TypeOK
    <3> QED BY <3>1, LenProperties DEF Plan
  <2> QED BY <2>1
<1>6. pc' \in [Workers -> {"set", "part", "data", "done", "failed"}]
  BY <1>1 DEF IInv, TypeOK
<1>7. next' \in [Workers -> Nat \ {0}]
  BY <1>1, <1>5 DEF IInv, TypeOK
<1> QED BY <1>1, <1>2, <1>3, <1>4, <1>6, <1>7, OtherStep

\* Every step of the coroutines keeps the invariant.
LEMMA NextInvariant == ASSUME IInv, [Next]_vars PROVE IInv'
<1>1. CASE \E w \in Workers : SetItem(w)
  BY <1>1, SetItemStep
<1>2. CASE \E w \in Workers : SendReq(w)
  BY <1>2, SendReqStep
<1>3. CASE \E w \in Workers : SendBody(w)
  BY <1>3, SendBodyStep
<1>4. CASE \E w \in Workers : SendSize(w)
  BY <1>4, SendSizeStep
<1>5. CASE \E w \in Workers : SendLast(w)
  BY <1>5, SendLastStep
<1>6. CASE \E w \in Workers : SendData(w)
  BY <1>6, SendDataStep
<1>7. CASE Reconnect
  BY <1>7, ReconnectStep
<1>8. CASE UNCHANGED vars
  <2>1. /\ UNCHANGED <<plan, items, packets>>
        /\ pc' = pc /\ next' = next /\ begun' = begun /\ connects' = connects
    BY <1>8 DEF vars, work, link
  <2>2. broken' = broken
    BY <1>8 DEF vars, link
  <2>3. broken' \in BOOLEAN
    BY Zenon, <2>2 DEF IInv, TypeOK
  <2> QED BY <2>1, <2>3, OtherStep DEF IInv, TypeOK
<1> QED BY <1>1, <1>2, <1>3, <1>4, <1>5, <1>6, <1>7, <1>8 DEF Next, Ended

\* The invariant holds of every behaviour.
LEMMA AlwaysInvariant == Spec => []IInv
<1>1. Init => IInv
  BY InitInvariant
<1>2. IInv /\ [Next]_vars => IInv'
  BY NextInvariant
<1> QED BY <1>1, <1>2, PTL DEF Spec

\* TypeOK: whatever is set and sent, and whichever sends fail, the packets stay
\* sequences of symbols and the coroutines stay at their steps.
THEOREM UploadTypeCorrect == Spec => []TypeOK
<1>1. IInv => TypeOK
  BY DEF IInv
<1> QED BY <1>1, AlwaysInvariant, PTL

\* OneItemPerKey: no request of any coroutine holds two items whose keys differ
\* only in case.
THEOREM AlwaysOneItemPerKey == Spec => []OneItemPerKey
<1>1. IInv => OneItemPerKey
  BY DEF IInv, OneKey, OneItemPerKey
<1> QED BY <1>1, AlwaysInvariant, PTL
-----------------------------------------------------------------------------
\* What may be on the wire: the symbols, and the fields of headers.
Sym == Symbol \cup {Field(item) : item \in Item}

\* The packet of the i-th part of the body of p when pk is in the packets, and what
\* is sent for it.
PartOf(p, pk, i) == IF i <= Len(p.parts) THEN pk[p.parts[i]] ELSE Null
EncodedPart(p, pk, i) ==
  CASE p.kind = "NORMAL"   -> PartOf(p, pk, i)
    [] p.kind = "CHUNK"    -> SendChunkBody(PartOf(p, pk, i))
    [] p.kind = "BOUNDARY" -> SendBoundaryBody(PartOf(p, pk, i), p.boundary)

\* A body that is not plain has one more, the end.
PartCount(p) == IF p.kind = "NORMAL" THEN Len(p.parts) ELSE Len(p.parts) + 1

\* encs are those from the k-th on.
EncodedFrom(encs, p, pk, k) ==
  /\ encs \in Seq(Seq(Sym))
  /\ Len(encs) = PartCount(p)
  /\ \A i \in k .. Len(encs) : encs[i] = EncodedPart(p, pk, i)

\* What a coroutine does.
LEMMA PlanFacts ==
  ASSUME IInv, NEW w \in Workers
  PROVE  /\ plan[w] \in Plan /\ Len(plan[w].parts) \in Nat
         /\ DOMAIN plan[w].parts = 1 .. Len(plan[w].parts)
         /\ \A i \in 1 .. Len(plan[w].parts) : plan[w].parts[i] \in DOMAIN packets
         /\ plan[w].boundary \in Boundaries \cup {NoBoundary}
         /\ plan[w].url \in Urls
         /\ plan[w].kind \in {"NORMAL", "CHUNK", "BOUNDARY"}
<1>1. plan[w] \in Plan /\ DOMAIN packets = DOMAIN Packets0
  BY PlanAssumption DEF IInv, TypeOK
<1>2. plan[w].parts \in Seq(DOMAIN Packets0)
  BY <1>1 DEF Plan
<1>3. \A i \in 1 .. Len(plan[w].parts) : plan[w].parts[i] \in DOMAIN packets
  BY <1>1, <1>2, ElementOfSeq
<1>4. Len(plan[w].parts) \in Nat /\ DOMAIN plan[w].parts = 1 .. Len(plan[w].parts)
  BY <1>2, LenProperties
<1>5. /\ plan[w].boundary \in Boundaries \cup {NoBoundary}
      /\ plan[w].url \in Urls
      /\ plan[w].kind \in {"NORMAL", "CHUNK", "BOUNDARY"}
  BY <1>1 DEF Plan
<1> QED BY <1>1, <1>3, <1>4, <1>5

\* The symbols are symbols of the wire.
LEMMA WireSymbols ==
  /\ \A s \in Seq(Symbol) : s \in Seq(Sym)
  /\ HTTP_SEP \in Seq(Sym)
  /\ \A n \in Int : <<Size(n)>> \in Seq(Sym)
  /\ \A b \in Boundaries \cup {NoBoundary} :
       <<Flag(b)>> \in Seq(Sym) /\ <<Flag(b), Dashes>> \in Seq(Sym)
  /\ \A u \in Urls : <<Line(u)>> \in Seq(Sym)
<1>1. Symbol \subseteq Sym
  BY DEF Sym
<1>2. \A s \in Seq(Symbol) : s \in Seq(Sym)
  BY <1>1, SeqMonotonic
<1>3. \A n \in Int : Size(n) \in Symbol
  BY DEF Size, Symbol
<1>4. \A b \in Boundaries \cup {NoBoundary} : Flag(b) \in Symbol
  BY DEF Flag, Symbol
<1>5. \A u \in Urls : Line(u) \in Symbol
  BY DEF Line, Symbol
<1>6. Dashes \in Symbol
  BY DEF Symbol
<1>7. ASSUME NEW a \in Symbol PROVE <<a>> \in Seq(Sym)
  BY <1>1
<1>8. ASSUME NEW a \in Symbol PROVE <<a, Dashes>> \in Seq(Sym)
  BY <1>1, <1>6
<1> QED BY <1>2, <1>3, <1>4, <1>5, <1>7, <1>8, Patterns

\* The encodings of a part, and how they end.
LEMMA EncodedType ==
  ASSUME IInv, NEW w \in Workers, NEW i \in Nat \ {0}
  PROVE  /\ PartOf(plan[w], packets, i) \in Seq(Symbol)
         /\ EncodedPart(plan[w], packets, i) \in Seq(Sym)
<1> DEFINE p == plan[w]
           c == PartOf(p, packets, i)
<1>1. c \in Seq(Symbol)
  <2>1. CASE i <= Len(p.parts)
    <3>1. p.parts[i] \in DOMAIN packets
      BY <2>1, PlanFacts
    <3> QED BY <2>1, <3>1 DEF PartOf, IInv, TypeOK
  <2>2. CASE ~ (i <= Len(p.parts))
    BY <2>2, Patterns DEF PartOf
  <2> QED BY <2>1, <2>2
<1>2. /\ p.boundary \in Boundaries \cup {NoBoundary}
      /\ p.kind \in {"NORMAL", "CHUNK", "BOUNDARY"}
  BY PlanFacts
<1> HIDE DEF p, c
<1>3. c \in Seq(Sym) /\ HTTP_SEP \in Seq(Sym) /\ Len(c) \in Nat
  BY <1>1, WireSymbols, LenProperties
<1>4. SendChunkBody(c) \in Seq(Sym)
  <2>1. <<Size(0)>> \in Seq(Sym) /\ <<Size(Len(c))>> \in Seq(Sym)
    BY <1>3, WireSymbols
  <2> QED BY <1>3, <2>1, ConcatProperties DEF SendChunkBody
<1>5. SendBoundaryBody(c, p.boundary) \in Seq(Sym)
  <2>1. <<Flag(p.boundary)>> \in Seq(Sym) /\ <<Flag(p.boundary), Dashes>> \in Seq(Sym)
    BY <1>2, WireSymbols
  <2> QED BY <1>3, <2>1, ConcatProperties DEF SendBoundaryBody
<1>6. EncodedPart(p, packets, i) \in Seq(Sym)
  <2>1. CASE p.kind = "NORMAL"
    BY <1>3, <2>1 DEF EncodedPart, c
  <2>2. CASE p.kind = "CHUNK"
    BY <1>4, <2>2 DEF EncodedPart, c
  <2>3. CASE p.kind = "BOUNDARY"
    BY <1>5, <2>3 DEF EncodedPart, c
  <2> QED BY <1>2, <2>1, <2>2, <2>3
<1> QED BY <1>1, <1>6 DEF p, c

\* The body that a coroutine means to send is all of its encodings.
LEMMA MeantEncoded ==
  ASSUME IInv, NEW w \in Workers
  PROVE  \E encs, f : /\ EncodedFrom(encs, plan[w], packets, 1)
                      /\ Flattens(f, encs, Sym)
                      /\ Meant(w) = f[Len(encs)]
<1> DEFINE p     == plan[w]
           n     == Len(p.parts)
           parts == [i \in DOMAIN p.parts |-> packets[p.parts[i]]]
           all   == Append(parts, Null)
<1>1. /\ n \in Nat /\ DOMAIN p.parts = 1 .. n
      /\ \A i \in 1 .. n : p.parts[i] \in DOMAIN packets
      /\ p.kind \in {"NORMAL", "CHUNK", "BOUNDARY"}
  BY PlanFacts
<1>2. /\ parts \in Seq(Seq(Symbol)) /\ Len(parts) = n
      /\ \A i \in 1 .. n : parts[i] = PartOf(p, packets, i)
  <2>1. \A i \in 1 .. n : packets[p.parts[i]] \in Seq(Symbol)
    BY <1>1 DEF IInv, TypeOK
  <2> HIDE DEF n
  <2> QED BY <1>1, <2>1 DEF PartOf, n
<1>3. /\ Len(all) = n + 1 /\ DOMAIN all = 1 .. n + 1
      /\ \A i \in 1 .. n + 1 : all[i] = PartOf(p, packets, i)
  <2> HIDE DEF parts, n
  <2>1. /\ all \in Seq(Seq(Symbol)) /\ Len(all) = n + 1
        /\ \A i \in 1 .. n : all[i] = parts[i]
        /\ all[n + 1] = Null
    BY <1>1, <1>2, Patterns, AppendProperties
  <2>2. PartOf(p, packets, n + 1) = Null
    BY <1>1 DEF PartOf, n
  <2> QED BY <1>1, <1>2, <2>1, <2>2, LenProperties
<1>4. \A i \in 1 .. n + 1 : EncodedPart(p, packets, i) \in Seq(Sym)
  BY <1>1, EncodedType
<1>5. CASE p.kind = "NORMAL"
  <2>1. Meant(w) = FlattenSeq(parts)
    BY <1>5 DEF Meant
  <2>2. \A i \in 1 .. n : parts[i] = EncodedPart(p, packets, i)
    BY <1>2, <1>5 DEF EncodedPart
  <2> HIDE DEF parts, n
  <2>3. parts \in Seq(Seq(Sym))
    <3>1. \A i \in 1 .. Len(parts) : parts[i] \in Seq(Sym)
      BY <1>1, <1>2, <1>4, <2>2
    <3>2. DOMAIN parts = 1 .. Len(parts) /\ Len(parts) \in Nat /\ parts = [i \in 1 .. Len(parts) |-> parts[i]]
      BY <1>2, LenProperties
    <3> QED BY <3>1, <3>2, IsASeq
  <2>4. EncodedFrom(parts, p, packets, 1)
    BY <1>2, <1>5, <2>2, <2>3 DEF EncodedFrom, PartCount, n
  <2>5. PICK f : Flattens(f, parts, Sym)
    BY <2>3, FlattensExists
  <2> QED BY <2>1, <2>3, <2>4, <2>5, FlattenResult
<1>6. CASE p.kind # "NORMAL"
  <2> DEFINE encs == [i \in DOMAIN all |->
                        IF p.kind = "CHUNK" THEN SendChunkBody(all[i])
                                            ELSE SendBoundaryBody(all[i], p.boundary)]
  <2>1. Meant(w) = FlattenSeq(encs)
    <3>1. CASE p.kind = "CHUNK"
      <4>1. Meant(w) = FlattenSeq([i \in DOMAIN all |-> SendChunkBody(all[i])])
        BY <3>1 DEF Meant
      <4> QED BY <3>1, <4>1
    <3>2. CASE p.kind = "BOUNDARY"
      <4>1. Meant(w) = FlattenSeq([i \in DOMAIN all |-> SendBoundaryBody(all[i], p.boundary)])
        BY <3>2 DEF Meant
      <4> QED BY <3>2, <4>1
    <3> QED BY <1>1, <1>6, <3>1, <3>2
  <2> HIDE DEF all, n
  <2>2. \A i \in 1 .. n + 1 : encs[i] = EncodedPart(p, packets, i)
    BY <1>1, <1>3, <1>6 DEF EncodedPart
  <2>3. encs = [i \in 1 .. n + 1 |-> encs[i]]
    BY <1>3
  <2> HIDE DEF encs
  <2>4. encs \in Seq(Seq(Sym)) /\ Len(encs) = n + 1
    <3>1. \A i \in 1 .. n + 1 : encs[i] \in Seq(Sym)
      BY <1>4, <2>2
    <3> QED BY <1>1, <2>3, <3>1, FunctionIsSeq
  <2>5. EncodedFrom(encs, p, packets, 1)
    BY <1>6, <2>2, <2>4 DEF EncodedFrom, PartCount, n
  <2>6. PICK f : Flattens(f, encs, Sym)
    BY <2>4, FlattensExists
  <2> QED BY <2>1, <2>4, <2>5, <2>6, FlattenResult
<1> QED BY <1>5, <1>6

\* When the coroutine of plan p is at step k of where and pk is in the packets: wr
\* holds what came before it and the encodings up to here, and with the others it
\* will be mt.
Fits(p, pk, where, k, wr, mt) ==
  \E base, encs, f :
    /\ base \in Seq(Sym) /\ EncodedFrom(encs, p, pk, k) /\ Flattens(f, encs, Sym)
    /\ mt = base \o f[Len(encs)]
    /\ k <= Len(p.parts) + 1
    /\ where = "part" => wr = base \o f[k - 1]
    /\ where = "data" => /\ k <= Len(p.parts)
                         /\ wr \o (PartOf(p, pk, k) \o HTTP_SEP) = base \o f[k]

\* Then wr is a beginning of mt.
LEMMA FitsPrefix ==
  ASSUME NEW p \in Plan, NEW pk, NEW where \in {"part", "data"}, NEW k \in Nat \ {0},
         NEW wr \in Seq(Sym), NEW mt, Fits(p, pk, where, k, wr, mt),
         PartOf(p, pk, k) \in Seq(Symbol)
  PROVE  mt \in Seq(Sym) /\ IsPrefix(wr, mt)
<1> DEFINE n == Len(p.parts)
           c == PartOf(p, pk, k)
<1>1. n \in Nat
  BY LenProperties DEF Plan
<1>0. PICK base \in Seq(Sym) :
        \E encs, f :
          /\ EncodedFrom(encs, p, pk, k) /\ Flattens(f, encs, Sym)
          /\ mt = base \o f[Len(encs)]
          /\ k <= n + 1
          /\ where = "part" => wr = base \o f[k - 1]
          /\ where = "data" => k <= n /\ wr \o (c \o HTTP_SEP) = base \o f[k]
  BY DEF Fits
<1>2. PICK encs, f :
        /\ EncodedFrom(encs, p, pk, k) /\ Flattens(f, encs, Sym)
        /\ mt = base \o f[Len(encs)]
        /\ k <= n + 1
        /\ where = "part" => wr = base \o f[k - 1]
        /\ where = "data" => k <= n /\ wr \o (c \o HTTP_SEP) = base \o f[k]
  BY <1>0
<1>3. encs \in Seq(Seq(Sym)) /\ (Len(encs) = n \/ Len(encs) = n + 1)
  BY <1>2 DEF EncodedFrom, PartCount
<1>4. c \o HTTP_SEP \in Seq(Sym)
  BY WireSymbols, ConcatProperties
<1> HIDE DEF n, c
<1>5. \A i \in 0 .. Len(encs) : f[i] \in Seq(Sym) /\ Begins(f[i], f[Len(encs)], Sym)
  BY <1>2, <1>3, FlattensBegins DEF Flattens
<1>6. CASE where = "part"
  <2>1. k - 1 \in 0 .. Len(encs)
    BY <1>1, <1>2, <1>3
  <2>2. Begins(wr, mt, Sym)
    BY <1>2, <1>5, <1>6, <2>1, BeginsBehind
  <2> QED BY <2>2, BeginsIsPrefix
<1>7. CASE where = "data"
  <2>1. k \in 0 .. Len(encs)
    BY <1>1, <1>2, <1>3, <1>7
  <2>2. Begins(base \o f[k], mt, Sym)
    BY <1>2, <1>5, <2>1, BeginsBehind
  <2>3. Begins(wr, mt, Sym)
    BY <1>2, <1>4, <1>7, <2>2, BeginsFurther
  <2> QED BY <2>3, BeginsIsPrefix
<1> QED BY <1>6, <1>7

\* A part is sent at once.
LEMMA FitsPart ==
  ASSUME NEW p \in Plan, NEW pk, NEW k \in Nat \ {0}, NEW wr, NEW mt,
         Fits(p, pk, "part", k, wr, mt), k <= Len(p.parts)
  PROVE  Fits(p, pk, "part", k + 1, wr \o EncodedPart(p, pk, k), mt)
<1> DEFINE n == Len(p.parts)
           e == EncodedPart(p, pk, k)
<1>1. n \in Nat
  BY LenProperties DEF Plan
<1>0. PICK base \in Seq(Sym) :
        \E encs, f :
          /\ EncodedFrom(encs, p, pk, k) /\ Flattens(f, encs, Sym)
          /\ mt = base \o f[Len(encs)]
          /\ wr = base \o f[k - 1]
  BY DEF Fits
<1>2. PICK encs, f :
        /\ EncodedFrom(encs, p, pk, k) /\ Flattens(f, encs, Sym)
        /\ mt = base \o f[Len(encs)]
        /\ wr = base \o f[k - 1]
  BY <1>0
<1>3. encs \in Seq(Seq(Sym)) /\ (Len(encs) = n \/ Len(encs) = n + 1)
      /\ \A i \in k .. Len(encs) : encs[i] = EncodedPart(p, pk, i)
  BY <1>2 DEF EncodedFrom, PartCount
<1>4. EncodedFrom(encs, p, pk, k + 1)
  BY <1>2 DEF EncodedFrom
<1>5. k <= n
  OBVIOUS
<1> HIDE DEF n
<1>6. k \in 1 .. Len(encs) /\ k \in k .. Len(encs) /\ k - 1 \in 0 .. Len(encs)
  BY <1>1, <1>3, <1>5
<1>7. encs[k] = e /\ encs[k] \in Seq(Sym) /\ f[k] = f[k - 1] \o encs[k] /\ f[k - 1] \in Seq(Sym)
  BY <1>2, <1>3, <1>6, ElementOfSeq DEF Flattens
<1> HIDE DEF e
<1>8. wr \o e = base \o f[k]
  <2>1. PICK g \in Seq(Sym), x \in Seq(Sym) : g = f[k - 1] /\ x = e /\ f[k] = g \o x
    BY <1>7
  <2>2. wr = base \o g
    BY <1>2, <2>1
  <2>3. (base \o g) \o x = base \o (g \o x)
    BY ConcatAssociative
  <2> QED BY <2>1, <2>2, <2>3
<1>9. (k + 1) - 1 = k /\ k + 1 <= n + 1
  BY <1>1, <1>5
<1> QED BY <1>2, <1>4, <1>8, <1>9 DEF Fits, n, e

\* Behind the last part only the end is to be sent.
LEMMA FitsEnd ==
  ASSUME NEW p \in Plan, NEW pk, NEW k \in Nat \ {0}, NEW wr, NEW mt,
         Fits(p, pk, "part", k, wr, mt), ~ (k <= Len(p.parts))
  PROVE  /\ p.kind = "NORMAL" => wr = mt
         /\ p.kind # "NORMAL" => wr \o EncodedPart(p, pk, k) = mt
<1> DEFINE n == Len(p.parts)
           e == EncodedPart(p, pk, k)
<1>1. n \in Nat
  BY LenProperties DEF Plan
<1>0. PICK base \in Seq(Sym) :
        \E encs, f :
          /\ EncodedFrom(encs, p, pk, k) /\ Flattens(f, encs, Sym)
          /\ mt = base \o f[Len(encs)]
          /\ k <= n + 1
          /\ wr = base \o f[k - 1]
  BY DEF Fits
<1>2. PICK encs, f :
        /\ EncodedFrom(encs, p, pk, k) /\ Flattens(f, encs, Sym)
        /\ mt = base \o f[Len(encs)]
        /\ k <= n + 1
        /\ wr = base \o f[k - 1]
  BY <1>0
<1>3. ~ (k <= n)
  OBVIOUS
<1> HIDE DEF n
<1>4. k - 1 = n /\ k = n + 1
  BY <1>1, <1>2, <1>3
<1>5. CASE p.kind = "NORMAL"
  <2>1. Len(encs) = n
    BY <1>2, <1>5 DEF EncodedFrom, PartCount, n
  <2> QED BY <1>2, <1>4, <1>5, <2>1
<1>6. CASE p.kind # "NORMAL"
  <2>1. /\ Len(encs) = k /\ encs \in Seq(Seq(Sym))
        /\ \A i \in k .. Len(encs) : encs[i] = EncodedPart(p, pk, i)
    BY <1>2, <1>4, <1>6 DEF EncodedFrom, PartCount, n
  <2>2. k \in 1 .. Len(encs) /\ k \in k .. Len(encs) /\ k - 1 \in 0 .. Len(encs)
    BY <2>1
  <2>3. encs[k] = e /\ encs[k] \in Seq(Sym) /\ f[k] = f[k - 1] \o encs[k] /\ f[k - 1] \in Seq(Sym)
    BY <1>2, <2>1, <2>2, ElementOfSeq DEF Flattens
  <2> HIDE DEF e
  <2>4. wr \o e = base \o f[k]
    <3>1. PICK g \in Seq(Sym), x \in Seq(Sym) : g = f[k - 1] /\ x = e /\ f[k] = g \o x
      BY <2>3
    <3>2. wr = base \o g
      BY <1>2, <3>1
    <3>3. (base \o g) \o x = base \o (g \o x)
      BY ConcatAssociative, SMTT(30)
    <3> QED BY <3>1, <3>2, <3>3
  <2> QED BY <1>2, <1>6, <2>1, <2>4 DEF e
<1> QED BY <1>5, <1>6

\* The size or the flag of a part is sent first,
LEMMA FitsSize ==
  ASSUME NEW p \in Plan, NEW pk, NEW k \in Nat \ {0}, NEW wr \in Seq(Sym), NEW mt,
         Fits(p, pk, "part", k, wr, mt), p.kind # "NORMAL",
         PartOf(p, pk, k) \in Seq(Symbol), PartOf(p, pk, k) # Null
  PROVE  LET head == IF p.kind = "CHUNK" THEN Size(Len(PartOf(p, pk, k))) ELSE Flag(p.boundary)
         IN /\ wr \o (<<head>> \o HTTP_SEP) \in Seq(Sym)
            /\ Fits(p, pk, "data", k, wr \o (<<head>> \o HTTP_SEP), mt)
<1> DEFINE n == Len(p.parts)
           c == PartOf(p, pk, k)
           e == EncodedPart(p, pk, k)
           head == IF p.kind = "CHUNK" THEN Size(Len(c)) ELSE Flag(p.boundary)
           h == <<head>> \o HTTP_SEP
           d == c \o HTTP_SEP
<1>1. n \in Nat /\ p.boundary \in Boundaries \cup {NoBoundary} /\ p.kind \in {"NORMAL", "CHUNK", "BOUNDARY"}
  BY LenProperties DEF Plan
<1>0. PICK base \in Seq(Sym) :
        \E encs, f :
          /\ EncodedFrom(encs, p, pk, k) /\ Flattens(f, encs, Sym)
          /\ mt = base \o f[Len(encs)]
          /\ k <= n + 1
          /\ wr = base \o f[k - 1]
  BY DEF Fits
<1>2. PICK encs, f :
        /\ EncodedFrom(encs, p, pk, k) /\ Flattens(f, encs, Sym)
        /\ mt = base \o f[Len(encs)]
        /\ k <= n + 1
        /\ wr = base \o f[k - 1]
  BY <1>0
<1>3. k <= n
  BY DEF PartOf
<1>4. /\ encs \in Seq(Seq(Sym)) /\ Len(encs) = n + 1
      /\ \A i \in k .. Len(encs) : encs[i] = EncodedPart(p, pk, i)
  BY <1>2 DEF EncodedFrom, PartCount
<1>5. c \in Seq(Sym) /\ HTTP_SEP \in Seq(Sym) /\ <<head>> \in Seq(Sym) /\ h \in Seq(Sym) /\ d \in Seq(Sym)
  <2>1. c \in Seq(Sym) /\ HTTP_SEP \in Seq(Sym)
    BY WireSymbols
  <2>2. Len(c) \in Int
    BY LenProperties
  <2> HIDE DEF c
  <2>3. <<Size(Len(c))>> \in Seq(Sym) /\ <<Flag(p.boundary)>> \in Seq(Sym)
    BY <1>1, <2>2, WireSymbols
  <2>4. <<head>> \in Seq(Sym)
    BY <2>3
  <2> HIDE DEF head
  <2> QED BY <2>1, <2>4, ConcatProperties
<1>6. e = ((<<head>> \o HTTP_SEP) \o c) \o HTTP_SEP
  <2>1. CASE p.kind = "CHUNK"
    BY <2>1 DEF EncodedPart, SendChunkBody
  <2>2. CASE p.kind = "BOUNDARY"
    BY <2>2 DEF EncodedPart, SendBoundaryBody
  <2> QED BY <1>1, <2>1, <2>2
<1> HIDE DEF n
<1>7. k \in 1 .. Len(encs) /\ k \in k .. Len(encs) /\ k - 1 \in 0 .. Len(encs)
  BY <1>1, <1>3, <1>4
<1>8. encs[k] = e /\ f[k] = f[k - 1] \o encs[k] /\ f[k - 1] \in Seq(Sym)
  BY <1>2, <1>4, <1>7 DEF Flattens
<1> HIDE DEF e, c, head
<1>9. e = h \o d
  <2>1. PICK x \in Seq(Sym), y \in Seq(Sym), z \in Seq(Sym) :
               x = h /\ y = c /\ z = HTTP_SEP
    BY <1>5
  <2>2. (x \o y) \o z = x \o (y \o z)
    BY ConcatAssociative, SMTT(30)
  <2>3. e = (x \o y) \o z /\ d = y \o z
    BY <1>6, <2>1
  <2> QED BY <2>1, <2>2, <2>3
<1> HIDE DEF h, d
<1>10. (wr \o h) \o d = base \o f[k]
  <2>1. PICK g \in Seq(Sym), x \in Seq(Sym), y \in Seq(Sym) :
               /\ g = f[k - 1] /\ x = h /\ y = d /\ f[k] = g \o (x \o y)
    BY <1>5, <1>8, <1>9
  <2>2. wr = base \o g
    BY <1>2, <2>1
  <2>3. (wr \o x) \o y = wr \o (x \o y)
    BY ConcatAssociative, SMTT(30)
  <2>4. PICK z \in Seq(Sym) : z = x \o y
    BY ConcatProperties
  <2>5. (base \o g) \o z = base \o (g \o z)
    BY ConcatAssociative, SMTT(60)
  <2> QED BY <2>1, <2>2, <2>3, <2>4, <2>5
<1>11. wr \o h \in Seq(Sym)
  BY <1>5, ConcatProperties
<1>12. Fits(p, pk, "data", k, wr \o h, mt)
  <2>1. (wr \o h) \o (PartOf(p, pk, k) \o HTTP_SEP) = base \o f[k]
    BY <1>10 DEF d, c
  <2> QED BY <1>2, <1>3, <2>1 DEF Fits, n
<1> QED BY <1>11, <1>12 DEF h, head, c

\* and then the packet with the separator, which stays in it: no other part of the
\* body is in that packet.
LEMMA FitsData ==
  ASSUME NEW p \in Plan, NEW pk, NEW new, NEW k \in Nat \ {0}, NEW wr, NEW mt,
         Fits(p, pk, "data", k, wr, mt),
         \A i \in k + 1 .. Len(p.parts) : new[p.parts[i]] = pk[p.parts[i]]
  PROVE  Fits(p, new, "part", k + 1, wr \o (PartOf(p, pk, k) \o HTTP_SEP), mt)
<1> DEFINE n == Len(p.parts)
<1>1. n \in Nat
  BY LenProperties DEF Plan
<1>0. PICK base \in Seq(Sym) :
        \E encs, f :
          /\ EncodedFrom(encs, p, pk, k) /\ Flattens(f, encs, Sym)
          /\ mt = base \o f[Len(encs)]
          /\ k <= n
          /\ wr \o (PartOf(p, pk, k) \o HTTP_SEP) = base \o f[k]
  BY DEF Fits
<1>2. PICK encs, f :
        /\ EncodedFrom(encs, p, pk, k) /\ Flattens(f, encs, Sym)
        /\ mt = base \o f[Len(encs)]
        /\ k <= n
        /\ wr \o (PartOf(p, pk, k) \o HTTP_SEP) = base \o f[k]
  BY <1>0
<1>3. \A i \in Nat : i >= k + 1 => PartOf(p, new, i) = PartOf(p, pk, i)
  BY <1>1 DEF PartOf
<1>4. \A i \in Nat : i >= k + 1 => EncodedPart(p, new, i) = EncodedPart(p, pk, i)
  BY <1>3 DEF EncodedPart
<1>5. EncodedFrom(encs, p, new, k + 1)
  <2>1. /\ encs \in Seq(Seq(Sym)) /\ Len(encs) = PartCount(p)
        /\ \A i \in k .. Len(encs) : encs[i] = EncodedPart(p, pk, i)
    BY <1>2 DEF EncodedFrom
  <2>2. Len(encs) \in Nat
    BY <2>1, LenProperties
  <2>3. \A i \in k + 1 .. Len(encs) : encs[i] = EncodedPart(p, new, i)
    BY <1>4, <2>1, <2>2
  <2> QED BY <2>1, <2>3 DEF EncodedFrom
<1> HIDE DEF n
<1>6. (k + 1) - 1 = k /\ k + 1 <= n + 1
  BY <1>1, <1>2
<1> QED BY <1>2, <1>5, <1>6 DEF Fits, n

\* In the middle of sending a request.
Active(w) == pc[w] \in {"part", "data"}

\* One request after the other: what is on the wire, and what of it is missing.
WireInv ==
  /\ \A v, w \in Workers : Active(v) /\ Active(w) => v = w
  /\ \A w \in Workers : Active(w) => \E i \in DOMAIN begun : begun[i] = w
  /\ wire \in Seq(Sym) /\ meant \in Seq(Sym)
  /\ IsPrefix(wire, meant)
  /\ ~broken /\ (\A w \in Workers : ~Active(w)) => wire = meant
  /\ ~broken => \A w \in Workers :
                  Active(w) => Fits(plan[w], packets, pc[w], next[w], wire, meant)

\* The header of a request is made of what may be on the wire.
LEMMA HeaderType ==
  ASSUME IInv, NEW w \in Workers
  PROVE  Serialize(Line(plan[w].url), items[w]) \in Seq(Sym)
<1> DEFINE list   == items[w]
           fields == [i \in DOMAIN list |-> Field(list[i])]
           lines  == [i \in DOMAIN fields |-> <<fields[i]>> \o HTTP_SEP]
<1>1. list \in Seq(Item) /\ Len(list) \in Nat /\ DOMAIN list = 1 .. Len(list)
  BY LenProperties DEF IInv, TypeOK
<1>2. \A i \in DOMAIN list : fields[i] \in Sym
  <2>1. \A i \in DOMAIN list : list[i] \in Item
    BY <1>1, ElementOfSeq
  <2> QED BY <2>1 DEF Sym
<1>3. HTTP_SEP \in Seq(Sym) /\ <<Line(plan[w].url)>> \in Seq(Sym)
  BY WireSymbols, PlanFacts
<1>4. DOMAIN fields = 1 .. Len(list)
  BY <1>1
<1> HIDE DEF fields
<1>5. lines \in Seq(Seq(Sym))
  <2>1. ASSUME NEW i \in 1 .. Len(list) PROVE <<fields[i]>> \o HTTP_SEP \in Seq(Sym)
    <3>1. fields[i] \in Sym
      BY <1>1, <1>2
    <3>2. <<fields[i]>> \in Seq(Sym)
      BY <3>1
    <3> QED BY <1>3, <3>2, ConcatProperties
  <2>2. lines = [i \in 1 .. Len(list) |-> lines[i]]
    BY <1>4
  <2>3. \A i \in 1 .. Len(list) : lines[i] \in Seq(Sym)
    BY <1>4, <2>1
  <2> HIDE DEF lines
  <2> QED BY <1>1, <2>2, <2>3, FunctionIsSeq
<1>6. FlattenSeq(lines) \in Seq(Sym)
  BY <1>5, FlattenType
<1>7. Serialize(Line(plan[w].url), list) =
        <<Line(plan[w].url)>> \o HTTP_SEP \o FlattenSeq(lines) \o HTTP_SEP
  BY DEF Serialize, Header, fields, list
<1> HIDE DEF lines
<1> QED BY <1>3, <1>6, <1>7, ConcatProperties DEF list

\* At first nothing is sent.
LEMMA InitWire == Init => WireInv
<1> SUFFICES ASSUME Init PROVE WireInv
  OBVIOUS
<1>1. wire = <<>> /\ meant = <<>> /\ pc = [w \in Workers |-> "set"]
  BY DEF Init
<1>2. <<>> \in Seq(Sym)
  OBVIOUS
<1>3. IsPrefix(wire, meant)
  BY <1>1, <1>2, BeginsItself, BeginsIsPrefix
<1>4. \A w \in Workers : ~Active(w)
  BY <1>1 DEF Active
<1> QED BY <1>1, <1>2, <1>3, <1>4 DEF WireInv

\* A send that fails: the coroutine stops, and nothing more comes on the wire.
LEMMA FailWire ==
  ASSUME IInv, WireInv, NEW w \in Workers, broken' = TRUE, Go(w, "failed", 1),
         UNCHANGED <<wire, meant, begun>>
  PROVE  WireInv'
<1>1. pc \in [Workers -> {"set", "part", "data", "done", "failed"}]
  BY DEF IInv, TypeOK
<1>2. \A v \in Workers : Active(v)' => Active(v)
  BY <1>1 DEF Go, Active
<1> QED BY <1>2 DEF WireInv

\* A send that succeeds within a request.
LEMMA ActiveWire ==
  ASSUME IInv, IInv', WireInv, NEW w \in Workers, NEW where \in {"part", "data"}, NEW n \in Nat \ {0},
         Go(w, where, n), UNCHANGED plan, \A v \in Workers : Active(v) => v = w,
         \E i \in DOMAIN begun' : begun'[i] = w,
         wire' \in Seq(Sym), Fits(plan[w], packets', where, n, wire', meant')
  PROVE  WireInv'
<1>1. pc \in [Workers -> {"set", "part", "data", "done", "failed"}] /\ next \in [Workers -> Nat \ {0}]
  BY DEF IInv, TypeOK
<1>2. pc'[w] = where /\ next'[w] = n /\ \A v \in Workers : v # w => pc'[v] = pc[v]
  BY <1>1 DEF Go
<1>3. \A v \in Workers : Active(v)' => v = w
  BY <1>2 DEF Active
<1>4. Active(w)'
  BY <1>2 DEF Active
<1>5. plan[w] \in Plan /\ PartOf(plan[w], packets', n) \in Seq(Symbol)
  <2>1. DOMAIN packets' = DOMAIN packets /\ \A q \in DOMAIN packets' : packets'[q] \in Seq(Symbol)
    BY DEF IInv, TypeOK
  <2>2. n <= Len(plan[w].parts) => plan[w].parts[n] \in DOMAIN packets'
    BY <2>1, PlanFacts
  <2>3. PartOf(plan[w], packets', n) \in Seq(Symbol)
    BY <2>1, <2>2, Patterns DEF PartOf
  <2> QED BY <2>3, PlanFacts
<1>6. meant' \in Seq(Sym) /\ IsPrefix(wire', meant')
  BY <1>5, FitsPrefix
<1>7. \A v \in Workers : Active(v)' => Fits(plan[v], packets', pc'[v], next'[v], wire', meant')
  BY <1>2, <1>3
<1>8. (\A u, v \in Workers : Active(u) /\ Active(v) => u = v)'
  BY <1>3
<1>9. \A v \in Workers : Active(v)' => \E i \in DOMAIN begun' : begun'[i] = v
  BY <1>3
<1> QED BY <1>4, <1>6, <1>7, <1>8, <1>9 DEF WireInv

\* The end of a request: all that was meant is on the wire.
LEMMA DoneWire ==
  ASSUME IInv, WireInv, NEW w \in Workers, NEW n, Go(w, "done", n), UNCHANGED meant,
         \A v \in Workers : Active(v) => v = w, wire' = meant
  PROVE  WireInv'
<1>1. pc \in [Workers -> {"set", "part", "data", "done", "failed"}]
  BY DEF IInv, TypeOK
<1>2. \A v \in Workers : ~Active(v)'
  BY <1>1 DEF Go, Active
<1>3. meant \in Seq(Sym)
  BY DEF WireInv
<1>4. IsPrefix(wire', meant')
  BY <1>3, BeginsItself, BeginsIsPrefix
<1> QED BY <1>2, <1>3, <1>4 DEF WireInv

\* A step that sends nothing and changes nobody who is sending.
LEMMA QuietWire ==
  ASSUME IInv, WireInv, UNCHANGED <<plan, packets, link>>,
         \A w \in Workers : (pc'[w] = pc[w] /\ next'[w] = next[w]) \/ (~Active(w) /\ ~Active(w)')
  PROVE  WireInv'
<1>1. \A w \in Workers : (Active(w)' <=> Active(w)) /\ (Active(w) => pc'[w] = pc[w] /\ next'[w] = next[w])
  BY DEF Active
<1>2. UNCHANGED <<wire, begun, meant, broken>>
  BY DEF link
<1>3. \A w \in Workers : ~broken /\ Active(w)' =>
         Fits(plan'[w], packets', pc'[w], next'[w], wire', meant')
  BY <1>1, <1>2 DEF WireInv
<1>4. /\ (\A v, w \in Workers : Active(v) /\ Active(w) => v = w)'
      /\ (\A w \in Workers : Active(w) => \E i \in DOMAIN begun : begun[i] = w)'
  BY <1>1, <1>2 DEF WireInv
<1>5. wire' \in Seq(Sym) /\ meant' \in Seq(Sym) /\ IsPrefix(wire', meant')
  BY <1>2 DEF WireInv
<1>6. ~broken' /\ (\A w \in Workers : ~Active(w)') => wire' = meant'
  BY <1>1, <1>2 DEF WireInv
<1> QED BY <1>2, <1>3, <1>4, <1>5, <1>6 DEF WireInv

\* Another client: nobody is sending, and nothing was sent.
LEMMA ReconnectWire == ASSUME IInv, WireInv, Reconnect PROVE WireInv'
<1>1. /\ wire' = <<>> /\ meant' = <<>>
      /\ \A w \in Workers : pc[w] \in {"set", "done", "failed"}
      /\ pc' = [w \in Workers |-> IF pc[w] = "failed" THEN "set" ELSE pc[w]]
  BY DEF Reconnect
<1>2. <<>> \in Seq(Sym)
  OBVIOUS
<1>3. IsPrefix(wire', meant')
  BY <1>1, <1>2, BeginsItself, BeginsIsPrefix
<1>4. \A w \in Workers : ~Active(w)'
  BY <1>1 DEF Active
<1> QED BY <1>1, <1>2, <1>3, <1>4 DEF WireInv

\* The parts of a step of w that is sending.
LEMMA SendingFacts ==
  ASSUME IInv, WireInv, NEW w \in Workers, Active(w)
  PROVE  /\ \A v \in Workers : Active(v) => v = w
         /\ \E i \in DOMAIN begun : begun[i] = w
         /\ ~broken => Fits(plan[w], packets, pc[w], next[w], wire, meant)
         /\ PartOf(plan[w], packets, next[w]) \in Seq(Symbol)
         /\ Body(w) = PartOf(plan[w], packets, next[w])
         /\ next[w] \in Nat \ {0} /\ plan[w] \in Plan /\ wire \in Seq(Sym)
<1>1. next[w] \in Nat \ {0}
  BY AfterType
<1>2. Body(w) = PartOf(plan[w], packets, next[w])
  BY DEF Body, More, Packet, PartOf
<1> QED BY <1>1, <1>2, EncodedType, PlanFacts DEF WireInv

\* A request is sent; its body is to come.
LEMMA SendReqWire ==
  ASSUME IInv, IInv', WireInv, plan \in Serial, NEW w \in Workers, SendReq(w)
  PROVE  WireInv'
<1> DEFINE header == Serialize(Line(plan[w].url), items[w])
<1>1. /\ pc[w] = "set" /\ \A v \in Workers \ {w} : pc[v] \notin {"part", "data"}
      /\ Sent(w, header, "part", 1)
      /\ IF broken' THEN UNCHANGED <<begun, meant>>
         ELSE begun' = Append(begun, w) /\ meant' = meant \o header \o Meant(w)
      /\ UNCHANGED <<plan, items, packets, connects>>
  BY DEF SendReq
<1>2. header \in Seq(Sym)
  BY HeaderType
<1> HIDE DEF header
<1>3. \A v \in Workers : ~Active(v)
  BY <1>1 DEF Active
<1>4. CASE broken' = TRUE /\ Go(w, "failed", 1) /\ UNCHANGED wire
  BY <1>1, <1>4, FailWire
<1>5. CASE ~broken /\ wire' = wire \o header /\ Go(w, "part", 1) /\ UNCHANGED broken
  <2>1. wire = meant /\ wire \in Seq(Sym)
    BY <1>3, <1>5 DEF WireInv
  <2>2. begun' = Append(begun, w) /\ meant' = wire' \o Meant(w) /\ wire' \in Seq(Sym)
    <3>1. begun' = Append(begun, w) /\ meant' = meant \o header \o Meant(w)
      BY <1>1, <1>5
    <3> QED BY <1>2, <1>5, <2>1, <3>1, ConcatProperties
  <2>3. \E i \in DOMAIN begun' : begun'[i] = w
    <3>1. begun \in Seq(Workers)
      BY DEF IInv, TypeOK
    <3>2. begun' \in Seq(Workers) /\ Len(begun') = Len(begun) + 1 /\ begun'[Len(begun) + 1] = w
      BY <2>2, <3>1, AppendProperties
    <3>3. Len(begun) \in Nat /\ DOMAIN begun' = 1 .. Len(begun')
      BY <3>1, <3>2, LenProperties
    <3>4. Len(begun) + 1 \in DOMAIN begun'
      BY <3>2, <3>3
    <3> QED BY <3>2, <3>4
  <2>4. Fits(plan[w], packets', "part", 1, wire', meant')
    <3>1. PICK encs, f : /\ EncodedFrom(encs, plan[w], packets, 1)
                         /\ Flattens(f, encs, Sym)
                         /\ Meant(w) = f[Len(encs)]
      BY MeantEncoded
    <3>2. 1 <= Len(plan[w].parts) + 1
      BY PlanFacts
    <3>3. wire' = wire' \o f[1 - 1]
      <4>1. f[1 - 1] = <<>>
        BY <3>1 DEF Flattens
      <4> QED BY <2>2, <4>1, ConcatEmptySeq
    <3>4. packets' = packets
      BY <1>1
    <3> QED BY <2>2, <3>1, <3>2, <3>3, <3>4 DEF Fits
  <2>5. \A v \in Workers : Active(v) => v = w
    BY <1>3
  <2>6. UNCHANGED plan /\ Go(w, "part", 1) /\ 1 \in Nat \ {0} /\ "part" \in {"part", "data"}
    BY <1>1, <1>5
  <2> QED BY <2>2, <2>3, <2>4, <2>5, <2>6, ActiveWire
<1> QED BY <1>1, <1>4, <1>5 DEF Sent

\* A packet of a plain body is sent, or there is no other.
LEMMA SendBodyWire ==
  ASSUME IInv, IInv', WireInv, NEW w \in Workers, SendBody(w)
  PROVE  WireInv'
<1> DEFINE p == plan[w]
           k == next[w]
           c == PartOf(p, packets, k)
<1>1. /\ pc[w] = "part" /\ p.kind = "NORMAL"
      /\ UNCHANGED <<plan, items, packets, begun, meant, connects>>
      /\ Active(w)
  BY DEF SendBody, Active
<1>2. /\ \A v \in Workers : Active(v) => v = w
      /\ \E i \in DOMAIN begun : begun[i] = w
      /\ ~broken => Fits(p, packets, "part", k, wire, meant)
      /\ c \in Seq(Symbol) /\ Body(w) = c
      /\ k \in Nat \ {0} /\ p \in Plan /\ wire \in Seq(Sym)
  BY <1>1, SendingFacts
<1>3. EncodedPart(p, packets, k) = c
  BY <1>1 DEF EncodedPart
<1>4. More(w) <=> k <= Len(p.parts)
  BY DEF More
<1>5. More(w) => After(w) = k + 1
  BY DEF After
<1>6. c \in Seq(Sym)
  BY <1>2, WireSymbols
<1>7. ~More(w) => c = Null
  BY <1>4 DEF PartOf
<1>8. k + 1 \in Nat \ {0} /\ "part" \in {"part", "data"}
  BY <1>2
<1>9. CASE c # Null
  <2>1. Sent(w, c, "part", k + 1)
    BY <1>2, <1>5, <1>7, <1>9 DEF SendBody
  <2>2. CASE broken' = TRUE /\ Go(w, "failed", 1) /\ UNCHANGED wire
    BY <1>1, <2>2, FailWire
  <2>3. CASE ~broken /\ wire' = wire \o c /\ Go(w, "part", k + 1) /\ UNCHANGED broken
    <3>1. Fits(p, packets, "part", k + 1, wire \o c, meant)
      BY <1>2, <1>3, <1>4, <1>7, <1>9, <2>3, FitsPart
    <3>2. wire' \in Seq(Sym)
      BY <1>2, <1>6, <2>3, ConcatProperties
    <3> HIDE DEF c, k
    <3>3. Fits(p, packets', "part", k + 1, wire', meant')
      BY <1>1, <2>3, <3>1
    <3> QED BY <1>1, <1>2, <1>8, <2>3, <3>2, <3>3, ActiveWire
  <2> QED BY <2>1, <2>2, <2>3 DEF Sent
<1>10. CASE c = Null /\ More(w)
  <2>1. Go(w, "part", k + 1) /\ UNCHANGED <<wire, broken>>
    BY <1>2, <1>5, <1>10 DEF SendBody
  <2>2. CASE broken
    <3>1. pc \in [Workers -> {"set", "part", "data", "done", "failed"}]
      BY DEF IInv, TypeOK
    <3>2. \A v \in Workers : Active(v)' => Active(v)
      BY <1>1, <2>1, <3>1 DEF Go, Active
    <3> QED BY <1>1, <2>1, <2>2, <3>2 DEF WireInv
  <2>3. CASE ~broken
    <3>1. Fits(p, packets, "part", k + 1, wire \o c, meant)
      BY <1>2, <1>3, <1>4, <1>10, <2>3, FitsPart
    <3>2. wire \o c = wire
      BY <1>2, <1>10, ConcatEmptySeq DEF Null
    <3> HIDE DEF c, k
    <3>3. Fits(p, packets', "part", k + 1, wire', meant')
      BY <1>1, <2>1, <3>1, <3>2
    <3> QED BY <1>1, <1>2, <1>8, <2>1, <3>3, ActiveWire
  <2> QED BY <2>2, <2>3
<1>11. CASE ~More(w)
  <2>1. Go(w, "done", k) /\ UNCHANGED <<wire, broken>>
    BY <1>2, <1>7, <1>11 DEF SendBody, After
  <2>2. CASE broken
    <3>1. pc \in [Workers -> {"set", "part", "data", "done", "failed"}]
      BY DEF IInv, TypeOK
    <3>2. \A v \in Workers : Active(v)' => Active(v)
      BY <1>1, <2>1, <3>1 DEF Go, Active
    <3> QED BY <1>1, <2>1, <2>2, <3>2 DEF WireInv
  <2>3. CASE ~broken
    <3>1. wire = meant
      BY <1>1, <1>2, <1>4, <1>11, <2>3, FitsEnd
    <3> QED BY <1>1, <1>2, <2>1, <3>1, DoneWire
  <2> QED BY <2>2, <2>3
<1> QED BY <1>7, <1>9, <1>10, <1>11

\* The size or the flag of a part is sent.
LEMMA SendSizeWire ==
  ASSUME IInv, IInv', WireInv, NEW w \in Workers, SendSize(w)
  PROVE  WireInv'
<1> DEFINE p == plan[w]
           k == next[w]
           c == PartOf(p, packets, k)
           head == IF p.kind = "CHUNK" THEN Size(Len(c)) ELSE Flag(p.boundary)
           h == <<head>> \o HTTP_SEP
<1>1. /\ pc[w] = "part" /\ p.kind # "NORMAL" /\ Body(w) # Null
      /\ Sent(w, <<IF p.kind = "CHUNK" THEN Size(Len(Body(w))) ELSE Flag(p.boundary)>> \o HTTP_SEP,
              "data", k)
      /\ UNCHANGED <<plan, items, packets, begun, meant, connects>>
      /\ Active(w)
  BY DEF SendSize, Active
<1>2. /\ \A v \in Workers : Active(v) => v = w
      /\ \E i \in DOMAIN begun : begun[i] = w
      /\ ~broken => Fits(p, packets, "part", k, wire, meant)
      /\ c \in Seq(Symbol) /\ Body(w) = c
      /\ k \in Nat \ {0} /\ p \in Plan /\ wire \in Seq(Sym)
  BY <1>1, SendingFacts
<1>3. Sent(w, h, "data", k)
  BY <1>1, <1>2
<1>4. CASE broken' = TRUE /\ Go(w, "failed", 1) /\ UNCHANGED wire
  BY <1>1, <1>4, FailWire
<1>5. CASE ~broken /\ wire' = wire \o h /\ Go(w, "data", k) /\ UNCHANGED broken
  <2>1. wire \o h \in Seq(Sym) /\ Fits(p, packets, "data", k, wire \o h, meant)
    BY <1>1, <1>2, <1>5, FitsSize
  <2> HIDE DEF h, k
  <2>2. Fits(p, packets', "data", k, wire', meant')
    BY <1>1, <1>5, <2>1
  <2>3. "data" \in {"part", "data"}
    OBVIOUS
  <2> QED BY <1>1, <1>2, <1>5, <2>1, <2>2, <2>3, ActiveWire
<1> HIDE DEF h
<1> QED BY <1>3, <1>4, <1>5 DEF Sent

\* An empty part, or the end, is sent.
LEMMA SendLastWire ==
  ASSUME IInv, IInv', WireInv, NEW w \in Workers, SendLast(w)
  PROVE  WireInv'
<1> DEFINE p == plan[w]
           k == next[w]
           c == PartOf(p, packets, k)
           e == EncodedPart(p, packets, k)
<1>1. /\ pc[w] = "part" /\ p.kind # "NORMAL" /\ Body(w) = Null
      /\ Sent(w, IF p.kind = "CHUNK" THEN SendChunkBody(Null)
                                     ELSE SendBoundaryBody(Null, p.boundary),
              IF More(w) THEN "part" ELSE "done", After(w))
      /\ UNCHANGED <<plan, items, packets, begun, meant, connects>>
      /\ Active(w)
  BY DEF SendLast, Active
<1>2. /\ \A v \in Workers : Active(v) => v = w
      /\ \E i \in DOMAIN begun : begun[i] = w
      /\ ~broken => Fits(p, packets, "part", k, wire, meant)
      /\ c \in Seq(Symbol) /\ Body(w) = c
      /\ k \in Nat \ {0} /\ p \in Plan /\ wire \in Seq(Sym)
  BY <1>1, SendingFacts
<1>3. e = IF p.kind = "CHUNK" THEN SendChunkBody(Null) ELSE SendBoundaryBody(Null, p.boundary)
  <2>1. p.kind \in {"NORMAL", "CHUNK", "BOUNDARY"} /\ c = Null
    BY <1>1, <1>2, PlanFacts
  <2> QED BY <1>1, <2>1 DEF EncodedPart
<1>4. e \in Seq(Sym)
  BY <1>2, EncodedType
<1>5. Sent(w, e, IF More(w) THEN "part" ELSE "done", After(w))
  BY <1>1, <1>3
<1>6. More(w) <=> k <= Len(p.parts)
  BY DEF More
<1> HIDE DEF c
<1>7. CASE broken' = TRUE /\ Go(w, "failed", 1) /\ UNCHANGED wire
  BY <1>1, <1>7, FailWire
<1>8. CASE /\ ~broken /\ wire' = wire \o e /\ UNCHANGED broken
           /\ Go(w, IF More(w) THEN "part" ELSE "done", After(w))
  <2>1. CASE More(w)
    <3>1. Go(w, "part", k + 1)
      BY <1>8, <2>1 DEF After
    <3>2. Fits(p, packets, "part", k + 1, wire \o e, meant)
      BY <1>2, <1>6, <1>8, <2>1, FitsPart
    <3>3. wire' \in Seq(Sym)
      BY <1>2, <1>4, <1>8, ConcatProperties
    <3>4. k + 1 \in Nat \ {0} /\ "part" \in {"part", "data"}
      BY <1>2
    <3> HIDE DEF e, k
    <3>5. Fits(p, packets', "part", k + 1, wire', meant')
      BY <1>1, <1>8, <3>2
    <3> QED BY <1>1, <1>2, <3>1, <3>3, <3>4, <3>5, ActiveWire
  <2>2. CASE ~More(w)
    <3>1. Go(w, "done", k)
      BY <1>8, <2>2 DEF After
    <3>2. wire \o EncodedPart(p, packets, k) = meant
      <4>1. Fits(p, packets, "part", k, wire, meant) /\ ~ (k <= Len(p.parts))
        BY <1>2, <1>6, <1>8, <2>2
      <4>2. p \in Plan /\ k \in Nat \ {0} /\ p.kind # "NORMAL"
        BY <1>1, <1>2
      <4> HIDE DEF p, k
      <4> QED BY <4>1, <4>2, FitsEnd
    <3> HIDE DEF k
    <3> QED BY <1>1, <1>2, <1>8, <3>1, <3>2, DoneWire
  <2> QED BY <2>1, <2>2
<1> HIDE DEF e
<1> QED BY <1>5, <1>7, <1>8 DEF Sent

\* The packet of a part is sent with the separator that stays in it.
LEMMA SendDataWire ==
  ASSUME IInv, IInv', WireInv, Distinct, NEW w \in Workers, SendData(w)
  PROVE  WireInv'
<1> DEFINE p == plan[w]
           k == next[w]
           c == PartOf(p, packets, k)
           n == Len(p.parts)
<1>1. /\ pc[w] = "data"
      /\ packets' = [packets EXCEPT ![Packet(w)] = packets[Packet(w)] \o HTTP_SEP]
      /\ Sent(w, packets'[Packet(w)], "part", k + 1)
      /\ UNCHANGED <<plan, items, begun, meant, connects>>
      /\ Active(w)
  BY DEF SendData, Active
<1>2. /\ \A v \in Workers : Active(v) => v = w
      /\ \E i \in DOMAIN begun : begun[i] = w
      /\ ~broken => Fits(p, packets, "data", k, wire, meant)
      /\ c \in Seq(Symbol)
      /\ k \in Nat \ {0} /\ p \in Plan /\ wire \in Seq(Sym)
  BY <1>1, SendingFacts
<1>3. n \in Nat /\ DOMAIN p.parts = 1 .. n /\ \A i \in 1 .. n : p.parts[i] \in DOMAIN packets
  BY PlanFacts
<1>4. Packet(w) = p.parts[k]
  BY DEF Packet
<1>5. CASE broken' = TRUE /\ Go(w, "failed", 1) /\ UNCHANGED wire
  BY <1>1, <1>5, FailWire
<1>6. CASE ~broken /\ wire' = wire \o packets'[Packet(w)] /\ Go(w, "part", k + 1) /\ UNCHANGED broken
  <2>1. k <= n
    BY <1>2, <1>6 DEF Fits
  <2>2. k \in 1 .. n /\ c = packets[Packet(w)]
    BY <1>2, <1>3, <1>4, <2>1 DEF PartOf
  <2>3. packets'[Packet(w)] = c \o HTTP_SEP
    BY <1>1, <1>3, <1>4, <2>2
  <2>4. \A i \in k + 1 .. n : packets'[p.parts[i]] = packets[p.parts[i]]
    <3>1. ASSUME NEW i \in k + 1 .. n PROVE p.parts[i] # p.parts[k]
      <4>1. i \in 1 .. n /\ i # k
        BY <1>2, <1>3, <2>2
      <4> QED BY <1>3, <2>2, <4>1 DEF Distinct
    <3> HIDE DEF n, k
    <3> QED BY <1>1, <1>4, <3>1
  <2>5. Fits(p, packets', "part", k + 1, wire \o (c \o HTTP_SEP), meant)
    BY <1>2, <1>6, <2>4, FitsData
  <2>6. wire' \in Seq(Sym)
    <3>1. c \in Seq(Sym) /\ HTTP_SEP \in Seq(Sym)
      BY <1>2, WireSymbols
    <3> HIDE DEF c
    <3> QED BY <1>2, <1>6, <2>3, <3>1, ConcatProperties
  <2>7. k + 1 \in Nat \ {0} /\ "part" \in {"part", "data"}
    BY <1>2
  <2> HIDE DEF c, k
  <2>8. Fits(p, packets', "part", k + 1, wire', meant')
    BY <1>1, <1>6, <2>3, <2>5
  <2> QED BY <1>1, <1>2, <1>6, <2>6, <2>7, <2>8, ActiveWire
<1> QED BY <1>1, <1>5, <1>6 DEF Sent

\* Every step of the coroutines keeps it.
LEMMA NextWire ==
  ASSUME IInv, IInv', WireInv, plan \in Serial, Distinct, [Next]_vars
  PROVE  WireInv'
<1>0. pc \in [Workers -> {"set", "part", "data", "done", "failed"}] /\ next \in [Workers -> Nat \ {0}]
  BY DEF IInv, TypeOK
<1>1. ASSUME NEW w \in Workers, SetItem(w) PROVE WireInv'
  <2>1. pc[w] = "set" /\ Go(w, "set", next[w] + 1) /\ UNCHANGED <<plan, packets, link>>
    BY <1>1 DEF SetItem
  <2>2. \A v \in Workers : (pc'[v] = pc[v] /\ next'[v] = next[v]) \/ (~Active(v) /\ ~Active(v)')
    BY <1>0, <2>1 DEF Go, Active
  <2> QED BY <2>1, <2>2, QuietWire
<1>2. ASSUME NEW w \in Workers, SendReq(w) PROVE WireInv'
  BY <1>2, SendReqWire
<1>3. ASSUME NEW w \in Workers, SendBody(w) PROVE WireInv'
  BY <1>3, SendBodyWire
<1>4. ASSUME NEW w \in Workers, SendSize(w) PROVE WireInv'
  BY <1>4, SendSizeWire
<1>5. ASSUME NEW w \in Workers, SendLast(w) PROVE WireInv'
  BY <1>5, SendLastWire
<1>6. ASSUME NEW w \in Workers, SendData(w) PROVE WireInv'
  BY <1>6, SendDataWire
<1>7. CASE Reconnect
  BY <1>7, ReconnectWire
<1>8. CASE UNCHANGED vars
  <2>1. pc' = pc /\ next' = next /\ UNCHANGED <<plan, packets, link>>
    BY <1>8 DEF vars, work
  <2> QED BY <2>1, QuietWire
<1> QED BY <1>1, <1>2, <1>3, <1>4, <1>5, <1>6, <1>7, <1>8 DEF Next, Ended

\* What a server reads, taken apart by what was meant with it, is what the calls of write_bytes and
\* the chunked sender meant to send: no byte is lost, doubled or put into another call's message
\* as long as the sends run one after the other (WireFaithful).
THEOREM WhatWasMeantIsSent == Spec => []WireFaithful
<1> DEFINE Inv == IInv /\ (plan \in Serial /\ Distinct => WireInv)
<1>1. Init => Inv
  BY InitInvariant, InitWire
<1>2. Inv /\ [Next]_vars => Inv'
  <2> SUFFICES ASSUME Inv, [Next]_vars PROVE Inv'
    OBVIOUS
  <2>1. IInv'
    BY NextInvariant
  <2>2. UNCHANGED plan
    BY DEF Next, SetItem, SendReq, SendBody, SendSize, SendLast, SendData, Reconnect, Ended, vars, work
  <2>3. ASSUME (plan \in Serial /\ Distinct)' PROVE WireInv'
    <3>1. plan \in Serial /\ Distinct
      BY <2>2, <2>3 DEF Distinct
    <3> QED BY <2>1, <3>1, NextWire
  <2> QED BY <2>1, <2>3
<1>3. Inv => WireFaithful
  <2> SUFFICES ASSUME Inv, plan \in Serial, Distinct
               PROVE  /\ IsPrefix(wire, meant)
                      /\ ~broken /\ (\A i \in DOMAIN begun : pc[begun[i]] = "done") => wire = meant
    BY DEF WireFaithful
  <2>1. WireInv
    OBVIOUS
  <2>2. (\A i \in DOMAIN begun : pc[begun[i]] = "done") => \A w \in Workers : ~Active(w)
    BY <2>1 DEF WireInv, Active
  <2> QED BY <2>1, <2>2 DEF WireInv
<1> QED BY <1>1, <1>2, <1>3, PTL DEF Spec

-----------------------------------------------------------------------------

\* The size of a chunk with data is at i,
ChunkAt(s, i) == i \in DOMAIN s /\ s[i][1] = "size" /\ s[i][2] > 0

\* the chunk and its separator end at this place,
ChunkEnd(s, i) == i + 4 + s[i][2]

\* and the chunk is there, with something that can come behind it.
EndsAt(s, e) ==
  /\ e <= Len(s)
  /\ s[e - 1] = CR /\ s[e] = LF
  /\ e < Len(s) => s[e + 1][1] \in {"size", "line"}
ChunkWhole(s, i) == EndsAt(s, ChunkEnd(s, i))

\* Every chunk is whole; the last thing in s is one.
ChunksWhole(s) == \A i \in Nat : ChunkAt(s, i) => ChunkWhole(s, i)
EndsInChunk(s) == \E i \in Nat : ChunkAt(s, i) /\ ChunkEnd(s, i) = Len(s)

\* What is a size on the wire has a number.
LEMMA SizeSymbol == ASSUME NEW a \in Sym, a[1] = "size" PROVE a[2] \in Int
<1>1. CASE a \in Symbol
  BY <1>1, SymbolValue
<1>2. CASE \E item \in Item : a = Field(item)
  <2>1. PICK item \in Item : a = Field(item)
    BY <1>2
  <2>2. \/ a = ContentLen(item.value[2]) \/ a = Chunked
        \/ a = Multipart(item.value[2]) \/ a = <<"item", item>>
    BY <2>1 DEF Field
  <2>3. a[1] \in {"length", "chunked", "multipart", "item"}
    BY <2>2 DEF ContentLen, Chunked, Multipart
  <2> QED BY <2>3
<1> QED BY <1>1, <1>2 DEF Sym

\* The end of a chunk is behind its beginning.
LEMMA ChunkEndType ==
  ASSUME NEW s \in Seq(Sym), NEW i \in Nat, ChunkAt(s, i)
  PROVE  /\ i \in 1 .. Len(s) /\ Len(s) \in Nat
         /\ s[i][2] \in Nat \ {0} /\ ChunkEnd(s, i) \in Nat /\ ChunkEnd(s, i) > i + 4
<1>1. i \in 1 .. Len(s) /\ Len(s) \in Nat
  BY LenProperties DEF ChunkAt
<1>2. s[i] \in Sym
  BY <1>1, ElementOfSeq
<1>3. s[i][2] \in Int
  BY <1>2, SizeSymbol DEF ChunkAt
<1>4. s[i][2] \in Nat \ {0}
  BY <1>3 DEF ChunkAt
<1> HIDE DEF ChunkAt
<1>5. PICK d \in Nat \ {0} : d = s[i][2]
  BY <1>4
<1>6. ChunkEnd(s, i) = i + 4 + d
  BY <1>5 DEF ChunkEnd
<1> QED BY <1>1, <1>4, <1>6

\* What is where when t is put behind s.
LEMMA Behind ==
  ASSUME NEW s \in Seq(Sym), NEW t \in Seq(Sym)
  PROVE  /\ s \o t \in Seq(Sym) /\ Len(s \o t) = Len(s) + Len(t)
         /\ DOMAIN (s \o t) = 1 .. Len(s) + Len(t)
         /\ DOMAIN s = 1 .. Len(s) /\ DOMAIN t = 1 .. Len(t)
         /\ Len(s) \in Nat /\ Len(t) \in Nat /\ (t # <<>> => Len(t) > 0)
         /\ \A i \in 1 .. Len(s) : (s \o t)[i] = s[i]
         /\ \A i \in 1 .. Len(t) : (s \o t)[Len(s) + i] = t[i]
<1> DEFINE u == s \o t
           m == Len(s)
           n == Len(t)
<1>1. /\ u \in Seq(Sym) /\ Len(u) = m + n
      /\ \A i \in 1 .. m + n : u[i] = IF i <= m THEN s[i] ELSE t[i - m]
  BY ConcatProperties
<1>2. m \in Nat /\ n \in Nat /\ DOMAIN s = 1 .. m /\ DOMAIN t = 1 .. n /\ (t # <<>> => n > 0)
  BY LenProperties, EmptySeq
<1>3. DOMAIN u = 1 .. m + n
  BY <1>1, LenProperties
<1> HIDE DEF u, m, n
<1>4. \A i \in 1 .. m : u[i] = s[i]
  BY <1>1, <1>2
<1>5. ASSUME NEW i \in 1 .. n PROVE u[m + i] = t[i]
  <2>1. m + i \in 1 .. m + n /\ ~ (m + i <= m) /\ (m + i) - m = i
    BY <1>2
  <2>2. u[m + i] = t[(m + i) - m]
    BY <1>1, <2>1
  <2> QED BY <2>1, <2>2
<1> QED BY <1>1, <1>2, <1>3, <1>4, <1>5 DEF u, m, n

\* A chunk of s \o t is one of s or one of t.
LEMMA ChunkWhere ==
  ASSUME NEW s \in Seq(Sym), NEW t \in Seq(Sym), NEW i \in Nat, ChunkAt(s \o t, i)
  PROVE  \/ ChunkAt(s, i)
         \/ \E j \in 1 .. Len(t) : i = Len(s) + j /\ ChunkAt(t, j)
<1> DEFINE u == s \o t
           m == Len(s)
           n == Len(t)
<1>1. /\ DOMAIN u = 1 .. m + n /\ DOMAIN s = 1 .. m /\ DOMAIN t = 1 .. n
      /\ m \in Nat /\ n \in Nat
      /\ \A k \in 1 .. m : u[k] = s[k]
      /\ \A k \in 1 .. n : u[m + k] = t[k]
  BY Behind
<1>2. ChunkAt(u, i)
  OBVIOUS
<1> HIDE DEF u, m, n
<1>3. i \in 1 .. m + n
  BY <1>1, <1>2 DEF ChunkAt
<1>4. CASE i \in 1 .. m
  <2>1. u[i] = s[i] /\ i \in DOMAIN s
    BY <1>1, <1>4
  <2> QED BY <1>2, <2>1 DEF ChunkAt
<1>5. CASE i \notin 1 .. m
  <2>1. PICK j \in 1 .. n : i = m + j
    <3>1. i - m \in 1 .. n /\ i = m + (i - m)
      BY <1>1, <1>3, <1>5
    <3> QED BY <3>1
  <2>2. u[i] = t[j] /\ j \in DOMAIN t
    BY <1>1, <2>1
  <2>3. ChunkAt(t, j)
    BY <1>2, <2>2 DEF ChunkAt
  <2> QED BY <2>1, <2>3 DEF m, n
<1> QED BY <1>4, <1>5

\* A chunk of s stays whole when something is put behind s that can be behind it.
LEMMA ChunkStays ==
  ASSUME NEW s \in Seq(Sym), NEW t \in Seq(Sym), NEW i \in Nat, ChunkAt(s, i), ChunkWhole(s, i),
         t # <<>> /\ ChunkEnd(s, i) = Len(s) => t[1][1] \in {"size", "line"}
  PROVE  ChunkWhole(s \o t, i) /\ (t # <<>> => ChunkEnd(s \o t, i) < Len(s \o t))
<1> DEFINE u == s \o t
           m == Len(s)
           n == Len(t)
<1>1. /\ Len(u) = m + n /\ m \in Nat /\ n \in Nat /\ (t # <<>> => n > 0)
      /\ \A k \in 1 .. m : u[k] = s[k]
      /\ \A k \in 1 .. n : u[m + k] = t[k]
  BY Behind
<1>2. PICK e \in Nat : e = ChunkEnd(s, i) /\ e > i + 4
  BY ChunkEndType
<1>3. i \in 1 .. m
  BY ChunkEndType
<1> HIDE DEF u, m, n
<1>10. EndsAt(s, e) /\ (t # <<>> /\ e = m => t[1][1] \in {"size", "line"})
  BY <1>2 DEF ChunkWhole, m
<1>4. /\ e <= m /\ s[e - 1] = CR /\ s[e] = LF
      /\ e < m => s[e + 1][1] \in {"size", "line"}
      /\ t # <<>> /\ e = m => t[1][1] \in {"size", "line"}
  BY <1>10 DEF EndsAt, m
<1>5. u[e - 1] = CR /\ u[e] = LF
  <2>1. e - 1 \in 1 .. m /\ e \in 1 .. m
    BY <1>1, <1>2, <1>4
  <2> QED BY <1>1, <1>4, <2>1
<1>6. ChunkEnd(u, i) = e
  BY <1>1, <1>2, <1>3 DEF ChunkEnd
<1>7. e <= m + n /\ (t # <<>> => e < m + n)
  BY <1>1, <1>2, <1>4
<1>8. ASSUME e < m + n PROVE u[e + 1][1] \in {"size", "line"}
  <2>1. CASE e < m
    <3>1. e + 1 \in 1 .. m
      BY <1>1, <1>2, <2>1
    <3> QED BY <1>1, <1>4, <2>1, <3>1
  <2>2. CASE e = m
    <3>1. 1 \in 1 .. n
      BY <1>1, <1>8, <2>2
    <3>2. u[e + 1] = t[1] /\ t # <<>>
      <4>1. t # <<>>
        BY <3>1, <1>1, EmptySeq DEF n
      <4> QED BY <1>1, <2>2, <3>1, <4>1
    <3> QED BY <1>4, <2>2, <3>2
  <2> QED BY <1>1, <1>2, <1>4, <2>1, <2>2
<1>9. EndsAt(u, e)
  BY <1>1, <1>5, <1>7, <1>8 DEF EndsAt
<1> QED BY <1>1, <1>6, <1>7, <1>9 DEF ChunkWhole, u

\* Something that holds no chunk is put behind s.
LEMMA ChunksExtended ==
  ASSUME NEW s \in Seq(Sym), NEW t \in Seq(Sym), ChunksWhole(s),
         \A i \in Nat : ~ChunkAt(t, i),
         t # <<>> /\ EndsInChunk(s) => t[1][1] \in {"size", "line"}
  PROVE  ChunksWhole(s \o t) /\ (t # <<>> => ~EndsInChunk(s \o t))
<1>1. ASSUME NEW i \in Nat, ChunkAt(s \o t, i)
      PROVE  ChunkWhole(s \o t, i) /\ (t # <<>> => ChunkEnd(s \o t, i) < Len(s \o t))
  <2>1. ChunkAt(s, i)
    BY <1>1, ChunkWhere
  <2>2. ChunkWhole(s, i)
    BY <2>1 DEF ChunksWhole
  <2>3. t # <<>> /\ ChunkEnd(s, i) = Len(s) => t[1][1] \in {"size", "line"}
    BY <2>1 DEF EndsInChunk
  <2> QED BY <2>1, <2>2, <2>3, ChunkStays
<1>2. Len(s \o t) \in Nat
  BY Behind
<1> QED BY <1>1, <1>2 DEF ChunksWhole, EndsInChunk

\* What is in the packets: payload, and separators.
Plain == ({"data"} \X Data) \cup {CR, LF}

\* SizesAgree of s.
Agreeing(s) ==
  \A i \in DOMAIN s :
    LET n   == s[i][2]
        end == i + 2 + n
    IN s[i][1] = "size" /\ n > 0 /\ Len(s) > i + 2
         => /\ Len(s) >= end + 2
            /\ SubSeq(s, end + 1, end + 2) = HTTP_SEP
            /\ Len(s) > end + 2 => s[end + 3][1] \in {"size", "line"}

\* Every chunk is whole, except that the last one may have only its first line.
LastMayBegin(s) == \A i \in Nat : ChunkAt(s, i) => ChunkWhole(s, i) \/ Len(s) = i + 2

\* It is enough that every chunk with something behind its first line is whole.
LEMMA WholeAgrees ==
  ASSUME NEW s \in Seq(Sym), LastMayBegin(s)
  PROVE  Agreeing(s)
<1>1. DOMAIN s = 1 .. Len(s) /\ Len(s) \in Nat
  BY LenProperties
<1>2. ASSUME NEW e \in Nat, NEW m \in Nat, m = Len(s), EndsAt(s, e), 2 <= e
      PROVE  /\ e <= m /\ SubSeq(s, e - 1, e) = HTTP_SEP
             /\ e < m => s[e + 1][1] \in {"size", "line"}
  <2>1. e <= m /\ s[e - 1] = CR /\ s[e] = LF /\ (e < m => s[e + 1][1] \in {"size", "line"})
    BY <1>2 DEF EndsAt
  <2>2. \A k \in e - 1 .. e : s[k] \in Sym
    <3>1. \A k \in e - 1 .. e : k \in 1 .. Len(s)
      BY <1>2, <2>1
    <3> QED BY <3>1, ElementOfSeq
  <2>3. e - 1 \in Int /\ e \in Int /\ e - 1 <= e /\ e - (e - 1) + 1 = 2
    OBVIOUS
  <2> DEFINE x == SubSeq(s, e - 1, e)
  <2>4. x \in Seq(Sym) /\ Len(x) = 2 /\ \A k \in 1 .. 2 : x[k] = s[(e - 1) + k - 1]
    BY <2>2, <2>3, SubSeqProperties
  <2> HIDE DEF x
  <2>5. (e - 1) + 1 - 1 = e - 1 /\ (e - 1) + 2 - 1 = e
    OBVIOUS
  <2>6. x[1] = CR /\ x[2] = LF
    <3>1. x[1] = s[(e - 1) + 1 - 1] /\ x[2] = s[(e - 1) + 2 - 1]
      BY <2>4
    <3> QED BY <2>1, <2>5, <3>1
  <2>7. HTTP_SEP \in Seq(Sym) /\ Len(HTTP_SEP) = 2 /\ HTTP_SEP[1] = CR /\ HTTP_SEP[2] = LF
    BY WireSymbols, Patterns DEF HTTP_SEP
  <2>8. \A k \in 1 .. 2 : x[k] = HTTP_SEP[k]
    BY <2>6, <2>7
  <2>9. x = HTTP_SEP
    BY <2>4, <2>7, <2>8, SeqEqual
  <2> QED BY <2>1, <2>9 DEF x
<1>3. ASSUME NEW i \in Nat, ChunkAt(s, i), NEW d \in Nat \ {0}, d = s[i][2],
             NEW m \in Nat, m = Len(s), m # i + 2
      PROVE  /\ m >= i + 2 + d + 2
             /\ SubSeq(s, i + 2 + d + 1, i + 2 + d + 2) = HTTP_SEP
             /\ m > i + 2 + d + 2 => s[i + 2 + d + 3][1] \in {"size", "line"}
  <2>1. ChunkWhole(s, i)
    BY <1>3 DEF LastMayBegin
  <2>2. PICK e \in Nat : e = i + 4 + d
    OBVIOUS
  <2>3. ChunkEnd(s, i) = e
    BY <1>3, <2>2 DEF ChunkEnd
  <2>4. EndsAt(s, e)
    BY <2>1, <2>3 DEF ChunkWhole
  <2>5. i + 2 + d + 1 = e - 1 /\ i + 2 + d + 2 = e /\ i + 2 + d + 3 = e + 1 /\ 2 <= e
    BY <2>2
  <2>6. /\ e <= m /\ SubSeq(s, e - 1, e) = HTTP_SEP
        /\ e < m => s[e + 1][1] \in {"size", "line"}
    BY <1>2, <1>3, <2>4, <2>5
  <2> QED BY <2>5, <2>6
<1>4. ASSUME NEW i \in DOMAIN s, ChunkAt(s, i)
      PROVE  Len(s) > i + 2 => /\ Len(s) >= i + 2 + s[i][2] + 2
                               /\ SubSeq(s, i + 2 + s[i][2] + 1, i + 2 + s[i][2] + 2) = HTTP_SEP
                               /\ Len(s) > i + 2 + s[i][2] + 2 =>
                                    s[i + 2 + s[i][2] + 3][1] \in {"size", "line"}
  <2>1. PICK d \in Nat \ {0} : d = s[i][2]
    BY <1>1, <1>4, ChunkEndType
  <2>2. PICK m \in Nat : m = Len(s)
    BY <1>1
  <2>3. i \in Nat
    BY <1>1
  <2>4. m > i + 2 => m # i + 2
    BY <2>3
  <2>5. m > i + 2 => /\ m >= i + 2 + d + 2
                     /\ SubSeq(s, i + 2 + d + 1, i + 2 + d + 2) = HTTP_SEP
                     /\ m > i + 2 + d + 2 => s[i + 2 + d + 3][1] \in {"size", "line"}
    BY <1>3, <1>4, <2>1, <2>2, <2>3, <2>4
  <2> QED BY <2>1, <2>2, <2>5
<1> QED BY <1>4 DEF Agreeing, ChunkAt

\* What holds only payload and separators holds no chunk.
LEMMA NoChunk ==
  /\ Plain \subseteq Symbol
  /\ \A t \in Seq(Plain) : t \in Seq(Sym) /\ \A i \in Nat : ~ChunkAt(t, i)
  /\ HTTP_SEP \in Seq(Plain)
<1>1. Plain \subseteq Symbol /\ Plain \subseteq Sym
  BY DEF Plain, Symbol, Sym
<1>2. \A a \in Plain : a[1] # "size"
  BY DEF Plain, CR, LF
<1>3. ASSUME NEW t \in Seq(Plain), NEW i \in Nat, ChunkAt(t, i) PROVE FALSE
  <2>1. i \in 1 .. Len(t)
    BY <1>3, LenProperties DEF ChunkAt
  <2>2. t[i] \in Plain
    BY <2>1, ElementOfSeq
  <2> QED BY <1>2, <1>3, <2>2 DEF ChunkAt
<1>4. CR \in Plain /\ LF \in Plain
  BY DEF Plain
<1>5. HTTP_SEP \in Seq(Plain)
  BY <1>4 DEF HTTP_SEP
<1>6. \A t \in Seq(Plain) : t \in Seq(Sym)
  BY <1>1, SeqMonotonic
<1> QED BY <1>1, <1>3, <1>5, <1>6

\* The first line of a chunk of n bytes.
SizeFront(n) == <<Size(n), CR, LF>>

\* It has three symbols, and a size at its front.
LEMMA SizeFrontType ==
  ASSUME NEW n \in Nat \ {0}
  PROVE  /\ SizeFront(n) \in Seq(Sym) /\ Len(SizeFront(n)) = 3
         /\ SizeFront(n) = <<Size(n)>> \o HTTP_SEP
         /\ SizeFront(n)[1][1] = "size" /\ SizeFront(n)[1][2] = n
         /\ \A i \in Nat : ChunkAt(SizeFront(n), i) => i = 1
<1> DEFINE u == <<Size(n)>> \o HTTP_SEP
           f == SizeFront(n)
<1>1. Size(n) \in Sym /\ CR \in Sym /\ LF \in Sym
  BY DEF Size, Sym, Symbol
<1>2. /\ f \in Seq(Sym) /\ Len(f) = 3
      /\ f[1] = Size(n) /\ f[2] = CR /\ f[3] = LF
  BY <1>1 DEF SizeFront
<1>3. /\ <<Size(n)>> \in Seq(Sym) /\ Len(<<Size(n)>>) = 1 /\ <<Size(n)>>[1] = Size(n)
      /\ HTTP_SEP \in Seq(Sym) /\ Len(HTTP_SEP) = 2
      /\ HTTP_SEP[1] = CR /\ HTTP_SEP[2] = LF
  BY <1>1 DEF HTTP_SEP
<1>4. /\ u \in Seq(Sym) /\ Len(u) = 1 + 2
      /\ \A i \in 1 .. 1 : u[i] = <<Size(n)>>[i]
      /\ \A i \in 1 .. 2 : u[1 + i] = HTTP_SEP[i]
  BY <1>3, Behind
<1> HIDE DEF u, f
<1>5. u[1] = f[1] /\ u[2] = f[2] /\ u[3] = f[3]
  <2>1. u[1] = Size(n) /\ u[1 + 1] = CR /\ u[1 + 2] = LF
    BY <1>3, <1>4
  <2> QED BY <1>2, <2>1
<1>6. \A i \in 1 .. 3 : u[i] = f[i]
  BY <1>5
<1>7. u = f
  <2>1. Len(u) = Len(f) /\ \A i \in 1 .. Len(u) : u[i] = f[i]
    BY <1>2, <1>4, <1>6
  <2> QED BY <1>2, <1>4, <2>1, SeqEqual
<1>8. Size(n)[1] = "size" /\ Size(n)[2] = n
  BY DEF Size
<1>9. CR[1] # "size" /\ LF[1] # "size"
  BY DEF CR, LF
<1>10. \A i \in Nat : ChunkAt(f, i) => i = 1
  <2>1. DOMAIN f = 1 .. 3
    BY <1>2, LenProperties
  <2> QED BY <1>2, <1>9, <2>1 DEF ChunkAt
<1> QED BY <1>2, <1>7, <1>8, <1>10 DEF u, f

\* The first line of a chunk is put behind s.
LEMMA FirstLineAdded ==
  ASSUME NEW s \in Seq(Sym), NEW t \in Seq(Sym), ChunksWhole(s),
         Len(t) = 3, t[1][1] = "size", \A i \in Nat : ChunkAt(t, i) => i = 1
  PROVE  Agreeing(s \o t)
<1>1. s \o t \in Seq(Sym) /\ Len(s \o t) = Len(s) + Len(t) /\ Len(s) \in Nat
  BY Behind
<1>2. ASSUME NEW i \in Nat, ChunkAt(s \o t, i)
      PROVE  ChunkWhole(s \o t, i) \/ Len(s \o t) = i + 2
  <2>1. CASE ChunkAt(s, i)
    <3>1. ChunkWhole(s, i)
      BY <2>1 DEF ChunksWhole
    <3> QED BY <2>1, <3>1, ChunkStays
  <2>2. CASE \E j \in 1 .. Len(t) : i = Len(s) + j /\ ChunkAt(t, j)
    <3>1. i = Len(s) + 1
      BY <2>2
    <3> QED BY <1>1, <3>1
  <2> QED BY <1>2, <2>1, <2>2, ChunkWhere
<1> QED BY <1>1, <1>2, WholeAgrees DEF LastMayBegin

\* A chunk of n bytes, all of it, is put behind s.
LEMMA ChunkBehind ==
  ASSUME NEW s \in Seq(Sym), NEW t \in Seq(Sym), NEW n \in Nat \ {0}, ChunksWhole(s),
         Len(t) = n + 5, t[1][1] = "size", t[1][2] = n, t[n + 4] = CR, t[n + 5] = LF,
         \A i \in Nat : ChunkAt(t, i) => i = 1
  PROVE  ChunksWhole(s \o t)
<1> DEFINE u == s \o t
           m == Len(s)
<1>1. /\ u \in Seq(Sym) /\ Len(u) = m + Len(t) /\ m \in Nat
      /\ \A i \in 1 .. Len(t) : u[m + i] = t[i]
  BY Behind
<1> HIDE DEF u, m
<1>2. ASSUME NEW i \in Nat, ChunkAt(u, i) PROVE ChunkWhole(u, i)
  <2>1. CASE ChunkAt(s, i)
    <3>1. ChunkWhole(s, i)
      BY <2>1 DEF ChunksWhole
    <3> QED BY <2>1, <3>1, ChunkStays DEF u
  <2>2. CASE i = m + 1
    <3>1. 1 \in 1 .. n + 5 /\ n + 4 \in 1 .. n + 5 /\ n + 5 \in 1 .. n + 5
      OBVIOUS
    <3>2. u[m + 1] = t[1] /\ u[m + (n + 4)] = CR /\ u[m + (n + 5)] = LF
      BY <1>1, <3>1
    <3>3. PICK e \in Nat : e = m + (n + 5)
      BY <1>1
    <3>4. ChunkEnd(u, i) = e
      <4>1. u[i][2] = n
        BY <2>2, <3>2
      <4>2. ChunkEnd(u, i) = i + 4 + n
        BY <4>1 DEF ChunkEnd
      <4> QED BY <1>1, <2>2, <3>3, <4>2
    <3>5. Len(u) = e /\ u[e - 1] = CR /\ u[e] = LF
      <4>1. e - 1 = m + (n + 4)
        BY <1>1, <3>3
      <4> QED BY <1>1, <3>2, <3>3, <4>1
    <3>6. EndsAt(u, e)
      BY <3>5 DEF EndsAt
    <3> QED BY <3>4, <3>6 DEF ChunkWhole
  <2>3. ChunkAt(s, i) \/ i = m + 1
    <3>1. \/ ChunkAt(s, i)
          \/ \E j \in 1 .. Len(t) : i = Len(s) + j /\ ChunkAt(t, j)
      BY <1>2, ChunkWhere DEF u
    <3> QED BY <3>1 DEF m
  <2> QED BY <2>1, <2>2, <2>3
<1>3. ChunksWhole(u)
  BY <1>2 DEF ChunksWhole
<1> QED BY <1>3 DEF u

\* The data of a chunk and its separator.
LEMMA DataType ==
  ASSUME NEW c \in Seq(Plain), c # <<>>
  PROVE  /\ c \o HTTP_SEP \in Seq(Plain) /\ Len(c \o HTTP_SEP) = Len(c) + 2
         /\ Len(c) \in Nat \ {0}
         /\ (c \o HTTP_SEP)[Len(c) + 1] = CR /\ (c \o HTTP_SEP)[Len(c) + 2] = LF
<1>1. HTTP_SEP \in Seq(Plain) /\ Len(HTTP_SEP) = 2 /\ HTTP_SEP[1] = CR /\ HTTP_SEP[2] = LF
  BY NoChunk, Patterns DEF HTTP_SEP
<1>2. Len(c) \in Nat \ {0}
  BY EmptySeq
<1> DEFINE n == Len(c)
           d == c \o HTTP_SEP
<1>3. /\ d \in Seq(Plain) /\ Len(d) = n + Len(HTTP_SEP)
      /\ \A i \in 1 .. n + Len(HTTP_SEP) : d[i] = IF i <= n THEN c[i] ELSE HTTP_SEP[i - n]
  <2>1. HTTP_SEP \in Seq(Plain)
    BY <1>1
  <2> QED BY <2>1, ConcatProperties
<1> HIDE DEF n, d
<1>4. n + 1 \in 1 .. n + 2 /\ n + 2 \in 1 .. n + 2 /\ ~ (n + 1 <= n) /\ ~ (n + 2 <= n)
      /\ (n + 1) - n = 1 /\ (n + 2) - n = 2
  BY <1>2 DEF n
<1>5. d[n + 1] = CR /\ d[n + 2] = LF
  <2>1. d[n + 1] = HTTP_SEP[(n + 1) - n] /\ d[n + 2] = HTTP_SEP[(n + 2) - n]
    BY <1>1, <1>3, <1>4
  <2> QED BY <1>1, <1>4, <2>1
<1> QED BY <1>1, <1>2, <1>3, <1>5 DEF n, d

\* The data of a chunk is put behind its first line.
LEMMA ChunkAdded ==
  ASSUME NEW s \in Seq(Sym), NEW c \in Seq(Plain), c # <<>>, ChunksWhole(s)
  PROVE  ChunksWhole((s \o SizeFront(Len(c))) \o (c \o HTTP_SEP))
<1>1. PICK n \in Nat \ {0} : n = Len(c)
  BY DataType
<1>2. PICK h \in Seq(Sym) : /\ h = SizeFront(n) /\ Len(h) = 3
                            /\ h[1][1] = "size" /\ h[1][2] = n
                            /\ \A i \in Nat : ChunkAt(h, i) => i = 1
  BY SizeFrontType
<1>3. PICK d \in Seq(Sym) : /\ d = c \o HTTP_SEP /\ Len(d) = n + 2
                            /\ d[n + 1] = CR /\ d[n + 2] = LF
                            /\ \A i \in Nat : ~ChunkAt(d, i)
  <2>1. /\ c \o HTTP_SEP \in Seq(Plain) /\ Len(c \o HTTP_SEP) = n + 2
        /\ (c \o HTTP_SEP)[n + 1] = CR /\ (c \o HTTP_SEP)[n + 2] = LF
    BY <1>1, DataType
  <2>2. PICK x \in Seq(Plain) : x = c \o HTTP_SEP
    BY <2>1
  <2>3. x \in Seq(Sym) /\ \A i \in Nat : ~ChunkAt(x, i)
    BY NoChunk
  <2> QED BY <2>1, <2>2, <2>3
<1>4. PICK t \in Seq(Sym) : /\ t = h \o d /\ Len(t) = Len(h) + Len(d)
                            /\ \A i \in 1 .. Len(h) : t[i] = h[i]
                            /\ \A i \in 1 .. Len(d) : t[Len(h) + i] = d[i]
  BY Behind
<1>5. Len(t) = n + 5 /\ t[1] = h[1] /\ t[n + 4] = CR /\ t[n + 5] = LF
  <2>1. Len(t) = 3 + (n + 2)
    BY <1>2, <1>3, <1>4
  <2>2. /\ \A i \in 1 .. 3 : t[i] = h[i]
        /\ \A i \in 1 .. n + 2 : t[3 + i] = d[i]
    BY <1>2, <1>3, <1>4
  <2>3. t[1] = h[1] /\ t[3 + (n + 1)] = CR /\ t[3 + (n + 2)] = LF
    <3>1. 1 \in 1 .. 3 /\ n + 1 \in 1 .. n + 2 /\ n + 2 \in 1 .. n + 2
      OBVIOUS
    <3>2. t[1] = h[1] /\ t[3 + (n + 1)] = d[n + 1] /\ t[3 + (n + 2)] = d[n + 2]
      BY <2>2, <3>1
    <3>3. d[n + 1] = CR /\ d[n + 2] = LF
      BY <1>3
    <3> QED BY <3>2, <3>3
  <2>4. 3 + (n + 1) = n + 4 /\ 3 + (n + 2) = n + 5
    OBVIOUS
  <2> QED BY <2>1, <2>3, <2>4
<1>6. ASSUME NEW i \in Nat, ChunkAt(t, i) PROVE i = 1
  <2>1. ChunkAt(h, i) \/ \E j \in 1 .. Len(d) : ChunkAt(d, j)
    BY <1>4, <1>6, ChunkWhere
  <2> QED BY <1>2, <1>3, <2>1
<1>7. ChunksWhole(s \o t)
  BY <1>2, <1>5, <1>6, ChunkBehind
<1>8. (s \o h) \o d = s \o (h \o d)
  BY ConcatAssociative
<1> QED BY <1>1, <1>2, <1>3, <1>4, <1>7, <1>8

\* What is no size of a chunk with data.
Quiet == {a \in Sym : a[1] = "size" => a[2] = 0}

\* What is made of such symbols holds no chunk.
LEMMA QuietSymbols ==
  /\ Quiet \subseteq Sym /\ Plain \subseteq Quiet
  /\ \A item \in Item : Field(item) \in Quiet
  /\ \A u \in Urls : Line(u) \in Quiet
  /\ \A b \in Boundaries \cup {NoBoundary} : Flag(b) \in Quiet
  /\ Dashes \in Quiet /\ Size(0) \in Quiet
  /\ HTTP_SEP \in Seq(Quiet)
<1>1. Quiet \subseteq Sym
  BY DEF Quiet
<1>2. Symbol \subseteq Sym
  BY DEF Sym
<1>3. Plain \subseteq Quiet
  <2>1. ASSUME NEW a \in Plain PROVE a \in Quiet
    <3>1. a \in Sym
      BY <1>2, NoChunk
    <3>2. a[1] # "size"
      BY DEF Plain, CR, LF
    <3> QED BY <3>1, <3>2 DEF Quiet
  <2> QED BY <2>1
<1>4. ASSUME NEW item \in Item PROVE Field(item) \in Quiet
  <2>1. Field(item) \in Sym
    BY DEF Sym
  <2>2. \/ Field(item) = ContentLen(item.value[2]) \/ Field(item) = Chunked
        \/ Field(item) = Multipart(item.value[2]) \/ Field(item) = <<"item", item>>
    BY DEF Field
  <2>3. Field(item)[1] \in {"length", "chunked", "multipart", "item"}
    BY <2>2 DEF ContentLen, Chunked, Multipart
  <2> QED BY <2>1, <2>3 DEF Quiet
<1>5. ASSUME NEW u \in Urls PROVE Line(u) \in Quiet
  <2>1. Line(u) \in Symbol /\ Line(u)[1] = "line"
    BY DEF Line, Symbol
  <2> QED BY <1>2, <2>1 DEF Quiet
<1>6. ASSUME NEW b \in Boundaries \cup {NoBoundary} PROVE Flag(b) \in Quiet
  <2>1. Flag(b) \in Symbol /\ Flag(b)[1] = "flag"
    BY DEF Flag, Symbol
  <2> QED BY <1>2, <2>1 DEF Quiet
<1>7. Dashes \in Quiet
  <2>1. Dashes \in Symbol
    BY DEF Symbol
  <2>2. Dashes[1] = "dashes"
    BY DEF Dashes
  <2> QED BY <1>2, <2>1, <2>2 DEF Quiet
<1>8. Size(0) \in Quiet
  <2>1. Size(0) \in Symbol /\ Size(0)[2] = 0
    BY DEF Size, Symbol
  <2> QED BY <1>2, <2>1 DEF Quiet
<1>9. HTTP_SEP \in Seq(Quiet)
  BY <1>3, NoChunk, SeqMonotonic
<1> QED BY <1>1, <1>3, <1>4, <1>5, <1>6, <1>7, <1>8, <1>9

\* What is made of such symbols holds no chunk.
LEMMA QuietHoldsNone ==
  ASSUME NEW t \in Seq(Quiet)
  PROVE  t \in Seq(Sym) /\ \A i \in Nat : ~ChunkAt(t, i)
<1>1. t \in Seq(Sym)
  BY QuietSymbols, SeqMonotonic
<1>2. ASSUME NEW i \in Nat, ChunkAt(t, i) PROVE FALSE
  <2>1. i \in 1 .. Len(t) /\ t[i][2] \in Nat \ {0}
    BY <1>1, <1>2, ChunkEndType
  <2>2. t[i] \in Quiet
    BY <2>1, ElementOfSeq
  <2>3. t[i][2] = 0
    BY <1>2, <2>2 DEF Quiet, ChunkAt
  <2> QED BY <2>1, <2>3
<1> QED BY <1>1, <1>2

\* The first of two sequences has the first symbol.
LEMMA FirstStays ==
  ASSUME NEW s \in Seq(Quiet), NEW t \in Seq(Quiet), s # <<>>
  PROVE  s \o t \in Seq(Quiet) /\ s \o t # <<>> /\ (s \o t)[1] = s[1]
<1>1. Len(s) \in Nat \ {0} /\ Len(t) \in Nat
  BY EmptySeq, LenProperties
<1>2. /\ s \o t \in Seq(Quiet) /\ Len(s \o t) = Len(s) + Len(t)
      /\ \A i \in 1 .. Len(s) + Len(t) : (s \o t)[i] = IF i <= Len(s) THEN s[i] ELSE t[i - Len(s)]
  BY ConcatProperties
<1>3. Len(s \o t) # 0
  BY <1>1, <1>2
<1>4. s \o t # <<>>
  BY <1>3, EmptySeq
<1>5. (s \o t)[1] = s[1]
  <2>1. 1 \in 1 .. Len(s) + Len(t) /\ 1 <= Len(s)
    BY <1>1
  <2> QED BY <1>2, <2>1
<1> QED BY <1>2, <1>4, <1>5

\* A sequence of one.
LEMMA OneQuiet ==
  ASSUME NEW a \in Quiet
  PROVE  <<a>> \in Seq(Quiet) /\ <<a>> # <<>> /\ <<a>>[1] = a
OBVIOUS

\* The header of a request begins with its line and holds no chunk.
LEMMA HeaderQuiet ==
  ASSUME IInv, NEW w \in Workers
  PROVE  LET t == Serialize(Line(plan[w].url), items[w])
         IN t \in Seq(Quiet) /\ t # <<>> /\ t[1][1] = "line"
<1> DEFINE list   == items[w]
           fields == [i \in DOMAIN list |-> Field(list[i])]
           lines  == [i \in DOMAIN fields |-> <<fields[i]>> \o HTTP_SEP]
           line   == Line(plan[w].url)
<1>1. list \in Seq(Item) /\ Len(list) \in Nat /\ DOMAIN list = 1 .. Len(list)
  BY LenProperties DEF IInv, TypeOK
<1>2. \A i \in DOMAIN list : fields[i] \in Quiet
  <2>1. \A i \in DOMAIN list : list[i] \in Item
    BY <1>1, ElementOfSeq
  <2> QED BY <2>1, QuietSymbols
<1>3. HTTP_SEP \in Seq(Quiet) /\ line \in Quiet /\ line[1] = "line"
  BY QuietSymbols, PlanFacts DEF Line
<1>4. DOMAIN fields = 1 .. Len(list)
  BY <1>1
<1> HIDE DEF fields, line
<1>5. lines \in Seq(Seq(Quiet))
  <2>1. ASSUME NEW i \in 1 .. Len(list) PROVE <<fields[i]>> \o HTTP_SEP \in Seq(Quiet)
    <3>1. fields[i] \in Quiet
      BY <1>1, <1>2
    <3>2. <<fields[i]>> \in Seq(Quiet)
      BY <3>1
    <3> QED BY <1>3, <3>2, ConcatProperties
  <2>2. lines = [i \in 1 .. Len(list) |-> lines[i]]
    BY <1>4
  <2>3. \A i \in 1 .. Len(list) : lines[i] \in Seq(Quiet)
    BY <1>4, <2>1
  <2> HIDE DEF lines
  <2> QED BY <1>1, <2>2, <2>3, FunctionIsSeq
<1>6. FlattenSeq(lines) \in Seq(Quiet)
  BY <1>5, FlattenType
<1>7. Serialize(line, list) = <<line>> \o HTTP_SEP \o FlattenSeq(lines) \o HTTP_SEP
  BY DEF Serialize, Header, fields, list
<1> HIDE DEF lines
<1>8. PICK a \in Seq(Quiet) : a = <<line>> \o HTTP_SEP /\ a # <<>> /\ a[1] = line
  <2>1. <<line>> \in Seq(Quiet) /\ <<line>> # <<>> /\ <<line>>[1] = line
    BY <1>3, OneQuiet
  <2> QED BY <1>3, <2>1, FirstStays
<1>9. PICK b \in Seq(Quiet) : b = a \o FlattenSeq(lines) /\ b # <<>> /\ b[1] = line
  BY <1>6, <1>8, FirstStays
<1>10. PICK c \in Seq(Quiet) : c = b \o HTTP_SEP /\ c # <<>> /\ c[1] = line
  BY <1>3, <1>9, FirstStays
<1> QED BY <1>3, <1>7, <1>8, <1>9, <1>10 DEF list, line

\* The end of a body, and the flag of a part, begin with no chunk and hold none.
LEMMA EndsQuiet ==
  ASSUME NEW b \in Boundaries \cup {NoBoundary}
  PROVE  /\ SendChunkBody(Null) \in Seq(Quiet) /\ SendChunkBody(Null) # <<>>
         /\ SendChunkBody(Null)[1][1] = "size"
         /\ SendBoundaryBody(Null, b) \in Seq(Quiet) /\ SendBoundaryBody(Null, b) # <<>>
         /\ <<Flag(b)>> \o HTTP_SEP \in Seq(Quiet) /\ <<Flag(b)>> \o HTTP_SEP # <<>>
<1>1. HTTP_SEP \in Seq(Quiet) /\ Size(0) \in Quiet /\ Flag(b) \in Quiet /\ Dashes \in Quiet
  BY QuietSymbols
<1>2. Size(0)[1] = "size"
  BY DEF Size
<1>3. <<Size(0)>> \in Seq(Quiet) /\ <<Size(0)>> # <<>> /\ <<Size(0)>>[1] = Size(0)
  BY <1>1, OneQuiet
<1>4. PICK a \in Seq(Quiet) : a = <<Size(0)>> \o HTTP_SEP /\ a # <<>> /\ a[1] = Size(0)
  BY <1>1, <1>3, FirstStays
<1>5. PICK c \in Seq(Quiet) : c = a \o HTTP_SEP /\ c # <<>> /\ c[1] = Size(0)
  BY <1>1, <1>4, FirstStays
<1>6. SendChunkBody(Null) = c
  BY <1>4, <1>5 DEF SendChunkBody
<1>7. <<Flag(b), Dashes>> \in Seq(Quiet) /\ <<Flag(b), Dashes>> # <<>>
  BY <1>1
<1>8. PICK d \in Seq(Quiet) : d = <<Flag(b), Dashes>> \o HTTP_SEP /\ d # <<>>
  BY <1>1, <1>7, FirstStays
<1>9. SendBoundaryBody(Null, b) = d
  BY <1>8 DEF SendBoundaryBody
<1>10. <<Flag(b)>> \in Seq(Quiet) /\ <<Flag(b)>> # <<>>
  BY <1>1, OneQuiet
<1>11. PICK e \in Seq(Quiet) : e = <<Flag(b)>> \o HTTP_SEP /\ e # <<>>
  BY <1>1, <1>10, FirstStays
<1> QED BY <1>2, <1>5, <1>6, <1>8, <1>9, <1>11

\* Between the size of a chunk and its data.
InChunk(w) == pc[w] = "data" /\ plan[w].kind = "CHUNK"

\* One request after the other: what is in the packets, and the chunks on the wire.
SizesInv ==
  /\ \A v, w \in Workers : Active(v) /\ Active(w) => v = w
  /\ \A q \in DOMAIN packets : packets[q] \in Seq(Plain)
  /\ \A w \in Workers : pc[w] = "data" => More(w) /\ Body(w) # Null
  /\ wire \in Seq(Sym) /\ Agreeing(wire)
  /\ ~broken =>
       /\ (\A w \in Workers : ~InChunk(w)) => ChunksWhole(wire)
       /\ \A w \in Workers : Active(w) /\ plan[w].kind # "CHUNK" => ~EndsInChunk(wire)
       /\ \A w \in Workers : InChunk(w) =>
            \E s \in Seq(Sym) : ChunksWhole(s) /\ wire = s \o SizeFront(Len(Body(w)))

\* When every chunk is whole the sizes agree.
LEMMA WholeIsEnough == ASSUME NEW s \in Seq(Sym), ChunksWhole(s) PROVE Agreeing(s)
BY WholeAgrees DEF ChunksWhole, LastMayBegin

\* An empty wire.
LEMMA EmptyWire == ChunksWhole(<<>>) /\ Agreeing(<<>>)
<1>1. ChunksWhole(<<>>)
  BY DEF ChunksWhole, ChunkAt
<1>2. <<>> \in Seq(Sym)
  OBVIOUS
<1> QED BY <1>1, <1>2, WholeIsEnough

\* At first nothing is sent.
LEMMA InitSizes ==
  ASSUME \A q \in DOMAIN Packets0 : Packets0[q] \in Seq({"data"} \X Data), Init
  PROVE  SizesInv
<1>1. wire = <<>> /\ packets = Packets0 /\ pc = [w \in Workers |-> "set"]
  BY DEF Init
<1>2. <<>> \in Seq(Sym)
  OBVIOUS
<1>3. \A w \in Workers : ~Active(w) /\ pc[w] # "data" /\ ~InChunk(w)
  BY <1>1 DEF Active, InChunk
<1>4. \A q \in DOMAIN packets : packets[q] \in Seq(Plain)
  <2>1. {"data"} \X Data \subseteq Plain
    BY DEF Plain
  <2> QED BY <1>1, <2>1, SeqMonotonic
<1> QED BY <1>1, <1>2, <1>3, <1>4, EmptyWire DEF SizesInv

\* A send that fails: nothing more comes on the wire.
LEMMA FailSizes ==
  ASSUME IInv, SizesInv, NEW w \in Workers, broken' = TRUE, Go(w, "failed", 1),
         UNCHANGED <<wire, plan>>, \A v \in Workers : Active(v) => v = w,
         \A q \in DOMAIN packets' : packets'[q] \in Seq(Plain)
  PROVE  SizesInv'
<1>1. pc \in [Workers -> {"set", "part", "data", "done", "failed"}]
  BY DEF IInv, TypeOK
<1>2. \A v \in Workers : ~Active(v)' /\ pc'[v] # "data"
  BY <1>1 DEF Go, Active
<1> QED BY <1>2 DEF SizesInv

\* A send without a chunk succeeds, or nothing is sent.
LEMMA QuietSizes ==
  ASSUME IInv, SizesInv, NEW w \in Workers, ~broken, pc[w] # "data",
         \A v \in Workers : Active(v) => v = w,
         UNCHANGED <<plan, packets, broken>>, NEW n, NEW where \in {"part", "data", "done"},
         Go(w, where, n), NEW t \in Seq(Quiet), wire' = wire \o t,
         t # <<>> /\ EndsInChunk(wire) => t[1][1] \in {"size", "line"},
         t = <<>> => ~EndsInChunk(wire),
         where = "data" => (More(w) /\ Body(w) # Null)' /\ plan[w].kind # "CHUNK"
  PROVE  SizesInv'
<1>1. pc \in [Workers -> {"set", "part", "data", "done", "failed"}]
  BY DEF IInv, TypeOK
<1>2. pc'[w] = where /\ \A v \in Workers : v # w => pc'[v] = pc[v]
  BY <1>1 DEF Go
<1>3. \A v \in Workers : ~InChunk(v)
  BY DEF InChunk, Active
<1>4. ChunksWhole(wire) /\ wire \in Seq(Sym)
  BY <1>3 DEF SizesInv
<1>5. t \in Seq(Sym) /\ \A i \in Nat : ~ChunkAt(t, i)
  BY QuietHoldsNone
<1>6. ChunksWhole(wire \o t) /\ (t # <<>> => ~EndsInChunk(wire \o t))
  BY <1>4, <1>5, ChunksExtended
<1>7. wire \o t \in Seq(Sym) /\ (t = <<>> => wire \o t = wire)
  BY <1>4, <1>5, ConcatProperties, ConcatEmptySeq
<1>8. ChunksWhole(wire') /\ ~EndsInChunk(wire') /\ wire' \in Seq(Sym)
  BY <1>6, <1>7
<1>9. \A v \in Workers : Active(v)' => v = w
  BY <1>2 DEF Active
<1>10. \A v \in Workers : ~InChunk(v)'
  BY <1>2, <1>9 DEF InChunk, Active
<1>11. \A v \in Workers : pc'[v] = "data" => (More(v) /\ Body(v) # Null)'
  BY <1>2, <1>9 DEF Active
<1>12. Agreeing(wire')
  BY <1>8, WholeIsEnough
<1> QED BY <1>8, <1>9, <1>10, <1>11, <1>12 DEF SizesInv

\* A request is sent.
LEMMA SendReqSizes ==
  ASSUME IInv, SizesInv, plan \in Serial, NEW w \in Workers, SendReq(w)
  PROVE  SizesInv'
<1> DEFINE header == Serialize(Line(plan[w].url), items[w])
<1>1. /\ pc[w] = "set" /\ \A v \in Workers \ {w} : pc[v] \notin {"part", "data"}
      /\ Sent(w, header, "part", 1)
      /\ UNCHANGED <<plan, items, packets, connects>>
  BY DEF SendReq
<1>2. header \in Seq(Quiet) /\ header # <<>> /\ header[1][1] = "line"
  BY HeaderQuiet
<1> HIDE DEF header
<1>3. \A v \in Workers : ~Active(v)
  BY <1>1 DEF Active
<1>4. CASE broken' = TRUE /\ Go(w, "failed", 1) /\ UNCHANGED wire
  <2>1. \A q \in DOMAIN packets' : packets'[q] \in Seq(Plain)
    BY <1>1 DEF SizesInv
  <2> QED BY <1>1, <1>3, <1>4, <2>1, FailSizes
<1>5. CASE ~broken /\ wire' = wire \o header /\ Go(w, "part", 1) /\ UNCHANGED broken
  <2>1. pc[w] # "data" /\ "part" \in {"part", "data", "done"} /\ "part" # "data"
    BY <1>1
  <2>2. \A v \in Workers : Active(v) => v = w
    BY <1>3
  <2> QED BY <1>1, <1>2, <1>5, <2>1, <2>2, QuietSizes
<1> QED BY <1>1, <1>4, <1>5 DEF Sent

\* What is known of a step of w that is sending.
LEMMA SizesFacts ==
  ASSUME IInv, SizesInv, NEW w \in Workers, Active(w)
  PROVE  /\ \A v \in Workers : Active(v) => v = w
         /\ \A q \in DOMAIN packets : packets[q] \in Seq(Plain)
         /\ Body(w) \in Seq(Plain) /\ Body(w) \in Seq(Quiet)
         /\ Body(w) # Null => More(w)
         /\ ~broken /\ plan[w].kind # "CHUNK" => ~EndsInChunk(wire)
<1>1. <<>> \in Seq(Plain)
  OBVIOUS
<1>2. Body(w) \in Seq(Plain)
  <2>1. CASE More(w)
    <3>1. Packet(w) \in DOMAIN packets
      <4>1. next[w] \in Nat \ {0}
        BY AfterType
      <4> QED BY <2>1, <4>1, PlanFacts DEF Packet, More
    <3> QED BY <2>1, <3>1 DEF Body, SizesInv
  <2>2. CASE ~More(w)
    BY <1>1, <2>2 DEF Body, Null
  <2> QED BY <2>1, <2>2
<1>3. Body(w) \in Seq(Quiet)
  BY <1>2, QuietSymbols, SeqMonotonic
<1>4. Body(w) # Null => More(w)
  BY DEF Body
<1> QED BY <1>2, <1>3, <1>4 DEF SizesInv

\* A packet of a plain body is sent, or there is no other.
LEMMA SendBodySizes ==
  ASSUME IInv, SizesInv, NEW w \in Workers, SendBody(w)
  PROVE  SizesInv'
<1>1. /\ pc[w] = "part" /\ plan[w].kind = "NORMAL" /\ Active(w)
      /\ UNCHANGED <<plan, packets>>
  BY DEF SendBody, Active
<1>2. /\ \A v \in Workers : Active(v) => v = w
      /\ \A q \in DOMAIN packets : packets[q] \in Seq(Plain)
      /\ Body(w) \in Seq(Quiet)
      /\ ~broken => ~EndsInChunk(wire)
  BY <1>1, SizesFacts
<1>3. /\ pc[w] # "data" /\ "part" # "data" /\ "done" # "data"
      /\ "part" \in {"part", "data", "done"} /\ "done" \in {"part", "data", "done"}
  BY <1>1
<1>4. CASE Body(w) # Null /\ broken' = TRUE /\ Go(w, "failed", 1) /\ UNCHANGED wire
  <2>1. \A q \in DOMAIN packets' : packets'[q] \in Seq(Plain)
    BY <1>1, <1>2
  <2> QED BY <1>1, <1>2, <1>4, <2>1, FailSizes
<1>5. CASE ~broken /\ wire' = wire \o Body(w) /\ Go(w, "part", After(w)) /\ UNCHANGED broken
  <2>1. PICK t \in Seq(Quiet) : t = Body(w)
    BY <1>2
  <2>2. wire' = wire \o t
    BY <1>5, <2>1
  <2> QED BY <1>1, <1>2, <1>3, <1>5, <2>2, QuietSizes
<1>6. CASE Body(w) = Null
  <2>1. PICK where \in {"part", "done"} : Go(w, where, After(w))
    BY <1>6 DEF SendBody
  <2>2. UNCHANGED <<wire, broken>>
    BY <1>6 DEF SendBody
  <2>3. CASE ~broken
    <3>1. wire' = wire \o <<>>
      <4>1. wire \in Seq(Sym)
        BY DEF SizesInv
      <4> QED BY <2>2, <4>1, ConcatEmptySeq
    <3>2. <<>> \in Seq(Quiet)
      OBVIOUS
    <3>3. where \in {"part", "data", "done"} /\ where # "data"
      BY <2>1
    <3> QED BY <1>1, <1>2, <1>3, <2>1, <2>2, <2>3, <3>1, <3>2, <3>3, QuietSizes
  <2>4. CASE broken
    <3>1. pc \in [Workers -> {"set", "part", "data", "done", "failed"}]
      BY DEF IInv, TypeOK
    <3>2. \A v \in Workers : (Active(v)' => Active(v)) /\ pc'[v] # "data"
      BY <1>1, <1>2, <2>1, <3>1 DEF Go, Active
    <3> QED BY <1>1, <2>2, <2>4, <3>2 DEF SizesInv
  <2> QED BY <2>3, <2>4
<1>7. CASE Body(w) # Null
  <2>1. Sent(w, Body(w), "part", After(w))
    BY <1>7 DEF SendBody
  <2> QED BY <1>4, <1>5, <1>7, <2>1 DEF Sent
<1> QED BY <1>6, <1>7

\* The size or the flag of a part is sent.
LEMMA SendSizeSizes ==
  ASSUME IInv, SizesInv, NEW w \in Workers, SendSize(w)
  PROVE  SizesInv'
<1> DEFINE head == IF plan[w].kind = "CHUNK" THEN Size(Len(Body(w))) ELSE Flag(plan[w].boundary)
           h    == <<head>> \o HTTP_SEP
<1>1. /\ pc[w] = "part" /\ plan[w].kind # "NORMAL" /\ Body(w) # Null /\ Active(w)
      /\ Sent(w, h, "data", next[w])
      /\ UNCHANGED <<plan, packets>>
  BY DEF SendSize, Active
<1>2. /\ \A v \in Workers : Active(v) => v = w
      /\ \A q \in DOMAIN packets : packets[q] \in Seq(Plain)
      /\ Body(w) \in Seq(Plain) /\ More(w)
      /\ ~broken /\ plan[w].kind # "CHUNK" => ~EndsInChunk(wire)
  BY <1>1, SizesFacts
<1>3. CASE broken' = TRUE /\ Go(w, "failed", 1) /\ UNCHANGED wire
  <2>1. \A q \in DOMAIN packets' : packets'[q] \in Seq(Plain)
    BY <1>1, <1>2
  <2> QED BY <1>1, <1>2, <1>3, <2>1, FailSizes
<1>4. CASE ~broken /\ wire' = wire \o h /\ Go(w, "data", next[w]) /\ UNCHANGED broken
  <2>0. /\ pc \in [Workers -> {"set", "part", "data", "done", "failed"}]
        /\ next \in [Workers -> Nat \ {0}]
    BY DEF IInv, TypeOK
  <2>1. next' = next /\ pc'[w] = "data" /\ \A v \in Workers : v # w => pc'[v] = pc[v]
    BY <1>4, <2>0 DEF Go
  <2>2. (More(w) /\ Body(w) # Null)' /\ Body(w)' = Body(w)
    BY <1>1, <1>2, <2>1 DEF More, Body, Packet
  <2>3. CASE plan[w].kind # "CHUNK"
    <3>1. plan[w].boundary \in Boundaries \cup {NoBoundary}
      BY PlanFacts
    <3>2. PICK t \in Seq(Quiet) : t = <<Flag(plan[w].boundary)>> \o HTTP_SEP /\ t # <<>>
      BY <3>1, EndsQuiet
    <3>3. wire' = wire \o t
      BY <1>4, <2>3, <3>2
    <3>4. pc[w] # "data" /\ "data" \in {"part", "data", "done"}
      BY <1>1
    <3> HIDE DEF h, head
    <3> QED BY <1>1, <1>2, <1>4, <2>2, <2>3, <3>2, <3>3, <3>4, QuietSizes
  <2>4. CASE plan[w].kind = "CHUNK"
    <3>1. PICK n \in Nat \ {0} : n = Len(Body(w))
      BY <1>1, <1>2, DataType DEF Null
    <3>2. h = SizeFront(n)
      BY <2>4, <3>1, SizeFrontType
    <3>3. /\ SizeFront(n) \in Seq(Sym) /\ Len(SizeFront(n)) = 3 /\ SizeFront(n)[1][1] = "size"
          /\ \A i \in Nat : ChunkAt(SizeFront(n), i) => i = 1
      BY SizeFrontType
    <3> HIDE DEF h, head
    <3>4. \A v \in Workers : ~InChunk(v)
      BY <1>1, <1>2 DEF InChunk, Active
    <3>5. ChunksWhole(wire) /\ wire \in Seq(Sym)
      BY <1>4, <3>4 DEF SizesInv
    <3>6. Agreeing(wire \o SizeFront(n))
      BY <3>3, <3>5, FirstLineAdded
    <3>7. wire \o SizeFront(n) \in Seq(Sym)
      BY <3>3, <3>5, ConcatProperties
    <3>8. Agreeing(wire') /\ wire' \in Seq(Sym) /\ wire' = wire \o SizeFront(n)
      BY <1>4, <3>2, <3>6, <3>7
    <3>9. \A v \in Workers : (Active(v) \/ pc[v] = "data" \/ InChunk(v))' => v = w
      BY <1>2, <2>1 DEF Active, InChunk
    <3>10. InChunk(w)' /\ plan'[w].kind = "CHUNK" /\ ~broken'
      BY <1>1, <1>4, <2>1, <2>4 DEF InChunk
    <3>11. Len(Body(w)') = n
      BY <2>2, <3>1
    <3>12. \A v \in Workers : InChunk(v)' =>
              \E s \in Seq(Sym) : ChunksWhole(s) /\ wire' = s \o SizeFront(Len(Body(v)'))
      BY <3>5, <3>8, <3>9, <3>11
    <3>13. \A q \in DOMAIN packets' : packets'[q] \in Seq(Plain)
      BY <1>1, <1>2
    <3> QED BY <2>2, <3>8, <3>9, <3>10, <3>12, <3>13 DEF SizesInv
  <2> QED BY <2>3, <2>4
<1> HIDE DEF h
<1> QED BY <1>1, <1>3, <1>4 DEF Sent

\* An empty part, or the end, is sent.
LEMMA SendLastSizes ==
  ASSUME IInv, SizesInv, NEW w \in Workers, SendLast(w)
  PROVE  SizesInv'
<1>1. /\ pc[w] = "part" /\ Active(w)
      /\ UNCHANGED <<plan, packets>>
  BY DEF SendLast, Active
<1>2. PICK t \in Seq(Quiet), where \in {"part", "done"} :
         /\ t # <<>> /\ (plan[w].kind = "CHUNK" => t[1][1] = "size")
         /\ Sent(w, t, where, After(w))
  <2>1. plan[w].boundary \in Boundaries \cup {NoBoundary}
    BY PlanFacts
  <2>2. Sent(w, IF plan[w].kind = "CHUNK" THEN SendChunkBody(Null)
                                          ELSE SendBoundaryBody(Null, plan[w].boundary),
             IF More(w) THEN "part" ELSE "done", After(w))
    BY DEF SendLast
  <2> QED BY <2>1, <2>2, EndsQuiet
<1>3. /\ \A v \in Workers : Active(v) => v = w
      /\ \A q \in DOMAIN packets : packets[q] \in Seq(Plain)
      /\ ~broken /\ plan[w].kind # "CHUNK" => ~EndsInChunk(wire)
  BY <1>1, SizesFacts
<1>4. CASE broken' = TRUE /\ Go(w, "failed", 1) /\ UNCHANGED wire
  <2>1. \A q \in DOMAIN packets' : packets'[q] \in Seq(Plain)
    BY <1>1, <1>3
  <2> QED BY <1>1, <1>3, <1>4, <2>1, FailSizes
<1>5. CASE ~broken /\ wire' = wire \o t /\ Go(w, where, After(w)) /\ UNCHANGED broken
  <2>1. where \in {"part", "data", "done"} /\ where # "data" /\ pc[w] # "data"
    BY <1>1
  <2>2. t # <<>> /\ (EndsInChunk(wire) => t[1][1] \in {"size", "line"})
    BY <1>2, <1>3, <1>5
  <2> QED BY <1>1, <1>3, <1>5, <2>1, <2>2, QuietSizes
<1> QED BY <1>2, <1>4, <1>5 DEF Sent

\* The packet of a part is sent with its separator: its size is that of the line
\* before it, because nobody else was sending.
LEMMA SendDataSizes ==
  ASSUME IInv, SizesInv, NEW w \in Workers, SendData(w)
  PROVE  SizesInv'
<1> DEFINE p == Packet(w)
           c == Body(w)
<1>1. /\ pc[w] = "data" /\ Active(w)
      /\ packets' = [packets EXCEPT ![p] = packets[p] \o HTTP_SEP]
      /\ Sent(w, packets'[p], "part", next[w] + 1)
      /\ UNCHANGED <<plan, items, begun, meant, connects>>
  BY DEF SendData, Active
<1>2. /\ \A v \in Workers : Active(v) => v = w
      /\ \A q \in DOMAIN packets : packets[q] \in Seq(Plain)
      /\ c \in Seq(Plain)
      /\ ~broken /\ plan[w].kind # "CHUNK" => ~EndsInChunk(wire)
  BY <1>1, SizesFacts
<1>3. More(w) /\ c # Null
  BY <1>1 DEF SizesInv
<1>4. p \in DOMAIN packets /\ c = packets[p]
  <2>1. next[w] \in Nat \ {0}
    BY AfterType
  <2>2. p \in DOMAIN packets
    BY <1>3, <2>1, PlanFacts DEF Packet, More
  <2> QED BY <1>3, <2>2 DEF Body
<1>5. PICK d \in Seq(Plain) : d = c \o HTTP_SEP
  BY <1>2, <1>3, DataType DEF Null
<1> HIDE DEF p, c
<1>6. packets'[p] = d /\ \A q \in DOMAIN packets' : packets'[q] \in Seq(Plain)
  BY <1>1, <1>2, <1>4, <1>5
<1>7. CASE broken' = TRUE /\ Go(w, "failed", 1) /\ UNCHANGED wire
  BY <1>1, <1>2, <1>6, <1>7, FailSizes
<1>8. CASE ~broken /\ wire' = wire \o d /\ Go(w, "part", next[w] + 1) /\ UNCHANGED broken
  <2>0. pc \in [Workers -> {"set", "part", "data", "done", "failed"}]
    BY DEF IInv, TypeOK
  <2>1. pc'[w] = "part" /\ \A v \in Workers : v # w => pc'[v] = pc[v]
    BY <1>8, <2>0 DEF Go
  <2>2. \A v \in Workers : (Active(v)' => v = w) /\ pc'[v] # "data" /\ ~InChunk(v)'
    BY <1>2, <2>1 DEF Active, InChunk
  <2>3. /\ ChunksWhole(wire') /\ wire' \in Seq(Sym)
        /\ plan[w].kind # "CHUNK" => ~EndsInChunk(wire')
    <3>1. d \in Seq(Sym) /\ d \in Seq(Quiet) /\ \A i \in Nat : ~ChunkAt(d, i)
      BY NoChunk, QuietSymbols, SeqMonotonic
    <3>2. wire \in Seq(Sym)
      BY DEF SizesInv
    <3>3. wire \o d \in Seq(Sym)
      BY <3>1, <3>2, ConcatProperties
    <3>4. CASE plan[w].kind = "CHUNK"
      <4>1. InChunk(w)
        BY <1>1, <3>4 DEF InChunk
      <4>2. PICK s \in Seq(Sym) : ChunksWhole(s) /\ wire = s \o SizeFront(Len(c))
        BY <1>8, <4>1 DEF SizesInv, c
      <4>3. ChunksWhole((s \o SizeFront(Len(c))) \o (c \o HTTP_SEP))
        BY <1>2, <1>3, <4>2, ChunkAdded DEF Null
      <4> QED BY <1>5, <1>8, <3>3, <3>4, <4>2, <4>3
    <3>5. CASE plan[w].kind # "CHUNK"
      <4>1. \A v \in Workers : ~InChunk(v)
        BY <1>2, <3>5 DEF InChunk, Active
      <4>2. ChunksWhole(wire) /\ ~EndsInChunk(wire)
        BY <1>2, <1>8, <3>5, <4>1 DEF SizesInv
      <4>3. d # <<>>
        <5>1. Len(d) \in Nat \ {0}
          <6>1. Len(c \o HTTP_SEP) = Len(c) + 2 /\ Len(c) \in Nat \ {0}
            BY <1>2, <1>3, DataType DEF Null
          <6> QED BY <1>5, <6>1
        <5> QED BY <5>1, EmptySeq
      <4>4. ChunksWhole(wire \o d) /\ ~EndsInChunk(wire \o d)
        BY <3>1, <3>2, <4>2, <4>3, ChunksExtended
      <4> QED BY <1>8, <3>3, <4>4
    <3> QED BY <3>4, <3>5
  <2>4. Agreeing(wire')
    BY <2>3, WholeIsEnough
  <2>5. \A v \in Workers : Active(v)' /\ plan'[v].kind # "CHUNK" => ~EndsInChunk(wire')
    BY <1>1, <2>2, <2>3
  <2> QED BY <1>6, <2>2, <2>3, <2>4, <2>5 DEF SizesInv
<1> QED BY <1>1, <1>6, <1>7, <1>8 DEF Sent

\* A step that sends nothing and changes nobody who is sending.
LEMMA StillSizes ==
  ASSUME IInv, SizesInv, UNCHANGED <<plan, packets, wire, broken>>,
         \A w \in Workers :
           (pc'[w] = pc[w] /\ next'[w] = next[w]) \/ (~Active(w) /\ ~Active(w)')
  PROVE  SizesInv'
<1>1. \A w \in Workers : /\ Active(w)' <=> Active(w)
                         /\ pc'[w] = "data" <=> pc[w] = "data"
                         /\ Active(w) => pc'[w] = pc[w] /\ next'[w] = next[w]
  BY DEF Active
<1>2. \A w \in Workers : (InChunk(w)' <=> InChunk(w)) /\ (pc[w] = "data" => Active(w))
  BY <1>1 DEF InChunk, Active
<1>3. \A w \in Workers : Active(w) => (More(w)' <=> More(w)) /\ Body(w)' = Body(w)
  <2>1. ASSUME NEW w \in Workers, Active(w) PROVE (More(w)' <=> More(w)) /\ Body(w)' = Body(w)
    <3>1. next'[w] = next[w] /\ plan' = plan /\ packets' = packets
      BY <1>1, <2>1
    <3>2. More(w)' <=> More(w)
      BY <3>1 DEF More
    <3>3. Packet(w)' = Packet(w)
      BY <3>1 DEF Packet
    <3> QED BY <3>1, <3>2, <3>3 DEF Body
  <2> QED BY <2>1
<1>4. \A w \in Workers : pc'[w] = "data" => (More(w) /\ Body(w) # Null)'
  BY <1>1, <1>2, <1>3 DEF SizesInv
<1>5. ~broken' =>
       /\ (\A w \in Workers : ~InChunk(w)') => ChunksWhole(wire')
       /\ \A w \in Workers : Active(w)' /\ plan'[w].kind # "CHUNK" => ~EndsInChunk(wire')
       /\ \A w \in Workers : InChunk(w)' =>
            \E s \in Seq(Sym) : ChunksWhole(s) /\ wire' = s \o SizeFront(Len(Body(w)'))
  <2>1. \A w \in Workers : InChunk(w) => Active(w)
    BY <1>2 DEF InChunk
  <2> QED BY <1>1, <1>2, <1>3, <2>1 DEF SizesInv
<1>6. /\ \A v, w \in Workers : Active(v)' /\ Active(w)' => v = w
      /\ \A q \in DOMAIN packets' : packets'[q] \in Seq(Plain)
      /\ wire' \in Seq(Sym) /\ Agreeing(wire')
  BY <1>1 DEF SizesInv
<1> QED BY <1>4, <1>5, <1>6 DEF SizesInv

\* Another client: nobody is sending, and nothing was sent.
LEMMA ReconnectSizes == ASSUME IInv, SizesInv, Reconnect PROVE SizesInv'
<1>1. /\ wire' = <<>> /\ packets' = packets
      /\ \A w \in Workers : pc[w] \in {"set", "done", "failed"}
      /\ pc' = [w \in Workers |-> IF pc[w] = "failed" THEN "set" ELSE pc[w]]
  BY DEF Reconnect
<1>2. <<>> \in Seq(Sym)
  OBVIOUS
<1>3. \A w \in Workers : ~Active(w)' /\ pc'[w] # "data" /\ ~InChunk(w)'
  BY <1>1 DEF Active, InChunk
<1>4. \A q \in DOMAIN packets' : packets'[q] \in Seq(Plain)
  BY <1>1 DEF SizesInv
<1> QED BY <1>1, <1>2, <1>3, <1>4, EmptyWire DEF SizesInv

\* Every step of the coroutines keeps it.
LEMMA NextSizes ==
  ASSUME IInv, SizesInv, plan \in Serial, [Next]_vars
  PROVE  SizesInv'
<1>0. pc \in [Workers -> {"set", "part", "data", "done", "failed"}]
  BY DEF IInv, TypeOK
<1>1. ASSUME NEW w \in Workers, SetItem(w) PROVE SizesInv'
  <2>1. pc[w] = "set" /\ Go(w, "set", next[w] + 1) /\ UNCHANGED <<plan, packets, wire, broken>>
    BY <1>1 DEF SetItem, link
  <2>2. next \in [Workers -> Nat \ {0}]
    BY DEF IInv, TypeOK
  <2>3. \A v \in Workers :
           (pc'[v] = pc[v] /\ next'[v] = next[v]) \/ (~Active(v) /\ ~Active(v)')
    BY <1>0, <2>1, <2>2 DEF Go, Active
  <2> QED BY <2>1, <2>3, StillSizes
<1>2. ASSUME NEW w \in Workers, SendReq(w) PROVE SizesInv'
  BY <1>2, SendReqSizes
<1>3. ASSUME NEW w \in Workers, SendBody(w) PROVE SizesInv'
  BY <1>3, SendBodySizes
<1>4. ASSUME NEW w \in Workers, SendSize(w) PROVE SizesInv'
  BY <1>4, SendSizeSizes
<1>5. ASSUME NEW w \in Workers, SendLast(w) PROVE SizesInv'
  BY <1>5, SendLastSizes
<1>6. ASSUME NEW w \in Workers, SendData(w) PROVE SizesInv'
  BY <1>6, SendDataSizes
<1>7. CASE Reconnect
  BY <1>7, ReconnectSizes
<1>8. CASE UNCHANGED vars
  <2>1. pc' = pc /\ next' = next /\ UNCHANGED <<plan, packets, wire, broken>>
    BY <1>8 DEF vars, work, link
  <2> QED BY <2>1, StillSizes
<1> QED BY <1>1, <1>2, <1>3, <1>4, <1>5, <1>6, <1>7, <1>8 DEF Next, Ended

\* When the packets hold payload at first, the size in front of a chunk is always that of the data
\* behind it, also when a packet is sent a second time with the separator that send_chunked_data
\* left in it, and whatever comes behind the chunk begins a chunk or a request (SizesAgree).
THEOREM SizesAlwaysAgree ==
  ASSUME \A q \in DOMAIN Packets0 : Packets0[q] \in Seq({"data"} \X Data)
  PROVE  Spec => []SizesAgree
<1> DEFINE Inv == IInv /\ (plan \in Serial => SizesInv)
<1>1. Init => Inv
  BY InitInvariant, InitSizes
<1>2. Inv /\ [Next]_vars => Inv'
  <2> SUFFICES ASSUME Inv, [Next]_vars PROVE Inv'
    OBVIOUS
  <2>1. IInv'
    BY NextInvariant
  <2>2. UNCHANGED plan
    BY DEF Next, SetItem, SendReq, SendBody, SendSize, SendLast, SendData, Reconnect, Ended, vars,
           work
  <2>3. ASSUME (plan \in Serial)' PROVE SizesInv'
    BY <2>2, <2>3, NextSizes
  <2> QED BY <2>1, <2>3
<1>3. Inv => SizesAgree
  BY DEF SizesAgree, SizesInv, Agreeing
<1> QED BY <1>1, <1>2, <1>3, PTL DEF Spec
-----------------------------------------------------------------------------
(* What the parser makes of the header of a request. *)

\* The separator and the end flag, whatever else is on the wire.
LEMMA SeparatorIs ==
  ASSUME NEW S, CR \in S, LF \in S
  PROVE  /\ HTTP_SEP \in Seq(S) /\ Len(HTTP_SEP) = 2 /\ HTTP_SEP[1] = CR /\ HTTP_SEP[2] = LF
         /\ HTTP_END_FLAG \in Seq(S) /\ Len(HTTP_END_FLAG) = 4
         /\ HTTP_END_FLAG[1] = CR /\ HTTP_END_FLAG[2] = LF
         /\ HTTP_END_FLAG[3] = CR /\ HTTP_END_FLAG[4] = LF
<1> DEFINE a == CR
           b == LF
<1>1. a \in S /\ b \in S
  OBVIOUS
<1>2. HTTP_SEP = <<a, b>> /\ HTTP_END_FLAG = <<a, b, a, b>>
  BY DEF HTTP_SEP, HTTP_END_FLAG
<1> HIDE DEF a, b
<1>3. <<a, b>> \in Seq(S) /\ <<a, b, a, b>> \in Seq(S)
  BY <1>1
<1>4. HTTP_SEP \in Seq(S) /\ Len(HTTP_SEP) = 2 /\ HTTP_SEP[1] = a /\ HTTP_SEP[2] = b
  BY <1>2, <1>3
<1>5. /\ HTTP_END_FLAG \in Seq(S) /\ Len(HTTP_END_FLAG) = 4
      /\ HTTP_END_FLAG[1] = a /\ HTTP_END_FLAG[2] = b
      /\ HTTP_END_FLAG[3] = a /\ HTTP_END_FLAG[4] = b
  BY <1>2, <1>3
<1> QED BY <1>4, <1>5 DEF a, b

\* The lines of a header have three symbols each: the field, a and b.
LinesOf(t, n, e, a, b) ==
  /\ Len(t) = 3 * n
  /\ \A i \in 1 .. n : t[3 * i - 2] = e[i] /\ t[3 * i - 1] = a /\ t[3 * i] = b

\* Lines of three symbols, one behind the other.
LEMMA LinesTogether ==
  ASSUME NEW S, NEW lines \in Seq(Seq(S)), NEW e, NEW a, NEW b,
         \A i \in 1 .. Len(lines) : /\ Len(lines[i]) = 3 /\ lines[i][1] = e[i]
                                    /\ lines[i][2] = a /\ lines[i][3] = b
  PROVE  FlattenSeq(lines) \in Seq(S) /\ LinesOf(FlattenSeq(lines), Len(lines), e, a, b)
<1> DEFINE n == Len(lines)
<1>1. n \in Nat
  BY LenProperties
<1>2. PICK f : Flattens(f, lines, S)
  BY FlattensExists
<1>3. FlattenSeq(lines) = f[n]
  BY <1>2, FlattenResult
<1> DEFINE N == {k \in Nat : k <= n => f[k] \in Seq(S) /\ LinesOf(f[k], k, e, a, b)}
<1>4. 0 \in N
  <2>1. f[0] = <<>>
    BY <1>2 DEF Flattens
  <2>2. <<>> \in Seq(S) /\ Len(<<>>) = 0
    BY EmptySeq
  <2>3. 1 .. 0 = {} /\ 3 * 0 = 0
    OBVIOUS
  <2> QED BY <1>1, <2>1, <2>2, <2>3 DEF LinesOf
<1>5. ASSUME NEW k \in N PROVE k + 1 \in N
  <2> SUFFICES ASSUME k + 1 <= n
               PROVE  f[k + 1] \in Seq(S) /\ LinesOf(f[k + 1], k + 1, e, a, b)
    OBVIOUS
  <2>1. k \in Nat /\ k + 1 \in 1 .. n /\ k <= n /\ (k + 1) - 1 = k
    BY <1>1
  <2>2. f[k] \in Seq(S) /\ LinesOf(f[k], k, e, a, b)
    BY <2>1
  <2>3. f[k + 1] = f[k] \o lines[k + 1]
    BY <1>2, <2>1 DEF Flattens
  <2> DEFINE old == f[k]
             line == lines[k + 1]
             new  == f[k + 1]
  <2>4. line \in Seq(S) /\ Len(line) = 3 /\ line[1] = e[k + 1] /\ line[2] = a /\ line[3] = b
    BY <2>1, ElementOfSeq
  <2> HIDE DEF old, line, new, N
  <2>5. old \in Seq(S) /\ Len(old) = 3 * k
        /\ \A i \in 1 .. k : old[3 * i - 2] = e[i] /\ old[3 * i - 1] = a /\ old[3 * i] = b
    BY <2>2 DEF LinesOf, old
  <2>6. /\ new \in Seq(S) /\ Len(new) = 3 * k + 3
        /\ \A i \in 1 .. 3 * k + 3 : new[i] = IF i <= 3 * k THEN old[i] ELSE line[i - 3 * k]
    <3>1. new = old \o line
      BY <2>3 DEF new, old, line
    <3>2. /\ new \in Seq(S) /\ Len(new) = Len(old) + Len(line)
          /\ \A i \in 1 .. Len(old) + Len(line) :
               new[i] = IF i <= Len(old) THEN old[i] ELSE line[i - Len(old)]
      <4>1. old \in Seq(S) /\ line \in Seq(S)
        BY <2>4, <2>5
      <4>2. /\ old \o line \in Seq(S) /\ Len(old \o line) = Len(old) + Len(line)
            /\ \A i \in 1 .. Len(old) + Len(line) :
                 (old \o line)[i] = IF i <= Len(old) THEN old[i] ELSE line[i - Len(old)]
        BY <4>1, ConcatProperties
      <4> QED BY <3>1, <4>2, Zenon
    <3> QED BY <2>1, <2>4, <2>5, <3>2
  <2>7. ASSUME NEW i \in 1 .. k + 1
        PROVE  new[3 * i - 2] = e[i] /\ new[3 * i - 1] = a /\ new[3 * i] = b
    <3>1. CASE i \in 1 .. k
      <4>1. /\ 3 * i - 2 \in 1 .. 3 * k + 3 /\ 3 * i - 2 <= 3 * k
            /\ 3 * i - 1 \in 1 .. 3 * k + 3 /\ 3 * i - 1 <= 3 * k
            /\ 3 * i \in 1 .. 3 * k + 3 /\ 3 * i <= 3 * k
        BY <2>1, <3>1
      <4> QED BY <2>5, <2>6, <3>1, <4>1
    <3>2. CASE i = k + 1
      <4>1. /\ 3 * i - 2 = 3 * k + 1 /\ 3 * i - 1 = 3 * k + 2 /\ 3 * i = 3 * k + 3
        BY <2>1, <3>2
      <4>2. /\ new[3 * k + 1] = line[1] /\ new[3 * k + 2] = line[2] /\ new[3 * k + 3] = line[3]
        <5>1. /\ 3 * k + 1 \in 1 .. 3 * k + 3 /\ 3 * k + 2 \in 1 .. 3 * k + 3
              /\ 3 * k + 3 \in 1 .. 3 * k + 3
              /\ (3 * k + 1) - 3 * k = 1 /\ (3 * k + 2) - 3 * k = 2 /\ (3 * k + 3) - 3 * k = 3
              /\ ~ (3 * k + 1 <= 3 * k) /\ ~ (3 * k + 2 <= 3 * k) /\ ~ (3 * k + 3 <= 3 * k)
          BY <2>1
        <5> QED BY <2>6, <5>1
      <4> QED BY <2>4, <3>2, <4>1, <4>2
    <3> QED BY <2>1, <3>1, <3>2
  <2>8. 3 * k + 3 = 3 * (k + 1)
    BY <2>1
  <2> QED BY <2>6, <2>7, <2>8 DEF LinesOf, new
<1>6. N = Nat
  <2> HIDE DEF N
  <2>1. N \in SUBSET Nat
    BY DEF N
  <2> QED BY <1>4, <1>5, <2>1, Induction
<1>7. f[n] \in Seq(S) /\ LinesOf(f[n], n, e, a, b)
  BY <1>1, <1>6
<1> QED BY <1>3, <1>7

\* A header with n fields: where what is in it.
HeaderOf(h, n, first, e) ==
  /\ Len(h) = 3 * n + 5
  /\ h[1] = first /\ h[2] = CR /\ h[3] = LF
  /\ \A i \in 1 .. n : h[3 * i + 1] = e[i] /\ h[3 * i + 2] = CR /\ h[3 * i + 3] = LF
  /\ h[3 * n + 4] = CR /\ h[3 * n + 5] = LF

\* The lines between the first one and the empty one.
LEMMA HeaderTogether ==
  ASSUME NEW S, NEW first \in S, CR \in S, LF \in S, NEW n \in Nat, NEW e, NEW t \in Seq(S),
         LinesOf(t, n, e, CR, LF)
  PROVE  /\ <<first>> \o HTTP_SEP \o t \o HTTP_SEP \in Seq(S)
         /\ HeaderOf(<<first>> \o HTTP_SEP \o t \o HTTP_SEP, n, first, e)
<1>1. PICK sep \in Seq(S) : sep = HTTP_SEP /\ Len(sep) = 2 /\ sep[1] = CR /\ sep[2] = LF
  BY SeparatorIs, Zenon
<1>2. PICK one \in Seq(S) : one = <<first>> /\ Len(one) = 1 /\ one[1] = first
  <2>1. <<first>> \in Seq(S) /\ Len(<<first>>) = 1 /\ <<first>>[1] = first
    OBVIOUS
  <2> QED BY <2>1
<1>3. Len(t) = 3 * n /\ \A i \in 1 .. n : t[3 * i - 2] = e[i] /\ t[3 * i - 1] = CR /\ t[3 * i] = LF
  BY DEF LinesOf
<1>4. PICK a \in Seq(S) : /\ a = one \o sep /\ Len(a) = 3
                          /\ a[1] = first /\ a[2] = CR /\ a[3] = LF
  <2>1. /\ one \o sep \in Seq(S) /\ Len(one \o sep) = Len(one) + Len(sep)
        /\ \A i \in 1 .. Len(one) + Len(sep) :
             (one \o sep)[i] = IF i <= Len(one) THEN one[i] ELSE sep[i - Len(one)]
    BY ConcatProperties
  <2>2. 1 + 2 = 3 /\ 2 - 1 = 1 /\ 3 - 1 = 2 /\ 1 \in 1 .. 3 /\ 2 \in 1 .. 3 /\ 3 \in 1 .. 3
        /\ ~ (2 <= 1) /\ ~ (3 <= 1)
    OBVIOUS
  <2>3. /\ Len(one \o sep) = 3
        /\ \A i \in 1 .. 3 : (one \o sep)[i] = IF i <= 1 THEN one[i] ELSE sep[i - 1]
    BY <1>1, <1>2, <2>1, <2>2
  <2>4. (one \o sep)[1] = first /\ (one \o sep)[2] = CR /\ (one \o sep)[3] = LF
    BY <1>1, <1>2, <2>2, <2>3
  <2> QED BY <2>1, <2>3, <2>4
<1>5. PICK c \in Seq(S) : /\ c = a \o t /\ Len(c) = 3 + 3 * n
                          /\ \A i \in 1 .. 3 + 3 * n : c[i] = IF i <= 3 THEN a[i] ELSE t[i - 3]
  <2>1. /\ a \o t \in Seq(S) /\ Len(a \o t) = Len(a) + Len(t)
        /\ \A i \in 1 .. Len(a) + Len(t) :
             (a \o t)[i] = IF i <= Len(a) THEN a[i] ELSE t[i - Len(a)]
    BY ConcatProperties
  <2>2. Len(a) = 3 /\ Len(t) = 3 * n
    BY <1>3, <1>4
  <2> QED BY <2>1, <2>2
<1>6. PICK h \in Seq(S) :
        /\ h = c \o sep /\ Len(h) = 3 + 3 * n + 2
        /\ \A i \in 1 .. 3 + 3 * n + 2 : h[i] = IF i <= 3 + 3 * n THEN c[i] ELSE sep[i - (3 + 3 * n)]
  <2>1. /\ c \o sep \in Seq(S) /\ Len(c \o sep) = Len(c) + Len(sep)
        /\ \A i \in 1 .. Len(c) + Len(sep) :
             (c \o sep)[i] = IF i <= Len(c) THEN c[i] ELSE sep[i - Len(c)]
    BY ConcatProperties
  <2>2. Len(c) = 3 + 3 * n /\ Len(sep) = 2
    BY <1>1, <1>5
  <2> QED BY <2>1, <2>2
<1>7. h = <<first>> \o HTTP_SEP \o t \o HTTP_SEP
  BY <1>1, <1>2, <1>4, <1>5, <1>6
<1>8. h[1] = first /\ h[2] = CR /\ h[3] = LF
  <2>1. \A i \in 1 .. 3 : i \in 1 .. 3 + 3 * n + 2 /\ i <= 3 + 3 * n /\ i \in 1 .. 3 + 3 * n
    OBVIOUS
  <2>2. \A i \in 1 .. 3 : h[i] = a[i]
    BY <1>5, <1>6, <2>1
  <2>3. 1 \in 1 .. 3 /\ 2 \in 1 .. 3 /\ 3 \in 1 .. 3
    OBVIOUS
  <2> QED BY <1>4, <2>2, <2>3
<1>9. ASSUME NEW i \in 1 .. n
      PROVE  h[3 * i + 1] = e[i] /\ h[3 * i + 2] = CR /\ h[3 * i + 3] = LF
  <2>1. \A j \in 3 * i + 1 .. 3 * i + 3 : h[j] = t[j - 3]
    <3> SUFFICES ASSUME NEW j \in 3 * i + 1 .. 3 * i + 3 PROVE h[j] = t[j - 3]
      OBVIOUS
    <3>1. /\ j \in 1 .. 3 + 3 * n + 2 /\ j <= 3 + 3 * n /\ j \in 1 .. 3 + 3 * n /\ ~ (j <= 3)
      OBVIOUS
    <3> QED BY <1>5, <1>6, <3>1
  <2>2. PICK x \in 3 * i + 1 .. 3 * i + 3, y \in 3 * i + 1 .. 3 * i + 3, z \in 3 * i + 1 .. 3 * i + 3 :
          /\ x = 3 * i + 1 /\ x - 3 = 3 * i - 2
          /\ y = 3 * i + 2 /\ y - 3 = 3 * i - 1
          /\ z = 3 * i + 3 /\ z - 3 = 3 * i
    <3>1. /\ 3 * i + 1 \in 3 * i + 1 .. 3 * i + 3 /\ (3 * i + 1) - 3 = 3 * i - 2
          /\ 3 * i + 2 \in 3 * i + 1 .. 3 * i + 3 /\ (3 * i + 2) - 3 = 3 * i - 1
          /\ 3 * i + 3 \in 3 * i + 1 .. 3 * i + 3 /\ (3 * i + 3) - 3 = 3 * i
      OBVIOUS
    <3> QED BY <3>1, Zenon
  <2>3. /\ h[x] = t[x - 3] /\ h[y] = t[y - 3] /\ h[z] = t[z - 3]
    BY <2>1, Zenon
  <2>4. /\ h[3 * i + 1] = t[3 * i - 2] /\ h[3 * i + 2] = t[3 * i - 1] /\ h[3 * i + 3] = t[3 * i]
    BY <2>2, <2>3, Zenon
  <2>5. t[3 * i - 2] = e[i] /\ t[3 * i - 1] = CR /\ t[3 * i] = LF
    BY <1>3, Zenon
  <2> QED BY <2>4, <2>5, Zenon
<1>10. h[3 * n + 4] = CR /\ h[3 * n + 5] = LF
  <2>1. /\ 3 * n + 4 \in 1 .. 3 + 3 * n + 2 /\ 3 * n + 5 \in 1 .. 3 + 3 * n + 2
        /\ ~ (3 * n + 4 <= 3 + 3 * n) /\ ~ (3 * n + 5 <= 3 + 3 * n)
        /\ (3 * n + 4) - (3 + 3 * n) = 1 /\ (3 * n + 5) - (3 + 3 * n) = 2
    OBVIOUS
  <2> QED BY <1>1, <1>6, <2>1
<1>11. 3 + 3 * n + 2 = 3 * n + 5
  OBVIOUS
<1>12. HeaderOf(h, n, first, e)
  BY <1>6, <1>8, <1>9, <1>10, <1>11 DEF HeaderOf
<1> QED BY <1>7, <1>12

\* search finds a pattern that is there.
LEMMA PatternFound ==
  ASSUME NEW S, NEW s \in Seq(S), NEW pat \in Seq(S), NEW from \in Nat \ {0},
         NEW i \in Nat, from <= i, i + Len(pat) - 1 <= Len(s),
         \A k \in 1 .. Len(pat) : s[i + k - 1] = pat[k]
  PROVE  Search(s, pat, from) # 0
<1> DEFINE n    == Len(pat)
           hits == {j \in from .. (Len(s) - n + 1) : SubSeq(s, j, j + n - 1) = pat}
<1>1. n \in Nat /\ Len(s) \in Nat
  BY LenProperties
<1>2. SubSeq(s, i, i + n - 1) = pat
  <2>1. \A j \in i .. i + n - 1 : s[j] \in S
    <3> SUFFICES ASSUME NEW j \in i .. i + n - 1 PROVE s[j] \in S
      OBVIOUS
    <3>1. j \in 1 .. Len(s)
      BY <1>1
    <3> QED BY <3>1, ElementOfSeq
  <2>2. i \in Int /\ i + n - 1 \in Int /\ (i + n - 1) - i + 1 = n /\ (i <= i + n - 1 <=> n # 0)
    BY <1>1
  <2> HIDE DEF n
  <2>3. /\ SubSeq(s, i, i + n - 1) \in Seq(S)
        /\ Len(SubSeq(s, i, i + n - 1)) = IF i <= i + n - 1 THEN (i + n - 1) - i + 1 ELSE 0
        /\ \A k \in 1 .. (i + n - 1) - i + 1 : SubSeq(s, i, i + n - 1)[k] = s[i + k - 1]
    BY <2>1, <2>2, SubSeqProperties
  <2>4. Len(SubSeq(s, i, i + n - 1)) = n
    BY <1>1, <2>2, <2>3
  <2>5. \A k \in 1 .. n : SubSeq(s, i, i + n - 1)[k] = pat[k]
    BY <2>2, <2>3 DEF n
  <2> QED BY <2>3, <2>4, <2>5, SeqEqual DEF n
<1>3. i \in hits
  BY <1>1, <1>2
<1>4. hits \in SUBSET (Nat \ {0})
  BY <1>1
<1>5. Search(s, pat, from) = First(hits)
  BY DEF Search
<1> HIDE DEF hits
<1> QED BY <1>3, <1>4, <1>5, FirstIsLeast

\* The separators of a header, and its end.
LEMMA HeaderEnds ==
  ASSUME NEW S, CR \in S, LF \in S, NEW h \in Seq(S), NEW n \in Nat, NEW first, NEW e,
         HeaderOf(h, n, first, e)
  PROVE  /\ Search(h, HTTP_END_FLAG, 1) # 0
         /\ \A i \in 1 .. n : Search(h, HTTP_SEP, 3 * i + 1) # 0
<1>1. /\ Len(h) = 3 * n + 5
      /\ h[2] = CR /\ h[3] = LF
      /\ \A i \in 1 .. n : h[3 * i + 2] = CR /\ h[3 * i + 3] = LF
      /\ h[3 * n + 4] = CR /\ h[3 * n + 5] = LF
  BY DEF HeaderOf
<1>2. PICK sep \in Seq(S) : sep = HTTP_SEP /\ Len(sep) = 2 /\ sep[1] = CR /\ sep[2] = LF
  BY SeparatorIs, Zenon
<1>3. PICK end \in Seq(S) : /\ end = HTTP_END_FLAG /\ Len(end) = 4 /\ end[1] = CR /\ end[2] = LF
                            /\ end[3] = CR /\ end[4] = LF
  BY SeparatorIs, Zenon
<1>4. h[3 * n + 2] = CR /\ h[3 * n + 3] = LF
  <2>1. CASE n = 0
    BY <1>1, <2>1
  <2>2. CASE n # 0
    <3>1. n \in 1 .. n
      BY <2>2
    <3> QED BY <1>1, <3>1
  <2> QED BY <2>1, <2>2
<1>5. Search(h, end, 1) # 0
  <2>1. ASSUME NEW k \in 1 .. 4 PROVE h[(3 * n + 2) + k - 1] = end[k]
    <3>1. /\ k = 1 \/ k = 2 \/ k = 3 \/ k = 4
          /\ (3 * n + 2) + 1 - 1 = 3 * n + 2 /\ (3 * n + 2) + 2 - 1 = 3 * n + 3
          /\ (3 * n + 2) + 3 - 1 = 3 * n + 4 /\ (3 * n + 2) + 4 - 1 = 3 * n + 5
      OBVIOUS
    <3> QED BY <1>1, <1>3, <1>4, <3>1
  <2>2. 3 * n + 2 \in Nat /\ 1 <= 3 * n + 2 /\ (3 * n + 2) + 4 - 1 <= Len(h) /\ 1 \in Nat \ {0}
    BY <1>1
  <2>3. /\ (3 * n + 2) + Len(end) - 1 <= Len(h)
        /\ \A k \in 1 .. Len(end) : h[(3 * n + 2) + k - 1] = end[k]
    BY <1>3, <2>1, <2>2
  <2> QED BY <2>2, <2>3, PatternFound
<1>6. ASSUME NEW i \in 1 .. n PROVE Search(h, sep, 3 * i + 1) # 0
  <2>1. ASSUME NEW k \in 1 .. 2 PROVE h[(3 * i + 2) + k - 1] = sep[k]
    <3>1. /\ k = 1 \/ k = 2
          /\ (3 * i + 2) + 1 - 1 = 3 * i + 2 /\ (3 * i + 2) + 2 - 1 = 3 * i + 3
      OBVIOUS
    <3> QED BY <1>1, <1>2, <3>1
  <2>2. /\ 3 * i + 2 \in Nat /\ 3 * i + 1 <= 3 * i + 2 /\ (3 * i + 2) + 2 - 1 <= Len(h)
        /\ 3 * i + 1 \in Nat \ {0}
    BY <1>1
  <2>3. /\ (3 * i + 2) + Len(sep) - 1 <= Len(h)
        /\ \A k \in 1 .. Len(sep) : h[(3 * i + 2) + k - 1] = sep[k]
    BY <1>2, <2>1, <2>2
  <2> QED BY <2>2, <2>3, PatternFound
<1> QED BY <1>2, <1>3, <1>5, <1>6

\* What is at a place of a header.
LEMMA HeaderAt ==
  ASSUME NEW h, NEW n \in Nat, NEW first, NEW e, HeaderOf(h, n, first, e),
         NEW j \in 1 .. 3 * n + 5
  PROVE  h[j] \in {first, CR, LF} \/ \E k \in 1 .. n : j = 3 * k + 1 /\ h[j] = e[k]
<1>1. /\ h[1] = first /\ h[2] = CR /\ h[3] = LF
      /\ \A i \in 1 .. n : h[3 * i + 1] = e[i] /\ h[3 * i + 2] = CR /\ h[3 * i + 3] = LF
      /\ h[3 * n + 4] = CR /\ h[3 * n + 5] = LF
  BY DEF HeaderOf
<1>2. CASE j \in {1, 2, 3, 3 * n + 4, 3 * n + 5}
  BY <1>1, <1>2
<1>3. CASE j \notin {1, 2, 3, 3 * n + 4, 3 * n + 5}
  <2> DEFINE k == (j - 1) \div 3
  <2>1. k \in 1 .. n /\ (j = 3 * k + 1 \/ j = 3 * k + 2 \/ j = 3 * k + 3)
    BY <1>3
  <2> HIDE DEF k
  <2> QED BY <1>1, <2>1
<1> QED BY <1>2, <1>3

\* A text is found in a header when a field holds it, and then there.
LEMMA HeaderSearched ==
  ASSUME NEW S, NEW h \in Seq(S), NEW n \in Nat, NEW first, NEW e, HeaderOf(h, n, first, e),
         NEW T, first[1] \notin T, "CR" \notin T, "LF" \notin T
  PROVE  /\ SearchText(h, T) = 0 <=> ~ \E k \in 1 .. n : e[k][1] \in T
         /\ SearchText(h, T) # 0 =>
              \E k \in 1 .. n : /\ SearchText(h, T) = 3 * k + 1
                                /\ h[SearchText(h, T)] = e[k] /\ e[k][1] \in T
<1> DEFINE hits == {i \in 1 .. Len(h) : h[i][1] \in T}
           f    == SearchText(h, T)
<1>1. Len(h) = 3 * n + 5 /\ \A k \in 1 .. n : h[3 * k + 1] = e[k]
  BY DEF HeaderOf
<1>2. hits \in SUBSET (Nat \ {0}) /\ f = First(hits)
  BY <1>1 DEF SearchText
<1>3. f \in Nat /\ (f # 0 => f \in 1 .. Len(h) /\ h[f][1] \in T)
  BY SearchTextHit
<1>4. CR[1] \notin T /\ LF[1] \notin T
  BY DEF CR, LF
<1>5. f # 0 => \E k \in 1 .. n : f = 3 * k + 1 /\ h[f] = e[k] /\ e[k][1] \in T
  <2> SUFFICES ASSUME f # 0 PROVE \E k \in 1 .. n : f = 3 * k + 1 /\ h[f] = e[k] /\ e[k][1] \in T
    OBVIOUS
  <2> HIDE DEF f
  <2>1. f \in 1 .. 3 * n + 5 /\ h[f][1] \in T
    BY <1>1, <1>3
  <2>2. h[f] \in {first, CR, LF} \/ \E k \in 1 .. n : f = 3 * k + 1 /\ h[f] = e[k]
    BY <2>1, HeaderAt
  <2> QED BY <1>4, <2>1, <2>2
<1>6. ASSUME NEW k \in 1 .. n, e[k][1] \in T PROVE f # 0
  <2>1. 3 * k + 1 \in hits
    BY <1>1, <1>6
  <2> HIDE DEF f, hits
  <2> QED BY <1>2, <2>1, FirstIsLeast
<1> HIDE DEF f
<1> QED BY <1>5, <1>6 DEF f

\* Only four fields matter to the parser.
LEMMA FieldTags ==
  ASSUME NEW item
  PROVE  LET key == Lower[item.key]
             tag == item.value[1]
             f   == Field(item)
         IN /\ f[1] \in {"length", "chunked", "multipart", "item"}
            /\ f[1] = "chunked" <=> key = "transfer-encoding" /\ tag = "chunked"
            /\ f[1] = "multipart" <=> key = "content-type" /\ tag = "multipart"
            /\ f[1] = "length" <=> key = "content-length" /\ tag = "length"
            /\ f[1] \in {"length", "multipart"} => f[2] = item.value[2]
<1> DEFINE key == Lower[item.key]
           tag == item.value[1]
           f   == Field(item)
           c1 == key = "content-length" /\ tag = "length"
           c2 == key = "transfer-encoding" /\ tag = "chunked"
           c3 == key = "content-type" /\ tag = "multipart"
<1>1. CASE c1
  <2>1. f = <<"length", item.value[2]>>
    BY <1>1 DEF Field, ContentLen
  <2> HIDE DEF f
  <2> QED BY <1>1, <2>1 DEF f
<1>2. CASE c2
  <2>1. f = <<"chunked">>
    BY <1>2 DEF Field, Chunked
  <2> HIDE DEF f
  <2> QED BY <1>2, <2>1 DEF f
<1>3. CASE c3
  <2>1. f = <<"multipart", item.value[2]>>
    BY <1>3 DEF Field, Multipart
  <2> HIDE DEF f
  <2> QED BY <1>3, <2>1 DEF f
<1>4. CASE ~c1 /\ ~c2 /\ ~c3
  <2>1. f = <<"item", item>>
    BY <1>4 DEF Field
  <2> HIDE DEF f
  <2> QED BY <1>4, <2>1 DEF f
<1> QED BY <1>1, <1>2, <1>3, <1>4

\* The item i of list has this key, in some spelling, and a value of this tag.
Says(list, i, key, tag) ==
  i \in DOMAIN list /\ Lower[list[i].key] = key /\ list[i].value[1] = tag

\* A parser with any symbols in its buffer.
WideParser == [type : Types, header : Seq(Sym), bodyBytes : Int,
               boundary : Boundaries \cup {NoBoundary},
               pkts : Seq(Sym), chunkBytes : Int]

\* What parse_header makes of a request that is alone in the buffer.
LEMMA RequestRead ==
  ASSUME NEW p \in WideParser, p.type = "INVALID", NEW list \in Seq(Item), NEW u \in Urls,
         HeaderOf(p.pkts, Len(list), Line(u), [i \in DOMAIN list |-> Field(list[i])])
  PROVE  LET q == ParseHeader(p).p
             chunked   == \E i \in DOMAIN list : Says(list, i, "transfer-encoding", "chunked")
             multipart == \E i \in DOMAIN list : Says(list, i, "content-type", "multipart")
             length    == \E i \in DOMAIN list : Says(list, i, "content-length", "length")
         IN /\ chunked => q.type = "CHUNK"
            /\ ~chunked /\ multipart =>
                 \E i \in DOMAIN list :
                   /\ Says(list, i, "content-type", "multipart")
                   /\ list[i].value[2] # NoBoundary =>
                        q.type = "BOUNDARY" /\ q.boundary = list[i].value[2]
            /\ ~chunked /\ ~multipart /\ length =>
                 \E i \in DOMAIN list :
                   /\ Says(list, i, "content-length", "length")
                   /\ list[i].value[2] >= 0 =>
                        q.type = "NORMAL" /\ q.bodyBytes = list[i].value[2]
            /\ ~chunked /\ ~multipart /\ ~length => q.type = "NORMAL" /\ q.bodyBytes = 0
<1> DEFINE n == Len(list)
           e == [i \in DOMAIN list |-> Field(list[i])]
           h == p.pkts
           q == ParseHeader(p).p
           c == Classify(p)
           end == Search(h, HTTP_END_FLAG, 1)
           chunked   == \E i \in DOMAIN list : Says(list, i, "transfer-encoding", "chunked")
           multipart == \E i \in DOMAIN list : Says(list, i, "content-type", "multipart")
           length    == \E i \in DOMAIN list : Says(list, i, "content-length", "length")
<1>1. n \in Nat /\ DOMAIN list = 1 .. n /\ h \in Seq(Sym)
  BY LenProperties DEF WideParser
<1>2. CR \in Sym /\ LF \in Sym
  BY Tags DEF Sym
<1>3. end # 0 /\ \A i \in 1 .. n : Search(h, HTTP_SEP, 3 * i + 1) # 0
  <2> HIDE DEF e, n, h
  <2>1. HeaderOf(h, n, Line(u), e)
    BY DEF e, n, h
  <2> QED BY <1>1, <1>2, <2>1, HeaderEnds
<1>4. \A i \in 1 .. n :
        /\ e[i][1] \in {"length", "chunked", "multipart", "item"}
        /\ e[i][1] = "chunked" <=> Says(list, i, "transfer-encoding", "chunked")
        /\ e[i][1] = "multipart" <=> Says(list, i, "content-type", "multipart")
        /\ e[i][1] = "length" <=> Says(list, i, "content-length", "length")
        /\ e[i][1] \in {"length", "multipart"} => e[i][2] = list[i].value[2]
  <2> TAKE i \in 1 .. n
  <2>1. e[i] = Field(list[i]) /\ i \in DOMAIN list
    BY <1>1
  <2> HIDE DEF e
  <2> QED BY <2>1, FieldTags DEF Says
<1>5. ASSUME NEW T, "line" \notin T, "CR" \notin T, "LF" \notin T
      PROVE  /\ SearchText(h, T) = 0 <=> ~ \E k \in 1 .. n : e[k][1] \in T
             /\ SearchText(h, T) # 0 =>
                  \E k \in 1 .. n : /\ SearchText(h, T) = 3 * k + 1
                                    /\ h[SearchText(h, T)] = e[k] /\ e[k][1] \in T
  <2> HIDE DEF e, n, h
  <2>1. HeaderOf(h, n, Line(u), e)
    BY DEF e, n, h
  <2>2. Line(u)[1] \notin T
    BY <1>5 DEF Line
  <2> QED BY <1>1, <1>5, <2>1, <2>2, HeaderSearched
<1> DEFINE upgradeAt   == SearchText(h, {"upgrade"})
           chunkedAt   == SearchText(h, {"chunked"})
           multipartAt == SearchText(h, {"multipart"})
           lengthAt    == SearchText(h, {"length"})
<1>6. upgradeAt = 0
  BY <1>4, <1>5
<1>7. chunkedAt = 0 <=> ~chunked
  BY <1>1, <1>4, <1>5
<1>8. /\ multipartAt = 0 <=> ~multipart
      /\ multipartAt # 0 =>
           \E i \in DOMAIN list : /\ Says(list, i, "content-type", "multipart")
                                  /\ Search(h, HTTP_SEP, multipartAt) # 0
                                  /\ h[multipartAt][2] = list[i].value[2]
  <2>1. /\ multipartAt = 0 <=> ~ \E k \in 1 .. n : e[k][1] \in {"multipart"}
        /\ multipartAt # 0 =>
             \E k \in 1 .. n : multipartAt = 3 * k + 1 /\ h[multipartAt] = e[k] /\ e[k][1] \in {"multipart"}
    BY <1>5
  <2> HIDE DEF multipartAt, e, n, h
  <2>2. \A k \in 1 .. n : e[k][1] \in {"multipart"} <=> Says(list, k, "content-type", "multipart")
    BY <1>4
  <2>3. multipartAt = 0 <=> ~multipart
    BY <1>1, <2>1, <2>2
  <2>4. ASSUME multipartAt # 0
        PROVE  \E i \in DOMAIN list : /\ Says(list, i, "content-type", "multipart")
                                      /\ Search(h, HTTP_SEP, multipartAt) # 0
                                      /\ h[multipartAt][2] = list[i].value[2]
    <3>1. PICK k \in 1 .. n : multipartAt = 3 * k + 1 /\ h[multipartAt] = e[k] /\ e[k][1] \in {"multipart"}
      BY <2>1, <2>4
    <3>2. Search(h, HTTP_SEP, 3 * k + 1) # 0 /\ e[k][2] = list[k].value[2]
      BY <1>3, <1>4, <3>1
    <3> QED BY <1>1, <2>2, <3>1, <3>2
  <2> QED BY <2>3, <2>4
<1>9. /\ lengthAt = 0 <=> ~length
      /\ lengthAt # 0 =>
           \E i \in DOMAIN list : /\ Says(list, i, "content-length", "length")
                                  /\ Search(h, HTTP_SEP, lengthAt) # 0
                                  /\ h[lengthAt][2] = list[i].value[2]
  <2>1. /\ lengthAt = 0 <=> ~ \E k \in 1 .. n : e[k][1] \in {"length"}
        /\ lengthAt # 0 =>
             \E k \in 1 .. n : lengthAt = 3 * k + 1 /\ h[lengthAt] = e[k] /\ e[k][1] \in {"length"}
    BY <1>5
  <2> HIDE DEF lengthAt, e, n, h
  <2>2. \A k \in 1 .. n : e[k][1] \in {"length"} <=> Says(list, k, "content-length", "length")
    BY <1>4
  <2>3. lengthAt = 0 <=> ~length
    BY <1>1, <2>1, <2>2
  <2>4. ASSUME lengthAt # 0
        PROVE  \E i \in DOMAIN list : /\ Says(list, i, "content-length", "length")
                                      /\ Search(h, HTTP_SEP, lengthAt) # 0
                                      /\ h[lengthAt][2] = list[i].value[2]
    <3>1. PICK k \in 1 .. n : lengthAt = 3 * k + 1 /\ h[lengthAt] = e[k] /\ e[k][1] \in {"length"}
      BY <2>1, <2>4
    <3>2. Search(h, HTTP_SEP, 3 * k + 1) # 0 /\ e[k][2] = list[k].value[2]
      BY <1>3, <1>4, <3>1
    <3> QED BY <1>1, <2>2, <3>1, <3>2
  <2> QED BY <2>3, <2>4
<1>10. c = IF chunkedAt # 0 THEN [p EXCEPT !.type = "CHUNK"]
           ELSE IF multipartAt # 0
           THEN IF Search(h, HTTP_SEP, multipartAt) # 0 /\ h[multipartAt][2] # NoBoundary
                THEN [p EXCEPT !.type = "BOUNDARY", !.boundary = h[multipartAt][2]]
                ELSE p
           ELSE IF lengthAt # 0
           THEN IF Search(h, HTTP_SEP, lengthAt) # 0 /\ h[lengthAt][2] >= 0
                THEN [p EXCEPT !.type = "NORMAL", !.bodyBytes = h[lengthAt][2]]
                ELSE p
           ELSE [p EXCEPT !.type = "NORMAL", !.bodyBytes = 0]
  BY <1>6 DEF Classify
<1>11. c.type # "INVALID" => q.type = c.type /\ q.bodyBytes = c.bodyBytes /\ q.boundary = c.boundary
  <2>1. ASSUME c.type # "INVALID" PROVE q = TakeHeader(c, end + 3)
    BY <1>3, <2>1 DEF ParseHeader, Result
  <2>2. /\ TakeHeader(c, end + 3).type = c.type
        /\ TakeHeader(c, end + 3).bodyBytes = c.bodyBytes
        /\ TakeHeader(c, end + 3).boundary = c.boundary
    BY DEF TakeHeader
  <2> QED BY <2>1, <2>2
<1> HIDE DEF chunkedAt, multipartAt, lengthAt, upgradeAt, q, c, h, end, n, e, chunked, multipart, length
<1>12. chunkedAt # 0 => c.type = "CHUNK"
  BY <1>10 DEF WideParser
<1>13. chunkedAt = 0 /\ multipartAt # 0 /\ h[multipartAt][2] # NoBoundary =>
         c.type = "BOUNDARY" /\ c.boundary = h[multipartAt][2]
  BY <1>8, <1>10 DEF WideParser
<1>14. chunkedAt = 0 /\ multipartAt = 0 /\ lengthAt # 0 /\ h[lengthAt][2] >= 0 =>
         c.type = "NORMAL" /\ c.bodyBytes = h[lengthAt][2]
  BY <1>9, <1>10 DEF WideParser
<1>15. chunkedAt = 0 /\ multipartAt = 0 /\ lengthAt = 0 => c.type = "NORMAL" /\ c.bodyBytes = 0
  BY <1>10 DEF WideParser
<1>16. chunked => q.type = "CHUNK"
  BY <1>7, <1>11, <1>12
<1>17. ~chunked /\ multipart =>
         \E i \in DOMAIN list :
           /\ Says(list, i, "content-type", "multipart")
           /\ list[i].value[2] # NoBoundary => q.type = "BOUNDARY" /\ q.boundary = list[i].value[2]
  BY <1>7, <1>8, <1>11, <1>13
<1>18. ~chunked /\ ~multipart /\ length =>
         \E i \in DOMAIN list :
           /\ Says(list, i, "content-length", "length")
           /\ list[i].value[2] >= 0 => q.type = "NORMAL" /\ q.bodyBytes = list[i].value[2]
  BY <1>7, <1>8, <1>9, <1>11, <1>14
<1>19. ~chunked /\ ~multipart /\ ~length => q.type = "NORMAL" /\ q.bodyBytes = 0
  BY <1>7, <1>8, <1>9, <1>11, <1>15
<1> QED BY <1>16, <1>17, <1>18, <1>19 DEF chunked, multipart, length, q

\* Among the first n settings of p this one is the last of its key.
LastUpTo(p, n, j) ==
  j \in 1 .. n /\ \A k \in 1 .. n : Lower[p.sets[k][1]] = Lower[p.sets[j][1]] => k <= j

\* v is what s sets; the size is still that of the packet when it is the only part of a
\* plain body.
Worth(v, s, p, pk) ==
  IF s[1] = "size of"
  THEN /\ v[1] = "length" /\ v[2] \in Nat
       /\ p.kind = "NORMAL" /\ p.parts = <<s[2]>> => v[2] = Len(pk[s[2]])
  ELSE v = s

\* The items are what the first n settings of p make of them.
SetFrom(list, p, n, pk) ==
  /\ \A i \in DOMAIN list : \E j \in 1 .. n : /\ LastUpTo(p, n, j)
                                            /\ Lower[list[i].key] = Lower[p.sets[j][1]]
                                            /\ Worth(list[i].value, p.sets[j][2], p, pk)
  /\ \A j \in 1 .. n : \E i \in DOMAIN list : Lower[list[i].key] = Lower[p.sets[j][1]]

\* How many settings w has made.
SetCount(w) == IF pc[w] = "set" THEN next[w] - 1 ELSE Len(plan[w].sets)

\* The items of every coroutine are those of its plan, all of them once its request is sent.
KindInv ==
  /\ \A w \in Workers : pc[w] = "set" => next[w] <= Len(plan[w].sets) + 1
  /\ \A w \in Workers : pc[w] = "data" => plan[w].kind # "NORMAL" /\ More(w)
  /\ \A i \in DOMAIN begun : pc[begun[i]] # "set"
  /\ \A w \in Workers : SetFrom(items[w], plan[w], SetCount(w), packets)

\* The next setting.
LEMMA SetOnce ==
  ASSUME NEW list \in Seq(Item), OneKey(list), NEW p, NEW pk, NEW n \in Nat,
         NEW key \in Keys, NEW v, [key |-> key, value |-> v] \in Item,
         key = p.sets[n + 1][1], Worth(v, p.sets[n + 1][2], p, pk),
         SetFrom(list, p, n, pk)
  PROVE  SetFrom(SetStr(list, key, v), p, n + 1, pk)
<1> DEFINE f   == Find(list, key)
           new == SetStr(list, key, v)
           K(j) == Lower[p.sets[j][1]]
<1>1. /\ f # 0 => /\ DOMAIN new = DOMAIN list
                  /\ \A i \in DOMAIN list :
                       /\ new[i].key = list[i].key
                       /\ new[i].value = IF i = f THEN v ELSE list[i].value
      /\ f = 0 => /\ DOMAIN new = 1 .. Len(list) + 1
                  /\ \A i \in DOMAIN list : new[i] = list[i]
                  /\ new[Len(list) + 1] = [key |-> key, value |-> v]
  BY SetStrResult
<1>2. /\ f = 0 <=> ~ \E i \in DOMAIN list : Lower[list[i].key] = Lower[key]
      /\ f # 0 => f \in DOMAIN list /\ Lower[list[f].key] = Lower[key]
  BY FindResult
<1>3. DOMAIN list = 1 .. Len(list) /\ Len(list) \in Nat
  BY LenProperties
<1>4. /\ \A i \in DOMAIN list : \E j \in 1 .. n : /\ LastUpTo(p, n, j)
                                                /\ Lower[list[i].key] = K(j)
                                                /\ Worth(list[i].value, p.sets[j][2], p, pk)
      /\ \A j \in 1 .. n : \E i \in DOMAIN list : Lower[list[i].key] = K(j)
  BY DEF SetFrom
<1>5. n + 1 \in 1 .. n + 1 /\ K(n + 1) = Lower[key] /\ Worth(v, p.sets[n + 1][2], p, pk)
      /\ \A j \in 1 .. n + 1 : j \in 1 .. n \/ j = n + 1
  OBVIOUS
<1>6. LastUpTo(p, n + 1, n + 1)
  BY <1>5 DEF LastUpTo
<1>7. \A j \in 1 .. n : LastUpTo(p, n, j) /\ K(j) # Lower[key] => LastUpTo(p, n + 1, j)
  BY <1>5 DEF LastUpTo
<1> HIDE DEF f, new, K
<1>8. ASSUME NEW i \in DOMAIN new
      PROVE  \E j \in 1 .. n + 1 : /\ LastUpTo(p, n + 1, j)
                                   /\ Lower[new[i].key] = K(j)
                                   /\ Worth(new[i].value, p.sets[j][2], p, pk)
  <2>1. CASE i \in DOMAIN list /\ i # f
    <3>1. new[i].key = list[i].key /\ new[i].value = list[i].value
      BY <1>1, <2>1
    <3>2. Lower[list[i].key] # Lower[key]
      BY <1>2, <2>1 DEF OneKey
    <3>3. PICK j \in 1 .. n : /\ LastUpTo(p, n, j) /\ Lower[list[i].key] = K(j)
                              /\ Worth(list[i].value, p.sets[j][2], p, pk)
      BY <1>4, <2>1
    <3>4. LastUpTo(p, n + 1, j) /\ j \in 1 .. n + 1
      BY <1>7, <3>2, <3>3
    <3> QED BY <3>1, <3>3, <3>4
  <2>2. CASE i = f /\ f # 0
    <3>1. i \in DOMAIN list /\ new[i].key = list[i].key /\ new[i].value = v
      BY <1>1, <1>2, <2>2
    <3>2. Lower[new[i].key] = K(n + 1)
      BY <1>2, <1>5, <2>2, <3>1
    <3> QED BY <1>5, <1>6, <3>1, <3>2
  <2>3. CASE f = 0 /\ i = Len(list) + 1
    <3>1. new[i].key = key /\ new[i].value = v
      BY <1>1, <2>3
    <3> QED BY <1>5, <1>6, <3>1
  <2>4. \/ i \in DOMAIN list /\ i # f
        \/ i = f /\ f # 0
        \/ f = 0 /\ i = Len(list) + 1
    <3>1. CASE f # 0
      BY <1>1, <3>1
    <3>2. CASE f = 0
      <4>1. i \in 1 .. Len(list) + 1
        BY <1>1, <3>2
      <4> QED BY <1>3, <3>2, <4>1
    <3> QED BY <3>1, <3>2
  <2> QED BY <2>1, <2>2, <2>3, <2>4
<1>9. ASSUME NEW j \in 1 .. n + 1
      PROVE  \E i \in DOMAIN new : Lower[new[i].key] = K(j)
  <2>1. \A i \in DOMAIN list : i \in DOMAIN new /\ new[i].key = list[i].key
    BY <1>1, <1>3
  <2>2. CASE j \in 1 .. n
    BY <1>4, <2>1, <2>2
  <2>3. CASE j = n + 1 /\ f # 0
    BY <1>2, <1>5, <2>1, <2>3
  <2>4. CASE j = n + 1 /\ f = 0
    <3>1. Len(list) + 1 \in DOMAIN new /\ new[Len(list) + 1].key = key
      BY <1>1, <1>3, <2>4
    <3> QED BY <1>5, <2>4, <3>1
  <2> QED BY <1>5, <2>2, <2>3, <2>4
<1> QED BY <1>8, <1>9 DEF SetFrom, new, K

\* The only part of a plain body stays as it is.
LEMMA SetFromStays ==
  ASSUME NEW list, NEW p, NEW n, NEW pk, NEW pk2, SetFrom(list, p, n, pk),
         \A q : p.kind = "NORMAL" /\ p.parts = <<q>> => pk2[q] = pk[q]
  PROVE  SetFrom(list, p, n, pk2)
<1>1. ASSUME NEW v, NEW s, Worth(v, s, p, pk) PROVE Worth(v, s, p, pk2)
  BY <1>1 DEF Worth
<1> QED BY <1>1 DEF SetFrom

\* At first nothing is set.
LEMMA InitKind == Init => KindInv
<1> SUFFICES ASSUME Init PROVE KindInv
  OBVIOUS
<1>1. /\ begun = <<>> /\ plan \in Plans
      /\ pc = [w \in Workers |-> "set"] /\ next = [w \in Workers |-> 1]
      /\ items = [w \in Workers |-> <<>>]
  BY DEF Init
<1>2. \A w \in Workers : Len(plan[w].sets) \in Nat
  <2> SUFFICES ASSUME NEW w \in Workers PROVE Len(plan[w].sets) \in Nat
    OBVIOUS
  <2>1. plan[w] \in Plan
    BY <1>1, PlanAssumption
  <2> QED BY <2>1, LenProperties DEF Plan
<1>3. DOMAIN begun = {}
  BY <1>1
<1>4. \A w \in Workers : SetFrom(items[w], plan[w], SetCount(w), packets)
  <2> SUFFICES ASSUME NEW w \in Workers PROVE SetFrom(items[w], plan[w], SetCount(w), packets)
    OBVIOUS
  <2>1. DOMAIN items[w] = {} /\ SetCount(w) = 0
    BY <1>1 DEF SetCount
  <2>2. 1 .. 0 = {}
    OBVIOUS
  <2> QED BY <2>1, <2>2 DEF SetFrom
<1> QED BY <1>1, <1>2, <1>3, <1>4 DEF KindInv

\* What an item is set to is worth what the plan says.
LEMMA SetItemKind ==
  ASSUME IInv, KindInv, NEW w \in Workers, SetItem(w)
  PROVE  KindInv'
<1> DEFINE n == next[w] - 1
           s == plan[w].sets[next[w]]
           v == IF s[2][1] = "size of" THEN ContentLen(Len(packets[s[2][2]])) ELSE s[2]
<1>1. /\ pc[w] = "set" /\ next[w] <= Len(plan[w].sets)
      /\ items' = [items EXCEPT ![w] = SetStr(items[w], s[1], v)]
      /\ Go(w, "set", next[w] + 1)
      /\ UNCHANGED <<plan, packets, begun, broken, connects>>
  BY DEF SetItem, link
<1>2. next[w] \in Nat \ {0} /\ plan[w] \in Plan
  BY PlanAssumption DEF IInv, TypeOK
<1>3. s \in Keys \X (Values \cup ({"size of"} \X DOMAIN Packets0))
  <2>1. plan[w].sets \in Seq(Keys \X (Values \cup ({"size of"} \X DOMAIN Packets0)))
    BY <1>2 DEF Plan
  <2>2. Len(plan[w].sets) \in Nat
    BY <2>1, LenProperties
  <2>3. next[w] <= Len(plan[w].sets)
    BY <1>1
  <2>4. next[w] \in 1 .. Len(plan[w].sets)
    BY <1>2, <2>2, <2>3
  <2> QED BY <2>1, <2>4, ElementOfSeq
<1>4. Worth(v, s[2], plan[w], packets) /\ v \in Values \cup ({"length"} \X Nat)
  <2>1. CASE s[2][1] = "size of"
    <3>1. s[2][2] \in DOMAIN Packets0
      BY <1>3, <2>1, ValueAssumption
    <3>2. Len(packets[s[2][2]]) \in Nat
      BY <3>1, LenProperties DEF IInv, TypeOK
    <3>3. v = <<"length", Len(packets[s[2][2]])>>
      BY <2>1 DEF ContentLen
    <3> HIDE DEF v
    <3> QED BY <2>1, <3>2, <3>3 DEF Worth
  <2>2. CASE s[2][1] # "size of"
    BY <1>3, <2>2 DEF Worth
  <2> QED BY <2>1, <2>2
<1>5. s[1] \in Keys
  BY <1>3
<1> HIDE DEF v
<1>6. [key |-> s[1], value |-> v] \in Item
  BY <1>4, <1>5 DEF Item
<1>7. items[w] \in Seq(Item) /\ OneKey(items[w]) /\ items \in [Workers -> Seq(Item)]
  BY DEF IInv, TypeOK
<1>8. n \in Nat /\ n + 1 = next[w] /\ SetFrom(items[w], plan[w], n, packets)
  BY <1>1, <1>2 DEF KindInv, SetCount
<1>9. SetFrom(SetStr(items[w], s[1], v), plan[w], n + 1, packets)
  <2>1. s = plan[w].sets[n + 1]
    BY <1>8
  <2> HIDE DEF s, n
  <2> QED BY <1>4, <1>5, <1>6, <1>7, <1>8, <2>1, SetOnce
<1>10. /\ pc' = pc /\ next'[w] = next[w] + 1
       /\ \A u \in Workers : u # w => next'[u] = next[u]
  <2>1. /\ pc \in [Workers -> {"set", "part", "data", "done", "failed"}]
        /\ next \in [Workers -> Nat \ {0}]
    BY DEF IInv, TypeOK
  <2>2. pc' = [pc EXCEPT ![w] = "set"] /\ next' = [next EXCEPT ![w] = next[w] + 1]
    BY <1>1 DEF Go
  <2>3. pc' = pc
    BY <1>1, <2>1, <2>2
  <2> QED BY <2>1, <2>2, <2>3
<1>11. \A u \in Workers : SetFrom(items'[u], plan'[u], SetCount(u)', packets')
  <2> SUFFICES ASSUME NEW u \in Workers
               PROVE  SetFrom(items'[u], plan'[u], SetCount(u)', packets')
    OBVIOUS
  <2>1. CASE u = w
    <3>1. items'[u] = SetStr(items[w], s[1], v)
      BY <1>1, <1>7, <2>1
    <3>2. SetCount(u)' = n + 1
      BY <1>1, <1>8, <1>10, <2>1 DEF SetCount
    <3> QED BY <1>1, <1>9, <2>1, <3>1, <3>2
  <2>2. CASE u # w
    <3>1. items'[u] = items[u]
      BY <1>1, <1>7, <2>2
    <3>2. SetCount(u)' = SetCount(u)
      BY <1>1, <1>10, <2>2 DEF SetCount
    <3> QED BY <1>1, <3>1, <3>2 DEF KindInv
  <2> QED BY <2>1, <2>2
<1>12. \A u \in Workers : pc'[u] = "set" => next'[u] <= Len(plan'[u].sets) + 1
  <2> SUFFICES ASSUME NEW u \in Workers, pc'[u] = "set"
               PROVE  next'[u] <= Len(plan'[u].sets) + 1
    OBVIOUS
  <2>1. CASE u = w
    <3>1. Len(plan[w].sets) \in Nat
      BY <1>2, LenProperties DEF Plan
    <3> QED BY <1>1, <1>2, <1>10, <2>1, <3>1
  <2>2. CASE u # w
    BY <1>1, <1>10, <2>2 DEF KindInv
  <2> QED BY <2>1, <2>2
<1>13. \A u \in Workers : pc'[u] = "data" => plan'[u].kind # "NORMAL" /\ More(u)'
  <2> SUFFICES ASSUME NEW u \in Workers, pc'[u] = "data"
               PROVE  plan'[u].kind # "NORMAL" /\ More(u)'
    OBVIOUS
  <2>1. u # w /\ next'[u] = next[u]
    BY <1>1, <1>10
  <2> QED BY <1>1, <1>10, <2>1 DEF KindInv, More
<1>14. \A i \in DOMAIN begun' : pc'[begun'[i]] # "set"
  BY <1>1, <1>10 DEF KindInv
<1> QED BY <1>11, <1>12, <1>13, <1>14 DEF KindInv

\* w goes on: it has made all its settings.
LEMMA MoveKind ==
  ASSUME IInv, KindInv, NEW w \in Workers, UNCHANGED <<plan, items>>,
         NEW x \in {"part", "data", "done", "failed"}, NEW m, Go(w, x, m),
         pc[w] = "set" => next[w] > Len(plan[w].sets),
         x = "data" => plan[w].kind # "NORMAL" /\ m <= Len(plan[w].parts),
         begun' = begun \/ begun' = Append(begun, w),
         \A u \in Workers : \A q :
           plan[u].kind = "NORMAL" /\ plan[u].parts = <<q>> => packets'[q] = packets[q]
  PROVE  KindInv'
<1>1. /\ pc \in [Workers -> {"set", "part", "data", "done", "failed"}]
      /\ next \in [Workers -> Nat \ {0}] /\ begun \in Seq(Workers)
  BY DEF IInv, TypeOK
<1>2. /\ pc'[w] = x /\ next'[w] = m
      /\ \A u \in Workers : u # w => pc'[u] = pc[u] /\ next'[u] = next[u]
  BY <1>1 DEF Go
<1>3. Len(plan[w].sets) \in Nat
  <2>1. plan[w] \in Plan
    BY PlanAssumption DEF IInv, TypeOK
  <2> QED BY <2>1, LenProperties DEF Plan
<1>4. SetCount(w)' = SetCount(w)
  <2>1. SetCount(w)' = Len(plan[w].sets)
    BY <1>2 DEF SetCount
  <2>2. SetCount(w) = Len(plan[w].sets)
    <3>1. CASE pc[w] = "set"
      BY <1>1, <1>3, <3>1 DEF SetCount, KindInv
    <3>2. CASE pc[w] # "set"
      BY <3>2 DEF SetCount
    <3> QED BY <3>1, <3>2
  <2> QED BY <2>1, <2>2
<1>5. \A u \in Workers : SetCount(u)' = SetCount(u)
  BY <1>2, <1>4 DEF SetCount
<1>6. ASSUME NEW u \in Workers PROVE SetFrom(items'[u], plan'[u], SetCount(u)', packets')
  <2>1. SetFrom(items[u], plan[u], SetCount(u), packets)
    BY DEF KindInv
  <2>2. SetFrom(items[u], plan[u], SetCount(u), packets')
    BY <2>1, SetFromStays
  <2> QED BY <1>5, <2>2
<1>7. \A u \in Workers : pc'[u] = "set" => next'[u] <= Len(plan'[u].sets) + 1
  BY <1>2 DEF KindInv
<1>8. \A u \in Workers : pc'[u] = "data" => plan'[u].kind # "NORMAL" /\ More(u)'
  BY <1>2 DEF KindInv, More
<1>9. ASSUME NEW i \in DOMAIN begun' PROVE pc'[begun'[i]] # "set"
  <2>1. \/ begun'[i] = w
        \/ i \in DOMAIN begun /\ begun'[i] = begun[i]
    <3>1. CASE begun' = begun
      BY <3>1
    <3>2. CASE begun' = Append(begun, w)
      <4>1. /\ Len(begun') = Len(begun) + 1 /\ begun' \in Seq(Workers)
            /\ \A j \in 1 .. Len(begun) : begun'[j] = begun[j]
            /\ begun'[Len(begun) + 1] = w
        BY <1>1, <3>2, AppendProperties
      <4>2. DOMAIN begun' = 1 .. Len(begun) + 1 /\ DOMAIN begun = 1 .. Len(begun)
            /\ Len(begun) \in Nat
        BY <1>1, <4>1, LenProperties
      <4>3. i \in 1 .. Len(begun) \/ i = Len(begun) + 1
        BY <4>2
      <4> QED BY <4>1, <4>2, <4>3
    <3> QED BY <3>1, <3>2
  <2>2. CASE begun'[i] = w
    BY <1>2, <2>2
  <2>3. CASE i \in DOMAIN begun /\ begun'[i] = begun[i] /\ begun[i] # w
    <3>1. begun[i] \in Workers
      BY <1>1, <2>3, LenProperties, ElementOfSeq
    <3> QED BY <1>2, <2>3, <3>1 DEF KindInv
  <2> QED BY <2>1, <2>2, <2>3
<1> QED BY <1>6, <1>7, <1>8, <1>9 DEF KindInv

\* Another client: what was set stays set.
LEMMA ReconnectKind == ASSUME IInv, KindInv, Reconnect PROVE KindInv'
<1>1. /\ begun' = <<>> /\ UNCHANGED <<plan, items, packets>>
      /\ \A w \in Workers : pc[w] \in {"set", "done", "failed"}
      /\ pc' = [w \in Workers |-> IF pc[w] = "failed" THEN "set" ELSE pc[w]]
      /\ next' = [w \in Workers |-> IF pc[w] = "failed" THEN Len(plan[w].sets) + 1 ELSE next[w]]
  BY DEF Reconnect
<1>2. \A w \in Workers : Len(plan[w].sets) \in Nat
  <2> SUFFICES ASSUME NEW w \in Workers PROVE Len(plan[w].sets) \in Nat
    OBVIOUS
  <2>1. plan[w] \in Plan
    BY PlanAssumption DEF IInv, TypeOK
  <2> QED BY <2>1, LenProperties DEF Plan
<1>3. \A w \in Workers : SetCount(w)' = SetCount(w)
  BY <1>1, <1>2 DEF SetCount
<1>4. \A w \in Workers : pc'[w] = "set" => next'[w] <= Len(plan'[w].sets) + 1
  BY <1>1, <1>2 DEF KindInv
<1>5. \A w \in Workers : pc'[w] # "data"
  BY <1>1
<1>6. DOMAIN begun' = {}
  BY <1>1
<1>7. \A w \in Workers : SetFrom(items'[w], plan'[w], SetCount(w)', packets')
  BY <1>1, <1>3 DEF KindInv
<1> QED BY <1>4, <1>5, <1>6, <1>7 DEF KindInv

\* Where a send leaves a coroutine.
LEMMA SentGoes ==
  ASSUME NEW w, NEW symbols, NEW where, NEW n, Sent(w, symbols, where, n)
  PROVE  Go(w, where, n) \/ Go(w, "failed", 1)
BY DEF Sent

\* Every step of the coroutines keeps the items what the plans say.
LEMMA NextKind ==
  ASSUME IInv, KindInv, Distinct, [Next]_vars
  PROVE  KindInv'
<1>1. ASSUME NEW w \in Workers, SetItem(w) PROVE KindInv'
  BY <1>1, SetItemKind
<1>2. ASSUME NEW w \in Workers, SendReq(w) PROVE KindInv'
  <2> DEFINE h == Serialize(Line(plan[w].url), items[w])
  <2>1. /\ pc[w] = "set" /\ next[w] > Len(plan[w].sets)
        /\ Sent(w, h, "part", 1)
        /\ IF broken' THEN UNCHANGED <<begun, meant>>
           ELSE begun' = Append(begun, w) /\ meant' = meant \o h \o Meant(w)
        /\ UNCHANGED <<plan, items, packets, connects>>
    BY <1>2 DEF SendReq
  <2> HIDE DEF h
  <2>2. begun' = begun \/ begun' = Append(begun, w)
    BY <2>1
  <2>3. PICK x \in {"part", "failed"} : Go(w, x, 1)
    BY <2>1, SentGoes
  <2> QED BY <2>1, <2>2, <2>3, MoveKind
<1>3. ASSUME NEW w \in Workers, SendBody(w) PROVE KindInv'
  <2>1. pc[w] = "part" /\ UNCHANGED <<plan, items, packets, begun, meant, connects>>
    BY <1>3 DEF SendBody
  <2>2. PICK x \in {"part", "done", "failed"} : \E m : Go(w, x, m)
    BY <1>3, SentGoes DEF SendBody
  <2>3. PICK m : Go(w, x, m)
    BY <2>2
  <2> QED BY <2>1, <2>3, MoveKind
<1>4. ASSUME NEW w \in Workers, SendSize(w) PROVE KindInv'
  <2>1. /\ pc[w] = "part" /\ plan[w].kind # "NORMAL" /\ Body(w) # Null
        /\ UNCHANGED <<plan, items, packets, begun, meant, connects>>
    BY <1>4 DEF SendSize
  <2>2. Go(w, "data", next[w]) \/ Go(w, "failed", 1)
    BY <1>4, SentGoes DEF SendSize
  <2>3. next[w] <= Len(plan[w].parts)
    BY <2>1 DEF Body, More
  <2>4. CASE Go(w, "data", next[w])
    BY <2>1, <2>3, <2>4, MoveKind
  <2>5. CASE Go(w, "failed", 1)
    BY <2>1, <2>5, MoveKind
  <2> QED BY <2>2, <2>4, <2>5
<1>5. ASSUME NEW w \in Workers, SendLast(w) PROVE KindInv'
  <2>1. pc[w] = "part" /\ UNCHANGED <<plan, items, packets, begun, meant, connects>>
    BY <1>5 DEF SendLast
  <2>2. PICK x \in {"part", "done", "failed"} : \E m : Go(w, x, m)
    BY <1>5, SentGoes DEF SendLast
  <2>3. PICK m : Go(w, x, m)
    BY <2>2
  <2> QED BY <2>1, <2>3, MoveKind
<1>6. ASSUME NEW w \in Workers, SendData(w) PROVE KindInv'
  <2>1. /\ pc[w] = "data"
        /\ packets' = [packets EXCEPT ![Packet(w)] = packets[Packet(w)] \o HTTP_SEP]
        /\ UNCHANGED <<plan, items, begun, meant, connects>>
    BY <1>6 DEF SendData
  <2>2. PICK x \in {"part", "failed"} : \E m : Go(w, x, m)
    BY <1>6, SentGoes DEF SendData
  <2>3. plan[w].kind # "NORMAL" /\ More(w)
    BY <2>1 DEF KindInv
  <2>4. next[w] \in DOMAIN plan[w].parts
    <3>1. DOMAIN plan[w].parts = 1 .. Len(plan[w].parts) /\ Len(plan[w].parts) \in Nat
      BY PlanFacts
    <3>2. next[w] \in Nat \ {0}
      BY DEF IInv, TypeOK
    <3> QED BY <2>3, <3>1, <3>2 DEF More
  <2>5. ASSUME NEW u \in Workers, NEW q, plan[u].kind = "NORMAL", plan[u].parts = <<q>>
        PROVE  packets'[q] = packets[q]
    <3>1. u # w
      BY <2>3, <2>5
    <3>2. 1 \in DOMAIN plan[u].parts /\ plan[u].parts[1] = q
      BY <2>5
    <3>3. Packet(w) # q
      BY <2>4, <3>1, <3>2 DEF Distinct, Packet
    <3> QED BY <2>1, <3>3
  <2>6. PICK m : Go(w, x, m)
    BY <2>2
  <2> QED BY <2>1, <2>5, <2>6, MoveKind
<1>7. CASE Reconnect
  BY <1>7, ReconnectKind
<1>8. CASE UNCHANGED vars
  <2>1. pc' = pc /\ next' = next /\ begun' = begun /\ UNCHANGED <<plan, items, packets>>
    BY <1>8 DEF vars, work, link
  <2>2. \A w \in Workers : (SetCount(w)' = SetCount(w)) /\ (More(w)' <=> More(w))
    BY <2>1 DEF SetCount, More
  <2> QED BY <2>1, <2>2 DEF KindInv
<1> QED BY <1>1, <1>2, <1>3, <1>4, <1>5, <1>6, <1>7, <1>8 DEF Next, Ended

-----------------------------------------------------------------------------
\* There is one last setting of a key.
LEMMA OneLast ==
  ASSUME NEW p, NEW n \in Nat, NEW i \in 1 .. n, NEW j \in 1 .. n,
         LastUpTo(p, n, i), LastUpTo(p, n, j), Lower[p.sets[i][1]] = Lower[p.sets[j][1]]
  PROVE  i = j
BY DEF LastUpTo

\* It is the one whose value is set last.
LEMMA SetLastIs ==
  ASSUME NEW p, NEW n \in Nat, DOMAIN p.sets = 1 .. n, NEW k, NEW s
  PROVE  s \in SetLast(p, k) <=>
           \E j \in 1 .. n : LastUpTo(p, n, j) /\ Lower[p.sets[j][1]] = k /\ s = p.sets[j][2]
BY DEF SetLast, LastUpTo

\* When all is set, the items are those that were set last.
LEMMA SetLastItems ==
  ASSUME NEW list, NEW p, NEW pk, NEW n \in Nat, DOMAIN p.sets = 1 .. n,
         SetFrom(list, p, n, pk)
  PROVE  /\ \A i \in DOMAIN list :
              \E s \in SetLast(p, Lower[list[i].key]) : Worth(list[i].value, s, p, pk)
         /\ \A k : \A s \in SetLast(p, k) :
              \E i \in DOMAIN list : Lower[list[i].key] = k /\ Worth(list[i].value, s, p, pk)
<1>1. \A k, s : s \in SetLast(p, k) <=>
        \E j \in 1 .. n : LastUpTo(p, n, j) /\ Lower[p.sets[j][1]] = k /\ s = p.sets[j][2]
  BY SetLastIs
<1>2. /\ \A i \in DOMAIN list : \E j \in 1 .. n : /\ LastUpTo(p, n, j)
                                                /\ Lower[list[i].key] = Lower[p.sets[j][1]]
                                                /\ Worth(list[i].value, p.sets[j][2], p, pk)
      /\ \A j \in 1 .. n : \E i \in DOMAIN list : Lower[list[i].key] = Lower[p.sets[j][1]]
  BY DEF SetFrom
<1>3. ASSUME NEW i \in DOMAIN list
      PROVE  \E s \in SetLast(p, Lower[list[i].key]) : Worth(list[i].value, s, p, pk)
  BY <1>1, <1>2
<1>4. ASSUME NEW k, NEW s \in SetLast(p, k)
      PROVE  \E i \in DOMAIN list : Lower[list[i].key] = k /\ Worth(list[i].value, s, p, pk)
  <2>1. PICK j \in 1 .. n : LastUpTo(p, n, j) /\ Lower[p.sets[j][1]] = k /\ s = p.sets[j][2]
    <3>1. s \in SetLast(p, k)
      OBVIOUS
    <3>2. \E j \in 1 .. n : LastUpTo(p, n, j) /\ Lower[p.sets[j][1]] = k /\ s = p.sets[j][2]
      BY <1>1, <3>1
    <3> QED BY <3>2
  <2>2. PICK i \in DOMAIN list : Lower[list[i].key] = k
    BY <1>2, <2>1
  <2>3. PICK jj \in 1 .. n : /\ LastUpTo(p, n, jj) /\ Lower[list[i].key] = Lower[p.sets[jj][1]]
                             /\ Worth(list[i].value, p.sets[jj][2], p, pk)
    BY <1>2
  <2>4. jj = j
    BY <2>1, <2>2, <2>3, OneLast
  <2> QED BY <2>1, <2>2, <2>3, <2>4
<1> QED BY <1>3, <1>4

\* A plain body of at most one packet is what is in that packet.
LEMMA PlainBody ==
  ASSUME IInv, NEW w \in Workers, plan[w].kind = "NORMAL"
  PROVE  /\ plan[w].parts = <<>> => Len(Meant(w)) = 0
         /\ Len(plan[w].parts) = 1 => /\ Meant(w) = packets[plan[w].parts[1]]
                                      /\ Len(Meant(w)) \in Nat
                                      /\ plan[w].parts = <<plan[w].parts[1]>>
<1> DEFINE p == plan[w]
<1>1. PICK encs, f : /\ EncodedFrom(encs, p, packets, 1) /\ Flattens(f, encs, Sym)
                     /\ Meant(w) = f[Len(encs)]
  BY MeantEncoded
<1>2. Len(encs) = Len(p.parts) /\ f[0] = <<>>
  BY <1>1 DEF EncodedFrom, PartCount, Flattens
<1>3. ASSUME p.parts = <<>> PROVE Len(Meant(w)) = 0
  <2>1. Len(p.parts) = 0
    BY <1>3
  <2>2. Meant(w) = <<>>
    BY <1>1, <1>2, <2>1
  <2> QED BY <2>2, EmptySeq
<1>4. ASSUME Len(p.parts) = 1
      PROVE  /\ Meant(w) = packets[p.parts[1]] /\ Len(Meant(w)) \in Nat
             /\ p.parts = <<p.parts[1]>>
  <2>1. Meant(w) = f[1] /\ f[1] = <<>> \o encs[1]
    <3>1. 1 \in 1 .. Len(encs) /\ 1 - 1 = 0
      BY <1>2, <1>4
    <3> QED BY <1>1, <1>2, <1>4, <3>1 DEF Flattens
  <2>2. encs[1] = PartOf(p, packets, 1)
    <3>1. 1 \in 1 .. Len(encs)
      BY <1>2, <1>4
    <3> QED BY <1>1, <3>1 DEF EncodedFrom, EncodedPart
  <2>3. PartOf(p, packets, 1) = packets[p.parts[1]]
    BY <1>4 DEF PartOf
  <2>4. packets[p.parts[1]] \in Seq(Symbol)
    <3>1. p.parts[1] \in DOMAIN packets
      BY <1>4, PlanFacts
    <3> QED BY <3>1 DEF IInv, TypeOK
  <2>5. <<>> \o packets[p.parts[1]] = packets[p.parts[1]] /\ Len(packets[p.parts[1]]) \in Nat
    BY <2>4, ConcatEmptySeq, LenProperties
  <2>6. p.parts = <<p.parts[1]>>
    <3>1. p.parts \in Seq(DOMAIN Packets0)
      BY PlanFacts DEF Plan
    <3> HIDE DEF p
    <3> QED BY <1>4, <3>1
  <2> QED BY <2>1, <2>2, <2>3, <2>5, <2>6
<1> QED BY <1>3, <1>4

\* The header of a request.
LEMMA RequestHeader ==
  ASSUME IInv, NEW w \in Workers
  PROVE  HeaderOf(Serialize(Line(plan[w].url), items[w]), Len(items[w]), Line(plan[w].url),
                  [i \in DOMAIN items[w] |-> Field(items[w][i])])
<1> DEFINE list   == items[w]
           fields == [i \in DOMAIN list |-> Field(list[i])]
           lines  == [i \in DOMAIN fields |-> <<fields[i]>> \o HTTP_SEP]
           line   == Line(plan[w].url)
           n      == Len(list)
<1>1. list \in Seq(Item) /\ n \in Nat /\ DOMAIN list = 1 .. n
  BY LenProperties DEF IInv, TypeOK
<1>2. \A i \in 1 .. n : fields[i] \in Sym
  <2>1. \A i \in DOMAIN list : list[i] \in Item
    BY <1>1, ElementOfSeq
  <2> QED BY <1>1, <2>1 DEF Sym
<1>3. CR \in Sym /\ LF \in Sym /\ line \in Sym
  <2>1. line \in Symbol
    BY PlanFacts DEF Line, Symbol
  <2> QED BY <2>1, Tags DEF Sym
<1>4. DOMAIN fields = 1 .. n
  BY <1>1
<1>5. Serialize(line, list) = <<line>> \o HTTP_SEP \o FlattenSeq(lines) \o HTTP_SEP
  BY DEF Serialize, Header
<1> HIDE DEF fields, line, list, n
<1>6. PICK sep \in Seq(Sym) : sep = HTTP_SEP /\ Len(sep) = 2 /\ sep[1] = CR /\ sep[2] = LF
  BY <1>3, SeparatorIs, Zenon
<1>7. ASSUME NEW i \in 1 .. n
      PROVE  /\ lines[i] \in Seq(Sym) /\ Len(lines[i]) = 3
             /\ lines[i][1] = fields[i] /\ lines[i][2] = CR /\ lines[i][3] = LF
  <2>1. lines[i] = <<fields[i]>> \o sep
    BY <1>4, <1>6
  <2>2. PICK a \in Sym : a = fields[i]
    BY <1>2
  <2>3. <<a>> \in Seq(Sym) /\ Len(<<a>>) = 1 /\ <<a>>[1] = a
    OBVIOUS
  <2>4. PICK one \in Seq(Sym) : one = <<a>> /\ Len(one) = 1 /\ one[1] = a
    BY <2>3
  <2>5. /\ one \o sep \in Seq(Sym) /\ Len(one \o sep) = Len(one) + Len(sep)
        /\ \A j \in 1 .. Len(one) + Len(sep) :
             (one \o sep)[j] = IF j <= Len(one) THEN one[j] ELSE sep[j - Len(one)]
    BY ConcatProperties
  <2>6. 1 + 2 = 3 /\ 2 - 1 = 1 /\ 3 - 1 = 2 /\ 1 \in 1 .. 3 /\ 2 \in 1 .. 3 /\ 3 \in 1 .. 3
        /\ ~ (2 <= 1) /\ ~ (3 <= 1)
    OBVIOUS
  <2>7. /\ Len(one \o sep) = 3
        /\ \A j \in 1 .. 3 : (one \o sep)[j] = IF j <= 1 THEN one[j] ELSE sep[j - 1]
    BY <1>6, <2>4, <2>5, <2>6
  <2>8. (one \o sep)[1] = a /\ (one \o sep)[2] = CR /\ (one \o sep)[3] = LF
    BY <1>6, <2>4, <2>6, <2>7
  <2>9. lines[i] = one \o sep
    BY <2>1, <2>2, <2>4
  <2> HIDE DEF lines
  <2> QED BY <2>2, <2>5, <2>7, <2>8, <2>9
<1>8. lines \in Seq(Seq(Sym)) /\ Len(lines) = n
  <2>1. lines = [i \in 1 .. n |-> lines[i]]
    BY <1>4
  <2>2. \A i \in 1 .. n : lines[i] \in Seq(Sym)
    BY <1>7
  <2> HIDE DEF lines
  <2> QED BY <1>1, <2>1, <2>2, FunctionIsSeq
<1>9. PICK t \in Seq(Sym) : t = FlattenSeq(lines) /\ LinesOf(t, n, fields, CR, LF)
  <2> HIDE DEF lines
  <2>1. \A i \in 1 .. Len(lines) : /\ Len(lines[i]) = 3 /\ lines[i][1] = fields[i]
                                   /\ lines[i][2] = CR /\ lines[i][3] = LF
    BY <1>7, <1>8
  <2>2. FlattenSeq(lines) \in Seq(Sym) /\ LinesOf(FlattenSeq(lines), Len(lines), fields, CR, LF)
    BY <1>8, <2>1, LinesTogether
  <2> QED BY <1>8, <2>2
<1> HIDE DEF lines
<1>10. HeaderOf(<<line>> \o HTTP_SEP \o t \o HTTP_SEP, n, line, fields)
  BY <1>1, <1>3, <1>9, HeaderTogether
<1> QED BY <1>5, <1>9, <1>10 DEF line, list, fields, n

\* A parser that has received the header of a request.
LEMMA FreshParser ==
  ASSUME NEW h \in Seq(Sym)
  PROVE  LET p == Push(NewParser(-1), h)
         IN p \in WideParser /\ p.type = "INVALID" /\ p.pkts = h
<1>1. <<>> \o h = h /\ <<>> \in Seq(Sym)
  BY ConcatEmptySeq
<1>2. Push(NewParser(-1), h) = [type |-> "INVALID", header |-> <<>>, bodyBytes |-> -1,
                                boundary |-> NoBoundary, pkts |-> <<>> \o h, chunkBytes |-> -1]
  BY DEF Push, NewParser, Null
<1> DEFINE p == Push(NewParser(-1), h)
<1>3. p = [type |-> "INVALID", header |-> <<>>, bodyBytes |-> -1,
           boundary |-> NoBoundary, pkts |-> h, chunkBytes |-> -1]
  BY <1>1, <1>2
<1> HIDE DEF p
<1>4. /\ "INVALID" \in Types /\ -1 \in Int
      /\ NoBoundary \in Boundaries \cup {NoBoundary}
  BY DEF Types
<1>5. p \in WideParser
  BY <1>1, <1>3, <1>4 DEF WideParser
<1>6. p.type = "INVALID" /\ p.pkts = h
  BY <1>3
<1> QED BY <1>5, <1>6 DEF p

\* What the receiver's parser reads in the header of a request is what the plan of its coroutine
\* announces.
LEMMA KindRead ==
  ASSUME IInv, KindInv, NEW w \in Workers, pc[w] # "set", Announced(plan[w])
  PROVE  LET q == ParseHeader(Push(NewParser(-1), Serialize(Line(plan[w].url), items[w]))).p
         IN /\ q.type = plan[w].kind
            /\ q.type = "NORMAL" => q.bodyBytes = Len(Meant(w))
            /\ q.type = "BOUNDARY" => q.boundary = plan[w].boundary
<1> DEFINE h    == Serialize(Line(plan[w].url), items[w])
           q    == ParseHeader(Push(NewParser(-1), h)).p
           list == items[w]
           pl   == plan[w]
           chunked   == \E i \in DOMAIN list : Says(list, i, "transfer-encoding", "chunked")
           multipart == \E i \in DOMAIN list : Says(list, i, "content-type", "multipart")
           length    == \E i \in DOMAIN list : Says(list, i, "content-length", "length")
           coding    == SetLast(pl, "transfer-encoding")
           type      == SetLast(pl, "content-type")
           lengths   == SetLast(pl, "content-length")
<1>1. /\ chunked => q.type = "CHUNK"
      /\ ~chunked /\ multipart =>
           \E i \in DOMAIN list :
             /\ Says(list, i, "content-type", "multipart")
             /\ list[i].value[2] # NoBoundary =>
                  q.type = "BOUNDARY" /\ q.boundary = list[i].value[2]
      /\ ~chunked /\ ~multipart /\ length =>
           \E i \in DOMAIN list :
             /\ Says(list, i, "content-length", "length")
             /\ list[i].value[2] >= 0 =>
                  q.type = "NORMAL" /\ q.bodyBytes = list[i].value[2]
      /\ ~chunked /\ ~multipart /\ ~length => q.type = "NORMAL" /\ q.bodyBytes = 0
  <2>1. h \in Seq(Sym)
    BY HeaderType
  <2>2. HeaderOf(h, Len(list), Line(pl.url), [i \in DOMAIN list |-> Field(list[i])])
    BY RequestHeader
  <2>3. list \in Seq(Item) /\ pl.url \in Urls
    BY PlanFacts DEF IInv, TypeOK
  <2> HIDE DEF h, list, pl
  <2> DEFINE p == Push(NewParser(-1), h)
  <2>4. p \in WideParser /\ p.type = "INVALID" /\ p.pkts = h
    BY <2>1, FreshParser
  <2> HIDE DEF p
  <2>5. HeaderOf(p.pkts, Len(list), Line(pl.url), [i \in DOMAIN list |-> Field(list[i])])
    BY <2>2, <2>4
  <2> QED BY <2>3, <2>4, <2>5, RequestRead DEF p
<1>2. /\ \A i \in DOMAIN list :
           \E s \in SetLast(pl, Lower[list[i].key]) : Worth(list[i].value, s, pl, packets)
      /\ \A k : \A s \in SetLast(pl, k) :
           \E i \in DOMAIN list : Lower[list[i].key] = k /\ Worth(list[i].value, s, pl, packets)
  <2>1. PICK n \in Nat : n = Len(pl.sets) /\ DOMAIN pl.sets = 1 .. n
    <3>1. pl \in Plan
      BY PlanFacts
    <3>2. pl.sets \in Seq(Keys \X (Values \cup ({"size of"} \X DOMAIN Packets0)))
      BY <3>1 DEF Plan
    <3>3. Len(pl.sets) \in Nat /\ DOMAIN pl.sets = 1 .. Len(pl.sets)
      BY <3>2, LenProperties
    <3> QED BY <3>3
  <2>2. SetFrom(list, pl, n, packets)
    BY <2>1 DEF KindInv, SetCount
  <2> QED BY <2>1, <2>2, SetLastItems
<1>3. pl.kind \in {"NORMAL", "CHUNK", "BOUNDARY"}
  BY PlanFacts
<1>4. pl.kind = "NORMAL" =>
         /\ pl.parts = <<>> => Len(Meant(w)) = 0
         /\ Len(pl.parts) = 1 => /\ Meant(w) = packets[pl.parts[1]] /\ Len(Meant(w)) \in Nat
                                 /\ pl.parts = <<pl.parts[1]>>
  BY PlainBody
<1>5. /\ pl.kind = "CHUNK" => \E v \in coding : v[1] = "chunked"
      /\ pl.kind # "CHUNK" => ~ \E v \in coding : v[1] = "chunked"
      /\ pl.kind = "BOUNDARY" => type = {<<"multipart", pl.boundary>>} /\ pl.boundary # NoBoundary
      /\ pl.kind = "NORMAL" =>
           /\ \A v \in type : v[1] # "multipart"
           /\ \/ Len(pl.parts) = 1 /\ lengths = {<<"size of", pl.parts[1]>>}
              \/ pl.parts = <<>> /\ \A v \in lengths :
                                      v[1] \in {"length", "size of"} => v = <<"length", 0>>
  BY <1>3 DEF Announced
<1> HIDE DEF q, list, pl, coding, type, lengths
<1>6. chunked <=> \E v \in coding : v[1] = "chunked"
  <2>1. ASSUME NEW v \in coding, v[1] = "chunked" PROVE chunked
    <3>1. PICK i \in DOMAIN list : /\ Lower[list[i].key] = "transfer-encoding"
                                   /\ Worth(list[i].value, v, pl, packets)
      BY <1>2 DEF coding
    <3>2. list[i].value = v
      BY <2>1, <3>1 DEF Worth
    <3> QED BY <2>1, <3>1, <3>2 DEF Says
  <2>2. ASSUME NEW i \in DOMAIN list, Says(list, i, "transfer-encoding", "chunked")
        PROVE  \E v \in coding : v[1] = "chunked"
    <3>1. PICK s \in coding : Worth(list[i].value, s, pl, packets)
      BY <1>2, <2>2 DEF coding, Says
    <3>2. list[i].value = s
      BY <2>2, <3>1 DEF Worth, Says
    <3> QED BY <2>2, <3>1, <3>2 DEF Says
  <2> QED BY <2>1, <2>2
<1>7. ASSUME NEW i \in DOMAIN list, Says(list, i, "content-type", "multipart")
      PROVE  list[i].value \in type
  <2>1. PICK s \in type : Worth(list[i].value, s, pl, packets)
    BY <1>2, <1>7 DEF type, Says
  <2> QED BY <1>7, <2>1 DEF Worth, Says
<1>8. CASE pl.kind = "CHUNK"
  BY <1>1, <1>5, <1>6, <1>8 DEF q, pl
<1>9. CASE pl.kind = "BOUNDARY"
  <2>1. ~chunked
    BY <1>5, <1>6, <1>9
  <2>2. multipart
    <3>1. PICK v : v = <<"multipart", pl.boundary>> /\ v[1] = "multipart" /\ v \in type
      BY <1>5, <1>9
    <3>2. PICK i \in DOMAIN list : /\ Lower[list[i].key] = "content-type"
                                   /\ Worth(list[i].value, v, pl, packets)
      BY <1>2, <3>1 DEF type
    <3>3. list[i].value = v
      BY <3>1, <3>2 DEF Worth
    <3> QED BY <3>1, <3>2, <3>3 DEF Says
  <2>3. PICK i \in DOMAIN list :
          /\ Says(list, i, "content-type", "multipart")
          /\ list[i].value[2] # NoBoundary => q.type = "BOUNDARY" /\ q.boundary = list[i].value[2]
    BY <1>1, <2>1, <2>2
  <2>4. list[i].value[2] = pl.boundary /\ pl.boundary # NoBoundary
    <3>1. list[i].value = <<"multipart", pl.boundary>>
      BY <1>5, <1>7, <1>9, <2>3
    <3> QED BY <1>5, <1>9, <3>1
  <2>5. q.type = "BOUNDARY" /\ q.boundary = pl.boundary
    BY <2>3, <2>4
  <2> QED BY <1>9, <2>5 DEF q, pl
<1>10. CASE pl.kind = "NORMAL"
  <2>1. ~chunked /\ ~multipart
    <3>1. ~chunked
      BY <1>5, <1>6, <1>10
    <3>2. ASSUME NEW i \in DOMAIN list, Says(list, i, "content-type", "multipart") PROVE FALSE
      BY <1>5, <1>7, <1>10, <3>2 DEF Says
    <3> QED BY <3>1, <3>2
  <2>2. CASE Len(pl.parts) = 1 /\ lengths = {<<"size of", pl.parts[1]>>}
    <3> DEFINE c == pl.parts[1]
    <3>1. /\ Meant(w) = packets[c] /\ Len(Meant(w)) \in Nat /\ pl.parts = <<c>>
      BY <1>4, <1>10, <2>2
    <3> HIDE DEF c
    <3>2. PICK s : s = <<"size of", c>> /\ s[1] = "size of" /\ s[2] = c
      <4>1. <<"size of", c>>[1] = "size of" /\ <<"size of", c>>[2] = c
        OBVIOUS
      <4> QED BY <4>1
    <3>3. lengths = {s}
      BY <2>2, <3>2 DEF c
    <3>4. ASSUME NEW v, Worth(v, s, pl, packets)
          PROVE  v[1] = "length" /\ v[2] = Len(packets[c])
      BY <1>10, <3>1, <3>2, <3>4 DEF Worth
    <3>5. length
      <4>1. PICK i \in DOMAIN list : /\ Lower[list[i].key] = "content-length"
                                     /\ Worth(list[i].value, s, pl, packets)
        BY <1>2, <3>3 DEF lengths
      <4> QED BY <3>4, <4>1 DEF Says
    <3>6. PICK i \in DOMAIN list :
            /\ Says(list, i, "content-length", "length")
            /\ list[i].value[2] >= 0 => q.type = "NORMAL" /\ q.bodyBytes = list[i].value[2]
      BY <1>1, <2>1, <3>5
    <3>7. list[i].value[2] = Len(packets[c])
      <4>1. PICK r \in lengths : Worth(list[i].value, r, pl, packets)
        BY <1>2, <3>6 DEF lengths, Says
      <4> QED BY <3>3, <3>4, <4>1
    <3>8. q.type = "NORMAL" /\ q.bodyBytes = Len(Meant(w))
      BY <3>1, <3>6, <3>7
    <3> QED BY <1>10, <3>8 DEF q, pl
  <2>3. CASE pl.parts = <<>> /\ \A v \in lengths :
                                  v[1] \in {"length", "size of"} => v = <<"length", 0>>
    <3>1. Len(Meant(w)) = 0
      BY <1>4, <1>10, <2>3
    <3>2. ASSUME NEW i \in DOMAIN list, Says(list, i, "content-length", "length")
          PROVE  list[i].value[2] = 0
      <4>1. PICK s \in lengths : Worth(list[i].value, s, pl, packets)
        BY <1>2, <3>2 DEF lengths, Says
      <4>2. s[1] # "size of"
        <5> SUFFICES ASSUME s[1] = "size of" PROVE FALSE
          OBVIOUS
        <5>1. s = <<"length", 0>>
          BY <2>3, <4>1
        <5>2. <<"length", 0>>[1] = "length"
          OBVIOUS
        <5>3. s[1] = "length"
          BY <5>1, <5>2
        <5> QED BY <5>3
      <4>3. list[i].value = s /\ s[1] = "length"
        BY <3>2, <4>1, <4>2 DEF Worth, Says
      <4>4. s = <<"length", 0>>
        BY <2>3, <4>1, <4>3
      <4>5. <<"length", 0>>[2] = 0
        OBVIOUS
      <4>6. s[2] = 0
        BY <4>4, <4>5
      <4> QED BY <4>3, <4>6
    <3>3. q.type = "NORMAL" /\ q.bodyBytes = 0
      BY <1>1, <2>1, <3>2
    <3> QED BY <1>10, <3>1, <3>3 DEF q, pl
  <2> QED BY <1>5, <1>10, <2>2, <2>3
<1> QED BY <1>3, <1>8, <1>9, <1>10 DEF pl

\* KindAgrees: when every plan announces its body in the items it sets, however often and in
\* whatever spelling, the receiver's parser finds that kind, that length and that boundary in the
\* header of every request, also when it is sent again on another connection.
THEOREM KindsAlwaysAgree ==
  ASSUME \A p \in Plans : \A w \in Workers : Announced(p[w])
  PROVE  Spec => []KindAgrees
<1> DEFINE Inv == IInv /\ (Distinct => KindInv)
<1>1. Init => Inv
  BY InitInvariant, InitKind
<1>2. Inv /\ [Next]_vars => Inv'
  <2> SUFFICES ASSUME Inv, [Next]_vars PROVE Inv'
    OBVIOUS
  <2>1. IInv'
    BY NextInvariant
  <2>2. UNCHANGED plan
    BY DEF Next, SetItem, SendReq, SendBody, SendSize, SendLast, SendData, Reconnect, Ended, vars,
           work
  <2>3. ASSUME Distinct' PROVE KindInv'
    <3>1. Distinct
      BY <2>2, <2>3 DEF Distinct
    <3> QED BY <3>1, NextKind
  <2> QED BY <2>1, <2>3
<1>3. Inv => KindAgrees
  <2> SUFFICES ASSUME Inv, Distinct, NEW i \in DOMAIN begun
               PROVE  LET w == begun[i]
                          p == ParseHeader(Push(NewParser(-1),
                                                Serialize(Line(plan[w].url), items[w]))).p
                      IN /\ p.type = plan[w].kind
                         /\ p.type = "NORMAL" => p.bodyBytes = Len(Meant(w))
                         /\ p.type = "BOUNDARY" => p.boundary = plan[w].boundary
    BY DEF KindAgrees
  <2>1. begun \in Seq(Workers) /\ plan \in Plans
    BY DEF IInv, TypeOK
  <2>2. begun[i] \in Workers
    BY <2>1, LenProperties, ElementOfSeq
  <2>3. pc[begun[i]] # "set" /\ Announced(plan[begun[i]])
    BY <2>1, <2>2 DEF KindInv
  <2> QED BY <2>2, <2>3, KindRead
<1> QED BY <1>1, <1>2, <1>3, PTL DEF Spec
=============================================================================
