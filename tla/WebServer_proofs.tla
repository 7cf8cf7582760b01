--------------------------- MODULE WebServer_proofs ---------------------------
(***************************************************************************)
(* Theorems about WebServer, for every set of clients, urls, patterns and  *)
(* directories, and however often and in whatever order the routines are   *)
(* set while connections are served.                                       *)
(***************************************************************************)
EXTENDS WebServer, Sequence_proofs

\* What holds of a connection k, whatever the other connections do.
GoodConn(k) ==
  /\ k \in Conn
  /\ \A i \in DOMAIN k.calls : k.calls[i] = k.handler
  /\ k.found <= Len(readers)
  /\ k.handler[1] = "reader" /\ k.handler[2] # Len(readers) => k.found < Len(readers)
  /\ \A i \in DOMAIN k.answers : Len(k.answers[i]) = 2 => k.answers[i][1] = k.answers[i][2]
  /\ k.pc = "part" => k.left > 0
  /\ k.pc = "header" => k.content \in Content
  /\ k.pc = "body" => /\ k.content \in Content
                      /\ k.answers # <<>>
                      /\ k.answers[Len(k.answers)] = <<k.content>>

\* The types of the server's own members.
ServerType ==
  /\ svr \in {"null", "listening"}
  /\ loops \in Nat
  /\ DOMAIN matched \subseteq Urls
  /\ \A u \in DOMAIN matched : matched[u] \in {"routine"} \X Routines
  /\ DOMAIN wildcard \subseteq Wild
  /\ \A p \in DOMAIN wildcard : wildcard[p] \in Handler
  /\ wsHandler \in BOOLEAN
  /\ readers \in Seq(Dirs)
  /\ settings \in 0 .. MaxSettings

\* The inductive invariant.  The function of set_path is bound to its own pattern
\* only, and to the FileReader that was made last.
IInv ==
  /\ ServerType
  /\ ListeningServed
  /\ \A p \in DOMAIN wildcard :
       wildcard[p][1] = "reader" => p = AllFiles /\ wildcard[p][2] = Len(readers)
  /\ conns \in [Clients -> Conn]
  /\ \A c \in Clients : GoodConn(conns[c])

\* The invariant implies the properties.
LEMMA InvariantImplies ==
  IInv => /\ TypeOK
          /\ ListeningServed
          /\ OneRoutine
          /\ ReadersFresh
          /\ BodyMatchesHeader
<1> SUFFICES ASSUME IInv
             PROVE  TypeOK /\ ListeningServed /\ OneRoutine /\ ReadersFresh
                      /\ BodyMatchesHeader
  OBVIOUS
<1>1. TypeOK
  BY DEF IInv, ServerType, TypeOK
<1>2. OneRoutine
  BY DEF IInv, GoodConn, OneRoutine
<1>3. ReadersFresh
  BY DEF IInv, GoodConn, ReadersFresh
<1>4. BodyMatchesHeader
  BY DEF IInv, GoodConn, BodyMatchesHeader
<1> QED BY <1>1, <1>2, <1>3, <1>4 DEF IInv

\* A connection that has forgotten its request is good wherever it is.
LEMMA NewConnGood ==
  ASSUME NEW where \in {"out", "recv", "ws", "undefined", "closed"},
         readers \in Seq(Dirs)
  PROVE  GoodConn([NewConn EXCEPT !.pc = where])
<1> DEFINE k == [NewConn EXCEPT !.pc = where]
<1>1. /\ k.pc = where /\ k.request = NoRequest /\ k.handler = NoHandler
      /\ k.found = 0 /\ k.left = 0 /\ k.calls = <<>> /\ k.content = <<>>
      /\ k.answers = <<>>
  BY DEF NewConn
<1>2. k \in Conn
  <2>1. k = [pc |-> where, request |-> NoRequest, handler |-> NoHandler, found |-> 0,
             left |-> 0, calls |-> <<>>, content |-> <<>>, answers |-> <<>>]
    BY DEF NewConn
  <2>2. <<>> \in Seq(Handler) /\ <<>> \in Seq(Seq(Content))
    OBVIOUS
  <2> HIDE DEF k
  <2> QED BY <2>1, <2>2 DEF Conn
<1>3. Len(readers) \in Nat
  BY LenProperties
<1>4. k.handler[1] # "reader"
  BY <1>1 DEF NoHandler
<1> HIDE DEF k
<1>5. DOMAIN k.calls = {} /\ DOMAIN k.answers = {}
  BY <1>1
<1>6. k.pc \notin {"part", "header", "body"}
  BY <1>1
<1>7. k.found <= Len(readers)
  BY <1>1, <1>3
<1>8. GoodConn(k)
  BY <1>2, <1>4, <1>5, <1>6, <1>7 DEF GoodConn
<1> QED BY <1>8 DEF k

\* A step that changes one connection only, and leaves it good.
LEMMA SetGood ==
  ASSUME IInv, NEW c \in Clients, NEW k, GoodConn(k), Set(c, k)
  PROVE  IInv'
<1>1. conns' = [conns EXCEPT ![c] = k]
      /\ UNCHANGED <<svr, loops, matched, wildcard, wsHandler, readers, settings>>
  BY DEF Set
<1>2. ServerType' /\ ListeningServed'
  BY <1>1 DEF IInv, ServerType, ListeningServed
<1>3. (\A p \in DOMAIN wildcard :
         wildcard[p][1] = "reader" => p = AllFiles /\ wildcard[p][2] = Len(readers))'
  BY <1>1 DEF IInv
<1>4. k \in Conn
  BY DEF GoodConn
<1>5. conns' \in [Clients -> Conn]
  BY <1>1, <1>4 DEF IInv
<1>6. ASSUME NEW d \in Clients PROVE GoodConn(conns[d])'
  <2>1. GoodConn(conns'[d])
    <3>1. conns'[d] = IF d = c THEN k ELSE conns[d]
      BY <1>1 DEF IInv
    <3> QED BY <3>1 DEF IInv
  <2> QED BY <1>1, <2>1 DEF GoodConn
<1> QED BY <1>2, <1>3, <1>5, <1>6 DEF IInv

\* Where the list is longest and, among the longest, a "?" decides: the last with a
\* "?", or else the first.
LEMMA LongestExists ==
  ASSUME NEW hits \in SUBSET DOMAIN Order, hits # {}
  PROVE  \E i \in hits : Leads(Order, hits, i)
<1> DEFINE L(i) == Length[Order[i]]
<1>1. /\ Len(Order) \in Nat
      /\ DOMAIN Order = 1 .. Len(Order)
      /\ \A i \in hits : i \in 1 .. Len(Order) /\ Order[i] \in Wild
  BY PatternAssumption, LenProperties, ElementOfSeq
<1>2. \A i \in hits : L(i) \in 0 .. MaxLength
  BY <1>1, PatternAssumption
<1>3. PICK m \in hits : \A j \in hits : L(j) <= L(m)
  <2> DEFINE gaps == {MaxLength - L(i) : i \in hits}
  <2>1. gaps \in SUBSET Nat /\ gaps # {}
    BY <1>2, PatternAssumption
  <2>2. PICK g \in gaps : \A k \in gaps : g <= k
    BY <2>1, LeastExists
  <2>3. PICK m \in hits : g = MaxLength - L(m)
    BY <2>2
  <2>4. \A j \in hits : MaxLength - L(m) <= MaxLength - L(j)
    BY <2>2, <2>3
  <2> HIDE DEF L
  <2> QED BY <1>2, <2>4, PatternAssumption
<1> DEFINE top    == {i \in hits : L(i) = L(m)}
           asking == {i \in top : Order[i] \in Question}
<1>4. CASE asking # {}
  <2> DEFINE back == {Len(Order) - i : i \in asking}
  <2>1. back \in SUBSET Nat /\ back # {}
    BY <1>1, <1>4
  <2>2. PICK b \in back : \A k \in back : b <= k
    BY <2>1, LeastExists
  <2>3. PICK i \in asking : b = Len(Order) - i
    BY <2>2
  <2>4. \A j \in asking : Len(Order) - i <= Len(Order) - j
    BY <2>2, <2>3
  <2>5. \A j \in asking : j <= i
    BY <1>1, <2>4
  <2>6. i \in hits /\ L(i) = L(m) /\ Order[i] \in Question
    OBVIOUS
  <2>7. ASSUME NEW j \in hits, j < i PROVE Preferred(Order[j], Order[i]) = Order[i]
    BY <1>2, <1>3, <2>6, <2>7 DEF Preferred
  <2>8. ASSUME NEW j \in hits, j > i PROVE Preferred(Order[i], Order[j]) = Order[i]
    <3>1. j \notin asking
      BY <1>1, <2>5, <2>8
    <3> QED BY <1>2, <1>3, <2>6, <3>1 DEF Preferred
  <2> QED BY <2>6, <2>7, <2>8 DEF Leads
<1>5. CASE asking = {}
  <2>1. top \in SUBSET Nat /\ top # {}
    BY <1>1
  <2>2. PICK i \in top : \A k \in top : i <= k
    BY <2>1, LeastExists
  <2>3. i \in hits /\ L(i) = L(m)
    OBVIOUS
  <2>4. ASSUME NEW j \in hits, j < i PROVE Preferred(Order[j], Order[i]) = Order[i]
    <3>1. j \notin top
      BY <1>1, <2>2, <2>4
    <3>2. L(i) > L(j)
      BY <1>2, <1>3, <2>3, <3>1
    <3> QED BY <3>2 DEF Preferred
  <2>5. ASSUME NEW j \in hits, j > i PROVE Preferred(Order[i], Order[j]) = Order[i]
    <3>1. Order[j] \notin Question \/ L(j) # L(i)
      BY <1>5, <2>3
    <3> QED BY <1>2, <1>3, <2>3, <3>1 DEF Preferred
  <2> QED BY <2>3, <2>4, <2>5 DEF Leads
<1> QED BY <1>4, <1>5

\* What the sort puts in front is a longest pattern, with a "?" if one of the
\* longest has it.
LEMMA ForemostIsBest ==
  ASSUME NEW hits \in SUBSET DOMAIN Order, hits # {}
  PROVE  \E i \in hits :
           /\ Foremost(Order, hits) = Order[i]
           /\ \A j \in hits :
                /\ Length[Order[j]] <= Length[Order[i]]
                /\ Length[Order[j]] = Length[Order[i]] /\ Order[j] \in Question
                     => Order[i] \in Question
<1> DEFINE i0 == CHOOSE i \in hits : Leads(Order, hits, i)
<1>1. \E i \in hits : Leads(Order, hits, i)
  BY LongestExists
<1>2. i0 \in hits /\ Leads(Order, hits, i0)
  BY <1>1
<1>3. Foremost(Order, hits) = Order[i0]
  BY DEF Foremost
<1>4. \A i \in hits : i \in Nat /\ Length[Order[i]] \in Nat
  BY PatternAssumption, LenProperties, ElementOfSeq
<1> HIDE DEF i0
<1>5. ASSUME NEW j \in hits
      PROVE  /\ Length[Order[j]] <= Length[Order[i0]]
             /\ Length[Order[j]] = Length[Order[i0]] /\ Order[j] \in Question
                  => Order[i0] \in Question
  <2>1. CASE j < i0
    BY <1>2, <1>4, <2>1 DEF Preferred, Leads
  <2>2. CASE j > i0
    BY <1>2, <1>4, <2>2 DEF Preferred, Leads
  <2>3. CASE j = i0
    BY <1>4, <2>3
  <2> QED BY <1>2, <1>4, <2>1, <2>2, <2>3
<1> QED BY <1>2, <1>3, <1>5

\* find_handler returns nothing, or the best handler of the url.
LEMMA FindsBest ==
  ASSUME IInv, NEW url \in Urls, FindHandler(url) # NoHandler
  PROVE  /\ Best(url, FindHandler(url))
         /\ FindHandler(url) \in Handler
         /\ FindHandler(url)[1] = "reader" => FindHandler(url)[2] = Len(readers)
<1> DEFINE h == FindHandler(url)
<1>1. CASE url \in DOMAIN matched
  <2>1. h = matched[url]
    BY <1>1 DEF FindHandler
  <2>2. h \in {"routine"} \X Routines
    BY <1>1, <2>1 DEF IInv, ServerType
  <2> QED BY <1>1, <2>1, <2>2 DEF Best, Handler
<1>2. CASE url \notin DOMAIN matched
  <2> DEFINE hits == Shooted(url)
  <2>1. hits \in SUBSET DOMAIN Order /\ hits # {}
    BY <1>2 DEF FindHandler, Shooted
  <2>2. h = wildcard[Foremost(Order, hits)]
    BY <1>2, <2>1 DEF FindHandler
  <2> HIDE DEF h
  <2>3. PICK i \in hits :
          /\ Foremost(Order, hits) = Order[i]
          /\ \A j \in hits :
               /\ Length[Order[j]] <= Length[Order[i]]
               /\ Length[Order[j]] = Length[Order[i]] /\ Order[j] \in Question
                    => Order[i] \in Question
    BY <2>1, ForemostIsBest
  <2>4. /\ Order[i] \in DOMAIN wildcard
        /\ <<Order[i], url>> \in Matches
        /\ h = wildcard[Order[i]]
    BY <2>2, <2>3 DEF Shooted
  <2>5. ASSUME NEW q \in DOMAIN wildcard, <<q, url>> \in Matches
        PROVE  /\ Length[q] <= Length[Order[i]]
               /\ Length[q] = Length[Order[i]] /\ q \in Question => Order[i] \in Question
    <3>1. q \in Wild
      BY DEF IInv, ServerType
    <3>2. PICK j \in DOMAIN Order : Order[j] = q
      BY <3>1, PatternAssumption
    <3>3. j \in hits
      BY <2>5, <3>2 DEF Shooted
    <3> QED BY <2>3, <3>2, <3>3
  <2>6. Best(url, h)
    BY <1>2, <2>4, <2>5 DEF Best
  <2>7. h \in Handler /\ (h[1] = "reader" => h[2] = Len(readers))
    BY <2>4 DEF IInv, ServerType
  <2> QED BY <2>6, <2>7 DEF h
<1> QED BY <1>1, <1>2

\* The server starts without routines and connections.
LEMMA InitInvariant == Init => IInv
<1> SUFFICES ASSUME Init PROVE IInv
  OBVIOUS
<1>1. /\ svr = "null" /\ loops = 0 /\ matched = <<>> /\ wildcard = <<>>
      /\ wsHandler = FALSE /\ readers = <<>> /\ settings = 0
      /\ conns = [c \in Clients |-> NewConn]
  BY DEF Init
<1>2. DOMAIN matched = {} /\ DOMAIN wildcard = {} /\ readers \in Seq(Dirs)
  BY <1>1
<1>3. ServerType /\ ListeningServed
  <2>1. wsHandler \in BOOLEAN
    BY <1>1, Zenon
  <2> QED BY <1>1, <1>2, <2>1, SettingAssumption DEF ServerType, ListeningServed
<1>4. GoodConn([NewConn EXCEPT !.pc = "out"])
  BY <1>2, NewConnGood
<1>5. [NewConn EXCEPT !.pc = "out"] = NewConn
  BY DEF NewConn
<1>6. GoodConn(NewConn) /\ NewConn \in Conn
  BY <1>4, <1>5 DEF GoodConn
<1> QED BY <1>1, <1>2, <1>3, <1>6 DEF IInv

\* A connection stays good when members of the server change that it does not hold.
LEMMA OthersGood ==
  ASSUME IInv, UNCHANGED <<conns, readers>>, wsHandler => wsHandler'
  PROVE  /\ (\A c \in Clients : GoodConn(conns[c]))'
         /\ (conns \in [Clients -> Conn])'
  BY DEF IInv, GoodConn

\* start keeps the one accept coroutine.
LEMMA StartStep == ASSUME IInv, NEW listens \in BOOLEAN, Start(listens) PROVE IInv'
<1>1. UNCHANGED <<matched, wildcard, wsHandler, readers, settings, conns>> /\ svr = "null"
  BY DEF Start
<1>2. svr' \in {"null", "listening"} /\ loops' = IF svr' = "listening" THEN 1 ELSE 0
  BY DEF Start, IInv, ListeningServed
<1>3. ServerType' /\ ListeningServed'
  BY <1>1, <1>2 DEF IInv, ServerType, ListeningServed
<1> QED BY <1>1, <1>3, OthersGood DEF IInv

\* set_routine binds routines of the application only.
LEMMA SetRoutineStep ==
  ASSUME IInv, NEW url, NEW routine, <<url, routine>> \in Settings,
         SetRoutine(url, routine)
  PROVE  IInv'
<1> DEFINE h == <<"routine", routine>>
<1>1. /\ UNCHANGED <<svr, loops, wsHandler, readers, conns>>
      /\ settings' \in 0 .. MaxSettings
  BY SettingAssumption DEF SetRoutine, Setting, IInv, ServerType
<1>2. routine \in Routines /\ url \in Urls \cup Wild
  BY SettingAssumption
<1>3. h \in {"routine"} \X Routines /\ h[1] # "reader"
  BY <1>2
<1>4. h \in Handler
  BY <1>3 DEF Handler
<1>5. ListeningServed'
  BY <1>1 DEF IInv, ListeningServed
<1>6. CASE url \in Wild
  <2>1. wildcard' = Bind(wildcard, url, h) /\ matched' = matched
    BY <1>6 DEF SetRoutine
  <2> HIDE DEF h
  <2>2. /\ DOMAIN wildcard' = DOMAIN wildcard \cup {url}
        /\ \A q \in DOMAIN wildcard' : wildcard'[q] = IF q = url THEN h ELSE wildcard[q]
    BY <2>1 DEF Bind
  <2>3. ServerType'
    BY <1>1, <1>4, <1>6, <2>1, <2>2 DEF IInv, ServerType
  <2>4. (\A p \in DOMAIN wildcard :
           wildcard[p][1] = "reader" => p = AllFiles /\ wildcard[p][2] = Len(readers))'
    BY <1>1, <1>3, <2>2 DEF IInv
  <2> QED BY <1>1, <1>5, <2>3, <2>4, OthersGood DEF IInv
<1>7. CASE url \notin Wild
  <2>1. matched' = Bind(matched, url, h) /\ wildcard' = wildcard
    BY <1>7 DEF SetRoutine
  <2> HIDE DEF h
  <2>2. /\ DOMAIN matched' = DOMAIN matched \cup {url}
        /\ \A q \in DOMAIN matched' : matched'[q] = IF q = url THEN h ELSE matched[q]
    BY <2>1 DEF Bind
  <2>3. ServerType'
    BY <1>1, <1>2, <1>3, <1>7, <2>1, <2>2 DEF IInv, ServerType
  <2> QED BY <1>1, <1>5, <2>1, <2>3, OthersGood DEF IInv
<1> QED BY <1>6, <1>7

\* set_path: functions on the FileReader that is deleted are left only with
\* connections that have them already.
LEMMA SetPathStep == ASSUME IInv, NEW dir \in Dirs, SetPath(dir) PROVE IInv'
<1> DEFINE h == <<"reader", Len(readers')>>
<1>1. /\ UNCHANGED <<svr, loops, matched, wsHandler, conns>>
      /\ settings' \in 0 .. MaxSettings
      /\ readers' = Append(readers, dir)
      /\ wildcard' = Bind(wildcard, AllFiles, h)
  BY SettingAssumption DEF SetPath, Setting, IInv, ServerType
<1>2. readers' \in Seq(Dirs) /\ Len(readers') = Len(readers) + 1 /\ Len(readers) \in Nat
  BY <1>1, AppendProperties, LenProperties DEF IInv, ServerType
<1>3. h \in Handler /\ h[2] = Len(readers')
  BY <1>2 DEF Handler
<1> HIDE DEF h
<1>4. /\ DOMAIN wildcard' = DOMAIN wildcard \cup {AllFiles}
      /\ \A q \in DOMAIN wildcard' : wildcard'[q] = IF q = AllFiles THEN h ELSE wildcard[q]
  BY <1>1 DEF Bind
<1>5. ServerType' /\ ListeningServed'
  BY <1>1, <1>2, <1>3, <1>4, PatternAssumption DEF IInv, ServerType, ListeningServed
<1>6. (\A p \in DOMAIN wildcard :
         wildcard[p][1] = "reader" => p = AllFiles /\ wildcard[p][2] = Len(readers))'
  BY <1>3, <1>4 DEF IInv
<1>7. ASSUME NEW c \in Clients PROVE GoodConn(conns[c])'
  <2>1. GoodConn(conns[c]) /\ conns[c].found \in Nat
    BY DEF IInv, GoodConn, Conn
  <2>2. conns'[c].found < Len(readers')
    BY <1>1, <1>2, <2>1 DEF GoodConn
  <2> QED BY <1>1, <1>2, <2>1, <2>2 DEF GoodConn
<1> QED BY <1>1, <1>5, <1>6, <1>7 DEF IInv

\* set_ws_handler never takes the handler away.
LEMMA SetWsHandlerStep == ASSUME IInv, SetWsHandler PROVE IInv'
<1>1. /\ UNCHANGED <<svr, loops, matched, wildcard, readers, conns>>
      /\ settings' \in 0 .. MaxSettings
      /\ wsHandler' = TRUE
  BY SettingAssumption DEF SetWsHandler, Setting, IInv, ServerType
<1>2. ServerType' /\ ListeningServed'
  BY <1>1 DEF IInv, ServerType, ListeningServed
<1> QED BY <1>1, <1>2, OthersGood DEF IInv

\* A connection that only goes on elsewhere stays good.
LEMMA MoveGood ==
  ASSUME NEW k, GoodConn(k), NEW where \in {"waiting", "recv", "part", "routine"},
         where = "part" => k.left > 0
  PROVE  GoodConn([k EXCEPT !.pc = where])
<1> DEFINE n == [k EXCEPT !.pc = where]
<1>1. k \in Conn
  BY DEF GoodConn
<1>2. n \in Conn
  BY <1>1 DEF Conn
<1>3. /\ n.pc = where /\ n.handler = k.handler /\ n.found = k.found /\ n.left = k.left
      /\ n.calls = k.calls /\ n.answers = k.answers
  BY <1>1 DEF Conn
<1> HIDE DEF n
<1>4. GoodConn(n)
  BY <1>2, <1>3 DEF GoodConn
<1> QED BY <1>4 DEF n

\* A connection whose function has returned true is good.
LEMMA ContinueGood ==
  ASSUME NEW k, GoodConn(k), readers \in Seq(Dirs)
  PROVE  GoodConn(Continue(k))
<1>1. k.left \in Nat
  BY DEF GoodConn, Conn
<1>2. CASE k.left = 0
  BY <1>2, NewConnGood DEF Continue
<1>3. CASE k.left # 0
  <2>1. GoodConn([k EXCEPT !.pc = "part"])
    <3>1. k.left > 0 /\ "part" \in {"waiting", "recv", "part", "routine"}
      BY <1>1, <1>3
    <3> QED BY <3>1, MoveGood
  <2> QED BY <1>3, <2>1 DEF Continue
<1> QED BY <1>2, <1>3

\* A client connects, is accepted, or leaves.
LEMMA LinkStep ==
  ASSUME IInv, NEW c \in Clients, Connect(c) \/ Accept(c) \/ Leave(c)
  PROVE  IInv'
<1>1. GoodConn(conns[c]) /\ readers \in Seq(Dirs)
  BY DEF IInv, ServerType
<1>2. CASE Connect(c)
  BY <1>1, <1>2, MoveGood, SetGood DEF Connect
<1>3. CASE Accept(c)
  BY <1>1, <1>3, MoveGood, SetGood DEF Accept
<1>4. CASE Leave(c)
  BY <1>1, <1>4, NewConnGood, SetGood DEF Leave
<1> QED BY <1>2, <1>3, <1>4

\* A request gets its function, which is on the FileReader of this moment if it is
\* on one at all.
LEMMA ArriveStep ==
  ASSUME IInv, NEW c \in Clients, NEW request \in Requests, Arrive(c, request)
  PROVE  IInv'
<1> DEFINE h == FindHandler(request.url)
           k == [NewConn EXCEPT !.pc = "part", !.request = request, !.handler = h,
                                !.found = Len(readers), !.left = request.parts]
<1>1. Set(c, IF h = NoHandler THEN [NewConn EXCEPT !.pc = "closed"] ELSE k)
  BY DEF Arrive
<1>2. readers \in Seq(Dirs) /\ Len(readers) \in Nat
  BY LenProperties DEF IInv, ServerType
<1>3. request.url \in Urls /\ request.parts \in Nat \ {0}
  BY RequestAssumption DEF Request
<1>4. CASE h = NoHandler
  BY <1>1, <1>2, <1>4, NewConnGood, SetGood
<1>5. CASE h # NoHandler
  <2>1. h \in Handler /\ (h[1] = "reader" => h[2] = Len(readers))
    BY <1>3, <1>5, FindsBest
  <2> HIDE DEF h
  <2>2. NewConn \in Conn
    <3>1. GoodConn([NewConn EXCEPT !.pc = "out"])
      BY <1>2, NewConnGood
    <3>2. [NewConn EXCEPT !.pc = "out"] = NewConn
      BY DEF NewConn
    <3> QED BY <3>1, <3>2 DEF GoodConn
  <2>3. \A r \in Requests, g \in Handler, n, l \in Nat :
          [NewConn EXCEPT !.pc = "part", !.request = r, !.handler = g, !.found = n,
                          !.left = l] \in Conn
    BY <2>2 DEF Conn
  <2>4. k \in Conn
    BY <1>2, <1>3, <2>1, <2>3
  <2>5. /\ k.pc = "part" /\ k.handler = h /\ k.found = Len(readers) /\ k.left > 0
        /\ DOMAIN k.calls = {} /\ DOMAIN k.answers = {}
    BY <1>3 DEF NewConn
  <2> HIDE DEF k
  <2>6. GoodConn(k)
    BY <1>2, <2>1, <2>4, <2>5 DEF GoodConn
  <2> QED BY <1>1, <1>5, <2>6, SetGood
<1> QED BY <1>4, <1>5

\* One more call of the function that the connection holds.
LEMMA CallGood ==
  ASSUME NEW k, GoodConn(k), k.pc = "part", k.handler \in Handler,
         NEW where \in {"routine", "header"}, NEW what \in Content \cup {<<>>},
         where = "header" => what \in Content
  PROVE  GoodConn([k EXCEPT !.pc = where, !.content = what,
                            !.calls = Append(@, k.handler), !.left = @ - 1])
<1> DEFINE n == [k EXCEPT !.pc = where, !.content = what,
                          !.calls = Append(@, k.handler), !.left = @ - 1]
<1>1. k \in Conn /\ k.left > 0
  BY DEF GoodConn
<1>2. k.left - 1 \in Nat /\ k.calls \in Seq(Handler)
  BY <1>1 DEF Conn
<1>3. /\ Append(k.calls, k.handler) \in Seq(Handler)
      /\ \A i \in DOMAIN Append(k.calls, k.handler) :
           Append(k.calls, k.handler)[i] = k.handler
  BY <1>2, AppendProperties, LenProperties DEF GoodConn
<1>4. /\ n.pc = where /\ n.request = k.request /\ n.handler = k.handler
      /\ n.found = k.found /\ n.left = k.left - 1 /\ n.content = what
      /\ n.calls = Append(k.calls, k.handler) /\ n.answers = k.answers
  BY <1>1 DEF Conn
<1>5. \A p \in {"routine", "header"}, w \in Content \cup {<<>>}, l \in Nat,
         cs \in Seq(Handler) :
        [k EXCEPT !.pc = p, !.content = w, !.calls = cs, !.left = l] \in Conn
  BY <1>1 DEF Conn
<1>6. n \in Conn
  <2> DEFINE cs == Append(k.calls, k.handler)
             l  == k.left - 1
  <2>1. n = [k EXCEPT !.pc = where, !.content = what, !.calls = cs, !.left = l]
    OBVIOUS
  <2>2. cs \in Seq(Handler) /\ l \in Nat
    BY <1>2, <1>3
  <2> HIDE DEF cs, l, n
  <2> QED BY <1>5, <2>1, <2>2
<1> HIDE DEF n
<1>7. GoodConn(n)
  BY <1>3, <1>4, <1>6 DEF GoodConn
<1> QED BY <1>7 DEF n

\* A routine of the application is called, and returns.
LEMMA RoutineStep ==
  ASSUME IInv, NEW c \in Clients,
         CallRoutine(c) \/ \E keep \in BOOLEAN : RoutineReturn(c, keep)
  PROVE  IInv'
<1> DEFINE k == conns[c]
<1>1. GoodConn(k) /\ k \in Conn /\ readers \in Seq(Dirs)
  BY DEF IInv, ServerType, GoodConn
<1>2. CASE CallRoutine(c)
  <2> DEFINE n == [k EXCEPT !.pc = "routine", !.calls = Append(@, k.handler), !.left = @ - 1]
  <2>1. k.pc = "part" /\ k.handler[1] = "routine" /\ Set(c, n)
    BY <1>2 DEF CallRoutine, At
  <2>2. k.handler \in Handler /\ k.content \in Content \cup {<<>>}
    BY <1>1, <2>1 DEF Conn, NoHandler
  <2>3. GoodConn([k EXCEPT !.pc = "routine", !.content = k.content,
                           !.calls = Append(@, k.handler), !.left = @ - 1])
    <3>1. "routine" \in {"routine", "header"}
      OBVIOUS
    <3> HIDE DEF k
    <3> QED BY <1>1, <2>1, <2>2, <3>1, CallGood
  <2>4. n = [k EXCEPT !.pc = "routine", !.content = k.content,
                      !.calls = Append(@, k.handler), !.left = @ - 1]
    BY <1>1 DEF Conn
  <2> HIDE DEF n
  <2> QED BY <2>1, <2>3, <2>4, SetGood
<1>3. CASE \E keep \in BOOLEAN : RoutineReturn(c, keep)
  <2>1. Set(c, Continue(k)) \/ Set(c, [NewConn EXCEPT !.pc = "closed"])
    BY <1>3 DEF RoutineReturn
  <2>2. GoodConn(Continue(k))
    BY <1>1, ContinueGood
  <2>3. GoodConn([NewConn EXCEPT !.pc = "closed"])
    BY <1>1, NewConnGood
  <2> QED BY <2>1, <2>2, <2>3, SetGood
<1> QED BY <1>2, <1>3

\* on_message prepares an answer of one file, or uses a FileReader that is gone.
LEMMA OnMessageStep == ASSUME IInv, NEW c \in Clients, OnMessage(c) PROVE IInv'
<1> DEFINE k == conns[c]
           r == k.handler[2]
           Next1(x) == [k EXCEPT !.pc = "header", !.content = x,
                                 !.calls = Append(@, k.handler), !.left = @ - 1]
<1>1. GoodConn(k) /\ k \in Conn /\ readers \in Seq(Dirs) /\ Len(readers) \in Nat
  BY LenProperties DEF IInv, ServerType, GoodConn
<1>2. k.pc = "part" /\ k.handler[1] = "reader"
  BY DEF OnMessage, At
<1>3. k.handler \in Handler
  BY <1>1, <1>2 DEF Conn, NoHandler
<1>4. r \in Nat \ {0}
  BY <1>2, <1>3 DEF Handler
<1>5. r = Len(readers) => readers[r] \in Dirs
  BY <1>1, <1>4, ElementOfSeq
<1>6. ASSUME NEW x \in Content PROVE GoodConn(Next1(x))
  <2>1. "header" \in {"routine", "header"} /\ x \in Content \cup {<<>>}
    OBVIOUS
  <2> HIDE DEF k
  <2> QED BY <1>1, <1>2, <1>3, <2>1, CallGood
<1>7. \/ Set(c, [NewConn EXCEPT !.pc = "undefined"])
      \/ Set(c, Next1(<<404, "none">>))
      \/ Set(c, Next1(<<302, "none">>))
      \/ r = Len(readers) /\ Set(c, Next1(<<200, readers[r]>>))
  BY DEF OnMessage
<1>8. <<404, "none">> \in Content /\ <<302, "none">> \in Content
  BY DEF Content
<1>9. r = Len(readers) => <<200, readers[r]>> \in Content
  BY <1>5 DEF Content
<1>10. GoodConn([NewConn EXCEPT !.pc = "undefined"])
  BY <1>1, NewConnGood
<1> HIDE DEF Next1
<1> QED BY <1>6, <1>7, <1>8, <1>9, <1>10, SetGood

\* A connection that has one more answer, or one that is complete now.
LEMMA AnsweredGood ==
  ASSUME NEW k, GoodConn(k), NEW a \in Seq(Seq(Content)),
         \A i \in DOMAIN a : Len(a[i]) = 2 => a[i][1] = a[i][2],
         NEW p \in {"part", "body"}, p = "part" => k.left > 0,
         p = "body" => k.content \in Content /\ a # <<>> /\ a[Len(a)] = <<k.content>>
  PROVE  GoodConn([k EXCEPT !.pc = p, !.answers = a])
<1> DEFINE n == [k EXCEPT !.pc = p, !.answers = a]
<1>1. k \in Conn
  BY DEF GoodConn
<1>2. n \in Conn
  <2>1. \A q \in {"part", "body"}, b \in Seq(Seq(Content)) :
          [k EXCEPT !.pc = q, !.answers = b] \in Conn
    BY <1>1 DEF Conn
  <2> QED BY <2>1
<1>3. /\ n.pc = p /\ n.handler = k.handler /\ n.found = k.found /\ n.left = k.left
      /\ n.calls = k.calls /\ n.answers = a /\ n.content = k.content
  BY <1>1 DEF Conn
<1> HIDE DEF n
<1>4. GoodConn(n)
  BY <1>2, <1>3 DEF GoodConn
<1> QED BY <1>4 DEF n

\* The same when on_message returns then.
LEMMA AnsweredContinueGood ==
  ASSUME NEW k, GoodConn(k), readers \in Seq(Dirs), NEW a \in Seq(Seq(Content)),
         \A i \in DOMAIN a : Len(a[i]) = 2 => a[i][1] = a[i][2]
  PROVE  GoodConn(Continue([k EXCEPT !.answers = a]))
<1> DEFINE n == [k EXCEPT !.answers = a]
<1>1. k \in Conn /\ k.left \in Nat
  BY DEF GoodConn, Conn
<1>2. n.left = k.left /\ [n EXCEPT !.pc = "part"] = [k EXCEPT !.pc = "part", !.answers = a]
  BY <1>1 DEF Conn
<1> HIDE DEF n
<1>3. CASE k.left = 0
  <2>1. Continue(n) = [NewConn EXCEPT !.pc = "recv"]
    BY <1>2, <1>3 DEF Continue
  <2> QED BY <2>1, NewConnGood DEF n
<1>4. CASE k.left # 0
  <2>1. k.left > 0 /\ "part" \in {"part", "body"} /\ "part" # "body"
    BY <1>1, <1>4
  <2>2. GoodConn([k EXCEPT !.pc = "part", !.answers = a])
    BY <2>1, AnsweredGood
  <2>3. Continue(n) = [k EXCEPT !.pc = "part", !.answers = a]
    BY <1>2, <1>4 DEF Continue
  <2> QED BY <2>2, <2>3 DEF n
<1> QED BY <1>3, <1>4

\* The header of an answer is sent.
LEMMA HeaderSentStep == ASSUME IInv, NEW c \in Clients, HeaderSent(c) PROVE IInv'
<1> DEFINE k    == conns[c]
           x    == k.content
           both == Append(k.answers, <<x, x>>)
           one  == Append(k.answers, <<x>>)
<1>1. GoodConn(k) /\ k \in Conn /\ readers \in Seq(Dirs)
  BY DEF IInv, ServerType, GoodConn
<1>2. k.pc = "header" /\ x \in Content
  BY <1>1 DEF HeaderSent, At, GoodConn
<1>3. k.answers \in Seq(Seq(Content)) /\ Len(k.answers) \in Nat
  BY <1>1, LenProperties DEF Conn
<1>4. \/ Set(c, Continue([k EXCEPT !.answers = both]))
      \/ Set(c, [k EXCEPT !.pc = "body", !.answers = one])
  BY DEF HeaderSent
<1>5. <<x, x>> \in Seq(Content) /\ <<x>> \in Seq(Content) /\ Len(<<x>>) = 1
  BY <1>2
<1>6. \A i \in DOMAIN k.answers :
        Len(k.answers[i]) = 2 => k.answers[i][1] = k.answers[i][2]
  BY <1>1 DEF GoodConn
<1> HIDE DEF k, x
<1>7. both \in Seq(Seq(Content))
      /\ \A i \in DOMAIN both : Len(both[i]) = 2 => both[i][1] = both[i][2]
  <2>1. /\ both \in Seq(Seq(Content)) /\ DOMAIN both = 1 .. Len(k.answers) + 1
        /\ \A i \in DOMAIN both : both[i] = IF i \in DOMAIN k.answers THEN k.answers[i]
                                             ELSE <<x, x>>
    BY <1>3, <1>5, AppendProperties, LenProperties
  <2> QED BY <1>6, <2>1
<1>8. /\ one \in Seq(Seq(Content)) /\ one # <<>> /\ one[Len(one)] = <<x>>
      /\ \A i \in DOMAIN one : Len(one[i]) = 2 => one[i][1] = one[i][2]
  <2>1. /\ one \in Seq(Seq(Content)) /\ DOMAIN one = 1 .. Len(k.answers) + 1
        /\ Len(one) = Len(k.answers) + 1
        /\ \A i \in DOMAIN one : one[i] = IF i \in DOMAIN k.answers THEN k.answers[i]
                                           ELSE <<x>>
    BY <1>3, <1>5, AppendProperties, LenProperties
  <2>2. one[Len(one)] = <<x>> /\ one # <<>>
    BY <1>3, AppendProperties, LenProperties
  <2> QED BY <1>5, <1>6, <2>1, <2>2
<1> HIDE DEF both, one
<1>9. GoodConn(Continue([k EXCEPT !.answers = both]))
  BY <1>1, <1>7, AnsweredContinueGood
<1>10. GoodConn([k EXCEPT !.pc = "body", !.answers = one])
  <2>1. "body" \in {"part", "body"} /\ "body" # "part" /\ one[Len(one)] = <<k.content>>
    BY <1>8 DEF x
  <2>2. k.content \in Content
    BY <1>2 DEF x
  <2> QED BY <1>1, <1>8, <2>1, <2>2, AnsweredGood
<1> QED BY <1>4, <1>9, <1>10, SetGood

\* The body of an answer is sent: what follows the header is of the same file.
LEMMA BodySentStep == ASSUME IInv, NEW c \in Clients, BodySent(c) PROVE IInv'
<1> DEFINE k == conns[c]
           x == k.content
           l == Len(k.answers)
           a == [k.answers EXCEPT ![l] = Append(@, x)]
<1>1. GoodConn(k) /\ k \in Conn /\ readers \in Seq(Dirs)
  BY DEF IInv, ServerType, GoodConn
<1>2. /\ k.pc = "body" /\ x \in Content
      /\ k.answers # <<>> /\ k.answers[l] = <<x>>
  BY <1>1 DEF BodySent, At, GoodConn
<1>3. k.answers \in Seq(Seq(Content)) /\ l \in Nat /\ DOMAIN k.answers = 1 .. l
  BY <1>1, LenProperties DEF Conn
<1>4. Set(c, Continue([k EXCEPT !.answers = a]))
  BY <1>1 DEF BodySent, Conn
<1>5. \A i \in DOMAIN k.answers :
        Len(k.answers[i]) = 2 => k.answers[i][1] = k.answers[i][2]
  BY <1>1 DEF GoodConn
<1> HIDE DEF k, x, l
<1> DEFINE y == Append(<<x>>, x)
<1>6. y \in Seq(Content) /\ y[1] = x /\ y[2] = x
  <2>1. <<x>> \in Seq(Content) /\ Len(<<x>>) = 1 /\ <<x>>[1] = x
    BY <1>2
  <2> QED BY <1>2, <2>1, AppendProperties
<1> HIDE DEF y
<1>7. a \in Seq(Seq(Content))
  BY <1>2, <1>3, <1>6 DEF y
<1>8. \A i \in DOMAIN a : a[i] = IF i = l THEN y ELSE k.answers[i]
  BY <1>2, <1>3 DEF y
<1>9. ASSUME NEW i \in DOMAIN a, Len(a[i]) = 2 PROVE a[i][1] = a[i][2]
  <2>1. CASE i = l
    BY <1>6, <1>8, <2>1
  <2>2. CASE i # l
    <3>1. a[i] = k.answers[i] /\ i \in DOMAIN k.answers
      BY <1>8, <2>2
    <3> QED BY <1>5, <1>9, <3>1
  <2> QED BY <2>1, <2>2
<1> HIDE DEF a
<1>10. GoodConn(Continue([k EXCEPT !.answers = a]))
  BY <1>1, <1>7, <1>9, AnsweredContinueGood
<1> QED BY <1>4, <1>10, SetGood

\* A websocket is opened only when there is a handler.
LEMMA UpgradeStep == ASSUME IInv, NEW c \in Clients, Upgrade(c) PROVE IInv'
<1>1. GoodConn(conns[c]) /\ readers \in Seq(Dirs)
  BY DEF IInv, ServerType
<1>2. Set(c, IF wsHandler THEN [NewConn EXCEPT !.pc = "ws"] ELSE conns[c])
  BY DEF Upgrade
<1>3. CASE wsHandler
  BY <1>1, <1>2, <1>3, NewConnGood, SetGood
<1>4. CASE ~wsHandler
  BY <1>1, <1>2, <1>4, SetGood
<1> QED BY <1>3, <1>4

\* Every step keeps the invariant.
LEMMA NextInvariant == IInv /\ [Next]_vars => IInv'
<1> SUFFICES ASSUME IInv, [Next]_vars PROVE IInv'
  OBVIOUS
<1>1. CASE Application
  <2>1. CASE \E listens \in BOOLEAN : Start(listens)
    BY <2>1, StartStep
  <2>2. CASE \E s \in Settings : SetRoutine(s[1], s[2])
    <3>1. PICK s \in Settings : SetRoutine(s[1], s[2])
      BY <2>2
    <3>2. <<s[1], s[2]>> \in Settings
      BY SettingAssumption
    <3> QED BY <3>1, <3>2, SetRoutineStep
  <2>3. CASE \E dir \in Dirs : SetPath(dir)
    BY <2>3, SetPathStep
  <2>4. CASE SetWsHandler
    BY <2>4, SetWsHandlerStep
  <2> QED BY <1>1, <2>1, <2>2, <2>3, <2>4 DEF Application
<1>2. ASSUME NEW c \in Clients, Accept(c) \/ Connection(c) PROVE IInv'
  BY <1>2, LinkStep, ArriveStep, RoutineStep, OnMessageStep, HeaderSentStep,
     BodySentStep, UpgradeStep DEF Connection
<1>3. CASE Ended \/ UNCHANGED vars
  <2>1. UNCHANGED <<svr, loops, matched, wildcard, wsHandler, readers, settings, conns>>
    BY <1>3 DEF Ended, vars
  <2>2. ServerType' /\ ListeningServed'
    BY <2>1 DEF IInv, ServerType, ListeningServed
  <2> QED BY <2>1, <2>2, OthersGood DEF IInv
<1> QED BY <1>1, <1>2, <1>3 DEF Next

\* The invariant holds in every state.
LEMMA AlwaysInvariant == Spec => []IInv
<1> QED BY InitInvariant, NextInvariant, PTL DEF Spec

\* The server and its connections keep their types, for every set of clients,
\* urls, patterns and directories, and every order of the calls.
THEOREM ServerTypeCorrect == Spec => []TypeOK
<1> QED BY AlwaysInvariant, InvariantImplies, PTL

\* However often start is called and fails, a server that listens has exactly one
\* accept coroutine, and one that does not listen has none.
THEOREM AlwaysListeningServed == Spec => []ListeningServed
<1> QED BY AlwaysInvariant, InvariantImplies, PTL

\* All parts of a request are handed to the function that was found for it.
THEOREM AlwaysOneRoutine == Spec => []OneRoutine
<1> QED BY AlwaysInvariant, InvariantImplies, PTL

\* Only a request under way when set_path is called can use the FileReader that it
\* deletes.
THEOREM AlwaysReadersFresh == Spec => []ReadersFresh
<1> QED BY AlwaysInvariant, InvariantImplies, PTL

\* The header and the body of an answer of a FileReader are those of one file.
THEOREM AlwaysBodyMatches == Spec => []BodyMatchesHeader
<1> QED BY AlwaysInvariant, InvariantImplies, PTL

\* The step in which a request gets its function gives it the best one.
LEMMA StepChoosesBest ==
  ASSUME IInv, [Next]_vars, NEW c \in Clients, At(c, "recv"), At(c, "part")'
  PROVE  Best(conns'[c].request.url, conns'[c].handler)
<1>1. conns[c].pc = "recv" /\ conns'[c].pc = "part" /\ conns \in [Clients -> Conn]
  BY DEF At, IInv
<1>2. conns' # conns
  BY <1>1
<1>3. ~Application /\ ~Ended /\ ~UNCHANGED vars
  BY <1>2 DEF Application, Start, SetRoutine, SetPath, SetWsHandler, Ended, vars
<1>4. PICK d \in Clients : Accept(d) \/ Connection(d)
  BY <1>3 DEF Next
<1>5. PICK k : Set(d, k)
  BY <1>4 DEF Accept, Connection, Connect, Leave, Arrive, CallRoutine, RoutineReturn,
              OnMessage, HeaderSent, BodySent, Upgrade
<1>6. d = c
  BY <1>1, <1>5 DEF Set
<1>7. PICK request \in Requests : Arrive(c, request)
  <2>1. ~Connect(c) /\ ~Accept(c) /\ ~CallRoutine(c) /\ ~OnMessage(c) /\ ~HeaderSent(c)
        /\ ~BodySent(c) /\ ~Upgrade(c) /\ ~(\E keep \in BOOLEAN : RoutineReturn(c, keep))
    BY <1>1 DEF Connect, Accept, CallRoutine, OnMessage, HeaderSent, BodySent, Upgrade,
                RoutineReturn, At
  <2>2. ~Leave(c)
    <3>1. [NewConn EXCEPT !.pc = "closed"].pc # "part"
      BY DEF NewConn
    <3> QED BY <1>1, <3>1 DEF Leave, Set
  <2> QED BY <1>4, <1>6, <2>1, <2>2 DEF Connection
<1> DEFINE h == FindHandler(request.url)
           n == [NewConn EXCEPT !.pc = "part", !.request = request, !.handler = h,
                                !.found = Len(readers), !.left = request.parts]
<1>8. Set(c, IF h = NoHandler THEN [NewConn EXCEPT !.pc = "closed"] ELSE n)
  BY <1>7 DEF Arrive
<1>9. [NewConn EXCEPT !.pc = "closed"].pc # "part"
  BY DEF NewConn
<1>10. n.request = request /\ n.handler = h
  BY DEF NewConn
<1> HIDE DEF h, n
<1>11. h # NoHandler /\ conns'[c] = n
  BY <1>1, <1>8, <1>9 DEF Set
<1>12. request.url \in Urls
  BY RequestAssumption DEF Request
<1>13. Best(request.url, h)
  BY <1>11, <1>12, FindsBest DEF h
<1> QED BY <1>10, <1>11, <1>13

\* Every request gets the routine of its url or, without one, that of a longest
\* pattern that matches it, although the comparator is no order: for every set of
\* patterns, whatever routines are set meanwhile.
THEOREM AlwaysChosenBest == Spec => ChosenBest
<1>1. IInv /\ [Next]_vars =>
        [\A c \in Clients : At(c, "recv") /\ At(c, "part")' =>
            Best(conns'[c].request.url, conns'[c].handler)]_vars
  BY StepChoosesBest
<1> QED BY <1>1, AlwaysInvariant, PTL DEF Spec, ChosenBest
=============================================================================
