------------------------------ MODULE WebServer ------------------------------
(***************************************************************************)
(* The class WebServer (src/web_server.cc): start and the accept coroutine,*)
(* the routines, paths and websocket handler that the application sets     *)
(* while connections are served, find_handler, and FileReader              *)
(* (include/impl/file_reader.h), the routine of set_path.                  *)
(*                                                                         *)
(* MsgHandler models one connection in detail and takes the routine of a   *)
(* url as a constant; here a connection is only what it keeps of the       *)
(* server, a copy of the function it found.  Its control point pc is       *)
(*   "out"        not connected                                            *)
(*   "waiting"    connected, not accepted                                  *)
(*   "recv"       waits for a request                                      *)
(*   "part"       has found its function, waits for the next part          *)
(*   "routine"    inside a routine of the application                      *)
(*   "header"     inside FileReader::on_message, in send_resp              *)
(*   "body"       the same, in send_body                                   *)
(*   "ws"         a websocket                                              *)
(*   "undefined"  has used a FileReader that was deleted                   *)
(*   "closed"     the coroutine has returned                               *)
(***************************************************************************)
EXTENDS Integers, SequencesExt

CONSTANTS
  Clients,     \* the clients, one connection each
  Urls,        \* the urls that are asked for, and that routines are set for
  Wild,        \* the patterns: is_wildcard holds of them
  Order,       \* the patterns in the order of std::map
  Matches,     \* wildcard_match: the pairs of a pattern and a url it matches
  Length,      \* the length of a pattern
  MaxLength,   \* that of the longest
  Question,    \* the patterns with a "?"
  AllFiles,    \* the pattern "/*"
  Routines,    \* the functions of the application
  Settings,    \* what set_routine is called with, pairs of a url and a routine
  Dirs,        \* the directories of set_path
  Files,       \* the urls with a file that is not empty, for each directory
  Requests,    \* what clients send
  MaxSettings  \* bound on the calls of the setters

Methods == {"GET", "other"}
Kinds   == {"http", "websocket"}
Request == [url : Urls, method : Methods, kind : Kinds, parts : Nat \ {0}]

ASSUME PatternAssumption == /\ Order \in Seq(Wild)
                            /\ \A p \in Wild : \E i \in DOMAIN Order : Order[i] = p
                            /\ Matches \subseteq Wild \X Urls
                            /\ MaxLength \in Nat
                            /\ Length \in [Wild -> 0 .. MaxLength]
                            /\ AllFiles \in Wild
ASSUME SettingAssumption == /\ Settings \subseteq (Urls \cup Wild) \X Routines
                            /\ MaxSettings \in Nat
ASSUME FileAssumption    == Files \in [Dirs -> SUBSET Urls]
ASSUME RequestAssumption == Requests \subseteq Request

\* std::function: a routine, or on_message bound to the n-th FileReader made.
Handler   == ({"routine"} \X Routines) \cup ({"reader"} \X (Nat \ {0}))
NoHandler == <<"none">>
NoRequest == [kind |-> "none"]

VARIABLES
  svr,       \* svr_: "null" or "listening"
  loops,     \* how many accept coroutines run
  matched,   \* matched_routine_
  wildcard,  \* wildcard_routine_
  wsHandler, \* whether ws_handler_ is set
  readers,   \* the directories of the FileReaders made; the last is file_reader_
  settings,  \* how many setters were called
  conns      \* the connections

vars == <<svr, loops, matched, wildcard, wsHandler, readers, settings, conns>>

NewConn == [pc |-> "out", request |-> NoRequest, handler |-> NoHandler, found |-> 0,
            left |-> 0, calls |-> <<>>, content |-> <<>>, answers |-> <<>>]

Init ==
  /\ svr = "null"
  /\ loops = 0
  /\ matched = <<>>
  /\ wildcard = <<>>
  /\ wsHandler = FALSE
  /\ readers = <<>>
  /\ settings = 0
  /\ conns = [c \in Clients |-> NewConn]
-----------------------------------------------------------------------------
(* The application. *)

\* Mutant of Start: svr_ is not reset when it cannot listen.
StartKeepsSvr(listens) ==
  /\ svr = "null"
  /\ svr' = "listening"
  /\ loops' = IF listens THEN loops + 1 ELSE loops
  /\ UNCHANGED <<matched, wildcard, wsHandler, readers, settings, conns>>

\* start: a server that cannot listen is forgotten, so that start may be called
\* again; the others start the accept coroutine.
Start(listens) ==
  /\ svr = "null"
  /\ IF listens THEN svr' = "listening" /\ loops' = loops + 1
                ELSE svr' = "null" /\ UNCHANGED loops
  /\ UNCHANGED <<matched, wildcard, wsHandler, readers, settings, conns>>

\* The map m with p bound to h.
Bind(m, p, h) == [q \in DOMAIN m \cup {p} |-> IF q = p THEN h ELSE m[q]]

\* A setter is called.
Setting == settings < MaxSettings /\ settings' = settings + 1

\* Mutant of SetRoutine: a pattern is kept with the plain urls.
SetRoutinePlain(url, routine) ==
  /\ Setting
  /\ matched' = Bind(matched, url, <<"routine", routine>>)
  /\ UNCHANGED <<svr, loops, wildcard, wsHandler, readers, conns>>

\* set_routine: patterns and plain urls are kept apart.
SetRoutine(url, routine) ==
  /\ Setting
  /\ IF url \in Wild
     THEN wildcard' = Bind(wildcard, url, <<"routine", routine>>) /\ UNCHANGED matched
     ELSE matched' = Bind(matched, url, <<"routine", routine>>) /\ UNCHANGED wildcard
  /\ UNCHANGED <<svr, loops, wsHandler, readers, conns>>

\* Mutant of SetPath: the function is bound before file_reader_ is replaced.
SetPathBindsOld(dir) ==
  /\ Setting
  /\ readers' = Append(readers, dir)
  /\ wildcard' = Bind(wildcard, AllFiles, <<"reader", Len(readers)>>)
  /\ UNCHANGED <<svr, loops, matched, wsHandler, conns>>

\* set_path: the old FileReader is deleted, a new one is bound to its pattern.
SetPath(dir) ==
  /\ Setting
  /\ readers' = Append(readers, dir)
  /\ wildcard' = Bind(wildcard, AllFiles, <<"reader", Len(readers')>>)
  /\ UNCHANGED <<svr, loops, matched, wsHandler, conns>>

\* set_ws_handler, which refuses an empty function.
SetWsHandler ==
  /\ Setting
  /\ wsHandler' = TRUE
  /\ UNCHANGED <<svr, loops, matched, wildcard, readers, conns>>
-----------------------------------------------------------------------------
(* find_handler. *)

\* Mutant of Preferred: the order of the map decides between equal lengths.
PreferredByOrder(a, b) == IF Length[b] > Length[a] THEN b ELSE a

\* What comes first of two sorted parts of a list, a before b, when they are
\* merged: b only if the comparator says that it is less.
Preferred(a, b) ==
  IF Length[b] > Length[a] \/ (Length[b] = Length[a] /\ b \in Question) THEN b ELSE a

\* Every merge puts the element of a list at i before those at the positions hits,
\* on whichever side of it they are.
Leads(list, hits, i) ==
  \A j \in hits : /\ j < i => Preferred(list[j], list[i]) = list[i]
                  /\ j > i => Preferred(list[i], list[j]) = list[i]

\* Which of the elements of a list at the positions hits is in front when these
\* are sorted.
Foremost(list, hits) == list[CHOOSE i \in hits : Leads(list, hits, i)]

\* Where the patterns are that match a url and have a routine.
Shooted(url) == {i \in DOMAIN Order : /\ Order[i] \in DOMAIN wildcard
                                      /\ <<Order[i], url>> \in Matches}

\* find_handler: the routine of the url, or of the pattern that is preferred.
FindHandler(url) ==
  IF url \in DOMAIN matched THEN matched[url]
  ELSE IF Shooted(url) = {} THEN NoHandler
  ELSE wildcard[Foremost(Order, Shooted(url))]
-----------------------------------------------------------------------------
(* The connections. *)

\* The connection of c becomes conn; the server is not changed.
Set(c, conn) ==
  /\ conns' = [conns EXCEPT ![c] = conn]
  /\ UNCHANGED <<svr, loops, matched, wildcard, wsHandler, readers, settings>>

At(c, pc) == conns[c].pc = pc

\* A client connects.
Connect(c) ==
  /\ At(c, "out")
  /\ svr = "listening"
  /\ Set(c, [conns[c] EXCEPT !.pc = "waiting"])

\* accept returns, and the connection gets a coroutine of its own.
Accept(c) ==
  /\ At(c, "waiting")
  /\ loops > 0
  /\ Set(c, [conns[c] EXCEPT !.pc = "recv"])

\* The client closes the connection; recv tells.
Leave(c) ==
  /\ conns[c].pc \in {"recv", "part", "ws"}
  /\ Set(c, [NewConn EXCEPT !.pc = "closed"])

\* The header of a request arrives: its function is found and copied.  Without
\* one the server answers 404 and closes the connection.
Arrive(c, request) ==
  /\ At(c, "recv")
  /\ LET h == FindHandler(request.url)
     IN Set(c, IF h = NoHandler
               THEN [NewConn EXCEPT !.pc = "closed"]
               ELSE [NewConn EXCEPT !.pc = "part", !.request = request, !.handler = h,
                                    !.found = Len(readers), !.left = request.parts])

\* Mutant of CallRoutine: the function is looked up again for every part.
CallFindsAgain(c) ==
  /\ At(c, "part")
  /\ conns[c].request.kind = "http"
  /\ conns[c].handler[1] = "routine"
  /\ LET h == FindHandler(conns[c].request.url)
     IN Set(c, [conns[c] EXCEPT !.pc = "routine", !.calls = Append(@, h), !.left = @ - 1])

\* A part of the request arrives and is handed to a routine of the application.
CallRoutine(c) ==
  /\ At(c, "part")
  /\ conns[c].request.kind = "http"
  /\ conns[c].handler[1] = "routine"
  /\ Set(c, [conns[c] EXCEPT !.pc = "routine", !.calls = Append(@, conns[c].handler),
                             !.left = @ - 1])

\* What a connection does when its function has returned true.
Continue(conn) == IF conn.left = 0 THEN [NewConn EXCEPT !.pc = "recv"]
                                   ELSE [conn EXCEPT !.pc = "part"]

\* The routine returns.
RoutineReturn(c, keep) ==
  /\ At(c, "routine")
  /\ Set(c, IF keep THEN Continue(conns[c]) ELSE [NewConn EXCEPT !.pc = "closed"])

\* A part is handed to on_message of a FileReader, up to its first send.  Only a
\* request that is not a GET is answered without a look at the FileReader.  The
\* file is read here, before the header is sent.
OnMessage(c) ==
  LET conn   == conns[c]
      reader == conn.handler[2]
      url    == conn.request.url
      Answer(code, dir) ==
        Set(c, [conn EXCEPT !.pc = "header", !.content = <<code, dir>>,
                            !.calls = Append(@, conn.handler), !.left = @ - 1])
  IN /\ At(c, "part")
     /\ conn.request.kind = "http"
     /\ conn.handler[1] = "reader"
     /\ \/ conn.request.method # "GET" /\ Answer(404, "none")
        \/ /\ conn.request.method = "GET"
           /\ reader # Len(readers)
           /\ Set(c, [NewConn EXCEPT !.pc = "undefined"])
        \/ /\ conn.request.method = "GET"
           /\ reader = Len(readers)
           /\ IF url = "/" THEN Answer(302, "none")
              ELSE IF url \in Files[readers[reader]] THEN Answer(200, readers[reader])
              ELSE Answer(404, "none")

\* send_resp returns, whether it could send or not.  A redirection has no body.
HeaderSent(c) ==
  LET conn == conns[c]
  IN /\ At(c, "header")
     /\ Set(c, IF conn.content[1] = 302
               THEN Continue([conn EXCEPT !.answers = Append(@, <<conn.content, conn.content>>)])
               ELSE [conn EXCEPT !.pc = "body", !.answers = Append(@, <<conn.content>>)])

\* Mutant of BodySent: the file is read after the header was sent.
BodySentReadsLate(c) ==
  LET conn == conns[c]
      late == IF conn.content[1] = 200 THEN <<200, Last(readers)>> ELSE conn.content
  IN /\ At(c, "body")
     /\ Set(c, Continue([conn EXCEPT !.answers[Len(conn.answers)] = Append(@, late)]))

\* send_body returns, and on_message returns true.
BodySent(c) ==
  LET conn == conns[c]
  IN /\ At(c, "body")
     /\ Set(c, Continue([conn EXCEPT !.answers[Len(conn.answers)] = Append(@, conn.content)]))

\* on_web_socket: without a websocket handler the connection stays as it is, and
\* the next packet comes here again.
Upgrade(c) ==
  /\ At(c, "part")
  /\ conns[c].request.kind = "websocket"
  /\ Set(c, IF wsHandler THEN [NewConn EXCEPT !.pc = "ws"] ELSE conns[c])

Application == \/ \E listens \in BOOLEAN : Start(listens)
               \/ \E s \in Settings : SetRoutine(s[1], s[2])
               \/ \E dir \in Dirs : SetPath(dir)
               \/ SetWsHandler

Connection(c) == \/ Connect(c)
                 \/ Leave(c)
                 \/ \E request \in Requests : Arrive(c, request)
                 \/ CallRoutine(c)
                 \/ \E keep \in BOOLEAN : RoutineReturn(c, keep)
                 \/ OnMessage(c)
                 \/ HeaderSent(c)
                 \/ BodySent(c)
                 \/ Upgrade(c)

\* Every client is gone, and nothing is set any more.
Ended == /\ \A c \in Clients : conns[c].pc \in {"closed", "undefined"}
         /\ UNCHANGED vars

Next == \/ Application
        \/ \E c \in Clients : Accept(c) \/ Connection(c)
        \/ Ended

Spec == Init /\ [][Next]_vars
-----------------------------------------------------------------------------
(* Properties. *)

\* What send_resp and send_body were given: a code and the directory of the file.
Content == ({302, 404} \X {"none"}) \cup ({200} \X Dirs)
Conn == [pc : {"out", "waiting", "recv", "part", "routine", "header", "body", "ws",
               "undefined", "closed"},
         request : Requests \cup {NoRequest}, handler : Handler \cup {NoHandler},
         found : Nat, left : Nat, calls : Seq(Handler), content : Content \cup {<<>>},
         answers : Seq(Seq(Content))]

\* Type correctness of the server and its connections.
TypeOK ==
  /\ svr \in {"null", "listening"}
  /\ loops \in Nat
  /\ DOMAIN matched \subseteq Urls /\ \A u \in DOMAIN matched : matched[u] \in {"routine"} \X Routines
  /\ DOMAIN wildcard \subseteq Wild /\ \A p \in DOMAIN wildcard : wildcard[p] \in Handler
  /\ wsHandler \in BOOLEAN
  /\ readers \in Seq(Dirs)
  /\ settings \in 0 .. MaxSettings
  /\ conns \in [Clients -> Conn]

\* A server holds a TCP server exactly while one accept coroutine takes the
\* connections from it, after every sequence of calls of start.
ListeningServed == loops = IF svr = "listening" THEN 1 ELSE 0

\* The handler that a url asks for: the routine of the url itself; otherwise that
\* of the longest pattern that matches it, one with a "?" first.
Best(url, h) ==
  IF url \in DOMAIN matched THEN h = matched[url]
  ELSE \E p \in DOMAIN wildcard :
         /\ h = wildcard[p]
         /\ <<p, url>> \in Matches
         /\ \A q \in DOMAIN wildcard :
              <<q, url>> \in Matches =>
                /\ Length[q] <= Length[p]
                /\ Length[q] = Length[p] /\ q \in Question => p \in Question

\* A request gets the handler that its url asks for at that moment, although the
\* comparator of the sort is no order: two patterns with a "?" and the same length
\* are each less than the other.  A request without one has no pattern either.
ChosenBest ==
  [][\A c \in Clients :
       At(c, "recv") /\ At(c, "part")' => Best(conns'[c].request.url, conns'[c].handler)]_vars

\* All parts of a request are handed to the same function, however the routines
\* are set in between.
OneRoutine ==
  \A c \in Clients : \A i \in DOMAIN conns[c].calls :
    conns[c].calls[i] = conns[c].handler

\* The map never holds a function on a deleted FileReader, and a connection holds
\* one only if set_path was called after it had found its function.  This says
\* which requests can use a deleted FileReader, those under way when set_path is
\* called; it does not say that none does: "undefined" is reached.
ReadersFresh ==
  /\ \A p \in DOMAIN wildcard :
       wildcard[p][1] = "reader" => wildcard[p][2] = Len(readers)
  /\ \A c \in Clients :
       conns[c].handler[1] = "reader" /\ conns[c].handler[2] # Len(readers) =>
         conns[c].found < Len(readers)

\* The header and the body of an answer of a FileReader are those of one file, the
\* length in the header that of the body, although sending the header is a wait in
\* which set_path may be called.  The files of a directory do not change.
BodyMatchesHeader ==
  \A c \in Clients : \A i \in DOMAIN conns[c].answers :
    Len(conns[c].answers[i]) = 2 => conns[c].answers[i][1] = conns[c].answers[i][2]

=============================================================================
