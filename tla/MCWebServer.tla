----------------------------- MODULE MCWebServer -----------------------------
(***************************************************************************)
(* An instance of WebServer for TLC: patterns of equal and of different     *)
(* length, with and without "?", and two directories.                      *)
(***************************************************************************)
EXTENDS WebServer

MCUrls == {"/", "/ab"}
MCWild == {"/*", "/a*", "/a?", "/?b"}
MCOrder == <<"/*", "/?b", "/a*", "/a?">>
MCMatches == {<<"/*", "/">>} \cup (MCWild \X {"/ab"})
MCLength == [p \in MCWild |-> IF p = "/*" THEN 2 ELSE 3]
MCQuestion == {"/a?", "/?b"}

MCSettings == {<<"/ab", "r1">>, <<"/*", "r2">>, <<"/a*", "r2">>, <<"/a?", "r1">>,
               <<"/?b", "r3">>}
MCFiles == [d \in {"web", "doc"} |-> IF d = "web" THEN {"/ab"} ELSE {}]

Get(url, n) == [url |-> url, method |-> "GET", kind |-> "http", parts |-> n]

MCRequests == {Get("/", 1), Get("/ab", 1), Get("/ab", 2),
               [Get("/ab", 1) EXCEPT !.method = "other"],
               [Get("/ab", 1) EXCEPT !.kind = "websocket"]}

\* std::list::sort merges adjacent parts of the list; in whatever tree it does,
\* the front is that of Foremost, here for one element after the other and for
\* two halves.
Merged(s) == FoldLeft(Preferred, Head(s), Tail(s))
ASSUME \A n \in 1 .. 4 : \A s \in [1 .. n -> MCWild] :
         /\ Foremost(s, 1 .. n) = Merged(s)
         /\ \A k \in 1 .. n - 1 :
              Merged(s) = Preferred(Merged(SubSeq(s, 1, k)), Merged(SubSeq(s, k + 1, n)))
=============================================================================
