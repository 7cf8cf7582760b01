---------------------------- MODULE MCHttpUpload ----------------------------
(***************************************************************************)
(* Instances of HttpUpload for TLC: two coroutines with requests of every   *)
(* kind, keys in two spellings, and packets that are used once or twice.    *)
(***************************************************************************)
EXTENDS HttpUpload

MCLower == [k \in {"Content-Length", "content-length", "Transfer-Encoding", "Content-Type",
                   "Host"} |->
              CASE k \in {"Content-Length", "content-length"} -> "content-length"
                [] k = "Transfer-Encoding" -> "transfer-encoding"
                [] k = "Content-Type" -> "content-type"
                [] k = "Host" -> "host"]
MCKeys == DOMAIN MCLower
MCValues == {<<"length", 9>>, <<"chunked">>, <<"multipart", "A">>, <<"multipart", "B">>,
             <<"text">>}

MCPackets == ("p" :> <<Byte("x")>>) @@ ("q" :> <<Byte("y"), Byte("z")>>)
               @@ ("r" :> <<Byte("z")>>) @@ ("empty" :> <<>>)

Of(kind, sets, parts) == [kind |-> kind, sets |-> sets, parts |-> parts, url |-> "/post",
                          boundary |-> IF kind = "BOUNDARY" THEN "B" ELSE NoBoundary]

\* A length that is set again, in another spelling.
Upload(p)    == Of("NORMAL", <<<<"Content-Length", <<"length", 9>>>>,
                               <<"content-length", <<"size of", p>>>>>>, <<p>>)
Plain        == Of("NORMAL", <<<<"Host", <<"text">>>>>>, <<>>)
Chunks(ps)   == Of("CHUNK", <<<<"Transfer-Encoding", <<"chunked">>>>>>, ps)
Parts(ps)    == Of("BOUNDARY", <<<<"Content-Type", <<"multipart", "A">>>>,
                                 <<"Content-Type", <<"multipart", "B">>>>>>, ps)

Both(a, b) == ("w1" :> a) @@ ("w2" :> b)

\* One after the other, with packets of their own; and with a packet that both use.
SerialPlans == {Both(Chunks(<<"p", "q">>), Upload("r")), Both(Parts(<<"q">>), Chunks(<<"p">>)),
                Both(Parts(<<"q", "p">>), Plain), Both(Chunks(<<"p">>), Chunks(<<"p", "q">>))}
MCPlans == SerialPlans \cup {Both(Chunks(<<"p", "empty">>), Parts(<<"empty", "q">>)),
                             Both(Upload("p"), Chunks(<<"p">>)), Both(Upload("empty"), Plain),
                             Both(Chunks(<<"p", "p">>), Chunks(<<"q">>)),
                             Both(Parts(<<"p">>), Chunks(<<"p">>))}

\* What every plan says of its body in its items is so.
ASSUME PlansAnnounce == \A p \in MCPlans : \A w \in DOMAIN p : Announced(p[w])
=============================================================================
