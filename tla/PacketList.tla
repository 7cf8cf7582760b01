----------------------------- MODULE PacketList -----------------------------
(***************************************************************************)
(* PacketList belongs to the co_taro runtime, which is outside this        *)
(* repository; it is modelled from the way http_proto_impl.h uses it.  A   *)
(* list of packets is the sequence of the symbols received and not yet     *)
(* consumed.  A symbol is a tuple whose first component is a tag: it stands*)
(* for the run of bytes that the parser only ever matches as a whole.      *)
(* Positions are 1-based and 0 means "not found".                          *)
(***************************************************************************)
EXTENDS Integers, Sequences, FiniteSetsExt

\* The least element of a set of positions, 0 when there is none.
First(hits) == IF hits = {} THEN 0 ELSE Min(hits)

\* search(flag, from, pos): where the symbols pat first occur at or after from.
Search(s, pat, from) ==
  First({i \in from .. (Len(s) - Len(pat) + 1) :
           SubSeq(s, i, i + Len(pat) - 1) = pat})

\* search(text, from, pos, str_cmp): where a symbol holding that text first
\* occurs; tags are those of the symbols that hold the text.
SearchText(s, tags) == First({i \in 1 .. Len(s) : s[i][1] \in tags})

\* read(n) returns the first n symbols and removes them; read(0) is taken to
\* return no packet.
Read(s, n) == SubSeq(s, 1, n)

\* consume(n) drops n symbols, or all of them when there are fewer.
Consume(s, n) == SubSeq(s, n + 1, Len(s))
=============================================================================
