--------------------------- MODULE MCSearchService ---------------------------
(***************************************************************************)
(* TLC instance of SearchService: two words, of which the second begins    *)
(* with the first and names text files.  The longer queries are: two words,*)
(* two alternatives, a quoted word, a bar in quotes, an escaped quote, a   *)
(* quoted word beside another, three alternatives, a bar at the end, one   *)
(* too long to be read to its end.                                         *)
(***************************************************************************)
EXTENDS SearchService, TLC

CONSTANTS w1, w2

MCCompletions == w1 :> {w1, w2} @@ w2 :> {w2}
MCPhrases == { <<w1, "blank", w2>>, <<w2, "blank", w2>>, <<w1, "bar", w2>>,
               <<"quote", w1, "quote">>,
               <<"quote", w1, "bar", w2, "quote">>,
               <<"quote", w1, "quote", "quote", "quote">>,
               <<"quote", w1, "quote", "bar", w2>>,
               <<w1, "bar", w1, "bar", w2>>, <<w1, "bar", "blank">>,
               <<w1, "quote", w2, "quote">>,
               <<w1, "blank", w2, "bar", w2>>,
               <<w1, "bar", w2, "bar", "blank", w2>> }
=============================================================================
