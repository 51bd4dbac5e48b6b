----------------------------- MODULE SearchQuery -----------------------------
(***************************************************************************)
(* build_fts_query and build_live_fts_query: from what a user types to an  *)
(* FTS5 expression.                                                        *)
(*                                                                         *)
(* A character is a word of Data (its letters are not told apart), a       *)
(* blank, a bar or a double quote.  A term, the text quote_term puts in    *)
(* quotes, is the sequence of the characters it holds; an expression is a  *)
(* sequence of alternatives, each a sequence of terms: the terms of one    *)
(* alternative are joined with AND, the alternatives with OR.              *)
(***************************************************************************)
EXTENDS Integers, FiniteSets, Sequences

CONSTANTS Data,        \* words
          MaxQuery,    \* characters of a search that are read (4096)
          MaxLive      \* characters of a live search that are read (512)

Blank == "blank"
Bar   == "bar"
Quote == "quote"
Chars == Data \union {Blank, Bar, Quote}

Positions(q) == 1..Len(q)
Written(q) == {i \in Positions(q) : q[i] # Blank}

\* trim: from the first to the last character that is not a blank.
Trim(q) ==
  IF Written(q) = {} THEN <<>>
  ELSE SubSeq(q, CHOOSE i \in Written(q) : \A j \in Written(q) : i <= j,
                 CHOOSE i \in Written(q) : \A j \in Written(q) : j <= i)

Cut(q, n) == IF Len(q) > n THEN SubSeq(q, 1, n) ELSE q

-----------------------------------------------------------------------------
(* The loop of build_fts_query: alternatives so far, the term being read   *)
(* and whether a quote is open; skip, the second half of an escaped quote. *)

Start == [alts |-> << <<>> >>, cur |-> <<>>, open |-> FALSE, skip |-> FALSE]

Flush(st) ==
  [st EXCEPT !.alts[Len(st.alts)] = Append(@, st.cur), !.cur = <<>>]
FlushSome(st) == IF st.cur = <<>> THEN st ELSE Flush(st)

\* MUTANT ReadChar: a bar separates alternatives inside quotes as well.
ReadCharBare(q, st, i) ==
  LET c == q[i] IN
  IF st.skip THEN [st EXCEPT !.skip = FALSE]
  ELSE CASE c = Bar -> [FlushSome(st) EXCEPT !.alts = Append(@, <<>>)]
         [] st.open /\ c = Quote -> [Flush(st) EXCEPT !.open = FALSE]
         [] ~st.open /\ c = Quote -> [FlushSome(st) EXCEPT !.open = TRUE]
         [] ~st.open /\ c = Blank -> FlushSome(st)
         [] OTHER -> [st EXCEPT !.cur = Append(@, c)]

ReadChar(q, st, i) ==
  LET c == q[i] IN
  IF st.skip THEN [st EXCEPT !.skip = FALSE]
  ELSE CASE st.open /\ c = Quote ->
              IF i < Len(q) /\ q[i + 1] = Quote
              THEN [st EXCEPT !.cur = Append(@, Quote), !.skip = TRUE]
              ELSE [Flush(st) EXCEPT !.open = FALSE]
         [] ~st.open /\ c = Quote -> [FlushSome(st) EXCEPT !.open = TRUE]
         [] ~st.open /\ c = Bar   -> [FlushSome(st) EXCEPT !.alts = Append(@, <<>>)]
         [] ~st.open /\ c = Blank -> FlushSome(st)
         [] OTHER -> [st EXCEPT !.cur = Append(@, c)]

\* The state of the loop after each character.
Reading(q) ==
  LET read[n \in 0..Len(q)] == IF n = 0 THEN Start ELSE ReadChar(q, read[n - 1], n)
  IN  read

\* build_fts_query: an error, or the alternatives.
BuildFtsQuery(raw) ==
  LET q == Cut(Trim(raw), MaxQuery)
      st == Reading(q)[Len(q)]
  IN  IF q = <<>> \/ st.open THEN [err |-> TRUE, alts |-> <<>>]
      ELSE [err |-> FALSE, alts |-> FlushSome(st).alts]

\* MUTANT BuildLiveQuery: what is typed is taken for one phrase.
BuildLivePhrase(raw) ==
  LET q == Cut(Trim(raw), MaxLive)
  IN  [err |-> q = <<>>, alts |-> << <<q>> >>]

\* build_live_fts_query: blanks separate terms, all of them must match.
LiveReading(q) ==
  LET read[n \in 0..Len(q)] ==
        IF n = 0 THEN Start
        ELSE IF q[n] = Blank THEN FlushSome(read[n - 1])
        ELSE [read[n - 1] EXCEPT !.cur = Append(@, q[n])]
  IN  read

BuildLiveQuery(raw) ==
  LET q == Cut(Trim(raw), MaxLive)
  IN  [err |-> q = <<>>, alts |-> FlushSome(LiveReading(q)[Len(q)]).alts]

-----------------------------------------------------------------------------
(* FTS5: what an expression matches in a row that is indexed under words.  *)

\* An alternative without terms (a bar at either end, or two in a row) is a
\* syntax error, reported by the first sqlite3_step.
SyntaxError(alts) == \E k \in DOMAIN alts : alts[k] = <<>>

\* The tokenizer drops all but words; a phrase of several words matches none
\* of the rows here, which have one word, and a phrase without words nothing.
TermMatches(term, words, prefix) ==
  \E i \in DOMAIN term : /\ {j \in DOMAIN term : term[j] \in Data} = {i}
                         /\ words \intersect prefix[term[i]] # {}

Matches(alts, words, prefix) ==
  /\ ~SyntaxError(alts)
  /\ \E k \in DOMAIN alts : \A t \in DOMAIN alts[k] :
        TermMatches(alts[k][t], words, prefix)

-----------------------------------------------------------------------------
(* What the user means, "supports quotes and | as OR, default AND", said   *)
(* without the loop: quotes are counted, bars outside quotes separate.     *)

Before(q, i, c) == Cardinality({j \in 1..(i - 1) : q[j] = c})
Quoted(q, i) == Before(q, i, Quote) % 2 = 1
Closed(q) == Before(q, Len(q) + 1, Quote) % 2 = 0
Bars(q) == {i \in Positions(q) : q[i] = Bar /\ ~Quoted(q, i)}

\* Positions of alternative k: those with k bars before them.
Alternative(q, k) ==
  {i \in Positions(q) \ Bars(q) : Cardinality({j \in Bars(q) : j < i}) = k}
Alternatives(q) == 0..Cardinality(Bars(q))

WordsAsked(q, k) == {q[i] : i \in Alternative(q, k)} \intersect Data
WellFormed(q) ==
  Closed(q) /\ \A k \in Alternatives(q) : \E i \in Alternative(q, k) : q[i] # Blank

\* An alternative of words between blanks, without quotes.
Plain(q, k) ==
  /\ \A i \in Alternative(q, k) : q[i] \in Data \union {Blank}
  /\ \A i \in Alternative(q, k) : i + 1 \in Alternative(q, k) =>
        q[i] = Blank \/ q[i + 1] = Blank
  /\ WordsAsked(q, k) # {}
=============================================================================
