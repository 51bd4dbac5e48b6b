---------------------------- MODULE SearchService ----------------------------
(***************************************************************************)
(* GET /search and GET /search/live over the store and its index: what the *)
(* service answers in a given state of FtsIndex.  A search reads in one    *)
(* SELECT and changes nothing, so it is an operator on the state; a list   *)
(* and its total are two SELECTs, between which a server does nothing else.*)
(*                                                                         *)
(* options.limit is maxItems: every start-up makes the store that large or *)
(* fails.  The column updated_at is left out, it sorts as stored_at does.  *)
(***************************************************************************)
EXTENDS FtsIndex, Sequences

CONSTANTS TextNames,    \* file names whose MIME type makes them text
          Completions,  \* the words that begin with a word
          MaxQuery,     \* characters of a search that are read (4096)
          MaxLive,      \* characters of a live search that are read (512)
          LiveDefault,  \* limit of a live search that names none (10)
          MaxTyped,     \* bound: queries of up to so many characters
          Phrases       \* bound: and the longer ones that are tried

ASSUME SearchAssumption ==
  /\ TextNames \subseteq Data /\ Data \intersect {"blank", "bar", "quote"} = {}
  /\ Completions \in [Data -> SUBSET Data] /\ \A w \in Data : w \in Completions[w]
  /\ MaxQuery \in Nat \ {0} /\ MaxLive \in Nat \ {0}
  /\ LiveDefault \in Nat \ {0} /\ MaxTyped \in Nat
  /\ Phrases \subseteq Seq(Data \union {"blank", "bar", "quote"})

INSTANCE SearchQuery

Typed == (UNION {[1..n -> Chars] : n \in 0..MaxTyped}) \union Phrases
Same  == [w \in Data |-> {w}]

\* One table for all states: the expressions depend on the query alone.
Query     == [q \in Typed |-> BuildFtsQuery(q)]
LiveQuery == [q \in Typed |-> BuildLiveQuery(q)]

\* media_kind # 'text': uploads that are text by their MIME type are not files.
IsFile(i) == slots[i].kind = "file" /\ slots[i].data \notin TextNames

OfType(type) == CASE type = "text" -> {i \in Used : ~IsFile(i)}
                  [] type = "file" -> {i \in Used : IsFile(i)}
                  [] OTHER -> Used    \* none, or one that is not known

\* ORDER BY <sort>, id; both ascending or both descending.
Key(i, sort) == IF sort = "stored_at" THEN slots[i].stored ELSE i
Ahead(i, j, sort, desc) ==
  LET before(k, l) == \/ Key(k, sort) < Key(l, sort)
                      \/ Key(k, sort) = Key(l, sort) /\ k < l
  IN  IF desc THEN before(j, i) ELSE before(i, j)
Place(i, ids, sort, desc) == Cardinality({j \in ids : Ahead(j, i, sort, desc)}) + 1
Sorted(ids, sort, desc) ==
  [n \in 1..Cardinality(ids) |-> CHOOSE i \in ids : Place(i, ids, sort, desc) = n]
\* MUTANT Page: the last row of a page is left out.
PageShort(ids, sort, desc, n) == Cut(Sorted(ids, sort, desc), n - 1)
\* MUTANT Page: a page is always in ascending order.
PageAscending(ids, sort, desc, n) == Cut(Sorted(ids, sort, FALSE), n)

Page(ids, sort, desc, n) == Cut(Sorted(ids, sort, desc), n)

Lesser(a, b)  == IF a < b THEN a ELSE b
Greater(a, b) == IF a > b THEN a ELSE b
Limit(asked, fallback) == Lesser(Greater(1, IF asked > 0 THEN asked ELSE fallback), maxItems)

\* MUTANT Default: a search that names no limit is answered as a live one.
DefaultLive(live) == Lesser(maxItems, LiveDefault)
Default(live) == IF live THEN Lesser(maxItems, LiveDefault) ELSE maxItems

Refused(error) == [error |-> error, ids |-> <<>>, total |-> -1]
Found(ids, total) == [error |-> "none", ids |-> ids, total |-> total]

\* search_fts and the type filter after it, which keeps the order of the page:
\* a syntax error of FTS5 ends the loop over the rows like their end does.
FtsSearch(r, alts, words, n) ==
  LET hits == {i \in Used : Matches(alts, postings[i], words)}
      page == Page(hits, r.sort, r.order # "asc", n)
      rows == {page[k] : k \in DOMAIN page}
  IN  Found(Sorted(rows \intersect OfType(r.type), r.sort, r.order # "asc"), -1)

BadSort(r)  == r.sort \notin {"", "id", "stored_at"}
BadOrder(r) == r.order \notin {"", "asc", "desc"}

Search(r) ==
  LET n == Limit(r.limit, Default(FALSE)) IN
  IF BadSort(r) THEN Refused("invalid_sort")
  ELSE IF BadOrder(r) THEN Refused("invalid_order")
  ELSE IF r.q = <<>> THEN Found(Page(OfType(r.type), r.sort, r.order # "asc", n),
                                Cardinality(OfType(r.type)))
  ELSE IF Query[r.q].err THEN Refused("invalid_query")
  ELSE FtsSearch(r, Query[r.q].alts, Same, n)

LiveSearch(r) ==
  LET n == Limit(r.limit, Default(TRUE)) IN
  IF r.q = <<>> THEN Refused("missing_query")
  ELSE IF BadSort(r) THEN Refused("invalid_sort")
  ELSE IF BadOrder(r) THEN Refused("invalid_order")
  ELSE IF LiveQuery[r.q].err THEN Refused("invalid_query")
  ELSE FtsSearch(r, LiveQuery[r.q].alts, Completions, n)

\* The controllers' answers; FTS5 itself is never missing once a server runs.
Status(answer) == IF answer.error = "none" THEN 200 ELSE 400

\* A request that gives q and no other parameter.
Plainly(q) == [q |-> q, limit |-> 0, type |-> "", sort |-> "", order |-> ""]

-----------------------------------------------------------------------------
(* What the answers must be.                                               *)

IdsOf(answer) == {answer.ids[k] : k \in DOMAIN answer.ids}

\* Words that are all an alternative of a well-formed query asks for, and the
\* words each alternative asks for ("quotes and | as OR, default AND").
AskedAlone ==
  [q \in Typed |-> IF WellFormed(q) /\ Len(q) <= MaxQuery
                   THEN {w \in Data : \E k \in Alternatives(q) :
                                        Plain(q, k) /\ WordsAsked(q, k) = {w}}
                   ELSE {}]
AskedTogether ==
  [q \in Typed |-> {WordsAsked(q, k) : k \in Alternatives(q)} \ {{}}]
PlainQueries ==
  {q \in Typed : Bars(q) = {} /\ Plain(q, 0) /\ Len(q) <= Lesser(MaxLive, MaxQuery)}
Unusable == {q \in Typed : ~Closed(q) \/ \A i \in Positions(q) : q[i] = Blank}

\* A search without a limit misses nothing, although the limit is applied
\* before the type filter and stale words add hits: a record is found, with
\* and without its type, when one alternative asks for its word alone.
AskedIsFound ==
  \A q \in Typed : \A i \in {j \in Used : slots[j].data \in AskedAlone[q]} :
    /\ i \in IdsOf(Search(Plainly(q)))
    /\ i \in IdsOf(Search([Plainly(q) EXCEPT !.type = IF IsFile(i) THEN "file" ELSE "text"]))

\* A search is refused only for a quote that is not closed or for blanks, and
\* what it finds is indexed under all words of one alternative: a bar in
\* quotes separates nothing.
FoundWasAsked ==
  \A q \in {p \in Typed : p # <<>> /\ Len(p) <= MaxQuery} :
    LET answer == Search(Plainly(q)) IN
    /\ Status(answer) = 400 <=> q \in Unusable
    /\ \A i \in IdsOf(answer) : \E asked \in AskedTogether[q] : asked \subseteq postings[i]

\* Typing on, a live search shows what the finished search will find: with
\* the limit that holds every record, for words between blanks.
LiveFindsAll ==
  \A q \in PlainQueries :
    IdsOf(Search(Plainly(q))) \subseteq
      IdsOf(LiveSearch([Plainly(q) EXCEPT !.limit = maxItems]))

\* Without q the total says how many records there are, not how many fit on
\* the page; text and file split it; a page is full unless it holds them all.
ListsAddUp ==
  \A type \in {"", "text", "file", "other"}, n \in -1..(MaxSlots + 1) :
    LET list(t) == Search([Plainly(<<>>) EXCEPT !.type = t, !.limit = n]) IN
    /\ list("text").total + list("file").total = Cardinality(Used)
    /\ \/ Len(list(type).ids) = list(type).total
       \/ Len(list(type).ids) = n /\ n < list(type).total

\* The list's newest record and the one GET / answers with are the same.
ListHeadIsLatest ==
  LET page == Search([Plainly(<<>>) EXCEPT !.sort = "stored_at", !.limit = 1]).ids
  IN  \A i \in Used : IsLatest(i) <=> page = <<i>>
=============================================================================
