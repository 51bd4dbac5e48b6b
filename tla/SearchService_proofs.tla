------------------------- MODULE SearchService_proofs -------------------------
(***************************************************************************)
(* Theorems of SearchService: what a search, a live search and a list      *)
(* answer in every state the store and its index can reach, for every      *)
(* query that is tried.                                                    *)
(*                                                                         *)
(* Lists rest on places: the place of a row on a page is one more than the *)
(* number of rows ahead of it.  Searches rest on an invariant of the loop  *)
(* of build_fts_query, which relates what it has built to the quotes and   *)
(* bars it has passed.                                                     *)
(***************************************************************************)
EXTENDS SearchService, FtsIndex_proofs, SequenceTheorems, WellFoundedInduction

-----------------------------------------------------------------------------
(* Places.                                                                 *)

\* Of two rows one is ahead, whatever the list is sorted by.
LEMMA AheadOrder ==
  ASSUME TypeOK, NEW sort, NEW desc \in BOOLEAN
  PROVE  /\ \A i \in Used : ~Ahead(i, i, sort, desc)
         /\ \A i, j \in Used : i = j \/ Ahead(i, j, sort, desc) \/ Ahead(j, i, sort, desc)
         /\ \A i, j, k \in Used : Ahead(i, j, sort, desc) /\ Ahead(j, k, sort, desc)
                                    => Ahead(i, k, sort, desc)
<1> DEFINE key == [i \in Used |-> Key(i, sort)]
<1>1. \A i \in Used : i \in Int /\ key[i] \in Int
  BY RowFacts DEF Used, Key
<1>2. CASE desc
  <2>1. \A i, j \in Used :
           Ahead(i, j, sort, desc) <=> (key[j] < key[i] \/ (key[j] = key[i] /\ j < i))
    BY <1>2 DEF Ahead
  <2> HIDE DEF key
  <2> QED
    BY <1>1, <2>1
<1>3. CASE ~desc
  <2>1. \A i, j \in Used :
           Ahead(i, j, sort, desc) <=> (key[i] < key[j] \/ (key[i] = key[j] /\ i < j))
    BY <1>3 DEF Ahead
  <2> HIDE DEF key
  <2> QED
    BY <1>1, <2>1
<1> QED
  BY <1>2, <1>3

LEMMA FiniteRows ==
  ASSUME TypeOK, NEW ids \in SUBSET Used
  PROVE  /\ IsFiniteSet(ids) /\ Cardinality(ids) \in Nat
         /\ Cardinality(ids) <= Cardinality(Used) /\ Cardinality(Used) <= maxItems
<1>1. IsFiniteSet(ids) /\ Cardinality(ids) <= Cardinality(Used)
  BY UsedFinite, FS_Subset
<1>2. maxItems \in Nat
  BY SlotsAssumption DEF TypeOK
<1>3. IsFiniteSet(1..maxItems) /\ Cardinality(1..maxItems) = maxItems
  BY <1>2, FS_Interval
<1>4. Cardinality(Used) <= maxItems
  BY <1>3, UsedFinite, FS_Subset
<1> QED
  BY <1>1, <1>4, FS_CardinalityType

\* The rows of a list have the places from 1 to their number, each its own.
LEMMA PlaceRange ==
  ASSUME TypeOK, NEW ids \in SUBSET Used, NEW sort, NEW desc \in BOOLEAN, NEW i \in ids
  PROVE  Place(i, ids, sort, desc) \in 1..Cardinality(ids)
<1> DEFINE Before1 == {j \in ids : Ahead(j, i, sort, desc)}
<1>1. Before1 \in SUBSET ids /\ Before1 # ids
  BY AheadOrder
<1>2. /\ IsFiniteSet(Before1)
      /\ Cardinality(Before1) <= Cardinality(ids)
      /\ Cardinality(ids) = Cardinality(Before1) => ids = Before1
  BY <1>1, FiniteRows, FS_Subset
<1>3. Cardinality(Before1) \in Nat /\ Cardinality(ids) \in Nat
  BY <1>2, FiniteRows, FS_CardinalityType
<1>4. Place(i, ids, sort, desc) = Cardinality(Before1) + 1
  BY DEF Place
<1> HIDE DEF Before1
<1> QED
  BY <1>1, <1>2, <1>3, <1>4

LEMMA PlacesDiffer ==
  ASSUME TypeOK, NEW ids \in SUBSET Used, NEW sort, NEW desc \in BOOLEAN,
         NEW i \in ids, NEW j \in ids, Place(i, ids, sort, desc) = Place(j, ids, sort, desc)
  PROVE  i = j
<1> DEFINE Front(k) == {m \in ids : Ahead(m, k, sort, desc)}
<1>1. ASSUME NEW k \in ids, NEW l \in ids, Ahead(k, l, sort, desc)
      PROVE  Place(k, ids, sort, desc) # Place(l, ids, sort, desc)
  <2>1. Front(k) \in SUBSET Front(l) /\ Front(k) # Front(l)
    BY <1>1, AheadOrder
  <2>2. IsFiniteSet(Front(k)) /\ IsFiniteSet(Front(l))
    BY FiniteRows, FS_Subset
  <2>3. Cardinality(Front(k)) \in Nat /\ Cardinality(Front(l)) \in Nat
    BY <2>2, FS_CardinalityType
  <2>4. Cardinality(Front(l)) = Cardinality(Front(k)) => Front(l) = Front(k)
    BY <2>1, <2>2, FS_Subset
  <2>5. /\ Place(k, ids, sort, desc) = Cardinality(Front(k)) + 1
        /\ Place(l, ids, sort, desc) = Cardinality(Front(l)) + 1
    BY DEF Place
  <2> HIDE DEF Front
  <2> QED
    BY <2>1, <2>3, <2>4, <2>5
<1>2. i = j \/ Ahead(i, j, sort, desc) \/ Ahead(j, i, sort, desc)
  BY AheadOrder
<1> QED
  BY <1>1, <1>2

LEMMA PlacesTaken ==
  ASSUME TypeOK, NEW ids \in SUBSET Used, NEW sort, NEW desc \in BOOLEAN,
         NEW n \in 1..Cardinality(ids)
  PROVE  \E i \in ids : Place(i, ids, sort, desc) = n
<1> DEFINE places == {Place(i, ids, sort, desc) : i \in ids}
           place == [i \in ids |-> Place(i, ids, sort, desc)]
<1>1. IsFiniteSet(ids) /\ Cardinality(ids) \in Nat
  BY FiniteRows
<1>2. place \in Bijection(ids, places)
  BY PlacesDiffer DEF Bijection, Injection, Surjection, IsInjective
<1>3. IsFiniteSet(places) /\ Cardinality(places) = Cardinality(ids)
  BY <1>1, <1>2, FS_Bijection DEF ExistsBijection
<1>4. places \subseteq 1..Cardinality(ids)
  BY PlaceRange
<1>5. IsFiniteSet(1..Cardinality(ids)) /\ Cardinality(1..Cardinality(ids)) = Cardinality(ids)
  BY <1>1, FS_Interval
<1>6. places = 1..Cardinality(ids)
  BY <1>3, <1>4, <1>5, FS_Subset
<1> QED
  BY <1>6

\* A sorted list holds each of its rows once, at its place.
LEMMA SortedFacts ==
  ASSUME TypeOK, NEW ids \in SUBSET Used, NEW sort, NEW desc \in BOOLEAN
  PROVE  /\ Sorted(ids, sort, desc) \in Seq(ids)
         /\ Len(Sorted(ids, sort, desc)) = Cardinality(ids)
         /\ \A i \in ids : /\ Place(i, ids, sort, desc) \in 1..Cardinality(ids)
                           /\ Sorted(ids, sort, desc)[Place(i, ids, sort, desc)] = i
<1> DEFINE n == Cardinality(ids)
           place(i) == Place(i, ids, sort, desc)
           list == Sorted(ids, sort, desc)
           at(m) == CHOOSE i \in ids : place(i) = m
<1>1. n \in Nat
  BY FiniteRows
<1>2. list = [m \in 1..n |-> at(m)]
  BY DEF Sorted
<1>3. \A m \in 1..n : at(m) \in ids /\ place(at(m)) = m
  BY PlacesTaken
<1>4. \A i \in ids : place(i) \in 1..n
  BY PlaceRange
<1>5. \A i, j \in ids : place(i) = place(j) => i = j
  BY PlacesDiffer
<1> HIDE DEF n, place, at
<1>6. [m \in 1..n |-> at(m)] \in Seq(ids) /\ Len([m \in 1..n |-> at(m)]) = n
  <2>1. [m \in 1..n |-> at(m)] \in [1..n -> ids]
    BY <1>3
  <2> QED
    BY <1>1, <2>1
<1>7. \A i \in ids : place(i) \in 1..n /\ list[place(i)] = i
  BY <1>2, <1>3, <1>4, <1>5
<1> HIDE DEF list
<1>8. list \in Seq(ids) /\ Len(list) = n
  BY <1>2, <1>6
<1> QED
  BY <1>7, <1>8 DEF list, place, n
\* What is left of a sequence that is cut to n places.
LEMMA CutFacts ==
  ASSUME NEW S, NEW s \in Seq(S), NEW n \in Nat
  PROVE  /\ Cut(s, n) \in Seq(S)
         /\ Len(Cut(s, n)) = IF Len(s) > n THEN n ELSE Len(s)
         /\ \A i \in 1..Len(Cut(s, n)) : Cut(s, n)[i] = s[i]
<1>1. Len(s) \in Nat /\ \A i \in 1..Len(s) : s[i] \in S
  BY LenProperties, ElementOfSeq
<1>2. CASE Len(s) > n
  <2>1. \A i \in 1..n : s[i] \in S
    BY <1>1, <1>2
  <2>2. /\ SubSeq(s, 1, n) \in Seq(S)
        /\ Len(SubSeq(s, 1, n)) = n
        /\ \A i \in 1..n : SubSeq(s, 1, n)[i] = s[i]
    BY <2>1, SubSeqProperties
  <2> QED
    BY <1>2, <2>2 DEF Cut
<1>3. CASE ~(Len(s) > n)
  BY <1>1, <1>3 DEF Cut
<1> QED
  BY <1>2, <1>3

\* A page has the first rows of its list.
LEMMA PageFacts ==
  ASSUME TypeOK, NEW ids \in SUBSET Used, NEW sort, NEW desc \in BOOLEAN, NEW n \in Nat
  PROVE  /\ Page(ids, sort, desc, n) \in Seq(ids)
         /\ Len(Page(ids, sort, desc, n)) = IF Cardinality(ids) > n THEN n ELSE Cardinality(ids)
         /\ \A i \in ids : Place(i, ids, sort, desc) <= n
              => /\ Place(i, ids, sort, desc) \in DOMAIN Page(ids, sort, desc, n)
                 /\ Page(ids, sort, desc, n)[Place(i, ids, sort, desc)] = i
<1> DEFINE list == Sorted(ids, sort, desc)
           page == Page(ids, sort, desc, n)
<1>1. /\ list \in Seq(ids) /\ Len(list) = Cardinality(ids)
      /\ \A i \in ids : /\ Place(i, ids, sort, desc) \in 1..Cardinality(ids)
                        /\ list[Place(i, ids, sort, desc)] = i
  BY SortedFacts
<1>2. page = Cut(list, n)
  BY DEF Page
<1> HIDE DEF list, page
<1>3. /\ page \in Seq(ids)
      /\ Len(page) = IF Len(list) > n THEN n ELSE Len(list)
      /\ \A i \in 1..Len(page) : page[i] = list[i]
  BY <1>1, <1>2, CutFacts
<1>4. DOMAIN page = 1..Len(page) /\ Cardinality(ids) \in Nat
  BY <1>3, LenProperties, FiniteRows
<1>5. ASSUME NEW i \in ids, Place(i, ids, sort, desc) <= n
      PROVE  /\ Place(i, ids, sort, desc) \in DOMAIN page
             /\ page[Place(i, ids, sort, desc)] = i
  BY <1>1, <1>3, <1>4, <1>5
<1> QED
  BY <1>1, <1>3, <1>5 DEF page

\* The limit is between 1 and the size of the store, and the one that is asked
\* for if that is in between.
LEMMA LimitFacts ==
  ASSUME TypeOK, NEW asked \in Int, NEW fallback \in Int
  PROVE  /\ Limit(asked, fallback) \in 1..maxItems
         /\ Limit(asked, fallback) < maxItems /\ fallback >= maxItems
              => Limit(asked, fallback) = asked
         /\ asked \in 1..maxItems => Limit(asked, fallback) = asked
<1>1. maxItems \in Nat \ {0}
  BY SlotsAssumption DEF TypeOK
<1> QED
  BY <1>1 DEF Limit, Lesser, Greater

-----------------------------------------------------------------------------
(* Lists.                                                                  *)

LEMMA FoundFacts ==
  ASSUME NEW ids, NEW total
  PROVE  /\ Found(ids, total).ids = ids
         /\ Found(ids, total).total = total
         /\ Found(ids, total).error = "none"
BY DEF Found

\* What a request without q is answered.
LEMMA ListAnswer ==
  ASSUME NEW r, r.q = <<>>, ~BadSort(r), ~BadOrder(r), r.order # "asc"
  PROVE  /\ Search(r).ids = Page(OfType(r.type), r.sort, TRUE, Limit(r.limit, maxItems))
         /\ Search(r).total = Cardinality(OfType(r.type))
<1> DEFINE page == Page(OfType(r.type), r.sort, TRUE, Limit(r.limit, maxItems))
           total == Cardinality(OfType(r.type))
<1>1. Default(FALSE) = maxItems /\ (r.order # "asc") = TRUE
  BY DEF Default
<1>2. Search(r) = Found(Page(OfType(r.type), r.sort, r.order # "asc", Limit(r.limit, Default(FALSE))),
                        total)
  BY Zenon DEF Search
<1>3. Search(r) = Found(page, total)
  BY <1>1, <1>2, Zenon
<1> HIDE DEF page, total
<1>4. Search(r).ids = page /\ Search(r).total = total
  BY <1>3 DEF Found
<1> QED
  BY <1>4, Zenon DEF page, total

\* text and file split the records.
LEMMA TypesSplit ==
  ASSUME TypeOK
  PROVE  /\ \A type : OfType(type) \in SUBSET Used
         /\ Cardinality(OfType("text")) + Cardinality(OfType("file")) = Cardinality(Used)
         /\ OfType("") = Used
<1>1. /\ OfType("text") = {i \in Used : ~IsFile(i)}
      /\ OfType("file") = {i \in Used : IsFile(i)}
  BY DEF OfType
<1>2. OfType("") = Used
  BY Zenon DEF OfType
<1>3. ASSUME NEW type
      PROVE  OfType(type) \in SUBSET Used
  BY <1>3 DEF OfType
<1>4. /\ OfType("text") \union OfType("file") = Used
      /\ OfType("text") \intersect OfType("file") = {}
  BY <1>1
<1>5. IsFiniteSet(OfType("text")) /\ IsFiniteSet(OfType("file"))
  BY <1>3, FiniteRows
<1>6. /\ Cardinality(OfType("text")) \in Nat /\ Cardinality(OfType("file")) \in Nat
      /\ Cardinality(Used) = Cardinality(OfType("text")) + Cardinality(OfType("file"))
                             - Cardinality(OfType("text") \intersect OfType("file"))
  BY <1>4, <1>5, FS_Union, FS_CardinalityType
<1>7. Cardinality(OfType("text")) + Cardinality(OfType("file")) = Cardinality(Used)
  BY <1>4, <1>6, FS_EmptySet
<1> QED
  BY <1>2, <1>3, <1>7

\* A page is full or holds them all; one row of the newest is the latest.
LEMMA PageFull ==
  ASSUME TypeOK, NEW ids \in SUBSET Used, NEW sort, NEW desc \in BOOLEAN, NEW n \in Int
  PROVE  LET page == Page(ids, sort, desc, Limit(n, maxItems)) IN
         \/ Len(page) = Cardinality(ids)
         \/ Len(page) = n /\ n < Cardinality(ids)
<1> DEFINE page == Page(ids, sort, desc, Limit(n, maxItems))
<1>1. maxItems \in Nat
  BY SlotsAssumption DEF TypeOK
<1>2. /\ Limit(n, maxItems) \in 1..maxItems
      /\ Limit(n, maxItems) < maxItems => Limit(n, maxItems) = n
  BY <1>1, LimitFacts
<1>3. Cardinality(ids) \in Nat /\ Cardinality(ids) <= maxItems
  BY <1>1, FiniteRows, UsedFinite
<1>4. Limit(n, maxItems) \in Nat
  BY <1>1, <1>2
<1>5. Len(page) = IF Cardinality(ids) > Limit(n, maxItems)
                  THEN Limit(n, maxItems) ELSE Cardinality(ids)
  BY <1>4, PageFacts
<1> HIDE DEF page
<1>6. \/ Len(page) = Cardinality(ids)
      \/ Len(page) = n /\ n < Cardinality(ids)
  BY <1>1, <1>2, <1>3, <1>5
<1> QED
  BY <1>6 DEF page

LEMMA PageHead ==
  ASSUME TypeOK, NEW sort, NEW desc \in BOOLEAN, NEW i \in Used,
         \A j \in Used : Ahead(j, i, sort, desc) <=> Precedes(i, j)
  PROVE  IsLatest(i) <=> Page(Used, sort, desc, 1) = <<i>>
<1> DEFINE page == Page(Used, sort, desc, 1)
           place(j) == Place(j, Used, sort, desc)
           front == {j \in Used : Ahead(j, i, sort, desc)}
<1>1. place(i) = 1 <=> IsLatest(i)
  <2>1. \A j \in Used : j \in Int /\ slots[j].stored \in Int
    BY RowFacts DEF Used
  <2>2. \A j \in Used : /\ i = j \/ Precedes(i, j) \/ Precedes(j, i)
                        /\ ~(Precedes(i, j) /\ Precedes(j, i))
    BY <2>1 DEF Precedes
  <2>3. front = {} <=> IsLatest(i)
    BY <2>2 DEF IsLatest
  <2>4. IsFiniteSet(front)
    BY UsedFinite, FS_Subset
  <2>5. Cardinality(front) \in Nat /\ (Cardinality(front) = 0 <=> front = {})
    BY <2>4, FS_CardinalityType, FS_EmptySet
  <2>6. place(i) = Cardinality(front) + 1
    BY DEF Place
  <2> HIDE DEF front, place
  <2> QED
    BY <2>3, <2>5, <2>6
<1>2. /\ page \in Seq(Used)
      /\ Len(page) = IF Cardinality(Used) > 1 THEN 1 ELSE Cardinality(Used)
      /\ \A j \in Used : place(j) <= 1 => page[place(j)] = j
  <2>1. Used \in SUBSET Used /\ 1 \in Nat
    OBVIOUS
  <2>2. /\ page \in Seq(Used)
        /\ Len(page) = IF Cardinality(Used) > 1 THEN 1 ELSE Cardinality(Used)
    BY <2>1, PageFacts, Zenon
  <2>3. \A j \in Used : place(j) <= 1 => page[place(j)] = j
    BY <2>1, PageFacts, Zenon
  <2> QED
    BY <2>2, <2>3, Zenon
<1>3. Cardinality(Used) \in Nat /\ place(i) \in 1..Cardinality(Used)
  BY UsedFinite, PlaceRange
<1>4. PICK j \in Used : place(j) = 1
  <2>1. 1 \in 1..Cardinality(Used)
    BY <1>3
  <2> QED
    BY <2>1, PlacesTaken
<1>5. i = j <=> place(i) = 1
  BY <1>4, PlacesDiffer
<1> HIDE DEF page, place
<1>6. page[1] = j /\ Len(page) = 1
  BY <1>2, <1>3, <1>4
<1>7. page = <<j>>
  BY <1>2, <1>6
<1>8. page = <<i>> <=> i = j
  BY <1>7
<1> QED
  BY <1>1, <1>5, <1>8 DEF page

LEMMA ListsRight ==
  ASSUME TypeOK
  PROVE  ListsAddUp
<1>1. -1..(MaxSlots + 1) \subseteq Int
  BY SlotsAssumption
<1> SUFFICES ASSUME NEW type, NEW n \in -1..(MaxSlots + 1)
             PROVE
    LET list(t) == Search([Plainly(<<>>) EXCEPT !.type = t, !.limit = n]) IN
    /\ list("text").total + list("file").total = Cardinality(Used)
    /\ \/ Len(list(type).ids) = list(type).total
       \/ Len(list(type).ids) = n /\ n < list(type).total
  BY Zenon DEF ListsAddUp
<1> DEFINE list(t) == Search([Plainly(<<>>) EXCEPT !.type = t, !.limit = n])
           page(t) == Page(OfType(t), "", TRUE, Limit(n, maxItems))
<1>2. ASSUME NEW t
      PROVE  list(t).ids = page(t) /\ list(t).total = Cardinality(OfType(t))
  <2> DEFINE r == [Plainly(<<>>) EXCEPT !.type = t, !.limit = n]
  <2>1. r.q = <<>> /\ r.type = t /\ r.sort = "" /\ r.limit = n /\ r.order = ""
    BY Zenon DEF Plainly
  <2> HIDE DEF r
  <2>2. ~BadSort(r) /\ ~BadOrder(r) /\ r.order # "asc"
    BY <2>1 DEF BadSort, BadOrder
  <2>3. /\ Search(r).ids = Page(OfType(r.type), r.sort, TRUE, Limit(r.limit, maxItems))
        /\ Search(r).total = Cardinality(OfType(r.type))
    BY <2>1, <2>2, ListAnswer, Zenon
  <2>4. /\ Search(r).ids = page(t)
        /\ Search(r).total = Cardinality(OfType(t))
    BY <2>1, <2>3, Zenon
  <2> QED
    BY <2>4, Zenon DEF r
<1>3. \/ Len(page(type)) = Cardinality(OfType(type))
      \/ Len(page(type)) = n /\ n < Cardinality(OfType(type))
  <2>1. n \in Int /\ TRUE \in BOOLEAN /\ OfType(type) \in SUBSET Used
    BY <1>1, TypesSplit, Zenon
  <2> QED
    BY <2>1, PageFull, Zenon
<1> HIDE DEF page, list
<1>4. list("text").total + list("file").total = Cardinality(Used)
  BY <1>2, TypesSplit, Zenon
<1> QED
  BY <1>2, <1>3, <1>4, Zenon DEF list

LEMMA HeadRight ==
  ASSUME TypeOK
  PROVE  ListHeadIsLatest
<1> DEFINE r == [Plainly(<<>>) EXCEPT !.sort = "stored_at", !.limit = 1]
<1>1. r.q = <<>> /\ r.type = "" /\ r.sort = "stored_at" /\ r.limit = 1 /\ r.order = ""
  BY Zenon DEF Plainly
<1>2. Limit(1, maxItems) = 1
  <2>1. maxItems \in Nat \ {0}
    BY SlotsAssumption DEF TypeOK
  <2> QED
    BY <2>1, LimitFacts
<1>3. ~BadSort(r) /\ ~BadOrder(r) /\ r.order # "asc"
  BY <1>1 DEF BadSort, BadOrder
<1> HIDE DEF r
<1>4. Search(r).ids = Page(OfType(r.type), r.sort, TRUE, Limit(r.limit, maxItems))
  BY <1>1, <1>3, ListAnswer, Zenon
<1>5. OfType(r.type) = Used /\ Limit(r.limit, maxItems) = 1
  BY <1>1, <1>2, TypesSplit, Zenon
<1>6. Search(r).ids = Page(Used, "stored_at", TRUE, 1)
  BY <1>1, <1>4, <1>5, Zenon
<1>7. ASSUME NEW i \in Used
      PROVE  IsLatest(i) <=> Page(Used, "stored_at", TRUE, 1) = <<i>>
  <2>1. \A j \in Used : Ahead(j, i, "stored_at", TRUE) <=> Precedes(i, j)
    BY DEF Ahead, Key, Precedes
  <2>2. TRUE \in BOOLEAN
    OBVIOUS
  <2> QED
    BY <2>1, <2>2, PageHead, Zenon
<1> QED
  BY <1>6, <1>7, Zenon DEF ListHeadIsLatest, r

-----------------------------------------------------------------------------
(* Sequences of characters.                                                *)

Texts == Seq(Chars)

LEMMA Characters ==
  /\ Blank \in Chars /\ Bar \in Chars /\ Quote \in Chars /\ Data \subseteq Chars
  /\ Blank \notin Data /\ Bar \notin Data /\ Quote \notin Data
  /\ Blank # Bar /\ Blank # Quote /\ Bar # Quote
  /\ \A c \in Chars : c \in Data \/ c = Blank \/ c = Bar \/ c = Quote
BY SearchAssumption DEF Chars, Blank, Bar, Quote

LEMMA TextFacts ==
  ASSUME NEW q \in Texts
  PROVE  /\ Len(q) \in Nat /\ Positions(q) = 1..Len(q)
         /\ \A i \in 1..Len(q) : q[i] \in Chars
         /\ Written(q) \subseteq 1..Len(q)
BY LenProperties, ElementOfSeq DEF Texts, Positions, Written

LEMMA Least ==
  ASSUME NEW T, T \subseteq Nat, T # {}
  PROVE  \E n \in T : \A m \in T : n <= m
<1>1. IsWellFoundedOn(OpToRel(<, Nat), Nat)
  BY NatLessThanWellFounded
<1>2. PICK n \in T : \A m \in T : ~(<<m, n>> \in OpToRel(<, Nat))
  BY <1>1, WFMin
<1>3. OpToRel(<, Nat) = {ss \in Nat \X Nat : ss[1] < ss[2]}
  BY Zenon DEF OpToRel
<1>4. ASSUME NEW m \in T
      PROVE  n <= m
  <2>1. <<m, n>> \notin {ss \in Nat \X Nat : ss[1] < ss[2]}
    BY <1>2, <1>3, Zenon
  <2> QED
    BY <2>1
<1> QED
  BY <1>4

\* Trimming takes the text from its first to its last written character.
LEMMA TrimFacts ==
  ASSUME NEW q \in Texts, Written(q) # {}
  PROVE  \E a, b \in Written(q) : /\ \A j \in Written(q) : a <= j /\ j <= b
                                  /\ Trim(q) = SubSeq(q, a, b)
<1>1. Len(q) \in Nat /\ Written(q) \subseteq 1..Len(q)
  BY TextFacts
<1>2. PICK a \in Written(q) : \A j \in Written(q) : a <= j
  BY <1>1, Least
<1>3. PICK b \in Written(q) : \A j \in Written(q) : j <= b
  <2> DEFINE T == {Len(q) - j : j \in Written(q)}
  <2>1. T \subseteq Nat /\ T # {}
    BY <1>1
  <2> HIDE DEF T
  <2>2. PICK n \in T : \A m \in T : n <= m
    BY <2>1, Least
  <2>3. PICK b \in Written(q) : n = Len(q) - b
    BY <2>2 DEF T
  <2>4. \A j \in Written(q) : Len(q) - j \in T
    BY DEF T
  <2>5. \A j \in Written(q) : j <= b
    BY <1>1, <2>2, <2>3, <2>4
  <2> QED
    BY <2>5
<1>4. (CHOOSE i \in Written(q) : \A j \in Written(q) : i <= j) = a
  BY <1>1, <1>2
<1>5. (CHOOSE i \in Written(q) : \A j \in Written(q) : j <= i) = b
  BY <1>1, <1>3
<1>6. Trim(q) = SubSeq(q, a, b)
  BY <1>4, <1>5 DEF Trim
<1> QED
  BY <1>2, <1>3, <1>6

\* What is read of a query: nothing, or the text from a to b.
Shown(q, s, a, b) ==
  /\ a \in 1..Len(q) /\ b \in a..Len(q) /\ q[a] # Blank /\ q[b] # Blank
  /\ \A i \in 1..Len(q) : q[i] # Blank => a <= i /\ i <= b
  /\ s \in Texts /\ Len(s) = b - a + 1 /\ \A i \in 1..Len(s) : s[i] = q[a + i - 1]

LEMMA TrimShows ==
  ASSUME NEW q \in Texts
  PROVE  /\ Written(q) = {} => Trim(q) = <<>>
         /\ Written(q) # {} => /\ Trim(q) # <<>> /\ Len(Trim(q)) <= Len(q)
                               /\ \E a, b \in 1..Len(q) : Shown(q, Trim(q), a, b)
<1>1. /\ Len(q) \in Nat /\ \A i \in 1..Len(q) : q[i] \in Chars
      /\ Written(q) = {i \in 1..Len(q) : q[i] # Blank}
  BY TextFacts DEF Written
<1>2. ASSUME Written(q) # {}
      PROVE  /\ Trim(q) # <<>> /\ Len(Trim(q)) <= Len(q)
             /\ \E a, b \in 1..Len(q) : Shown(q, Trim(q), a, b)
  <2>1. PICK a \in Written(q), b \in Written(q) :
               /\ \A j \in Written(q) : a <= j /\ j <= b
               /\ Trim(q) = SubSeq(q, a, b)
    BY <1>2, TrimFacts
  <2>2. a \in 1..Len(q) /\ b \in 1..Len(q) /\ a <= b
    BY <1>1, <2>1
  <2>3. a \in Int /\ b \in Int /\ \A i \in a..b : q[i] \in Chars
    BY <1>1, <2>2
  <2>4. /\ Trim(q) \in Seq(Chars) /\ Len(Trim(q)) = b - a + 1
        /\ \A i \in 1..(b - a + 1) : Trim(q)[i] = q[a + i - 1]
    BY <2>1, <2>2, <2>3, SubSeqProperties
  <2>5. Trim(q) # <<>> /\ Len(Trim(q)) <= Len(q)
    <3>1. Len(Trim(q)) # 0 /\ Len(Trim(q)) <= Len(q)
      BY <1>1, <2>2, <2>4
    <3> QED
      BY <3>1, EmptySeq
  <2>6. Shown(q, Trim(q), a, b)
    BY <1>1, <2>1, <2>2, <2>4 DEF Shown, Texts
  <2> QED
    BY <2>2, <2>5, <2>6
<1> QED
  BY <1>2 DEF Trim

-----------------------------------------------------------------------------
(* The loop of build_fts_query, one character at a time.                   *)

States == [alts : Seq(Seq(Texts)), cur : Texts, open : BOOLEAN, skip : BOOLEAN]

\* The words of a term, of an alternative, and of what a state holds of one.
TermWords(term) == {term[t] : t \in DOMAIN term} \intersect Data
AltWords(alt) == UNION {TermWords(alt[t]) : t \in DOMAIN alt}
Held(st, k) == AltWords(st.alts[k]) \union
               (IF k = Len(st.alts) THEN TermWords(st.cur) ELSE {})

\* Alternative k will not stay empty.
Filled(st, k) == st.alts[k] # <<>> \/ (k = Len(st.alts) /\ (st.cur # <<>> \/ st.open))

\* Each term of alternative k is one word.
Singles(alt) == \A t \in DOMAIN alt : \E w \in Data : alt[t] = <<w>>

LEMMA WordsOfTerm ==
  ASSUME NEW term \in Texts, NEW c \in Chars
  PROVE  /\ TermWords(Append(term, c)) = TermWords(term) \union ({c} \intersect Data)
         /\ TermWords(<<>>) = {}
         /\ Append(term, c) \in Texts /\ Append(term, c) # <<>>
<1>1. /\ Append(term, c) \in Texts /\ Append(term, c) # <<>>
      /\ Len(Append(term, c)) = Len(term) + 1
      /\ \A i \in 1..Len(term) : Append(term, c)[i] = term[i]
      /\ Append(term, c)[Len(term) + 1] = c
  BY AppendProperties DEF Texts
<1>2. /\ Len(term) \in Nat /\ DOMAIN term = 1..Len(term)
      /\ DOMAIN Append(term, c) = 1..(Len(term) + 1)
  BY <1>1, LenProperties DEF Texts
<1>3. DOMAIN Append(term, c) = DOMAIN term \union {Len(term) + 1}
  BY <1>2
<1>4. {Append(term, c)[t] : t \in DOMAIN Append(term, c)}
        = {term[t] : t \in DOMAIN term} \union {c}
  BY <1>1, <1>2, <1>3
<1>5. TermWords(Append(term, c)) = TermWords(term) \union ({c} \intersect Data)
  BY <1>4 DEF TermWords
<1>6. TermWords(<<>>) = {}
  BY DEF TermWords
<1> QED
  BY <1>1, <1>5, <1>6

LEMMA WordsOfAlternative ==
  ASSUME NEW alt \in Seq(Texts), NEW term \in Texts
  PROVE  /\ AltWords(Append(alt, term)) = AltWords(alt) \union TermWords(term)
         /\ AltWords(<<>>) = {}
         /\ Append(alt, term) \in Seq(Texts) /\ Append(alt, term) # <<>>
         /\ Singles(Append(alt, term)) <=> Singles(alt) /\ \E w \in Data : term = <<w>>
<1>1. /\ Append(alt, term) \in Seq(Texts) /\ Append(alt, term) # <<>>
      /\ Len(Append(alt, term)) = Len(alt) + 1
      /\ \A i \in 1..Len(alt) : Append(alt, term)[i] = alt[i]
      /\ Append(alt, term)[Len(alt) + 1] = term
  BY AppendProperties
<1>2. /\ Len(alt) \in Nat /\ DOMAIN alt = 1..Len(alt)
      /\ DOMAIN Append(alt, term) = 1..(Len(alt) + 1)
  BY <1>1, LenProperties
<1>3. DOMAIN Append(alt, term) = DOMAIN alt \union {Len(alt) + 1}
  BY <1>2
<1>4. {TermWords(Append(alt, term)[t]) : t \in DOMAIN Append(alt, term)}
        = {TermWords(alt[t]) : t \in DOMAIN alt} \union {TermWords(term)}
  BY <1>1, <1>2, <1>3
<1>5. AltWords(Append(alt, term)) = AltWords(alt) \union TermWords(term)
  BY <1>4 DEF AltWords
<1>6. AltWords(<<>>) = {}
  BY DEF AltWords
<1>7. Singles(Append(alt, term)) <=> Singles(alt) /\ \E w \in Data : term = <<w>>
  BY <1>1, <1>2, <1>3 DEF Singles
<1> QED
  BY <1>1, <1>5, <1>6, <1>7

\* The end of a term: st1 is st with its term, if any, put into its last
\* alternative.
Ended(st, st1) ==
  /\ st1 \in States /\ st1.cur = <<>> /\ st1.open = st.open /\ st1.skip = st.skip
  /\ Len(st1.alts) = Len(st.alts)
  /\ \A k \in 1..(Len(st.alts) - 1) : st1.alts[k] = st.alts[k]
  /\ \/ st1.alts[Len(st.alts)] = Append(st.alts[Len(st.alts)], st.cur)
     \/ st.cur = <<>> /\ st1.alts[Len(st.alts)] = st.alts[Len(st.alts)]

\* Outside quotes an empty term is none.
EndedSome(st, st1) ==
  Ended(st, st1) /\ (st.cur = <<>> => st1.alts[Len(st.alts)] = st.alts[Len(st.alts)])

LEMMA FlushFacts ==
  ASSUME NEW st \in States, Len(st.alts) # 0
  PROVE  /\ Ended(st, Flush(st)) /\ EndedSome(st, FlushSome(st))
         /\ Flush(st).alts[Len(st.alts)] # <<>>
<1> DEFINE len == Len(st.alts)
           term == Append(st.alts[len], st.cur)
           alts == [st.alts EXCEPT ![len] = term]
<1>1. /\ st.alts \in Seq(Seq(Texts)) /\ st.cur \in Texts
      /\ st.open \in BOOLEAN /\ st.skip \in BOOLEAN
  BY DEF States
<1>2. len \in Nat /\ len \in 1..len
  BY <1>1, LenProperties
<1>3. st.alts[len] \in Seq(Texts)
  BY <1>1, <1>2, ElementOfSeq
<1>4. term \in Seq(Texts) /\ term # <<>>
  BY <1>1, <1>3, WordsOfAlternative
<1>5. /\ alts \in Seq(Seq(Texts)) /\ Len(alts) = len
      /\ \A j \in 1..len : alts[j] = IF j = len THEN term ELSE st.alts[j]
  <2> HIDE DEF term
  <2> QED
    BY <1>1, <1>2, <1>4, ExceptSeq
<1>6. Flush(st) = [alts |-> alts, cur |-> <<>>, open |-> st.open, skip |-> st.skip]
  <2>1. Flush(st) = [[st EXCEPT !.alts = alts] EXCEPT !.cur = <<>>]
    BY DEF Flush
  <2> HIDE DEF alts
  <2> QED
    BY <2>1 DEF States
<1>7. <<>> \in Texts
  BY EmptySeq DEF Texts
<1>8. /\ Flush(st).alts = alts /\ Flush(st).cur = <<>> /\ Flush(st).open = st.open
      /\ Flush(st).skip = st.skip /\ Flush(st) \in States
  <2> HIDE DEF alts
  <2> QED
    BY <1>1, <1>5, <1>6, <1>7 DEF States
<1>9. Flush(st).alts[len] = term /\ \A k \in 1..(len - 1) : Flush(st).alts[k] = st.alts[k]
  <2>1. Flush(st).alts = alts
    BY <1>8
  <2> HIDE DEF alts, term, len
  <2>2. alts[len] = term /\ \A k \in 1..(len - 1) : alts[k] = st.alts[k]
    BY <1>2, <1>5
  <2> QED
    BY <2>1, <2>2
<1>10. Ended(st, Flush(st))
  BY <1>5, <1>8, <1>9 DEF Ended
<1>11. CASE st.cur = <<>>
  BY <1>4, <1>9, <1>10, <1>11 DEF Ended, EndedSome, FlushSome
<1>12. CASE st.cur # <<>>
  BY <1>4, <1>9, <1>10, <1>12 DEF EndedSome, FlushSome
<1> QED
  BY <1>11, <1>12

\* The end of a term takes nothing from an alternative.
LEMMA EndedFacts ==
  ASSUME NEW st \in States, Len(st.alts) # 0, NEW st1, Ended(st, st1)
  PROVE  /\ Len(st.alts) \in Nat \ {0}
         /\ \A k \in 1..Len(st.alts) :
              /\ Held(st1, k) = Held(st, k)
              /\ Filled(st, k) => Filled(st1, k)
              /\ Filled(st, k) /\ ~st.open => st1.alts[k] # <<>>
              /\ Held(st1, k) = AltWords(st1.alts[k])
              /\ k # Len(st.alts) => st1.alts[k] = st.alts[k]
         /\ EndedSome(st, st1) => (Singles(st.alts[Len(st.alts)]) /\ (st.cur = <<>> \/ \E w \in Data : st.cur = <<w>>)
              => Singles(st1.alts[Len(st.alts)]))
<1> DEFINE len == Len(st.alts)
<1>1. /\ st.alts \in Seq(Seq(Texts)) /\ st.cur \in Texts
      /\ len \in Nat \ {0}
  BY LenProperties DEF States
<1>2. st.alts[len] \in Seq(Texts)
  BY <1>1, ElementOfSeq
<1>3. /\ AltWords(Append(st.alts[len], st.cur)) = AltWords(st.alts[len]) \union TermWords(st.cur)
      /\ Append(st.alts[len], st.cur) # <<>>
      /\ Singles(Append(st.alts[len], st.cur)) <=>
           Singles(st.alts[len]) /\ \E w \in Data : st.cur = <<w>>
      /\ TermWords(<<>>) = {}
  <2>1. TermWords(<<>>) = {}
    BY DEF TermWords
  <2> QED
    BY <1>1, <1>2, <2>1, WordsOfAlternative
<1>4. /\ st1.cur = <<>> /\ st1.open = st.open /\ Len(st1.alts) = len
      /\ \A k \in 1..(len - 1) : st1.alts[k] = st.alts[k]
      /\ \/ st1.alts[len] = Append(st.alts[len], st.cur)
         \/ st.cur = <<>> /\ st1.alts[len] = st.alts[len]
  BY DEF Ended
<1>5. ASSUME NEW k \in 1..len
      PROVE  /\ Held(st1, k) = Held(st, k)
             /\ Filled(st, k) => Filled(st1, k)
             /\ Filled(st, k) /\ ~st.open => st1.alts[k] # <<>>
             /\ Held(st1, k) = AltWords(st1.alts[k])
             /\ k # len => st1.alts[k] = st.alts[k]
  <2>1. CASE k = len
    <3>1. Held(st, k) = AltWords(st.alts[len]) \union TermWords(st.cur)
      BY <2>1 DEF Held
    <3>2. Held(st1, k) = AltWords(st1.alts[len])
      BY <1>3, <1>4, <2>1 DEF Held
    <3>3. AltWords(st1.alts[len]) = AltWords(st.alts[len]) \union TermWords(st.cur)
      BY <1>3, <1>4
    <3>4. Filled(st, k) <=> st.alts[len] # <<>> \/ st.cur # <<>> \/ st.open
      BY <2>1 DEF Filled
    <3>5. Filled(st1, k) <=> st1.alts[len] # <<>> \/ st.open
      BY <1>4, <2>1 DEF Filled
    <3> QED
      BY <1>3, <1>4, <2>1, <3>1, <3>2, <3>3, <3>4, <3>5
  <2>2. CASE k # len
    <3>1. st1.alts[k] = st.alts[k]
      BY <1>1, <1>4, <2>2
    <3> QED
      BY <1>4, <2>2, <3>1 DEF Held, Filled
  <2> QED
    BY <2>1, <2>2
<1>6. ASSUME EndedSome(st, st1), Singles(st.alts[len]),
             st.cur = <<>> \/ \E w \in Data : st.cur = <<w>>
      PROVE  Singles(st1.alts[len])
  <2>1. CASE st.cur = <<>>
    BY <1>6, <2>1 DEF EndedSome
  <2>2. CASE st.cur # <<>>
    BY <1>3, <1>4, <1>6, <2>2
  <2> QED
    BY <2>1, <2>2
<1> HIDE DEF len
<1>7. /\ len \in Nat \ {0}
      /\ \A k \in 1..len :
           /\ Held(st1, k) = Held(st, k)
           /\ Filled(st, k) => Filled(st1, k)
           /\ Filled(st, k) /\ ~st.open => st1.alts[k] # <<>>
           /\ Held(st1, k) = AltWords(st1.alts[k])
           /\ k # len => st1.alts[k] = st.alts[k]
  BY <1>1, <1>5
<1> QED
  BY <1>6, <1>7 DEF len

\* What a character c does before a character d.
Kept(st, st2) == st2.alts = st.alts /\ st2.open = st.open
Moved(c, d, st, st2) ==
  \/ st.skip /\ Kept(st, st2) /\ st2.cur = st.cur /\ ~st2.skip
  \/ /\ ~st.skip /\ st.open /\ c = Quote /\ d = Quote
     /\ Kept(st, st2) /\ st2.cur = Append(st.cur, c) /\ st2.skip
  \/ /\ ~st.skip /\ st.open /\ c = Quote /\ d # Quote
     /\ \E st1 : /\ Ended(st, st1) /\ st1.alts[Len(st.alts)] # <<>>
                 /\ st2.alts = st1.alts /\ st2.cur = <<>> /\ ~st2.open /\ ~st2.skip
  \/ /\ ~st.skip /\ ~st.open /\ c = Quote
     /\ \E st1 : /\ EndedSome(st, st1)
                 /\ st2.alts = st1.alts /\ st2.cur = <<>> /\ st2.open /\ ~st2.skip
  \/ /\ ~st.skip /\ ~st.open /\ c = Bar
     /\ \E st1 : /\ EndedSome(st, st1) /\ st2.alts = Append(st1.alts, <<>>)
                 /\ st2.cur = <<>> /\ ~st2.open /\ ~st2.skip
  \/ /\ ~st.skip /\ ~st.open /\ c = Blank
     /\ EndedSome(st, st2)
  \/ /\ ~st.skip /\ c # Quote /\ (st.open \/ c \in Data)
     /\ Kept(st, st2) /\ st2.cur = Append(st.cur, c) /\ ~st2.skip

LEMMA ReadMoves ==
  ASSUME NEW q \in Texts, NEW i \in 1..Len(q), NEW st \in States, Len(st.alts) # 0
  PROVE  /\ ReadChar(q, st, i) \in States
         /\ Moved(q[i], IF i < Len(q) THEN q[i + 1] ELSE Blank, st, ReadChar(q, st, i))
<1> DEFINE c == q[i]
           st2 == ReadChar(q, st, i)
           d == IF i < Len(q) THEN q[i + 1] ELSE Blank
<1>1. /\ st.alts \in Seq(Seq(Texts)) /\ st.cur \in Texts /\ <<>> \in Texts
      /\ st.open \in BOOLEAN /\ st.skip \in BOOLEAN
  BY EmptySeq DEF States, Texts
<1>2. c \in Chars /\ Quote \in Chars
  BY TextFacts, Characters
<1>3. Append(st.cur, c) \in Texts /\ Append(st.cur, Quote) \in Texts
  BY <1>1, <1>2, WordsOfTerm
<1>4. /\ Ended(st, Flush(st)) /\ EndedSome(st, FlushSome(st))
      /\ Flush(st).alts[Len(st.alts)] # <<>>
  BY FlushFacts
<1>5. Flush(st) \in States /\ FlushSome(st) \in States
  BY <1>4 DEF Ended, EndedSome
<1>6. c = Quote \/ c = Bar \/ c = Blank \/ c \in Data
  BY <1>2, Characters
<1>7. /\ Blank # Bar /\ Blank # Quote /\ Bar # Quote
      /\ Blank \notin Data /\ Bar \notin Data /\ Quote \notin Data
  BY Characters
<1>8. CASE st.skip
  <2>1. st2 = [st EXCEPT !.skip = FALSE]
    BY <1>8 DEF ReadChar
  <2>2. /\ st2.alts = st.alts /\ st2.cur = st.cur /\ st2.open = st.open /\ st2.skip = FALSE
        /\ st2 \in States
    BY <2>1 DEF States
  <2> QED
    BY <1>8, <2>2 DEF Moved, Kept
<1>9. CASE ~st.skip /\ st.open /\ c = Quote /\ d = Quote
  <2>1. st2 = [st EXCEPT !.cur = Append(@, Quote), !.skip = TRUE]
    BY <1>7, <1>9 DEF ReadChar
  <2>2. /\ st2.alts = st.alts /\ st2.cur = Append(st.cur, Quote) /\ st2.open = st.open
        /\ st2.skip = TRUE /\ st2 \in States
    BY <1>3, <2>1 DEF States
  <2> QED
    BY <1>9, <2>2 DEF Moved, Kept
<1>10. CASE ~st.skip /\ st.open /\ c = Quote /\ d # Quote
  <2>1. st2 = [Flush(st) EXCEPT !.open = FALSE]
    BY <1>7, <1>10 DEF ReadChar
  <2>2. /\ st2.alts = Flush(st).alts /\ st2.cur = Flush(st).cur /\ st2.open = FALSE
        /\ st2.skip = Flush(st).skip /\ st2 \in States
    BY <1>5, <2>1 DEF States
  <2>3. st2.cur = <<>> /\ ~st2.skip
    BY <1>4, <1>10, <2>2 DEF Ended
  <2>4. \E st1 : /\ Ended(st, st1) /\ st1.alts[Len(st.alts)] # <<>>
                 /\ st2.alts = st1.alts /\ st2.cur = <<>> /\ ~st2.open /\ ~st2.skip
    BY <1>4, <2>2, <2>3
  <2>5. Moved(c, d, st, st2)
    <3> HIDE DEF st2, d
    <3> QED
      BY <1>10, <2>4 DEF Moved
  <2> QED
    BY <2>2, <2>5
<1>11. CASE ~st.skip /\ ~st.open /\ c = Quote
  <2>1. st2 = [FlushSome(st) EXCEPT !.open = TRUE]
    BY <1>7, <1>11 DEF ReadChar
  <2>2. /\ st2.alts = FlushSome(st).alts /\ st2.cur = FlushSome(st).cur /\ st2.open = TRUE
        /\ st2.skip = FlushSome(st).skip /\ st2 \in States
    BY <1>5, <2>1 DEF States
  <2>3. st2.cur = <<>> /\ ~st2.skip
    BY <1>4, <1>11, <2>2 DEF Ended, EndedSome
  <2> QED
    BY <1>4, <1>11, <2>2, <2>3 DEF Moved
<1>12. CASE ~st.skip /\ ~st.open /\ c = Bar
  <2>1. st2 = [FlushSome(st) EXCEPT !.alts = Append(@, <<>>)]
    BY <1>7, <1>12 DEF ReadChar
  <2>2. /\ FlushSome(st).alts \in Seq(Seq(Texts)) /\ <<>> \in Seq(Texts)
    BY <1>5, EmptySeq DEF States
  <2>3. Append(FlushSome(st).alts, <<>>) \in Seq(Seq(Texts))
    BY <2>2, AppendProperties
  <2>4. /\ st2.alts = Append(FlushSome(st).alts, <<>>) /\ st2.cur = FlushSome(st).cur
        /\ st2.open = FlushSome(st).open /\ st2.skip = FlushSome(st).skip /\ st2 \in States
    BY <1>5, <2>1, <2>3 DEF States
  <2>5. st2.cur = <<>> /\ ~st2.skip /\ ~st2.open
    BY <1>4, <1>12, <2>4 DEF Ended, EndedSome
  <2> QED
    BY <1>4, <1>12, <2>4, <2>5 DEF Moved
<1>13. CASE ~st.skip /\ ~st.open /\ c = Blank
  <2>1. st2 = FlushSome(st)
    BY <1>7, <1>13 DEF ReadChar
  <2> QED
    BY <1>4, <1>5, <1>13, <2>1 DEF Moved
<1>14. CASE ~st.skip /\ c # Quote /\ (st.open \/ c \in Data)
  <2>1. st2 = [st EXCEPT !.cur = Append(@, c)]
    BY <1>7, <1>14 DEF ReadChar
  <2>2. /\ st2.alts = st.alts /\ st2.cur = Append(st.cur, c) /\ st2.open = st.open
        /\ st2.skip = st.skip /\ st2 \in States
    BY <1>3, <2>1 DEF States
  <2> QED
    BY <1>14, <2>2 DEF Moved, Kept
<1> QED
  BY <1>1, <1>6, <1>8, <1>9, <1>10, <1>11, <1>12, <1>13, <1>14

-----------------------------------------------------------------------------
(* What is before a position of a query.                                   *)

BarsBefore(q, p) == Cardinality({j \in Bars(q) : j < p})
WordsBefore(q, k, p) == {q[i] : i \in {j \in Alternative(q, k) : j < p}} \intersect Data
WrittenBefore(q, k, p) == \E i \in Alternative(q, k) : i < p /\ q[i] # Blank

LEMMA Counting ==
  ASSUME NEW n \in Nat, NEW T, T \subseteq 1..n, NEW p \in 1..n
  PROVE  /\ Cardinality({j \in T : j < p}) \in Nat
         /\ p \in T => Cardinality({j \in T : j < p + 1}) = Cardinality({j \in T : j < p}) + 1
         /\ p \notin T => Cardinality({j \in T : j < p + 1}) = Cardinality({j \in T : j < p})
<1> DEFINE A == {j \in T : j < p}
           B == {j \in T : j < p + 1}
<1>1. IsFiniteSet(1..n)
  BY FS_Interval
<1>2. IsFiniteSet(A)
  BY <1>1, FS_Subset
<1>3. Cardinality(A) \in Nat
  BY <1>2, FS_CardinalityType
<1>0. \A j \in T : j < p + 1 <=> (j < p \/ j = p)
  OBVIOUS
<1>4. CASE p \in T
  <2>1. B = A \union {p}
    BY <1>0, <1>4
  <2>0. p \notin A
    OBVIOUS
  <2> HIDE DEF A, B
  <2>2. Cardinality(B) = Cardinality(A) + 1
    BY <1>2, <2>0, <2>1, FS_AddElement
  <2> QED
    BY <1>3, <1>4, <2>2 DEF A, B
<1>5. CASE p \notin T
  <2>1. B = A
    BY <1>0, <1>5
  <2> QED
    BY <1>3, <1>5, <2>1
<1> QED
  BY <1>4, <1>5

LEMMA Parity ==
  ASSUME NEW n \in Nat
  PROVE  /\ n % 2 = 0 \/ n % 2 = 1
         /\ n % 2 = 1 <=> ~((n + 1) % 2 = 1)
         /\ n % 2 = 1 <=> ~(n % 2 = 0)
OBVIOUS

\* A quote changes what is quoted from there on, nothing else does.
LEMMA QuotedNext ==
  ASSUME NEW q \in Texts, NEW p \in 1..Len(q)
  PROVE  Quoted(q, p + 1) <=> IF q[p] = Quote THEN ~Quoted(q, p) ELSE Quoted(q, p)
<1> DEFINE T == {j \in 1..Len(q) : q[j] = Quote}
           m == Cardinality({j \in T : j < p})
<1>1. Len(q) \in Nat /\ T \subseteq 1..Len(q)
  BY TextFacts
<1>2. /\ {j \in 1..(p - 1) : q[j] = Quote} = {j \in T : j < p}
      /\ {j \in 1..((p + 1) - 1) : q[j] = Quote} = {j \in T : j < p + 1}
  BY <1>1
<1>3. Before(q, p, Quote) = m /\ Before(q, p + 1, Quote) = Cardinality({j \in T : j < p + 1})
  BY <1>2 DEF Before
<1>4. /\ m \in Nat
      /\ p \in T => Cardinality({j \in T : j < p + 1}) = m + 1
      /\ p \notin T => Cardinality({j \in T : j < p + 1}) = m
  <2> HIDE DEF T
  <2> QED
    BY <1>1, Counting, Zenon
<1>5. p \in T <=> q[p] = Quote
  BY <1>1
<1> HIDE DEF T, m
<1>6. CASE q[p] = Quote
  <2>1. Before(q, p + 1, Quote) = m + 1
    BY <1>3, <1>4, <1>5, <1>6
  <2> QED
    BY <1>3, <1>4, <1>6, <2>1, Parity DEF Quoted
<1>7. CASE q[p] # Quote
  BY <1>3, <1>4, <1>5, <1>7 DEF Quoted
<1> QED
  BY <1>6, <1>7

LEMMA BarsFacts ==
  ASSUME NEW q \in Texts, NEW p \in 1..Len(q)
  PROVE  /\ BarsBefore(q, p) \in Nat
         /\ BarsBefore(q, p + 1) = IF p \in Bars(q) THEN BarsBefore(q, p) + 1 ELSE BarsBefore(q, p)
         /\ p \in Bars(q) <=> q[p] = Bar /\ ~Quoted(q, p)
         /\ \A k : p \in Alternative(q, k) <=> p \notin Bars(q) /\ BarsBefore(q, p) = k
<1>1. Len(q) \in Nat /\ Positions(q) = 1..Len(q) /\ Bars(q) \subseteq 1..Len(q)
  BY TextFacts DEF Bars
<1>2. /\ BarsBefore(q, p) \in Nat
      /\ BarsBefore(q, p + 1) = IF p \in Bars(q) THEN BarsBefore(q, p) + 1 ELSE BarsBefore(q, p)
  BY <1>1, Counting DEF BarsBefore
<1>3. p \in Bars(q) <=> q[p] = Bar /\ ~Quoted(q, p)
  BY <1>1 DEF Bars
<1>4. \A k : p \in Alternative(q, k) <=> p \notin Bars(q) /\ BarsBefore(q, p) = k
  BY <1>1 DEF Alternative, BarsBefore
<1> QED
  BY <1>2, <1>3, <1>4

\* What alternative k gets at position p.
LEMMA WordsNext ==
  ASSUME NEW q \in Texts, NEW p \in 1..Len(q), NEW k
  PROVE  /\ p \in Alternative(q, k)
              => /\ WordsBefore(q, k, p + 1) = WordsBefore(q, k, p) \union ({q[p]} \intersect Data)
                 /\ WrittenBefore(q, k, p + 1) <=> WrittenBefore(q, k, p) \/ q[p] # Blank
         /\ p \notin Alternative(q, k)
              => /\ WordsBefore(q, k, p + 1) = WordsBefore(q, k, p)
                 /\ WrittenBefore(q, k, p + 1) <=> WrittenBefore(q, k, p)
<1>1. Len(q) \in Nat /\ Alternative(q, k) \subseteq 1..Len(q)
  BY TextFacts DEF Alternative
<1>2. CASE p \in Alternative(q, k)
  <2>1. {j \in Alternative(q, k) : j < p + 1} = {j \in Alternative(q, k) : j < p} \union {p}
    BY <1>1, <1>2
  <2>2. WordsBefore(q, k, p + 1) = WordsBefore(q, k, p) \union ({q[p]} \intersect Data)
    BY <2>1 DEF WordsBefore
  <2>3. WrittenBefore(q, k, p + 1) <=> WrittenBefore(q, k, p) \/ q[p] # Blank
    BY <1>1, <1>2 DEF WrittenBefore
  <2> QED
    BY <1>2, <2>2, <2>3
<1>3. CASE p \notin Alternative(q, k)
  <2>1. \A j \in Alternative(q, k) : j < p + 1 <=> j < p
    BY <1>1, <1>3
  <2>2. {j \in Alternative(q, k) : j < p + 1} = {j \in Alternative(q, k) : j < p}
    BY <2>1
  <2>3. WordsBefore(q, k, p + 1) = WordsBefore(q, k, p)
    BY <2>2 DEF WordsBefore
  <2>4. WrittenBefore(q, k, p + 1) <=> WrittenBefore(q, k, p)
    BY <2>1 DEF WrittenBefore
  <2> QED
    BY <1>3, <2>3, <2>4
<1> QED
  BY <1>2, <1>3

LEMMA BarsGrow ==
  ASSUME NEW q \in Texts, NEW p \in Nat, NEW j \in Nat, j <= p
  PROVE  /\ BarsBefore(q, j) \in Nat /\ BarsBefore(q, p) \in Nat
         /\ BarsBefore(q, j) <= BarsBefore(q, p)
<1>1. Len(q) \in Nat /\ Bars(q) \subseteq 1..Len(q)
  BY TextFacts DEF Bars
<1> DEFINE A == {i \in Bars(q) : i < j}
           B == {i \in Bars(q) : i < p}
<1>2. A \in SUBSET B /\ B \in SUBSET (1..Len(q))
  <2>1. \A i \in Bars(q) : i < j => i < p
    BY <1>1
  <2> QED
    BY <1>1, <2>1
<1>3. IsFiniteSet(1..Len(q))
  BY <1>1, FS_Interval
<1> HIDE DEF A, B
<1>4. IsFiniteSet(B)
  BY <1>2, <1>3, FS_Subset
<1>5. IsFiniteSet(A) /\ Cardinality(A) <= Cardinality(B)
  BY <1>2, <1>4, FS_Subset
<1>6. Cardinality(A) \in Nat /\ Cardinality(B) \in Nat
  BY <1>4, <1>5, FS_CardinalityType
<1>7. BarsBefore(q, j) = Cardinality(A) /\ BarsBefore(q, p) = Cardinality(B)
  BY DEF BarsBefore, A, B
<1> QED
  BY <1>5, <1>6, <1>7

\* No alternative has begun before its bar.
LEMMA NotBegun ==
  ASSUME NEW q \in Texts, NEW p \in Nat, NEW k \in Nat, BarsBefore(q, p) < k
  PROVE  WordsBefore(q, k, p) = {} /\ ~WrittenBefore(q, k, p)
<1>1. ASSUME NEW j \in Alternative(q, k), j < p
      PROVE  FALSE
  <2>1. j \in 1..Len(q) /\ Len(q) \in Nat
    BY TextFacts DEF Alternative
  <2>2. BarsBefore(q, j) = k
    BY <2>1, BarsFacts
  <2>3. j \in Nat /\ j <= p
    BY <1>1, <2>1
  <2>4. BarsBefore(q, j) <= BarsBefore(q, p) /\ BarsBefore(q, j) \in Nat /\ BarsBefore(q, p) \in Nat
    BY <2>3, BarsGrow
  <2> QED
    BY <2>2, <2>4
<1>2. {j \in Alternative(q, k) : j < p} = {}
  BY <1>1
<1> QED
  BY <1>1, <1>2 DEF WordsBefore, WrittenBefore

-----------------------------------------------------------------------------
(* The invariant of the loop: st is what has been made of the positions    *)
(* before p of a query q whose last written character is at b.             *)

InQuotes(q, b, p, st) ==
  \/ st.skip /\ st.open /\ p <= b /\ q[p] = Quote /\ ~Quoted(q, p)
  \/ ~st.skip /\ (st.open <=> Quoted(q, p))

HasWords(q, p, st) == \A k \in 1..Len(st.alts) : Held(st, k) = WordsBefore(q, k - 1, p)

HasWritten(q, p, st) == \A k \in 1..Len(st.alts) : WrittenBefore(q, k - 1, p) => Filled(st, k)

Fresh(q, p, st) ==
  /\ ~st.open
  /\ \/ st.cur = <<>>
     \/ /\ \E w \in Data : st.cur = <<w>>
        /\ p - 1 \in Alternative(q, Len(st.alts) - 1) /\ q[p - 1] # Blank

HasSingles(q, p, st) ==
  \A k \in 1..Len(st.alts) :
    Plain(q, k - 1) => Singles(st.alts[k]) /\ (k = Len(st.alts) => Fresh(q, p, st))

Made(q, b, p, st) ==
  /\ st \in States /\ Len(st.alts) = BarsBefore(q, p) + 1
  /\ InQuotes(q, b, p, st)
  /\ HasWords(q, p, st)
  /\ HasWritten(q, p, st)
  /\ HasSingles(q, p, st)

\* Any character but a bar that separates adds to the last alternative.
LEMMA WithinAlternative ==
  ASSUME NEW q \in Texts, NEW b \in 1..Len(q), NEW p \in 1..b, NEW st, Made(q, b, p, st),
         p \notin Bars(q), NEW st2 \in States, Len(st2.alts) = Len(st.alts),
         \A k \in 1..Len(st.alts) :
           /\ Held(st2, k) = Held(st, k) \union
                             (IF k = Len(st.alts) THEN {q[p]} \intersect Data ELSE {})
           /\ Filled(st, k) => Filled(st2, k)
           /\ k # Len(st.alts) => st2.alts[k] = st.alts[k],
         q[p] # Blank => Filled(st2, Len(st.alts)),
         InQuotes(q, b, p + 1, st2),
         Plain(q, Len(st.alts) - 1) => Singles(st2.alts[Len(st.alts)]) /\ Fresh(q, p + 1, st2)
  PROVE  Made(q, b, p + 1, st2)
<1> DEFINE len == Len(st.alts)
<1>1. p \in 1..Len(q)
  BY TextFacts
<1>2. /\ BarsBefore(q, p) \in Nat /\ BarsBefore(q, p + 1) = BarsBefore(q, p)
      /\ \A k : p \in Alternative(q, k) <=> BarsBefore(q, p) = k
  BY <1>1, BarsFacts
<1>3. len = BarsBefore(q, p) + 1 /\ len \in Nat \ {0} /\ Len(st2.alts) = len
  BY <1>2 DEF Made
<1>4. \A k \in 1..len : p \in Alternative(q, k - 1) <=> k = len
  BY <1>2, <1>3
<1>5. HasWords(q, p + 1, st2)
  <2> SUFFICES ASSUME NEW k \in 1..len
               PROVE  Held(st2, k) = WordsBefore(q, k - 1, p + 1)
    BY <1>3 DEF HasWords
  <2>1. Held(st, k) = WordsBefore(q, k - 1, p)
    BY DEF Made, HasWords
  <2>2. CASE k = len
    <3>1. WordsBefore(q, k - 1, p + 1) = WordsBefore(q, k - 1, p) \union ({q[p]} \intersect Data)
      BY <1>1, <1>4, <2>2, WordsNext
    <3> QED
      BY <2>1, <2>2, <3>1
  <2>3. CASE k # len
    <3>1. WordsBefore(q, k - 1, p + 1) = WordsBefore(q, k - 1, p)
      BY <1>1, <1>4, <2>3, WordsNext
    <3> QED
      BY <2>1, <2>3, <3>1
  <2> QED
    BY <2>2, <2>3
<1>6. HasWritten(q, p + 1, st2)
  <2> SUFFICES ASSUME NEW k \in 1..len, WrittenBefore(q, k - 1, p + 1)
               PROVE  Filled(st2, k)
    BY <1>3 DEF HasWritten
  <2>1. WrittenBefore(q, k - 1, p) => Filled(st, k)
    BY DEF Made, HasWritten
  <2>2. CASE k = len
    <3>1. WrittenBefore(q, k - 1, p) \/ q[p] # Blank
      BY <1>1, <1>4, <2>2, WordsNext
    <3> QED
      BY <2>1, <2>2, <3>1
  <2>3. CASE k # len
    <3>1. WrittenBefore(q, k - 1, p)
      BY <1>1, <1>4, <2>3, WordsNext
    <3> QED
      BY <2>1, <3>1
  <2> QED
    BY <2>2, <2>3
<1>7. HasSingles(q, p + 1, st2)
  <2> SUFFICES ASSUME NEW k \in 1..len, Plain(q, k - 1)
               PROVE  Singles(st2.alts[k]) /\ (k = len => Fresh(q, p + 1, st2))
    BY <1>3 DEF HasSingles
  <2>1. CASE k = len
    BY <2>1
  <2>2. CASE k # len
    BY <2>2 DEF Made, HasSingles
  <2> QED
    BY <2>1, <2>2
<1> QED
  BY <1>2, <1>3, <1>5, <1>6, <1>7 DEF Made

\* A bar outside quotes begins an alternative.
LEMMA NextAlternative ==
  ASSUME NEW q \in Texts, NEW b \in 1..Len(q), NEW p \in 1..b, NEW st, Made(q, b, p, st),
         p \in Bars(q), ~st.skip, NEW st1, EndedSome(st, st1),
         NEW st2 \in States, st2.alts = Append(st1.alts, <<>>),
         st2.cur = <<>>, ~st2.open, ~st2.skip
  PROVE  Made(q, b, p + 1, st2)
<1> DEFINE len == Len(st.alts)
<1>1. p \in 1..Len(q) /\ p \in Nat /\ p + 1 \in Nat
  BY TextFacts
<1>2. /\ BarsBefore(q, p) \in Nat /\ BarsBefore(q, p + 1) = BarsBefore(q, p) + 1
      /\ q[p] = Bar /\ ~Quoted(q, p) /\ \A k : p \notin Alternative(q, k)
  BY <1>1, BarsFacts
<1>3. st \in States /\ len = BarsBefore(q, p) + 1 /\ len \in Nat \ {0} /\ ~st.open
  BY <1>2 DEF Made, InQuotes
<1>4. /\ \A k \in 1..len : /\ Held(st1, k) = Held(st, k)
                           /\ Filled(st, k) => st1.alts[k] # <<>>
                           /\ Held(st1, k) = AltWords(st1.alts[k])
                           /\ k # len => st1.alts[k] = st.alts[k]
      /\ Singles(st.alts[len]) /\ (st.cur = <<>> \/ \E w \in Data : st.cur = <<w>>)
           => Singles(st1.alts[len])
  <2>1. Ended(st, st1) /\ Len(st.alts) # 0
    BY <1>3 DEF EndedSome
  <2> QED
    BY <1>3, <2>1, EndedFacts
<1>5. /\ Len(st2.alts) = len + 1 /\ st2.alts[len + 1] = <<>>
      /\ \A k \in 1..len : st2.alts[k] = st1.alts[k]
  <2>1. st1.alts \in Seq(Seq(Texts)) /\ Len(st1.alts) = len
    BY DEF EndedSome, Ended, States
  <2>2. <<>> \in Seq(Texts)
    BY EmptySeq
  <2> QED
    BY <2>1, <2>2, AppendProperties
<1>6. HasWords(q, p + 1, st2)
  <2> SUFFICES ASSUME NEW k \in 1..(len + 1)
               PROVE  Held(st2, k) = WordsBefore(q, k - 1, p + 1)
    BY <1>5 DEF HasWords
  <2>1. p \notin Alternative(q, k - 1)
    BY <1>2
  <2>2. WordsBefore(q, k - 1, p + 1) = WordsBefore(q, k - 1, p)
    BY <1>1, <2>1, WordsNext
  <2>3. CASE k \in 1..len
    <3>1. Held(st, k) = WordsBefore(q, k - 1, p)
      BY <2>3 DEF Made, HasWords
    <3>2. Held(st2, k) = AltWords(st2.alts[k])
      BY <1>3, <1>5, <2>3 DEF Held
    <3> QED
      BY <1>4, <1>5, <2>2, <2>3, <3>1, <3>2
  <2>4. CASE k = len + 1
    <3>1. WordsBefore(q, len, p) = {}
      BY <1>1, <1>2, <1>3, NotBegun, SMTT(30)
    <3>2. Held(st2, k) = {}
      BY <1>5, <2>4 DEF Held, AltWords, TermWords
    <3>3. k - 1 = len
      BY <1>3, <2>4
    <3> QED
      BY <2>2, <3>1, <3>2, <3>3
  <2> QED
    BY <1>3, <2>3, <2>4
<1>7. HasWritten(q, p + 1, st2)
  <2> SUFFICES ASSUME NEW k \in 1..(len + 1), WrittenBefore(q, k - 1, p + 1)
               PROVE  Filled(st2, k)
    BY <1>5 DEF HasWritten
  <2>1. p \notin Alternative(q, k - 1)
    BY <1>2
  <2>2. WrittenBefore(q, k - 1, p)
    BY <1>1, <2>1, WordsNext
  <2>3. k # len + 1
    <3>1. ~WrittenBefore(q, len, p)
      BY <1>1, <1>2, <1>3, NotBegun
    <3>2. k = len + 1 => k - 1 = len
      BY <1>3
    <3> QED
      BY <2>2, <3>1, <3>2
  <2>4. k \in 1..len
    BY <1>3, <2>3
  <2>5. Filled(st, k)
    BY <2>2, <2>4 DEF Made, HasWritten
  <2> QED
    BY <1>4, <1>5, <2>4, <2>5 DEF Filled
<1>8. HasSingles(q, p + 1, st2)
  <2> SUFFICES ASSUME NEW k \in 1..(len + 1), Plain(q, k - 1)
               PROVE  Singles(st2.alts[k]) /\ (k = len + 1 => Fresh(q, p + 1, st2))
    BY <1>5 DEF HasSingles
  <2>1. CASE k \in 1..len
    <3>1. Singles(st.alts[k]) /\ (k = len => Fresh(q, p, st))
      BY <2>1 DEF Made, HasSingles
    <3>2. Singles(st1.alts[k])
      BY <1>4, <2>1, <3>1 DEF Fresh
    <3> QED
      BY <1>3, <1>5, <2>1, <3>2
  <2>2. CASE k = len + 1
    <3>1. Singles(<<>>)
      BY DEF Singles
    <3>2. Fresh(q, p + 1, st2)
      BY DEF Fresh
    <3> QED
      BY <1>5, <2>2, <3>1, <3>2
  <2>3. k \in 1..len \/ k = len + 1
    BY <1>3
  <2> QED
    BY <2>1, <2>2, <2>3
<1>9. InQuotes(q, b, p + 1, st2)
  <2>1. ~Quoted(q, p + 1)
    BY <1>1, <1>2, QuotedNext, Characters
  <2> QED
    BY <2>1 DEF InQuotes
<1> QED
  BY <1>2, <1>3, <1>5, <1>6, <1>7, <1>8, <1>9 DEF Made

\* A plain alternative at the position it is read at.
LEMMA PlainFacts ==
  ASSUME NEW q \in Texts, NEW p \in 1..Len(q), NEW k, Plain(q, k), p \in Alternative(q, k)
  PROVE  /\ q[p] \in Data \/ q[p] = Blank
         /\ p - 1 \in Alternative(q, k) /\ q[p - 1] # Blank => q[p] = Blank
<1>1. p \in Int
  BY TextFacts
<1>2. (p - 1) + 1 = p
  BY <1>1
<1> QED
  BY <1>2 DEF Plain

LEMMA MadeNext ==
  ASSUME NEW q \in Texts, NEW b \in 1..Len(q), NEW p \in 1..b, NEW st, Made(q, b, p, st),
         NEW st2 \in States, Moved(q[p], IF p < b THEN q[p + 1] ELSE Blank, st, st2)
  PROVE  Made(q, b, p + 1, st2)
<1> DEFINE len == Len(st.alts)
           c == q[p]
           d == IF p < b THEN q[p + 1] ELSE Blank
<1>1. p \in 1..Len(q) /\ p \in Nat /\ b \in Nat
  BY TextFacts
<1>2. /\ BarsBefore(q, p) \in Nat
      /\ p \in Bars(q) <=> c = Bar /\ ~Quoted(q, p)
      /\ \A k : p \in Alternative(q, k) <=> p \notin Bars(q) /\ BarsBefore(q, p) = k
  BY <1>1, BarsFacts
<1>3. st \in States /\ len = BarsBefore(q, p) + 1 /\ len \in Nat \ {0} /\ len \in 1..len
  BY <1>2 DEF Made
<1>4. /\ Quoted(q, p + 1) <=> IF c = Quote THEN ~Quoted(q, p) ELSE Quoted(q, p)
      /\ c \in Chars
  BY <1>1, QuotedNext, TextFacts
<1>5. /\ Blank # Bar /\ Blank # Quote /\ Bar # Quote
      /\ Blank \notin Data /\ Bar \notin Data /\ Quote \notin Data
      /\ c \in Data \/ c = Blank \/ c = Bar \/ c = Quote
  BY <1>4, Characters
<1>6. InQuotes(q, b, p, st)
  BY DEF Made
<1>7. st.cur \in Texts /\ st.open \in BOOLEAN /\ st.skip \in BOOLEAN /\ st2.open \in BOOLEAN
      /\ st2.skip \in BOOLEAN
  BY <1>3 DEF States
<1>8. ASSUME Plain(q, len - 1), p \notin Bars(q)
      PROVE  /\ Singles(st.alts[len]) /\ Fresh(q, p, st) /\ ~st.open /\ ~st.skip
             /\ p \in Alternative(q, len - 1) /\ (c \in Data \/ c = Blank)
             /\ c # Blank => st.cur = <<>>
  <2>1. Singles(st.alts[len]) /\ Fresh(q, p, st)
    BY <1>3, <1>8 DEF Made, HasSingles
  <2>2. p \in Alternative(q, len - 1)
    BY <1>2, <1>3, <1>8
  <2>3. ~st.open /\ ~st.skip
    BY <1>6, <2>1 DEF Fresh, InQuotes
  <2>4. /\ c \in Data \/ c = Blank
        /\ p - 1 \in Alternative(q, len - 1) /\ q[p - 1] # Blank => c = Blank
    BY <1>1, <1>8, <2>2, PlainFacts
  <2> QED
    BY <2>1, <2>2, <2>3, <2>4 DEF Fresh
\* What a step that leaves the alternatives alone does to Held and Filled.
<1>9. ASSUME st2.alts = st.alts, st2.open = st.open,
             \/ st2.cur = st.cur /\ c \notin Data
             \/ st2.cur = Append(st.cur, c)
      PROVE  \A k \in 1..len :
               /\ Held(st2, k) = Held(st, k) \union (IF k = len THEN {c} \intersect Data ELSE {})
               /\ Filled(st, k) => Filled(st2, k)
               /\ k # len => st2.alts[k] = st.alts[k]
  <2>1. /\ TermWords(st2.cur) = TermWords(st.cur) \union ({c} \intersect Data)
        /\ st.cur # <<>> => st2.cur # <<>>
    <3>1. /\ TermWords(Append(st.cur, c)) = TermWords(st.cur) \union ({c} \intersect Data)
          /\ Append(st.cur, c) # <<>>
      BY <1>4, <1>7, WordsOfTerm
    <3>2. c \notin Data => {c} \intersect Data = {}
      OBVIOUS
    <3> HIDE DEF c
    <3> QED
      BY <1>9, <3>1, <3>2
  <2> HIDE DEF c
  <2> QED
    BY <1>9, <2>1 DEF Held, Filled
\* And a step that ends a term at a character that is no word.
<1>10. ASSUME NEW st1, Ended(st, st1), c \notin Data, st2.alts = st1.alts, st2.cur = <<>>,
              st2.open \/ st2.open = st.open \/ st1.alts[len] # <<>>
       PROVE  /\ \A k \in 1..len :
                   /\ Held(st2, k) = Held(st, k) \union (IF k = len THEN {c} \intersect Data ELSE {})
                   /\ Filled(st, k) => Filled(st2, k)
                   /\ k # len => st2.alts[k] = st.alts[k]
              /\ Len(st2.alts) = len
              /\ EndedSome(st, st1) /\ Singles(st.alts[len])
                   /\ (st.cur = <<>> \/ \E w \in Data : st.cur = <<w>>) => Singles(st2.alts[len])
  <2>1. Len(st.alts) # 0
    BY <1>3
  <2>2. /\ \A k \in 1..len : /\ Held(st1, k) = Held(st, k)
                             /\ Filled(st, k) => Filled(st1, k)
                             /\ k # len => st1.alts[k] = st.alts[k]
        /\ EndedSome(st, st1) => (Singles(st.alts[len])
             /\ (st.cur = <<>> \/ \E w \in Data : st.cur = <<w>>) => Singles(st1.alts[len]))
    BY <1>3, <1>10, <2>1, EndedFacts
  <2>3. st1.cur = <<>> /\ Len(st1.alts) = len /\ st1.open = st.open
    BY <1>10 DEF Ended
  <2>4. {c} \intersect Data = {}
    BY <1>10
  <2>5. \A k \in 1..len : Held(st2, k) = Held(st1, k) /\ (Filled(st1, k) => Filled(st2, k))
    BY <1>10, <2>3 DEF Held, Filled
  <2> HIDE DEF c, len
  <2> QED
    BY <1>10, <2>2, <2>3, <2>4, <2>5
<1> USE DEF InQuotes
<1>11. CASE st.skip /\ Kept(st, st2) /\ st2.cur = st.cur /\ ~st2.skip
  <2>1. c = Quote /\ st.open /\ ~Quoted(q, p) /\ st2.alts = st.alts /\ st2.open = st.open
    BY <1>6, <1>11 DEF Kept
  <2>2. p \notin Bars(q) /\ c \notin Data /\ ~Plain(q, len - 1)
    BY <1>2, <1>5, <1>8, <1>11, <2>1
  <2>3. InQuotes(q, b, p + 1, st2) /\ Filled(st2, len)
    BY <1>4, <1>11, <2>1 DEF Filled
  <2> QED
    BY <1>9, <1>11, <2>1, <2>2, <2>3, WithinAlternative
<1>12. CASE /\ ~st.skip /\ st.open /\ c = Quote /\ d = Quote
            /\ Kept(st, st2) /\ st2.cur = Append(st.cur, c) /\ st2.skip
  <2>1. Quoted(q, p) /\ st2.alts = st.alts /\ st2.open = st.open /\ p < b /\ q[p + 1] = Quote
    BY <1>5, <1>6, <1>12 DEF Kept
  <2>2. p \notin Bars(q) /\ ~Plain(q, len - 1)
    BY <1>2, <1>5, <1>8, <1>12, <2>1
  <2>3. InQuotes(q, b, p + 1, st2) /\ Filled(st2, len)
    BY <1>1, <1>4, <1>12, <2>1 DEF Filled
  <2> QED
    BY <1>9, <1>12, <2>1, <2>2, <2>3, WithinAlternative
<1>13. CASE /\ ~st.skip /\ st.open /\ c = Quote /\ d # Quote
            /\ \E st1 : /\ Ended(st, st1) /\ st1.alts[len] # <<>>
                        /\ st2.alts = st1.alts /\ st2.cur = <<>> /\ ~st2.open /\ ~st2.skip
  <2>1. PICK st1 : /\ Ended(st, st1) /\ st1.alts[len] # <<>>
                   /\ st2.alts = st1.alts /\ st2.cur = <<>> /\ ~st2.open /\ ~st2.skip
    BY <1>13
  <2>2. p \notin Bars(q) /\ c \notin Data /\ ~Plain(q, len - 1)
    BY <1>2, <1>5, <1>8, <1>13
  <2>3. InQuotes(q, b, p + 1, st2) /\ Filled(st2, len)
    BY <1>4, <1>6, <1>13, <2>1 DEF Filled
  <2> QED
    BY <1>10, <2>1, <2>2, <2>3, WithinAlternative
<1>14. CASE /\ ~st.skip /\ ~st.open /\ c = Quote
            /\ \E st1 : /\ EndedSome(st, st1)
                        /\ st2.alts = st1.alts /\ st2.cur = <<>> /\ st2.open /\ ~st2.skip
  <2>1. PICK st1 : /\ EndedSome(st, st1)
                   /\ st2.alts = st1.alts /\ st2.cur = <<>> /\ st2.open /\ ~st2.skip
    BY <1>14
  <2>2. p \notin Bars(q) /\ c \notin Data /\ ~Plain(q, len - 1)
    BY <1>2, <1>5, <1>8, <1>14
  <2>3. Ended(st, st1) /\ Len(st2.alts) = len
    BY <2>1 DEF EndedSome, Ended
  <2>4. InQuotes(q, b, p + 1, st2) /\ Filled(st2, len)
    BY <1>4, <1>6, <1>14, <2>1, <2>3 DEF Filled
  <2> QED
    BY <1>10, <2>1, <2>2, <2>3, <2>4, WithinAlternative
<1>15. CASE /\ ~st.skip /\ ~st.open /\ c = Bar
            /\ \E st1 : /\ EndedSome(st, st1) /\ st2.alts = Append(st1.alts, <<>>)
                        /\ st2.cur = <<>> /\ ~st2.open /\ ~st2.skip
  <2>1. p \in Bars(q)
    BY <1>2, <1>6, <1>15
  <2> QED
    BY <1>15, <2>1, NextAlternative
<1>16. CASE ~st.skip /\ ~st.open /\ c = Blank /\ EndedSome(st, st2)
  <2>1. Ended(st, st2) /\ st2.cur = <<>> /\ st2.open = st.open /\ st2.skip = st.skip
    BY <1>16 DEF EndedSome, Ended
  <2>2. p \notin Bars(q) /\ c \notin Data
    BY <1>2, <1>5, <1>16
  <2>3. InQuotes(q, b, p + 1, st2)
    BY <1>4, <1>5, <1>6, <1>16, <2>1
  <2>4. /\ \A k \in 1..len :
             /\ Held(st2, k) = Held(st, k) \union (IF k = len THEN {c} \intersect Data ELSE {})
             /\ Filled(st, k) => Filled(st2, k)
             /\ k # len => st2.alts[k] = st.alts[k]
        /\ Len(st2.alts) = len
        /\ EndedSome(st, st2) /\ Singles(st.alts[len])
             /\ (st.cur = <<>> \/ \E w \in Data : st.cur = <<w>>) => Singles(st2.alts[len])
    BY <1>10, <2>1, <2>2
  <2>5. Plain(q, len - 1) => Singles(st2.alts[len]) /\ Fresh(q, p + 1, st2)
    BY <1>8, <1>16, <2>1, <2>2, <2>4 DEF Fresh
  <2> QED
    BY <1>16, <2>2, <2>3, <2>4, <2>5, WithinAlternative
<1>17. CASE /\ ~st.skip /\ c # Quote /\ (st.open \/ c \in Data)
            /\ Kept(st, st2) /\ st2.cur = Append(st.cur, c) /\ ~st2.skip
  <2>1. st2.alts = st.alts /\ st2.open = st.open
    BY <1>17 DEF Kept
  <2>2. p \notin Bars(q)
    BY <1>2, <1>5, <1>6, <1>17
  <2>3. InQuotes(q, b, p + 1, st2)
    BY <1>4, <1>6, <1>17, <2>1
  <2>4. st2.cur # <<>>
    BY <1>4, <1>7, <1>17, WordsOfTerm
  <2>5. Filled(st2, len)
    BY <2>1, <2>4 DEF Filled
  <2>6. Plain(q, len - 1) => Singles(st2.alts[len]) /\ Fresh(q, p + 1, st2)
    <3> SUFFICES ASSUME Plain(q, len - 1)
                 PROVE  Singles(st2.alts[len]) /\ Fresh(q, p + 1, st2)
      OBVIOUS
    <3>1. /\ Singles(st.alts[len]) /\ ~st.open /\ p \in Alternative(q, len - 1)
          /\ c \in Data /\ c # Blank /\ st.cur = <<>>
      BY <1>5, <1>8, <1>17, <2>2
    <3>2. st2.cur = <<c>>
      BY <1>17, <3>1
    <3>3. (p + 1) - 1 = p
      BY <1>1
    <3>4. Fresh(q, p + 1, st2)
      BY <2>1, <3>1, <3>2, <3>3 DEF Fresh
    <3> QED
      BY <2>1, <3>1, <3>4
  <2> QED
    BY <1>9, <1>17, <2>1, <2>2, <2>3, <2>5, <2>6, WithinAlternative
<1> QED
  BY <1>11, <1>12, <1>13, <1>14, <1>15, <1>16, <1>17 DEF Moved

-----------------------------------------------------------------------------
(* build_fts_query as a whole.                                             *)

\* Read as far as the nth character.
Follows(q, g, n) ==
  /\ g[0] = Start
  /\ \A k \in 1..n : g[k] = ReadChar(q, g[k - 1], k)

LEMMA FoldExists ==
  ASSUME NEW q, NEW n \in Nat
  PROVE  \E g : Follows(q, g, n)
<1> DEFINE T == {k \in Nat : ~\E g : Follows(q, g, k)}
<1>1. ASSUME T # {} PROVE FALSE
  <2>1. PICK m \in T : \A k \in T : m <= k
    <3> HIDE DEF T
    <3> QED
      BY <1>1, Least DEF T
  <2>2. m # 0
    <3>1. Follows(q, [k \in {0} |-> Start], 0)
      BY DEF Follows
    <3> QED
      BY <3>1
  <2>3. PICK g : Follows(q, g, m - 1)
    BY <2>1, <2>2
  <2> DEFINE last == ReadChar(q, g[m - 1], m)
             h == [k \in 0..m |-> IF k = m THEN last ELSE g[k]]
  <2>4. Follows(q, h, m)
    <3>1. m \in Nat \ {0} /\ h[m] = last /\ \A k \in 0..(m - 1) : h[k] = g[k]
      BY <2>1, <2>2
    <3> HIDE DEF h
    <3>2. h[0] = Start
      BY <2>3, <3>1 DEF Follows
    <3>3. ASSUME NEW k \in 1..m
          PROVE  h[k] = ReadChar(q, h[k - 1], k)
      <4>1. CASE k = m
        BY <3>1, <4>1
      <4>2. CASE k < m
        <5>1. k \in 1..(m - 1) /\ k - 1 \in 0..(m - 1) /\ k \in 0..(m - 1)
          BY <3>1, <4>2
        <5> QED
          BY <2>3, <3>1, <5>1 DEF Follows
      <4> QED
        BY <3>1, <4>1, <4>2
    <3> QED
      BY <3>2, <3>3 DEF Follows
  <2> QED
    BY <2>1, <2>4
<1> QED
  BY <1>1

LEMMA ReadingFollows ==
  ASSUME NEW q, Len(q) \in Nat
  PROVE  Follows(q, Reading(q), Len(q))
<1> DEFINE len == Len(q)
           Is(f) == f = [n \in 0..len |-> IF n = 0 THEN Start ELSE ReadChar(q, f[n - 1], n)]
<1>1. Reading(q) = CHOOSE f : Is(f)
  BY DEF Reading
<1>2. PICK g : Follows(q, g, len)
  BY FoldExists
<1> DEFINE f == [n \in 0..len |-> g[n]]
<1>3. Is(f)
  <2>1. ASSUME NEW n \in 0..len
        PROVE  g[n] = IF n = 0 THEN Start ELSE ReadChar(q, f[n - 1], n)
    <3>1. CASE n = 0
      BY <1>2, <3>1 DEF Follows
    <3>2. CASE n # 0
      <4>1. n \in 1..len /\ n - 1 \in 0..len
        BY <2>1, <3>2
      <4> QED
        BY <1>2, <3>2, <4>1 DEF Follows
    <3> QED
      BY <3>1, <3>2
  <2> QED
    BY <2>1
<1> HIDE DEF f
<1>4. Is(Reading(q))
  <2> HIDE DEF Is
  <2> QED
    BY <1>1, <1>3
<1>5. Reading(q)[0] = Start
  BY <1>4
<1>6. ASSUME NEW k \in 1..len
      PROVE  Reading(q)[k] = ReadChar(q, Reading(q)[k - 1], k)
  <2>1. k \in 0..len /\ k # 0
    BY <1>6
  <2> QED
    BY <1>4, <2>1
<1> HIDE DEF len
<1>7. Follows(q, Reading(q), len)
  BY <1>5, <1>6 DEF Follows
<1> QED
  BY <1>7 DEF len

LEMMA StartFacts ==
  /\ Start \in States /\ Start.alts = << <<>> >> /\ Start.cur = <<>> /\ ~Start.open /\ ~Start.skip
  /\ Len(Start.alts) = 1 /\ Start.alts[1] = <<>>
<1>1. <<>> \in Texts /\ << <<>> >> \in Seq(Seq(Texts))
  BY EmptySeq DEF Texts
<1> QED
  BY <1>1 DEF Start, States

LEMMA MadeFirst ==
  ASSUME NEW q \in Texts, NEW s, NEW a, NEW b, Shown(q, s, a, b)
  PROVE  Made(q, b, a, Start)
<1>1. /\ Len(q) \in Nat /\ a \in 1..Len(q) /\ a \in Nat
      /\ \A i \in 1..Len(q) : i < a => q[i] = Blank
  BY TextFacts DEF Shown
<1>2. Blank # Bar /\ Blank # Quote /\ Blank \notin Data
  BY Characters
<1>3. BarsBefore(q, a) = 0
  <2>1. \A j \in Bars(q) : j \in 1..Len(q) /\ q[j] = Bar
    BY TextFacts DEF Bars
  <2>2. {j \in Bars(q) : j < a} = {}
    BY <1>1, <1>2, <2>1
  <2> QED
    BY <2>2, FS_EmptySet DEF BarsBefore
<1>4. ~Quoted(q, a)
  <2>1. {j \in 1..(a - 1) : q[j] = Quote} = {}
    BY <1>1, <1>2
  <2>2. Before(q, a, Quote) = 0
    BY <2>1, FS_EmptySet DEF Before
  <2> QED
    BY <2>2 DEF Quoted
<1>5. \A k : WordsBefore(q, k, a) = {} /\ ~WrittenBefore(q, k, a)
  <2>1. \A k : Alternative(q, k) \subseteq 1..Len(q)
    BY TextFacts DEF Alternative
  <2> QED
    BY <1>1, <1>2, <2>1 DEF WordsBefore, WrittenBefore
<1>6. Held(Start, 1) = {}
  BY StartFacts DEF Held, AltWords, TermWords
<1>7. HasWords(q, a, Start)
  <2>1. \A k \in 1..Len(Start.alts) : k = 1
    BY StartFacts
  <2> QED
    BY <1>5, <1>6, <2>1 DEF HasWords
<1>8. HasWritten(q, a, Start)
  BY <1>5 DEF HasWritten
<1>9. HasSingles(q, a, Start)
  BY StartFacts DEF HasSingles, Singles, Fresh
<1> QED
  BY <1>3, <1>4, <1>7, <1>8, <1>9, StartFacts DEF Made, InQuotes

LEMMA MadeHolds ==
  ASSUME NEW q \in Texts, NEW s, NEW a, NEW b, Shown(q, s, a, b)
  PROVE  /\ \A n \in 0..Len(s) : Made(q, b, a + n, Reading(s)[n])
         /\ Made(q, b, b + 1, Reading(s)[Len(s)])
<1> DEFINE len == Len(s)
           read == Reading(s)
           Right(n) == Made(q, b, a + n, read[n])
<1>1. /\ s \in Texts /\ len = b - a + 1 /\ len \in Nat \ {0} /\ Len(q) \in Nat
      /\ a \in 1..Len(q) /\ b \in 1..Len(q) /\ a <= b
      /\ \A i \in 1..len : s[i] = q[a + i - 1]
  BY TextFacts DEF Shown
<1>2. Follows(s, read, len)
  BY <1>1, ReadingFollows
<1> HIDE DEF len, read
<1>3. Right(0)
  <2>1. a + 0 = a
    BY <1>1
  <2> QED
    BY <1>2, <2>1, MadeFirst DEF Follows
<1>4. ASSUME NEW n \in 1..len, Right(n - 1)
      PROVE  Right(n)
  <2> DEFINE p == a + (n - 1)
             st == read[n - 1]
  <2>1. p \in 1..b /\ a + n = p + 1 /\ s[n] = q[p] /\ (n < len <=> p < b)
    BY <1>1
  <2>2. IF n < len THEN s[n + 1] = q[p + 1] ELSE TRUE
    BY <1>1, <2>1
  <2>3. (IF n < len THEN s[n + 1] ELSE Blank) = (IF p < b THEN q[p + 1] ELSE Blank)
    BY <2>1, <2>2
  <2>4. st \in States /\ Len(st.alts) # 0
    <3>1. st \in States /\ Len(st.alts) = BarsBefore(q, p) + 1
      BY <1>4 DEF Made
    <3>2. BarsBefore(q, p) \in Nat
      BY <1>1, <2>1, BarsFacts
    <3> QED
      BY <3>1, <3>2
  <2>5. read[n] = ReadChar(s, st, n)
    BY <1>2, <1>4 DEF Follows
  <2>6. /\ read[n] \in States
        /\ Moved(s[n], IF n < len THEN s[n + 1] ELSE Blank, st, read[n])
    BY <1>1, <2>4, <2>5, ReadMoves DEF len
  <2>7. Moved(q[p], IF p < b THEN q[p + 1] ELSE Blank, st, read[n])
    BY <2>1, <2>3, <2>6
  <2>8. Made(q, b, p, st)
    BY <1>4
  <2> HIDE DEF p, st
  <2>9. Made(q, b, p + 1, read[n])
    BY <1>1, <2>1, <2>6, <2>7, <2>8, MadeNext
  <2> QED
    BY <2>1, <2>9
<1> DEFINE T == {n \in Nat : n <= len /\ ~Right(n)}
<1>5. ASSUME T # {} PROVE FALSE
  <2>1. PICK n \in T : \A m \in T : n <= m
    <3>1. T \subseteq Nat
      OBVIOUS
    <3> HIDE DEF T
    <3> QED
      BY <1>5, <3>1, Least
  <2> HIDE DEF Right
  <2>2. n \in Nat /\ n <= len /\ ~Right(n)
    BY <2>1
  <2>3. n # 0
    BY <1>3, <2>2
  <2>4. n \in 1..len /\ n - 1 \in Nat /\ n - 1 <= len
    BY <1>1, <2>2, <2>3
  <2>5. Right(n - 1)
    BY <2>1, <2>4
  <2> QED
    BY <1>4, <2>2, <2>4, <2>5
<1>6. \A n \in 0..len : Right(n)
  <2> HIDE DEF Right
  <2> QED
    BY <1>1, <1>5
<1>7. a + len = b + 1 /\ len \in 0..len
  BY <1>1
<1>8. Made(q, b, b + 1, read[len])
  BY <1>6, <1>7
<1> QED
  BY <1>6, <1>8 DEF len, read

\* What build_fts_query makes of a query that is not cut: an error for a quote
\* that is not closed and for blanks, else an alternative for each that bars
\* outside quotes separate, with the words that are asked for there.
LEMMA QueryBuilt ==
  ASSUME NEW q \in Texts, Len(q) <= MaxQuery
  PROVE  LET alts == BuildFtsQuery(q).alts IN
         /\ BuildFtsQuery(q).err <=> Written(q) = {} \/ ~Closed(q)
         /\ ~BuildFtsQuery(q).err =>
              /\ alts \in Seq(Seq(Texts)) /\ Len(alts) = Cardinality(Bars(q)) + 1
              /\ Cardinality(Bars(q)) \in Nat
              /\ \A k \in 1..Len(alts) :
                   /\ AltWords(alts[k]) = WordsAsked(q, k - 1)
                   /\ (\E i \in Alternative(q, k - 1) : q[i] # Blank) => alts[k] # <<>>
                   /\ Plain(q, k - 1) => Singles(alts[k])
<1>1. /\ Len(q) \in Nat /\ MaxQuery \in Nat
      /\ Bars(q) \subseteq 1..Len(q) /\ \A k : Alternative(q, k) \subseteq 1..Len(q)
  BY TextFacts, SearchAssumption DEF Bars, Alternative
<1> DEFINE s == Cut(Trim(q), MaxQuery)
           st == Reading(s)[Len(s)]
           built == FlushSome(st)
<1>2. BuildFtsQuery(q) = IF s = <<>> \/ st.open THEN [err |-> TRUE, alts |-> <<>>]
                         ELSE [err |-> FALSE, alts |-> built.alts]
  BY DEF BuildFtsQuery
<1>3. CASE Written(q) = {}
  <2>1. Trim(q) = <<>>
    BY <1>3, TrimShows
  <2>2. s = <<>>
    <3>1. Len(Trim(q)) = 0
      BY <2>1
    <3>2. ~(Len(Trim(q)) > MaxQuery)
      BY <1>1, <3>1
    <3> QED
      BY <2>1, <3>2 DEF Cut
  <2>3. BuildFtsQuery(q).err
    <3> HIDE DEF s, st, built
    <3> QED
      BY <1>2, <2>2
  <2> QED
    BY <1>3, <2>3
<1>4. CASE Written(q) # {}
  <2>1. PICK a \in 1..Len(q), b \in 1..Len(q) : Shown(q, Trim(q), a, b)
    BY <1>4, TrimShows
  <2>2. Trim(q) # <<>> /\ Len(Trim(q)) <= Len(q) /\ Len(Trim(q)) \in Nat
    <3>1. Trim(q) \in Texts
      BY <2>1 DEF Shown
    <3> QED
      BY <1>4, <3>1, TrimShows, TextFacts
  <2>3. s = Trim(q)
    <3>1. ~(Len(Trim(q)) > MaxQuery)
      BY <1>1, <2>2
    <3> QED
      BY <3>1 DEF Cut
  <2>4. Made(q, b, b + 1, st)
    BY <2>1, <2>3, MadeHolds
  <2>5. /\ \A i \in 1..Len(q) : q[i] # Blank => i <= b
        /\ b \in Nat /\ b + 1 \in Nat
    BY <1>1, <2>1 DEF Shown
  <2>6. BarsBefore(q, b + 1) = Cardinality(Bars(q)) /\ Cardinality(Bars(q)) \in Nat
    <3>1. \A i \in Bars(q) : i \in 1..Len(q) /\ q[i] # Blank
      BY <1>1, Characters DEF Bars
    <3>2. {j \in Bars(q) : j < b + 1} = Bars(q)
      BY <1>1, <2>5, <3>1
    <3>3. b + 1 <= b + 1
      BY <2>5
    <3> QED
      BY <2>5, <3>2, <3>3, BarsGrow DEF BarsBefore
  <2>7. Quoted(q, b + 1) <=> ~Closed(q)
    <3>1. {j \in 1..((b + 1) - 1) : q[j] = Quote} = {j \in 1..((Len(q) + 1) - 1) : q[j] = Quote}
      BY <1>1, <2>1, <2>5, Characters
    <3>2. Before(q, b + 1, Quote) = Before(q, Len(q) + 1, Quote)
      BY <3>1 DEF Before
    <3>3. Before(q, Len(q) + 1, Quote) \in Nat
      <4>1. IsFiniteSet(1..((Len(q) + 1) - 1))
        BY <1>1, FS_Interval
      <4>2. IsFiniteSet({j \in 1..((Len(q) + 1) - 1) : q[j] = Quote})
        BY <4>1, FS_Subset
      <4> QED
        BY <4>2, FS_CardinalityType DEF Before
    <3> QED
      BY <3>2, <3>3, Parity DEF Quoted, Closed
  <2>8. \A k : /\ WordsBefore(q, k, b + 1) = WordsAsked(q, k)
               /\ (\E i \in Alternative(q, k) : q[i] # Blank) => WrittenBefore(q, k, b + 1)
    <3> SUFFICES ASSUME NEW k
                 PROVE  /\ WordsBefore(q, k, b + 1) = WordsAsked(q, k)
                        /\ (\E i \in Alternative(q, k) : q[i] # Blank) => WrittenBefore(q, k, b + 1)
      OBVIOUS
    <3>1. \A i \in Alternative(q, k) : q[i] # Blank => i < b + 1
      BY <1>1, <2>5
    <3>2. \A i \in Alternative(q, k) : q[i] \in Data => i < b + 1
      BY <3>1, Characters
    <3>3. WordsBefore(q, k, b + 1) = WordsAsked(q, k)
      BY <3>2 DEF WordsBefore, WordsAsked
    <3> QED
      BY <3>1, <3>3 DEF WrittenBefore
  <2> HIDE DEF st, s
  <2>9. st \in States /\ Len(st.alts) = Cardinality(Bars(q)) + 1 /\ Len(st.alts) # 0
    BY <2>4, <2>6 DEF Made
  <2>10. st.open <=> ~Closed(q)
    BY <2>4, <2>5, <2>7 DEF Made, InQuotes
  <2>11. BuildFtsQuery(q).err <=> ~Closed(q)
    BY <1>2, <2>2, <2>3, <2>10
  <2>12. ASSUME Closed(q)
         PROVE  /\ built.alts \in Seq(Seq(Texts)) /\ Len(built.alts) = Len(st.alts)
                /\ \A k \in 1..Len(st.alts) :
                     /\ AltWords(built.alts[k]) = WordsAsked(q, k - 1)
                     /\ (\E i \in Alternative(q, k - 1) : q[i] # Blank) => built.alts[k] # <<>>
                     /\ Plain(q, k - 1) => Singles(built.alts[k])
    <3>1. EndedSome(st, built) /\ Ended(st, built)
      BY <2>9, FlushFacts DEF EndedSome
    <3>2. built.alts \in Seq(Seq(Texts)) /\ Len(built.alts) = Len(st.alts)
      BY <3>1 DEF Ended, States
    <3> HIDE DEF built
    <3>3. ASSUME NEW k \in 1..Len(st.alts)
          PROVE  /\ AltWords(built.alts[k]) = WordsAsked(q, k - 1)
                 /\ (\E i \in Alternative(q, k - 1) : q[i] # Blank) => built.alts[k] # <<>>
                 /\ Plain(q, k - 1) => Singles(built.alts[k])
      <4>1. /\ Held(st, k) = WordsBefore(q, k - 1, b + 1)
            /\ WrittenBefore(q, k - 1, b + 1) => Filled(st, k)
            /\ Plain(q, k - 1) =>
                 Singles(st.alts[k]) /\ (k = Len(st.alts) => Fresh(q, b + 1, st))
        BY <2>4 DEF Made, HasWords, HasWritten, HasSingles
      <4>2. /\ AltWords(built.alts[k]) = Held(st, k)
            /\ Filled(st, k) => built.alts[k] # <<>>
            /\ k # Len(st.alts) => built.alts[k] = st.alts[k]
            /\ Singles(st.alts[Len(st.alts)]) /\ (st.cur = <<>> \/ \E w \in Data : st.cur = <<w>>)
                 => Singles(built.alts[Len(st.alts)])
        <5>1. ~st.open
          BY <2>10, <2>12
        <5> QED
          BY <2>9, <3>1, <5>1, EndedFacts
      <4>3. Plain(q, k - 1) => Singles(built.alts[k])
        BY <4>1, <4>2 DEF Fresh
      <4> QED
        BY <2>8, <4>1, <4>2, <4>3
    <3> QED
      BY <3>2, <3>3
  <2> HIDE DEF built
  <2>13. Closed(q) => BuildFtsQuery(q).alts = built.alts
    BY <1>2, <2>2, <2>3, <2>10
  <2> QED
    BY <1>4, <2>6, <2>9, <2>11, <2>12, <2>13
<1> QED
  BY <1>3, <1>4

-----------------------------------------------------------------------------
(* Searches.                                                               *)

LEMMA TypedTexts ==
  ASSUME NEW q \in Typed
  PROVE  q \in Texts
<1>1. CASE q \in Phrases
  <2>1. Chars = Data \union {"blank", "bar", "quote"}
    BY DEF Chars, Blank, Bar, Quote
  <2> QED
    BY <1>1, <2>1, SearchAssumption DEF Texts
<1>2. CASE \E n \in 0..MaxTyped : q \in [1..n -> Chars]
  <2>1. PICK n \in Nat : q \in [1..n -> Chars]
    BY <1>2, SearchAssumption
  <2>2. [1..n -> Chars] \in {[1..m -> Chars] : m \in Nat}
    BY Zenon
  <2>3. Texts = UNION {[1..m -> Chars] : m \in Nat}
    BY SeqDef, Zenon DEF Texts
  <2>4. \A S, T : S \in T => \A x \in S : x \in UNION T
    OBVIOUS
  <2>5. q \in UNION {[1..m -> Chars] : m \in Nat}
    BY <2>1, <2>2, <2>4, Zenon
  <2>6. UNION {[1..m -> Chars] : m \in Nat} \subseteq Texts
    BY <2>3, Zenon
  <2> HIDE DEF Texts
  <2> QED
    BY <2>5, <2>6, Zenon
<1>3. q \in (UNION {[1..n -> Chars] : n \in 0..MaxTyped}) \/ q \in Phrases
  BY Zenon DEF Typed
<1>4. q \in UNION {[1..n -> Chars] : n \in 0..MaxTyped}
        => \E n \in 0..MaxTyped : q \in [1..n -> Chars]
  BY Zenon
<1> QED
  BY <1>1, <1>2, <1>3, <1>4, Zenon

LEMMA IdsOfSorted ==
  ASSUME TypeOK, NEW ids \in SUBSET Used, NEW sort, NEW desc \in BOOLEAN, NEW answer,
         answer.ids = Sorted(ids, sort, desc)
  PROVE  IdsOf(answer) = ids
<1> DEFINE list == Sorted(ids, sort, desc)
           place(i) == Place(i, ids, sort, desc)
<1>1. /\ list \in Seq(ids) /\ Len(list) = Cardinality(ids)
      /\ \A i \in ids : place(i) \in 1..Cardinality(ids) /\ list[place(i)] = i
  BY SortedFacts
<1>2. IdsOf(answer) = {list[k] : k \in DOMAIN list}
  BY DEF IdsOf
<1> HIDE DEF list, place
<1>3. DOMAIN list = 1..Cardinality(ids) /\ \A k \in 1..Cardinality(ids) : list[k] \in ids
  BY <1>1, LenProperties, ElementOfSeq
<1> QED
  BY <1>1, <1>2, <1>3

\* What search_fts finds are hits of the asked type, and all of them if they
\* are not more than the limit.
LEMMA FtsFacts ==
  ASSUME TypeOK, NEW r, NEW alts, NEW words, NEW n \in Nat, r.order # "asc"
  PROVE  LET hits == {i \in Used : Matches(alts, postings[i], words)} IN
         /\ IdsOf(FtsSearch(r, alts, words, n)) \subseteq hits
         /\ n >= Cardinality(hits)
              => IdsOf(FtsSearch(r, alts, words, n)) = hits \intersect OfType(r.type)
         /\ n >= maxItems
              => IdsOf(FtsSearch(r, alts, words, n)) = hits \intersect OfType(r.type)
<1> DEFINE hits == {i \in Used : Matches(alts, postings[i], words)}
           page == Page(hits, r.sort, TRUE, n)
           rows == {page[k] : k \in DOMAIN page}
           ids == rows \intersect OfType(r.type)
           answer == FtsSearch(r, alts, words, n)
           place(i) == Place(i, hits, r.sort, TRUE)
<1>1. (r.order # "asc") = TRUE
  OBVIOUS
<1> DEFINE list == Sorted(ids, r.sort, TRUE)
<1>2. answer = Found(list, -1)
  BY <1>1, Zenon DEF FtsSearch
<1>3. answer.ids = list
  <2> HIDE DEF list, answer
  <2> QED
    BY <1>2, FoundFacts
<1>4. hits \in SUBSET Used
  OBVIOUS
<1> HIDE DEF hits
<1>5. /\ page \in Seq(hits)
      /\ \A i \in hits : place(i) <= n => place(i) \in DOMAIN page /\ page[place(i)] = i
  BY <1>4, PageFacts
<1>6. \A i \in hits : place(i) \in 1..Cardinality(hits)
  BY <1>4, PlaceRange
<1>7. Cardinality(hits) \in Nat /\ Cardinality(hits) <= maxItems /\ maxItems \in Nat
  <2>1. maxItems \in Nat
    BY SlotsAssumption DEF TypeOK
  <2>2. Cardinality(hits) \in Nat /\ Cardinality(hits) <= Cardinality(Used)
        /\ Cardinality(Used) <= maxItems
    BY <1>4, FiniteRows
  <2>3. Cardinality(Used) \in Nat
    BY UsedFinite
  <2> QED
    BY <2>1, <2>2, <2>3
<1> HIDE DEF page, place
<1>8. rows \subseteq hits
  <2>1. DOMAIN page = 1..Len(page) /\ \A k \in 1..Len(page) : page[k] \in hits
    BY <1>5, LenProperties, ElementOfSeq
  <2> QED
    BY <2>1
<1>9. n >= Cardinality(hits) => rows = hits
  <2>1. n >= Cardinality(hits) => \A i \in hits : place(i) <= n
    BY <1>6, <1>7
  <2> QED
    BY <1>5, <1>8, <2>1
<1> HIDE DEF rows
<1>10. ids \in SUBSET Used
  BY <1>4, <1>8
<1> HIDE DEF ids, answer
<1>11. IdsOf(answer) = ids
  BY <1>3, <1>10, IdsOfSorted
<1>12. /\ IdsOf(answer) \subseteq hits
       /\ n >= Cardinality(hits) => IdsOf(answer) = hits \intersect OfType(r.type)
       /\ n >= maxItems => n >= Cardinality(hits)
  BY <1>7, <1>8, <1>9, <1>11 DEF ids
<1> QED
  BY <1>12 DEF answer, hits

\* What a search for q is answered.
LEMMA SearchAnswer ==
  ASSUME NEW r, r.q \in Typed, r.q # <<>>, ~BadSort(r), ~BadOrder(r)
  PROVE  /\ BuildFtsQuery(r.q).err => Search(r).error # "none" /\ IdsOf(Search(r)) = {}
         /\ ~BuildFtsQuery(r.q).err =>
              /\ Search(r) = FtsSearch(r, BuildFtsQuery(r.q).alts, Same, Limit(r.limit, maxItems))
              /\ Search(r).error = "none"
<1>1. Default(FALSE) = maxItems /\ Query[r.q] = BuildFtsQuery(r.q)
  BY DEF Default, Query
<1>2. ASSUME BuildFtsQuery(r.q).err
      PROVE  Search(r).error # "none" /\ IdsOf(Search(r)) = {}
  <2>1. Search(r) = Refused("invalid_query")
    BY <1>1, <1>2 DEF Search
  <2>2. /\ Refused("invalid_query").error = "invalid_query"
        /\ Refused("invalid_query").ids = <<>>
    BY DEF Refused
  <2> QED
    BY <2>1, <2>2 DEF IdsOf
<1>3. ASSUME ~BuildFtsQuery(r.q).err
      PROVE  /\ Search(r) = FtsSearch(r, BuildFtsQuery(r.q).alts, Same, Limit(r.limit, maxItems))
             /\ Search(r).error = "none"
  <2>1. Search(r) = FtsSearch(r, BuildFtsQuery(r.q).alts, Same, Limit(r.limit, maxItems))
    BY <1>1, <1>3 DEF Search
  <2>2. \A alts, words, n : FtsSearch(r, alts, words, n).error = "none"
    BY FoundFacts DEF FtsSearch
  <2> QED
    BY <2>1, <2>2
<1> QED
  BY <1>2, <1>3

\* The words a term matches, and the rows of one word.
LEMMA TermFound ==
  ASSUME NEW term \in Texts, NEW words, TermMatches(term, words, Same)
  PROVE  TermWords(term) \subseteq words /\ TermWords(term) # {}
<1>1. PICK i \in DOMAIN term : /\ {j \in DOMAIN term : term[j] \in Data} = {i}
                               /\ words \intersect Same[term[i]] # {}
  BY DEF TermMatches
<1>2. term[i] \in Data
  BY <1>1
<1>3. Same[term[i]] = {term[i]}
  BY <1>2 DEF Same
<1>4. TermWords(term) = {term[i]}
  BY <1>1, <1>2 DEF TermWords
<1> QED
  BY <1>1, <1>3, <1>4

LEMMA WordTerm ==
  ASSUME NEW w \in Data
  PROVE  /\ <<w>> \in Texts /\ TermWords(<<w>>) = {w}
         /\ \A words, prefix : w \in words /\ w \in prefix[w] => TermMatches(<<w>>, words, prefix)
<1>1. w \in Chars
  BY Characters
<1>2. DOMAIN <<w>> = {1} /\ <<w>>[1] = w /\ <<w>> \in Texts
  BY <1>1 DEF Texts
<1>3. TermWords(<<w>>) = {w}
  BY <1>2 DEF TermWords
<1>4. ASSUME NEW words, NEW prefix, w \in words, w \in prefix[w]
      PROVE  TermMatches(<<w>>, words, prefix)
  <2>1. {j \in DOMAIN <<w>> : <<w>>[j] \in Data} = {1}
    BY <1>2
  <2>2. words \intersect prefix[<<w>>[1]] # {}
    BY <1>2, <1>4
  <2> QED
    BY <1>2, <2>1, <2>2 DEF TermMatches
<1> QED
  BY <1>2, <1>3, <1>4

\* What one alternative needs to match, and what it has if it matches.
LEMMA SinglesMatch ==
  ASSUME NEW alt \in Seq(Texts), Singles(alt), NEW words, NEW prefix,
         \A w \in AltWords(alt) : w \in words /\ w \in prefix[w]
  PROVE  \A t \in DOMAIN alt : TermMatches(alt[t], words, prefix)
<1> SUFFICES ASSUME NEW t \in DOMAIN alt
             PROVE  TermMatches(alt[t], words, prefix)
  OBVIOUS
<1>1. PICK w \in Data : alt[t] = <<w>>
  BY DEF Singles
<1>2. w \in AltWords(alt)
  <2>1. w \in TermWords(alt[t])
    BY <1>1, WordTerm
  <2> QED
    BY <2>1 DEF AltWords
<1>3. w \in words /\ w \in prefix[w]
  BY <1>2
<1>4. TermMatches(<<w>>, words, prefix)
  BY <1>3, WordTerm
<1> QED
  BY <1>1, <1>4

LEMMA MatchHas ==
  ASSUME NEW alt \in Seq(Texts), alt # <<>>, NEW words,
         \A t \in DOMAIN alt : TermMatches(alt[t], words, Same)
  PROVE  AltWords(alt) \subseteq words /\ AltWords(alt) # {}
<1>1. DOMAIN alt = 1..Len(alt) /\ \A t \in 1..Len(alt) : alt[t] \in Texts
  BY LenProperties, ElementOfSeq
<1>2. 1 \in 1..Len(alt)
  <2>1. Len(alt) \in Nat /\ Len(alt) # 0
    BY EmptySeq
  <2> QED
    BY <2>1
<1>3. \A t \in DOMAIN alt : TermWords(alt[t]) \subseteq words /\ TermWords(alt[t]) # {}
  BY <1>1, TermFound
<1>4. AltWords(alt) \subseteq words
  BY <1>3 DEF AltWords
<1>5. PICK w : w \in TermWords(alt[1])
  BY <1>1, <1>2, <1>3
<1>6. w \in AltWords(alt)
  BY <1>1, <1>2, <1>5 DEF AltWords
<1> QED
  BY <1>4, <1>6

\* What a search for q is answered with the limit that holds every record.
LEMMA SearchFinds ==
  ASSUME TypeOK, NEW r, r.q \in Typed, r.q # <<>>, ~BadSort(r), ~BadOrder(r),
         r.order # "asc", r.limit = 0, ~BuildFtsQuery(r.q).err
  PROVE  IdsOf(Search(r)) = {i \in Used : Matches(BuildFtsQuery(r.q).alts, postings[i], Same)}
                              \intersect OfType(r.type)
<1> DEFINE n == Limit(r.limit, maxItems)
           alts == BuildFtsQuery(r.q).alts
<1>1. maxItems \in Nat
  BY SlotsAssumption DEF TypeOK
<1>2. n \in Nat /\ n >= maxItems
  <2>1. r.limit \in Int /\ maxItems \in Int
    BY <1>1
  <2>2. n \in 1..maxItems /\ (n < maxItems => n = 0)
    BY <1>1, <2>1, LimitFacts
  <2> HIDE DEF n
  <2> QED
    BY <1>1, <2>2
<1>3. Search(r) = FtsSearch(r, alts, Same, n)
  BY SearchAnswer
<1> HIDE DEF n, alts
<1>4. IdsOf(FtsSearch(r, alts, Same, n)) =
        {i \in Used : Matches(alts, postings[i], Same)} \intersect OfType(r.type)
  BY <1>2, FtsFacts
<1> QED
  BY <1>3, <1>4 DEF alts

LEMMA AskedFound ==
  ASSUME TypeOK, IndexInv, NEW r, r.q \in Typed, ~BadSort(r), ~BadOrder(r), r.order # "asc",
         r.limit = 0, NEW i \in Used, slots[i].data \in AskedAlone[r.q], i \in OfType(r.type)
  PROVE  i \in IdsOf(Search(r))
<1> DEFINE q == r.q
           w == slots[i].data
           alts == BuildFtsQuery(q).alts
<1>1. /\ w \in Data /\ WellFormed(q) /\ Len(q) <= MaxQuery
      /\ \E k \in Alternatives(q) : Plain(q, k) /\ WordsAsked(q, k) = {w}
  BY DEF AskedAlone
<1>2. q \in Texts
  BY TypedTexts
<1>3. w \in postings[i]
  BY DEF IndexInv, NoMissedHit, Hits
<1> HIDE DEF q, w
<1>4. PICK k \in Alternatives(q) : Plain(q, k) /\ WordsAsked(q, k) = {w}
  BY <1>1
<1>5. /\ Closed(q)
      /\ \A m \in Alternatives(q) : \E p \in Alternative(q, m) : q[p] # Blank
  BY <1>1 DEF WellFormed
<1>6. q # <<>> /\ Written(q) # {}
  <2>1. PICK p \in Alternative(q, k) : q[p] # Blank
    BY <1>5
  <2>2. p \in Positions(q)
    BY DEF Alternative
  <2>3. p \in Written(q)
    BY <2>1, <2>2 DEF Written
  <2>4. p \in 1..Len(q)
    BY <1>2, <2>2, TextFacts
  <2>5. q # <<>>
    <3>1. Len(<<>>) = 0
      OBVIOUS
    <3> QED
      BY <2>4, <3>1
  <2> QED
    BY <2>3, <2>5
<1>7. /\ ~BuildFtsQuery(q).err
      /\ alts \in Seq(Seq(Texts)) /\ Len(alts) = Cardinality(Bars(q)) + 1
      /\ Cardinality(Bars(q)) \in Nat
      /\ \A m \in 1..Len(alts) :
           /\ AltWords(alts[m]) = WordsAsked(q, m - 1)
           /\ (\E p \in Alternative(q, m - 1) : q[p] # Blank) => alts[m] # <<>>
           /\ Plain(q, m - 1) => Singles(alts[m])
  BY <1>1, <1>2, <1>5, <1>6, QueryBuilt
<1> HIDE DEF alts
<1>8. DOMAIN alts = 1..Len(alts) /\ \A m \in 1..Len(alts) : alts[m] \in Seq(Texts)
  BY <1>7, LenProperties, ElementOfSeq
<1>9. ~SyntaxError(alts)
  <2>1. \A m \in 1..Len(alts) : m - 1 \in Alternatives(q)
    BY <1>7 DEF Alternatives
  <2> QED
    BY <1>5, <1>7, <1>8, <2>1 DEF SyntaxError
<1>10. k + 1 \in 1..Len(alts) /\ (k + 1) - 1 = k
  BY <1>7 DEF Alternatives
<1>11. AltWords(alts[k + 1]) = {w} /\ Singles(alts[k + 1])
  BY <1>4, <1>7, <1>10
<1>12. \A t \in DOMAIN alts[k + 1] : TermMatches(alts[k + 1][t], postings[i], Same)
  <2>1. \A v \in AltWords(alts[k + 1]) : v \in postings[i] /\ v \in Same[v]
    BY <1>1, <1>3, <1>11 DEF Same
  <2> QED
    BY <1>8, <1>10, <1>11, <2>1, SinglesMatch
<1>13. Matches(alts, postings[i], Same)
  BY <1>8, <1>9, <1>10, <1>12 DEF Matches
<1>14. IdsOf(Search(r)) = {j \in Used : Matches(alts, postings[j], Same)} \intersect OfType(r.type)
  <2>1. q \in Typed /\ q # <<>> /\ ~BuildFtsQuery(q).err
    BY <1>6, <1>7 DEF q
  <2> QED
    BY <2>1, SearchFinds DEF q, alts
<1> QED
  BY <1>13, <1>14

LEMMA AskedHolds ==
  ASSUME TypeOK, IndexInv
  PROVE  AskedIsFound
<1> SUFFICES ASSUME NEW q \in Typed, NEW i \in Used, slots[i].data \in AskedAlone[q]
             PROVE  /\ i \in IdsOf(Search(Plainly(q)))
                    /\ i \in IdsOf(Search([Plainly(q) EXCEPT !.type = IF IsFile(i) THEN "file" ELSE "text"]))
  BY Zenon DEF AskedIsFound
<1> DEFINE type == IF IsFile(i) THEN "file" ELSE "text"
           r1 == Plainly(q)
           r2 == [Plainly(q) EXCEPT !.type = type]
<1>1. r1.q = q /\ r1.limit = 0 /\ r1.type = "" /\ r1.sort = "" /\ r1.order = ""
  BY Zenon DEF Plainly
<1>4. i \in OfType(type)
  BY DEF OfType
<1> HIDE DEF type
<1>5. r2.q = q /\ r2.limit = 0 /\ r2.type = type /\ r2.sort = "" /\ r2.order = ""
  BY Zenon DEF Plainly
<1> HIDE DEF r1, r2
<1>6. ~BadSort(r1) /\ ~BadOrder(r1) /\ r1.order # "asc" /\ i \in OfType(r1.type)
  <2>1. OfType("") = Used
    BY TypesSplit
  <2>2. OfType(r1.type) = Used
    BY <1>1, <2>1
  <2> QED
    BY <1>1, <2>2 DEF BadSort, BadOrder
<1>7. ~BadSort(r2) /\ ~BadOrder(r2) /\ r2.order # "asc" /\ i \in OfType(r2.type)
  BY <1>4, <1>5 DEF BadSort, BadOrder
<1>8. slots[i].data \in AskedAlone[r1.q] /\ slots[i].data \in AskedAlone[r2.q]
  BY <1>1, <1>5
<1>9. i \in IdsOf(Search(r1))
  BY <1>1, <1>6, <1>8, AskedFound
<1>10. i \in IdsOf(Search(r2))
  BY <1>5, <1>7, <1>8, AskedFound
<1> QED
  BY <1>9, <1>10 DEF r1, r2, type

LEMMA OnlyAsked ==
  ASSUME TypeOK, NEW r, r.q \in Typed, r.q # <<>>, Len(r.q) <= MaxQuery,
         ~BadSort(r), ~BadOrder(r), r.order # "asc", r.limit = 0
  PROVE  /\ Status(Search(r)) = 400 <=> r.q \in Unusable
         /\ \A i \in IdsOf(Search(r)) : \E asked \in AskedTogether[r.q] : asked \subseteq postings[i]
<1> DEFINE q == r.q
           alts == BuildFtsQuery(q).alts
<1>1. q \in Texts
  BY TypedTexts
<1>2. BuildFtsQuery(q).err <=> q \in Unusable
  <2>1. Written(q) = {} <=> \A i \in Positions(q) : q[i] = Blank
    BY DEF Written
  <2> QED
    BY <1>1, <2>1, QueryBuilt DEF Unusable
<1>3. Status(Search(r)) = 400 <=> BuildFtsQuery(q).err
  BY SearchAnswer DEF Status
<1>4. BuildFtsQuery(q).err => IdsOf(Search(r)) = {}
  BY SearchAnswer
<1>5. ASSUME ~BuildFtsQuery(q).err, NEW i \in IdsOf(Search(r))
      PROVE  \E asked \in AskedTogether[q] : asked \subseteq postings[i]
  <2>1. IdsOf(Search(r)) = {j \in Used : Matches(alts, postings[j], Same)} \intersect OfType(r.type)
    BY <1>5, SearchFinds
  <2>2. Matches(alts, postings[i], Same)
    BY <1>5, <2>1
  <2>3. /\ alts \in Seq(Seq(Texts)) /\ Len(alts) = Cardinality(Bars(q)) + 1
        /\ Cardinality(Bars(q)) \in Nat
        /\ \A m \in 1..Len(alts) : AltWords(alts[m]) = WordsAsked(q, m - 1)
    BY <1>1, <1>5, QueryBuilt
  <2> HIDE DEF alts
  <2>4. DOMAIN alts = 1..Len(alts) /\ \A m \in 1..Len(alts) : alts[m] \in Seq(Texts)
    BY <2>3, LenProperties, ElementOfSeq
  <2>5. PICK m \in 1..Len(alts) : /\ alts[m] # <<>>
                                  /\ \A t \in DOMAIN alts[m] : TermMatches(alts[m][t], postings[i], Same)
    BY <2>2, <2>4 DEF Matches, SyntaxError
  <2>6. AltWords(alts[m]) \subseteq postings[i] /\ AltWords(alts[m]) # {}
    BY <2>4, <2>5, MatchHas
  <2>7. m - 1 \in Alternatives(q)
    BY <2>3 DEF Alternatives
  <2>8. AskedTogether[q] = {WordsAsked(q, k) : k \in Alternatives(q)} \ {{}}
    BY DEF AskedTogether
  <2>9. WordsAsked(q, m - 1) \in AskedTogether[q]
    BY <2>3, <2>6, <2>7, <2>8
  <2> QED
    BY <2>3, <2>6, <2>9
<1> QED
  BY <1>2, <1>3, <1>4, <1>5

LEMMA OnlyAskedHolds ==
  ASSUME TypeOK
  PROVE  FoundWasAsked
<1> SUFFICES ASSUME NEW q \in Typed, q # <<>>, Len(q) <= MaxQuery
             PROVE  LET answer == Search(Plainly(q)) IN
                    /\ Status(answer) = 400 <=> q \in Unusable
                    /\ \A i \in IdsOf(answer) : \E asked \in AskedTogether[q] : asked \subseteq postings[i]
  BY DEF FoundWasAsked
<1> DEFINE r == Plainly(q)
<1>1. r.q = q /\ r.limit = 0 /\ r.type = "" /\ r.sort = "" /\ r.order = ""
  BY Zenon DEF Plainly
<1> HIDE DEF r
<1>2. ~BadSort(r) /\ ~BadOrder(r) /\ r.order # "asc"
  BY <1>1 DEF BadSort, BadOrder
<1>3. r.q \in Typed /\ r.q # <<>> /\ Len(r.q) <= MaxQuery
  BY <1>1, Zenon
<1>4. Status(Search(r)) = 400 <=> r.q \in Unusable
  BY <1>1, <1>2, <1>3, OnlyAsked, Zenon
<1>5. \A i \in IdsOf(Search(r)) : \E asked \in AskedTogether[r.q] : asked \subseteq postings[i]
  <2>1. r.limit = 0
    BY <1>1
  <2> QED
    BY <1>2, <1>3, <2>1, OnlyAsked
<1>6. Status(Search(r)) = 400 <=> q \in Unusable
  BY <1>1, <1>4, Zenon
<1>7. AskedTogether[r.q] = AskedTogether[q]
  BY <1>1, Zenon
<1>8. \A i \in IdsOf(Search(r)) : \E asked \in AskedTogether[q] : asked \subseteq postings[i]
  BY <1>5, <1>7, Zenon
<1> QED
  BY <1>6, <1>8, Zenon DEF r

-----------------------------------------------------------------------------
(* Live searches.                                                          *)

\* A query of words between blanks, without bars and quotes.
LEMMA PlainQuery ==
  ASSUME NEW q \in Texts, Bars(q) = {}, Plain(q, 0)
  PROVE  /\ \A i \in 1..Len(q) : q[i] \in Data \/ q[i] = Blank
         /\ \A p \in 1..(Len(q) + 1) : ~Quoted(q, p)
         /\ Closed(q) /\ Written(q) # {}
<1>1. Len(q) \in Nat /\ Positions(q) = 1..Len(q)
  BY TextFacts
<1>2. Alternative(q, 0) = 1..Len(q)
  <2>1. \A i : {j \in Bars(q) : j < i} = {}
    OBVIOUS
  <2>2. \A i : Cardinality({j \in Bars(q) : j < i}) = 0
    BY <2>1, FS_EmptySet
  <2> QED
    BY <1>1, <2>2 DEF Alternative
<1>3. \A i \in 1..Len(q) : q[i] \in Data \/ q[i] = Blank
  BY <1>2 DEF Plain
<1>4. ASSUME NEW p \in 1..(Len(q) + 1)
      PROVE  Before(q, p, Quote) = 0
  <2>1. \A j \in 1..(p - 1) : j \in 1..Len(q)
    BY <1>1
  <2>2. {j \in 1..(p - 1) : q[j] = Quote} = {}
    BY <1>3, <2>1, Characters
  <2> QED
    BY <2>2, FS_EmptySet DEF Before
<1>5. Len(q) + 1 \in 1..(Len(q) + 1)
  BY <1>1
<1>6. Closed(q)
  BY <1>4, <1>5 DEF Closed
<1>7. Written(q) # {}
  <2>1. PICK i \in 1..Len(q) : q[i] \in Data
    BY <1>2 DEF Plain, WordsAsked
  <2> QED
    BY <1>1, <2>1, Characters DEF Written
<1> QED
  BY <1>3, <1>4, <1>6, <1>7 DEF Quoted

\* Such a query is read the same way when it is live.
LEMMA ReadPlain ==
  ASSUME NEW q \in Texts, Bars(q) = {}, Plain(q, 0), NEW s, NEW a, NEW b, Shown(q, s, a, b)
  PROVE  LiveReading(s)[Len(s)] = Reading(s)[Len(s)]
<1> DEFINE len == Len(s)
           read == Reading(s)
           live == LiveReading(s)
           Move(st, n) == IF s[n] = Blank THEN FlushSome(st)
                          ELSE [st EXCEPT !.cur = Append(@, s[n])]
           Is(f) == f = [n \in 0..len |-> IF n = 0 THEN Start
                                         ELSE IF s[n] = Blank THEN FlushSome(f[n - 1])
                                         ELSE [f[n - 1] EXCEPT !.cur = Append(@, s[n])]]
<1>1. /\ s \in Texts /\ len = b - a + 1 /\ len \in Nat \ {0} /\ Len(q) \in Nat
      /\ a \in 1..Len(q) /\ b \in 1..Len(q) /\ a <= b
      /\ \A i \in 1..len : s[i] = q[a + i - 1]
  BY TextFacts DEF Shown
<1>2. live = CHOOSE f : Is(f)
  BY DEF LiveReading
<1>3. Follows(s, read, len)
  BY <1>1, ReadingFollows
<1>4. \A n \in 1..len : s[n] \in Data \/ s[n] = Blank
  <2>1. \A n \in 1..len : a + n - 1 \in 1..Len(q)
    BY <1>1
  <2> QED
    BY <1>1, <2>1, PlainQuery
<1>5. ASSUME NEW n \in 1..len
      PROVE  read[n] = Move(read[n - 1], n)
  <2> DEFINE st == read[n - 1]
             p == a + (n - 1)
  <2>1. n - 1 \in 0..len /\ p \in 1..Len(q) /\ p \in 1..(Len(q) + 1)
    BY <1>1
  <2>2. Made(q, b, p, st)
    BY <2>1, MadeHolds DEF len, read
  <2> HIDE DEF st, p
  <2>3. ~st.open /\ ~st.skip /\ st \in States
    <3>1. ~Quoted(q, p)
      BY <2>1, PlainQuery
    <3>2. q[p] # Quote
      BY <2>1, PlainQuery, Characters
    <3> QED
      BY <2>2, <3>1, <3>2 DEF Made, InQuotes
  <2>4. read[n] = ReadChar(s, st, n)
    BY <1>3, <1>5 DEF Follows, st
  <2>5. s[n] # Quote /\ s[n] # Bar
    BY <1>4, <1>5, Characters
  <2>6. ReadChar(s, st, n) = Move(st, n)
    BY <2>3, <2>5 DEF ReadChar
  <2> QED
    BY <2>4, <2>6 DEF st
<1> HIDE DEF len, read, live
<1> DEFINE f == [n \in 0..len |-> read[n]]
<1>6. Is(f)
  <2>1. ASSUME NEW n \in 0..len
        PROVE  read[n] = IF n = 0 THEN Start
                         ELSE IF s[n] = Blank THEN FlushSome(f[n - 1])
                         ELSE [f[n - 1] EXCEPT !.cur = Append(@, s[n])]
    <3>1. CASE n = 0
      BY <1>3, <3>1 DEF Follows
    <3>2. CASE n # 0
      <4>1. n \in 1..len /\ n - 1 \in 0..len
        BY <1>1, <2>1, <3>2
      <4>2. f[n - 1] = read[n - 1]
        BY <4>1
      <4> HIDE DEF f
      <4> QED
        BY <1>5, <3>2, <4>1, <4>2
    <3> QED
      BY <3>1, <3>2
  <2> QED
    BY <2>1
<1> HIDE DEF f
<1>7. Is(live)
  <2> HIDE DEF Is
  <2> QED
    BY <1>2, <1>6
<1>8. \A n \in 0..len : live[n] = IF n = 0 THEN Start ELSE Move(live[n - 1], n)
  BY <1>7, Zenon
<1> HIDE DEF Is
<1> DEFINE T == {n \in Nat : n <= len /\ live[n] # read[n]}
<1>9. ASSUME T # {} PROVE FALSE
  <2>1. PICK n \in T : \A m \in T : n <= m
    <3>1. T \subseteq Nat
      OBVIOUS
    <3> HIDE DEF T
    <3> QED
      BY <1>9, <3>1, Least
  <2>2. n \in Nat /\ n <= len /\ live[n] # read[n]
    BY <2>1
  <2>3. n # 0
    <3>1. 0 \in 0..len /\ read[0] = Start
      BY <1>1, <1>3 DEF Follows
    <3>2. live[0] = Start
      BY <1>8, <3>1
    <3> QED
      BY <2>2, <3>1, <3>2
  <2>4. n \in 1..len /\ n \in 0..len /\ n - 1 \in Nat /\ n - 1 <= len
    BY <1>1, <2>2, <2>3
  <2>5. live[n - 1] = read[n - 1]
    BY <2>1, <2>4
  <2>6. live[n] = Move(live[n - 1], n)
    BY <1>8, <2>3, <2>4
  <2>7. read[n] = Move(read[n - 1], n)
    BY <1>5, <2>4
  <2> HIDE DEF Move
  <2> QED
    BY <2>2, <2>5, <2>6, <2>7
<1>10. live[len] = read[len]
  BY <1>1, <1>9
<1> QED
  BY <1>10 DEF live, read, len

LEMMA LiveBuilt ==
  ASSUME NEW q \in Texts, Bars(q) = {}, Plain(q, 0), Len(q) <= MaxQuery, Len(q) <= MaxLive
  PROVE  /\ ~BuildFtsQuery(q).err /\ ~BuildLiveQuery(q).err
         /\ BuildLiveQuery(q).alts = BuildFtsQuery(q).alts
<1>1. Len(q) \in Nat /\ MaxQuery \in Nat /\ MaxLive \in Nat
  BY TextFacts, SearchAssumption
<1>2. Written(q) # {} /\ Closed(q)
  BY PlainQuery
<1> DEFINE s == Trim(q)
<1>3. PICK a \in 1..Len(q), b \in 1..Len(q) : Shown(q, s, a, b)
  BY <1>2, TrimShows
<1>4. s # <<>> /\ Len(s) <= Len(q) /\ Len(s) \in Nat
  <2>1. s \in Texts
    BY <1>3 DEF Shown
  <2> QED
    BY <1>2, <2>1, TrimShows, TextFacts
<1>5. Cut(s, MaxQuery) = s /\ Cut(s, MaxLive) = s
  <2>1. ~(Len(s) > MaxQuery) /\ ~(Len(s) > MaxLive)
    BY <1>1, <1>4
  <2> QED
    BY <2>1 DEF Cut
<1>6. LiveReading(s)[Len(s)] = Reading(s)[Len(s)]
  BY <1>3, ReadPlain
<1>7. ~BuildFtsQuery(q).err
  BY <1>1, <1>2, QueryBuilt
<1>8. BuildFtsQuery(q) = IF s = <<>> \/ Reading(s)[Len(s)].open
                         THEN [err |-> TRUE, alts |-> <<>>]
                         ELSE [err |-> FALSE, alts |-> FlushSome(Reading(s)[Len(s)]).alts]
  BY <1>5 DEF BuildFtsQuery
<1> DEFINE none == s = <<>>
           live == FlushSome(LiveReading(s)[Len(s)]).alts
<1>9. BuildLiveQuery(q) = [err |-> none, alts |-> live]
  BY <1>5 DEF BuildLiveQuery
<1> HIDE DEF s
<1>10. BuildFtsQuery(q).alts = FlushSome(Reading(s)[Len(s)]).alts
  BY <1>7, <1>8
<1>11. ~none
  BY <1>4
<1> HIDE DEF none, live
<1>12. BuildLiveQuery(q).alts = live /\ BuildLiveQuery(q).err = none
  BY <1>9
<1>13. ~BuildLiveQuery(q).err
  BY <1>11, <1>12
<1> QED
  BY <1>6, <1>7, <1>10, <1>12, <1>13 DEF live

LEMMA LiveAnswer ==
  ASSUME TypeOK, NEW r, r.q \in Typed, r.q # <<>>, ~BadSort(r), ~BadOrder(r), r.order # "asc",
         r.limit = maxItems, ~BuildLiveQuery(r.q).err
  PROVE  IdsOf(LiveSearch(r)) =
           {i \in Used : Matches(BuildLiveQuery(r.q).alts, postings[i], Completions)}
             \intersect OfType(r.type)
<1> DEFINE n == Limit(r.limit, Lesser(maxItems, LiveDefault))
           alts == BuildLiveQuery(r.q).alts
<1>1. maxItems \in Nat \ {0}
  BY SlotsAssumption DEF TypeOK
<1>2. n = maxItems
  <2>1. Lesser(maxItems, LiveDefault) \in Int
    BY <1>1, SearchAssumption DEF Lesser
  <2>2. maxItems \in Int /\ maxItems \in 1..maxItems
    BY <1>1
  <2> QED
    BY <2>1, <2>2, LimitFacts
<1>3. Default(TRUE) = Lesser(maxItems, LiveDefault) /\ LiveQuery[r.q] = BuildLiveQuery(r.q)
  BY DEF Default, LiveQuery
<1>4. LiveSearch(r) = FtsSearch(r, alts, Completions, n)
  BY <1>3 DEF LiveSearch
<1> HIDE DEF n, alts
<1>5. IdsOf(FtsSearch(r, alts, Completions, n)) =
        {i \in Used : Matches(alts, postings[i], Completions)} \intersect OfType(r.type)
  <2>1. n \in Nat /\ n >= maxItems
    BY <1>1, <1>2
  <2> QED
    BY <2>1, FtsFacts
<1> QED
  BY <1>4, <1>5 DEF alts

\* Words begin with themselves.
LEMMA CompletedMatches ==
  ASSUME NEW alts, NEW words, Matches(alts, words, Same)
  PROVE  Matches(alts, words, Completions)
<1>1. ASSUME NEW term, TermMatches(term, words, Same)
      PROVE  TermMatches(term, words, Completions)
  <2>1. PICK i \in DOMAIN term : /\ {j \in DOMAIN term : term[j] \in Data} = {i}
                                 /\ words \intersect Same[term[i]] # {}
    BY <1>1 DEF TermMatches
  <2>2. term[i] \in Data
    BY <2>1
  <2>3. Same[term[i]] \subseteq Completions[term[i]]
    BY <2>2, SearchAssumption DEF Same
  <2> QED
    BY <2>1, <2>3 DEF TermMatches
<1> QED
  BY <1>1 DEF Matches

LEMMA LiveHolds ==
  ASSUME TypeOK
  PROVE  LiveFindsAll
<1> SUFFICES ASSUME NEW q \in PlainQueries
             PROVE  IdsOf(Search(Plainly(q))) \subseteq
                      IdsOf(LiveSearch([Plainly(q) EXCEPT !.limit = maxItems]))
  BY DEF LiveFindsAll
<1> DEFINE r1 == Plainly(q)
           r2 == [Plainly(q) EXCEPT !.limit = maxItems]
           alts == BuildFtsQuery(q).alts
<1>1. r1.q = q /\ r1.limit = 0 /\ r1.type = "" /\ r1.sort = "" /\ r1.order = ""
  BY Zenon DEF Plainly
<1>2. r2.q = q /\ r2.limit = maxItems /\ r2.type = "" /\ r2.sort = "" /\ r2.order = ""
  BY Zenon DEF Plainly
<1> HIDE DEF r1, r2
<1>3. q \in Typed /\ Bars(q) = {} /\ Plain(q, 0) /\ Len(q) <= Lesser(MaxLive, MaxQuery)
  BY DEF PlainQueries
<1>4. q \in Texts
  BY <1>3, TypedTexts
<1>5. Len(q) <= MaxQuery /\ Len(q) <= MaxLive
  <2>1. Len(q) \in Nat
    BY <1>4, TextFacts
  <2> QED
    BY <1>3, <2>1, SearchAssumption DEF Lesser
<1>6. q # <<>>
  <2>1. PICK i \in 1..Len(q) : q[i] # Blank
    BY <1>3, <1>4, PlainQuery, TextFacts DEF Written
  <2>2. Len(<<>>) = 0
    OBVIOUS
  <2> QED
    BY <2>1, <2>2
<1>7. /\ ~BuildFtsQuery(q).err /\ ~BuildLiveQuery(q).err
      /\ BuildLiveQuery(q).alts = alts
  BY <1>3, <1>4, <1>5, LiveBuilt
<1>8. r1.q \in Typed /\ r1.q # <<>> /\ ~BuildFtsQuery(r1.q).err /\ BuildFtsQuery(r1.q).alts = alts
  BY <1>1, <1>3, <1>6, <1>7
<1>9. r2.q \in Typed /\ r2.q # <<>> /\ ~BuildLiveQuery(r2.q).err /\ BuildLiveQuery(r2.q).alts = alts
  BY <1>2, <1>3, <1>6, <1>7
<1> HIDE DEF alts
<1>10. /\ ~BadSort(r1) /\ ~BadOrder(r1) /\ r1.order # "asc"
       /\ ~BadSort(r2) /\ ~BadOrder(r2) /\ r2.order # "asc"
  BY <1>1, <1>2 DEF BadSort, BadOrder
<1>11. IdsOf(Search(r1)) = {i \in Used : Matches(alts, postings[i], Same)} \intersect OfType(r1.type)
  BY <1>1, <1>8, <1>10, SearchFinds
<1>12. IdsOf(LiveSearch(r2)) =
         {i \in Used : Matches(alts, postings[i], Completions)} \intersect OfType(r2.type)
  BY <1>2, <1>9, <1>10, LiveAnswer
<1>13. OfType(r1.type) = OfType(r2.type)
  BY <1>1, <1>2
<1>14. IdsOf(Search(r1)) \subseteq IdsOf(LiveSearch(r2))
  <2>1. \A i : Matches(alts, postings[i], Same) => Matches(alts, postings[i], Completions)
    BY CompletedMatches
  <2> QED
    BY <1>11, <1>12, <1>13, <2>1
<1> QED
  BY <1>14 DEF r1, r2

-----------------------------------------------------------------------------
(* Theorems.                                                               *)

\* A search that gives no limit finds every record one of its alternatives
\* asks for by its word alone, with and without the record's type: the limit,
\* which search_fts applies before the type filter and to hits of stale words
\* as well, hides none of them, and the loop of build_fts_query asks for
\* nothing else in that alternative.
THEOREM SearchFindsAsked == FSpec => []AskedIsFound
<1>1. TypeOK /\ IndexInv => AskedIsFound
  BY AskedHolds
<1> QED
  BY <1>1, IndexedSpec, TypeCorrect, IndexInvHolds, PTL

\* A search is refused only for blanks and for a quote that is not closed, and
\* what it finds is indexed under all the words of one alternative of what was
\* typed: build_fts_query does not separate at a bar inside quotes.
THEOREM SearchFindsOnlyAsked == FSpec => []FoundWasAsked
<1>1. TypeOK => FoundWasAsked
  BY OnlyAskedHolds
<1> QED
  BY <1>1, IndexedSpec, TypeCorrect, PTL

\* While words are typed a live search, with the limit that holds every
\* record, shows all that the finished search will find: build_live_fts_query
\* makes the same terms of them and matches more with each.
THEOREM LiveSearchFindsAll == FSpec => []LiveFindsAll
<1>1. TypeOK => LiveFindsAll
  BY LiveHolds
<1> QED
  BY <1>1, IndexedSpec, TypeCorrect, PTL

\* Without q the total counts the records of the type, text and file split
\* them, and a page is as long as was asked unless it holds them all, for any
\* limit, negative ones and 0 too.
THEOREM ListsAreRight == FSpec => []ListsAddUp
<1>1. TypeOK => ListsAddUp
  BY ListsRight
<1> QED
  BY <1>1, IndexedSpec, TypeCorrect, PTL

\* The newest record of a list and the one that GET / answers with are the
\* same, two records of one second included.
THEOREM HeadIsLatest == FSpec => []ListHeadIsLatest
<1>1. TypeOK => ListHeadIsLatest
  BY HeadRight
<1> QED
  BY <1>1, IndexedSpec, TypeCorrect, PTL
=============================================================================
