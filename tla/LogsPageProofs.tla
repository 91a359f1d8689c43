-------------------------- MODULE LogsPageProofs --------------------------
(***************************************************************************)
(* First the paged table alone, for any queries, any finite set of rows,   *)
(* any page size and any number of generations and presses.                *)
(*                                                                         *)
(* The Logs page drives the paged table as PagesSpec allows, whatever the  *)
(* operator does to the filters, so what is proved of the table holds on   *)
(* the page; and the counts in the lists are of the table's own window.    *)
(***************************************************************************)
EXTENDS LogsPage, SequenceTheorems, FiniteSetTheorems, TLAPS

----------------------------------------------------------------------------
(* The paged table.                                                         *)

Elems(s) == {s[i] : i \in 1..Len(s)}
Descending(s) == \A i, j \in 1..Len(s) : i < j => s[i] > s[j]

\* An answer to query q from the cursor: the rows it read that are older than
\* the cursor are in the page, or below all of it with a cursor to go on from.
IsPage(q, cursor, b) ==
    /\ Descending(b.rows)
    /\ Elems(b.rows) \subseteq Matches[q] /\ b.read \subseteq Matches[q]
    /\ \A x \in Elems(b.rows) : Older(cursor, x)
    /\ \A x \in b.read \ Elems(b.rows) :
          Older(cursor, x) => b.next # NoCursor /\ \A s \in Elems(b.rows) : x < s
    /\ b.next # NoCursor => b.rows # <<>> /\ b.next = b.rows[Len(b.rows)]

\* A request of the current generation.
Live(r) == r.gen = seq

GensPast == \A r \in reqs : r.gen <= seq

AnswersArePages ==
    \A r \in reqs : r.body.ok => r.body.read \subseteq stored /\ IsPage(r.query, r.cursor, r.body)

OneLive == \A r, s \in reqs : Live(r) /\ Live(s) => r = s

\* While the first page is awaited the table has no query and no cursor.
FirstAwaited ==
    \A r \in reqs : Live(r) /\ r.kind = "first" =>
        /\ pages.query = NoQuery /\ ~inFlight
        /\ r.query = query /\ r.cursor = NoCursor

\* A page that is awaited continues the rows on screen, and was read after them.
MoreAwaited ==
    \A r \in reqs : Live(r) /\ r.kind = "more" =>
        /\ inFlight
        /\ pages.query = query /\ pages.end = "more"
        /\ r.query = query /\ r.cursor = pages.cursor
        /\ r.body.ok => base \subseteq r.body.read

\* The rows of the page set, for the query it is tagged with.
RunOfQuery ==
    pages.query # NoQuery =>
        /\ pages.query = query
        /\ base \subseteq Matches[query]
        /\ Descending(pages.rows)
        /\ Elems(pages.rows) \subseteq Matches[query]
        /\ \A x \in base \ Elems(pages.rows) :
              pages.rows # <<>> /\ pages.end # "last" /\ \A s \in Elems(pages.rows) : x < s
        /\ pages.end = "more" =>
              pages.rows # <<>> /\ pages.cursor = pages.rows[Len(pages.rows)]

RefAgrees == next = nextRequest(pages, query)

IInv == /\ PagesTypeOK /\ base \subseteq stored
        /\ GensPast /\ AnswersArePages /\ OneLive /\ FirstAwaited /\ MoreAwaited
        /\ RunOfQuery /\ RefAgrees

ReqType == [gen : Nat, kind : {"first", "more"}, query : Query,
            cursor : Row \cup {NoCursor}, st : {"sent", "answered"}, body : Body]

\* The server's answer is a page of its query, of the rows stored then.
LEMMA AnswerIsPage ==
    ASSUME stored \subseteq Row, NEW q \in Query, NEW c \in Row \cup {NoCursor}
    PROVE  /\ ListPage(q, c) \in Body
           /\ ListPage(q, c).ok /\ ListPage(q, c).read = stored \cap Matches[q]
           /\ IsPage(q, c, ListPage(q, c))
<1> DEFINE S == {r \in stored \cap Matches[q] : Older(c, r)}
           found == NewestFirst[S]
           more == Len(found) > PageSize
           page == IF more THEN SubSeq(found, 1, PageSize) ELSE found
           nx == IF more THEN page[PageSize] ELSE NoCursor
           b == [ok |-> TRUE, rows |-> page, why |-> "none", read |-> stored \cap Matches[q],
                 next |-> nx]
<1>1. S \in SUBSET Row
  OBVIOUS
<1>2. /\ found \in Seq(Row) /\ Len(found) \in Nat
      /\ \A i, j \in 1..Len(found) : i < j => found[i] > found[j]
      /\ \A x : x \in S <=> \E i \in 1..Len(found) : x = found[i]
  <2>1. found \in Seq(Row)
    BY <1>1, PagesAssumption
  <2>2. {found[i] : i \in 1..Len(found)} = S
    BY <1>1, PagesAssumption
  <2>3. \A i, j \in 1..Len(found) : i < j => found[i] > found[j]
    BY <1>1, PagesAssumption
  <2> QED
    BY <2>1, <2>2, <2>3
<1>3. PageSize \in Nat /\ PageSize >= 1 /\ Row \subseteq Nat \ {0}
  BY PagesAssumption
<1>4. /\ page \in Seq(Row) /\ Len(page) \in Nat
      /\ Len(page) = IF more THEN PageSize ELSE Len(found)
      /\ \A i \in 1..Len(page) : i \in 1..Len(found) /\ page[i] = found[i]
  <2>1. CASE more
    <3>1. \A i \in 1..PageSize : i \in 1..Len(found) /\ found[i] \in Row
      BY <1>2, <1>3, <2>1, ElementOfSeq
    <3>2. /\ SubSeq(found, 1, PageSize) \in Seq(Row)
          /\ Len(SubSeq(found, 1, PageSize)) = PageSize
          /\ \A i \in 1..PageSize : SubSeq(found, 1, PageSize)[i] = found[i]
      <4>1. 1 \in Int /\ PageSize \in Int
        BY <1>3
      <4> HIDE DEF found
      <4> QED
        BY <4>1, <3>1, <1>3, SubSeqProperties, Z3
    <3> QED
      BY <2>1, <3>1, <3>2, <1>3
  <2>2. CASE ~more
    BY <2>2, <1>2
  <2> QED
    BY <2>1, <2>2
<1>5. \A i \in 1..Len(page) : page[i] \in S /\ page[i] \in Row
  BY <1>1, <1>2, <1>4
<1>6. more => nx = page[Len(page)] /\ nx \in Row /\ page # <<>>
  <2>1. more => Len(page) = PageSize /\ PageSize \in 1..Len(page)
    BY <1>3, <1>4
  <2> QED
    BY <2>1, <1>3, <1>5
<1>7. nx \in Row \cup {NoCursor} /\ (nx # NoCursor => more)
  BY <1>6
<1>8. \A x \in S : x \notin Elems(page) => more /\ \A s \in Elems(page) : x < s
  <2> SUFFICES ASSUME NEW x \in S, x \notin Elems(page)
               PROVE  more /\ \A s \in Elems(page) : x < s
    OBVIOUS
  <2>1. PICK k \in 1..Len(found) : x = found[k]
    BY <1>2
  <2>2. k \notin 1..Len(page)
    BY <2>1, <1>4 DEF Elems
  <2>3. more /\ k > Len(page)
    BY <2>2, <1>2, <1>4, <1>3
  <2>4. ASSUME NEW i \in 1..Len(page)
        PROVE  found[i] > x
    <3>1. i \in 1..Len(found) /\ i < k
      BY <2>3, <1>4
    <3> HIDE DEF found, page
    <3> QED
      BY <2>1, <3>1, <1>2
  <2>5. \A s \in Elems(page) : s > x
    BY <2>4, <1>4 DEF Elems
  <2>6. x \in Nat /\ \A s \in Elems(page) : s \in Nat
    BY <1>1, <1>3, <1>5 DEF Elems
  <2> QED
    BY <2>3, <2>5, <2>6
<1>9. Descending(page)
  BY <1>2, <1>4 DEF Descending
<1>10. ListPage(q, c) = b
  BY DEF ListPage
<1>11. b \in Body
  <2>1. stored \cap Matches[q] \in SUBSET Row
    OBVIOUS
  <2> QED
    BY <1>4, <1>7, <2>1 DEF Body, Failure
<1>12. IsPage(q, c, b)
  <2> HIDE DEF S, page, nx, more, found
  <2>1. Elems(page) \subseteq Matches[q] /\ \A x \in Elems(page) : Older(c, x)
    BY <1>5 DEF Elems, S
  <2>2. \A x \in (stored \cap Matches[q]) \ Elems(page) :
           Older(c, x) => nx # NoCursor /\ \A s \in Elems(page) : x < s
    <3>1. more => nx # NoCursor
      BY <1>6, <1>3 DEF NoCursor
    <3> QED
      BY <1>8, <3>1 DEF S
  <2>3. nx # NoCursor => page # <<>> /\ nx = page[Len(page)]
    BY <1>6, <1>7
  <2> QED
    BY <1>9, <2>1, <2>2, <2>3 DEF IsPage
<1>13. b.ok /\ b.read = stored \cap Matches[q]
  OBVIOUS
<1> HIDE DEF b
<1> QED
  BY <1>10, <1>11, <1>12, <1>13

LEMMA RequestType ==
    ASSUME NEW g \in Nat, NEW k \in {"first", "more"}, NEW q \in Query,
           NEW c \in Row \cup {NoCursor}
    PROVE  Request(g, k, q, c) \in ReqType /\ ~Request(g, k, q, c).body.ok
<1>1. Unanswered \in Body
  BY EmptySeq DEF Unanswered, Body, Failure, NoCursor
<1> QED
  BY <1>1 DEF Request, ReqType, Unanswered

LEMMA PagesInitInv == PagesInit => IInv
<1> SUFFICES ASSUME PagesInit PROVE IInv
  OBVIOUS
<1> USE DEF PagesInit
<1>1. PagesTypeOK
  BY EmptySeq DEF PagesTypeOK, emptyPages, NoRequest, NoCursor
<1>2. GensPast /\ AnswersArePages /\ OneLive /\ FirstAwaited /\ MoreAwaited
  BY DEF GensPast, AnswersArePages, OneLive, FirstAwaited, MoreAwaited
<1>3. RunOfQuery /\ RefAgrees
  BY DEF RunOfQuery, RefAgrees, emptyPages, nextRequest
<1> QED
  BY <1>1, <1>2, <1>3 DEF IInv

\* A new generation: no request of an earlier one is live, and the page set has
\* no query until the first page lands.
LEMMA StartInv ==
    ASSUME IInv, NEW q \in Query \cup {NoQuery}, StartGeneration(q)
    PROVE  IInv'
<1> USE DEF IInv, StartGeneration
<1> DEFINE new == Request(seq + 1, "first", q, NoCursor)
<1>1. seq \in Nat /\ seq' = seq + 1
  BY DEF PagesTypeOK
<1>2. q \in Query => new \in ReqType /\ ~new.body.ok
  BY <1>1, RequestType
<1>3. /\ new.gen = seq + 1 /\ new.kind = "first" /\ new.query = q
      /\ new.cursor = NoCursor
  BY DEF Request
<1> HIDE DEF new
<1>4. \A r \in reqs' : r \in reqs \/ (r = new /\ q \in Query)
  BY DEF Settled, new
<1>5. pages'.query = NoQuery
  BY DEF startQuery, PagesTypeOK
<1>6. PagesTypeOK'
  <2>1. reqs' \subseteq ReqType
    BY <1>2, <1>4 DEF PagesTypeOK, ReqType
  <2>2. pages' \in [query : Query \cup {NoQuery}, rows : Seq(Row),
                    cursor : Row \cup {NoCursor}, end : {"more", "last", "refused"}]
    BY DEF PagesTypeOK, startQuery
  <2>3. next' \in [query : Query \cup {NoQuery}, cursor : Row \cup {NoCursor}]
    BY DEF NoRequest
  <2>4. /\ stored' \subseteq Row /\ base' \subseteq Row /\ seq' \in Nat
        /\ query' \in Query \cup {NoQuery} /\ busy' = FALSE /\ inFlight' = FALSE
        /\ error' = FALSE /\ moreError' = FALSE
    BY <1>1 DEF PagesTypeOK
  <2> HIDE DEF IInv, StartGeneration
  <2> QED
    BY <2>1, <2>2, <2>3, <2>4 DEF PagesTypeOK, ReqType
<1>7. \A r \in reqs : r.gen \in Nat /\ r.gen <= seq /\ r.gen # seq'
  BY <1>1 DEF GensPast, PagesTypeOK
<1>8. GensPast'
  BY <1>1, <1>3, <1>4, <1>7 DEF GensPast
<1>9. AnswersArePages'
  BY <1>2, <1>4 DEF AnswersArePages
<1>10. OneLive'
  BY <1>4, <1>7 DEF OneLive, Live
<1>11. FirstAwaited' /\ MoreAwaited'
  BY <1>3, <1>4, <1>5, <1>7 DEF FirstAwaited, MoreAwaited, Live
<1>12. RunOfQuery' /\ RefAgrees'
  BY <1>5 DEF RunOfQuery, RefAgrees, nextRequest
<1> QED
  BY <1>6, <1>8, <1>9, <1>10, <1>11, <1>12

\* A press finds no request of its generation out: the first page has landed
\* and no other press is in flight.
LEMMA LoadMoreInv ==
    ASSUME IInv, LoadMore
    PROVE  IInv'
<1> USE DEF IInv, LoadMore
<1> DEFINE new == Request(seq, "more", next.query, next.cursor)
<1>1. /\ pages.query # NoQuery /\ pages.query = query /\ pages.end = "more"
      /\ query \in Query
      /\ next = [query |-> pages.query, cursor |-> pages.cursor]
  BY DEF RefAgrees, nextRequest, MoreOffered, exposedEnd, PagesTypeOK
<1>2. next.query = query /\ next.cursor = pages.cursor
      /\ pages.cursor \in Row \cup {NoCursor}
  BY <1>1 DEF PagesTypeOK
<1>3. new \in ReqType /\ ~new.body.ok
  BY <1>1, <1>2, RequestType DEF PagesTypeOK
<1>4. /\ new.gen = seq /\ new.kind = "more" /\ new.query = query
      /\ new.cursor = pages.cursor
  BY <1>2 DEF Request
<1> HIDE DEF new
<1>5. reqs' = reqs \cup {new}
  BY DEF new
<1>6. \A r \in reqs : ~Live(r)
  BY <1>1 DEF FirstAwaited, MoreAwaited, PagesTypeOK
<1>7. PagesTypeOK'
  BY <1>3, <1>5 DEF PagesTypeOK, ReqType
<1>8. GensPast' /\ AnswersArePages' /\ OneLive'
  BY <1>3, <1>4, <1>5, <1>6 DEF GensPast, AnswersArePages, OneLive, Live, PagesTypeOK
<1>9. FirstAwaited' /\ MoreAwaited'
  BY <1>1, <1>3, <1>4, <1>5, <1>6 DEF FirstAwaited, MoreAwaited, Live
<1>10. RunOfQuery' /\ RefAgrees'
  BY DEF RefAgrees, RunOfQuery, nextRequest, exposedEnd
<1> QED
  BY <1>7, <1>8, <1>9, <1>10

\* A request keeps its generation, kind, query and cursor when it is answered.
LEMMA ReplaceInv ==
    ASSUME IInv, NEW r \in reqs, NEW b \in Body,
           b.ok => b.read \subseteq stored /\ IsPage(r.query, r.cursor, b),
           Live(r) /\ r.kind = "more" /\ b.ok => base \subseteq b.read,
           reqs' = Replace(r, b),
           UNCHANGED <<stored, query, pages, error, moreError, busy, seq, inFlight,
                       next, base>>
    PROVE  IInv'
<1> USE DEF IInv
<1> DEFINE a == [r EXCEPT !.st = "answered", !.body = b]
<1>1. /\ a \in ReqType /\ a.gen = r.gen /\ a.kind = r.kind /\ a.query = r.query
      /\ a.cursor = r.cursor /\ a.body = b
  BY DEF PagesTypeOK, ReqType
<1> HIDE DEF a
<1>2. \A s \in reqs' : s \in reqs \ {r} \/ s = a
  BY DEF Replace, a
<1>3. PagesTypeOK'
  <2>1. reqs' \subseteq ReqType
    BY <1>1, <1>2 DEF PagesTypeOK, ReqType
  <2> QED
    BY <2>1 DEF PagesTypeOK, ReqType
<1>4. GensPast' /\ AnswersArePages'
  BY <1>1, <1>2 DEF GensPast, AnswersArePages
<1>5. OneLive'
  BY <1>1, <1>2 DEF OneLive, Live
<1>6. FirstAwaited'
  BY <1>1, <1>2 DEF FirstAwaited, Live
<1>7. MoreAwaited'
  BY <1>1, <1>2 DEF MoreAwaited, Live
<1>8. RunOfQuery' /\ RefAgrees'
  BY DEF RunOfQuery, RefAgrees, nextRequest, exposedEnd
<1> QED
  BY <1>3, <1>4, <1>5, <1>6, <1>7, <1>8

LEMMA RespondInv ==
    ASSUME IInv, Respond
    PROVE  IInv'
<1> PICK r \in reqs : Answer(r) \/ \E why \in Failure : Fail(r, why)
  BY DEF Respond
<1>1. r.query \in Query /\ r.cursor \in Row \cup {NoCursor} /\ stored \subseteq Row
  BY DEF IInv, PagesTypeOK
<1>2. CASE Answer(r)
  <2> DEFINE b == ListPage(r.query, r.cursor)
  <2>1. b \in Body /\ b.read = stored \cap Matches[r.query] /\ IsPage(r.query, r.cursor, b)
    BY <1>1, AnswerIsPage
  <2>2. Live(r) /\ r.kind = "more" => base \subseteq b.read
    <3>1. Live(r) /\ r.kind = "more" =>
             pages.query = query /\ r.query = query /\ pages.query # NoQuery
      BY <1>1, PagesAssumption DEF IInv, MoreAwaited
    <3> QED
      BY <2>1, <3>1 DEF IInv, RunOfQuery
  <2> HIDE DEF b
  <2>3. reqs' = Replace(r, b)
    BY <1>2 DEF Answer, b
  <2> QED
    BY <2>1, <2>2, <2>3, <1>2, ReplaceInv DEF Answer
<1>3. ASSUME NEW why \in Failure, Fail(r, why)
      PROVE  IInv'
  <2> DEFINE b == [Unanswered EXCEPT !.why = why]
  <2>1. b \in Body /\ ~b.ok
    BY EmptySeq DEF Unanswered, Body, Failure, NoCursor
  <2> HIDE DEF b
  <2>2. reqs' = Replace(r, b)
    BY <1>3 DEF Fail, b
  <2> QED
    BY <2>1, <2>2, <1>3, ReplaceInv DEF Fail
<1> QED
  BY <1>2, <1>3

\* A page that continues a run makes a longer run.
LEMMA RunContinues ==
    ASSUME NEW s \in Seq(Row), NEW t \in Seq(Row), Descending(s), Descending(t),
           s # <<>>, \A x \in Elems(t) : x < s[Len(s)]
    PROVE  /\ s \o t \in Seq(Row) /\ s \o t # <<>>
           /\ Descending(s \o t)
           /\ Elems(s \o t) = Elems(s) \cup Elems(t)
           /\ t # <<>> => (s \o t)[Len(s \o t)] = t[Len(t)]
<1> DEFINE u == s \o t
           m == Len(s)
           n == Len(t)
<1>1. m \in Nat /\ n \in Nat /\ m >= 1 /\ (t # <<>> => n >= 1)
  BY EmptySeq, LenProperties
<1>2. /\ u \in Seq(Row) /\ Len(u) = m + n
      /\ \A i \in 1..(m + n) : u[i] = IF i <= m THEN s[i] ELSE t[i - m]
  BY ConcatProperties
<1>3. /\ \A i \in 1..m : s[i] \in Row /\ s[i] \in Elems(s) /\ s[i] \in Nat
      /\ \A i \in 1..n : t[i] \in Row /\ t[i] \in Elems(t) /\ t[i] \in Nat
  BY ElementOfSeq, PagesAssumption DEF Elems
<1>4. \A i \in 1..m : s[i] >= s[m]
  <2>1. m \in 1..m
    BY <1>1
  <2> QED
    BY <1>1, <1>3, <2>1 DEF Descending
<1> HIDE DEF u, m, n
<1>5. ASSUME NEW i \in 1..(m + n), NEW j \in 1..(m + n), i < j
      PROVE  u[i] > u[j]
  <2>1. CASE j <= m
    BY <1>1, <1>2, <1>5, <2>1 DEF Descending, m
  <2>2. CASE i > m
    <3>1. i - m \in 1..n /\ j - m \in 1..n /\ i - m < j - m
      BY <1>1, <1>5, <2>2
    <3>2. t[i - m] > t[j - m]
      BY <3>1 DEF Descending, n
    <3> QED
      BY <1>1, <1>2, <1>5, <2>2, <3>2
  <2>3. CASE i <= m /\ j > m
    <3>1. i \in 1..m /\ j - m \in 1..n
      BY <1>1, <1>5, <2>3
    <3>2. u[i] = s[i] /\ u[j] = t[j - m]
      BY <1>1, <1>2, <2>3
    <3>3. t[j - m] < s[m] /\ s[i] >= s[m]
      BY <1>3, <1>4, <3>1 DEF m
    <3>4. t[j - m] \in Nat /\ s[i] \in Nat /\ s[m] \in Nat
      BY <1>1, <1>3, <3>1
    <3> QED
      BY <3>2, <3>3, <3>4
  <2> QED
    BY <1>1, <2>1, <2>2, <2>3
<1>6. Descending(u)
  BY <1>2, <1>5 DEF Descending
<1>7. Elems(u) = Elems(s) \cup Elems(t)
  <2>1. ASSUME NEW x \in Elems(u)
        PROVE  x \in Elems(s) \cup Elems(t)
    <3>1. PICK i \in 1..(m + n) : x = u[i]
      BY <1>2 DEF Elems
    <3>2. i <= m => i \in 1..m
      BY <1>1
    <3>3. ~(i <= m) => i - m \in 1..n
      BY <1>1
    <3> QED
      BY <1>2, <1>3, <3>1, <3>2, <3>3
  <2>2. ASSUME NEW x \in Elems(s)
        PROVE  x \in Elems(u)
    <3>1. PICK i \in 1..m : x = s[i]
      BY DEF Elems, m
    <3>2. i \in 1..(m + n) /\ u[i] = s[i]
      BY <1>1, <1>2
    <3> QED
      BY <1>2, <3>1, <3>2 DEF Elems
  <2>3. ASSUME NEW x \in Elems(t)
        PROVE  x \in Elems(u)
    <3>1. PICK i \in 1..n : x = t[i]
      BY DEF Elems, n
    <3>2. i + m \in 1..(m + n) /\ u[i + m] = t[i]
      <4>1. i + m \in 1..(m + n) /\ ~(i + m <= m) /\ (i + m) - m = i
        BY <1>1
      <4>2. u[i + m] = t[(i + m) - m]
        BY <1>2, <4>1
      <4> QED
        BY <4>1, <4>2
    <3> QED
      BY <1>2, <3>1, <3>2 DEF Elems
  <2> QED
    BY <2>1, <2>2, <2>3
<1>8. t # <<>> => u[Len(u)] = t[n]
  <2>1. t # <<>> => m + n \in 1..(m + n) /\ ~(m + n <= m) /\ (m + n) - m = n
    BY <1>1
  <2>2. t # <<>> => u[m + n] = t[(m + n) - m]
    BY <1>2, <2>1
  <2> QED
    BY <1>2, <2>1, <2>2
<1>9. u # <<>>
  BY <1>1, <1>2
<1> QED
  BY <1>2, <1>6, <1>7, <1>8, <1>9 DEF u, n

\* A request that has landed is gone; the first of its generation was the only one.
LEMMA LandedReqs ==
    ASSUME IInv, NEW r \in reqs, reqs' = reqs \ {r}, seq' = seq, stored' = stored
    PROVE  /\ reqs' \subseteq ReqType
           /\ GensPast' /\ AnswersArePages' /\ OneLive'
           /\ Live(r) => \A s \in reqs' : ~Live(s)'
  BY DEF IInv, PagesTypeOK, ReqType, GensPast, AnswersArePages, OneLive, Live

LEMMA LandStaleInv ==
    ASSUME IInv, NEW r \in reqs, LandStale(r)
    PROVE  IInv'
<1> USE DEF LandStale
<1>1. /\ reqs' \subseteq ReqType
      /\ GensPast' /\ AnswersArePages' /\ OneLive'
  BY LandedReqs
<1>2. PagesTypeOK'
  BY <1>1 DEF IInv, PagesTypeOK, ReqType
<1>3. FirstAwaited' /\ MoreAwaited'
  BY DEF IInv, FirstAwaited, MoreAwaited, Live
<1>4. RunOfQuery' /\ RefAgrees'
  BY DEF IInv, RunOfQuery, RefAgrees, nextRequest, exposedEnd
<1> QED
  BY <1>1, <1>2, <1>3, <1>4 DEF IInv

LEMMA LandFirstInv ==
    ASSUME IInv, NEW r \in reqs, LandFirst(r)
    PROVE  IInv'
<1> USE DEF LandFirst, Stale
<1>1. Live(r) /\ r \in ReqType /\ r.body \in Body
  BY DEF IInv, Live, PagesTypeOK, ReqType
<1>2. /\ reqs' \subseteq ReqType
      /\ GensPast' /\ AnswersArePages' /\ OneLive'
      /\ \A s \in reqs' : ~Live(s)'
  BY <1>1, LandedReqs
<1>3. /\ pages.query = NoQuery /\ r.query = query /\ r.cursor = NoCursor
      /\ query \in Query /\ query # NoQuery
  BY <1>1, PagesAssumption DEF IInv, FirstAwaited, ReqType
<1>4. FirstAwaited' /\ MoreAwaited'
  BY <1>2 DEF FirstAwaited, MoreAwaited
<1>5. CASE r.body.ok
  <2> DEFINE b == r.body
             p == firstPage(r.query, b.rows, b.next)
  <2>1. /\ b.read \subseteq stored /\ IsPage(query, NoCursor, b)
        /\ b.rows \in Seq(Row) /\ b.next \in Row \cup {NoCursor} /\ b.read \subseteq Row
    BY <1>1, <1>3, <1>5 DEF IInv, AnswersArePages, Body
  <2> HIDE DEF b
  <2>2. pages' = p /\ next' = nextRequest(p, query) /\ base' = b.read
        /\ query' = query /\ stored' = stored
    BY <1>3, <1>5 DEF b
  <2>3. /\ p.query = query /\ p.rows = b.rows /\ p.cursor = b.next
        /\ p.end = IF b.next # NoCursor THEN "more" ELSE "last"
        /\ p \in [query : Query \cup {NoQuery}, rows : Seq(Row),
                  cursor : Row \cup {NoCursor}, end : {"more", "last", "refused"}]
    BY <1>3, <2>1 DEF firstPage, EndOf
  <2> HIDE DEF p
  <2>4. PagesTypeOK'
    <3>1. next' \in [query : Query \cup {NoQuery}, cursor : Row \cup {NoCursor}]
      BY <2>2, <2>3 DEF nextRequest, NoRequest, exposedEnd
    <3>2. /\ error' \in BOOLEAN /\ moreError' \in BOOLEAN
          /\ busy' \in BOOLEAN /\ inFlight' \in BOOLEAN
          /\ seq' \in Nat /\ query' \in Query \cup {NoQuery} /\ stored' \subseteq Row
      BY <1>5 DEF IInv, PagesTypeOK
    <3> HIDE DEF LandFirst
    <3> QED
      BY <1>2, <2>1, <2>2, <2>3, <3>1, <3>2 DEF PagesTypeOK, ReqType
  <2>5. RunOfQuery'
    BY <1>3, <2>1, <2>2, <2>3 DEF RunOfQuery, IsPage, Older
  <2>6. RefAgrees'
    BY <2>2 DEF RefAgrees
  <2>7. base' \subseteq stored'
    BY <2>1, <2>2
  <2> QED
    BY <1>2, <1>4, <2>4, <2>5, <2>6, <2>7 DEF IInv
<1>6. CASE ~r.body.ok
  <2>1. PagesTypeOK'
    BY <1>2, <1>6 DEF IInv, PagesTypeOK, ReqType
  <2>2. RunOfQuery' /\ RefAgrees'
    BY <1>6 DEF IInv, RunOfQuery, RefAgrees, nextRequest, exposedEnd
  <2> QED
    BY <1>2, <1>4, <1>6, <2>1, <2>2 DEF IInv
<1> QED
  BY <1>5, <1>6

LEMMA LandMoreInv ==
    ASSUME IInv, NEW r \in reqs, LandMore(r)
    PROVE  IInv'
<1> USE DEF LandMore, Stale
<1>1. Live(r) /\ r \in ReqType /\ r.body \in Body
  BY DEF IInv, Live, PagesTypeOK, ReqType
<1>2. /\ reqs' \subseteq ReqType
      /\ GensPast' /\ AnswersArePages' /\ OneLive'
      /\ \A s \in reqs' : ~Live(s)'
  BY <1>1, LandedReqs
<1>3. /\ pages.query = query /\ pages.end = "more" /\ r.query = query
      /\ r.cursor = pages.cursor /\ query \in Query /\ query # NoQuery
      /\ r.body.ok => base \subseteq r.body.read
  BY <1>1, PagesAssumption DEF IInv, MoreAwaited, ReqType
<1>4. FirstAwaited' /\ MoreAwaited'
  BY <1>2 DEF FirstAwaited, MoreAwaited
<1>5. /\ pages \in [query : Query \cup {NoQuery}, rows : Seq(Row),
                     cursor : Row \cup {NoCursor}, end : {"more", "last", "refused"}]
      /\ base \subseteq Matches[query] /\ Descending(pages.rows)
      /\ Elems(pages.rows) \subseteq Matches[query]
      /\ \A x \in base \ Elems(pages.rows) : \A s \in Elems(pages.rows) : x < s
      /\ pages.rows # <<>> /\ pages.cursor = pages.rows[Len(pages.rows)]
      /\ next = [query |-> query, cursor |-> pages.cursor]
  BY <1>3 DEF IInv, PagesTypeOK, RunOfQuery, RefAgrees, nextRequest, exposedEnd
<1>6. pages.cursor \in Elems(pages.rows) /\ pages.cursor \in Row /\ pages.cursor # NoCursor
  <2>1. pages.rows \in Seq(Row) /\ Len(pages.rows) \in Nat /\ Len(pages.rows) >= 1
    BY <1>5, EmptySeq
  <2>2. Len(pages.rows) \in 1..Len(pages.rows)
    BY <2>1
  <2>3. pages.rows[Len(pages.rows)] \in Row
    BY <2>1, <2>2, ElementOfSeq
  <2> QED
    BY <1>5, <2>2, <2>3, PagesAssumption DEF Elems, NoCursor
<1>7. /\ error' \in BOOLEAN /\ busy' \in BOOLEAN /\ inFlight' \in BOOLEAN
      /\ seq' \in Nat /\ query' = query /\ stored' = stored /\ base' = base
      /\ stored' \subseteq Row /\ base' \subseteq Row /\ base' \subseteq stored'
  BY DEF IInv, PagesTypeOK
<1>8. CASE r.body.ok
  <2> DEFINE b == r.body
             p == appended(pages, b.rows, b.next)
  <2>1. /\ IsPage(query, pages.cursor, b) /\ base \subseteq b.read
        /\ b.rows \in Seq(Row) /\ b.next \in Row \cup {NoCursor} /\ b.read \subseteq Row
    BY <1>1, <1>3, <1>8 DEF IInv, AnswersArePages, Body
  <2> HIDE DEF b
  <2>2. /\ pages' = p /\ moreError' = moreError
        /\ next' = IF b.next # NoCursor THEN [query |-> query, cursor |-> b.next] ELSE NoRequest
    BY <1>3, <1>8 DEF b
  <2>3. /\ p.query = query /\ p.rows = pages.rows \o b.rows /\ p.cursor = b.next
        /\ p.end = IF b.next # NoCursor THEN "more" ELSE "last"
    BY <1>3, <1>5 DEF appended, EndOf
  <2>4. \A x \in Elems(b.rows) : x < pages.rows[Len(pages.rows)]
    BY <1>5, <1>6, <2>1 DEF IsPage, Older
  <2>5. /\ p.rows \in Seq(Row) /\ p.rows # <<>> /\ Descending(p.rows)
        /\ Elems(p.rows) = Elems(pages.rows) \cup Elems(b.rows)
        /\ b.rows # <<>> => p.rows[Len(p.rows)] = b.rows[Len(b.rows)]
    BY <1>5, <2>1, <2>3, <2>4, RunContinues DEF IsPage
  <2>6. p \in [query : Query \cup {NoQuery}, rows : Seq(Row),
               cursor : Row \cup {NoCursor}, end : {"more", "last", "refused"}]
    <3>1. pages.rows \o b.rows \in Seq(Row)
      BY <2>3, <2>5
    <3>2. EndOf(b.next) \in {"more", "last", "refused"}
      BY DEF EndOf
    <3> DEFINE R == pages.rows \o b.rows
               e == EndOf(b.next)
    <3>3. p = [pages EXCEPT !.rows = R, !.cursor = b.next, !.end = e]
      BY DEF appended
    <3> HIDE DEF p, R, e
    <3>4. R \in Seq(Row) /\ e \in {"more", "last", "refused"}
      BY <3>1, <3>2 DEF R, e
    <3> QED
      BY <1>5, <2>1, <3>3, <3>4
  <2> HIDE DEF p
  <2>7. PagesTypeOK'
    <3>1. next' \in [query : Query \cup {NoQuery}, cursor : Row \cup {NoCursor}]
      BY <1>3, <2>1, <2>2 DEF NoRequest
    <3>2. moreError' \in BOOLEAN
      BY <2>2 DEF IInv, PagesTypeOK
    <3> HIDE DEF LandMore
    <3> QED
      BY <1>2, <1>3, <1>7, <2>2, <2>6, <3>1, <3>2 DEF PagesTypeOK, ReqType
  <2>8. \A x \in base \ Elems(p.rows) : p.end # "last" /\ \A s \in Elems(p.rows) : x < s
    <3> SUFFICES ASSUME NEW x \in base \ Elems(p.rows)
                 PROVE  p.end # "last" /\ \A s \in Elems(p.rows) : x < s
      OBVIOUS
    <3>1. \A s \in Elems(pages.rows) : x < s
      BY <1>5, <2>5
    <3>2. Older(pages.cursor, x) /\ x \in b.read \ Elems(b.rows)
      BY <1>6, <2>1, <2>5, <3>1 DEF Older
    <3> QED
      BY <2>1, <2>3, <2>5, <3>1, <3>2 DEF IsPage
  <2>9. RunOfQuery'
    <3>1. p.end = "more" => p.cursor = p.rows[Len(p.rows)]
      BY <2>1, <2>3, <2>5 DEF IsPage
    <3>2. Elems(p.rows) \subseteq Matches[query]
      BY <1>5, <2>1, <2>5 DEF IsPage
    <3> HIDE DEF LandMore
    <3> QED
      BY <1>5, <1>7, <2>2, <2>3, <2>5, <2>8, <3>1, <3>2 DEF RunOfQuery
  <2>10. RefAgrees'
    BY <1>3, <1>7, <2>2, <2>3 DEF RefAgrees, nextRequest, exposedEnd
  <2> QED
    BY <1>2, <1>4, <1>7, <2>7, <2>9, <2>10 DEF IInv
<1>9. CASE ~r.body.ok
  <2> DEFINE p == afterMoreFailure(pages, r.body.why)
  <2>1. /\ pages' = p /\ moreError' = TRUE
        /\ next' = IF r.body.why = "refused" THEN NoRequest ELSE next
    BY <1>9
  <2>2. /\ p.query = query /\ p.rows = pages.rows
        /\ r.body.why = "refused" => p.end = "refused"
        /\ r.body.why # "refused" => p = pages
        /\ p \in [query : Query \cup {NoQuery}, rows : Seq(Row),
                  cursor : Row \cup {NoCursor}, end : {"more", "last", "refused"}]
    BY <1>3, <1>5 DEF afterMoreFailure
  <2> HIDE DEF p
  <2>3. PagesTypeOK'
    <3>1. next' \in [query : Query \cup {NoQuery}, cursor : Row \cup {NoCursor}]
      BY <1>3, <1>5, <2>1 DEF NoRequest
    <3> HIDE DEF LandMore
    <3> QED
      BY <1>2, <1>3, <1>7, <2>1, <2>2, <3>1 DEF PagesTypeOK, ReqType
  <2>4. RunOfQuery'
    BY <1>3, <1>5, <1>7, <2>1, <2>2 DEF RunOfQuery
  <2>5. RefAgrees'
    BY <1>3, <1>5, <1>7, <2>1, <2>2 DEF RefAgrees, nextRequest, exposedEnd
  <2> QED
    BY <1>2, <1>4, <1>7, <2>3, <2>4, <2>5 DEF IInv
<1> QED
  BY <1>8, <1>9

LEMMA InsertInv ==
    ASSUME IInv, NEW x \in Row, Insert(x)
    PROVE  IInv'
<1> USE DEF Insert
<1>1. PagesTypeOK' /\ base' \subseteq stored'
  BY DEF IInv, PagesTypeOK
<1>2. GensPast' /\ AnswersArePages' /\ OneLive'
  BY DEF IInv, GensPast, AnswersArePages, OneLive, Live
<1>3. FirstAwaited' /\ MoreAwaited'
  BY DEF IInv, FirstAwaited, MoreAwaited, Live
<1>4. RunOfQuery' /\ RefAgrees'
  BY DEF IInv, RunOfQuery, RefAgrees, nextRequest, exposedEnd
<1> QED
  BY <1>1, <1>2, <1>3, <1>4 DEF IInv

LEMMA PagesStutterInv == IInv /\ UNCHANGED pageVars => IInv'
<1> SUFFICES ASSUME IInv, UNCHANGED pageVars PROVE IInv'
  OBVIOUS
<1> USE DEF pageVars
<1>1. PagesTypeOK' /\ base' \subseteq stored'
  BY DEF IInv, PagesTypeOK
<1>2. GensPast' /\ AnswersArePages' /\ OneLive'
  BY DEF IInv, GensPast, AnswersArePages, OneLive, Live
<1>3. FirstAwaited' /\ MoreAwaited'
  BY DEF IInv, FirstAwaited, MoreAwaited, Live
<1>4. RunOfQuery' /\ RefAgrees'
  BY DEF IInv, RunOfQuery, RefAgrees, nextRequest, exposedEnd
<1> QED
  BY <1>1, <1>2, <1>3, <1>4 DEF IInv

LEMMA PagesStepInv == IInv /\ [PagesNext]_pageVars => IInv'
<1> SUFFICES ASSUME IInv, [PagesNext]_pageVars PROVE IInv'
  OBVIOUS
<1>1. ASSUME NEW q \in (Query \cup {NoQuery}) \ {query}, StartGeneration(q) PROVE IInv'
  BY <1>1, StartInv
<1>2. CASE LoadMore
  BY <1>2, LoadMoreInv
<1>3. CASE Respond
  BY <1>3, RespondInv
<1>4. CASE Land
  BY <1>4, LandFirstInv, LandMoreInv, LandStaleInv DEF Land
<1>5. ASSUME NEW x \in Row, Insert(x) PROVE IInv'
  BY <1>5, InsertInv
<1>6. CASE UNCHANGED pageVars
  BY <1>6, PagesStutterInv
<1> QED
  BY <1>1, <1>2, <1>3, <1>4, <1>5, <1>6 DEF PagesNext

\* What the inductive invariant says of the table and of the control.
LEMMA InvImplies == IInv => PagesTypeOK /\ RowsAreOneRun /\ ControlAgrees
<1> SUFFICES ASSUME IInv PROVE PagesTypeOK /\ RowsAreOneRun /\ ControlAgrees
  OBVIOUS
<1>1. PagesTypeOK
  BY DEF IInv
<1>2. RowsAreOneRun
  <2> SUFFICES ASSUME exposedEnd(pages, query) # "none"
               PROVE  /\ \A i, j \in 1..Len(pages.rows) : i < j => pages.rows[i] > pages.rows[j]
                      /\ Shown \subseteq Matches[query]
                      /\ \A r \in (base \cap Matches[query]) \ Shown :
                            /\ StatusLine \notin {"empty", "shown, none older"}
                            /\ \A s \in Shown : r < s
    BY DEF RowsAreOneRun
  <2>1. pages.query # NoQuery /\ pages.query = query /\ exposedEnd(pages, query) = pages.end
    BY DEF exposedEnd
  <2>2. Shown = Elems(pages.rows)
    BY DEF Shown, Elems
  <2>3. ASSUME NEW r \in base \ Elems(pages.rows)
        PROVE  StatusLine \notin {"empty", "shown, none older"}
    <3>1. pages.rows # <<>> /\ pages.end # "last"
      BY <2>1, <2>3 DEF IInv, RunOfQuery
    <3> QED
      BY <2>1, <3>1 DEF StatusLine, showEmpty, countLine
  <2> QED
    BY <2>1, <2>2, <2>3 DEF IInv, RunOfQuery, Descending
<1>3. ControlAgrees
  BY DEF IInv, RefAgrees, RunOfQuery, ControlAgrees, nextRequest, exposedEnd
<1> QED
  BY <1>1, <1>2, <1>3

\* The hook under any page, for every set of queries and rows: what is on screen
\* is one run of the current query's rows, and the control continues it
\* (use-cursor-pages.ts:60-125).
THEOREM TableCorrect == PagesSpec => [](PagesTypeOK /\ RowsAreOneRun /\ ControlAgrees)
<1>1. PagesSpec => []IInv
  BY PagesInitInv, PagesStepInv, PTL DEF PagesSpec
<1> QED
  BY <1>1, InvImplies, PTL

----------------------------------------------------------------------------
(* The Logs page.                                                           *)

\* The query the table was asked for is the one the controls spell.
QueryOfFilters == query = IF mounted THEN logQuery(filters, anchor) ELSE NoQuery

\* A facet request counted what its query selects of the rows it read.
CountsSelected(a) == a.rows = {x \in a.read : Selects(a.fq, x)}

CountsAreSelected ==
    /\ \A r \in freqs : CountsSelected(r)
    /\ CountsSelected(answer)
    /\ answer.ok => answer.fq \in Query

\* A facet request of this window is the one the ref holds.
WalkIsHeld ==
    /\ \A r \in freqs : r.gen = fgen => held = fq
    /\ \A r, s \in freqs : r.gen = fgen /\ s.gen = fgen => r = s

QuerySet == Query \cup {NoQuery}
FacetRequest == [gen : Nat, fq : Query, st : {"sent", "answered"},
                 ok : BOOLEAN, rows : SUBSET Row, read : SUBSET Row]
FacetAnswer == [fq : QuerySet, ok : BOOLEAN, rows : SUBSET Row, read : SUBSET Row,
                error : {"", "failed"}]

ControlsTypeOK ==
    /\ now \in Start..MaxNow /\ anchor \in Start..MaxNow
    /\ mounted \in BOOLEAN /\ filters \in FilterSet

FacetTypeOK ==
    /\ fgen \in Nat
    /\ timer \in QuerySet /\ waitedFor \in QuerySet /\ held \in QuerySet
    /\ answer \in FacetAnswer
    /\ freqs \subseteq FacetRequest
    /\ \A r \in freqs : r.gen <= fgen

FacetInv == FacetTypeOK /\ CountsAreSelected /\ WalkIsHeld

LogsInv == IInv /\ ControlsTypeOK /\ QueryOfFilters /\ FacetInv

LEMMA WholeMinutes ==
    ASSUME NEW t \in Nat, NEW M \in Nat \ {0}
    PROVE  t % M \in 0..t
<1>1. t % M \in 0..(M - 1) /\ t \div M \in Int /\ t = M * (t \div M) + (t % M)
  OBVIOUS
<1>2. t \div M >= 0
  BY <1>1
<1> QED
  BY <1>1, <1>2

\* Every query the controls can spell is one the page may send.
LEMMA LogQueryType ==
    ASSUME NEW f \in FilterSet, NEW a \in Start..MaxNow
    PROVE  logQuery(f, a) \in QuerySet
<1> DEFINE w == LogWindow(f, a)
           q == [key |-> f.virtual_key_id, method |-> f.method,
                 tool |-> IF f.noTool THEN "" ELSE f.tool, noTool |-> f.noTool,
                 since |-> w.since, until |-> w.until]
<1>0. MINUTE \in Nat /\ Start \in Nat /\ MaxNow \in Nat /\ Start <= MaxNow
  BY LogsAssumption
<1>1. /\ f.virtual_key_id \in Keys \cup {""} /\ f.method \in Methods \cup {""}
      /\ f.tool \in Tools \cup {""} /\ f.noTool \in BOOLEAN
      /\ f.period \in Presets \cup {"custom"}
      /\ f.since \in 0..MaxNow /\ f.until \in 0..MaxNow
  BY DEF FilterSet
<1>2. w.since \in 0..MaxNow
  <2>1. CASE f.period = "custom"
    BY <2>1, <1>1 DEF LogWindow
  <2>2. CASE f.period # "custom"
    <3>1. PERIODS[f.period] \in 1..(Start - 1)
      BY <2>2, <1>1, LogsAssumption
    <3>2. w.since = a - PERIODS[f.period]
      BY <2>2 DEF LogWindow
    <3> HIDE DEF w
    <3> QED
      BY <3>1, <3>2, <1>0
  <2> QED
    BY <2>1, <2>2
<1>3. w.until \in {Unbounded} \cup {t + MINUTE - 1 : t \in 1..MaxNow}
  <2>1. CASE f.period = "custom"
    <3>1. w.until = IF f.until = 0 THEN Unbounded ELSE f.until + MINUTE - 1
      BY <2>1 DEF LogWindow, untilFromLocalInput, NoInput
    <3>2. f.until # 0 => f.until \in 1..MaxNow
      <4> HIDE DEF w
      <4>1. f.until \in 0..MaxNow
        BY <1>1
      <4>2. \A n \in 0..MaxNow : n # 0 => n \in 1..MaxNow
        BY <1>0
      <4> QED
        BY <4>1, <4>2
    <3> HIDE DEF w
    <3> QED
      BY <3>1, <3>2
  <2>2. CASE f.period # "custom"
    BY <2>2 DEF LogWindow
  <2> QED
    BY <2>1, <2>2
<1>4. q \in LogQueries
  <2> HIDE DEF w
  <2> QED
    BY <1>1, <1>2, <1>3 DEF LogQueries
<1> HIDE DEF q
<1>5. logQuery(f, a) = NoQuery \/ logQuery(f, a) = q
  BY DEF logQuery, q, w
<1> QED
  BY <1>4, <1>5, QueryAssumption DEF QuerySet

LEMMA FacetQueryType ==
    ASSUME NEW f \in FilterSet, NEW a \in Start..MaxNow
    PROVE  facetQuery(f, a) \in QuerySet
<1> DEFINE g == [f EXCEPT !.method = "", !.tool = "", !.noTool = FALSE]
<1>1. g \in FilterSet
  BY DEF FilterSet
<1>2. logQuery(g, a) \in QuerySet
  <2> HIDE DEF g
  <2> QED
    BY <1>1, LogQueryType
<1> QED
  BY <1>2 DEF facetQuery

\* Switching to Custom prefills a start the box can hold.
LEMMA PrefillType ==
    ASSUME NEW p \in Presets, NEW a \in Start..MaxNow
    PROVE  toLocalInput(a - PERIODS[p]) \in 0..MaxNow
<1> DEFINE t == a - PERIODS[p]
<1>1. /\ MINUTE \in Nat \ {0} /\ Start \in Nat /\ MaxNow \in Nat
      /\ PERIODS[p] \in 1..(Start - 1)
  BY LogsAssumption
<1>2. t \in Nat /\ t <= MaxNow
  BY <1>1
<1> HIDE DEF t
<1>3. t % MINUTE \in 0..t
  BY <1>1, <1>2, WholeMinutes
<1>4. t - (t % MINUTE) \in 0..MaxNow
  BY <1>1, <1>2, <1>3
<1> QED
  BY <1>4 DEF t, toLocalInput

\* Whatever control the operator uses, the page commits filters it can hold.
LEMMA ControlsCommit ==
    ASSUME ControlsTypeOK, FacetTypeOK, Mount \/ ChangeFilter \/ PickFilter
    PROVE  \E f \in FilterSet, a \in Start..MaxNow : Commit(f, a)
<1>0. MaxNow \in Nat
  BY LogsAssumption
<1>1. /\ filters \in FilterSet /\ now \in Start..MaxNow /\ anchor \in Start..MaxNow
      /\ answer.rows \subseteq Row
  BY DEF ControlsTypeOK, FacetTypeOK, FacetAnswer
<1>2. Facets.rows \subseteq Row
  BY <1>1 DEF Facets, facetsFor, NoAnswer
<1>3. CASE Mount
  BY <1>1, <1>3 DEF Mount
<1>4. ASSUME NEW f \in FilterSet, Change(f) \/ Pick(f)
      PROVE  \E g \in FilterSet, a \in Start..MaxNow : Commit(g, a)
  BY <1>1, <1>4 DEF Change, Pick
<1>5. CASE ChangeFilter
  <2>1. ASSUME NEW p \in Presets \cup {"custom"}, changePeriod(p)
        PROVE  \E f \in FilterSet : Change(f)
    <3>1. CASE p = "custom" /\ filters.period # "custom"
      <4> DEFINE s == customPrefill(filters, anchor)
                 f == [filters EXCEPT !.period = p, !.until = NoInput, !.since = s,
                                      !.sinceBad = FALSE, !.untilBad = FALSE]
      <4>1. filters.period \in Presets
        BY <1>1, <3>1 DEF FilterSet
      <4>2. s \in 0..MaxNow
        BY <1>1, <4>1, PrefillType DEF customPrefill
      <4>3. NoInput \in 0..MaxNow
        BY <1>0 DEF NoInput
      <4>4. Change(f)
        BY <2>1, <3>1 DEF changePeriod
      <4> HIDE DEF s
      <4>5. f \in FilterSet
        BY <1>1, <4>2, <4>3 DEF FilterSet
      <4> QED
        BY <4>4, <4>5
    <3>2. CASE ~(p = "custom" /\ filters.period # "custom")
      <4>1. Change([filters EXCEPT !.period = p])
        BY <2>1, <3>2 DEF changePeriod
      <4>2. [filters EXCEPT !.period = p] \in FilterSet
        BY <1>1 DEF FilterSet
      <4> QED
        BY <4>1, <4>2
    <3> QED
      BY <3>1, <3>2
  <2>2. ASSUME NEW field, NEW v \in LocalInputs, syncInput(field, v)
        PROVE  \E f \in FilterSet : Change(f)
    <3>1. v[1] \in 0..MaxNow /\ v[2] \in BOOLEAN
      <4>1. CASE v = <<NoInput, TRUE>>
        BY <4>1, <1>0 DEF NoInput
      <4>2. CASE \E t \in 0..MaxNow : v = <<t, FALSE>>
        BY <4>2
      <4> QED
        BY <4>1, <4>2 DEF LocalInputs
    <3>2. /\ [filters EXCEPT !.since = v[1], !.sinceBad = v[2]] \in FilterSet
          /\ [filters EXCEPT !.until = v[1], !.untilBad = v[2]] \in FilterSet
      BY <1>1, <3>1 DEF FilterSet
    <3> QED
      BY <2>2, <3>2 DEF syncInput
  <2>3. ASSUME NEW k \in Keys \cup {""}, Change([filters EXCEPT !.virtual_key_id = k])
        PROVE  \E f \in FilterSet : Change(f)
    <3>1. [filters EXCEPT !.virtual_key_id = k] \in FilterSet
      BY <1>1 DEF FilterSet
    <3> QED
      BY <2>3, <3>1
  <2>4. \E f \in FilterSet : Change(f)
    BY <1>5, <2>1, <2>2, <2>3 DEF ChangeFilter
  <2> QED
    BY <1>4, <2>4
<1>6. CASE PickFilter
  <2>0. \A r \in Row : CallOf[r].method \in Methods /\ CallOf[r].tool \in Tools \cup {""}
    BY LogsAssumption DEF Call
  <2>1. ASSUME NEW m \in methodOptions(Facets, filters.method),
               Pick([filters EXCEPT !.method = m])
        PROVE  \E f \in FilterSet : Pick(f)
    <3>1. filters.method \in Methods \cup {""}
      BY <1>1 DEF FilterSet
    <3>2. m \in Methods \cup {""}
      BY <3>1, <2>0, <1>2 DEF methodOptions
    <3>3. [filters EXCEPT !.method = m] \in FilterSet
      BY <1>1, <3>2 DEF FilterSet
    <3> QED
      BY <2>1, <3>3
  <2>2. ASSUME NEW v \in toolOptions(Facets, filters),
               Pick([filters EXCEPT !.tool = fromToolChoice(v).tool,
                                    !.noTool = fromToolChoice(v).noTool])
        PROVE  \E f \in FilterSet : Pick(f)
    <3> DEFINE c == fromToolChoice(v)
    <3>1. filters.tool \in Tools \cup {""}
      BY <1>1 DEF FilterSet
    <3>2. v[2] \in Tools \cup {""}
      <4>1. toolChoice(filters)[2] \in Tools \cup {""}
        BY <3>1 DEF toolChoice
      <4>2. \A x \in Facets.rows : CallOf[x].tool \in Tools \cup {""}
        BY <2>0, <1>2
      <4>3. \/ v = <<"all", "">> \/ v = <<"none", "">> \/ v = toolChoice(filters)
            \/ \E x \in Facets.rows : v = <<"tool", CallOf[x].tool>>
        BY DEF toolOptions
      <4>4. CASE v = <<"all", "">> \/ v = <<"none", "">>
        <5>1. <<"all", "">>[2] = "" /\ <<"none", "">>[2] = ""
          OBVIOUS
        <5> QED
          BY <4>4, <5>1, Zenon
      <4>5. CASE v = toolChoice(filters)
        BY <4>1, <4>5
      <4>6. CASE \E x \in Facets.rows : v = <<"tool", CallOf[x].tool>>
        <5>1. \A t : <<"tool", t>>[2] = t
          OBVIOUS
        <5> QED
          BY <4>2, <4>6, <5>1, Zenon
      <4> QED
        BY <4>3, <4>4, <4>5, <4>6
    <3>3. c.tool \in Tools \cup {""} /\ c.noTool \in BOOLEAN
      BY <3>2 DEF fromToolChoice
    <3> HIDE DEF c
    <3>4. [filters EXCEPT !.tool = c.tool, !.noTool = c.noTool] \in FilterSet
      BY <1>1, <3>3 DEF FilterSet
    <3> QED
      BY <2>2, <3>4 DEF c
  <2>3. \E f \in FilterSet : Pick(f)
    BY <1>6, <2>1, <2>2 DEF PickFilter
  <2> QED
    BY <1>4, <2>3
<1> QED
  BY <1>3, <1>5, <1>6

LEMMA FqType ==
    ASSUME ControlsTypeOK
    PROVE  fq \in QuerySet
<1>1. facetQuery(filters, anchor) \in QuerySet
  BY FacetQueryType DEF ControlsTypeOK
<1> QED
  BY <1>1 DEF fq, QuerySet

----------------------------------------------------------------------------
(* The facet part of each step.                                            *)

LEMMA FacetKept ==
    ASSUME FacetInv, UNCHANGED facetVars, fq' = fq
    PROVE  FacetInv'
<1>1. UNCHANGED <<timer, waitedFor, fgen, held, answer, freqs>>
  BY DEF facetVars
<1>2. FacetTypeOK'
  BY <1>1 DEF FacetInv, FacetTypeOK
<1>3. CountsAreSelected'
  BY <1>1 DEF FacetInv, CountsAreSelected, CountsSelected
<1>4. WalkIsHeld'
  BY <1>1 DEF FacetInv, WalkIsHeld
<1> QED
  BY <1>2, <1>3, <1>4 DEF FacetInv

\* Another facet query leaves only answers of the ones before it.
LEMMA NewFacetQueryInv ==
    ASSUME FacetInv, NEW q \in QuerySet, NewFacetQuery(q)
    PROVE  FacetInv'
<1>1. /\ timer' = q /\ waitedFor' = NoQuery /\ held' = NoQuery /\ fgen' = fgen + 1
      /\ freqs' \subseteq freqs /\ answer' = answer
  BY DEF NewFacetQuery, Settled
<1>2. /\ fgen \in Nat /\ freqs \subseteq FacetRequest /\ answer \in FacetAnswer
      /\ \A r \in freqs : r.gen <= fgen /\ r.gen \in Nat
  BY DEF FacetInv, FacetTypeOK, FacetRequest
<1>3. \A r \in freqs' : r.gen <= fgen' /\ r.gen # fgen'
  BY <1>1, <1>2
<1>4. FacetTypeOK'
  BY <1>1, <1>2, <1>3 DEF FacetTypeOK, QuerySet
<1>5. CountsAreSelected'
  BY <1>1 DEF FacetInv, CountsAreSelected, CountsSelected
<1>6. WalkIsHeld'
  BY <1>3 DEF WalkIsHeld
<1> QED
  BY <1>4, <1>5, <1>6 DEF FacetInv

LEMMA WaitEndsInv ==
    ASSUME FacetInv, ControlsTypeOK, WaitEnds, fq' = fq
    PROVE  FacetInv'
<1>1. UNCHANGED <<fgen, held, answer, freqs>> /\ waitedFor' = timer /\ timer' = NoQuery
  BY DEF WaitEnds
<1>2. FacetTypeOK'
  BY <1>1 DEF FacetInv, FacetTypeOK, QuerySet
<1>3. CountsAreSelected'
  BY <1>1 DEF FacetInv, CountsAreSelected, CountsSelected
<1>4. WalkIsHeld'
  BY <1>1 DEF FacetInv, WalkIsHeld
<1> QED
  BY <1>2, <1>3, <1>4 DEF FacetInv

\* A walk starts only when the ref holds none of this facet query.
LEMMA FacetFetchInv ==
    ASSUME FacetInv, ControlsTypeOK, FacetFetch, fq' = fq
    PROVE  FacetInv'
<1> DEFINE n == [gen |-> fgen, fq |-> fq, st |-> "sent", ok |-> FALSE, rows |-> {},
                 read |-> {}]
<1>1. /\ UNCHANGED <<timer, waitedFor, fgen, answer>> /\ held' = fq
      /\ freqs' = freqs \cup {n} /\ held # fq /\ fq # NoQuery
  BY DEF FacetFetch, Due, facetFetchDue
<1>2. fq \in Query /\ fgen \in Nat
  BY <1>1, FqType DEF QuerySet, FacetInv, FacetTypeOK
<1>3. n \in FacetRequest /\ n.gen = fgen /\ CountsSelected(n)
  BY <1>2 DEF FacetRequest, CountsSelected
<1>4. \A r \in freqs : r.gen # fgen
  BY <1>1 DEF FacetInv, WalkIsHeld
<1> HIDE DEF n
<1>5. FacetTypeOK'
  BY <1>1, <1>2, <1>3 DEF FacetInv, FacetTypeOK, QuerySet
<1>6. CountsAreSelected'
  BY <1>1, <1>3 DEF FacetInv, CountsAreSelected, CountsSelected
<1>7. WalkIsHeld'
  BY <1>1, <1>3, <1>4 DEF WalkIsHeld
<1> QED
  BY <1>5, <1>6, <1>7 DEF FacetInv

LEMMA FacetRespondInv ==
    ASSUME FacetInv, stored \subseteq Row, FacetRespond, fq' = fq
    PROVE  FacetInv'
<1>1. PICK r \in freqs, ok \in BOOLEAN :
         /\ freqs' = (freqs \ {r}) \cup
              {[r EXCEPT !.st = "answered", !.ok = ok,
                         !.rows = IF ok THEN {x \in stored : Selects(r.fq, x)} ELSE {},
                         !.read = IF ok THEN stored ELSE {}]}
         /\ UNCHANGED <<timer, waitedFor, fgen, held, answer>>
  BY DEF FacetRespond
<1> DEFINE found == IF ok THEN {x \in stored : Selects(r.fq, x)} ELSE {}
           seen == IF ok THEN stored ELSE {}
           n == [r EXCEPT !.st = "answered", !.ok = ok, !.rows = found, !.read = seen]
<1>2. /\ found \subseteq Row /\ seen \subseteq Row
      /\ found = {x \in seen : Selects(r.fq, x)}
      /\ freqs' = (freqs \ {r}) \cup {n}
  BY <1>1
<1>3. r \in FacetRequest /\ freqs \subseteq FacetRequest /\ r.gen <= fgen
  BY DEF FacetInv, FacetTypeOK
<1> HIDE DEF found, seen
<1>4. /\ n \in FacetRequest /\ n.gen = r.gen /\ n.fq = r.fq /\ n.rows = found
      /\ n.read = seen
  BY <1>2, <1>3 DEF FacetRequest
<1> HIDE DEF n
<1>5. FacetTypeOK'
  BY <1>1, <1>2, <1>3, <1>4 DEF FacetInv, FacetTypeOK
<1>6. CountsAreSelected'
  <2>1. CountsSelected(n)
    BY <1>2, <1>4 DEF CountsSelected
  <2>2. answer' = answer /\ \A s \in freqs' : s \in freqs \/ s = n
    BY <1>1, <1>2
  <2> QED
    BY <2>1, <2>2 DEF FacetInv, CountsAreSelected, CountsSelected
<1>7. WalkIsHeld'
  BY <1>1, <1>2, <1>4 DEF FacetInv, WalkIsHeld
<1> QED
  BY <1>5, <1>6, <1>7 DEF FacetInv

LEMMA FacetLandInv ==
    ASSUME FacetInv, FacetLand, fq' = fq
    PROVE  FacetInv'
<1>1. PICK r \in freqs :
         /\ freqs' = freqs \ {r}
         /\ answer' = IF r.gen # fgen THEN answer
                      ELSE [fq |-> r.fq, ok |-> r.ok, rows |-> r.rows, read |-> r.read,
                            error |-> IF r.ok THEN "" ELSE "failed"]
         /\ UNCHANGED <<timer, waitedFor, fgen, held>>
  BY DEF FacetLand
<1> DEFINE n == [fq |-> r.fq, ok |-> r.ok, rows |-> r.rows, read |-> r.read,
                 error |-> IF r.ok THEN "" ELSE "failed"]
<1>2. r \in FacetRequest
  BY DEF FacetInv, FacetTypeOK
<1>3. /\ n \in FacetAnswer /\ n.fq \in Query /\ n.fq = r.fq /\ n.rows = r.rows
      /\ n.read = r.read
  BY <1>2 DEF FacetRequest, FacetAnswer, QuerySet
<1>4. answer' = answer \/ answer' = n
  BY <1>1
<1> HIDE DEF n
<1>5. FacetTypeOK'
  BY <1>1, <1>3, <1>4 DEF FacetInv, FacetTypeOK
<1>6. CountsAreSelected'
  BY <1>1, <1>3, <1>4 DEF FacetInv, CountsAreSelected, CountsSelected
<1>7. WalkIsHeld'
  BY <1>1 DEF FacetInv, WalkIsHeld
<1> QED
  BY <1>5, <1>6, <1>7 DEF FacetInv

----------------------------------------------------------------------------
(* Every step of the page.                                                 *)

\* A commit asks the table for the query the new controls spell, if another.
LEMMA CommitInv ==
    ASSUME LogsInv, NEW f \in FilterSet, NEW a \in Start..MaxNow, Commit(f, a)
    PROVE  [PagesNext]_pageVars /\ LogsInv'
<1> DEFINE q == logQuery(f, a)
           new == facetQuery(f, a)
<1>1. q \in QuerySet /\ new \in QuerySet
  BY LogQueryType, FacetQueryType
<1>2. /\ filters' = f /\ anchor' = a /\ mounted' = TRUE /\ now' = now
      /\ IF q # query THEN StartGeneration(q) ELSE UNCHANGED pageVars
      /\ IF new # fq THEN NewFacetQuery(new) ELSE UNCHANGED facetVars
  BY DEF Commit
<1>3. fq' = new
  BY <1>2 DEF fq
<1>4. (IF mounted THEN logQuery(filters, anchor) ELSE NoQuery)' = q
  BY <1>2
<1> HIDE DEF q, new
<1>5. [PagesNext]_pageVars
  BY <1>1, <1>2 DEF PagesNext, QuerySet
<1>6. IInv'
  BY <1>5, PagesStepInv DEF LogsInv
<1>7. ControlsTypeOK'
  BY <1>2 DEF LogsInv, ControlsTypeOK
<1>8. query' = q
  BY <1>2 DEF StartGeneration, pageVars
<1>9. QueryOfFilters'
  BY <1>4, <1>8 DEF QueryOfFilters
<1>10. FacetInv'
  BY <1>1, <1>2, <1>3, NewFacetQueryInv, FacetKept DEF LogsInv
<1> QED
  BY <1>5, <1>6, <1>7, <1>9, <1>10 DEF LogsInv

LEMMA LogsInitInv == Init => LogsInv /\ PagesInit
<1> SUFFICES ASSUME Init PROVE LogsInv /\ PagesInit
  OBVIOUS
<1>1. PagesInit
  BY DEF Init
<1>2. IInv
  BY <1>1, PagesInitInv
<1>3. /\ now = Start /\ anchor = Start /\ mounted = FALSE /\ filters = DEFAULT_FILTERS
      /\ timer = NoQuery /\ waitedFor = NoQuery /\ fgen = 0 /\ held = NoQuery
      /\ answer = NoAnswer /\ freqs = {}
  BY DEF Init
<1>4. DEFAULT_FILTERS \in FilterSet
  <2>1. NoInput \in 0..MaxNow /\ "7d" \in Presets
    <3>1. MaxNow \in Nat /\ "7d" \in Presets
      BY LogsAssumption
    <3> QED
      BY <3>1 DEF NoInput
  <2> QED
    BY <2>1 DEF DEFAULT_FILTERS, FilterSet
<1>5. Start \in Start..MaxNow
  <2>1. Start \in Nat /\ MaxNow \in Nat /\ Start <= MaxNow
    BY LogsAssumption
  <2> QED
    BY <2>1
<1>6. ControlsTypeOK
  BY <1>3, <1>4, <1>5 DEF ControlsTypeOK
<1>7. QueryOfFilters
  BY <1>1, <1>3 DEF PagesInit, QueryOfFilters
<1>8. FacetTypeOK
  BY <1>3 DEF FacetTypeOK, FacetAnswer, NoAnswer, QuerySet
<1>9. CountsAreSelected /\ WalkIsHeld
  BY <1>3 DEF CountsAreSelected, CountsSelected, WalkIsHeld, NoAnswer
<1> QED
  BY <1>1, <1>2, <1>6, <1>7, <1>8, <1>9 DEF LogsInv, FacetInv

\* One step: the table moves as it may, and the invariant is kept.
LEMMA LogsStepInv == LogsInv /\ [Next]_vars => [PagesNext]_pageVars /\ LogsInv'
<1> SUFFICES ASSUME LogsInv, [Next]_vars
             PROVE  [PagesNext]_pageVars /\ LogsInv'
  OBVIOUS
<1>0. ControlsTypeOK /\ FacetInv /\ FacetTypeOK /\ IInv /\ QueryOfFilters
  BY DEF LogsInv, FacetInv
<1>1. CASE Mount \/ ChangeFilter \/ PickFilter
  <2>1. \E f \in FilterSet, a \in Start..MaxNow : Commit(f, a)
    BY <1>0, <1>1, ControlsCommit
  <2> QED
    BY <2>1, CommitInv
<1>2. ASSUME [PagesNext]_pageVars, UNCHANGED <<mounted, filters, anchor>>,
             query' = query, now' \in Start..MaxNow, fq' = fq => FacetInv'
      PROVE  [PagesNext]_pageVars /\ LogsInv'
  <2>1. IInv'
    BY <1>0, <1>2, PagesStepInv
  <2>2. fq' = fq
    BY <1>2 DEF fq
  <2>3. ControlsTypeOK'
    BY <1>0, <1>2 DEF ControlsTypeOK
  <2>4. QueryOfFilters'
    BY <1>0, <1>2 DEF QueryOfFilters
  <2> QED
    BY <1>2, <2>1, <2>2, <2>3, <2>4 DEF LogsInv
<1>3. now \in Start..MaxNow
  BY <1>0 DEF ControlsTypeOK
<1>4. CASE TableStep
  <2>1. UNCHANGED <<facetVars, now, mounted, filters, anchor>>
    BY <1>4 DEF TableStep
  <2>2. PagesNext
    BY <1>4 DEF TableStep, StoreCall, PagesNext, Insert
  <2>3. query' = query
    BY <1>4 DEF TableStep, LoadMore, Respond, Answer, Fail, Land, LandFirst, LandMore,
                LandStale, StoreCall, Insert
  <2> QED
    BY <1>0, <1>2, <1>3, <2>1, <2>2, <2>3, FacetKept
<1>5. CASE WaitEnds
  BY <1>0, <1>2, <1>3, <1>5, WaitEndsInv DEF WaitEnds, pageVars
<1>6. CASE FacetFetch
  BY <1>0, <1>2, <1>3, <1>6, FacetFetchInv DEF FacetFetch, pageVars
<1>7. CASE FacetRespond
  <2>1. stored \subseteq Row
    BY <1>0 DEF IInv, PagesTypeOK
  <2>2. UNCHANGED <<pageVars, now, mounted, filters, anchor>>
    BY <1>7 DEF FacetRespond
  <2> QED
    BY <1>0, <1>2, <1>3, <1>7, <2>1, <2>2, FacetRespondInv DEF pageVars
<1>8. CASE FacetLand
  <2>1. UNCHANGED <<pageVars, now, mounted, filters, anchor>>
    BY <1>8 DEF FacetLand
  <2> QED
    BY <1>0, <1>2, <1>3, <1>8, <2>1, FacetLandInv DEF pageVars
<1>9. CASE Tick
  <2>1. now' \in Start..MaxNow
    <3>1. MaxNow \in Nat /\ Start \in Nat /\ now < MaxNow /\ now' = now + 1
      BY <1>9, LogsAssumption DEF Tick
    <3> QED
      BY <3>1, <1>3
  <2> QED
    BY <1>0, <1>2, <1>9, <2>1, FacetKept DEF Tick, pageVars
<1>10. CASE UNCHANGED vars
  BY <1>0, <1>2, <1>3, <1>10, FacetKept DEF vars, pageVars, facetVars
<1> QED
  BY <1>1, <1>4, <1>5, <1>6, <1>7, <1>8, <1>9, <1>10 DEF Next

LEMMA LogsInvAlways == Spec => []LogsInv
<1>1. LogsInv /\ [Next]_vars => LogsInv'
  BY LogsStepInv
<1>2. Init => LogsInv
  BY LogsInitInv
<1> QED
  BY <1>1, <1>2, PTL DEF Spec

----------------------------------------------------------------------------
\* The page's state keeps its type, and no control ever spells a query outside
\* the ones the server knows (logs-view.ts, logs/page.tsx, use-log-facets.ts).
THEOREM LogsTypeCorrect == Spec => []TypeOK
<1>1. LogsInv => TypeOK
  <2> SUFFICES ASSUME LogsInv PROVE TypeOK
    OBVIOUS
  <2>1. PagesTypeOK /\ ControlsTypeOK /\ FacetTypeOK
    BY DEF LogsInv, FacetInv, IInv
  <2>2. freqs \subseteq [gen : 0..fgen, fq : Query, st : {"sent", "answered"},
                         ok : BOOLEAN, rows : SUBSET Row, read : SUBSET Row]
    BY <2>1 DEF FacetTypeOK, FacetRequest
  <2> QED
    BY <2>1, <2>2 DEF TypeOK, ControlsTypeOK, FacetTypeOK, FacetAnswer, QuerySet
<1> QED
  BY <1>1, LogsInvAlways, PTL

\* The page implements the hook's own specification: whatever the operator does
\* to the controls, the table sees one query after another and nothing else
\* (logs/page.tsx hands useCursorPages its query on every render).
THEOREM PageDrivesTable == Spec => PagesSpec
<1>1. Init => PagesInit
  BY LogsInitInv
<1>2. LogsInv /\ [Next]_vars => [PagesNext]_pageVars
  BY LogsStepInv
<1> QED
  BY <1>1, <1>2, LogsInvAlways, PTL DEF Spec, PagesSpec

\* On the page, the rows on screen are one unbroken run of the rows its controls
\* select, newest first (use-cursor-pages.ts:60-125).
THEOREM LogRowsAreOneRun == Spec => []RowsAreOneRun
BY PageDrivesTable, TableCorrect, PTL

\* On the page, Load more is offered exactly when a request that continues the
\* rows on screen is held, and a refused cursor is never sent again
\* (use-cursor-pages.ts:92-125, cursor-pages.ts).
THEOREM LogControlAgrees == Spec => []ControlAgrees
BY PageDrivesTable, TableCorrect, PTL

\* The counts in the Method and Tool lists are of the table's own window: of the
\* rows stored when they were counted, a row the table selects was counted, and a
\* counted row is one it selects when it meets the two choices: pick keeps the
\* anchor and an answer is tagged with its facet query (logs/page.tsx:94-99).
THEOREM CountsAreOfTheTable == Spec => []CountsDescribeTable
<1>1. LogsInv => CountsDescribeTable
  <2> SUFFICES ASSUME LogsInv, mounted, query # NoQuery, Facets.ok
               PROVE  /\ \A r \in Facets.rows : r \in Matches[query] <=> MeetsChoices(r)
                      /\ Facets.read \cap Matches[query] \subseteq Facets.rows
    BY DEF CountsDescribeTable
  <2>1. /\ answer.fq = fq /\ answer.ok
        /\ Facets.rows = answer.rows /\ Facets.read = answer.read
    BY DEF Facets, facetsFor, NoAnswer
  <2>2. /\ Facets.read \subseteq Row /\ fq \in Query
        /\ Facets.rows = {x \in Facets.read : Selects(fq, x)}
    BY <2>1 DEF LogsInv, FacetInv, FacetTypeOK, FacetAnswer, CountsAreSelected,
                CountsSelected
  <2>3. fq = facetQuery(filters, anchor) /\ query = logQuery(filters, anchor)
    BY DEF fq, LogsInv, QueryOfFilters
  <2>4. fq # NoQuery
    BY <2>2, PagesAssumption
  <2> DEFINE w == LogWindow(filters, anchor)
             g == [filters EXCEPT !.method = "", !.tool = "", !.noTool = FALSE]
  <2>5. filters \in FilterSet
    BY DEF LogsInv, ControlsTypeOK
  <2>6. /\ g.virtual_key_id = filters.virtual_key_id /\ g.method = "" /\ g.tool = ""
        /\ g.noTool = FALSE /\ g.period = filters.period /\ g.since = filters.since
        /\ g.until = filters.until
    BY <2>5 DEF FilterSet
  <2>7. LogWindow(g, anchor) = w
    <3> HIDE DEF g
    <3> QED
      BY <2>6 DEF LogWindow
  <2> HIDE DEF w
  <2>8. /\ fq.key = filters.virtual_key_id /\ fq.since = w.since /\ fq.until = w.until
        /\ fq.method = "" /\ fq.tool = "" /\ fq.noTool = FALSE
    <3> HIDE DEF g
    <3>1. fq = logQuery(g, anchor)
      BY <2>3 DEF facetQuery, g
    <3>2. logQuery(g, anchor) # NoQuery
      BY <2>4, <3>1
    <3> QED
      BY <3>1, <3>2, <2>6, <2>7 DEF logQuery
  <2>9. /\ query.key = filters.virtual_key_id /\ query.method = filters.method
        /\ query.noTool = filters.noTool
        /\ query.tool = IF filters.noTool THEN "" ELSE filters.tool
        /\ query.since = w.since /\ query.until = w.until
    BY <2>3 DEF logQuery, w
  <2>10. query \in Query
    BY DEF LogsInv, IInv, PagesTypeOK
  <2>11. \A r \in Row : r \in Matches[query] <=> Selects(query, r)
    BY <2>10, QueryAssumption DEF LogMatches
  <2>12. \A r \in Row : Selects(query, r) <=> Selects(fq, r) /\ MeetsChoices(r)
    BY <2>8, <2>9 DEF Selects, MeetsChoices
  <2> QED
    BY <2>2, <2>11, <2>12
<1> QED
  BY <1>1, LogsInvAlways, PTL

\* One facet query has one walk alive at the server's only SQLite connection,
\* however the operator picks (use-log-facets.ts:17-19).
THEOREM WalkIsAlone == Spec => []OneFacetWalk
<1>1. LogsInv => OneFacetWalk
  <2> SUFFICES ASSUME LogsInv PROVE OneFacetWalk
    OBVIOUS
  <2> DEFINE live == {r \in freqs : r.gen = fgen}
  <2>1. \A r, s \in live : r = s
    BY DEF LogsInv, FacetInv, WalkIsHeld
  <2>2. CASE live = {}
    BY <2>2, FS_EmptySet DEF OneFacetWalk
  <2>3. CASE live # {}
    <3>1. PICK r : live = {r}
      BY <2>1, <2>3
    <3>2. Cardinality(live) = 1
      BY <3>1, FS_Singleton
    <3> QED
      BY <3>2 DEF OneFacetWalk
  <2> QED
    BY <2>2, <2>3
<1> QED
  BY <1>1, LogsInvAlways, PTL
============================================================================
