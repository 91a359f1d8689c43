---------------------------- MODULE CursorPages ----------------------------
(***************************************************************************)
(* The dashboard's owner of a paged audit table (useCursorPages and the    *)
(* rules in cursor-pages.ts): one hook for Proxy calls and Admin activity. *)
(*                                                                         *)
(* A row is a natural number, its place in the server's order (timestamp,  *)
(* id): a larger row is newer.  The audit writer stores rows in batches,   *)
(* so a row may be stored after a newer one.  A cursor is the last row of  *)
(* the page it ends.  A request is sent, answered or failed by the server, *)
(* and landed by the browser, each in a step of its own.                   *)
(***************************************************************************)
EXTENDS Integers, Sequences, FiniteSets

CONSTANTS Query,      \* the queries the page can ask for
          NoQuery,    \* the null query: nothing is sent
          Row,        \* the rows the server may come to hold
          Matches,    \* Matches[q]: the rows query q selects
          NewestFirst,\* NewestFirst[S]: the rows of S, newest first
          PageSize,   \* PAGE_SIZE
          MaxGen      \* bound: generations (query changes) explored, the
                      \* last of them only for the null query

ASSUME PagesAssumption ==
    /\ NoQuery \notin Query
    /\ Row \subseteq Nat \ {0}
    /\ Matches \in [Query -> SUBSET Row]
    /\ NewestFirst \in [SUBSET Row -> Seq(Row)]
    /\ \A S \in SUBSET Row :
          /\ \A i, j \in 1..Len(NewestFirst[S]) :
                i < j => NewestFirst[S][i] > NewestFirst[S][j]
          /\ {NewestFirst[S][i] : i \in 1..Len(NewestFirst[S])} = S
    /\ PageSize \in Nat \ {0}
    /\ MaxGen \in Nat

VARIABLES
    stored,     \* server: the rows in the table
    query,      \* the query of the current render
    pages,      \* state: the page set, tagged with the query it answers
    error,      \* state: the line of a failed first page is shown
    moreError,  \* state: the line of a failed Load more is shown
    busy,       \* state: the control draws itself as busy
    seq,        \* ref: the generation
    inFlight,   \* ref: a Load more of this generation is under way
    next,       \* ref: the request a Load more sends
    reqs,       \* requests in the browser or at the server
    base        \* history: the rows stored when the first page was read

pageVars == <<stored, query, pages, error, moreError, busy, seq, inFlight,
              next, reqs, base>>

NoCursor == 0
NoRequest == [query |-> NoQuery, cursor |-> NoCursor]
Failure == {"refused", "other"}  \* a 400, or anything else
Unanswered == [ok |-> FALSE, rows |-> <<>>, next |-> NoCursor, why |-> "none",
               read |-> {}]

(***************************************************************************)
(* The server: GET /logs and GET /admin-events.  One more row than the     *)
(* page is read, and the extra one only decides whether there is a cursor. *)
(***************************************************************************)
Older(cursor, r) == cursor = NoCursor \/ r < cursor

ListPage(q, cursor) ==
    LET found == NewestFirst[{r \in stored \cap Matches[q] : Older(cursor, r)}]
        more  == Len(found) > PageSize
        page  == IF more THEN SubSeq(found, 1, PageSize) ELSE found
    IN  [ok |-> TRUE, rows |-> page, why |-> "none", read |-> stored \cap Matches[q],
         next |-> IF more THEN page[PageSize] ELSE NoCursor]

(***************************************************************************)
(* The rules of cursor-pages.ts.                                           *)
(***************************************************************************)
EndOf(cursor) == IF cursor # NoCursor THEN "more" ELSE "last"

emptyPages == [query |-> NoQuery, rows |-> <<>>, cursor |-> NoCursor,
               end |-> "last"]

startQuery(p) == [p EXCEPT !.query = NoQuery, !.cursor = NoCursor,
                           !.end = "last"]

firstPage(q, rows, cursor) ==
    [query |-> q, rows |-> rows, cursor |-> cursor, end |-> EndOf(cursor)]

appended(p, rows, cursor) ==
    [p EXCEPT !.rows = @ \o rows, !.cursor = cursor, !.end = EndOf(cursor)]

\* Mutant: every failure keeps the control.
AfterMoreFailureKeeps(p, why) == p

\* A 400 is a cursor the server refuses; any other failure keeps the cursor.
afterMoreFailure(p, why) ==
    IF why = "refused" THEN [p EXCEPT !.cursor = NoCursor, !.end = "refused"]
    ELSE p

exposedEnd(p, q) == IF p.query # NoQuery /\ p.query = q THEN p.end ELSE "none"

showEmpty(p, q) == exposedEnd(p, q) # "none" /\ p.rows = <<>>

nextRequest(p, q) ==
    IF p.query = NoQuery \/ exposedEnd(p, q) # "more" THEN NoRequest
    ELSE [query |-> p.query, cursor |-> p.cursor]

(***************************************************************************)
(* What LoadMore draws under the table: the status line and, while another *)
(* page waits, the button.                                                 *)
(***************************************************************************)
countLine(end) == CASE end = "none" -> ""
                    [] end = "last" -> "shown, none older"
                    [] OTHER        -> "shown"

StatusLine == IF showEmpty(pages, query) THEN "empty"
              ELSE IF pages.rows # <<>> THEN countLine(exposedEnd(pages, query))
              ELSE ""

MoreOffered == exposedEnd(pages, query) = "more"

(***************************************************************************)
(* The hook.                                                               *)
(***************************************************************************)
PagesInit ==
    /\ stored \in SUBSET Row
    /\ query = NoQuery
    /\ pages = emptyPages
    /\ error = FALSE /\ moreError = FALSE
    /\ busy = FALSE /\ inFlight = FALSE
    /\ seq = 0
    /\ next = NoRequest
    /\ reqs = {}
    /\ base = {}

Request(gen, kind, q, cursor) ==
    [gen |-> gen, kind |-> kind, query |-> q, cursor |-> cursor,
     st |-> "sent", body |-> Unanswered]

\* An abort ends the requests still out, whose rejection then sets nothing;
\* an answer that came before the abort is still to be handled.
Settled(rs) == {r \in rs : r.st = "answered"}

\* The effect of a render with another query: the old generation's controller
\* is aborted (cleanup), then the state is reset and the first page asked for.
StartGeneration(q) ==
    /\ seq < IF q = NoQuery THEN MaxGen ELSE MaxGen - 1
    /\ query' = q
    /\ seq' = seq + 1
    /\ inFlight' = FALSE
    /\ next' = NoRequest
    /\ pages' = startQuery(pages)
    /\ error' = FALSE /\ moreError' = FALSE
    /\ busy' = FALSE
    /\ reqs' = Settled(reqs) \cup
               (IF q = NoQuery THEN {}
                ELSE {Request(seq + 1, "first", q, NoCursor)})
    /\ UNCHANGED <<stored, base>>

\* A press of Load more.
LoadMore ==
    /\ MoreOffered
    /\ ~inFlight
    /\ next # NoRequest
    /\ inFlight' = TRUE
    /\ busy' = TRUE
    /\ moreError' = FALSE
    /\ reqs' = reqs \cup {Request(seq, "more", next.query, next.cursor)}
    /\ UNCHANGED <<stored, query, pages, error, seq, next, base>>

\* Mutant: an answer is taken whenever it comes.
StaleNever(r) == FALSE

\* The browser drops what an aborted generation gets back.
Stale(r) == r.gen # seq

Replace(r, body) == (reqs \ {r}) \cup {[r EXCEPT !.st = "answered", !.body = body]}

\* The server's answer, or a failure of the request on either side.
Answer(r) ==
    /\ r.st = "sent"
    /\ reqs' = Replace(r, ListPage(r.query, r.cursor))
    /\ UNCHANGED <<stored, query, pages, error, moreError, busy, seq, inFlight,
                   next, base>>

Fail(r, why) ==
    /\ r.st = "sent"
    /\ why = "refused" => r.kind = "more"
    /\ reqs' = Replace(r, [Unanswered EXCEPT !.why = why])
    /\ UNCHANGED <<stored, query, pages, error, moreError, busy, seq, inFlight,
                   next, base>>

\* Mutant: a failed first page says nothing.
LandFirstQuiet(r) ==
    /\ r.kind = "first" /\ r.st = "answered" /\ ~Stale(r) /\ ~r.body.ok
    /\ reqs' = reqs \ {r}
    /\ UNCHANGED <<stored, query, pages, error, moreError, busy, seq, inFlight,
                   next, base>>

\* The first page's two callbacks.
LandFirst(r) ==
    /\ r.kind = "first" /\ r.st = "answered" /\ ~Stale(r)
    /\ IF r.body.ok
       THEN LET p == firstPage(r.query, r.body.rows, r.body.next)
            IN  /\ pages' = p
                /\ next' = nextRequest(p, r.query)
                /\ base' = r.body.read
                /\ UNCHANGED error
       ELSE /\ error' = TRUE
            /\ UNCHANGED <<pages, next, base>>
    /\ reqs' = reqs \ {r}
    /\ UNCHANGED <<stored, query, moreError, busy, seq, inFlight>>

\* Load more's two callbacks.
LandMore(r) ==
    /\ r.kind = "more" /\ r.st = "answered" /\ ~Stale(r)
    /\ IF r.body.ok
       THEN /\ pages' = appended(pages, r.body.rows, r.body.next)
            /\ next' = IF r.body.next # NoCursor
                       THEN [query |-> r.query, cursor |-> r.body.next]
                       ELSE NoRequest
            /\ UNCHANGED moreError
       ELSE /\ moreError' = TRUE
            /\ pages' = afterMoreFailure(pages, r.body.why)
            /\ next' = IF r.body.why = "refused" THEN NoRequest ELSE next
    /\ inFlight' = FALSE
    /\ busy' = FALSE
    /\ reqs' = reqs \ {r}
    /\ UNCHANGED <<stored, query, error, seq, base>>

\* Either callback of a request whose generation is over: it sets nothing.
LandStale(r) ==
    /\ Stale(r)
    /\ reqs' = reqs \ {r}
    /\ UNCHANGED <<stored, query, pages, error, moreError, busy, seq, inFlight,
                   next, base>>

\* The audit writer stores a row, not necessarily in the rows' order.
Insert(x) ==
    /\ x \in Row \ stored
    /\ stored' = stored \cup {x}
    /\ UNCHANGED <<query, pages, error, moreError, busy, seq, inFlight, next,
                   reqs, base>>

Respond == \E r \in reqs : Answer(r) \/ \E why \in Failure : Fail(r, why)

Land == \E r \in reqs : LandFirst(r) \/ LandMore(r) \/ LandStale(r)

\* The table under any page that hands the hook a query.
PagesNext ==
    \/ \E q \in (Query \cup {NoQuery}) \ {query} : StartGeneration(q)
    \/ LoadMore
    \/ Respond
    \/ Land
    \/ \E x \in Row : Insert(x)

PagesSpec == PagesInit /\ [][PagesNext]_pageVars
----------------------------------------------------------------------------
Body == [ok : BOOLEAN, rows : Seq(Row), next : Row \cup {NoCursor},
         why : Failure \cup {"none"}, read : SUBSET Row]

PagesTypeOK ==
    /\ stored \subseteq Row /\ base \subseteq Row
    /\ query \in Query \cup {NoQuery}
    /\ pages \in [query : Query \cup {NoQuery}, rows : Seq(Row),
                  cursor : Row \cup {NoCursor},
                  end : {"more", "last", "refused"}]
    /\ error \in BOOLEAN /\ moreError \in BOOLEAN
    /\ busy \in BOOLEAN /\ inFlight \in BOOLEAN
    /\ seq \in Nat
    /\ next \in [query : Query \cup {NoQuery}, cursor : Row \cup {NoCursor}]
    /\ reqs \subseteq [gen : Nat, kind : {"first", "more"}, query : Query,
                       cursor : Row \cup {NoCursor},
                       st : {"sent", "answered"}, body : Body]

Shown == {pages.rows[i] : i \in 1..Len(pages.rows)}

(***************************************************************************)
(* The rows on screen, whenever they count as the current query's answer,  *)
(* are one unbroken run of that query's rows, newest first: each is there  *)
(* once, each matches, none that was stored when the first page was read   *)
(* is skipped, and "no older" (or the empty copy) is said only when none   *)
(* of those is missing below.  It needs the generation test of every callback *)
(* (use-cursor-pages.ts:81,103), the in-flight guard (:95) and the frozen  *)
(* query and cursor of `next`.                                             *)
(***************************************************************************)
RowsAreOneRun ==
    exposedEnd(pages, query) # "none" =>
        /\ \A i, j \in 1..Len(pages.rows) : i < j => pages.rows[i] > pages.rows[j]
        /\ Shown \subseteq Matches[query]
        /\ \A r \in (base \cap Matches[query]) \ Shown :
              /\ StatusLine \notin {"empty", "shown, none older"}
              /\ \A s \in Shown : r < s

(***************************************************************************)
(* The control and the ref agree: Load more is offered exactly when `next` *)
(* holds a request, and that request continues the rows on screen.  A      *)
(* refused cursor is in neither, so it is never sent again.                *)
(***************************************************************************)
ControlAgrees ==
    /\ next = nextRequest(pages, query)
    /\ next # NoRequest => /\ pages.rows # <<>>
                           /\ next.cursor = pages.rows[Len(pages.rows)]
============================================================================
