------------------------------ MODULE LogsPage ------------------------------
(***************************************************************************)
(* The Logs page: the Proxy calls filters and their window, the paged      *)
(* table (CursorPages) and the Method, Tool and Status lists with their    *)
(* counts (useLogFacets), which share one window.                          *)
(*                                                                         *)
(* Time is counted in ticks, MINUTE of them to a minute.  A row's place in *)
(* the order is its time.  React runs the effects of a click's render      *)
(* before the next event, and of any other render before the next render:  *)
(* a filter change commits in one step, and waits for a facet effect that  *)
(* is due.                                                                 *)
(***************************************************************************)
EXTENDS CursorPages

CONSTANTS Keys, Methods, Tools,  \* the values rows carry
          CallOf,       \* CallOf[r]: what row r recorded
          PERIODS,      \* preset -> hours, in ticks; "custom" is not one
          MINUTE,       \* ticks in a minute
          Start, MaxNow,\* the clock's first and last tick
          Late          \* calls made by Start that are not stored yet

Presets == DOMAIN PERIODS
NoInput == 0          \* an empty datetime-local box; ticks start at 1
Unbounded == MaxNow + MINUTE

\* A row records no method only before v0.1.0; "" is no tool.
Call == [key : Keys, method : Methods, tool : Tools \cup {""}]

ASSUME LogsAssumption ==
    /\ CallOf \in [Row -> Call]
    /\ Row \subseteq 1..MaxNow /\ Late \subseteq Row
    /\ "" \notin Keys \cup Methods \cup Tools
    /\ "7d" \in Presets /\ "custom" \notin Presets
    /\ \A p \in Presets : PERIODS[p] \in 1..(Start - 1)
    /\ MINUTE \in Nat \ {0}
    /\ Start \in Nat /\ MaxNow \in Nat /\ Start <= MaxNow

VARIABLES
    now,        \* the clock
    mounted,    \* the page is on screen
    filters,    \* state: the controls
    anchor,     \* state: the moment a preset's start is measured from
    timer,      \* the facet query whose wait is running
    waitedFor,  \* state: the facet query whose wait has ended
    fgen,       \* one per facet query committed: its AbortController
    held,       \* ref: the facet query in flight or done
    answer,     \* state: the last facet answer, tagged with its query
    freqs       \* facet requests under way

facetVars == <<timer, waitedFor, fgen, held, answer, freqs>>
vars == <<pageVars, facetVars, now, mounted, filters, anchor>>

(***************************************************************************)
(* logs-view.ts: the window and the two queries.                           *)
(***************************************************************************)
DEFAULT_FILTERS ==
    [virtual_key_id |-> "", method |-> "", tool |-> "", noTool |-> FALSE,
     period |-> "7d", since |-> NoInput, until |-> NoInput,
     sinceBad |-> FALSE, untilBad |-> FALSE]

\* A datetime-local value holds whole minutes.
toLocalInput(t) == t - (t % MINUTE)
untilFromLocalInput(v) == IF v = NoInput THEN Unbounded ELSE v + MINUTE - 1

LogWindow(f, a) ==
    IF f.period = "custom"
    THEN [since |-> f.since, until |-> untilFromLocalInput(f.until)]
    ELSE [since |-> a - PERIODS[f.period], until |-> Unbounded]

customPrefill(f, a) == toLocalInput(a - PERIODS[f.period])

customProblems(f) ==
    [since |-> IF f.sinceBad THEN "incomplete"
               ELSE IF f.since = NoInput THEN "missing" ELSE "",
     until |-> IF f.untilBad THEN "incomplete"
               ELSE IF /\ f.since # NoInput /\ f.until # NoInput
                       /\ untilFromLocalInput(f.until) < f.since
                    THEN "before since" ELSE ""]

\* None sends has_tool=false and never a tool.
logQuery(f, a) ==
    IF f.period = "custom" /\ (customProblems(f).since # "" \/ f.untilBad)
    THEN NoQuery
    ELSE [key |-> f.virtual_key_id, method |-> f.method,
          tool |-> IF f.noTool THEN "" ELSE f.tool, noTool |-> f.noTool,
          since |-> LogWindow(f, a).since, until |-> LogWindow(f, a).until]

facetQuery(f, a) ==
    logQuery([f EXCEPT !.method = "", !.tool = "", !.noTool = FALSE], a)

Selects(q, r) ==
    /\ q.key \in {"", CallOf[r].key}
    /\ q.method \in {"", CallOf[r].method}
    /\ IF q.noTool THEN CallOf[r].tool = "" ELSE q.tool \in {"", CallOf[r].tool}
    /\ q.since <= r /\ r <= q.until

\* The queries the page can send, and the rows each selects.
LogQueries ==
    [key : Keys \cup {""}, method : Methods \cup {""}, tool : Tools \cup {""},
     noTool : BOOLEAN, since : 0..MaxNow,
     until : {Unbounded} \cup {t + MINUTE - 1 : t \in 1..MaxNow}]
LogMatches == [q \in LogQueries |-> {r \in Row : Selects(q, r)}]

ASSUME QueryAssumption == Query = LogQueries /\ Matches = LogMatches

(***************************************************************************)
(* The facet lists.  An answer is the rows it counted; read is history,    *)
(* the rows stored when they were counted.                                 *)
(***************************************************************************)
NoAnswer == [fq |-> NoQuery, ok |-> FALSE, rows |-> {}, read |-> {}, error |-> ""]

\* Mutant: the last answer is shown whatever it answers.
FacetsForAny(ans, q) == ans

facetsFor(ans, q) == IF ans.fq = q THEN ans ELSE [NoAnswer EXCEPT !.fq = q]

\* Mutants: a held request is not asked about; the wait starts nothing.
FacetFetchDueAgain(heldFq, q, isAnswered, waited) ==
    q # NoQuery /\ (isAnswered \/ waited)
FacetFetchDueRows(heldFq, q, isAnswered, waited) ==
    q # NoQuery /\ heldFq # q /\ isAnswered

facetFetchDue(heldFq, q, isAnswered, waited) ==
    q # NoQuery /\ heldFq # q /\ (isAnswered \/ waited)

\* What the selects offer: a chosen value stays offered when it is not listed.
methodOptions(ans, selected) ==
    {"", selected} \cup {CallOf[r].method : r \in ans.rows}

toolChoice(f) == IF f.noTool THEN <<"none", "">>
                 ELSE IF f.tool = "" THEN <<"all", "">> ELSE <<"tool", f.tool>>

\* Mutant: None is taken for a tool's name.
FromToolChoiceNamed(v) == [tool |-> v[1], noTool |-> FALSE]

fromToolChoice(v) == [tool |-> v[2], noTool |-> v[1] = "none"]

toolOptions(ans, f) ==
    {<<"all", "">>, toolChoice(f)}
      \cup {<<"none", "">> : r \in {x \in ans.rows : CallOf[x].tool = ""}}
      \cup {<<"tool", CallOf[r].tool>> : r \in {x \in ans.rows : CallOf[x].tool # ""}}

fq == IF mounted THEN facetQuery(filters, anchor) ELSE NoQuery
listAnswered == exposedEnd(pages, query) # "none"
Due == facetFetchDue(held, fq, listAnswered, waitedFor = fq)
Facets == facetsFor(answer, fq)
----------------------------------------------------------------------------
Init ==
    /\ PagesInit
    /\ now = Start
    /\ stored = {r \in Row \ Late : r <= Start}
    /\ mounted = FALSE
    /\ filters = DEFAULT_FILTERS
    /\ anchor = Start
    /\ timer = NoQuery /\ waitedFor = NoQuery
    /\ fgen = 0
    /\ held = NoQuery
    /\ answer = NoAnswer
    /\ freqs = {}

\* The [fq] effect: the cleanup of the last facet query, then its own wait.
NewFacetQuery(new) ==
    /\ timer' = new
    /\ waitedFor' = NoQuery
    /\ held' = NoQuery
    /\ fgen' = fgen + 1
    /\ freqs' = Settled(freqs)
    /\ UNCHANGED answer

\* A render with these filters and its effects.
Commit(f, a) ==
    /\ filters' = f
    /\ anchor' = a
    /\ mounted' = TRUE
    /\ LET q == logQuery(f, a)
       IN  IF q # query THEN StartGeneration(q) ELSE UNCHANGED pageVars
    /\ LET new == facetQuery(f, a)
       IN  IF new # fq THEN NewFacetQuery(new) ELSE UNCHANGED facetVars
    /\ UNCHANGED now

Mount == ~mounted /\ Commit(filters, now)

\* change: a new window, measured from now.
Change(f) == mounted /\ ~Due /\ f # filters /\ Commit(f, now)

\* pick: Method and Tool keep the anchor.
Pick(f) == mounted /\ ~Due /\ f # filters /\ Commit(f, anchor)

changePeriod(p) ==
    IF p = "custom" /\ filters.period # "custom"
    THEN Change([filters EXCEPT !.period = p, !.until = NoInput,
                                !.since = customPrefill(filters, anchor),
                                !.sinceBad = FALSE, !.untilBad = FALSE])
    ELSE Change([filters EXCEPT !.period = p])

\* What a datetime-local box can hold: a whole value, nothing, or a value the
\* browser cannot read, which it gives as "" with badInput.
LocalInputs == {<<v, FALSE>> : v \in {t \in 0..MaxNow : t % MINUTE = 0}}
               \cup {<<NoInput, TRUE>>}

syncInput(field, v) ==
    /\ filters.period = "custom"
    /\ IF field = "since"
       THEN Change([filters EXCEPT !.since = v[1], !.sinceBad = v[2]])
       ELSE Change([filters EXCEPT !.until = v[1], !.untilBad = v[2]])

\* The controls of the page: four selects and, for Custom, two inputs.  The
\* Status select is read and sent as the Virtual key select is, and left out.
ChangeFilter ==
    \/ \E p \in Presets \cup {"custom"} : changePeriod(p)
    \/ \E field \in {"since", "until"}, v \in LocalInputs : syncInput(field, v)
    \/ \E k \in Keys \cup {""} : Change([filters EXCEPT !.virtual_key_id = k])

PickFilter ==
    \/ \E m \in methodOptions(Facets, filters.method) :
          Pick([filters EXCEPT !.method = m])
    \/ \E v \in toolOptions(Facets, filters) :
          Pick([filters EXCEPT !.tool = fromToolChoice(v).tool,
                               !.noTool = fromToolChoice(v).noTool])

\* FACET_WAIT_MS after the facet query changed.
WaitEnds ==
    /\ timer # NoQuery
    /\ waitedFor' = timer
    /\ timer' = NoQuery
    /\ UNCHANGED <<pageVars, now, mounted, filters, anchor, fgen, held, answer,
                   freqs>>

\* The second effect: one request for a facet query.
FacetFetch ==
    /\ Due
    /\ held' = fq
    /\ freqs' = freqs \cup {[gen |-> fgen, fq |-> fq, st |-> "sent",
                             ok |-> FALSE, rows |-> {}, read |-> {}]}
    /\ UNCHANGED <<pageVars, now, mounted, filters, anchor, timer, waitedFor,
                   fgen, answer>>

FacetRespond ==
    \E r \in freqs, ok \in BOOLEAN :
       /\ r.st = "sent"
       /\ freqs' = (freqs \ {r}) \cup
             {[r EXCEPT !.st = "answered", !.ok = ok,
                        !.rows = IF ok THEN {x \in stored : Selects(r.fq, x)}
                                 ELSE {},
                        !.read = IF ok THEN stored ELSE {}]}
       /\ UNCHANGED <<pageVars, now, mounted, filters, anchor, timer,
                      waitedFor, fgen, held, answer>>

\* Its two callbacks; an aborted request sets nothing.
FacetLand ==
    \E r \in freqs :
       /\ r.st = "answered"
       /\ freqs' = freqs \ {r}
       /\ answer' = IF r.gen # fgen THEN answer
                    ELSE [fq |-> r.fq, ok |-> r.ok, rows |-> r.rows, read |-> r.read,
                          error |-> IF r.ok THEN "" ELSE "failed"]
       /\ UNCHANGED <<pageVars, now, mounted, filters, anchor, timer,
                      waitedFor, fgen, held>>

Tick ==
    /\ now < MaxNow
    /\ now' = now + 1
    /\ UNCHANGED <<pageVars, facetVars, mounted, filters, anchor>>

\* A call made by now is stored.
StoreCall == \E x \in 1..now : Insert(x)

TableStep ==
    /\ LoadMore \/ Respond \/ Land \/ StoreCall
    /\ UNCHANGED <<facetVars, now, mounted, filters, anchor>>

Next ==
    \/ Mount \/ ChangeFilter \/ PickFilter
    \/ TableStep
    \/ WaitEnds \/ FacetFetch \/ FacetRespond \/ FacetLand
    \/ Tick

\* The browser runs what is due and the server answers or fails every request
\* (its reads have a deadline).
Fairness ==
    /\ WF_vars(Mount)
    /\ WF_vars(Respond /\ UNCHANGED <<facetVars, now, mounted, filters, anchor>>)
    /\ WF_vars(Land /\ UNCHANGED <<facetVars, now, mounted, filters, anchor>>)
    /\ WF_vars(WaitEnds) /\ WF_vars(FacetFetch)
    /\ WF_vars(FacetRespond) /\ WF_vars(FacetLand)

Spec == Init /\ [][Next]_vars /\ Fairness
----------------------------------------------------------------------------
FilterSet ==
    [virtual_key_id : Keys \cup {""}, method : Methods \cup {""},
     tool : Tools \cup {""}, noTool : BOOLEAN,
     period : Presets \cup {"custom"}, since : 0..MaxNow, until : 0..MaxNow,
     sinceBad : BOOLEAN, untilBad : BOOLEAN]

TypeOK ==
    /\ PagesTypeOK
    /\ now \in Start..MaxNow /\ anchor \in Start..MaxNow
    /\ mounted \in BOOLEAN /\ fgen \in Nat
    /\ filters \in FilterSet
    /\ {timer, waitedFor, held} \subseteq Query \cup {NoQuery}
    /\ answer \in [fq : Query \cup {NoQuery}, ok : BOOLEAN, rows : SUBSET Row,
                   read : SUBSET Row, error : {"", "failed"}]
    /\ freqs \subseteq [gen : 0..fgen, fq : Query, st : {"sent", "answered"},
                        ok : BOOLEAN, rows : SUBSET Row, read : SUBSET Row]

(***************************************************************************)
(* The counts in the selects describe the rows the table lists: a counted  *)
(* row is one the table's query selects exactly when it meets the Method   *)
(* and Tool choices, and every row the table's query selects was counted,  *)
(* if it was stored when they were.  So the two reads are of one window,   *)
(* neither wider nor narrower: pick keeps the anchor, and an answer is     *)
(* tagged with its facet query (logs/page.tsx:94-99, logs-view.ts:310).    *)
(***************************************************************************)
MeetsChoices(r) ==
    /\ filters.method \in {"", CallOf[r].method}
    /\ IF filters.noTool THEN CallOf[r].tool = ""
       ELSE filters.tool \in {"", CallOf[r].tool}

CountsDescribeTable ==
    (mounted /\ query # NoQuery /\ Facets.ok) =>
        /\ \A r \in Facets.rows : r \in Matches[query] <=> MeetsChoices(r)
        /\ Facets.read \cap Matches[query] \subseteq Facets.rows

(***************************************************************************)
(* The facet walk takes the server's one SQLite connection: a facet query  *)
(* has at most one request alive, however many Method and Tool picks and   *)
(* table answers happen under it (use-log-facets.ts:17-19).                *)
(***************************************************************************)
OneFacetWalk == Cardinality({r \in freqs : r.gen = fgen}) <= 1

(***************************************************************************)
(* Every query the page sends is answered on screen, by rows or by an      *)
(* error line, unless the operator moves on: an answer dropped as stale is *)
(* never the one the screen waits for (use-cursor-pages.ts:66-90).         *)
(***************************************************************************)
QuerySettles == (query # NoQuery) ~> (pages.query = query \/ error)

(***************************************************************************)
(* The lists get their counts, or their error, even when the table's first *)
(* page never comes: the wait starts the walk (use-log-facets.ts:6-12).    *)
(* Nothing is asked while the Custom period cannot be read, and the last   *)
(* answer then stays with the query it was for (use-log-facets.ts:42).     *)
(***************************************************************************)
FacetsSettle == (mounted /\ fq # NoQuery) ~> (answer.fq = fq \/ fq = NoQuery)
============================================================================
