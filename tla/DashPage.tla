------------------------------ MODULE DashPage ------------------------------
(***************************************************************************)
(* What the dashboard's pages share: one page is mounted, its requests go  *)
(* to the admin API and their answers land in whatever order they come.    *)
(*                                                                         *)
(* The pages order answers with sequence numbers: a request remembers the  *)
(* number it saw and its callback compares it with the current one.  Only  *)
(* that comparison matters, so a request here carries `mine`, true until   *)
(* the page bumps the number it was compared with.                         *)
(***************************************************************************)
EXTENDS Naturals, FiniteSets

CONSTANTS MaxOut,     \* bound: requests out at one time
          Referenced  \* the ids of the rows that another row refers to

VARIABLES srv,        \* the rows of the admin API
          ui,         \* the state, refs and history of the mounted page
          reqs        \* the requests sent and not landed

dashVars == <<srv, ui, reqs>>

NoRow == [id |-> ""]
NoAnswer == [ok |-> FALSE, code |-> 0, row |-> NoRow, rows |-> {}]

\* A failure the browser can meet: a refusal, a row that is gone, a conflict,
\* too many requests, or no answer at all.
Refused == 400
Gone == 404
Conflict == 409
TooMany == 429
Network == 0

Request(kind, id, arg) ==
    [kind |-> kind, id |-> id, arg |-> arg, mine |-> TRUE, st |-> "sent",
     ans |-> NoAnswer]

\* rs with one more request, in the first free slot.
With(rs, req) ==
    LET used == {r.n : r \in rs}
        n == CHOOSE k \in 1..MaxOut : /\ k \notin used
                                      /\ \A j \in 1..(k - 1) : j \in used
    IN  rs \cup {[kind |-> req.kind, id |-> req.id, arg |-> req.arg,
                  mine |-> req.mine, st |-> req.st, ans |-> req.ans, n |-> n]}

Room == Cardinality(reqs) < MaxOut

\* ++seq.current, for the sequence that requests of these kinds compare.
Bumped(rs, kinds) ==
    {IF r.kind \in kinds THEN [r EXCEPT !.mine = FALSE] ELSE r : r \in rs}

Out(kinds) == {r \in reqs : r.kind \in kinds}
Mine(kinds) == {r \in reqs : r.kind \in kinds /\ r.mine}

\* The server's reply reaches the browser.
Replied(r, ans) == (reqs \ {r}) \cup {[r EXCEPT !.st = "answered", !.ans = ans]}
Ok(row, rows) == [ok |-> TRUE, code |-> 200, row |-> row, rows |-> rows]
Err(code) == [NoAnswer EXCEPT !.code = code]

\* A page's operators give the next state of the page and of its requests.
Apply(s) == ui' = s.ui /\ reqs' = s.reqs /\ UNCHANGED srv

\* The scenario's budget for a kind of step.
Can(k) == ui.budget[k] > 0
Spend(u, k) == [u EXCEPT !.budget[k] = @ - 1]

\* The row in the table is replaced by the one a save answered.
Replaced(items, row) == {IF x.id = row.id THEN row ELSE x : x \in items}

\* load() after a 404: the row is gone.
Reload(rs, r) == IF r.ans.code = Gone THEN With(rs, Request("list", "", NoRow)) ELSE rs

Row(id) == CHOOSE u \in srv : u.id = id
Listed(id) == \E u \in srv : u.id = id

\* The ids a new row may get.  The server draws a fresh uuid, so never one that
\* a row has or had: not one of held, and none that the table, a dialog, a
\* request or an answer still mentions.
Fresh(ids, held) ==
    LET answered == UNION {r.ans.rows \cup {r.ans.row} : r \in reqs}
        shown == ui.items \cup {ui.editing, ui.pendingDelete}
    IN  {i \in ids \ held : /\ ~Listed(i) /\ ~\E r \in reqs : r.id = i
                            /\ ~\E x \in answered \cup shown : x.id = i}

mode == IF ui.editing = NoRow THEN "create" ELSE "edit"

----------------------------------------------------------------------------
(* The dialog and the delete Alert every page has.                         *)

\* The requests of one submit: a create, or a save that may read first.
Saves == {"create", "read", "patch"}

\* A new dialog: no request of an earlier one is its own, nor is a message.
opened(u, rs) ==
    [ui |-> Spend([u EXCEPT !.saving = FALSE, !.open = TRUE,
                     !.formError = IF @ = "" THEN "" ELSE "other"], "opens"),
     reqs |-> Bumped(rs, Saves)]

\* Mutant: a failure is shown wherever a dialog is open.
FailedAnywhere(u, r) ==
    IF u.open THEN [u EXCEPT !.formError = IF r.mine THEN "own" ELSE "other"]
    ELSE [u EXCEPT !.error = TRUE]

\* A failed request, shown in its own dialog or on the page.
failed(u, r) ==
    IF u.open /\ r.mine THEN [u EXCEPT !.formError = "own"]
    ELSE [u EXCEPT !.error = TRUE]

\* DELETE refuses a row that is still referenced.
Deleted(id) == IF id \in Referenced THEN [srv |-> srv, ans |-> Err(Conflict)]
               ELSE [srv |-> {x \in srv : x.id # id}, ans |-> Ok(NoRow, {})]

\* finally: only the dialog the request came from is idle again.
Finally(u, r) == IF r.mine THEN [u EXCEPT !.saving = FALSE] ELSE u

closeDelete ==
    /\ ui.pendingDelete # NoRow
    /\ Apply([ui |-> [ui EXCEPT !.pendingDelete = NoRow, !.deleteError = ""],
              reqs |-> reqs])

remove ==
    /\ ui.pendingDelete # NoRow /\ ~ui.deleting /\ Room
    /\ Apply([ui |-> [ui EXCEPT !.deleting = TRUE, !.deleteError = ""],
              reqs |-> With(reqs, Request("delete", ui.pendingDelete.id, NoRow))])

\* Its callbacks close, or write into, whichever Alert is open by then.
LandDelete(r) ==
    /\ r.kind = "delete"
    /\ ui' = IF r.ans.ok
             THEN [ui EXCEPT !.deleting = FALSE, !.pendingDelete = NoRow,
                     !.deleteError = "", !.items = {x \in @ : x.id # r.id}]
             ELSE [ui EXCEPT !.deleting = FALSE, !.deleteError = r.id]
    /\ reqs' = Reload(reqs \ {r}, r)
    /\ UNCHANGED srv

----------------------------------------------------------------------------
(* A save that reads its row again before the PATCH (Groups and Virtual    *)
(* keys).  Its argument is the body, the row its dialog was seeded with    *)
(* and, for the properties, whether the row was written after that read.   *)

LandRead(r, stale) ==
    /\ r.kind = "read"
    /\ LET rest == reqs \ {r}
       IN  CASE ~r.ans.ok -> Apply([ui |-> Finally(failed(ui, r), r), reqs |-> Reload(rest, r)])
             [] r.ans.ok /\ stale -> Apply([ui |-> Finally(failed(ui, r), r), reqs |-> rest])
             [] OTHER -> Apply([ui |-> ui,
                                reqs |-> With(rest, [Request("patch", r.id, r.arg)
                                                       EXCEPT !.mine = r.mine])])

\* The table takes the answer whatever dialog is open; only the request's own
\* dialog is closed.
LandSaved(r, took, closed) ==
    LET rest == reqs \ {r}
    IN  IF r.ans.ok
        THEN Apply([ui |-> Finally(IF r.mine THEN closed ELSE took, r),
                    reqs |-> IF r.kind = "create"
                             THEN With(rest, Request("list", "", NoRow)) ELSE rest])
        ELSE Apply([ui |-> Finally(failed(ui, r), r), reqs |-> Reload(rest, r)])

\* The rows change under the saves that have already read theirs.
Raced(rs, now) ==
    {IF /\ r.kind \in {"read", "patch"}
        /\ r.st = (IF r.kind = "read" THEN "answered" ELSE "sent")
        /\ Listed(r.id) /\ Row(r.id) \notin now
     THEN [r EXCEPT !.arg.raced = TRUE] ELSE r : r \in rs}

\* The request reaches the server, which turned it into h, or is lost before,
\* or its answer is lost after.
Serve(r, h) ==
    \/ /\ UNCHANGED ui
       /\ srv' = h.srv
       /\ reqs' = Raced(reqs \ {r}, h.srv)
                  \cup {[r EXCEPT !.st = "answered", !.ans = h.ans]}
    \/ /\ Can("fails") /\ ui' = Spend(ui, "fails")
       /\ srv' \in {srv, h.srv}
       /\ reqs' = Raced(reqs \ {r}, srv')
                  \cup {[r EXCEPT !.st = "answered", !.ans = Err(Network)]}

----------------------------------------------------------------------------
(***************************************************************************)
(* A dialog shows only its own submit's failure, and its Save button is    *)
(* busy exactly while a request of its own is out, however many requests   *)
(* of dialogs closed meanwhile are still to land (page.tsx:404-433).       *)
(***************************************************************************)
OwnDialog ==
    ui.open => /\ ui.formError # "other"
               /\ ui.saving <=> Mine(Saves) # {}
=============================================================================
