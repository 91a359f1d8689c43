-------------------------- MODULE DashboardProofs --------------------------
(***************************************************************************)
(* Proofs about the dashboard's pages.                                     *)
(*                                                                         *)
(* What the properties have in common is a lane: the requests of one       *)
(* handler that are still out and, where the handler compares a sequence   *)
(* number, are still its own.  A busy flag of the page is true exactly     *)
(* while its lane holds a request, and a lane never holds two.  The first  *)
(* section says what each way of changing the set of requests does to the  *)
(* lanes; the rest follows the handlers.                                   *)
(***************************************************************************)
EXTENDS Dashboard, FiniteSetTheorems, TLAPS

----------------------------------------------------------------------------
(* Requests and lanes.                                                     *)

ReqFields == {"kind", "id", "arg", "mine", "st", "ans", "n"}
ReqOk(r) == DOMAIN r = ReqFields /\ r.mine \in BOOLEAN
ReqsOk(rs) == \A r \in rs : ReqOk(r)

\* One submit is one lane, "create", whatever it sends; any other kind has its own.
LaneOf(kind) == IF kind \in Saves THEN "create" ELSE kind

\* Connect, Delete and Disconnect compare no number: the flag alone holds them.
Unnumbered == {"start", "delete", "revoke"}

Lane(rs, l) == {r \in rs : LaneOf(r.kind) = l /\ (l \in Unnumbered \/ r.mine)}

One(S) == \A a, b \in S : a = b

LaneIs(rs, l, busy) == One(Lane(rs, l)) /\ (busy <=> Lane(rs, l) # {})

\* The same requests, but for how far each has got.
Same(a, b) == a.kind = b.kind /\ a.mine = b.mine /\ a.id = b.id /\ a.arg = b.arg
Like(S, T) == /\ S = {} <=> T = {}
              /\ One(S) => One(T)
              /\ \A t \in T : \E s \in S : Same(s, t)

\* With adds one request, and it is the one asked for (api.ts, every call).
LEMMA WithAdds ==
    ASSUME NEW rs, NEW req
    PROVE  \E x : /\ With(rs, req) = rs \cup {x}
                  /\ DOMAIN x = ReqFields
                  /\ x.kind = req.kind /\ x.id = req.id /\ x.arg = req.arg
                  /\ x.mine = req.mine /\ x.st = req.st /\ x.ans = req.ans
<1> DEFINE used == {r.n : r \in rs}
           n == CHOOSE k \in 1..MaxOut : /\ k \notin used
                                         /\ \A j \in 1..(k - 1) : j \in used
           x == [kind |-> req.kind, id |-> req.id, arg |-> req.arg,
                 mine |-> req.mine, st |-> req.st, ans |-> req.ans, n |-> n]
<1>1. With(rs, req) = rs \cup {x}
  BY DEF With
<1> HIDE DEF n
<1>2. /\ DOMAIN x = ReqFields
      /\ x.kind = req.kind /\ x.id = req.id /\ x.arg = req.arg
      /\ x.mine = req.mine /\ x.st = req.st /\ x.ans = req.ans
  BY DEF ReqFields
<1> QED BY <1>1, <1>2

\* A request joins its own lane and no other.
LEMMA LaneWith ==
    ASSUME NEW rs, NEW req, ReqsOk(rs), req.mine \in BOOLEAN
    PROVE  /\ ReqsOk(With(rs, req))
           /\ \A l : l # LaneOf(req.kind) => Lane(With(rs, req), l) = Lane(rs, l)
           /\ ~req.mine /\ LaneOf(req.kind) \notin Unnumbered =>
                 \A l : Lane(With(rs, req), l) = Lane(rs, l)
<1>1. PICK x : /\ With(rs, req) = rs \cup {x}
               /\ DOMAIN x = ReqFields
               /\ x.kind = req.kind /\ x.mine = req.mine
  BY WithAdds
<1> QED BY <1>1 DEF Lane, ReqsOk, ReqOk

\* A request that joins an empty lane is alone in it.
LEMMA LaneJoined ==
    ASSUME NEW rs, NEW req, req.mine = TRUE, Lane(rs, LaneOf(req.kind)) = {}
    PROVE  /\ LaneIs(With(rs, req), LaneOf(req.kind), TRUE)
           /\ \A x \in Lane(With(rs, req), LaneOf(req.kind)) :
                 /\ x.id = req.id /\ x.arg = req.arg /\ x.kind = req.kind
                 /\ x.st = req.st
<1>1. PICK x : /\ With(rs, req) = rs \cup {x}
               /\ x.kind = req.kind /\ x.mine = req.mine /\ x.id = req.id /\ x.arg = req.arg
               /\ x.st = req.st
  BY WithAdds
<1>2. Lane(With(rs, req), LaneOf(req.kind)) = {x}
  BY <1>1 DEF Lane
<1> QED BY <1>1, <1>2 DEF LaneIs, One

\* ++seq.current empties the lane that compares the number, and no other.
LEMMA LaneBumped ==
    ASSUME NEW rs, NEW K, NEW l0, ReqsOk(rs), l0 \notin Unnumbered,
           \A k : k \in K <=> LaneOf(k) = l0
    PROVE  /\ ReqsOk(Bumped(rs, K))
           /\ Lane(Bumped(rs, K), l0) = {}
           /\ \A l : l # l0 => Lane(Bumped(rs, K), l) = Lane(rs, l)
<1>1. ReqsOk(Bumped(rs, K))
  BY DEF Bumped, ReqsOk, ReqOk, ReqFields
<1>2. Lane(Bumped(rs, K), l0) = {}
  BY DEF Bumped, Lane, ReqsOk, ReqOk, ReqFields
<1>3. ASSUME NEW l, l # l0 PROVE Lane(Bumped(rs, K), l) = Lane(rs, l)
  BY <1>3 DEF Bumped, Lane, ReqsOk, ReqOk, ReqFields
<1> QED BY <1>1, <1>2, <1>3

\* A request lands: it leaves its own lane, which held no other.
LEMMA LaneLanded ==
    ASSUME NEW rs, NEW r \in rs, ReqsOk(rs)
    PROVE  /\ ReqsOk(rs \ {r})
           /\ \A l : l # LaneOf(r.kind) => Lane(rs \ {r}, l) = Lane(rs, l)
           /\ r \in Lane(rs, LaneOf(r.kind)) /\ One(Lane(rs, LaneOf(r.kind))) =>
                 Lane(rs \ {r}, LaneOf(r.kind)) = {}
           /\ r \notin Lane(rs, LaneOf(r.kind)) => \A l : Lane(rs \ {r}, l) = Lane(rs, l)
           /\ r \in Lane(rs, LaneOf(r.kind)) <=> (LaneOf(r.kind) \in Unnumbered \/ r.mine)
BY DEF Lane, ReqsOk, One

\* load() after a 404 is in no lane a page waits on.
LEMMA LaneReload ==
    ASSUME NEW rs, NEW r, ReqsOk(rs)
    PROVE  /\ ReqsOk(Reload(rs, r))
           /\ \A l : l # "list" => Lane(Reload(rs, r), l) = Lane(rs, l)
<1>1. Request("list", "", NoRow).mine = TRUE /\ Request("list", "", NoRow).kind = "list"
  BY DEF Request
<1>2. LaneOf("list") = "list"
  BY DEF LaneOf, Saves
<1> QED BY <1>1, <1>2, LaneWith DEF Reload

\* A reply changes nothing a lane tells apart.
LEMMA LaneReplied ==
    ASSUME NEW r \in reqs, NEW a, ReqsOk(reqs)
    PROVE  /\ ReqsOk(Replied(r, a))
           /\ \A l : Like(Lane(reqs, l), Lane(Replied(r, a), l))
<1> DEFINE x == [r EXCEPT !.st = "answered", !.ans = a]
<1>1. Replied(r, a) = (reqs \ {r}) \cup {x} /\ ReqOk(x) /\ Same(r, x)
  BY DEF Replied, ReqsOk, ReqOk, ReqFields, Same
<1> HIDE DEF x
<1>2. ReqsOk(Replied(r, a))
  BY <1>1 DEF ReqsOk
<1>3. ASSUME NEW l PROVE Like(Lane(reqs, l), Lane(Replied(r, a), l))
  <2>1. CASE r \in Lane(reqs, l)
    <3>1. Lane(Replied(r, a), l) = (Lane(reqs, l) \ {r}) \cup {x}
      BY <1>1, <2>1 DEF Lane, Same
    <3> QED BY <1>1, <2>1, <3>1 DEF Like, One, Same
  <2>2. CASE r \notin Lane(reqs, l)
    <3>1. Lane(Replied(r, a), l) = Lane(reqs, l)
      BY <1>1, <2>2 DEF Lane, Same
    <3> QED BY <3>1 DEF Like, Same
  <2> QED BY <2>1, <2>2
<1> QED BY <1>2, <1>3

\* A lane read through Like keeps its flag.
LEMMA LaneLike ==
    ASSUME NEW rs, NEW ss, NEW l, NEW b, LaneIs(rs, l, b), Like(Lane(rs, l), Lane(ss, l))
    PROVE  LaneIs(ss, l, b)
BY DEF LaneIs, Like

\* The sequence numbers the pages keep, and the lane each empties.
LEMMA Numbers ==
    /\ \A k : k \in Saves <=> LaneOf(k) = "create"
    /\ \A k : k \in FormDiscovery <=> LaneOf(k) = "discover_form"
    /\ \A k : k \in RowDiscovery <=> LaneOf(k) = "discover_row"
    /\ \A k : k \in Discoveries <=> LaneOf(k) = "discover"
BY DEF LaneOf, Saves, FormDiscovery, RowDiscovery, Discoveries

\* What a dialog's new sequence number does to the lanes.
LEMMA Renumbered ==
    ASSUME NEW rs, ReqsOk(rs)
    PROVE  /\ ReqsOk(Bumped(rs, Saves)) /\ ReqsOk(Bumped(rs, FormDiscovery))
           /\ ReqsOk(Bumped(rs, RowDiscovery)) /\ ReqsOk(Bumped(rs, Discoveries))
           /\ Lane(Bumped(rs, Saves), "create") = {}
           /\ Lane(Bumped(rs, FormDiscovery), "discover_form") = {}
           /\ Lane(Bumped(rs, RowDiscovery), "discover_row") = {}
           /\ Lane(Bumped(rs, Discoveries), "discover") = {}
           /\ \A l : l # "create" => Lane(Bumped(rs, Saves), l) = Lane(rs, l)
           /\ \A l : l # "discover_form" => Lane(Bumped(rs, FormDiscovery), l) = Lane(rs, l)
           /\ \A l : l # "discover_row" => Lane(Bumped(rs, RowDiscovery), l) = Lane(rs, l)
           /\ \A l : l # "discover" => Lane(Bumped(rs, Discoveries), l) = Lane(rs, l)
<1>1. /\ "create" \notin Unnumbered /\ "discover_form" \notin Unnumbered
      /\ "discover_row" \notin Unnumbered /\ "discover" \notin Unnumbered
  BY DEF Unnumbered
<1>2. /\ ReqsOk(Bumped(rs, Saves)) /\ Lane(Bumped(rs, Saves), "create") = {}
      /\ \A l : l # "create" => Lane(Bumped(rs, Saves), l) = Lane(rs, l)
  BY <1>1, Numbers, LaneBumped
<1>3. /\ ReqsOk(Bumped(rs, FormDiscovery))
      /\ Lane(Bumped(rs, FormDiscovery), "discover_form") = {}
      /\ \A l : l # "discover_form" => Lane(Bumped(rs, FormDiscovery), l) = Lane(rs, l)
  BY <1>1, Numbers, LaneBumped
<1>4. /\ ReqsOk(Bumped(rs, RowDiscovery))
      /\ Lane(Bumped(rs, RowDiscovery), "discover_row") = {}
      /\ \A l : l # "discover_row" => Lane(Bumped(rs, RowDiscovery), l) = Lane(rs, l)
  BY <1>1, Numbers, LaneBumped
<1>5. /\ ReqsOk(Bumped(rs, Discoveries))
      /\ Lane(Bumped(rs, Discoveries), "discover") = {}
      /\ \A l : l # "discover" => Lane(Bumped(rs, Discoveries), l) = Lane(rs, l)
  BY <1>1, Numbers, LaneBumped
<1> QED BY <1>2, <1>3, <1>4, <1>5

\* A request is sent: the other lanes do not notice.
LEMMA Sends ==
    ASSUME NEW rs, NEW kind, NEW id, NEW arg, ReqsOk(rs)
    PROVE  /\ ReqsOk(With(rs, Request(kind, id, arg)))
           /\ \A l : l # LaneOf(kind) => Lane(With(rs, Request(kind, id, arg)), l) = Lane(rs, l)
<1> DEFINE q == Request(kind, id, arg)
<1>1. q.kind = kind /\ q.mine = TRUE /\ q.mine \in BOOLEAN
  BY DEF Request
<1> HIDE DEF q
<1>2. /\ ReqsOk(With(rs, q))
      /\ \A l : l # LaneOf(kind) => Lane(With(rs, q), l) = Lane(rs, l)
  BY <1>1, LaneWith
<1> QED BY <1>2 DEF q

\* The same of a read of the list, which names no row.
LEMMA SendsRead ==
    ASSUME NEW rs, NEW kind, ReqsOk(rs)
    PROVE  /\ ReqsOk(With(rs, Request(kind, "", NoRow)))
           /\ \A l : l # LaneOf(kind) => Lane(With(rs, Request(kind, "", NoRow)), l) = Lane(rs, l)
<1> DEFINE q == Request(kind, "", NoRow)
<1>1. q.kind = kind /\ q.mine = TRUE /\ q.mine \in BOOLEAN
  BY DEF Request
<1> HIDE DEF q
<1>2. /\ ReqsOk(With(rs, q))
      /\ \A l : l # LaneOf(kind) => Lane(With(rs, q), l) = Lane(rs, l)
  BY <1>1, LaneWith
<1> QED BY <1>2 DEF q

\* And its own, if nothing was out, holds it alone.
LEMMA Joins ==
    ASSUME NEW rs, NEW kind, NEW id, NEW arg, Lane(rs, LaneOf(kind)) = {}
    PROVE  LaneIs(With(rs, Request(kind, id, arg)), LaneOf(kind), TRUE)
<1> DEFINE q == Request(kind, id, arg)
<1>1. q.kind = kind /\ q.mine = TRUE
  BY DEF Request
<1> HIDE DEF q
<1>2. LaneIs(With(rs, q), LaneOf(kind), TRUE)
  BY <1>1, LaneJoined
<1> QED BY <1>2 DEF q

LEMMA JoinedIs ==
    ASSUME NEW rs, NEW kind, NEW id, NEW arg, Lane(rs, LaneOf(kind)) = {},
           NEW x \in Lane(With(rs, Request(kind, id, arg)), LaneOf(kind))
    PROVE  x.id = id /\ x.arg = arg /\ x.kind = kind /\ x.st = "sent"
<1> DEFINE q == Request(kind, id, arg)
<1>1. q.kind = kind /\ q.id = id /\ q.arg = arg /\ q.mine = TRUE /\ q.st = "sent"
  BY DEF Request
<1>2. x \in Lane(With(rs, q), LaneOf(q.kind))
  BY <1>1
<1> HIDE DEF q
<1>3. x.id = q.id /\ x.arg = q.arg /\ x.kind = q.kind /\ x.st = q.st
  BY <1>1, <1>2, LaneJoined
<1> QED BY <1>1, <1>3

----------------------------------------------------------------------------
(* The Upstreams page: the rows, as the server keeps them and as it told   *)
(* them, have ids.                                                         *)

Named(x) == x.id \in UpIds

UpKinds == {"list", "refresh", "discover_form", "discover_row", "create", "patch",
            "delete", "start", "revoke"}

Said(kind, ans) ==
    ans.ok => /\ kind \in {"list", "refresh"} => \A x \in ans.rows : Named(x)
              /\ kind \in {"patch", "revoke"} => Named(ans.row)
AnswerOk(r) == r.kind \in UpKinds /\ Said(r.kind, r.ans)
AnswersOk(rs) == \A r \in rs : AnswerOk(r)

RowsOk == \A u \in srv : "id" \in DOMAIN u /\ Named(u)

\* What is not answered yet says nothing.
LEMMA AnswersWith ==
    ASSUME NEW rs, NEW req, AnswersOk(rs), req.ans = NoAnswer,
           req.kind \in UpKinds
    PROVE  AnswersOk(With(rs, req))
<1>1. PICK x : With(rs, req) = rs \cup {x} /\ x.ans = req.ans /\ x.kind = req.kind
  BY WithAdds
<1>2. AnswerOk(x)
  BY <1>1 DEF AnswerOk, Said, NoAnswer
<1> QED BY <1>1, <1>2 DEF AnswersOk

LEMMA AnswersSent ==
    ASSUME NEW rs, NEW kind \in UpKinds, NEW id, NEW arg, AnswersOk(rs)
    PROVE  AnswersOk(With(rs, Request(kind, id, arg)))
<1>1. Request(kind, id, arg).ans = NoAnswer /\ Request(kind, id, arg).kind = kind
  BY DEF Request
<1> QED BY <1>1, AnswersWith

LEMMA AnswersBumped ==
    ASSUME NEW rs, NEW K, AnswersOk(rs), ReqsOk(rs)
    PROVE  AnswersOk(Bumped(rs, K))
BY DEF AnswersOk, AnswerOk, Bumped, ReqsOk, ReqOk, ReqFields

LEMMA AnswersLess ==
    ASSUME NEW rs, NEW r, AnswersOk(rs)
    PROVE  AnswersOk(rs \ {r}) /\ AnswersOk(Reload(rs \ {r}, r))
<1>1. AnswersOk(rs \ {r})
  BY DEF AnswersOk
<1> QED BY <1>1, AnswersSent DEF Reload, UpKinds

\* The server answers with rows of its own (upstreams.go, oauth.go).
LEMMA Serves ==
    ASSUME NEW r, RowsOk, r.kind \in UpKinds
    PROVE  /\ \A u \in Handled(r).srv : "id" \in DOMAIN u /\ Named(u)
           /\ Said(r.kind, Handled(r).ans)
<1> DEFINE put(u) == [srv |-> {x \in srv : x.id # u.id} \cup {u}, ans |-> Ok(Present(u), {})]
           kept(a) == [srv |-> srv, ans |-> a]
           Fine(h) == (\A u \in h.srv : "id" \in DOMAIN u /\ Named(u)) /\ Said(r.kind, h.ans)
<1>1. ASSUME NEW u, "id" \in DOMAIN u, Named(u) PROVE Fine(put(u))
  <2>1. Named(Ok(Present(u), {}).row) /\ Ok(Present(u), {}).rows = {}
    BY <1>1 DEF Ok, Present, Named
  <2> QED BY <1>1, <2>1 DEF RowsOk, Said
<1>2. ASSUME NEW code PROVE Fine(kept(Err(code)))
  BY DEF RowsOk, Said, Err, NoAnswer
<1>3. r.kind \notin {"patch", "revoke"} => Fine(kept(Ok(NoRow, {})))
  BY DEF RowsOk, Said, Ok
<1>4. r.kind \notin {"patch", "revoke"} => Fine(kept(Ok(NoRow, Listing)))
  <2>1. \A u : Present(u).id = u.id
    BY DEF Present
  <2>2. \A x \in Listing : Named(x)
    BY <2>1 DEF Listing, RowsOk, Named
  <2> QED BY <2>2 DEF RowsOk, Said, Ok
<1>5. Listed(r.id) => "id" \in DOMAIN Row(r.id) /\ Named(Row(r.id))
  BY DEF Listed, Row, RowsOk
<1>6. CASE r.kind \in {"list", "refresh", "discover_form"}
  BY <1>6, <1>3, <1>4 DEF Handled
<1>7. CASE r.kind = "create"
  <2>1. FreeIds # {} => LET i == CHOOSE i \in FreeIds : TRUE
                            u == createUpstream(i, r.arg)
                        IN  "id" \in DOMAIN u /\ Named(u)
    <3>1. FreeIds # {} => (CHOOSE i \in FreeIds : TRUE) \in UpIds
      BY DEF FreeIds, Fresh
    <3> QED BY <3>1 DEF createUpstream, Named
  <2> QED BY <1>7, <2>1, <1>1, <1>2 DEF Handled
<1>8. CASE r.kind \in {"discover_row", "start"}
  BY <1>8, <1>2, <1>3 DEF Handled
<1>9. CASE r.kind = "patch"
  <2>1. Listed(r.id) => LET u == patchUpstream(Row(r.id), r.arg)
                        IN  "id" \in DOMAIN u /\ Named(u)
    BY <1>5 DEF patchUpstream, Named
  <2> QED BY <1>9, <2>1, <1>1, <1>2 DEF Handled
<1>10. CASE r.kind = "delete"
  <2>1. Fine(Deleted(r.id))
    BY <1>10 DEF Deleted, RowsOk, Said, Ok, Err, NoAnswer
  <2> QED BY <1>10, <2>1, <1>2 DEF Handled
<1>11. CASE r.kind = "revoke"
  <2>1. Listed(r.id) => LET u == [Row(r.id) EXCEPT !.stored = Nothing]
                        IN  "id" \in DOMAIN u /\ Named(u)
    BY <1>5 DEF Named
  <2> QED BY <1>11, <2>1, <1>1, <1>2 DEF Handled
<1> QED BY <1>6, <1>7, <1>8, <1>9, <1>10, <1>11 DEF UpKinds

----------------------------------------------------------------------------
(* The Upstreams page: its dialog, its Tools dialog and its held buttons.  *)

UpFields ==
    {"page", "items", "open", "editing", "saving", "error", "formError", "form",
     "formDiscovery", "tools", "rowDiscovery", "pendingDelete", "deleting",
     "deleteError", "connecting", "connectError", "left", "registerFor",
     "pendingRevoke", "revoking", "revokeError", "revokeLine", "seededFrom",
     "typedHere", "budget"}

FormFields == DOMAIN blankUpstreamForm

IsPanel(p) == DOMAIN p = DOMAIN IDLE /\ p.pending \in BOOLEAN

\* Its message is its own submit's, and its credentials were typed in it.
OwnOrNone == {"", "own"}
TypedHere(u) == \A k \in Credentials : u.form[k] # "" => k \in u.typedHere

\* The dialog: its flag, its message, its Discover panel and its form.
DialogPart(u, rs) ==
    /\ u.open \in BOOLEAN /\ u.saving \in BOOLEAN
    /\ IsPanel(u.formDiscovery) /\ DOMAIN u.form = FormFields
    /\ u.formError \in OwnOrNone
    /\ LaneIs(rs, "create", u.saving)
    /\ LaneIs(rs, "discover_form", u.formDiscovery.pending)
    /\ u.formDiscovery.result \subseteq {Connection(u.form)}
    /\ \A r \in Lane(rs, "discover_form") : r.arg = Connection(u.form)
    /\ u.editing # NoRow => /\ u.formDiscovery.result = {} /\ ~u.formDiscovery.pending
                            /\ u.editing.id = u.seededFrom
    /\ u.open => TypedHere(u)

\* The Tools dialog: its panel is about its row.
ToolsPart(u, rs) ==
    /\ IsPanel(u.rowDiscovery)
    /\ LaneIs(rs, "discover_row", u.rowDiscovery.pending)
    /\ u.rowDiscovery.result \subseteq {u.tools.id}
    /\ \A r \in Lane(rs, "discover_row") : r.id = u.tools.id

\* The buttons Connect, Delete and Disconnect hold.
HoldsPart(u, rs) ==
    /\ u.left \in BOOLEAN /\ u.deleting \in BOOLEAN /\ u.revoking \in BOOLEAN
    /\ u.left => u.connecting # ""
    /\ LaneIs(rs, "start", u.connecting # "" /\ ~u.left)
    /\ LaneIs(rs, "delete", u.deleting)
    /\ LaneIs(rs, "revoke", u.revoking)

\* Every row on the page or on its way to it has an id.
Told == RowsOk /\ (\A x \in ui.items : Named(x)) /\ AnswersOk(reqs)

PageIs == On /\ DOMAIN ui = UpFields /\ ReqsOk(reqs)

UpInv == PageIs /\ Told /\ DialogPart(ui, reqs) /\ ToolsPart(ui, reqs) /\ HoldsPart(ui, reqs)

SameDialog(u, v) ==
    /\ v.open = u.open /\ v.saving = u.saving /\ v.formError = u.formError
    /\ v.form = u.form /\ v.formDiscovery = u.formDiscovery
    /\ v.editing = u.editing /\ v.seededFrom = u.seededFrom /\ v.typedHere = u.typedHere
SameTools(u, v) == v.tools = u.tools /\ v.rowDiscovery = u.rowDiscovery
SameHolds(u, v) == /\ v.left = u.left /\ v.connecting = u.connecting
                   /\ v.deleting = u.deleting /\ v.revoking = u.revoking

LEMMA LikeItself == \A S : Like(S, S)
BY DEF Like, Same

\* A step that leaves the dialog alone leaves what holds of it.
LEMMA DialogKept ==
    ASSUME NEW u, NEW v, NEW rs, NEW ss, DialogPart(u, rs), SameDialog(u, v),
           Like(Lane(rs, "create"), Lane(ss, "create")),
           Like(Lane(rs, "discover_form"), Lane(ss, "discover_form"))
    PROVE  DialogPart(v, ss)
<1>1. LaneIs(ss, "create", v.saving) /\ LaneIs(ss, "discover_form", v.formDiscovery.pending)
  BY LaneLike DEF DialogPart, SameDialog
<1>2. \A r \in Lane(ss, "discover_form") : r.arg = Connection(v.form)
  BY DEF DialogPart, SameDialog, Like, Same
<1> QED BY <1>1, <1>2 DEF DialogPart, SameDialog, TypedHere

LEMMA ToolsKept ==
    ASSUME NEW u, NEW v, NEW rs, NEW ss, ToolsPart(u, rs), SameTools(u, v),
           Like(Lane(rs, "discover_row"), Lane(ss, "discover_row"))
    PROVE  ToolsPart(v, ss)
<1>1. LaneIs(ss, "discover_row", v.rowDiscovery.pending)
  BY LaneLike DEF ToolsPart, SameTools
<1>2. \A r \in Lane(ss, "discover_row") : r.id = v.tools.id
  BY DEF ToolsPart, SameTools, Like, Same
<1> QED BY <1>1, <1>2 DEF ToolsPart, SameTools

LEMMA HoldsKept ==
    ASSUME NEW u, NEW v, NEW rs, NEW ss, HoldsPart(u, rs), SameHolds(u, v),
           \A l \in Unnumbered : Like(Lane(rs, l), Lane(ss, l))
    PROVE  HoldsPart(v, ss)
<1>1. /\ LaneIs(ss, "start", v.connecting # "" /\ ~v.left)
      /\ LaneIs(ss, "delete", v.deleting) /\ LaneIs(ss, "revoke", v.revoking)
  BY LaneLike DEF HoldsPart, SameHolds, Unnumbered
<1> QED BY <1>1 DEF HoldsPart, SameHolds

\* A step that changes no more than how far the requests have got.
LEMMA UpKept ==
    ASSUME UpInv, DOMAIN ui' = UpFields, ui'.page = ui.page, Told', ReqsOk(reqs'),
           SameDialog(ui, ui'), SameTools(ui, ui'), SameHolds(ui, ui'),
           \A l : l \notin {"list", "refresh"} => Like(Lane(reqs, l), Lane(reqs', l))
    PROVE  UpInv'
<1>1. /\ Like(Lane(reqs, "create"), Lane(reqs', "create"))
      /\ Like(Lane(reqs, "discover_form"), Lane(reqs', "discover_form"))
      /\ Like(Lane(reqs, "discover_row"), Lane(reqs', "discover_row"))
      /\ \A l \in Unnumbered : Like(Lane(reqs, l), Lane(reqs', l))
  BY DEF Unnumbered
<1>2. DialogPart(ui', reqs')
  BY <1>1, DialogKept DEF UpInv
<1>3. ToolsPart(ui', reqs')
  BY <1>1, ToolsKept DEF UpInv
<1>4. HoldsPart(ui', reqs')
  BY <1>1, HoldsKept DEF UpInv
<1> QED BY <1>2, <1>3, <1>4 DEF UpInv, PageIs, On

\* The page as it is mounted.
LEMMA UpStarts == ASSUME NEW s \in UpScenarios, UpInit(s) PROVE UpInv
<1>1. reqs = With({}, Request("list", "", NoRow)) /\ srv = s.rows
  BY DEF UpInit
<1>2. ReqsOk({}) /\ AnswersOk({}) /\ \A l : Lane({}, l) = {}
  BY DEF ReqsOk, AnswersOk, Lane
<1>3. LaneOf("list") = "list" /\ "list" \in UpKinds
  BY DEF LaneOf, Saves, UpKinds
<1>4. ReqsOk(reqs) /\ AnswersOk(reqs) /\ \A l : l # "list" => Lane(reqs, l) = {}
  <2>1. ReqsOk(reqs) /\ \A l : l # LaneOf("list") => Lane(reqs, l) = Lane({}, l)
    BY <1>1, <1>2, SendsRead
  <2>2. AnswersOk(reqs)
    BY <1>1, <1>2, <1>3, AnswersSent
  <2> QED BY <1>2, <1>3, <2>1, <2>2
<1>5. \A l : l # "list" => LaneIs(reqs, l, FALSE)
  BY <1>4 DEF LaneIs, One
<1>6. Told
  BY <1>1, <1>4, UpRows DEF Told, RowsOk, Named, UpInit
<1>7. PageIs
  BY <1>4 DEF PageIs, On, UpInit, UpFields
<1>8. DialogPart(ui, reqs)
  <2>1. /\ ui.open = FALSE /\ ui.saving = FALSE /\ ui.formDiscovery = IDLE
        /\ ui.form = blankUpstreamForm /\ ui.formError = "" /\ ui.editing = NoRow
    BY DEF UpInit
  <2>2. IsPanel(IDLE) /\ IDLE.pending = FALSE /\ IDLE.result = {}
    BY DEF IDLE, IsPanel
  <2> QED BY <1>4, <1>5, <2>1, <2>2 DEF DialogPart, FormFields, OwnOrNone
<1>9. ToolsPart(ui, reqs)
  <2>1. ui.rowDiscovery = IDLE
    BY DEF UpInit
  <2>2. IsPanel(IDLE) /\ IDLE.pending = FALSE /\ IDLE.result = {}
    BY DEF IDLE, IsPanel
  <2>3. Lane(reqs, "discover_row") = {} /\ LaneIs(reqs, "discover_row", FALSE)
    BY <1>4, <1>5
  <2> QED BY <2>1, <2>2, <2>3 DEF ToolsPart
<1>10. HoldsPart(ui, reqs)
  BY <1>4, <1>5 DEF HoldsPart, UpInit
<1> QED BY <1>6, <1>7, <1>8, <1>9, <1>10 DEF UpInv

\* The server and the network: an answer comes, or a request is lost.
LEMMA UpAnswers == ASSUME UpInv, UpRespond PROVE UpInv'
<1>1. PICK r \in reqs : UpServe(r) \/ UpLose(r)
  BY DEF UpRespond
<1>2. PICK a : reqs' = Replied(r, a) /\ (a = Handled(r).ans \/ a = Err(Network))
  BY <1>1 DEF UpServe, UpLose
<1>3. /\ DOMAIN ui' = UpFields /\ ui'.page = ui.page /\ ui'.items = ui.items
      /\ SameDialog(ui, ui') /\ SameTools(ui, ui') /\ SameHolds(ui, ui')
  BY <1>1 DEF UpInv, PageIs, UpServe, UpLose, Spend, SameDialog, SameTools, SameHolds, UpFields
<1>4. ReqsOk(reqs') /\ \A l : Like(Lane(reqs, l), Lane(reqs', l))
  BY <1>2, LaneReplied DEF UpInv, PageIs
<1>5. /\ \A u \in Handled(r).srv : "id" \in DOMAIN u /\ Named(u)
      /\ Said(r.kind, Handled(r).ans) /\ r.kind \in UpKinds
  BY Serves DEF UpInv, Told, AnswersOk, AnswerOk
<1>6. RowsOk'
  BY <1>1, <1>5 DEF UpServe, UpLose, UpInv, Told, RowsOk
<1>7. Said(r.kind, a)
  BY <1>2, <1>5 DEF Said, Err, NoAnswer
<1>8. AnswersOk(reqs')
  BY <1>2, <1>5, <1>7 DEF UpInv, PageIs, Told, AnswersOk, AnswerOk, Replied, ReqsOk, ReqOk, ReqFields
<1>9. Told'
  BY <1>3, <1>6, <1>8 DEF Told, UpInv
<1> QED BY <1>3, <1>4, <1>9, UpKept

\* Another operator, the table's answer, and the confirms that send nothing.
LEMMA UpLooks ==
    ASSUME UpInv,
           \/ UpOther \/ closeDelete \/ askRevoke \/ closeRevoke
           \/ \E r \in reqs : LandList(r)
           \/ \E u \in ui.items : askDelete(u)
    PROVE  UpInv'
<1>1. DOMAIN ui = UpFields /\ ReqsOk(reqs) /\ Told /\ AnswersOk(reqs) /\ RowsOk
  BY DEF UpInv, PageIs, Told
<1>2. CASE UpOther
  <2>1. /\ DOMAIN ui' = UpFields /\ ui'.page = ui.page /\ ui'.items = ui.items
        /\ SameDialog(ui, ui') /\ SameTools(ui, ui') /\ SameHolds(ui, ui') /\ reqs' = reqs
    BY <1>1, <1>2 DEF UpOther, Spend, SameDialog, SameTools, SameHolds, UpFields
  <2>2. ASSUME NEW u \in srv, NEW b
        PROVE  /\ "id" \in DOMAIN patchUpstream(u, b) /\ Named(patchUpstream(u, b))
               /\ "id" \in DOMAIN [u EXCEPT !.stored = b] /\ Named([u EXCEPT !.stored = b])
    BY <1>1 DEF RowsOk, Named, patchUpstream
  <2>3. RowsOk'
    <3>1. PICK u \in srv :
             \/ srv' = srv \ {u}
             \/ srv' = (srv \ {u}) \cup {[u EXCEPT !.stored = Blob("set", "")]}
             \/ srv' = (srv \ {u}) \cup {patchUpstream(u, [auth_type |-> "none"])}
      BY <1>2 DEF UpOther
    <3>2. srv' \subseteq srv \/ \E w : /\ srv' = (srv \ {u}) \cup {w}
                                       /\ "id" \in DOMAIN w /\ Named(w)
      BY <2>2, <3>1
    <3> QED BY <1>1, <3>2 DEF RowsOk
  <2>4. Told'
    BY <1>1, <2>1, <2>3 DEF Told
  <2> QED BY <1>1, <2>1, <2>4, UpKept, LikeItself
<1>3. CASE closeDelete \/ askRevoke \/ closeRevoke \/ \E u \in ui.items : askDelete(u)
  <2>1. /\ DOMAIN ui' = UpFields /\ ui'.page = ui.page /\ ui'.items = ui.items
        /\ SameDialog(ui, ui') /\ SameTools(ui, ui') /\ SameHolds(ui, ui')
        /\ reqs' = reqs /\ srv' = srv
    <3>1. CASE closeDelete
      BY <1>1, <3>1 DEF closeDelete, Apply, SameDialog, SameTools, SameHolds, UpFields
    <3>2. CASE askRevoke
      BY <1>1, <3>2 DEF askRevoke, Apply, Spend, SameDialog, SameTools, SameHolds, UpFields
    <3>3. CASE closeRevoke
      BY <1>1, <3>3 DEF closeRevoke, Apply, SameDialog, SameTools, SameHolds, UpFields
    <3>4. ASSUME NEW u \in ui.items, askDelete(u)
          PROVE  /\ DOMAIN ui' = UpFields /\ ui'.page = ui.page /\ ui'.items = ui.items
                 /\ SameDialog(ui, ui') /\ SameTools(ui, ui') /\ SameHolds(ui, ui')
                 /\ reqs' = reqs /\ srv' = srv
      BY <1>1, <3>4 DEF askDelete, Apply, Spend, SameDialog, SameTools, SameHolds, UpFields
    <3> QED BY <1>3, <3>1, <3>2, <3>3, <3>4
  <2>2. Told'
    BY <1>1, <2>1 DEF Told, RowsOk
  <2> QED BY <1>1, <2>1, <2>2, UpKept, LikeItself
<1>4. CASE \E r \in reqs : LandList(r)
  <2>1. PICK r \in reqs : LandList(r)
    BY <1>4
  <2>2. /\ DOMAIN ui' = UpFields /\ ui'.page = ui.page
        /\ ui'.items = ui.items \/ (r.ans.ok /\ ui'.items = r.ans.rows)
        /\ SameDialog(ui, ui') /\ SameTools(ui, ui') /\ SameHolds(ui, ui')
        /\ reqs' = reqs \ {r} /\ srv' = srv /\ r.kind \in {"list", "refresh"}
    BY <1>1, <2>1 DEF LandList, SameDialog, SameTools, SameHolds, UpFields
  <2>3. Told'
    <3>1. Said(r.kind, r.ans)
      BY <1>1 DEF AnswersOk, AnswerOk
    <3>2. \A x \in ui'.items : Named(x)
      BY <1>1, <2>2, <3>1 DEF Told, Said
    <3>3. AnswersOk(reqs')
      BY <1>1, <2>2, AnswersLess
    <3> QED BY <1>1, <2>2, <3>2, <3>3 DEF Told, RowsOk
  <2>4. LaneOf(r.kind) \in {"list", "refresh"}
    BY <2>2 DEF LaneOf, Saves
  <2>5. ReqsOk(reqs') /\ \A l : l \notin {"list", "refresh"} => Lane(reqs', l) = Lane(reqs, l)
    <3>1. ReqsOk(reqs \ {r}) /\ \A l : l # LaneOf(r.kind) => Lane(reqs \ {r}, l) = Lane(reqs, l)
      BY <1>1, LaneLanded
    <3> QED BY <2>2, <2>4, <3>1
  <2>6. \A l : l \notin {"list", "refresh"} => Like(Lane(reqs, l), Lane(reqs', l))
    BY <2>5, LikeItself
  <2> QED BY <2>2, <2>3, <2>5, <2>6, UpKept
<1> QED BY <1>2, <1>3, <1>4

\* What a step must show when it leaves the rows and the table alone.
LEMMA TellsSame ==
    ASSUME UpInv, srv' = srv, ui'.items = ui.items, AnswersOk(reqs')
    PROVE  Told'
BY DEF UpInv, Told, RowsOk

\* The parts a step does not touch, lane by lane.
LEMMA PartsKept ==
    ASSUME UpInv
    PROVE  /\ SameDialog(ui, ui') /\ Lane(reqs', "create") = Lane(reqs, "create")
              /\ Lane(reqs', "discover_form") = Lane(reqs, "discover_form")
              => DialogPart(ui', reqs')
           /\ SameTools(ui, ui') /\ Lane(reqs', "discover_row") = Lane(reqs, "discover_row")
              => ToolsPart(ui', reqs')
           /\ SameHolds(ui, ui') /\ (\A l \in Unnumbered : Lane(reqs', l) = Lane(reqs, l))
              => HoldsPart(ui', reqs')
<1>1. DialogPart(ui, reqs) /\ ToolsPart(ui, reqs) /\ HoldsPart(ui, reqs)
  BY DEF UpInv
<1>2. ASSUME SameDialog(ui, ui'), Lane(reqs', "create") = Lane(reqs, "create"),
             Lane(reqs', "discover_form") = Lane(reqs, "discover_form")
      PROVE  DialogPart(ui', reqs')
  BY <1>1, <1>2, DialogKept, LikeItself
<1>3. ASSUME SameTools(ui, ui'), Lane(reqs', "discover_row") = Lane(reqs, "discover_row")
      PROVE  ToolsPart(ui', reqs')
  BY <1>1, <1>3, ToolsKept, LikeItself
<1>4. ASSUME SameHolds(ui, ui'), \A l \in Unnumbered : Lane(reqs', l) = Lane(reqs, l)
      PROVE  HoldsPart(ui', reqs')
  BY <1>1, <1>4, HoldsKept, LikeItself
<1> QED BY <1>2, <1>3, <1>4

\* What Delete, Disconnect and Connect have in common when they are pressed.
Pressed(kind, id, arg) ==
    /\ kind \in Unnumbered
    /\ reqs' = With(reqs, Request(kind, id, arg)) /\ srv' = srv
    /\ DOMAIN ui' = UpFields /\ ui'.page = ui.page /\ ui'.items = ui.items
    /\ SameDialog(ui, ui') /\ SameTools(ui, ui') /\ ui'.left = ui.left
    /\ kind = "start" => /\ ui.connecting = "" /\ ui'.connecting # "" /\ ~ui.left
                         /\ ui'.deleting = ui.deleting /\ ui'.revoking = ui.revoking
    /\ kind = "delete" => /\ ~ui.deleting /\ ui'.deleting = TRUE
                          /\ ui'.connecting = ui.connecting /\ ui'.revoking = ui.revoking
    /\ kind = "revoke" => /\ ~ui.revoking /\ ui'.revoking = TRUE
                          /\ ui'.connecting = ui.connecting /\ ui'.deleting = ui.deleting

\* Delete, Disconnect and Connect are pressed: each holds its button.
LEMMA UpPresses ==
    ASSUME UpInv, remove \/ revoke \/ \E u \in ui.items : connect(u)
    PROVE  UpInv'
<1>1. /\ DOMAIN ui = UpFields /\ ReqsOk(reqs) /\ AnswersOk(reqs) /\ HoldsPart(ui, reqs)
      /\ On /\ \A x \in ui.items : Named(x)
  BY DEF UpInv, PageIs, Told
<1>2. /\ LaneOf("delete") = "delete" /\ LaneOf("revoke") = "revoke"
      /\ LaneOf("start") = "start"
      /\ "delete" \in UpKinds /\ "revoke" \in UpKinds /\ "start" \in UpKinds
  BY DEF LaneOf, Saves, UpKinds
<1>3. PICK kind, id, arg : Pressed(kind, id, arg)
  <2>1. CASE remove
    <3>1. Pressed("delete", ui.pendingDelete.id, NoRow)
      BY <1>1, <2>1 DEF Pressed, remove, Apply, SameDialog, SameTools, UpFields, Unnumbered
    <3> QED BY <3>1
  <2>2. CASE revoke
    <3>1. Pressed("revoke", ui.pendingRevoke.id, [kind |-> revokeKind(ui.pendingRevoke)])
      BY <1>1, <2>2 DEF Pressed, revoke, Apply, SameDialog, SameTools, UpFields, Unnumbered
    <3> QED BY <3>1
  <2>3. CASE \E u \in ui.items : connect(u)
    <3>1. PICK u \in ui.items : connect(u)
      BY <2>3
    <3>2. u.id # ""
      BY <1>1, UpRows DEF Named, NoRow
    <3>3. Pressed("start", u.id, [registered |-> u.id \in ui.registerFor])
      BY <1>1, <3>1, <3>2 DEF Pressed, connect, TableReachable, Apply, Spend, SameDialog,
                              SameTools, UpFields, Unnumbered
    <3> QED BY <3>3
  <2> QED BY <2>1, <2>2, <2>3
<1>4. LaneOf(kind) = kind /\ kind \in UpKinds
  BY <1>2, <1>3 DEF Pressed, Unnumbered
<1>5. Lane(reqs, kind) = {}
  BY <1>1, <1>3 DEF Pressed, HoldsPart, LaneIs, Unnumbered
<1>6. /\ ReqsOk(reqs') /\ AnswersOk(reqs') /\ LaneIs(reqs', kind, TRUE)
      /\ \A l : l # kind => Lane(reqs', l) = Lane(reqs, l)
  <2>1. AnswersOk(reqs')
    BY <1>1, <1>3, <1>4, AnswersSent DEF Pressed
  <2>2. ReqsOk(reqs') /\ \A l : l # LaneOf(kind) => Lane(reqs', l) = Lane(reqs, l)
    <3>1. ReqsOk(reqs) /\ reqs' = With(reqs, Request(kind, id, arg))
      BY <1>1, <1>3 DEF Pressed
    <3>2. /\ ReqsOk(With(reqs, Request(kind, id, arg)))
          /\ \A l : l # LaneOf(kind) =>
                Lane(With(reqs, Request(kind, id, arg)), l) = Lane(reqs, l)
      BY <3>1, Sends
    <3> QED BY <3>1, <3>2
  <2>3. LaneIs(reqs', LaneOf(kind), TRUE)
    BY <1>3, <1>4, <1>5, Joins DEF Pressed
  <2> QED BY <1>4, <1>5, <2>1, <2>2, <2>3
<1>7. HoldsPart(ui', reqs')
  BY <1>1, <1>3, <1>6 DEF Pressed, HoldsPart, LaneIs, Unnumbered
<1>8. DialogPart(ui', reqs') /\ ToolsPart(ui', reqs')
  <2>1. /\ Lane(reqs', "create") = Lane(reqs, "create")
        /\ Lane(reqs', "discover_form") = Lane(reqs, "discover_form")
        /\ Lane(reqs', "discover_row") = Lane(reqs, "discover_row")
    BY <1>3, <1>6 DEF Pressed, Unnumbered
  <2> QED BY <1>3, <2>1, PartsKept DEF Pressed
<1> QED BY <1>1, <1>3, <1>6, <1>7, <1>8, TellsSame DEF Pressed, UpInv, PageIs, On

\* A request lands, and the page reads its list again if the row was gone.
LEMMA Lands ==
    ASSUME UpInv, NEW r \in reqs
    PROVE  LET ss == Reload(reqs \ {r}, r)
           IN  /\ ReqsOk(ss) /\ AnswersOk(ss)
               /\ \A l : l # LaneOf(r.kind) /\ l # "list" => Lane(ss, l) = Lane(reqs, l)
               /\ LaneOf(r.kind) # "list" => Lane(ss, LaneOf(r.kind)) = Lane(reqs \ {r}, LaneOf(r.kind))
<1>1. ReqsOk(reqs) /\ AnswersOk(reqs)
  BY DEF UpInv, PageIs, Told
<1>2. ReqsOk(reqs \ {r}) /\ \A l : l # LaneOf(r.kind) => Lane(reqs \ {r}, l) = Lane(reqs, l)
  BY <1>1, LaneLanded
<1>3. /\ ReqsOk(Reload(reqs \ {r}, r))
      /\ \A l : l # "list" => Lane(Reload(reqs \ {r}, r), l) = Lane(reqs \ {r}, l)
  BY <1>2, LaneReload
<1>4. AnswersOk(Reload(reqs \ {r}, r))
  BY <1>1, AnswersLess
<1> QED BY <1>2, <1>3, <1>4

\* The answers to Delete, Connect and Disconnect, and the page cache's restore:
\* the button is free again, or the tab has left.
LEMMA UpReleases ==
    ASSUME UpInv,
           \/ restored
           \/ \E r \in reqs : LandDelete(r) \/ LandConnect(r)
    PROVE  UpInv'
<1>1. /\ DOMAIN ui = UpFields /\ ReqsOk(reqs) /\ AnswersOk(reqs) /\ HoldsPart(ui, reqs)
      /\ On /\ RowsOk /\ \A x \in ui.items : Named(x)
  BY DEF UpInv, PageIs, Told
<1>2. CASE restored
  <2>1. /\ DOMAIN ui' = UpFields /\ ui'.page = ui.page /\ ui'.items = ui.items
        /\ SameDialog(ui, ui') /\ SameTools(ui, ui')
        /\ ui'.left = FALSE /\ ui'.connecting = "" /\ ui'.deleting = ui.deleting
        /\ ui'.revoking = ui.revoking /\ reqs = {} /\ reqs' = reqs /\ srv' = srv
    BY <1>1, <1>2 DEF restored, Apply, SameDialog, SameTools, UpFields
  <2>2. \A l : Lane(reqs', l) = {} /\ Lane(reqs', l) = Lane(reqs, l)
    BY <2>1 DEF Lane
  <2>3. HoldsPart(ui', reqs')
    BY <1>1, <2>1, <2>2 DEF HoldsPart, LaneIs, One
  <2>4. DialogPart(ui', reqs') /\ ToolsPart(ui', reqs')
    BY <2>1, <2>2, PartsKept
  <2>5. Told'
    BY <1>1, <2>1, TellsSame
  <2> QED BY <1>1, <2>1, <2>3, <2>4, <2>5 DEF UpInv, PageIs, On
<1>3. CASE \E r \in reqs : LandDelete(r) \/ LandConnect(r)
  <2>1. PICK r \in reqs : LandDelete(r) \/ LandConnect(r)
    BY <1>3
  <2>2. /\ DOMAIN ui' = UpFields /\ ui'.page = ui.page /\ ui'.items \subseteq ui.items
        /\ SameDialog(ui, ui') /\ SameTools(ui, ui') /\ ui'.revoking = ui.revoking
        /\ reqs' = Reload(reqs \ {r}, r) /\ srv' = srv
        /\ \/ /\ r.kind = "delete" /\ ui'.deleting = FALSE
              /\ ui'.left = ui.left /\ ui'.connecting = ui.connecting
           \/ /\ r.kind = "start" /\ ui'.deleting = ui.deleting
              /\ \/ ui'.left = TRUE /\ ui'.connecting = ui.connecting
                 \/ ui'.left = ui.left /\ ui'.connecting = ""
    <3>1. CASE LandDelete(r)
      BY <1>1, <3>1 DEF LandDelete, SameDialog, SameTools, UpFields
    <3>2. CASE LandConnect(r)
      <4>1. /\ r.kind = "start" /\ reqs' = Reload(reqs \ {r}, r) /\ srv' = srv
            /\ \/ ui' = [ui EXCEPT !.left = TRUE]
               \/ ui' = [[ui EXCEPT !.connectError = TRUE] EXCEPT !.connecting = ""]
        BY <3>2 DEF LandConnect
      <4>2. CASE ui' = [ui EXCEPT !.left = TRUE]
        BY <1>1, <4>1, <4>2 DEF SameDialog, SameTools, UpFields
      <4>3. CASE ui' = [[ui EXCEPT !.connectError = TRUE] EXCEPT !.connecting = ""]
        BY <1>1, <4>1, <4>3 DEF SameDialog, SameTools, UpFields
      <4> QED BY <4>1, <4>2, <4>3
    <3> QED BY <2>1, <3>1, <3>2
  <2>3. LaneOf(r.kind) = r.kind /\ r.kind \in Unnumbered /\ r.kind # "list"
    BY <2>2 DEF LaneOf, Saves, Unnumbered
  <2>4. r \in Lane(reqs, r.kind) /\ One(Lane(reqs, r.kind))
    <3>1. r \in Lane(reqs, r.kind)
      BY <2>3 DEF Lane
    <3>2. One(Lane(reqs, r.kind))
      BY <1>1, <2>2 DEF HoldsPart, LaneIs
    <3> QED BY <3>1, <3>2
  <2>5. Lane(reqs \ {r}, r.kind) = {}
    BY <1>1, <2>3, <2>4, LaneLanded
  <2>6. /\ ReqsOk(reqs') /\ AnswersOk(reqs')
        /\ \A l : l # LaneOf(r.kind) /\ l # "list" => Lane(reqs', l) = Lane(reqs, l)
        /\ Lane(reqs', r.kind) = {}
    <3>1. /\ ReqsOk(Reload(reqs \ {r}, r)) /\ AnswersOk(Reload(reqs \ {r}, r))
          /\ \A l : l # LaneOf(r.kind) /\ l # "list" =>
                Lane(Reload(reqs \ {r}, r), l) = Lane(reqs, l)
          /\ LaneOf(r.kind) # "list" =>
                Lane(Reload(reqs \ {r}, r), LaneOf(r.kind)) = Lane(reqs \ {r}, LaneOf(r.kind))
      BY Lands
    <3> QED BY <2>2, <2>3, <2>5, <3>1
  <2>7. /\ Lane(reqs', "create") = Lane(reqs, "create")
        /\ Lane(reqs', "discover_form") = Lane(reqs, "discover_form")
        /\ Lane(reqs', "discover_row") = Lane(reqs, "discover_row")
        /\ Lane(reqs', "revoke") = Lane(reqs, "revoke")
        /\ r.kind = "delete" => Lane(reqs', "start") = Lane(reqs, "start")
        /\ r.kind = "start" => Lane(reqs', "delete") = Lane(reqs, "delete")
    BY <2>2, <2>3, <2>6 DEF Unnumbered
  <2>8. DialogPart(ui', reqs') /\ ToolsPart(ui', reqs')
    BY <2>2, <2>7, PartsKept
  <2>9. HoldsPart(ui', reqs')
    <3>1. LaneIs(reqs', r.kind, FALSE)
      BY <2>6 DEF LaneIs, One
    <3>2. r.kind = "start" => ui.connecting # "" /\ ~ui.left
      BY <1>1, <2>4 DEF HoldsPart, LaneIs
    <3>3. CASE r.kind = "delete"
      BY <1>1, <2>2, <2>7, <3>1, <3>3 DEF HoldsPart, LaneIs
    <3>4. CASE r.kind = "start"
      BY <1>1, <2>2, <2>7, <3>1, <3>2, <3>4 DEF HoldsPart, LaneIs
    <3> QED BY <2>2, <3>3, <3>4
  <2>10. Told'
    BY <1>1, <2>2, <2>6 DEF Told, RowsOk
  <2> QED BY <1>1, <2>2, <2>6, <2>8, <2>9, <2>10 DEF UpInv, PageIs, On
<1> QED BY <1>2, <1>3

\* Disconnect is answered: the dialog takes the row only if it is still on it.
LEMMA UpRevoked ==
    ASSUME UpInv, NEW r \in reqs, LandRevoke(r)
    PROVE  UpInv'
<1>1. /\ DOMAIN ui = UpFields /\ ReqsOk(reqs) /\ AnswersOk(reqs) /\ HoldsPart(ui, reqs)
      /\ On /\ RowsOk /\ \A x \in ui.items : Named(x)
  BY DEF UpInv, PageIs, Told
<1>2. /\ DOMAIN ui' = UpFields /\ ui'.page = ui.page
      /\ SameTools(ui, ui') /\ ui'.revoking = FALSE /\ ui'.deleting = ui.deleting
      /\ ui'.left = ui.left /\ ui'.connecting = ui.connecting
      /\ ui'.items = ui.items \/ (r.ans.ok /\ ui'.items = Replaced(ui.items, r.ans.row))
      /\ SameDialog(ui, [ui' EXCEPT !.editing = ui.editing])
      /\ \/ ui'.editing = ui.editing
         \/ r.ans.ok /\ ui'.editing = r.ans.row /\ ui.editing.id = r.ans.row.id
      /\ reqs' = Reload(reqs \ {r}, r) /\ srv' = srv /\ r.kind = "revoke"
  BY <1>1 DEF LandRevoke, EditingAfter, SameDialog, SameTools, UpFields
<1>3. r.ans.ok => Named(r.ans.row)
  BY <1>1, <1>2 DEF AnswersOk, AnswerOk, Said
<1>4. LaneOf(r.kind) = "revoke" /\ "revoke" \in Unnumbered
  BY <1>2 DEF LaneOf, Saves, Unnumbered
<1>5. r \in Lane(reqs, "revoke") /\ One(Lane(reqs, "revoke"))
  <2>1. r \in Lane(reqs, "revoke")
    BY <1>4 DEF Lane
  <2> QED BY <1>1, <2>1 DEF HoldsPart, LaneIs
<1>6. Lane(reqs \ {r}, "revoke") = {}
  BY <1>1, <1>4, <1>5, LaneLanded
<1>7. /\ ReqsOk(reqs') /\ AnswersOk(reqs')
      /\ \A l : l # "revoke" /\ l # "list" => Lane(reqs', l) = Lane(reqs, l)
      /\ Lane(reqs', "revoke") = {}
  <2>1. /\ ReqsOk(Reload(reqs \ {r}, r)) /\ AnswersOk(Reload(reqs \ {r}, r))
        /\ \A l : l # LaneOf(r.kind) /\ l # "list" =>
              Lane(Reload(reqs \ {r}, r), l) = Lane(reqs, l)
        /\ LaneOf(r.kind) # "list" =>
              Lane(Reload(reqs \ {r}, r), LaneOf(r.kind)) = Lane(reqs \ {r}, LaneOf(r.kind))
    BY Lands
  <2> QED BY <1>2, <1>4, <1>6, <2>1
<1>8. /\ Lane(reqs', "create") = Lane(reqs, "create")
      /\ Lane(reqs', "discover_form") = Lane(reqs, "discover_form")
      /\ Lane(reqs', "discover_row") = Lane(reqs, "discover_row")
      /\ Lane(reqs', "start") = Lane(reqs, "start")
      /\ Lane(reqs', "delete") = Lane(reqs, "delete")
  BY <1>7
<1>9. ToolsPart(ui', reqs')
  BY <1>2, <1>8, PartsKept
<1>10. HoldsPart(ui', reqs')
  BY <1>1, <1>2, <1>7, <1>8 DEF HoldsPart, LaneIs, One
<1>11. DialogPart(ui', reqs')
  <2>1. /\ ui'.open = ui.open /\ ui'.saving = ui.saving /\ ui'.formError = ui.formError
        /\ ui'.form = ui.form /\ ui'.formDiscovery = ui.formDiscovery
        /\ ui'.seededFrom = ui.seededFrom /\ ui'.typedHere = ui.typedHere
    BY <1>1, <1>2 DEF SameDialog, UpFields
  <2>2. ui'.editing # NoRow => ui.editing # NoRow /\ ui'.editing.id = ui.editing.id
    BY <1>2, <1>3, UpRows DEF Named
  <2>3. DialogPart(ui, reqs)
    BY DEF UpInv
  <2> QED BY <1>8, <2>1, <2>2, <2>3 DEF DialogPart, LaneIs, TypedHere
<1>12. Told'
  <2>1. \A x \in ui'.items : Named(x)
    BY <1>1, <1>2, <1>3 DEF Replaced
  <2> QED BY <1>1, <1>2, <1>7, <2>1 DEF Told, RowsOk
<1> QED BY <1>1, <1>2, <1>7, <1>9, <1>10, <1>11, <1>12 DEF UpInv, PageIs, On

\* The Tools dialog: a new press is numbered afresh, and a close lets nothing in.
LEMMA UpTools ==
    ASSUME UpInv, discoverRow \/ closeTools \/ \E u \in ui.items : openTools(u)
    PROVE  UpInv'
<1>1. /\ DOMAIN ui = UpFields /\ ReqsOk(reqs) /\ AnswersOk(reqs) /\ On
  BY DEF UpInv, PageIs, Told
<1> DEFINE bs == Bumped(reqs, RowDiscovery)
<1>2. /\ ReqsOk(bs) /\ Lane(bs, "discover_row") = {}
      /\ \A l : l # "discover_row" => Lane(bs, l) = Lane(reqs, l)
  BY <1>1, Renumbered
<1>3. AnswersOk(bs)
  BY <1>1, AnswersBumped
<1>4. LaneOf("discover_row") = "discover_row" /\ "discover_row" \in UpKinds
  BY DEF LaneOf, Saves, UpKinds
<1>5. CASE closeTools
  <2>1. /\ DOMAIN ui' = UpFields /\ ui'.page = ui.page /\ ui'.items = ui.items
        /\ SameDialog(ui, ui') /\ SameHolds(ui, ui') /\ ui'.rowDiscovery = IDLE
        /\ reqs' = bs /\ srv' = srv
    BY <1>1, <1>5 DEF closeTools, Apply, SameDialog, SameHolds, UpFields
  <2>2. IsPanel(IDLE) /\ IDLE.pending = FALSE /\ IDLE.result = {}
    BY DEF IDLE, IsPanel
  <2>3. ToolsPart(ui', reqs')
    BY <1>2, <2>1, <2>2 DEF ToolsPart, LaneIs, One
  <2>4. DialogPart(ui', reqs') /\ HoldsPart(ui', reqs')
    BY <1>2, <2>1, PartsKept DEF Unnumbered
  <2>5. Told'
    BY <1>3, <2>1, TellsSame
  <2> QED BY <1>1, <1>2, <2>1, <2>3, <2>4, <2>5 DEF UpInv, PageIs, On
<1>6. CASE discoverRow \/ \E u \in ui.items : openTools(u)
  <2> DEFINE P == [IDLE EXCEPT !.pending = TRUE]
  <2>1. PICK id : /\ DOMAIN ui' = UpFields /\ ui'.page = ui.page /\ ui'.items = ui.items
                  /\ SameDialog(ui, ui') /\ SameHolds(ui, ui') /\ ui'.rowDiscovery = P
                  /\ ui'.tools.id = id /\ srv' = srv
                  /\ reqs' = With(bs, Request("discover_row", id, NoRow))
    <3>1. CASE discoverRow
      <4> SUFFICES /\ DOMAIN ui' = UpFields /\ ui'.page = ui.page /\ ui'.items = ui.items
                   /\ SameDialog(ui, ui') /\ SameHolds(ui, ui') /\ ui'.rowDiscovery = P
                   /\ ui'.tools = ui.tools /\ srv' = srv
                   /\ reqs' = With(bs, Request("discover_row", ui.tools.id, NoRow))
        OBVIOUS
      <4> QED BY <1>1, <3>1 DEF discoverRow, Asked, Spend, Apply, SameDialog, SameHolds, UpFields
    <3>2. CASE \E u \in ui.items : openTools(u)
      <4>1. PICK u \in ui.items : openTools(u)
        BY <3>2
      <4> SUFFICES /\ DOMAIN ui' = UpFields /\ ui'.page = ui.page /\ ui'.items = ui.items
                   /\ SameDialog(ui, ui') /\ SameHolds(ui, ui') /\ ui'.rowDiscovery = P
                   /\ ui'.tools = u /\ srv' = srv
                   /\ reqs' = With(bs, Request("discover_row", u.id, NoRow))
        OBVIOUS
      <4> QED BY <1>1, <4>1 DEF openTools, Asked, Spend, Apply, SameDialog, SameHolds, UpFields
    <3> QED BY <1>6, <3>1, <3>2
  <2>2. IsPanel(P) /\ P.pending = TRUE /\ P.result = {}
    BY DEF IDLE, IsPanel
  <2> HIDE DEF bs, P
  <2>3. ReqsOk(reqs') /\ \A l : l # "discover_row" => Lane(reqs', l) = Lane(reqs, l)
    <3>1. /\ ReqsOk(With(bs, Request("discover_row", id, NoRow)))
          /\ \A l : l # LaneOf("discover_row") =>
                Lane(With(bs, Request("discover_row", id, NoRow)), l) = Lane(bs, l)
      BY <1>2, Sends
    <3> QED BY <1>2, <1>4, <2>1, <3>1
  <2>4. /\ LaneIs(reqs', "discover_row", TRUE)
        /\ \A x \in Lane(reqs', "discover_row") : x.id = id
    <3>1. Lane(bs, LaneOf("discover_row")) = {}
      BY <1>2, <1>4
    <3>2. LaneIs(With(bs, Request("discover_row", id, NoRow)), LaneOf("discover_row"), TRUE)
      BY <3>1, Joins
    <3>3. ASSUME NEW x \in Lane(With(bs, Request("discover_row", id, NoRow)), LaneOf("discover_row"))
          PROVE  x.id = id
      BY <3>1, JoinedIs
    <3> QED BY <1>4, <2>1, <3>2, <3>3
  <2>5. AnswersOk(reqs')
    BY <1>3, <1>4, <2>1, AnswersSent
  <2>6. ToolsPart(ui', reqs')
    BY <2>1, <2>2, <2>4 DEF ToolsPart, LaneIs
  <2>7. DialogPart(ui', reqs') /\ HoldsPart(ui', reqs')
    BY <2>3, <2>1, PartsKept DEF Unnumbered
  <2>8. Told'
    BY <2>1, <2>5, TellsSame
  <2> QED BY <1>1, <2>1, <2>3, <2>6, <2>7, <2>8 DEF UpInv, PageIs, On
<1> QED BY <1>5, <1>6

\* A run of either panel ends: only the panel that still waits for it is told.
LEMMA UpDiscovered ==
    ASSUME UpInv, NEW r \in reqs, LandDiscoverRow(r) \/ LandDiscoverForm(r)
    PROVE  UpInv'
<1>1. /\ DOMAIN ui = UpFields /\ ReqsOk(reqs) /\ AnswersOk(reqs) /\ On /\ r.mine \in BOOLEAN
  BY DEF UpInv, PageIs, Told, ReqsOk, ReqOk
<1>2. \A x : IsPanel(Ran(r, x)) /\ Ran(r, x).pending = FALSE /\ Ran(r, x).result \subseteq {x}
  BY DEF Ran, IDLE, IsPanel
<1>3. CASE LandDiscoverRow(r)
  <2>1. /\ DOMAIN ui' = UpFields /\ ui'.page = ui.page /\ ui'.items = ui.items
        /\ SameDialog(ui, ui') /\ SameHolds(ui, ui') /\ ui'.tools = ui.tools
        /\ r.mine => ui'.rowDiscovery = Ran(r, r.id)
        /\ ~r.mine => ui'.rowDiscovery = ui.rowDiscovery
        /\ reqs' = With(reqs \ {r}, Request("refresh", "", NoRow)) /\ srv' = srv
        /\ r.kind = "discover_row"
    BY <1>1, <1>3 DEF LandDiscoverRow, SameDialog, SameHolds, UpFields
  <2>2. /\ LaneOf(r.kind) = "discover_row" /\ LaneOf("refresh") = "refresh"
        /\ "refresh" \in UpKinds /\ "discover_row" \notin Unnumbered
    BY <2>1 DEF LaneOf, Saves, UpKinds, Unnumbered
  <2>3. ReqsOk(reqs \ {r}) /\ AnswersOk(reqs \ {r})
    BY <1>1, LaneLanded, AnswersLess
  <2>4. /\ ReqsOk(reqs')
        /\ \A l : l # "refresh" => Lane(reqs', l) = Lane(reqs \ {r}, l)
    <3>1. /\ ReqsOk(With(reqs \ {r}, Request("refresh", "", NoRow)))
          /\ \A l : l # LaneOf("refresh") =>
                Lane(With(reqs \ {r}, Request("refresh", "", NoRow)), l) = Lane(reqs \ {r}, l)
      BY <2>3, SendsRead
    <3> QED BY <2>1, <2>2, <3>1
  <2>5. AnswersOk(reqs')
    BY <2>1, <2>2, <2>3, AnswersSent
  <2>6. /\ \A l : l # "discover_row" => Lane(reqs \ {r}, l) = Lane(reqs, l)
        /\ r \in Lane(reqs, "discover_row") <=> r.mine
        /\ r \notin Lane(reqs, "discover_row") =>
              Lane(reqs \ {r}, "discover_row") = Lane(reqs, "discover_row")
        /\ r \in Lane(reqs, "discover_row") /\ One(Lane(reqs, "discover_row")) =>
              Lane(reqs \ {r}, "discover_row") = {}
    <3>1. /\ \A l : l # LaneOf(r.kind) => Lane(reqs \ {r}, l) = Lane(reqs, l)
          /\ r \in Lane(reqs, LaneOf(r.kind)) /\ One(Lane(reqs, LaneOf(r.kind))) =>
                Lane(reqs \ {r}, LaneOf(r.kind)) = {}
          /\ r \notin Lane(reqs, LaneOf(r.kind)) => \A l : Lane(reqs \ {r}, l) = Lane(reqs, l)
          /\ r \in Lane(reqs, LaneOf(r.kind)) <=> (LaneOf(r.kind) \in Unnumbered \/ r.mine)
      BY <1>1, LaneLanded, Zenon
    <3> QED BY <2>2, <3>1
  <2>7. ToolsPart(ui, reqs)
    BY DEF UpInv
  <2>8. ToolsPart(ui', reqs')
    <3>1. CASE r.mine
      <4>1. Lane(reqs', "discover_row") = {} /\ r.id = ui.tools.id
        BY <2>4, <2>6, <2>7, <3>1 DEF ToolsPart, LaneIs
      <4> QED BY <1>2, <2>1, <3>1, <4>1 DEF ToolsPart, LaneIs, One
    <3>2. CASE ~r.mine
      <4>1. Lane(reqs', "discover_row") = Lane(reqs, "discover_row")
        BY <2>4, <2>6, <3>2
      <4> QED BY <2>1, <3>2, <4>1, PartsKept DEF SameTools
    <3> QED BY <1>1, <3>1, <3>2
  <2>9. DialogPart(ui', reqs') /\ HoldsPart(ui', reqs')
    BY <2>1, <2>4, <2>6, PartsKept DEF Unnumbered
  <2>10. Told'
    BY <2>1, <2>5, TellsSame
  <2> QED BY <1>1, <2>1, <2>4, <2>8, <2>9, <2>10 DEF UpInv, PageIs, On
<1>4. CASE LandDiscoverForm(r)
  <2>1. /\ DOMAIN ui' = UpFields /\ ui'.page = ui.page /\ ui'.items = ui.items
        /\ SameTools(ui, ui') /\ SameHolds(ui, ui')
        /\ ui'.open = ui.open /\ ui'.saving = ui.saving /\ ui'.formError = ui.formError
        /\ ui'.form = ui.form /\ ui'.editing = ui.editing
        /\ ui'.seededFrom = ui.seededFrom /\ ui'.typedHere = ui.typedHere
        /\ r.mine => ui'.formDiscovery = Ran(r, r.arg)
        /\ ~r.mine => ui'.formDiscovery = ui.formDiscovery
        /\ reqs' = reqs \ {r} /\ srv' = srv /\ r.kind = "discover_form"
    BY <1>1, <1>4 DEF LandDiscoverForm, SameTools, SameHolds, UpFields
  <2>2. LaneOf(r.kind) = "discover_form" /\ "discover_form" \notin Unnumbered
    BY <2>1 DEF LaneOf, Saves, Unnumbered
  <2>3. ReqsOk(reqs') /\ AnswersOk(reqs')
    BY <1>1, <2>1, LaneLanded, AnswersLess
  <2>4. /\ \A l : l # "discover_form" => Lane(reqs \ {r}, l) = Lane(reqs, l)
        /\ r \in Lane(reqs, "discover_form") <=> r.mine
        /\ r \notin Lane(reqs, "discover_form") =>
              Lane(reqs \ {r}, "discover_form") = Lane(reqs, "discover_form")
        /\ r \in Lane(reqs, "discover_form") /\ One(Lane(reqs, "discover_form")) =>
              Lane(reqs \ {r}, "discover_form") = {}
    <3>1. /\ \A l : l # LaneOf(r.kind) => Lane(reqs \ {r}, l) = Lane(reqs, l)
          /\ r \in Lane(reqs, LaneOf(r.kind)) /\ One(Lane(reqs, LaneOf(r.kind))) =>
                Lane(reqs \ {r}, LaneOf(r.kind)) = {}
          /\ r \notin Lane(reqs, LaneOf(r.kind)) => \A l : Lane(reqs \ {r}, l) = Lane(reqs, l)
          /\ r \in Lane(reqs, LaneOf(r.kind)) <=> (LaneOf(r.kind) \in Unnumbered \/ r.mine)
      BY <1>1, LaneLanded, Zenon
    <3> QED BY <2>2, <3>1
  <2>5. DialogPart(ui, reqs)
    BY DEF UpInv
  <2>6. DialogPart(ui', reqs')
    <3>1. CASE r.mine
      <4>1. /\ Lane(reqs', "discover_form") = {} /\ r.arg = Connection(ui.form)
            /\ Lane(reqs', "create") = Lane(reqs, "create") /\ ui.editing = NoRow
        BY <2>1, <2>4, <2>5, <3>1 DEF DialogPart, LaneIs
      <4>2. /\ IsPanel(ui'.formDiscovery) /\ ui'.formDiscovery.pending = FALSE
            /\ ui'.formDiscovery.result \subseteq {Connection(ui.form)}
        BY <1>2, <2>1, <3>1, <4>1
      <4>3. TypedHere(ui') <=> TypedHere(ui)
        BY <2>1 DEF TypedHere
      <4> QED BY <2>1, <2>5, <4>1, <4>2, <4>3 DEF DialogPart, LaneIs, One
    <3>2. CASE ~r.mine
      <4>1. /\ Lane(reqs', "discover_form") = Lane(reqs, "discover_form")
            /\ Lane(reqs', "create") = Lane(reqs, "create")
        BY <2>1, <2>4, <3>2
      <4> QED BY <2>1, <3>2, <4>1, PartsKept DEF SameDialog
    <3> QED BY <1>1, <3>1, <3>2
  <2>7. ToolsPart(ui', reqs') /\ HoldsPart(ui', reqs')
    BY <2>1, <2>4, PartsKept DEF Unnumbered
  <2>8. Told'
    BY <2>1, <2>3, TellsSame
  <2> QED BY <1>1, <2>1, <2>3, <2>6, <2>7, <2>8 DEF UpInv, PageIs, On
<1> QED BY <1>3, <1>4

LEMMA IdlePanel == IsPanel(IDLE) /\ IDLE.pending = FALSE /\ IDLE.result = {}
BY DEF IDLE, IsPanel

\* Add and Edit open a dialog of their own: nothing of an earlier one is in it.
LEMMA UpOpens ==
    ASSUME UpInv, openAdd \/ \E u \in ui.items : openEdit(u)
    PROVE  UpInv'
<1>1. /\ DOMAIN ui = UpFields /\ DOMAIN ui.form = FormFields
      /\ ReqsOk(reqs) /\ AnswersOk(reqs) /\ On
  BY DEF UpInv, PageIs, Told, DialogPart
<1> DEFINE bs == Bumped(reqs, FormDiscovery)
<1>2. /\ DOMAIN ui' = UpFields /\ ui'.page = ui.page /\ ui'.items = ui.items
      /\ SameTools(ui, ui') /\ SameHolds(ui, ui') /\ srv' = srv
      /\ reqs' = Bumped(bs, Saves)
      /\ ui'.open = TRUE /\ ui'.saving = FALSE /\ ui'.formError = ""
      /\ ui'.formDiscovery = IDLE
      /\ ui'.editing # NoRow => ui'.editing.id = ui'.seededFrom
  <2>1. CASE openAdd
    BY <1>1, <2>1 DEF openAdd, Apply, opened, resetFormDiscovery, Spend, SameTools, SameHolds, UpFields
  <2>2. ASSUME NEW u \in ui.items, openEdit(u)
        PROVE  /\ DOMAIN ui' = UpFields /\ ui'.page = ui.page /\ ui'.items = ui.items
               /\ SameTools(ui, ui') /\ SameHolds(ui, ui') /\ srv' = srv
               /\ reqs' = Bumped(bs, Saves)
               /\ ui'.open = TRUE /\ ui'.saving = FALSE /\ ui'.formError = ""
               /\ ui'.formDiscovery = IDLE
               /\ ui'.editing # NoRow => ui'.editing.id = ui'.seededFrom
    <3> DEFINE F == [formFromUpstream(u) EXCEPT !.register_client = u.id \in ui.registerFor]
               w == [ui EXCEPT !.editing = u, !.formError = "", !.revokeLine = "",
                               !.seededFrom = u.id, !.typedHere = {}, !.form = F]
    <3>1. /\ ui' = Spend([[w EXCEPT !.formDiscovery = IDLE] EXCEPT !.saving = FALSE, !.open = TRUE,
                            !.formError = IF @ = "" THEN "" ELSE "other"], "opens")
          /\ reqs' = Bumped(bs, Saves) /\ srv' = srv
      BY <2>2 DEF openEdit, Apply, opened, resetFormDiscovery
    <3> HIDE DEF F
    <3>2. /\ DOMAIN w = UpFields /\ w.page = ui.page /\ w.items = ui.items
          /\ SameTools(ui, w) /\ SameHolds(ui, w) /\ w.formError = ""
          /\ w.editing.id = w.seededFrom
      BY <1>1 DEF SameTools, SameHolds, UpFields
    <3> HIDE DEF w
    <3> QED BY <3>1, <3>2 DEF Spend, SameTools, SameHolds, UpFields
  <2> QED BY <2>1, <2>2
<1>3. DOMAIN ui'.form = FormFields /\ ui'.form.token = "" /\ ui'.form.value = ""
  <2>1. CASE openAdd
    <3>1. ui'.form = [ui.form EXCEPT !.name = "", !.kind = "mcp", !.url = "",
                        !.transport = "streamable-http", !.test_path = "",
                        !.token = "", !.value = "", !.clear_stored = FALSE]
      BY <1>1, <2>1 DEF openAdd, Apply, opened, resetFormDiscovery, Spend, UpFields
    <3> QED BY <1>1, <3>1 DEF FormFields, blankUpstreamForm
  <2>2. ASSUME NEW u \in ui.items, openEdit(u)
        PROVE  DOMAIN ui'.form = FormFields /\ ui'.form.token = "" /\ ui'.form.value = ""
    <3>1. ui'.form = [formFromUpstream(u) EXCEPT !.register_client = u.id \in ui.registerFor]
      BY <1>1, <2>2 DEF openEdit, Apply, opened, resetFormDiscovery, Spend, UpFields
    <3>2. /\ DOMAIN formFromUpstream(u) = FormFields
          /\ formFromUpstream(u).token = "" /\ formFromUpstream(u).value = ""
      BY DEF formFromUpstream, blankUpstreamForm, FormFields
    <3>3. "token" \in FormFields /\ "value" \in FormFields
      BY DEF FormFields, blankUpstreamForm
    <3> QED BY <3>1, <3>2, <3>3
  <2> QED BY <2>1, <2>2
<1>4. /\ ReqsOk(bs) /\ Lane(bs, "discover_form") = {} /\ AnswersOk(bs)
      /\ \A l : l # "discover_form" => Lane(bs, l) = Lane(reqs, l)
  BY <1>1, Renumbered, AnswersBumped
<1> HIDE DEF bs
<1>5. /\ ReqsOk(reqs') /\ Lane(reqs', "create") = {} /\ AnswersOk(reqs')
      /\ \A l : l # "create" => Lane(reqs', l) = Lane(bs, l)
  BY <1>2, <1>4, Renumbered, AnswersBumped
<1>6. /\ Lane(reqs', "discover_form") = {}
      /\ Lane(reqs', "discover_row") = Lane(reqs, "discover_row")
      /\ \A l \in Unnumbered : Lane(reqs', l) = Lane(reqs, l)
  BY <1>4, <1>5 DEF Unnumbered
<1>7. DialogPart(ui', reqs')
  BY <1>2, <1>3, <1>5, <1>6, IdlePanel DEF DialogPart, LaneIs, One, Credentials, OwnOrNone, TypedHere
<1>8. ToolsPart(ui', reqs') /\ HoldsPart(ui', reqs')
  BY <1>2, <1>6, PartsKept
<1>9. Told'
  BY <1>2, <1>5, TellsSame
<1> QED BY <1>1, <1>2, <1>5, <1>7, <1>8, <1>9 DEF UpInv, PageIs, On

\* A closed dialog, and one that has just been opened, have nothing in their panel.
BlankDialog(v, ss) ==
    /\ v.open \in BOOLEAN /\ v.saving \in BOOLEAN /\ v.formError \in OwnOrNone
    /\ LaneIs(ss, "create", v.saving)
    /\ v.formDiscovery = IDLE /\ Lane(ss, "discover_form") = {}
    /\ DOMAIN v.form = FormFields
    /\ v.editing # NoRow => v.editing.id = v.seededFrom
    /\ v.open => TypedHere(v)

LEMMA DialogBlank ==
    ASSUME NEW v, NEW ss, BlankDialog(v, ss)
    PROVE  DialogPart(v, ss)
<1>1. /\ IsPanel(v.formDiscovery) /\ v.formDiscovery.pending = FALSE
      /\ v.formDiscovery.result = {}
  BY IdlePanel DEF BlankDialog
<1>2. LaneIs(ss, "discover_form", FALSE)
  BY DEF BlankDialog, LaneIs, One
<1> QED BY <1>1, <1>2 DEF BlankDialog, DialogPart

ClosedFrom(u, rs, c) ==
    /\ DOMAIN c.ui = UpFields /\ c.ui.page = u.page /\ c.ui.items = u.items
    /\ SameTools(u, c.ui) /\ SameHolds(u, c.ui) /\ c.ui.saving = u.saving
    /\ c.ui.open = FALSE /\ c.ui.formError = u.formError
    /\ c.ui.editing = u.editing /\ c.ui.seededFrom = u.seededFrom
    /\ c.ui.formDiscovery = IDLE /\ DOMAIN c.ui.form = FormFields
    /\ ReqsOk(c.reqs) /\ AnswersOk(c.reqs) /\ Lane(c.reqs, "discover_form") = {}
    /\ \A l : l # "discover_form" => Lane(c.reqs, l) = Lane(rs, l)

\* Every way out of the dialog, from a page u and its requests rs.
LEMMA ClosedIs ==
    ASSUME NEW u, NEW rs, NEW c, c = Closed(u, rs),
           DOMAIN u = UpFields, DOMAIN u.form = FormFields, ReqsOk(rs), AnswersOk(rs)
    PROVE  ClosedFrom(u, rs, c)
<1>1. /\ DOMAIN c.ui = UpFields /\ c.ui.page = u.page /\ c.ui.items = u.items
      /\ SameTools(u, c.ui) /\ SameHolds(u, c.ui)
      /\ c.ui.saving = u.saving /\ c.ui.open = FALSE /\ c.ui.formError = u.formError
      /\ c.ui.editing = u.editing /\ c.ui.seededFrom = u.seededFrom
      /\ c.ui.formDiscovery = IDLE /\ c.reqs = Bumped(rs, FormDiscovery)
      /\ c.ui.form = [u.form EXCEPT !.token = "", !.value = ""]
  BY DEF Closed, resetFormDiscovery, SameTools, SameHolds, UpFields
<1>2. /\ ReqsOk(c.reqs) /\ Lane(c.reqs, "discover_form") = {}
      /\ \A l : l # "discover_form" => Lane(c.reqs, l) = Lane(rs, l)
  BY <1>1, Renumbered
<1>3. AnswersOk(c.reqs)
  BY <1>1, AnswersBumped
<1>4. DOMAIN c.ui.form = FormFields
  BY <1>1
<1> QED BY <1>1, <1>2, <1>3, <1>4 DEF ClosedFrom

\* The dialog closes and nothing else happens: Cancel, or a save with nothing to send.
LEMMA UpCloses ==
    ASSUME UpInv, NEW u, SameTools(ui, u), SameHolds(ui, u), u.page = ui.page,
           u.items = ui.items, DOMAIN u = UpFields, DOMAIN u.form = FormFields,
           u.formError \in OwnOrNone, u.saving = ui.saving, u.editing = ui.editing,
           u.seededFrom = ui.seededFrom, Apply(Closed(u, reqs))
    PROVE  UpInv'
<1>1. /\ DialogPart(ui, reqs) /\ ReqsOk(reqs) /\ AnswersOk(reqs) /\ On
  BY DEF UpInv, PageIs, Told
<1>c. PICK c : c = Closed(u, reqs)
  OBVIOUS
<1>2. ui' = c.ui /\ reqs' = c.reqs /\ srv' = srv
  BY <1>c DEF Apply
<1>3. ClosedFrom(u, reqs, c)
  BY <1>1, <1>c, ClosedIs
<1>4. /\ Lane(reqs', "discover_row") = Lane(reqs, "discover_row")
      /\ Lane(reqs', "create") = Lane(reqs, "create")
      /\ \A l \in Unnumbered : Lane(reqs', l) = Lane(reqs, l)
  BY <1>2, <1>3 DEF ClosedFrom, Unnumbered
<1>5. SameTools(ui, ui') /\ SameHolds(ui, ui')
  BY <1>2, <1>3 DEF ClosedFrom, SameTools, SameHolds
<1>6. ToolsPart(ui', reqs') /\ HoldsPart(ui', reqs')
  BY <1>4, <1>5, PartsKept
<1>7. DialogPart(ui', reqs')
  <2>1. LaneIs(reqs', "create", ui'.saving) /\ ui'.saving \in BOOLEAN
    BY <1>1, <1>2, <1>3, <1>4 DEF ClosedFrom, DialogPart, LaneIs
  <2>2. ui'.editing # NoRow => ui'.editing.id = ui'.seededFrom
    BY <1>1, <1>2, <1>3 DEF ClosedFrom, DialogPart
  <2>3. /\ ui'.open = FALSE /\ ~ui'.open /\ ui'.formError \in OwnOrNone /\ ui'.formDiscovery = IDLE
        /\ Lane(reqs', "discover_form") = {} /\ DOMAIN ui'.form = FormFields
    BY <1>2, <1>3 DEF ClosedFrom
  <2>4. BlankDialog(ui', reqs')
    BY <2>1, <2>2, <2>3 DEF BlankDialog
  <2> QED BY <2>4, DialogBlank
<1>8. Told'
  BY <1>2, <1>3, TellsSame DEF ClosedFrom
<1> QED BY <1>1, <1>2, <1>3, <1>6, <1>7, <1>8 DEF ClosedFrom, UpInv, PageIs, On

LEMMA UpCancels == ASSUME UpInv, close PROVE UpInv'
<1>1. /\ DOMAIN ui = UpFields /\ DOMAIN ui.form = FormFields /\ ui.formError \in OwnOrNone
      /\ SameTools(ui, ui) /\ SameHolds(ui, ui)
  BY DEF UpInv, PageIs, DialogPart, SameTools, SameHolds
<1>2. Apply(Closed(ui, reqs))
  BY DEF close
<1> QED BY <1>1, <1>2, UpCloses

\* One input changes: in Add, a panel about another connection is emptied.
LEMMA UpEnters ==
    ASSUME UpInv, ui.open, NEW k, NEW v, onFieldChange(k, v)
    PROVE  UpInv'
<1>1. /\ DOMAIN ui = UpFields /\ DOMAIN ui.form = FormFields /\ ReqsOk(reqs)
      /\ AnswersOk(reqs) /\ On /\ DialogPart(ui, reqs) /\ TypedHere(ui)
  BY DEF UpInv, PageIs, Told, DialogPart
<1> DEFINE f == Entered(k, v)
<1>2. /\ DOMAIN f = FormFields
      /\ \A c \in Credentials : c # k => f[c] = ui.form[c]
      /\ k # "kind" => \A c \in FormFields : c # k => f[c] = ui.form[c]
  <2>1. CASE k = "kind"
    BY <1>1, <2>1 DEF Entered, applyKindChange, FormFields, blankUpstreamForm, Credentials
  <2>2. CASE k # "kind"
    BY <1>1, <2>2 DEF Entered, FormFields, blankUpstreamForm, Credentials
  <2> QED BY <2>1, <2>2
<1> HIDE DEF f
<1> DEFINE w == Spend([ui EXCEPT !.form = f, !.typedHere = @ \cup ({k} \cap Credentials)], "edits")
<1>3. /\ DOMAIN w = UpFields /\ w.page = ui.page /\ w.items = ui.items
      /\ SameTools(ui, w) /\ SameHolds(ui, w)
      /\ w.open = ui.open /\ w.saving = ui.saving /\ w.formError = ui.formError
      /\ w.editing = ui.editing /\ w.seededFrom = ui.seededFrom
      /\ w.formDiscovery = ui.formDiscovery
      /\ w.form = f /\ w.typedHere = ui.typedHere \cup ({k} \cap Credentials)
  BY <1>1 DEF Spend, SameTools, SameHolds, UpFields
<1>4. /\ mode = "create" /\ k \in CONNECTION_FIELDS =>
            ui' = [w EXCEPT !.formDiscovery = IDLE] /\ reqs' = Bumped(reqs, FormDiscovery)
      /\ ~(mode = "create" /\ k \in CONNECTION_FIELDS) => ui' = w /\ reqs' = reqs
      /\ srv' = srv
  BY DEF onFieldChange, Apply, resetFormDiscovery, f
<1> HIDE DEF w
<1>5. TypedHere(w)
  BY <1>1, <1>2, <1>3 DEF TypedHere, Credentials
<1>6. CASE mode = "create" /\ k \in CONNECTION_FIELDS
  <2>1. /\ DOMAIN ui' = UpFields /\ ui'.page = ui.page /\ ui'.items = ui.items
        /\ SameTools(ui, ui') /\ SameHolds(ui, ui')
        /\ ui'.open = ui.open /\ ui'.saving = ui.saving /\ ui'.formError = ui.formError
        /\ ui'.editing = ui.editing /\ ui'.seededFrom = ui.seededFrom
        /\ ui'.formDiscovery = IDLE /\ ui'.form = w.form /\ ui'.typedHere = w.typedHere
        /\ reqs' = Bumped(reqs, FormDiscovery) /\ srv' = srv
    BY <1>3, <1>4, <1>6 DEF SameTools, SameHolds, UpFields
  <2>2. /\ ReqsOk(reqs') /\ Lane(reqs', "discover_form") = {}
        /\ \A l : l # "discover_form" => Lane(reqs', l) = Lane(reqs, l)
    BY <1>1, <2>1, Renumbered
  <2>3. AnswersOk(reqs')
    BY <1>1, <2>1, AnswersBumped
  <2>4. /\ Lane(reqs', "create") = Lane(reqs, "create")
        /\ Lane(reqs', "discover_row") = Lane(reqs, "discover_row")
        /\ \A l \in Unnumbered : Lane(reqs', l) = Lane(reqs, l)
    BY <2>2 DEF Unnumbered
  <2>5. BlankDialog(ui', reqs')
    <3>1. TypedHere(ui')
      BY <1>5, <2>1 DEF TypedHere
    <3>2. DOMAIN ui'.form = FormFields
      BY <1>2, <1>3, <2>1
    <3> QED BY <1>1, <2>1, <2>2, <2>4, <3>1, <3>2 DEF DialogPart, BlankDialog, LaneIs
  <2>6. DialogPart(ui', reqs')
    BY <2>5, DialogBlank
  <2>7. ToolsPart(ui', reqs') /\ HoldsPart(ui', reqs')
    BY <2>1, <2>4, PartsKept
  <2>8. Told'
    BY <2>1, <2>3, TellsSame
  <2> QED BY <1>1, <2>1, <2>2, <2>6, <2>7, <2>8 DEF UpInv, PageIs, On
<1>7. CASE ~(mode = "create" /\ k \in CONNECTION_FIELDS)
  <2>1. ui' = w /\ reqs' = reqs /\ srv' = srv
    BY <1>4, <1>7
  <2>2. \/ ui.editing # NoRow
        \/ Connection(f) = Connection(ui.form)
    <3>1. ui.editing = NoRow => k \notin CONNECTION_FIELDS
      BY <1>7 DEF mode
    <3>2. CONNECTION_FIELDS \subseteq FormFields /\ "kind" \in CONNECTION_FIELDS
      BY DEF CONNECTION_FIELDS, FormFields, blankUpstreamForm
    <3> QED BY <1>2, <3>1, <3>2 DEF Connection
  <2>3. ui.editing # NoRow => Lane(reqs, "discover_form") = {}
    BY <1>1 DEF DialogPart, LaneIs
  <2>4. DialogPart(w, reqs)
    <3>1. CASE ui.editing # NoRow
      BY <1>1, <1>2, <1>3, <1>5, <2>3, <3>1 DEF DialogPart
    <3>2. CASE Connection(f) = Connection(ui.form)
      BY <1>1, <1>2, <1>3, <1>5, <3>2 DEF DialogPart
    <3> QED BY <2>2, <3>1, <3>2
  <2>5. ToolsPart(ui', reqs') /\ HoldsPart(ui', reqs')
    BY <1>3, <2>1, PartsKept
  <2>6. Told'
    BY <1>1, <1>3, <2>1, TellsSame
  <2> QED BY <1>1, <1>3, <2>1, <2>4, <2>5, <2>6 DEF UpInv, PageIs, On
<1> QED BY <1>6, <1>7

\* Discover is pressed in Add: the panel waits for the form as it is now.
LEMMA UpAsks == ASSUME UpInv, discoverForm PROVE UpInv'
<1>1. /\ DOMAIN ui = UpFields /\ ReqsOk(reqs) /\ AnswersOk(reqs) /\ On /\ DialogPart(ui, reqs)
      /\ ui.editing = NoRow
  BY DEF UpInv, PageIs, Told, discoverForm, mode
<1> DEFINE bs == Bumped(reqs, FormDiscovery)
           P == [IDLE EXCEPT !.pending = TRUE]
           C == Connection(ui.form)
<1>2. PICK id : reqs' = With(bs, Request("discover_form", id, C))
  BY DEF discoverForm
<1>3. /\ DOMAIN ui' = UpFields /\ ui'.page = ui.page /\ ui'.items = ui.items
      /\ SameTools(ui, ui') /\ SameHolds(ui, ui') /\ srv' = srv
      /\ ui'.open = ui.open /\ ui'.saving = ui.saving /\ ui'.formError = ui.formError
      /\ ui'.editing = ui.editing /\ ui'.seededFrom = ui.seededFrom
      /\ ui'.form = ui.form /\ ui'.typedHere = ui.typedHere /\ ui'.formDiscovery = P
  BY <1>1 DEF discoverForm, SameTools, SameHolds, UpFields
<1>4. IsPanel(P) /\ P.pending = TRUE /\ P.result = {}
  BY DEF IDLE, IsPanel
<1>5. /\ ReqsOk(bs) /\ Lane(bs, "discover_form") = {}
      /\ \A l : l # "discover_form" => Lane(bs, l) = Lane(reqs, l)
  BY <1>1, Renumbered
<1>6. AnswersOk(bs)
  BY <1>1, AnswersBumped
<1>7. LaneOf("discover_form") = "discover_form" /\ "discover_form" \in UpKinds
  BY DEF LaneOf, Saves, UpKinds
<1> HIDE DEF bs, P, C
<1>8. ReqsOk(reqs') /\ \A l : l # "discover_form" => Lane(reqs', l) = Lane(reqs, l)
  <2>1. /\ ReqsOk(With(bs, Request("discover_form", id, C)))
        /\ \A l : l # LaneOf("discover_form") =>
              Lane(With(bs, Request("discover_form", id, C)), l) = Lane(bs, l)
    BY <1>5, Sends
  <2> QED BY <1>2, <1>5, <1>7, <2>1
<1>9. /\ LaneIs(reqs', "discover_form", TRUE)
      /\ \A x \in Lane(reqs', "discover_form") : x.arg = C
  <2>1. Lane(bs, LaneOf("discover_form")) = {}
    BY <1>5, <1>7
  <2>2. LaneIs(With(bs, Request("discover_form", id, C)), LaneOf("discover_form"), TRUE)
    BY <2>1, Joins
  <2>3. ASSUME NEW x \in Lane(With(bs, Request("discover_form", id, C)), LaneOf("discover_form"))
        PROVE  x.arg = C
    BY <2>1, JoinedIs
  <2> QED BY <1>2, <1>7, <2>2, <2>3
<1>10. AnswersOk(reqs')
  BY <1>2, <1>6, <1>7, AnswersSent
<1>11. DialogPart(ui', reqs')
  <2>1. TypedHere(ui') <=> TypedHere(ui)
    BY <1>3 DEF TypedHere
  <2>2. LaneIs(reqs', "create", ui'.saving)
    BY <1>1, <1>3, <1>8 DEF DialogPart, LaneIs
  <2>3. \A x \in Lane(reqs', "discover_form") : x.arg = Connection(ui'.form)
    BY <1>3, <1>9 DEF C
  <2> QED BY <1>1, <1>3, <1>4, <1>9, <2>1, <2>2, <2>3 DEF DialogPart
<1>12. ToolsPart(ui', reqs') /\ HoldsPart(ui', reqs')
  BY <1>3, <1>8, PartsKept DEF Unnumbered
<1>13. Told'
  BY <1>3, <1>10, TellsSame
<1> QED BY <1>1, <1>3, <1>8, <1>11, <1>12, <1>13 DEF UpInv, PageIs, On

\* A submit sends its request: the dialog is busy with it and with no other.
LEMMA UpSends ==
    ASSUME UpInv, ~ui.saving, NEW kind \in {"create", "patch"}, NEW id, NEW arg,
           reqs' = With(reqs, Request(kind, id, arg)), srv' = srv,
           DOMAIN ui' = UpFields, ui'.page = ui.page, ui'.items = ui.items,
           SameTools(ui, ui'), SameHolds(ui, ui'), ui'.saving = TRUE,
           ui'.formError \in OwnOrNone, ui'.open = ui.open, ui'.form = ui.form,
           ui'.formDiscovery = ui.formDiscovery, ui'.editing = ui.editing,
           ui'.seededFrom = ui.seededFrom, ui'.typedHere = ui.typedHere
    PROVE  UpInv'
<1>1. ReqsOk(reqs) /\ AnswersOk(reqs) /\ On /\ DialogPart(ui, reqs)
  BY DEF UpInv, PageIs, Told
<1>2. LaneOf(kind) = "create" /\ kind \in UpKinds
  BY DEF LaneOf, Saves, UpKinds
<1>3. Lane(reqs, LaneOf(kind)) = {}
  BY <1>1, <1>2 DEF DialogPart, LaneIs
<1>4. ReqsOk(reqs') /\ \A l : l # "create" => Lane(reqs', l) = Lane(reqs, l)
  <2>1. /\ ReqsOk(With(reqs, Request(kind, id, arg)))
        /\ \A l : l # LaneOf(kind) => Lane(With(reqs, Request(kind, id, arg)), l) = Lane(reqs, l)
    BY <1>1, Sends
  <2> QED BY <1>2, <2>1
<1>5. LaneIs(reqs', "create", TRUE)
  <2>1. LaneIs(With(reqs, Request(kind, id, arg)), LaneOf(kind), TRUE)
    BY <1>3, Joins
  <2> QED BY <1>2, <2>1
<1>6. AnswersOk(reqs')
  BY <1>1, <1>2, AnswersSent
<1>7. DialogPart(ui', reqs')
  <2>1. TypedHere(ui') <=> TypedHere(ui)
    BY DEF TypedHere
  <2>2. Lane(reqs', "discover_form") = Lane(reqs, "discover_form")
    BY <1>4
  <2> QED BY <1>1, <1>5, <2>1, <2>2 DEF DialogPart, LaneIs
<1>8. ToolsPart(ui', reqs') /\ HoldsPart(ui', reqs')
  BY <1>4, PartsKept DEF Unnumbered
<1>9. Told'
  BY <1>6, TellsSame
<1> QED BY <1>1, <1>4, <1>7, <1>8, <1>9 DEF UpInv, PageIs, On

\* Submit: a client secret alone is refused here, nothing changed closes, and
\* anything else is sent.
LEMMA UpSubmits == ASSUME UpInv, submit PROVE UpInv'
<1>1. /\ DOMAIN ui = UpFields /\ DOMAIN ui.form = FormFields /\ ReqsOk(reqs)
      /\ AnswersOk(reqs) /\ On /\ DialogPart(ui, reqs) /\ ~ui.saving
  BY DEF UpInv, PageIs, Told, DialogPart, submit
<1>2. CASE clientSecretAlone(ui.form)
  <2>1. /\ DOMAIN ui' = UpFields /\ ui'.page = ui.page /\ ui'.items = ui.items
        /\ SameTools(ui, ui') /\ SameHolds(ui, ui') /\ srv' = srv /\ reqs' = reqs
        /\ ui'.open = ui.open /\ ui'.saving = ui.saving /\ ui'.formError = "own"
        /\ ui'.editing = ui.editing /\ ui'.seededFrom = ui.seededFrom
        /\ ui'.form = ui.form /\ ui'.typedHere = ui.typedHere
        /\ ui'.formDiscovery = ui.formDiscovery
    BY <1>1, <1>2 DEF submit, Apply, SameTools, SameHolds, UpFields
  <2>2. DialogPart(ui', reqs')
    <3>1. TypedHere(ui') <=> TypedHere(ui)
      BY <2>1 DEF TypedHere
    <3>2. ui'.formError \in OwnOrNone
      BY <2>1 DEF OwnOrNone
    <3> QED BY <1>1, <2>1, <3>1, <3>2 DEF DialogPart
  <2>3. ToolsPart(ui', reqs') /\ HoldsPart(ui', reqs')
    BY <2>1, PartsKept
  <2>4. Told'
    BY <1>1, <2>1, TellsSame
  <2> QED BY <1>1, <2>1, <2>2, <2>3, <2>4 DEF UpInv, PageIs, On
<1>3. CASE ~clientSecretAlone(ui.form) /\ mode # "edit"
  <2>1. create
    BY <1>3 DEF submit
  <2>2. PICK id : reqs' = With(reqs, Request("create", id, upstreamCreateBody(ui.form)))
    BY <2>1 DEF create, Apply
  <2>3. /\ DOMAIN ui' = UpFields /\ ui'.page = ui.page /\ ui'.items = ui.items
        /\ SameTools(ui, ui') /\ SameHolds(ui, ui') /\ srv' = srv
        /\ ui'.open = ui.open /\ ui'.saving = TRUE /\ ui'.formError \in OwnOrNone
        /\ ui'.editing = ui.editing /\ ui'.seededFrom = ui.seededFrom
        /\ ui'.form = ui.form /\ ui'.typedHere = ui.typedHere
        /\ ui'.formDiscovery = ui.formDiscovery
    BY <1>1, <2>1 DEF create, Apply, SameTools, SameHolds, UpFields, OwnOrNone
  <2> QED BY <1>1, <2>2, <2>3, UpSends
<1>4. CASE ~clientSecretAlone(ui.form) /\ mode = "edit"
  <2> DEFINE u == [rememberRegister(ui) EXCEPT !.formError = ""]
             body == upstreamPatchBody(ui.editing, ui.form)
  <2>1. save
    BY <1>4 DEF submit
  <2>2. /\ DOMAIN u = UpFields /\ u.page = ui.page /\ u.items = ui.items
        /\ SameTools(ui, u) /\ SameHolds(ui, u)
        /\ u.open = ui.open /\ u.saving = ui.saving /\ u.formError \in OwnOrNone
        /\ u.editing = ui.editing /\ u.seededFrom = ui.seededFrom
        /\ u.form = ui.form /\ u.typedHere = ui.typedHere
        /\ u.formDiscovery = ui.formDiscovery
    <3> DEFINE m == rememberRegister(ui)
    <3>1. /\ DOMAIN m = UpFields /\ m.page = ui.page /\ m.items = ui.items
          /\ SameTools(ui, m) /\ SameHolds(ui, m)
          /\ m.open = ui.open /\ m.saving = ui.saving
          /\ m.editing = ui.editing /\ m.seededFrom = ui.seededFrom
          /\ m.form = ui.form /\ m.typedHere = ui.typedHere
          /\ m.formDiscovery = ui.formDiscovery
      BY <1>1 DEF rememberRegister, SameTools, SameHolds, UpFields
    <3> HIDE DEF m
    <3>2. u = [m EXCEPT !.formError = ""]
      BY DEF m
    <3> HIDE DEF u
    <3> QED BY <3>1, <3>2 DEF SameTools, SameHolds, UpFields, OwnOrNone
  <2>3. \/ Apply(Closed(u, reqs))
        \/ Apply([ui |-> [u EXCEPT !.saving = TRUE],
                  reqs |-> With(reqs, Request("patch", u.editing.id, body))])
    BY <2>1 DEF save
  <2> HIDE DEF u, body
  <2>4. CASE Apply(Closed(u, reqs))
    <3>1. DOMAIN u.form = FormFields
      BY <1>1, <2>2
    <3> QED BY <2>2, <2>4, <3>1, UpCloses
  <2>5. CASE Apply([ui |-> [u EXCEPT !.saving = TRUE],
                    reqs |-> With(reqs, Request("patch", u.editing.id, body))])
    <3>1. reqs' = With(reqs, Request("patch", u.editing.id, body)) /\ srv' = srv
      BY <2>5 DEF Apply
    <3>2. /\ DOMAIN ui' = UpFields /\ ui'.page = ui.page /\ ui'.items = ui.items
          /\ SameTools(ui, ui') /\ SameHolds(ui, ui')
          /\ ui'.open = ui.open /\ ui'.saving = TRUE /\ ui'.formError \in OwnOrNone
          /\ ui'.editing = ui.editing /\ ui'.seededFrom = ui.seededFrom
          /\ ui'.form = ui.form /\ ui'.typedHere = ui.typedHere
          /\ ui'.formDiscovery = ui.formDiscovery
      BY <2>2, <2>5 DEF Apply, SameTools, SameHolds, UpFields
    <3> QED BY <1>1, <3>1, <3>2, UpSends
  <2> QED BY <2>3, <2>4, <2>5
<1> QED BY <1>2, <1>3, <1>4

\* A save's answer as the page takes it: from the dialog that sent it, or from
\* one closed meanwhile.
SavedFrom(r, v, ss) ==
    /\ DOMAIN v = UpFields /\ v.page = ui.page /\ SameTools(ui, v) /\ SameHolds(ui, v)
    /\ v.saving = (IF r.mine THEN FALSE ELSE ui.saving)
    /\ v.editing = ui.editing /\ v.seededFrom = ui.seededFrom
    /\ v.formError \in OwnOrNone /\ DOMAIN v.form = FormFields
    /\ \A x \in v.items : Named(x)
    /\ ReqsOk(ss) /\ AnswersOk(ss)
    /\ \A l : l \notin {"list", "discover_form"} => Lane(ss, l) = Lane(reqs \ {r}, l)
    /\ \/ v.open = FALSE /\ v.formDiscovery = IDLE /\ Lane(ss, "discover_form") = {}
       \/ /\ v.open = ui.open /\ v.formDiscovery = ui.formDiscovery /\ v.form = ui.form
          /\ v.typedHere = ui.typedHere
          /\ Lane(ss, "discover_form") = Lane(reqs \ {r}, "discover_form")

LEMMA UpSaved ==
    ASSUME UpInv, NEW r \in reqs, r.kind \in Saves, SavedFrom(r, ui', reqs'), srv' = srv
    PROVE  UpInv'
<1>1. /\ ReqsOk(reqs) /\ RowsOk /\ On /\ DialogPart(ui, reqs) /\ r.mine \in BOOLEAN
  BY DEF UpInv, PageIs, Told, ReqsOk, ReqOk
<1>2. LaneOf(r.kind) = "create" /\ "create" \notin Unnumbered
  BY DEF LaneOf, Unnumbered
<1>3. /\ \A l : l # "create" => Lane(reqs \ {r}, l) = Lane(reqs, l)
      /\ r \in Lane(reqs, "create") <=> r.mine
      /\ r \notin Lane(reqs, "create") => Lane(reqs \ {r}, "create") = Lane(reqs, "create")
      /\ r \in Lane(reqs, "create") /\ One(Lane(reqs, "create")) => Lane(reqs \ {r}, "create") = {}
  <2>1. /\ \A l : l # LaneOf(r.kind) => Lane(reqs \ {r}, l) = Lane(reqs, l)
        /\ r \in Lane(reqs, LaneOf(r.kind)) /\ One(Lane(reqs, LaneOf(r.kind))) =>
              Lane(reqs \ {r}, LaneOf(r.kind)) = {}
        /\ r \notin Lane(reqs, LaneOf(r.kind)) => \A l : Lane(reqs \ {r}, l) = Lane(reqs, l)
        /\ r \in Lane(reqs, LaneOf(r.kind)) <=> (LaneOf(r.kind) \in Unnumbered \/ r.mine)
    BY <1>1, LaneLanded, Zenon
  <2> QED BY <1>2, <2>1
<1>4. LaneIs(reqs', "create", ui'.saving) /\ ui'.saving \in BOOLEAN
  <2>1. Lane(reqs', "create") = Lane(reqs \ {r}, "create")
    BY DEF SavedFrom
  <2>2. CASE r.mine
    BY <1>1, <1>3, <2>1, <2>2 DEF SavedFrom, DialogPart, LaneIs, One
  <2>3. CASE ~r.mine
    BY <1>1, <1>3, <2>1, <2>3 DEF SavedFrom, DialogPart, LaneIs
  <2> QED BY <2>2, <2>3
<1>5. /\ Lane(reqs', "discover_row") = Lane(reqs, "discover_row")
      /\ \A l \in Unnumbered : Lane(reqs', l) = Lane(reqs, l)
  BY <1>3 DEF SavedFrom, Unnumbered
<1>6. ToolsPart(ui', reqs') /\ HoldsPart(ui', reqs')
  BY <1>5, PartsKept DEF SavedFrom
<1>7. DialogPart(ui', reqs')
  <2>1. /\ ui'.formError \in OwnOrNone /\ DOMAIN ui'.form = FormFields
        /\ ui'.editing # NoRow => ui'.editing.id = ui'.seededFrom
    BY <1>1 DEF SavedFrom, DialogPart
  <2>2. CASE ui'.open = FALSE /\ ui'.formDiscovery = IDLE /\ Lane(reqs', "discover_form") = {}
    <3>1. BlankDialog(ui', reqs')
      BY <1>4, <2>1, <2>2 DEF BlankDialog
    <3> QED BY <3>1, DialogBlank
  <2>3. CASE /\ ui'.open = ui.open /\ ui'.formDiscovery = ui.formDiscovery /\ ui'.form = ui.form
             /\ ui'.typedHere = ui.typedHere
             /\ Lane(reqs', "discover_form") = Lane(reqs \ {r}, "discover_form")
    <3>1. Lane(reqs', "discover_form") = Lane(reqs, "discover_form")
      BY <1>3, <2>3
    <3>2. TypedHere(ui') <=> TypedHere(ui)
      BY <2>3 DEF TypedHere
    <3>3. ui'.editing = ui.editing
      BY DEF SavedFrom
    <3> QED BY <1>1, <1>4, <2>1, <2>3, <3>1, <3>2, <3>3 DEF DialogPart, LaneIs
  <2> QED BY <2>2, <2>3 DEF SavedFrom
<1>8. Told'
  BY <1>1 DEF Told, RowsOk, SavedFrom
<1> QED BY <1>1, <1>6, <1>7, <1>8 DEF UpInv, PageIs, On, SavedFrom

\* The answer to a create or a save lands.
LEMMA UpLandsSave == ASSUME UpInv, NEW r \in reqs, LandSave(r) PROVE UpInv'
<1>1. /\ DOMAIN ui = UpFields /\ DOMAIN ui.form = FormFields /\ ReqsOk(reqs)
      /\ AnswersOk(reqs) /\ DialogPart(ui, reqs) /\ r.mine \in BOOLEAN
      /\ \A x \in ui.items : Named(x)
  BY DEF UpInv, PageIs, Told, DialogPart, ReqsOk, ReqOk
<1>2. r.kind \in Saves
  BY DEF LandSave
<1> DEFINE rest == reqs \ {r}
           took == [ui EXCEPT !.items = IF r.kind = "patch" THEN Replaced(@, r.ans.row) ELSE @]
<1>3. ReqsOk(rest) /\ AnswersOk(rest)
  BY <1>1, LaneLanded, AnswersLess
<1>4. r.ans.ok /\ r.kind = "patch" => Named(r.ans.row)
  BY <1>1 DEF AnswersOk, AnswerOk, Said
<1>5. CASE ~r.ans.ok
  <2>1. ui' = Finally(failed(ui, r), r) /\ reqs' = Reload(rest, r) /\ srv' = srv
    BY <1>5 DEF LandSave, Apply
  <2>2. /\ ReqsOk(reqs') /\ AnswersOk(reqs')
        /\ \A l : l # "list" => Lane(reqs', l) = Lane(rest, l)
    <3>1. ReqsOk(Reload(rest, r)) /\ \A l : l # "list" => Lane(Reload(rest, r), l) = Lane(rest, l)
      BY <1>3, LaneReload
    <3>2. AnswersOk(Reload(reqs \ {r}, r))
      BY <1>1, AnswersLess
    <3> QED BY <2>1, <3>1, <3>2
  <2>3. /\ DOMAIN ui' = UpFields /\ ui'.page = ui.page /\ ui'.items = ui.items
        /\ SameTools(ui, ui') /\ SameHolds(ui, ui')
        /\ ui'.saving = (IF r.mine THEN FALSE ELSE ui.saving)
        /\ ui'.open = ui.open /\ ui'.editing = ui.editing /\ ui'.seededFrom = ui.seededFrom
        /\ ui'.form = ui.form /\ ui'.typedHere = ui.typedHere
        /\ ui'.formDiscovery = ui.formDiscovery
        /\ ui'.formError = "own" \/ ui'.formError = ui.formError
    <3> DEFINE w == failed(ui, r)
    <3>1. /\ DOMAIN w = UpFields /\ w.page = ui.page /\ w.items = ui.items
          /\ SameTools(ui, w) /\ SameHolds(ui, w) /\ w.saving = ui.saving
          /\ w.open = ui.open /\ w.editing = ui.editing /\ w.seededFrom = ui.seededFrom
          /\ w.form = ui.form /\ w.typedHere = ui.typedHere
          /\ w.formDiscovery = ui.formDiscovery
          /\ w.formError = "own" \/ w.formError = ui.formError
      BY <1>1 DEF failed, SameTools, SameHolds, UpFields
    <3>2. ui' = Finally(w, r)
      BY <2>1
    <3> HIDE DEF w
    <3> QED BY <1>1, <3>1, <3>2 DEF Finally, SameTools, SameHolds, UpFields
  <2>4. ui'.formError \in OwnOrNone
    BY <1>1, <2>3 DEF DialogPart, OwnOrNone
  <2>5. SavedFrom(r, ui', reqs')
    BY <1>1, <2>2, <2>3, <2>4 DEF SavedFrom
  <2> QED BY <1>2, <2>1, <2>5, UpSaved
<1>6. CASE r.ans.ok
  <2>1. /\ DOMAIN took = UpFields /\ took.page = ui.page
        /\ SameTools(ui, took) /\ SameHolds(ui, took) /\ took.saving = ui.saving
        /\ took.open = ui.open /\ took.editing = ui.editing /\ took.seededFrom = ui.seededFrom
        /\ took.form = ui.form /\ took.typedHere = ui.typedHere
        /\ took.formDiscovery = ui.formDiscovery /\ took.formError = ui.formError
        /\ took.items = (IF r.kind = "patch" THEN Replaced(ui.items, r.ans.row) ELSE ui.items)
    BY <1>1 DEF SameTools, SameHolds, UpFields
  <2>2. \A x \in took.items : Named(x)
    BY <1>1, <1>4, <1>6, <2>1 DEF Replaced
  <2>3. took.formError \in OwnOrNone /\ DOMAIN took.form = FormFields
    BY <1>1, <2>1 DEF DialogPart
  <2>4. PICK d : /\ d = (IF r.mine THEN Closed(took, rest) ELSE [ui |-> took, reqs |-> rest])
                 /\ ui' = Finally(d.ui, r) /\ srv' = srv
                 /\ reqs' = IF r.kind = "create" THEN With(d.reqs, Request("list", "", NoRow))
                            ELSE d.reqs
    BY <1>6 DEF LandSave, Apply
  <2> HIDE DEF took, rest
  <2>5. /\ DOMAIN d.ui = UpFields /\ d.ui.page = ui.page
        /\ SameTools(ui, d.ui) /\ SameHolds(ui, d.ui) /\ d.ui.saving = ui.saving
        /\ d.ui.editing = ui.editing /\ d.ui.seededFrom = ui.seededFrom
        /\ d.ui.formError \in OwnOrNone /\ DOMAIN d.ui.form = FormFields
        /\ \A x \in d.ui.items : Named(x)
        /\ ReqsOk(d.reqs) /\ AnswersOk(d.reqs)
        /\ \A l : l # "discover_form" => Lane(d.reqs, l) = Lane(rest, l)
        /\ \/ d.ui.open = FALSE /\ d.ui.formDiscovery = IDLE /\ Lane(d.reqs, "discover_form") = {}
           \/ /\ d.ui.open = ui.open /\ d.ui.formDiscovery = ui.formDiscovery
              /\ d.ui.form = ui.form /\ d.ui.typedHere = ui.typedHere
              /\ Lane(d.reqs, "discover_form") = Lane(rest, "discover_form")
    <3>1. CASE r.mine
      <4>1. ClosedFrom(took, rest, d)
        BY <1>3, <2>1, <2>3, <2>4, <3>1, ClosedIs
      <4> QED BY <2>1, <2>2, <2>3, <4>1 DEF ClosedFrom, SameTools, SameHolds
    <3>2. CASE ~r.mine
      <4>1. d.ui = took /\ d.reqs = rest
        BY <2>4, <3>2
      <4> QED BY <1>3, <2>1, <2>2, <2>3, <4>1
    <3> QED BY <1>1, <3>1, <3>2
  <2>6. /\ DOMAIN ui' = UpFields /\ ui'.page = d.ui.page /\ ui'.items = d.ui.items
        /\ SameTools(ui, ui') /\ SameHolds(ui, ui')
        /\ ui'.saving = (IF r.mine THEN FALSE ELSE ui.saving)
        /\ ui'.open = d.ui.open /\ ui'.editing = d.ui.editing
        /\ ui'.seededFrom = d.ui.seededFrom
        /\ ui'.form = d.ui.form /\ ui'.typedHere = d.ui.typedHere
        /\ ui'.formDiscovery = d.ui.formDiscovery /\ ui'.formError = d.ui.formError
    BY <1>1, <2>4, <2>5 DEF Finally, SameTools, SameHolds, UpFields
  <2>7. ReqsOk(reqs') /\ \A l : l # "list" => Lane(reqs', l) = Lane(d.reqs, l)
    <3>1. LaneOf("list") = "list"
      BY DEF LaneOf, Saves
    <3>2. /\ ReqsOk(With(d.reqs, Request("list", "", NoRow)))
          /\ \A l : l # LaneOf("list") =>
                Lane(With(d.reqs, Request("list", "", NoRow)), l) = Lane(d.reqs, l)
      BY <2>5, SendsRead
    <3> QED BY <2>4, <2>5, <3>1, <3>2
  <2>8. AnswersOk(reqs')
    <3>1. "list" \in UpKinds
      BY DEF UpKinds
    <3> QED BY <2>4, <2>5, <3>1, AnswersSent
  <2>9. SavedFrom(r, ui', reqs')
    BY <2>5, <2>6, <2>7, <2>8 DEF SavedFrom, rest
  <2> QED BY <1>2, <2>4, <2>9, UpSaved
<1> QED BY <1>5, <1>6

\* Every step of the page.
LEMMA UpStep == ASSUME UpInv, UpNext PROVE UpInv'
<1>1. CASE UpRespond
  BY <1>1, UpAnswers
<1>2. CASE UpOther
  BY <1>2, UpLooks
<1>3. CASE UpLand
  <2>1. PICK r \in reqs : \/ LandList(r) \/ LandSave(r) \/ LandDelete(r) \/ LandRevoke(r)
                          \/ LandConnect(r) \/ LandDiscoverForm(r) \/ LandDiscoverRow(r)
    BY <1>3 DEF UpLand
  <2>2. CASE LandList(r)
    BY <2>2, UpLooks
  <2>3. CASE LandSave(r)
    BY <2>3, UpLandsSave
  <2>4. CASE LandDelete(r) \/ LandConnect(r)
    BY <2>4, UpReleases
  <2>5. CASE LandRevoke(r)
    BY <2>5, UpRevoked
  <2>6. CASE LandDiscoverForm(r) \/ LandDiscoverRow(r)
    BY <2>6, UpDiscovered
  <2> QED BY <2>1, <2>2, <2>3, <2>4, <2>5, <2>6
<1>4. CASE UpOperate
  <2>1. CASE openAdd \/ \E u \in ui.items : openEdit(u)
    BY <2>1, UpOpens
  <2>2. CASE close
    BY <2>2, UpCancels
  <2>3. CASE ChangeField
    <3>1. PICK k, v : onFieldChange(k, v)
      BY <2>3 DEF ChangeField
    <3>2. ui.open
      BY <2>3 DEF ChangeField, DialogReachable
    <3> QED BY <3>1, <3>2, UpEnters
  <2>4. CASE submit
    BY <2>4, UpSubmits
  <2>5. CASE discoverForm
    BY <2>5, UpAsks
  <2>6. CASE discoverRow \/ closeTools \/ \E u \in ui.items : openTools(u)
    BY <2>6, UpTools
  <2>7. CASE closeDelete \/ askRevoke \/ closeRevoke \/ \E u \in ui.items : askDelete(u)
    BY <2>7, UpLooks
  <2>8. CASE remove \/ revoke \/ \E u \in ui.items : connect(u)
    BY <2>8, UpPresses
  <2>9. CASE restored
    BY <2>9, UpReleases
  <2> QED BY <1>4, <2>1, <2>2, <2>3, <2>4, <2>5, <2>6, <2>7, <2>8, <2>9 DEF UpOperate
<1> QED BY <1>1, <1>2, <1>3, <1>4 DEF UpNext

----------------------------------------------------------------------------
(* The Groups and the Virtual keys page: a dialog that saves, and its      *)
(* catalogue.                                                              *)

\* What both pages keep.
DeskFields == {"page", "open", "saving", "formError", "error", "byId", "run", "pressed",
               "rateLimited", "upstreams", "budget"}

SubmitPart(u, rs) ==
    /\ u.open \in BOOLEAN /\ u.saving \in BOOLEAN /\ u.formError \in OwnOrNone
    /\ LaneIs(rs, "create", u.saving)

MemberIds == {x.id : x \in Upstreams}

\* The discoveries out: at most two, of different members.
Two(S) == /\ \E a, b : S \subseteq {a, b}
          /\ \A a, b \in S : a.id = b.id => a = b

\* The members shown, and those a press has still to ask.
ShownPart(u) ==
    /\ u.upstreams \subseteq Upstreams
    /\ DOMAIN u.byId = MemberIds
    /\ DOMAIN u.run = DOMAIN NoRun /\ u.run.on \in BOOLEAN
    /\ u.run.queue \subseteq MemberIds /\ u.run.queue \subseteq u.pressed
    /\ \A i \in u.run.queue : u.byId[i].state # "loading"
    /\ \A i \in MemberIds : u.byId[i] # idleMember => i \in u.pressed

\* A member is Loading exactly while its request is out.
LoadingPart(u, out) ==
    /\ Two(out)
    /\ u.run.on <=> out # {}
    /\ \A r \in out : r.id \in MemberIds
    /\ \A i \in MemberIds : u.byId[i].state = "loading" <=> \E r \in out : r.id = i

DeskPart(u, rs) ==
    /\ DeskFields \subseteq DOMAIN u /\ ReqsOk(rs)
    /\ SubmitPart(u, rs) /\ ShownPart(u) /\ LoadingPart(u, Lane(rs, "discover"))

\* No two rows have one id.
Distinct(S) == \A u, v \in S : "id" \in DOMAIN u /\ (u.id = v.id => u = v)

\* A fresh read that nobody overtook still tells the row.
ReadFresh(r, S) ==
    (r.kind = "read" /\ r.st = "answered" /\ r.ans.ok /\ ~r.arg.raced) =>
       r.ans.row \in S /\ r.ans.row.id = r.id

\* A page, but for the fields in K.
KeepsBut(u, v, K) == DOMAIN v = DOMAIN u /\ \A k \in DOMAIN u : k \notin K => v[k] = u[k]

\* ss holds no save that is not one of rs, as it was or no longer its dialog's.
Weaker(x, r) == /\ x.kind = r.kind /\ x.st = r.st /\ x.ans = r.ans /\ x.arg = r.arg
                /\ x.id = r.id
                /\ x.mine => r.mine
From(ss, rs) == \A x \in ss : x.kind \in Saves => \E r \in rs : Weaker(x, r)

LEMMA FromItself == ASSUME NEW rs, NEW S PROVE From(rs, rs) /\ From(rs \ S, rs)
BY DEF From, Weaker

LEMMA FromFrom == ASSUME NEW a, NEW b, NEW c, From(a, b), From(b, c) PROVE From(a, c)
<1> SUFFICES ASSUME NEW x \in a, x.kind \in Saves PROVE \E r \in c : Weaker(x, r)
  BY DEF From
<1>1. PICK y \in b : Weaker(x, y)
  BY DEF From
<1>2. PICK z \in c : Weaker(y, z)
  BY <1>1 DEF From, Weaker
<1> QED BY <1>1, <1>2 DEF Weaker

LEMMA FromBumped == ASSUME NEW rs, NEW K, ReqsOk(rs) PROVE From(Bumped(rs, K), rs)
BY DEF From, Weaker, Bumped, ReqsOk, ReqOk, ReqFields

LEMMA FromWith ==
    ASSUME NEW rs, NEW kind, NEW id, NEW arg, kind \notin Saves
    PROVE  From(With(rs, Request(kind, id, arg)), rs)
<1> DEFINE q == Request(kind, id, arg)
<1>1. q.kind = kind
  BY DEF Request
<1> HIDE DEF q
<1>2. PICK x : With(rs, q) = rs \cup {x} /\ x.kind = q.kind
  BY WithAdds
<1>3. From(With(rs, q), rs)
  BY <1>1, <1>2 DEF From, Weaker
<1> QED BY <1>3 DEF q

\* What the desk does not look at may change.
LEMMA DeskKept ==
    ASSUME NEW u, NEW v, NEW rs, NEW ss, DeskPart(u, rs), ReqsOk(ss),
           DeskFields \subseteq DOMAIN v, v.open \in BOOLEAN, v.formError \in OwnOrNone,
           v.saving = u.saving, v.byId = u.byId, v.run = u.run, v.pressed = u.pressed,
           v.upstreams \subseteq Upstreams,
           Lane(ss, "create") = Lane(rs, "create"), Lane(ss, "discover") = Lane(rs, "discover")
    PROVE  DeskPart(v, ss)
<1>1. SubmitPart(v, ss)
  BY DEF DeskPart, SubmitPart, LaneIs
<1>2. ShownPart(v)
  BY DEF DeskPart, ShownPart
<1>3. LoadingPart(v, Lane(ss, "discover"))
  BY DEF DeskPart, LoadingPart
<1> QED BY <1>1, <1>2, <1>3 DEF DeskPart

\* A catalogue with nothing in it.
LEMMA NothingShown ==
    ASSUME NEW v, v.upstreams \subseteq Upstreams, v.byId = EmptyCatalogue, v.run = NoRun
    PROVE  ShownPart(v) /\ LoadingPart(v, {})
<1>1. /\ DOMAIN EmptyCatalogue = MemberIds
      /\ \A i \in MemberIds : EmptyCatalogue[i] = idleMember
  BY DEF EmptyCatalogue, MemberIds
<1>2. idleMember.state = "idle" /\ NoRun.on = FALSE /\ NoRun.queue = {}
  BY DEF idleMember, NoRun
<1>3. ShownPart(v)
  BY <1>1, <1>2 DEF ShownPart
<1>4. LoadingPart(v, {})
  BY <1>1, <1>2 DEF LoadingPart, Two
<1> QED BY <1>3, <1>4

\* A new reset key.
LEMMA DeskResets ==
    ASSUME NEW u, NEW rs, NEW c, DeskPart(u, rs), c = resetCatalogue(u, rs)
    PROVE  /\ DeskPart(c.ui, c.reqs) /\ From(c.reqs, rs)
           /\ KeepsBut(u, c.ui, {"byId", "rateLimited", "run", "pressed"})
<1>1. ReqsOk(rs) /\ DeskFields \subseteq DOMAIN u
  BY DEF DeskPart
<1>2. c.reqs = Bumped(rs, Discoveries)
  BY DEF resetCatalogue
<1>3. /\ DOMAIN c.ui = DOMAIN u /\ c.ui.byId = EmptyCatalogue /\ c.ui.run = NoRun
      /\ c.ui.open = u.open /\ c.ui.saving = u.saving /\ c.ui.formError = u.formError
      /\ c.ui.upstreams = u.upstreams
  BY <1>1 DEF resetCatalogue, DeskFields
<1>4. KeepsBut(u, c.ui, {"byId", "rateLimited", "run", "pressed"})
  BY <1>1 DEF resetCatalogue, KeepsBut
<1>5. /\ ReqsOk(c.reqs) /\ Lane(c.reqs, "discover") = {}
      /\ \A l : l # "discover" => Lane(c.reqs, l) = Lane(rs, l)
  BY <1>1, <1>2, Renumbered
<1>6. From(c.reqs, rs)
  BY <1>1, <1>2, FromBumped
<1>7. SubmitPart(c.ui, c.reqs)
  BY <1>3, <1>5 DEF DeskPart, SubmitPart, LaneIs
<1>8. ShownPart(c.ui) /\ LoadingPart(c.ui, {})
  <2>1. c.ui.upstreams \subseteq Upstreams
    BY <1>3 DEF DeskPart, ShownPart
  <2> QED BY <1>3, <2>1, NothingShown
<1> QED BY <1>1, <1>3, <1>4, <1>5, <1>6, <1>7, <1>8 DEF DeskPart

NoMessage(u) == u.formError = ""

\* A new dialog: what is out is another's.
LEMMA DeskOpens ==
    ASSUME NEW u, NEW rs, NEW c, DeskPart(u, rs), NoMessage(u), c = opened(u, rs)
    PROVE  /\ DeskPart(c.ui, c.reqs) /\ From(c.reqs, rs) /\ c.ui.open = TRUE
           /\ KeepsBut(u, c.ui, {"open", "saving", "formError", "budget"})
           /\ Lane(c.reqs, "create") = {}
<1>1. ReqsOk(rs) /\ DeskFields \subseteq DOMAIN u
  BY DEF DeskPart
<1>2. c.reqs = Bumped(rs, Saves)
  BY DEF opened
<1>3. /\ DOMAIN c.ui = DOMAIN u /\ c.ui.byId = u.byId /\ c.ui.run = u.run
      /\ c.ui.pressed = u.pressed /\ c.ui.upstreams = u.upstreams
      /\ c.ui.open = TRUE /\ c.ui.saving = FALSE /\ c.ui.formError = ""
  BY <1>1 DEF opened, Spend, DeskFields, NoMessage
<1>4. KeepsBut(u, c.ui, {"open", "saving", "formError", "budget"})
  BY <1>1 DEF opened, Spend, KeepsBut
<1>5. /\ ReqsOk(c.reqs) /\ Lane(c.reqs, "create") = {}
      /\ \A l : l # "create" => Lane(c.reqs, l) = Lane(rs, l)
  BY <1>1, <1>2, Renumbered
<1>6. From(c.reqs, rs)
  BY <1>1, <1>2, FromBumped
<1>7. SubmitPart(c.ui, c.reqs)
  BY <1>3, <1>5 DEF SubmitPart, LaneIs, One, OwnOrNone
<1>8. ShownPart(c.ui)
  BY <1>3 DEF DeskPart, ShownPart
<1>9. LoadingPart(c.ui, Lane(c.reqs, "discover"))
  <2>1. Lane(c.reqs, "discover") = Lane(rs, "discover")
    BY <1>5
  <2> QED BY <1>3, <2>1 DEF DeskPart, LoadingPart
<1> QED BY <1>1, <1>3, <1>4, <1>5, <1>6, <1>7, <1>8, <1>9 DEF DeskPart

\* A worker asks one more member.
LEMMA AskingIs ==
    ASSUME NEW rs, NEW i, ReqsOk(rs)
    PROVE  /\ \E x : Lane(Asking(i, rs), "discover") = Lane(rs, "discover") \cup {x} /\ x.id = i
           /\ ReqsOk(Asking(i, rs)) /\ From(Asking(i, rs), rs)
           /\ Lane(Asking(i, rs), "create") = Lane(rs, "create")
<1> DEFINE q == Request("discover", i, NoRow)
<1>1. q.kind = "discover" /\ q.id = i /\ q.mine = TRUE /\ Asking(i, rs) = With(rs, q)
  BY DEF Request, Asking
<1> HIDE DEF q
<1>2. LaneOf("discover") = "discover" /\ "discover" \notin Saves /\ "discover" # "create"
  BY DEF LaneOf, Saves
<1>3. PICK x : /\ With(rs, q) = rs \cup {x} /\ DOMAIN x = ReqFields
               /\ x.kind = q.kind /\ x.id = q.id /\ x.mine = q.mine
  BY WithAdds
<1>4. Lane(With(rs, q), "discover") = Lane(rs, "discover") \cup {x}
  BY <1>1, <1>2, <1>3 DEF Lane
<1>5. Lane(With(rs, q), "create") = Lane(rs, "create")
  BY <1>1, <1>2, <1>3 DEF Lane
<1>6. ReqsOk(With(rs, q)) /\ From(With(rs, q), rs)
  BY <1>1, <1>2, <1>3 DEF ReqsOk, ReqOk, From, Weaker
<1> QED BY <1>1, <1>3, <1>4, <1>5, <1>6

LoadFields == {"rateLimited", "pressed", "run", "byId", "budget"}

\* A press of Load: two workers take the first members.
LEMMA DeskLoads ==
    ASSUME DeskPart(ui, reqs), NEW ids, ids \subseteq MemberIds, load(ids)
    PROVE  /\ DeskPart(ui', reqs') /\ From(reqs', reqs) /\ srv' = srv
           /\ KeepsBut(ui, ui', LoadFields)
<1>1. DeskFields \subseteq DOMAIN ui /\ ReqsOk(reqs) /\ ShownPart(ui)
  BY DEF DeskPart
<1>2. ~ui.run.on /\ Lane(reqs, "discover") = {}
  BY DEF load, DeskPart, LoadingPart
<1>3. PICK a \in ids, b \in ids :
         /\ a = b => ids = {a}
         /\ Apply([ui |-> Spend(Started([ui EXCEPT !.rateLimited = FALSE,
                                   !.pressed = @ \cup ids,
                                   !.run = [on |-> TRUE, queue |-> ids, limited |-> FALSE]],
                                 {a, b}), "loads"),
                   reqs |-> IF a = b THEN Asking(a, reqs)
                            ELSE Asking(b, Asking(a, reqs))])
  BY DEF load
<1> DEFINE L == [idleMember EXCEPT !.state = "loading"]
           R == [on |-> TRUE, queue |-> ids, limited |-> FALSE]
           w == [ui EXCEPT !.rateLimited = FALSE, !.pressed = @ \cup ids, !.run = R]
           B == [i \in DOMAIN ui.byId |-> IF i \in {a, b} THEN L ELSE ui.byId[i]]
           s == Started(w, {a, b})
<1>4. /\ ui' = Spend(s, "loads") /\ srv' = srv
      /\ reqs' = IF a = b THEN Asking(a, reqs) ELSE Asking(b, Asking(a, reqs))
  BY <1>3 DEF Apply
<1>5. /\ DOMAIN w = DOMAIN ui /\ w.run = R /\ w.pressed = ui.pressed \cup ids /\ w.byId = ui.byId
      /\ w.open = ui.open /\ w.saving = ui.saving /\ w.formError = ui.formError
      /\ w.upstreams = ui.upstreams /\ KeepsBut(ui, w, LoadFields)
  BY <1>1 DEF DeskFields, KeepsBut, LoadFields
<1>6. s = [w EXCEPT !.byId = B, !.run = [R EXCEPT !.queue = ids \ {a, b}]]
  BY <1>1, <1>5 DEF Started, DeskFields
<1> HIDE DEF w, B, s
<1>7. /\ DOMAIN ui' = DOMAIN ui /\ ui'.byId = B /\ ui'.pressed = ui.pressed \cup ids
      /\ ui'.run = [R EXCEPT !.queue = ids \ {a, b}]
      /\ ui'.open = ui.open /\ ui'.saving = ui.saving /\ ui'.formError = ui.formError
      /\ ui'.upstreams = ui.upstreams /\ KeepsBut(ui, ui', LoadFields)
  BY <1>1, <1>4, <1>5, <1>6 DEF Spend, DeskFields, KeepsBut, LoadFields
<1>8. /\ DOMAIN ui'.run = DOMAIN NoRun /\ ui'.run.on = TRUE /\ ui'.run.queue = ids \ {a, b}
  BY <1>7 DEF NoRun
<1>9. L.state = "loading"
  BY DEF idleMember
<1> HIDE DEF L, R
<1>10. PICK x : /\ Lane(Asking(a, reqs), "discover") = Lane(reqs, "discover") \cup {x} /\ x.id = a
                /\ ReqsOk(Asking(a, reqs)) /\ From(Asking(a, reqs), reqs)
                /\ Lane(Asking(a, reqs), "create") = Lane(reqs, "create")
  BY <1>1, AskingIs
<1> DEFINE rs == Asking(a, reqs)
<1> HIDE DEF rs
<1>11. PICK y : /\ Lane(Asking(b, rs), "discover") = Lane(rs, "discover") \cup {y} /\ y.id = b
                /\ ReqsOk(Asking(b, rs)) /\ From(Asking(b, rs), rs)
                /\ Lane(Asking(b, rs), "create") = Lane(rs, "create")
  BY <1>10, AskingIs DEF rs
<1>12. /\ ReqsOk(reqs') /\ Lane(reqs', "create") = Lane(reqs, "create")
       /\ \E z \in {x, y} : z.id = b /\ Lane(reqs', "discover") = {x, z}
  <2>1. CASE a = b
    BY <1>2, <1>4, <1>10, <2>1
  <2>2. CASE a # b
    BY <1>2, <1>4, <1>10, <1>11, <2>2 DEF rs
  <2> QED BY <2>1, <2>2
<1>13. From(reqs', reqs)
  <2>1. CASE a = b
    BY <1>4, <1>10, <2>1
  <2>2. CASE a # b
    BY <1>4, <1>10, <1>11, <2>2, FromFrom DEF rs
  <2> QED BY <2>1, <2>2
<1>14. SubmitPart(ui', reqs')
  BY <1>7, <1>12 DEF DeskPart, SubmitPart, LaneIs
<1>15. PICK z : /\ z.id = b /\ Lane(reqs', "discover") = {x, z}
                /\ a = b => x = z
  <2>1. CASE a = b
    BY <1>2, <1>4, <1>10, <2>1
  <2>2. CASE a # b
    BY <1>12, <2>2
  <2> QED BY <2>1, <2>2
<1>16. LoadingPart(ui', Lane(reqs', "discover"))
  <2>1. Two({x, z})
    BY <1>10, <1>15 DEF Two
  <2>2. \A i \in MemberIds : B[i].state = "loading" <=> i \in {a, b}
    <3>1. \A i \in MemberIds : ui.byId[i].state # "loading"
      BY <1>2 DEF DeskPart, LoadingPart
    <3> QED BY <1>1, <1>9, <3>1 DEF B, ShownPart
  <2> QED BY <1>7, <1>8, <1>10, <1>15, <2>1, <2>2 DEF LoadingPart
<1>17. ShownPart(ui')
  <2>1. DOMAIN B = MemberIds /\ \A i \in MemberIds : i \notin {a, b} => B[i] = ui.byId[i]
    BY <1>1 DEF B, ShownPart
  <2>2. \A i \in MemberIds : ui.byId[i].state # "loading"
    BY <1>2 DEF DeskPart, LoadingPart
  <2> QED BY <1>1, <1>7, <1>8, <2>1, <2>2 DEF ShownPart
<1> QED BY <1>1, <1>4, <1>7, <1>12, <1>13, <1>14, <1>16, <1>17 DEF DeskPart

\* The requests of a press are the lane it waits on.
LEMMA DiscoverLane == ASSUME ReqsOk(reqs) PROVE Mine(Discoveries) = Lane(reqs, "discover")
BY DEF Mine, Discoveries, Lane, LaneOf, Saves, Unnumbered

\* A discovery is answered, well or badly: it is still the one asked.
LEMMA DeskServes ==
    ASSUME DeskPart(ui, reqs), NEW r \in reqs, ServeDiscover(r)
    PROVE  /\ DeskPart(ui', reqs') /\ From(reqs', reqs) /\ srv' = srv
           /\ KeepsBut(ui, ui', LoadFields)
<1>1. DeskFields \subseteq DOMAIN ui /\ ReqsOk(reqs) /\ r.kind = "discover" /\ srv' = srv
  BY DEF DeskPart, ServeDiscover
<1>2. PICK a : reqs' = Replied(r, a)
  BY DEF ServeDiscover
<1>3. ui' = ui \/ ui' = Spend(ui, "fails")
  BY DEF ServeDiscover
<1>4. /\ DOMAIN ui' = DOMAIN ui /\ ui'.open = ui.open /\ ui'.formError = ui.formError
      /\ ui'.saving = ui.saving /\ ui'.byId = ui.byId /\ ui'.run = ui.run
      /\ ui'.pressed = ui.pressed /\ ui'.upstreams = ui.upstreams /\ KeepsBut(ui, ui', LoadFields)
  BY <1>1, <1>3 DEF Spend, DeskFields, KeepsBut, LoadFields
<1> DEFINE x == [r EXCEPT !.st = "answered", !.ans = a]
<1>5. reqs' = (reqs \ {r}) \cup {x} /\ ReqOk(x) /\ Same(r, x)
  BY <1>1, <1>2 DEF Replied, ReqsOk, ReqOk, ReqFields, Same
<1> HIDE DEF x
<1>6. ReqsOk(reqs') /\ From(reqs', reqs)
  BY <1>1, <1>5 DEF ReqsOk, From, Weaker, Same, Saves
<1>7. Lane(reqs', "create") = Lane(reqs, "create")
  BY <1>1, <1>5 DEF Lane, LaneOf, Saves, Same
<1>8. LoadingPart(ui', Lane(reqs', "discover"))
  <2>1. CASE r \notin Lane(reqs, "discover")
    <3>1. Lane(reqs', "discover") = Lane(reqs, "discover")
      BY <1>1, <1>5, <2>1 DEF Lane, Same
    <3> QED BY <1>4, <3>1 DEF DeskPart, LoadingPart
  <2>2. CASE r \in Lane(reqs, "discover")
    <3>1. Lane(reqs', "discover") = (Lane(reqs, "discover") \ {r}) \cup {x}
      BY <1>1, <1>5, <2>2 DEF Lane, Same
    <3>2. x.id = r.id
      BY <1>5 DEF Same
    <3>3. Two(Lane(reqs', "discover"))
      <4>1. Two(Lane(reqs, "discover"))
        BY DEF DeskPart, LoadingPart
      <4>2. PICK c, d : Lane(reqs, "discover") \subseteq {c, d}
        BY <4>1 DEF Two
      <4>3. \E c2, d2 : Lane(reqs', "discover") \subseteq {c2, d2}
        <5>1. r = c \/ r = d
          BY <2>2, <4>2
        <5>2. CASE r = c
          BY <3>1, <4>2, <5>2
        <5>3. CASE r = d
          BY <3>1, <4>2, <5>3
        <5> QED BY <5>1, <5>2, <5>3
      <4> QED BY <2>2, <3>1, <3>2, <4>1, <4>3 DEF Two
    <3>4. \A i : (\E q \in Lane(reqs', "discover") : q.id = i) <=>
                 (\E q \in Lane(reqs, "discover") : q.id = i)
      BY <2>2, <3>1, <3>2
    <3> QED BY <1>4, <2>2, <3>1, <3>2, <3>3, <3>4 DEF DeskPart, LoadingPart
  <2> QED BY <2>1, <2>2
<1>9. SubmitPart(ui', reqs') /\ ShownPart(ui')
  BY <1>4, <1>7 DEF DeskPart, SubmitPart, ShownPart, LaneIs
<1> QED BY <1>1, <1>4, <1>6, <1>8, <1>9 DEF DeskPart

\* An answer of this press: its member is no longer Loading, and the worker
\* takes the next one or stops.
LEMMA DeskLearns ==
    ASSUME DeskPart(ui, reqs), NEW r \in reqs, LandDiscover(r)
    PROVE  /\ DeskPart(ui', reqs') /\ From(reqs', reqs) /\ srv' = srv
           /\ KeepsBut(ui, ui', LoadFields)
<1> DEFINE out == Lane(reqs, "discover")
           rest == reqs \ {r}
<1>1. /\ DeskFields \subseteq DOMAIN ui /\ ReqsOk(reqs) /\ ShownPart(ui)
      /\ LoadingPart(ui, out)
      /\ r.kind = "discover" /\ r.mine \in BOOLEAN
  BY DEF DeskPart, LandDiscover, ReqsOk, ReqOk
<1>2. /\ ReqsOk(rest) /\ From(rest, reqs) /\ Lane(rest, "create") = Lane(reqs, "create")
      /\ Lane(rest, "discover") = out \ {r} /\ (r \in out <=> r.mine)
  <2>1. ReqsOk(rest) /\ From(rest, reqs)
    BY <1>1, FromItself DEF ReqsOk
  <2>2. /\ Lane(rest, "create") = Lane(reqs, "create")
        /\ Lane(rest, "discover") = out \ {r} /\ (r \in out <=> r.mine)
    BY <1>1 DEF Lane, LaneOf, Saves, Unnumbered
  <2> QED BY <2>1, <2>2
<1> HIDE DEF out, rest
<1>3. CASE ~r.mine
  <2>1. ui' = ui /\ reqs' = rest /\ srv' = srv
    BY <1>3 DEF LandDiscover, Apply, rest
  <2>2. Lane(reqs', "discover") = out
    BY <1>2, <1>3, <2>1
  <2>3. SubmitPart(ui', reqs')
    BY <1>2, <2>1 DEF DeskPart, SubmitPart, LaneIs
  <2> QED BY <1>1, <1>2, <2>1, <2>2, <2>3 DEF DeskPart, KeepsBut
<1>4. CASE r.mine
  <2> DEFINE limited == r.ans.code = TooMany
             known == IF r.ans.ok THEN memberFromDiscovery(r.ans)
                      ELSE IF limited THEN idleMember
                      ELSE [idleMember EXCEPT !.state = "failed"]
             u == [ui EXCEPT !.byId[r.id] = known, !.run.limited = @ \/ limited]
  <2>1. \/ /\ u.run.limited \/ u.run.queue = {}
           /\ ui' = Settled(u, Mine(Discoveries) \ {r}) /\ reqs' = rest /\ srv' = srv
        \/ \E i \in u.run.queue :
              ui' = Started(u, {i}) /\ reqs' = Asking(i, rest) /\ srv' = srv
    BY <1>4 DEF LandDiscover, Apply, rest
  <2>2. known.state # "loading"
    BY DEF memberFromDiscovery, idleMember
  <2>3. r \in out /\ r.id \in MemberIds /\ r.id \in ui.pressed /\ ui.run.on
    <3>1. r \in out /\ r.id \in MemberIds /\ ui.run.on
      BY <1>1, <1>2, <1>4 DEF LoadingPart
    <3>2. ui.byId[r.id].state = "loading"
      BY <1>1, <3>1 DEF LoadingPart
    <3>3. ui.byId[r.id] # idleMember
      BY <3>2 DEF idleMember
    <3> QED BY <1>1, <3>1, <3>3 DEF ShownPart
  <2> HIDE DEF known, limited
  <2>4. /\ DOMAIN u = DOMAIN ui /\ KeepsBut(ui, u, LoadFields)
        /\ u.byId = [ui.byId EXCEPT ![r.id] = known] /\ u.pressed = ui.pressed
        /\ u.open = ui.open /\ u.saving = ui.saving /\ u.formError = ui.formError
        /\ u.upstreams = ui.upstreams
        /\ DOMAIN u.run = DOMAIN NoRun /\ u.run.on = ui.run.on /\ u.run.queue = ui.run.queue
    BY <1>1 DEF DeskFields, KeepsBut, LoadFields, ShownPart, NoRun
  <2> HIDE DEF u
  <2>5. ShownPart(u) /\ u.byId[r.id].state # "loading"
    <3>1. /\ DOMAIN u.byId = MemberIds /\ u.byId[r.id] = known
          /\ \A i \in MemberIds : i # r.id => u.byId[i] = ui.byId[i]
      BY <1>1, <2>3, <2>4 DEF ShownPart
    <3> QED BY <1>1, <2>2, <2>3, <2>4, <3>1 DEF ShownPart
  <2>6. \A i \in MemberIds : u.byId[i].state = "loading" <=> \E q \in out \ {r} : q.id = i
    <3>1. \A i \in MemberIds : i # r.id => u.byId[i] = ui.byId[i]
      BY <1>1, <2>4 DEF ShownPart
    <3>2. \A q \in out \ {r} : q.id # r.id
      BY <1>1, <2>3 DEF LoadingPart, Two
    <3> QED BY <1>1, <2>3, <2>5, <3>1, <3>2 DEF LoadingPart
  <2>7. Two(out \ {r})
    BY <1>1 DEF LoadingPart, Two
  <2>8. CASE /\ u.run.limited \/ u.run.queue = {}
             /\ ui' = Settled(u, Mine(Discoveries) \ {r}) /\ reqs' = rest /\ srv' = srv
    <3>1. Mine(Discoveries) = out
      BY <1>1, DiscoverLane DEF out
    <3>2. CASE out \ {r} # {}
      <4>1. ui' = u
        BY <2>8, <3>1, <3>2 DEF Settled
      <4>2. LoadingPart(u, out \ {r})
        BY <1>1, <2>3, <2>4, <2>6, <2>7, <3>2 DEF LoadingPart
      <4>3. SubmitPart(u, rest)
        BY <1>2, <2>4 DEF DeskPart, SubmitPart, LaneIs
      <4> QED BY <1>1, <1>2, <2>4, <2>5, <2>8, <4>1, <4>2, <4>3 DEF DeskPart
    <3>3. CASE out \ {r} = {}
      <4>1. ui' = [u EXCEPT !.run = NoRun, !.rateLimited = u.run.limited]
        BY <2>8, <3>1, <3>3 DEF Settled
      <4>2. /\ DOMAIN ui' = DOMAIN ui /\ KeepsBut(ui, ui', LoadFields)
            /\ ui'.byId = u.byId /\ ui'.pressed = u.pressed /\ ui'.run = NoRun
            /\ ui'.open = ui.open /\ ui'.saving = ui.saving /\ ui'.formError = ui.formError
            /\ ui'.upstreams = u.upstreams
        BY <1>1, <2>4, <4>1 DEF DeskFields, KeepsBut, LoadFields
      <4>3. NoRun.on = FALSE /\ NoRun.queue = {}
        BY DEF NoRun
      <4>4. ShownPart(ui') /\ LoadingPart(ui', {})
        <5>1. ShownPart(ui')
          BY <2>5, <4>2, <4>3 DEF ShownPart
        <5>2. LoadingPart(ui', {})
          BY <2>6, <3>3, <4>2, <4>3 DEF LoadingPart, Two
        <5> QED BY <5>1, <5>2
      <4>5. SubmitPart(ui', rest)
        BY <1>2, <4>2 DEF DeskPart, SubmitPart, LaneIs
      <4> QED BY <1>1, <1>2, <2>8, <3>3, <4>2, <4>4, <4>5 DEF DeskPart
    <3> QED BY <3>2, <3>3
  <2>9. ASSUME NEW i \in u.run.queue,
               ui' = Started(u, {i}), reqs' = Asking(i, rest), srv' = srv
        PROVE  /\ DeskPart(ui', reqs') /\ From(reqs', reqs) /\ srv' = srv
               /\ KeepsBut(ui, ui', LoadFields)
    <3> DEFINE L == [idleMember EXCEPT !.state = "loading"]
               B == [j \in DOMAIN u.byId |-> IF j \in {i} THEN L ELSE u.byId[j]]
    <3>1. L.state = "loading"
      BY DEF idleMember
    <3>2. ui' = [u EXCEPT !.byId = B, !.run = [u.run EXCEPT !.queue = u.run.queue \ {i}]]
      BY <1>1, <2>4, <2>9 DEF Started, DeskFields
    <3> HIDE DEF B, L
    <3>3. /\ DOMAIN ui' = DOMAIN ui /\ KeepsBut(ui, ui', LoadFields)
          /\ ui'.byId = B /\ ui'.pressed = u.pressed
          /\ ui'.run = [u.run EXCEPT !.queue = u.run.queue \ {i}]
          /\ ui'.open = ui.open /\ ui'.saving = ui.saving /\ ui'.formError = ui.formError
          /\ ui'.upstreams = u.upstreams
      BY <1>1, <2>4, <3>2 DEF DeskFields, KeepsBut, LoadFields
    <3>4. /\ DOMAIN ui'.run = DOMAIN NoRun /\ ui'.run.on = u.run.on
          /\ ui'.run.queue = u.run.queue \ {i}
      BY <2>4, <3>3 DEF NoRun
    <3>5. PICK x : /\ Lane(Asking(i, rest), "discover") = Lane(rest, "discover") \cup {x} /\ x.id = i
                   /\ ReqsOk(Asking(i, rest)) /\ From(Asking(i, rest), rest)
                   /\ Lane(Asking(i, rest), "create") = Lane(rest, "create")
      BY <1>2, AskingIs
    <3>6. Lane(reqs', "discover") = (out \ {r}) \cup {x}
      BY <1>2, <2>9, <3>5
    <3>7. i \in MemberIds /\ u.byId[i].state # "loading" /\ i \in u.pressed
      BY <2>5 DEF ShownPart
    <3>8. \A q \in out \ {r} : q.id # i /\ q.id \in MemberIds
      BY <1>1, <2>6, <3>7 DEF LoadingPart
    <3>9. /\ DOMAIN B = MemberIds /\ B[i].state = "loading"
          /\ \A j \in MemberIds : j # i => B[j] = u.byId[j]
      BY <2>5, <3>1, <3>7 DEF B, ShownPart
    <3>10. Two(Lane(reqs', "discover"))
      <4>1. PICK c, d : out \subseteq {c, d}
        BY <1>1 DEF LoadingPart, Two
      <4>2. \E e : out \ {r} \subseteq {e}
        <5>1. r = c \/ r = d
          BY <2>3, <4>1
        <5>2. CASE r = c
          BY <4>1, <5>2
        <5>3. CASE r = d
          BY <4>1, <5>3
        <5> QED BY <5>1, <5>2, <5>3
      <4>3. PICK e : out \ {r} \subseteq {e}
        BY <4>2
      <4>4. Lane(reqs', "discover") \subseteq {e, x}
        BY <3>6, <4>3
      <4> QED BY <2>7, <3>5, <3>6, <3>8, <4>4 DEF Two
    <3>11. LoadingPart(ui', Lane(reqs', "discover"))
      <4>1. \A j \in MemberIds : B[j].state = "loading" <=> \E q \in Lane(reqs', "discover") : q.id = j
        BY <2>6, <3>5, <3>6, <3>9
      <4>2. \A q \in Lane(reqs', "discover") : q.id \in MemberIds
        BY <3>5, <3>6, <3>7, <3>8
      <4> QED BY <2>3, <2>4, <3>3, <3>4, <3>6, <3>10, <4>1, <4>2 DEF LoadingPart
    <3>12. ShownPart(ui')
      BY <2>5, <3>3, <3>4, <3>7, <3>9 DEF ShownPart
    <3>13. SubmitPart(ui', reqs')
      BY <1>2, <2>9, <3>3, <3>5 DEF DeskPart, SubmitPart, LaneIs
    <3>14. From(reqs', reqs)
      BY <1>2, <2>9, <3>5, FromFrom
    <3> QED BY <1>1, <2>9, <3>3, <3>5, <3>11, <3>12, <3>13, <3>14 DEF DeskPart
  <2> QED BY <2>1, <2>8, <2>9
<1> QED BY <1>1, <1>3, <1>4

\* A submit sends its request, and is the only one of its dialog.
LEMMA DeskSends ==
    ASSUME NEW u, NEW v, NEW rs, NEW kind, NEW id, NEW arg, DeskPart(u, rs), ~u.saving,
           kind \in Saves, v = [u EXCEPT !.saving = TRUE]
    PROVE  /\ DeskPart(v, With(rs, Request(kind, id, arg)))
           /\ KeepsBut(u, v, {"saving"}) /\ v.saving
<1>1. /\ DeskFields \subseteq DOMAIN u /\ ReqsOk(rs) /\ Lane(rs, "create") = {}
      /\ ShownPart(u) /\ LoadingPart(u, Lane(rs, "discover"))
  BY DEF DeskPart, SubmitPart, LaneIs
<1>2. /\ DOMAIN v = DOMAIN u /\ v.saving = TRUE /\ v.open = u.open /\ v.formError = u.formError
      /\ v.byId = u.byId /\ v.run = u.run /\ v.pressed = u.pressed /\ v.upstreams = u.upstreams
  BY <1>1 DEF DeskFields
<1>3. KeepsBut(u, v, {"saving"})
  BY <1>1 DEF KeepsBut
<1> DEFINE ss == With(rs, Request(kind, id, arg))
<1>4. LaneOf(kind) = "create"
  BY Numbers
<1>5. ReqsOk(ss) /\ \A l : l # LaneOf(kind) => Lane(ss, l) = Lane(rs, l)
  BY <1>1, Sends
<1>6. LaneIs(ss, LaneOf(kind), TRUE)
  BY <1>1, <1>4, Joins
<1> HIDE DEF ss
<1>7. Lane(ss, "discover") = Lane(rs, "discover")
  BY <1>4, <1>5
<1>8. SubmitPart(v, ss)
  BY <1>2, <1>4, <1>6 DEF DeskPart, SubmitPart
<1>9. ShownPart(v)
  BY <1>1, <1>2 DEF ShownPart
<1>10. LoadingPart(v, Lane(ss, "discover"))
  BY <1>1, <1>2, <1>7 DEF LoadingPart
<1>11. DeskPart(v, ss)
  BY <1>1, <1>2, <1>5, <1>8, <1>9, <1>10 DEF DeskPart
<1> QED BY <1>2, <1>3, <1>11 DEF ss

\* The fields a failure and finally write.
Outcome == {"saving", "formError", "error"}

\* A submit comes to its end: the dialog is idle again if the request was its
\* own, and a failure is shown there or on the page.
LEMMA DeskEnds ==
    ASSUME NEW u, NEW w, NEW v, NEW rs, NEW ss, NEW r \in rs,
           DeskPart(u, rs), r.kind \in Saves,
           DeskFields \subseteq DOMAIN w, w.open \in BOOLEAN, w.formError \in OwnOrNone,
           w.saving = u.saving, w.byId = u.byId, w.run = u.run, w.pressed = u.pressed,
           w.upstreams = u.upstreams,
           v = Finally(w, r) \/ v = Finally(failed(w, r), r),
           ReqsOk(ss), Lane(ss, "create") = Lane(rs \ {r}, "create"),
           Lane(ss, "discover") = Lane(rs, "discover")
    PROVE  /\ DeskPart(v, ss) /\ KeepsBut(w, v, Outcome)
           /\ v.saving => u.saving /\ ~r.mine
           /\ r.mine => Lane(ss, "create") = {}
<1>1. /\ DeskFields \subseteq DOMAIN u /\ ReqsOk(rs) /\ LaneIs(rs, "create", u.saving)
      /\ u.saving \in BOOLEAN
      /\ ShownPart(u) /\ LoadingPart(u, Lane(rs, "discover")) /\ r.mine \in BOOLEAN
  BY DEF DeskPart, SubmitPart, ReqsOk, ReqOk
<1>2. /\ DOMAIN v = DOMAIN w /\ v.saving = (IF r.mine THEN FALSE ELSE u.saving)
      /\ v.open = w.open
      /\ v.byId = w.byId /\ v.run = w.run /\ v.pressed = w.pressed /\ v.upstreams = w.upstreams
  BY DEF DeskFields, Finally, failed
<1>3. v.formError \in OwnOrNone
  BY DEF DeskFields, Finally, failed, OwnOrNone
<1>4. KeepsBut(w, v, Outcome)
  BY DEF DeskFields, Finally, failed, KeepsBut, Outcome
<1>5. LaneIs(ss, "create", v.saving) /\ (r.mine => Lane(ss, "create") = {})
  <2>1. LaneOf(r.kind) = "create" /\ "create" \notin Unnumbered
    BY Numbers DEF Unnumbered
  <2>2. CASE r.mine
    <3>1. Lane(rs \ {r}, "create") = {}
      BY <1>1, <2>1, <2>2 DEF Lane, LaneIs, One
    <3> QED BY <1>2, <2>2, <3>1 DEF LaneIs, One
  <2>3. CASE ~r.mine
    <3>1. Lane(rs \ {r}, "create") = Lane(rs, "create")
      BY <2>1, <2>3 DEF Lane
    <3> QED BY <1>1, <1>2, <2>3, <3>1 DEF LaneIs
  <2> QED BY <2>2, <2>3
<1>6. SubmitPart(v, ss)
  BY <1>1, <1>2, <1>3, <1>5 DEF SubmitPart
<1>7. ShownPart(v)
  BY <1>1, <1>2 DEF ShownPart
<1>8. LoadingPart(v, Lane(ss, "discover"))
  BY <1>1, <1>2 DEF LoadingPart
<1> QED BY <1>1, <1>2, <1>4, <1>5, <1>6, <1>7, <1>8 DEF DeskPart

\* load(), after a create or a 404.
Relisted(rs) == With(rs, Request("list", "", NoRow))

\* A save that has landed is gone, and load() after it stands in no lane.
LEMMA Landed ==
    ASSUME NEW rs, NEW r \in rs, NEW ss, ReqsOk(rs),
           \/ ss = rs \ {r}
           \/ ss = Reload(rs \ {r}, r)
           \/ ss = Relisted(rs \ {r})
    PROVE  /\ ReqsOk(ss) /\ From(ss, rs)
           /\ Lane(ss, "create") = Lane(rs \ {r}, "create")
           /\ Lane(ss, "discover") = Lane(rs \ {r}, "discover")
<1> DEFINE rest == rs \ {r}
<1>1. ReqsOk(rest) /\ From(rest, rs)
  BY FromItself DEF ReqsOk
<1> HIDE DEF rest
<1>2. LaneOf("list") = "list" /\ "list" \notin Saves
  BY DEF LaneOf, Saves
<1>3. CASE ss = rest
  BY <1>1, <1>3 DEF rest
<1>4. CASE ss = Relisted(rest)
  <2>1. /\ ReqsOk(With(rest, Request("list", "", NoRow)))
        /\ \A l : l # LaneOf("list") =>
              Lane(With(rest, Request("list", "", NoRow)), l) = Lane(rest, l)
    BY <1>1, SendsRead
  <2>2. From(With(rest, Request("list", "", NoRow)), rest)
    BY <1>2, FromWith
  <2>3. Lane(ss, "create") = Lane(rest, "create") /\ Lane(ss, "discover") = Lane(rest, "discover")
    BY <1>2, <1>4, <2>1 DEF Relisted
  <2> QED BY <1>1, <1>4, <2>1, <2>2, <2>3, FromFrom DEF rest, Relisted
<1>5. CASE ss = Reload(rest, r)
  BY <1>3, <1>4, <1>5 DEF Reload, Relisted
<1> QED BY <1>3, <1>4, <1>5 DEF rest

\* A request that is no discovery leaves the press alone.
LEMMA PressKept ==
    ASSUME NEW rs, NEW r, r.kind # "discover"
    PROVE  Lane(rs \ {r}, "discover") = Lane(rs, "discover")
BY DEF Lane, LaneOf

\* The PATCH a fresh read leads to.
Follows(x, r) == /\ x.kind = "patch" /\ x.st = "sent" /\ x.mine = r.mine /\ x.id = r.id
                 /\ x.arg = r.arg

\* The fresh read comes back: the save fails, or sends its PATCH.
LEMMA DeskLandsRead ==
    ASSUME DeskPart(ui, reqs), NEW r \in reqs, NEW stale, LandRead(r, stale)
    PROVE  /\ DeskPart(ui', reqs') /\ srv' = srv /\ KeepsBut(ui, ui', Outcome)
           /\ (ui'.saving => ui.saving)
           /\ \A x \in reqs' : x.kind \in Saves =>
                 \/ \E q \in reqs : Weaker(x, q)
                 \/ r.ans.ok /\ ~stale /\ Follows(x, r)
<1>1. /\ DeskFields \subseteq DOMAIN ui /\ ReqsOk(reqs) /\ r.kind = "read" /\ r.kind \in Saves
      /\ ui.open \in BOOLEAN /\ ui.formError \in OwnOrNone /\ r.mine \in BOOLEAN
      /\ ui.saving \in BOOLEAN
  BY DEF DeskPart, LandRead, Saves, SubmitPart, ReqsOk, ReqOk
<1>2. CASE /\ ui' = Finally(failed(ui, r), r) /\ srv' = srv
           /\ reqs' = reqs \ {r} \/ reqs' = Reload(reqs \ {r}, r)
  <2>1. /\ ReqsOk(reqs') /\ From(reqs', reqs)
        /\ Lane(reqs', "create") = Lane(reqs \ {r}, "create")
        /\ Lane(reqs', "discover") = Lane(reqs \ {r}, "discover")
    BY <1>1, <1>2, Landed
  <2>2. Lane(reqs', "discover") = Lane(reqs, "discover")
    BY <1>1, <2>1, PressKept
  <2>3. DeskPart(ui', reqs') /\ KeepsBut(ui, ui', Outcome) /\ (ui'.saving => ui.saving /\ ~r.mine)
    BY <1>1, <1>2, <2>1, <2>2, DeskEnds
  <2> QED BY <1>2, <2>1, <2>3 DEF From
<1>3. CASE r.ans.ok /\ ~stale
  <2> DEFINE q == [Request("patch", r.id, r.arg) EXCEPT !.mine = r.mine]
             rest == reqs \ {r}
  <2>1. ui' = ui /\ srv' = srv /\ reqs' = With(rest, q)
    BY <1>3 DEF LandRead, Apply
  <2>2. q.kind = "patch" /\ q.id = r.id /\ q.arg = r.arg /\ q.mine = r.mine /\ q.st = "sent"
    BY DEF Request
  <2> HIDE DEF q
  <2>3. PICK x : /\ reqs' = rest \cup {x} /\ DOMAIN x = ReqFields
                 /\ x.kind = q.kind /\ x.id = q.id /\ x.arg = q.arg
                 /\ x.mine = q.mine /\ x.st = q.st
    BY <2>1, WithAdds
  <2>4. ReqsOk(reqs')
    BY <1>1, <2>2, <2>3 DEF ReqsOk, ReqOk
  <2>5. LaneOf("read") = "create" /\ LaneOf("patch") = "create" /\ "create" \notin Unnumbered
    BY DEF LaneOf, Saves, Unnumbered
  <2>6. Lane(reqs', "discover") = Lane(reqs, "discover")
    BY <1>1, <2>2, <2>3, <2>5 DEF Lane
  <2>7. LaneIs(reqs', "create", ui.saving)
    <3>1. LaneIs(reqs, "create", ui.saving)
      BY DEF DeskPart, SubmitPart
    <3>2. CASE r.mine
      <4>1. r \in Lane(reqs, "create")
        BY <1>1, <2>5, <3>2 DEF Lane
      <4>2. Lane(rest, "create") = {}
        BY <3>1, <4>1 DEF Lane, LaneIs, One
      <4>3. Lane(reqs', "create") = Lane(rest, "create") \cup {x}
        BY <2>2, <2>3, <2>5, <3>2 DEF Lane
      <4> QED BY <3>1, <4>1, <4>2, <4>3 DEF LaneIs, One
    <3>3. CASE ~r.mine
      <4>1. Lane(reqs', "create") = Lane(reqs, "create")
        BY <1>1, <2>2, <2>3, <2>5, <3>3 DEF Lane
      <4> QED BY <3>1, <4>1 DEF LaneIs
    <3> QED BY <1>1, <3>2, <3>3
  <2>8. SubmitPart(ui', reqs')
    BY <1>1, <2>1, <2>7 DEF SubmitPart
  <2>9. DeskPart(ui', reqs')
    BY <1>1, <2>1, <2>4, <2>6, <2>8 DEF DeskPart
  <2>10. \A y \in reqs' : \/ \E z \in reqs : Weaker(y, z)
                          \/ Follows(y, r)
    BY <2>2, <2>3 DEF Weaker, Follows
  <2> QED BY <1>3, <2>1, <2>9, <2>10 DEF KeepsBut
<1> QED
  <2>1. CASE ~r.ans.ok
    BY <1>2, <2>1 DEF LandRead, Apply
  <2>2. CASE r.ans.ok /\ stale
    BY <1>2, <2>2 DEF LandRead, Apply
  <2> QED BY <1>3, <2>1, <2>2

\* The answer to a create or a PATCH: the table takes it, and its own dialog,
\* which then has nothing out, is closed.
LEMMA DeskLandsSave ==
    ASSUME DeskPart(ui, reqs), NEW r \in reqs, NEW took, NEW closed, r.kind \in Saves,
           DOMAIN took = DOMAIN ui, DOMAIN closed = DOMAIN ui,
           KeepsBut(ui, took, {"items", "secret"}),
           closed.open \in BOOLEAN, closed.formError = ui.formError, closed.saving = ui.saving,
           closed.byId = ui.byId, closed.run = ui.run, closed.pressed = ui.pressed,
           closed.upstreams = ui.upstreams,
           LandSaved(r, took, closed)
    PROVE  /\ DeskPart(ui', reqs') /\ srv' = srv /\ From(reqs', reqs)
           /\ (ui'.saving => ui.saving)
           /\ \/ KeepsBut(closed, ui', Outcome) /\ Lane(reqs', "create") = {}
              \/ KeepsBut(took, ui', Outcome)
              \/ KeepsBut(ui, ui', Outcome)
<1>1. /\ DeskFields \subseteq DOMAIN ui /\ ReqsOk(reqs)
      /\ ui.open \in BOOLEAN /\ ui.formError \in OwnOrNone /\ r.mine \in BOOLEAN
      /\ ui.saving \in BOOLEAN
  BY DEF DeskPart, SubmitPart, ReqsOk, ReqOk
<1>2. /\ srv' = srv
      /\ \/ reqs' = reqs \ {r}
         \/ reqs' = Reload(reqs \ {r}, r)
         \/ reqs' = Relisted(reqs \ {r})
      /\ \/ ui' = Finally(closed, r) /\ r.mine
         \/ ui' = Finally(took, r)
         \/ ui' = Finally(failed(ui, r), r)
  BY <1>1 DEF LandSaved, Apply, Relisted
<1>3. r.kind # "discover"
  BY DEF Saves
<1>4. /\ ReqsOk(reqs') /\ From(reqs', reqs)
      /\ Lane(reqs', "create") = Lane(reqs \ {r}, "create")
      /\ Lane(reqs', "discover") = Lane(reqs \ {r}, "discover")
  <2>1. PICK ss : ss = reqs'
    OBVIOUS
  <2>2. /\ ReqsOk(reqs)
        /\ \/ ss = reqs \ {r}
           \/ ss = Reload(reqs \ {r}, r)
           \/ ss = Relisted(reqs \ {r})
    BY <1>1, <1>2, <2>1
  <2>3. /\ ReqsOk(ss) /\ From(ss, reqs)
        /\ Lane(ss, "create") = Lane(reqs \ {r}, "create")
        /\ Lane(ss, "discover") = Lane(reqs \ {r}, "discover")
    BY ONLY r \in reqs, <2>2, Landed
  <2> QED BY <2>1, <2>3
<1>5. Lane(reqs', "discover") = Lane(reqs, "discover")
  BY <1>3, <1>4, PressKept
<1>6. /\ took.open = ui.open /\ took.formError = ui.formError /\ took.saving = ui.saving
      /\ took.byId = ui.byId /\ took.run = ui.run /\ took.pressed = ui.pressed
      /\ took.upstreams = ui.upstreams
  BY <1>1 DEF KeepsBut, DeskFields
<1>7. CASE ui' = Finally(closed, r) /\ r.mine
  <2>1. /\ DeskPart(ui', reqs') /\ KeepsBut(closed, ui', Outcome)
        /\ (ui'.saving => ui.saving /\ ~r.mine) /\ (r.mine => Lane(reqs', "create") = {})
    BY <1>1, <1>4, <1>5, <1>7, DeskEnds
  <2> QED BY <1>2, <1>4, <1>7, <2>1
<1>8. CASE ui' = Finally(took, r)
  <2>1. /\ DeskPart(ui', reqs') /\ KeepsBut(took, ui', Outcome)
        /\ (ui'.saving => ui.saving /\ ~r.mine)
    BY <1>1, <1>4, <1>5, <1>6, <1>8, DeskEnds
  <2> QED BY <1>2, <1>4, <2>1
<1>9. CASE ui' = Finally(failed(ui, r), r)
  <2>1. /\ DeskPart(ui', reqs') /\ KeepsBut(ui, ui', Outcome)
        /\ (ui'.saving => ui.saving /\ ~r.mine)
    BY <1>1, <1>4, <1>5, <1>9, DeskEnds
  <2> QED BY <1>2, <1>4, <2>1
<1> QED BY <1>2, <1>7, <1>8, <1>9

\* The row of a save was written after its fresh read.
Overtaken(r, now) ==
    /\ r.kind \in {"read", "patch"}
    /\ r.st = (IF r.kind = "read" THEN "answered" ELSE "sent")
    /\ Listed(r.id) /\ Row(r.id) \notin now

Aged(r, now) == IF Overtaken(r, now) THEN [r EXCEPT !.arg.raced = TRUE] ELSE r

LEMMA AgedIs ==
    ASSUME NEW r, NEW now, ReqOk(r)
    PROVE  /\ ReqOk(Aged(r, now))
           /\ Aged(r, now).kind = r.kind /\ Aged(r, now).mine = r.mine
           /\ Aged(r, now).id = r.id /\ Aged(r, now).st = r.st /\ Aged(r, now).ans = r.ans
           /\ Aged(r, now).arg = (IF Overtaken(r, now) THEN [r.arg EXCEPT !.raced = TRUE]
                                  ELSE r.arg)
           /\ r.kind = "discover" => Aged(r, now) = r
<1>1. CASE Overtaken(r, now)
  <2>1. r.kind # "discover"
    BY <1>1 DEF Overtaken
  <2> QED BY <1>1, <2>1 DEF Aged, ReqOk, ReqFields
<1>2. CASE ~Overtaken(r, now)
  BY <1>2 DEF Aged
<1> QED BY <1>1, <1>2

LEMMA RacedAged == ASSUME NEW rs, NEW now PROVE Raced(rs, now) = {Aged(r, now) : r \in rs}
BY DEF Raced, Aged, Overtaken

\* Nobody else's write moves a request to another lane.
LEMMA RacedLanes ==
    ASSUME NEW rs, NEW now, ReqsOk(rs)
    PROVE  /\ ReqsOk(Raced(rs, now))
           /\ Lane(Raced(rs, now), "discover") = Lane(rs, "discover")
           /\ Lane(Raced(rs, now), "create") = {} <=> Lane(rs, "create") = {}
           /\ One(Lane(rs, "create")) => One(Lane(Raced(rs, now), "create"))
<1> DEFINE ss == Raced(rs, now)
<1>1. ss = {Aged(r, now) : r \in rs}
  BY RacedAged
<1>2. ASSUME NEW r \in rs
      PROVE  /\ ReqOk(Aged(r, now))
             /\ Aged(r, now).kind = r.kind /\ Aged(r, now).mine = r.mine
             /\ r.kind = "discover" => Aged(r, now) = r
  <2>1. ReqOk(r)
    BY DEF ReqsOk
  <2> QED BY <2>1, AgedIs
<1> HIDE DEF ss
<1>3. ReqsOk(ss)
  BY <1>1, <1>2 DEF ReqsOk
<1>4. Lane(ss, "discover") = Lane(rs, "discover")
  BY <1>1, <1>2 DEF Lane, LaneOf, Saves
<1>5. Lane(ss, "create") = {Aged(r, now) : r \in Lane(rs, "create")}
  BY <1>1, <1>2 DEF Lane
<1>6. /\ Lane(ss, "create") = {} <=> Lane(rs, "create") = {}
      /\ One(Lane(rs, "create")) => One(Lane(ss, "create"))
  BY <1>5 DEF One
<1> QED BY <1>3, <1>4, <1>6 DEF ss

\* The rows change under the requests that are out.
LEMMA DeskRaced ==
    ASSUME NEW u, NEW v, NEW rs, NEW now, NEW k, DeskPart(u, rs), v = u \/ v = Spend(u, k)
    PROVE  DeskPart(v, Raced(rs, now)) /\ KeepsBut(u, v, {"budget"})
<1> DEFINE ss == Raced(rs, now)
<1>1. ReqsOk(rs) /\ DeskFields \subseteq DOMAIN u /\ u.saving \in BOOLEAN
  BY DEF DeskPart, SubmitPart
<1>2. /\ ReqsOk(ss) /\ Lane(ss, "discover") = Lane(rs, "discover")
      /\ Lane(ss, "create") = {} <=> Lane(rs, "create") = {}
      /\ One(Lane(rs, "create")) => One(Lane(ss, "create"))
  BY <1>1, RacedLanes
<1> HIDE DEF ss
<1>3. /\ DOMAIN v = DOMAIN u /\ v.open = u.open /\ v.formError = u.formError
      /\ v.saving = u.saving /\ v.byId = u.byId /\ v.run = u.run
      /\ v.pressed = u.pressed /\ v.upstreams = u.upstreams /\ KeepsBut(u, v, {"budget"})
  BY <1>1 DEF Spend, DeskFields, KeepsBut
<1>4. SubmitPart(v, ss)
  BY <1>2, <1>3 DEF DeskPart, SubmitPart, LaneIs
<1>5. ShownPart(v)
  BY <1>3 DEF DeskPart, ShownPart
<1>6. LoadingPart(v, Lane(ss, "discover"))
  BY <1>2, <1>3 DEF DeskPart, LoadingPart
<1>7. DeskPart(v, ss)
  BY <1>1, <1>2, <1>3, <1>4, <1>5, <1>6 DEF DeskPart
<1> QED BY <1>3, <1>7 DEF ss

\* A request the server has answered, and the others as the rows now stand.
Served(r, a, now) == Raced(reqs \ {r}, now) \cup {[r EXCEPT !.st = "answered", !.ans = a]}

LEMMA DeskAnswered ==
    ASSUME DeskPart(ui, reqs), NEW r \in reqs, r.kind # "discover", NEW a, NEW now, NEW k,
           reqs' = Served(r, a, now), ui' = ui \/ ui' = Spend(ui, k)
    PROVE  DeskPart(ui', reqs') /\ KeepsBut(ui, ui', {"budget"})
<1> DEFINE x == [r EXCEPT !.st = "answered", !.ans = a]
           rest == reqs \ {r}
           ss == Raced(rest, now)
<1>1. ReqsOk(reqs) /\ DeskFields \subseteq DOMAIN ui /\ ReqsOk(rest)
      /\ ui.saving \in BOOLEAN /\ r.mine \in BOOLEAN
  BY DEF DeskPart, SubmitPart, ReqsOk, ReqOk
<1>2. reqs' = ss \cup {x} /\ ReqOk(x) /\ Same(r, x)
  BY <1>1 DEF ReqsOk, ReqOk, ReqFields, Same, Served
<1>3. /\ ReqsOk(ss) /\ Lane(ss, "discover") = Lane(rest, "discover")
      /\ Lane(ss, "create") = {} <=> Lane(rest, "create") = {}
      /\ One(Lane(rest, "create")) => One(Lane(ss, "create"))
  BY <1>1, RacedLanes
<1> HIDE DEF ss, x, rest
<1>4. ReqsOk(reqs')
  BY <1>2, <1>3 DEF ReqsOk
<1>5. x.kind = r.kind /\ x.mine = r.mine
  BY <1>2 DEF Same
<1>6. Lane(reqs', "discover") = Lane(reqs, "discover")
  <2>1. Lane(reqs', "discover") = Lane(ss, "discover")
    BY <1>2, <1>5 DEF Lane, LaneOf
  <2>2. Lane(rest, "discover") = Lane(reqs, "discover")
    BY PressKept DEF rest
  <2> QED BY <1>3, <2>1, <2>2
<1>7. LaneIs(reqs', "create", ui.saving)
  <2>1. LaneIs(reqs, "create", ui.saving)
    BY DEF DeskPart, SubmitPart
  <2>2. CASE r \in Lane(reqs, "create")
    <3>1. Lane(rest, "create") = {}
      BY <2>1, <2>2 DEF Lane, LaneIs, One, rest
    <3>2. Lane(reqs', "create") = Lane(ss, "create") \cup {x}
      BY <1>2, <1>5, <2>2 DEF Lane
    <3>3. Lane(reqs', "create") = {x}
      BY <1>3, <3>1, <3>2
    <3> QED BY <2>1, <2>2, <3>3 DEF LaneIs, One
  <2>3. CASE r \notin Lane(reqs, "create")
    <3>1. Lane(rest, "create") = Lane(reqs, "create")
      BY <2>3 DEF Lane, rest
    <3>2. Lane(reqs', "create") = Lane(ss, "create")
      BY <1>2, <1>5, <2>3 DEF Lane
    <3> QED BY <1>3, <2>1, <3>1, <3>2 DEF LaneIs
  <2> QED BY <2>2, <2>3
<1>8. /\ DOMAIN ui' = DOMAIN ui /\ ui'.open = ui.open /\ ui'.formError = ui.formError
      /\ ui'.saving = ui.saving /\ ui'.byId = ui.byId /\ ui'.run = ui.run
      /\ ui'.pressed = ui.pressed /\ ui'.upstreams = ui.upstreams
      /\ KeepsBut(ui, ui', {"budget"})
  BY <1>1 DEF Spend, DeskFields, KeepsBut
<1>9. SubmitPart(ui', reqs')
  BY <1>7, <1>8 DEF DeskPart, SubmitPart
<1>10. ShownPart(ui')
  BY <1>8 DEF DeskPart, ShownPart
<1>11. LoadingPart(ui', Lane(reqs', "discover"))
  BY <1>6, <1>8 DEF DeskPart, LoadingPart
<1> QED BY <1>1, <1>4, <1>8, <1>9, <1>10, <1>11 DEF DeskPart

\* The row an id names.
LEMMA RowIs ==
    ASSUME Distinct(srv), NEW g \in srv
    PROVE  Listed(g.id) /\ Row(g.id) = g
BY DEF Distinct, Listed, Row

LEMMA RowListed ==
    ASSUME NEW id, Listed(id)
    PROVE  Row(id) \in srv /\ Row(id).id = id
BY DEF Listed, Row

\* A row that its save was not overtaken on is still there.
LEMMA NotOvertaken ==
    ASSUME Distinct(srv), NEW r, NEW now, NEW g \in srv, g.id = r.id,
           r.kind \in {"read", "patch"},
           r.st = (IF r.kind = "read" THEN "answered" ELSE "sent"),
           ~Overtaken(r, now)
    PROVE  g \in now
<1>1. Listed(g.id) /\ Row(g.id) = g
  BY RowIs
<1> QED BY <1>1 DEF Overtaken

\* A fresh read stays fresh, or is overtaken.
LEMMA ReadAged ==
    ASSUME Distinct(srv), NEW r, NEW now, ReqOk(r), ReadFresh(r, srv),
           r.kind = "read" => "raced" \in DOMAIN r.arg
    PROVE  ReadFresh(Aged(r, now), now)
<1> DEFINE x == Aged(r, now)
<1>1. /\ x.kind = r.kind /\ x.id = r.id /\ x.st = r.st /\ x.ans = r.ans
      /\ x.arg = (IF Overtaken(r, now) THEN [r.arg EXCEPT !.raced = TRUE] ELSE r.arg)
  BY AgedIs
<1> HIDE DEF x
<1>2. SUFFICES ASSUME x.kind = "read", x.st = "answered", x.ans.ok, ~x.arg.raced
               PROVE  x.ans.row \in now /\ x.ans.row.id = x.id
  BY DEF ReadFresh, x
<1>3. ~Overtaken(r, now)
  BY <1>1, <1>2
<1>4. r.ans.row \in srv /\ r.ans.row.id = r.id
  BY <1>1, <1>2, <1>3 DEF ReadFresh
<1>5. r.ans.row \in now
  BY <1>1, <1>2, <1>3, <1>4, NotOvertaken
<1> QED BY <1>1, <1>4, <1>5

LEMMA KeepsMore == ASSUME NEW u, NEW v, NEW K, NEW L, KeepsBut(u, v, K), K \subseteq L
                   PROVE  KeepsBut(u, v, L)
BY DEF KeepsBut

----------------------------------------------------------------------------
(* The Groups page.                                                        *)

GroupUi ==
    {"page", "items", "upstreams", "open", "editing", "saving", "error", "formError", "form",
     "confirmEmpty", "confirmBlocks", "answered", "byId", "rateLimited", "run", "pressed",
     "agreed", "pendingDelete", "deleting", "deleteError", "budget"}

Modes == {"", "allow", "deny"}
GroupFormOk(f) ==
    /\ DOMAIN f = DOMAIN blankGroupForm /\ DOMAIN f.filter = DOMAIN blankFilterForm
    /\ f.filter.mode \in Modes

\* What a submit of the page u would send.
BodyOf(u) == IF u.editing = NoRow THEN groupCreateBody(u.form)
             ELSE groupPatchBody(u.editing, u.form)

\* An answer the operator gave in this submit was about the body it would send.
AgreedTo(u) ==
    /\ DOMAIN u.answered = {"empty", "blocks"}
    /\ u.answered.empty => <<"empty", BodyOf(u)>> \in u.agreed
    /\ u.answered.blocks => <<"blocks", BodyOf(u)>> \in u.agreed

\* While an Alert asks, the dialog under it stands still.
ConfirmPart(u) ==
    /\ u.confirmEmpty \in BOOLEAN /\ u.confirmBlocks \in BOOLEAN
    /\ ~(u.confirmEmpty /\ u.confirmBlocks)
    /\ DOMAIN u.answered = {"empty", "blocks"}
    /\ u.confirmEmpty \/ u.confirmBlocks =>
          /\ u.open /\ ~u.saving /\ ~groupSaveBlocked(u.editing, u.form) /\ AgreedTo(u)
    /\ u.confirmEmpty => u.editing # NoRow

GroupArg == {"body", "seed", "agreed", "blocks", "raced"}

AskedFor(kind, a) ==
    /\ (kind # "create" /\ "upstream_ids" \in DOMAIN a.body /\ a.body.upstream_ids = {})
          => <<"empty", a.body>> \in a.agreed
    /\ a.blocks => <<"blocks", a.body>> \in a.agreed

\* A PATCH of the filter that nobody overtook finds the row its dialog showed.
GroupPatchFresh(r, S) ==
    (r.kind = "patch" /\ r.st = "sent" /\ "tool_filter" \in DOMAIN r.arg.body /\ ~r.arg.raced) =>
       \E g \in S : g.id = r.id /\ SameVerdicts(r.arg.seed.tool_filter, g.tool_filter)

\* Replace filter was pressed, in the dialog the save came from.
GroupReplaced(r, f) ==
    (/\ r.kind \in {"read", "patch"} /\ r.mine /\ "tool_filter" \in DOMAIN r.arg.body
     /\ ~ValidateToolFilter(r.arg.seed.tool_filter)) => f.filterReplace

GroupReq(r, S, f) ==
    r.kind \in Saves => /\ DOMAIN r.arg = GroupArg
                        /\ AskedFor(r.kind, r.arg) /\ ReadFresh(r, S)
                        /\ GroupPatchFresh(r, S) /\ GroupReplaced(r, f)

GroupOk(u, rs, S) ==
    /\ u.page = "groups" /\ DOMAIN u = GroupUi /\ DeskPart(u, rs) /\ Distinct(S)
    /\ GroupFormOk(u.form) /\ ConfirmPart(u)
    /\ \A r \in rs : GroupReq(r, S, u.form)

GroupInv == GroupOk(ui, reqs, srv)

\* A save of another dialog, or of a form that still says Replace filter.
LEMMA GroupReqWeaker ==
    ASSUME NEW x, NEW r, NEW S, NEW f, NEW g, Weaker(x, r), GroupReq(r, S, f),
           x.mine => (f.filterReplace => g.filterReplace)
    PROVE  GroupReq(x, S, g)
<1>1. /\ x.kind = r.kind /\ x.st = r.st /\ x.ans = r.ans /\ x.arg = r.arg /\ x.id = r.id
      /\ x.mine => r.mine
  BY DEF Weaker
<1>2. SUFFICES ASSUME x.kind \in Saves PROVE GroupReq(x, S, g)
  BY DEF GroupReq
<1>3. /\ DOMAIN r.arg = GroupArg /\ AskedFor(r.kind, r.arg) /\ ReadFresh(r, S)
      /\ GroupPatchFresh(r, S) /\ GroupReplaced(r, f)
  BY <1>1, <1>2 DEF GroupReq
<1>4. ReadFresh(x, S)
  BY <1>1, <1>3 DEF ReadFresh
<1>5. GroupPatchFresh(x, S)
  BY <1>1, <1>3 DEF GroupPatchFresh
<1>6. GroupReplaced(x, g)
  BY <1>1, <1>3 DEF GroupReplaced
<1> QED BY <1>1, <1>3, <1>4, <1>5, <1>6 DEF GroupReq

LEMMA GroupReqsFrom ==
    ASSUME NEW rs, NEW ss, NEW S, NEW f, NEW g, From(ss, rs), \A r \in rs : GroupReq(r, S, f),
           f.filterReplace => g.filterReplace
    PROVE  \A x \in ss : GroupReq(x, S, g)
<1> SUFFICES ASSUME NEW x \in ss, x.kind \in Saves PROVE GroupReq(x, S, g)
  BY DEF GroupReq
<1>1. PICK r \in rs : Weaker(x, r)
  BY DEF From
<1> QED BY <1>1, GroupReqWeaker

LEMMA GroupReqsOthers ==
    ASSUME NEW rs, NEW ss, NEW S, NEW f, NEW g, From(ss, rs), \A r \in rs : GroupReq(r, S, f),
           Lane(ss, "create") = {}
    PROVE  \A x \in ss : GroupReq(x, S, g)
<1> SUFFICES ASSUME NEW x \in ss, x.kind \in Saves PROVE GroupReq(x, S, g)
  BY DEF GroupReq
<1>1. PICK r \in rs : Weaker(x, r)
  BY DEF From
<1>2. ~x.mine
  BY DEF Lane, LaneOf
<1> QED BY <1>1, <1>2, GroupReqWeaker

\* The rows change under a save.
LEMMA GroupReqAged ==
    ASSUME Distinct(srv), NEW r, NEW now, NEW f, ReqOk(r), GroupReq(r, srv, f)
    PROVE  GroupReq(Aged(r, now), now, f)
<1> DEFINE x == Aged(r, now)
<1>1. /\ x.kind = r.kind /\ x.id = r.id /\ x.st = r.st /\ x.mine = r.mine
      /\ x.arg = (IF Overtaken(r, now) THEN [r.arg EXCEPT !.raced = TRUE] ELSE r.arg)
  BY AgedIs
<1>2. SUFFICES ASSUME x.kind \in Saves PROVE GroupReq(x, now, f)
  BY DEF GroupReq
<1>3. /\ DOMAIN r.arg = GroupArg /\ AskedFor(r.kind, r.arg) /\ ReadFresh(r, srv)
      /\ GroupPatchFresh(r, srv) /\ GroupReplaced(r, f)
  BY <1>1, <1>2 DEF GroupReq
<1>4. ReadFresh(x, now)
  BY <1>3, ReadAged DEF GroupArg
<1> HIDE DEF x
<1>5. /\ DOMAIN x.arg = GroupArg /\ x.arg.body = r.arg.body /\ x.arg.seed = r.arg.seed
      /\ x.arg.agreed = r.arg.agreed /\ x.arg.blocks = r.arg.blocks
      /\ Overtaken(r, now) => x.arg.raced = TRUE
  BY <1>1, <1>3 DEF GroupArg
<1>6. GroupPatchFresh(x, now)
  <2>1. SUFFICES ASSUME x.kind = "patch", x.st = "sent", "tool_filter" \in DOMAIN x.arg.body,
                        ~x.arg.raced
                 PROVE  \E g \in now : /\ g.id = x.id
                                       /\ SameVerdicts(x.arg.seed.tool_filter, g.tool_filter)
    BY DEF GroupPatchFresh
  <2>2. ~Overtaken(r, now) /\ x.arg = r.arg
    BY <1>1, <1>5, <2>1
  <2>3. PICK g \in srv : g.id = r.id /\ SameVerdicts(r.arg.seed.tool_filter, g.tool_filter)
    BY <1>1, <1>3, <2>1, <2>2 DEF GroupPatchFresh
  <2>4. g \in now
    BY <1>1, <2>1, <2>2, <2>3, NotOvertaken
  <2> QED BY <1>1, <2>2, <2>3, <2>4
<1>7. AskedFor(x.kind, x.arg) /\ GroupReplaced(x, f)
  BY <1>1, <1>3, <1>5 DEF AskedFor, GroupReplaced
<1> QED BY <1>4, <1>5, <1>6, <1>7 DEF GroupReq

\* Its answer comes: a read tells the row.
LEMMA GroupReqAnswered ==
    ASSUME NEW r, NEW a, NEW S, NEW now, NEW f, ReqOk(r), GroupReq(r, S, f),
           (r.kind = "read" /\ a.ok) => (a.row \in now /\ a.row.id = r.id)
    PROVE  GroupReq([r EXCEPT !.st = "answered", !.ans = a], now, f)
<1> DEFINE x == [r EXCEPT !.st = "answered", !.ans = a]
<1>1. /\ x.kind = r.kind /\ x.id = r.id /\ x.mine = r.mine /\ x.arg = r.arg
      /\ x.st = "answered" /\ x.ans = a
  BY DEF ReqOk, ReqFields
<1> HIDE DEF x
<1>2. ReadFresh(x, now) /\ GroupPatchFresh(x, now)
  BY <1>1 DEF ReadFresh, GroupPatchFresh
<1>3. GroupReplaced(r, f) => GroupReplaced(x, f)
  BY <1>1 DEF GroupReplaced
<1>4. GroupReq(x, now, f)
  BY <1>1, <1>2, <1>3 DEF GroupReq
<1> QED BY <1>4 DEF x

\* The fields no confirm and no save looks at.
GroupCalm == {"items", "upstreams", "error", "formError", "saving", "byId", "rateLimited", "run",
              "pressed", "pendingDelete", "deleting", "deleteError", "budget"}

LEMMA GroupKept ==
    ASSUME GroupInv, NEW K, K \subseteq GroupCalm, KeepsBut(ui, ui', K),
           ui'.saving => ui.saving, DeskPart(ui', reqs'), srv' = srv, From(reqs', reqs)
    PROVE  GroupInv'
<1>1. /\ ui.page = "groups" /\ DOMAIN ui = GroupUi /\ Distinct(srv) /\ GroupFormOk(ui.form)
      /\ ConfirmPart(ui) /\ \A r \in reqs : GroupReq(r, srv, ui.form)
  BY DEF GroupInv, GroupOk
<1>2. KeepsBut(ui, ui', GroupCalm)
  BY KeepsMore
<1>3. /\ DOMAIN ui' = GroupUi /\ ui'.page = ui.page /\ ui'.open = ui.open
      /\ ui'.editing = ui.editing /\ ui'.form = ui.form
      /\ ui'.confirmEmpty = ui.confirmEmpty /\ ui'.confirmBlocks = ui.confirmBlocks
      /\ ui'.answered = ui.answered /\ ui'.agreed = ui.agreed
  BY <1>1, <1>2 DEF KeepsBut, GroupCalm, GroupUi
<1>4. BodyOf(ui') = BodyOf(ui)
  BY <1>3 DEF BodyOf
<1>5. AgreedTo(ui) => AgreedTo(ui')
  BY <1>3, <1>4 DEF AgreedTo
<1>6. ConfirmPart(ui')
  BY <1>1, <1>3, <1>5 DEF ConfirmPart
<1>7. \A x \in reqs' : GroupReq(x, srv, ui.form)
  BY <1>1, GroupReqsFrom
<1> QED BY <1>1, <1>3, <1>6, <1>7 DEF GroupInv, GroupOk

\* What both pages may change while requests stay as they are.
LEMMA GroupDesk ==
    ASSUME GroupInv, NEW u, KeepsBut(ui, u, {"items", "upstreams", "error", "open", "editing", "form",
                "confirmEmpty", "confirmBlocks", "answered", "agreed", "formError",
                "pendingDelete", "deleting", "deleteError", "budget", "rateLimited"}),
           u.open \in BOOLEAN, u.formError \in OwnOrNone, u.upstreams \subseteq Upstreams,
           NEW ss, ReqsOk(ss), Lane(ss, "create") = Lane(reqs, "create"),
           Lane(ss, "discover") = Lane(reqs, "discover")
    PROVE  DeskPart(u, ss)
<1>1. DeskPart(ui, reqs) /\ DOMAIN ui = GroupUi
  BY DEF GroupInv, GroupOk
<1>2. /\ DeskFields \subseteq DOMAIN u /\ u.saving = ui.saving /\ u.byId = ui.byId
      /\ u.run = ui.run /\ u.pressed = ui.pressed
  BY <1>1 DEF KeepsBut, GroupUi, DeskFields
<1> QED BY <1>1, <1>2, DeskKept

\* What GroupInv says, in pieces.
LEMMA GroupIs ==
    ASSUME GroupInv
    PROVE  /\ ui.page = "groups" /\ DOMAIN ui = GroupUi /\ DeskPart(ui, reqs) /\ Distinct(srv)
           /\ GroupFormOk(ui.form) /\ ConfirmPart(ui)
           /\ \A r \in reqs : GroupReq(r, srv, ui.form)
           /\ ReqsOk(reqs) /\ ui.open \in BOOLEAN /\ ui.saving \in BOOLEAN
           /\ ui.formError \in OwnOrNone /\ ui.upstreams \subseteq Upstreams
           /\ ui.confirmEmpty \in BOOLEAN /\ ui.confirmBlocks \in BOOLEAN
           /\ DOMAIN ui.answered = {"empty", "blocks"}
BY DEF GroupInv, GroupOk, DeskPart, SubmitPart, ShownPart, ConfirmPart

LEMMA NoConfirm ==
    ASSUME NEW u, u.confirmEmpty = FALSE, u.confirmBlocks = FALSE,
           DOMAIN u.answered = {"empty", "blocks"}
    PROVE  ConfirmPart(u)
BY DEF ConfirmPart

\* openCreate and openEdit.
LEMMA GroupOpened ==
    ASSUME GroupInv, ~ui.open, NEW u, KeepsBut(ui, u, {"editing", "formError", "form"}),
           NoMessage(u), GroupFormOk(u.form), groupOpened(u)
    PROVE  GroupInv'
<1>1. /\ ui.page = "groups" /\ DOMAIN ui = GroupUi /\ DeskPart(ui, reqs) /\ Distinct(srv)
      /\ ConfirmPart(ui) /\ \A r \in reqs : GroupReq(r, srv, ui.form)
      /\ ReqsOk(reqs) /\ ui.open \in BOOLEAN
      /\ ui.upstreams \subseteq Upstreams /\ DOMAIN ui.answered = {"empty", "blocks"}
  BY GroupIs
<1>2. ui.confirmEmpty = FALSE /\ ui.confirmBlocks = FALSE
  BY <1>1 DEF ConfirmPart
<1>3. /\ DOMAIN u = GroupUi /\ u.open = ui.open /\ u.upstreams = ui.upstreams /\ u.page = "groups"
      /\ u.confirmEmpty = FALSE /\ u.confirmBlocks = FALSE /\ u.answered = ui.answered
      /\ u.saving = ui.saving /\ u.byId = ui.byId /\ u.run = ui.run /\ u.pressed = ui.pressed
  BY <1>1, <1>2 DEF KeepsBut, GroupUi
<1>4. DeskPart(u, reqs)
  <2>1. u.formError \in OwnOrNone /\ DeskFields \subseteq DOMAIN u
    BY <1>3 DEF NoMessage, OwnOrNone, DeskFields, GroupUi
  <2> QED BY <1>1, <1>3, <2>1, DeskKept
<1> DEFINE s == resetCatalogue(u, reqs)
           o == opened(s.ui, s.reqs)
<1>5. /\ DeskPart(s.ui, s.reqs) /\ From(s.reqs, reqs)
      /\ KeepsBut(u, s.ui, {"byId", "rateLimited", "run", "pressed"})
  BY <1>4, DeskResets
<1>6. ui' = o.ui /\ reqs' = o.reqs /\ srv' = srv
  BY DEF groupOpened, Apply
<1> HIDE DEF s
<1>7. NoMessage(s.ui)
  BY <1>3, <1>5 DEF KeepsBut, GroupUi, NoMessage
<1>8. /\ DeskPart(o.ui, o.reqs) /\ From(o.reqs, s.reqs)
      /\ KeepsBut(s.ui, o.ui, {"open", "saving", "formError", "budget"})
      /\ Lane(o.reqs, "create") = {}
  BY <1>5, <1>7, DeskOpens
<1> HIDE DEF o
<1>9. From(reqs', reqs) /\ Lane(reqs', "create") = {} /\ DeskPart(ui', reqs')
  BY <1>5, <1>6, <1>8, FromFrom
<1>10. /\ DOMAIN ui' = GroupUi /\ ui'.page = "groups" /\ ui'.form = u.form
       /\ ui'.confirmEmpty = FALSE /\ ui'.confirmBlocks = FALSE /\ ui'.answered = ui.answered
  BY <1>3, <1>5, <1>6, <1>8 DEF KeepsBut, GroupUi
<1>11. ConfirmPart(ui')
  BY <1>1, <1>10, NoConfirm
<1>12. \A x \in reqs' : GroupReq(x, srv, ui'.form)
  BY <1>1, <1>9, GroupReqsOthers
<1> QED BY <1>1, <1>6, <1>9, <1>10, <1>11, <1>12 DEF GroupInv, GroupOk

LEMMA BlankForm == GroupFormOk(blankGroupForm)
BY DEF GroupFormOk, blankGroupForm, blankFilterForm, FilterForm, Modes

\* A readable filter has one of the three modes.
LEMMA ParsedForm ==
    ASSUME NEW raw
    PROVE  /\ DOMAIN parseToolFilter(raw).form = DOMAIN blankFilterForm
           /\ parseToolFilter(raw).form.mode \in Modes
BY DEF parseToolFilter, blankFilterForm, FilterForm, Modes

LEMMA SeededForm == ASSUME NEW g PROVE GroupFormOk(formFromGroup(g))
<1> DEFINE stored == parseToolFilter(g.tool_filter)
<1>1. /\ DOMAIN stored.form = DOMAIN blankFilterForm /\ stored.form.mode \in Modes
  BY ParsedForm
<1> HIDE DEF stored
<1>2. formFromGroup(g) = [blankGroupForm EXCEPT
            !.name = g.name, !.upstream_ids = g.upstream_ids,
            !.filter = stored.form,
            !.filterUnreadable = stored.kind = "unreadable"]
  BY DEF formFromGroup, stored
<1> QED BY <1>1, <1>2 DEF GroupFormOk, blankGroupForm

LEMMA GroupOpens ==
    ASSUME GroupInv, NEW g, openCreateGroup \/ openEditGroup(g)
    PROVE  GroupInv'
<1>1. DOMAIN ui = GroupUi /\ ~ui.open
  BY GroupIs DEF openCreateGroup, openEditGroup, GroupTable
<1>2. CASE openCreateGroup
  <2>1. PICK u : u = [ui EXCEPT !.editing = NoRow, !.formError = "", !.form = blankGroupForm]
    OBVIOUS
  <2>2. groupOpened(u)
    BY <1>2, <2>1 DEF openCreateGroup
  <2>3. /\ KeepsBut(ui, u, {"editing", "formError", "form"}) /\ NoMessage(u)
        /\ u.form = blankGroupForm
    BY <1>1, <2>1 DEF KeepsBut, NoMessage, GroupUi
  <2> QED BY <1>1, <2>2, <2>3, BlankForm, GroupOpened
<1>3. CASE openEditGroup(g)
  <2>1. PICK u : u = [ui EXCEPT !.editing = g, !.formError = "", !.form = formFromGroup(g)]
    OBVIOUS
  <2>2. groupOpened(u)
    BY <1>3, <2>1 DEF openEditGroup
  <2>3. /\ KeepsBut(ui, u, {"editing", "formError", "form"}) /\ NoMessage(u)
        /\ u.form = formFromGroup(g)
    BY <1>1, <2>1 DEF KeepsBut, NoMessage, GroupUi
  <2> QED BY <1>1, <2>2, <2>3, SeededForm, GroupOpened
<1> QED BY <1>2, <1>3

LEMMA GroupCloses ==
    ASSUME GroupInv, closeGroup \/ cancelConfirm
    PROVE  GroupInv'
<1>1. /\ ui.page = "groups" /\ DOMAIN ui = GroupUi /\ DeskPart(ui, reqs) /\ Distinct(srv)
      /\ GroupFormOk(ui.form) /\ \A r \in reqs : GroupReq(r, srv, ui.form)
      /\ ReqsOk(reqs) /\ ui.open \in BOOLEAN /\ ui.formError \in OwnOrNone
      /\ ui.upstreams \subseteq Upstreams /\ DOMAIN ui.answered = {"empty", "blocks"}
  BY GroupIs
<1>2. /\ reqs' = reqs /\ srv' = srv /\ DOMAIN ui' = GroupUi /\ ui'.page = "groups"
      /\ ui'.open \in BOOLEAN /\ ui'.formError = ui.formError /\ ui'.upstreams = ui.upstreams
      /\ ui'.saving = ui.saving /\ ui'.byId = ui.byId /\ ui'.run = ui.run
      /\ ui'.pressed = ui.pressed /\ ui'.form = ui.form /\ ui'.answered = ui.answered
      /\ ui'.confirmEmpty = FALSE /\ ui'.confirmBlocks = FALSE
  BY <1>1 DEF closeGroup, cancelConfirm, Apply, GroupClosed, GroupUi
<1>3. DeskPart(ui', reqs')
  <2>1. DeskFields \subseteq DOMAIN ui'
    BY <1>2 DEF DeskFields, GroupUi
  <2> QED BY <1>1, <1>2, <2>1, DeskKept
<1>4. ConfirmPart(ui')
  BY <1>1, <1>2, NoConfirm
<1> QED BY <1>1, <1>2, <1>3, <1>4 DEF GroupInv, GroupOk

\* No input takes Replace filter back (tool-filter-fields.tsx).
LEMMA FormEdited ==
    ASSUME NEW f, NEW c, NEW g \in GroupFields(f, c), GroupFormOk(f)
    PROVE  GroupFormOk(g) /\ (f.filterReplace => g.filterReplace)
<1>1. DOMAIN f = {"name", "upstream_ids", "filter", "filterUnreadable", "filterReplace",
                  "filterChosen"}
  BY DEF GroupFormOk, blankGroupForm
<1>2. DOMAIN f.filter = {"mode", "tools", "prefixes"} /\ f.filter.mode \in Modes
  BY DEF GroupFormOk, blankFilterForm, FilterForm
<1> DEFINE Good(h) == GroupFormOk(h) /\ (f.filterReplace => h.filterReplace)
<1>3. \A e, on : Good(ToolsSet(f, e, on)) /\ Good(PrefixesSet(f, e, on))
  BY <1>1, <1>2 DEF ToolsSet, PrefixesSet, GroupFormOk, blankGroupForm, blankFilterForm,
                    FilterForm
<1>4. \A m \in Modes : Good(Chosen(f, m))
  BY <1>1, <1>2 DEF Chosen, GroupFormOk, blankGroupForm, blankFilterForm, FilterForm
<1>5. Good([f EXCEPT !.filterReplace = TRUE, !.filterChosen = FALSE])
  BY <1>1, <1>2 DEF GroupFormOk, blankGroupForm, blankFilterForm, FilterForm
<1>6. \A v : Good([f EXCEPT !.name = v])
  BY <1>1, <1>2 DEF GroupFormOk, blankGroupForm, blankFilterForm, FilterForm
<1>7. \A v : Good([f EXCEPT !.upstream_ids = v])
  BY <1>1, <1>2 DEF GroupFormOk, blankGroupForm, blankFilterForm, FilterForm
<1> HIDE DEF Good
<1>8. CASE g \in ToolFilterFields(f, c)
  <2>1. \A h \in ToolEntriesEdits(f) : Good(h)
    BY <1>3 DEF ToolEntriesEdits
  <2>2. \A h \in PickerEdits(f, c) : Good(h)
    <3> DEFINE side == IF f.filter.mode = "allow" THEN "allow" ELSE "deny"
               box(m, t) == RowBox(m, t, f.filter.tools, f.filter.prefixes, side, TRUE)
               on(m, t) == ~box(m, t).ticked
               shown(m) == {x \in m.tools : box(m, x).shown /\ ~box(m, x).disabled}
               tick(m) == {ToolsSet(f, tickEntry(m.slug, t), on(m, t)) : t \in shown(m)}
               all(m) == PrefixesSet(f, wholeMemberPrefix(m.slug),
                                     wholeMemberPrefix(m.slug) \notin f.filter.prefixes)
    <3>1. PickerEdits(f, c) = {all(m) : m \in c} \cup UNION {tick(m) : m \in c}
      BY DEF PickerEdits
    <3> HIDE DEF on, shown
    <3>2. \A m \in c : Good(all(m)) /\ \A h \in tick(m) : Good(h)
      BY <1>3
    <3> HIDE DEF tick, all
    <3> QED BY <3>1, <3>2
  <2>3. \A m \in {"", "allow", "deny"} : Good(Chosen(f, m))
    BY <1>4 DEF Modes
  <2> QED BY <1>5, <1>8, <2>1, <2>2, <2>3 DEF ToolFilterFields, Good
<1>9. CASE g \notin ToolFilterFields(f, c)
  <2>1. \/ \E v \in GroupNames : g = [f EXCEPT !.name = v]
        \/ \E u \in ui.upstreams :
              g = [f EXCEPT !.upstream_ids = IF u.id \in @ THEN @ \ {u.id} ELSE @ \cup {u.id}]
    BY <1>9 DEF GroupFields
  <2>2. \/ \E v : g = [f EXCEPT !.name = v]
        \/ \E v : g = [f EXCEPT !.upstream_ids = v]
    BY <2>1
  <2> QED BY <1>6, <1>7, <2>2 DEF Good
<1> QED BY <1>8, <1>9

LEMMA GroupEdits ==
    ASSUME GroupInv, changeGroup
    PROVE  GroupInv'
<1>1. /\ ui.page = "groups" /\ DOMAIN ui = GroupUi /\ DeskPart(ui, reqs) /\ Distinct(srv)
      /\ GroupFormOk(ui.form) /\ \A r \in reqs : GroupReq(r, srv, ui.form)
      /\ ReqsOk(reqs) /\ ui.open \in BOOLEAN /\ ui.formError \in OwnOrNone
      /\ ui.upstreams \subseteq Upstreams /\ DOMAIN ui.answered = {"empty", "blocks"}
      /\ ui.confirmEmpty \in BOOLEAN /\ ui.confirmBlocks \in BOOLEAN
  BY GroupIs
<1>2. PICK f \in GroupFields(ui.form, groupCatalogue) :
         Apply([ui |-> Spend([ui EXCEPT !.form = f], "edits"), reqs |-> reqs])
  BY DEF changeGroup
<1>3. ui.confirmEmpty = FALSE /\ ui.confirmBlocks = FALSE
  BY <1>1 DEF changeGroup, GroupDialog
<1>4. /\ reqs' = reqs /\ srv' = srv /\ DOMAIN ui' = GroupUi /\ ui'.page = "groups"
      /\ ui'.open = ui.open /\ ui'.formError = ui.formError /\ ui'.upstreams = ui.upstreams
      /\ ui'.saving = ui.saving /\ ui'.byId = ui.byId /\ ui'.run = ui.run
      /\ ui'.pressed = ui.pressed /\ ui'.form = f /\ ui'.answered = ui.answered
      /\ ui'.confirmEmpty = FALSE /\ ui'.confirmBlocks = FALSE
  BY <1>1, <1>2, <1>3 DEF Apply, Spend, GroupUi
<1>5. DeskPart(ui', reqs')
  <2>1. DeskFields \subseteq DOMAIN ui'
    BY <1>4 DEF DeskFields, GroupUi
  <2> QED BY <1>1, <1>4, <2>1, DeskKept
<1>6. ConfirmPart(ui')
  BY <1>1, <1>4, NoConfirm
<1>7. GroupFormOk(f) /\ (ui.form.filterReplace => f.filterReplace)
  BY <1>1, FormEdited
<1>8. From(reqs', reqs)
  BY <1>4 DEF From, Weaker
<1>9. \A x \in reqs' : GroupReq(x, srv, f)
  BY <1>1, <1>7, <1>8, GroupReqsFrom
<1> QED BY <1>1, <1>4, <1>5, <1>6, <1>7, <1>9 DEF GroupInv, GroupOk

LEMMA GroupLoads ==
    ASSUME GroupInv, loadGroupTools
    PROVE  GroupInv'
<1>1. DeskPart(ui, reqs) /\ ui.upstreams \subseteq Upstreams /\ DOMAIN ui = GroupUi
  BY GroupIs
<1>2. {m.id : m \in groupCatalogue} \subseteq MemberIds
  BY <1>1 DEF groupCatalogue, catalogue, members, MemberIds
<1>3. PICK ids : ids \subseteq MemberIds /\ load(ids)
  BY <1>2 DEF loadGroupTools
<1>4. /\ DeskPart(ui', reqs') /\ From(reqs', reqs) /\ srv' = srv
      /\ KeepsBut(ui, ui', LoadFields)
  BY <1>1, <1>3, DeskLoads
<1>5. LoadFields \subseteq GroupCalm /\ ui'.saving = ui.saving
  BY <1>1, <1>4 DEF LoadFields, GroupCalm, KeepsBut, GroupUi
<1> QED BY <1>4, <1>5, GroupKept

LEMMA GroupDiscovers ==
    ASSUME GroupInv, NEW r \in reqs, ServeDiscover(r) \/ LandDiscover(r)
    PROVE  GroupInv'
<1>1. DeskPart(ui, reqs) /\ DOMAIN ui = GroupUi
  BY GroupIs
<1>2. /\ DeskPart(ui', reqs') /\ From(reqs', reqs) /\ srv' = srv
      /\ KeepsBut(ui, ui', LoadFields)
  BY <1>1, DeskServes, DeskLearns
<1>3. LoadFields \subseteq GroupCalm /\ ui'.saving = ui.saving
  BY <1>1, <1>2 DEF LoadFields, GroupCalm, KeepsBut, GroupUi
<1> QED BY <1>2, <1>3, GroupKept

\* A request that is neither a save nor a discovery stands in no lane of a dialog.
LEMMA SendsOther ==
    ASSUME NEW rs, NEW kind, NEW id, NEW arg, NEW ss, ReqsOk(rs),
           kind \notin Saves, kind # "discover", ss = With(rs, Request(kind, id, arg))
    PROVE  /\ ReqsOk(ss) /\ From(ss, rs) /\ Lane(ss, "create") = Lane(rs, "create")
           /\ Lane(ss, "discover") = Lane(rs, "discover")
<1>1. LaneOf(kind) # "create" /\ LaneOf(kind) # "discover"
  BY Numbers DEF LaneOf
<1>2. /\ ReqsOk(With(rs, Request(kind, id, arg)))
      /\ \A l : l # LaneOf(kind) => Lane(With(rs, Request(kind, id, arg)), l) = Lane(rs, l)
  BY Sends
<1>3. From(With(rs, Request(kind, id, arg)), rs)
  BY FromWith
<1> QED BY <1>1, <1>2, <1>3

\* The entries of a group's filter that name a tool.
Names(tools, prefixes, t, allowSide) ==
    \/ \E e \in tools : (allowSide => scoped(e)) /\ MatchToolEntry(e, t, FALSE)
    \/ \E e \in prefixes : (allowSide => scoped(e)) /\ MatchToolEntry(e, t, TRUE)

ShutsOut(f, t) == \/ f.mode = "allow" /\ ~Names(f.tools, f.prefixes, t, TRUE)
                  \/ f.mode = "deny" /\ Names(f.tools, f.prefixes, t, FALSE)

\* What the proxy makes of a group's filter alone (policy.go).
LEMMA GroupVerdict ==
    ASSUME NEW raw, NEW t
    PROVE  blockedBy(GroupAlone(raw), t) <=>
              \/ ~ValidateToolFilter(raw)
              \/ raw.shape = "object" /\ ShutsOut(raw, t)
<1> DEFINE p == GroupAlone(raw)
<1>1. /\ p.deny = {} /\ p.allow = {} /\ p.listsMalformed = FALSE /\ p.raw = raw
      /\ p.groupTarget = TRUE
  BY DEF GroupAlone, ToolRules
<1> HIDE DEF p
<1>2. \A side \in BOOLEAN : \A T, P :
         matchesAny(p, T, t, FALSE, side) \/ matchesAny(p, P, t, TRUE, side) <=> Names(T, P, t, side)
  BY <1>1 DEF matchesAny, Names
<1>3. ~matchesAny(p, {}, t, FALSE, FALSE)
  BY DEF matchesAny
<1>4. CASE raw.shape = "object"
  BY <1>1, <1>2, <1>3, <1>4 DEF blockedBy, p, ShutsOut
<1>5. CASE raw.shape # "object"
  BY <1>1, <1>2, <1>3, <1>5 DEF blockedBy, NoFilter, RawFilter, p, ShutsOut
<1> QED BY <1>4, <1>5

\* The browser calls unreadable exactly what the server refuses to decode.
LEMMA ParseAgrees ==
    ASSUME NEW raw
    PROVE  ValidateToolFilter(raw) <=> parseToolFilter(raw).kind # "unreadable"
<1>1. \A e : cleanEntry(e) <=> CleanToolEntry(e)
  BY DEF cleanEntry, CleanToolEntry, Range
<1>2. CASE raw.shape = "absent"
  BY <1>2 DEF ValidateToolFilter, parseToolFilter
<1>3. CASE raw.shape # "absent"
  <2> DEFINE entries == raw.tools \cup raw.prefixes
             unreadable == \/ raw.shape # "object"
                           \/ raw.mode \notin {"", "allow", "deny"}
                           \/ \E e \in entries : ~cleanEntry(e)
                           \/ raw.mode = "" /\ entries # {}
                           \/ raw.mode = "allow" /\ entries = {}
  <2>1. parseToolFilter(raw).kind = "unreadable" <=> unreadable
    BY <1>3 DEF parseToolFilter
  <2>2. ValidateToolFilter(raw) <=> ~unreadable
    BY <1>1, <1>3 DEF ValidateToolFilter
  <2> QED BY <2>1, <2>2
<1> QED BY <1>2, <1>3

\* The filter that a readable one's form holds.
LEMMA ParsedIs ==
    ASSUME NEW raw
    PROVE  /\ parseToolFilter(raw).kind \in {"none", "unreadable", "filter"}
           /\ parseToolFilter(raw).kind = "filter" =>
                 /\ raw.shape = "object" /\ raw.mode # ""
                 /\ parseToolFilter(raw).form = FilterForm(raw.mode, raw.tools, raw.prefixes)
           /\ parseToolFilter(raw).kind = "none" => raw.shape # "object" \/ raw.mode = ""
BY DEF parseToolFilter

\* A row the fresh read did not call stale has the filter the dialog showed, as
\* far as any call can tell (group-form.ts, groupPolicyStale).
LEMMA NotStaleSame ==
    ASSUME NEW seed, NEW fresh, ~groupPolicyStale(seed, fresh)
    PROVE  SameVerdicts(seed.tool_filter, fresh.tool_filter)
<1> DEFINE a == seed.tool_filter
           b == fresh.tool_filter
<1>1. /\ parseToolFilter(a).kind = parseToolFilter(b).kind
      /\ parseToolFilter(a).kind = "unreadable" => a = b
      /\ parseToolFilter(a).kind = "filter" =>
            sameFilter(parseToolFilter(a).form, parseToolFilter(b).form)
  BY DEF groupPolicyStale
<1> HIDE DEF a, b
<1>2. ValidateToolFilter(a) <=> ValidateToolFilter(b)
  BY <1>1, ParseAgrees
<1>3. ValidateToolFilter(a) = ValidateToolFilter(b)
  BY <1>2 DEF ValidateToolFilter
<1>4. ASSUME NEW t PROVE blockedBy(GroupAlone(a), t) <=> blockedBy(GroupAlone(b), t)
  <2>1. CASE parseToolFilter(a).kind = "unreadable"
    BY <1>1, <2>1
  <2>2. CASE parseToolFilter(a).kind = "none"
    BY <1>1, <1>2, <2>2, ParsedIs, GroupVerdict DEF ShutsOut
  <2>3. CASE parseToolFilter(a).kind = "filter"
    <3>1. /\ a.shape = "object" /\ a.mode # ""
          /\ parseToolFilter(a).form = FilterForm(a.mode, a.tools, a.prefixes)
      BY <2>3, ParsedIs
    <3>2. /\ b.shape = "object" /\ b.mode # ""
          /\ parseToolFilter(b).form = FilterForm(b.mode, b.tools, b.prefixes)
      BY <1>1, <2>3, ParsedIs
    <3>3. FilterForm(a.mode, a.tools, a.prefixes).mode = a.mode
      BY DEF FilterForm
    <3>4. FilterForm(a.mode, a.tools, a.prefixes) = FilterForm(b.mode, b.tools, b.prefixes)
      BY <1>1, <2>3, <3>1, <3>2, <3>3 DEF sameFilter
    <3>5. a.mode = b.mode /\ a.tools = b.tools /\ a.prefixes = b.prefixes
      BY <3>4 DEF FilterForm
    <3> QED BY <1>2, <3>1, <3>2, <3>5, GroupVerdict DEF ShutsOut
  <2> QED BY <2>1, <2>2, <2>3, ParsedIs
<1>5. \A t : blockedBy(GroupAlone(a), t) = blockedBy(GroupAlone(b), t)
  BY <1>4 DEF blockedBy
<1>6. SameVerdicts(a, b)
  BY <1>3, <1>5 DEF SameVerdicts
<1> QED BY <1>6 DEF a, b

\* The table, its Alert and the list.
LEMMA GroupTables ==
    ASSUME GroupInv, NEW g, closeDelete \/ remove \/ askDeleteGroup(g)
    PROVE  GroupInv'
<1>1. /\ DOMAIN ui = GroupUi /\ ReqsOk(reqs) /\ ui.open \in BOOLEAN
      /\ ui.formError \in OwnOrNone /\ ui.upstreams \subseteq Upstreams
  BY GroupIs
<1>2. /\ srv' = srv /\ KeepsBut(ui, ui', {"pendingDelete", "deleting", "deleteError", "budget"})
  BY <1>1 DEF closeDelete, remove, askDeleteGroup, Apply, Spend, KeepsBut, GroupUi
<1>3. /\ ReqsOk(reqs') /\ From(reqs', reqs) /\ Lane(reqs', "create") = Lane(reqs, "create")
      /\ Lane(reqs', "discover") = Lane(reqs, "discover")
  <2>1. CASE closeDelete \/ askDeleteGroup(g)
    <3>1. reqs' = reqs
      BY <2>1 DEF closeDelete, askDeleteGroup, Apply
    <3> QED BY <1>1, <3>1 DEF From, Weaker
  <2>2. CASE remove
    <3>1. PICK id : reqs' = With(reqs, Request("delete", id, NoRow))
      BY <2>2 DEF remove, Apply
    <3>2. "delete" \notin Saves
      BY DEF Saves
    <3> QED BY <1>1, <3>1, <3>2, SendsOther
  <2> QED BY <2>1, <2>2
<1>4. /\ ui'.open = ui.open /\ ui'.formError = ui.formError /\ ui'.upstreams = ui.upstreams
      /\ ui'.saving = ui.saving
  BY <1>1, <1>2 DEF KeepsBut, GroupUi
<1>5. DeskPart(ui', reqs')
  <2>1. KeepsBut(ui, ui', {"items", "upstreams", "error", "open", "editing", "form",
                "confirmEmpty", "confirmBlocks", "answered", "agreed", "formError",
                "pendingDelete", "deleting", "deleteError", "budget", "rateLimited"})
    BY <1>2, KeepsMore
  <2> QED BY <1>1, <1>3, <1>4, <2>1, GroupDesk
<1>6. {"pendingDelete", "deleting", "deleteError", "budget"} \subseteq GroupCalm
  BY DEF GroupCalm
<1> QED BY <1>2, <1>3, <1>4, <1>5, <1>6, GroupKept

LEMMA GroupLists ==
    ASSUME GroupInv, NEW r \in reqs, LandGroupList(r) \/ LandDelete(r)
    PROVE  GroupInv'
<1>1. /\ DOMAIN ui = GroupUi /\ ReqsOk(reqs) /\ ui.open \in BOOLEAN
      /\ ui.formError \in OwnOrNone /\ ui.upstreams \subseteq Upstreams
  BY GroupIs
<1>2. /\ srv' = srv /\ ui'.upstreams \subseteq Upstreams
      /\ KeepsBut(ui, ui', {"items", "upstreams", "error", "pendingDelete", "deleting",
                            "deleteError"})
  BY <1>1 DEF LandGroupList, LandDelete, KeepsBut, GroupUi
<1>3. r.kind \notin Saves /\ r.kind # "discover"
  BY DEF LandGroupList, LandDelete, Saves
<1>4. reqs' = reqs \ {r} \/ reqs' = Reload(reqs \ {r}, r)
  BY DEF LandGroupList, LandDelete
<1>5. /\ ReqsOk(reqs') /\ From(reqs', reqs)
      /\ Lane(reqs', "create") = Lane(reqs \ {r}, "create")
      /\ Lane(reqs', "discover") = Lane(reqs \ {r}, "discover")
  BY <1>1, <1>4, Landed
<1>6. Lane(reqs', "create") = Lane(reqs, "create") /\ Lane(reqs', "discover") = Lane(reqs, "discover")
  <2>1. LaneOf(r.kind) # "create"
    BY <1>3, Numbers
  <2> QED BY <1>3, <1>5, <2>1, PressKept DEF Lane
<1>7. ui'.open = ui.open /\ ui'.formError = ui.formError /\ ui'.saving = ui.saving
  BY <1>1, <1>2 DEF KeepsBut, GroupUi
<1>8. DeskPart(ui', reqs')
  <2>1. KeepsBut(ui, ui', {"items", "upstreams", "error", "open", "editing", "form",
                "confirmEmpty", "confirmBlocks", "answered", "agreed", "formError",
                "pendingDelete", "deleting", "deleteError", "budget", "rateLimited"})
    BY <1>2, KeepsMore
  <2> QED BY <1>1, <1>2, <1>5, <1>6, <1>7, <2>1, GroupDesk
<1>9. {"items", "upstreams", "error", "pendingDelete", "deleting", "deleteError"} \subseteq GroupCalm
  BY DEF GroupCalm
<1> QED BY <1>2, <1>5, <1>7, <1>8, <1>9, GroupKept

\* The PATCH that follows an up-to-date read.
LEMMA GroupFollows ==
    ASSUME NEW x, NEW r, NEW S, NEW f, GroupReq(r, S, f), r.kind = "read", r.st = "answered",
           r.ans.ok, ~groupPolicyStale(r.arg.seed, r.ans.row), Follows(x, r)
    PROVE  GroupReq(x, S, f)
<1>1. /\ DOMAIN r.arg = GroupArg /\ AskedFor("read", r.arg) /\ ReadFresh(r, S)
      /\ GroupReplaced(r, f)
  BY DEF GroupReq, Saves
<1>2. x.kind = "patch" /\ x.st = "sent" /\ x.mine = r.mine /\ x.id = r.id /\ x.arg = r.arg
  BY DEF Follows
<1>3. SameVerdicts(r.arg.seed.tool_filter, r.ans.row.tool_filter)
  BY NotStaleSame
<1>4. GroupPatchFresh(x, S)
  <2>1. SUFFICES ASSUME ~x.arg.raced
                 PROVE  \E g \in S : /\ g.id = x.id
                                     /\ SameVerdicts(x.arg.seed.tool_filter, g.tool_filter)
    BY DEF GroupPatchFresh
  <2>2. r.ans.row \in S /\ r.ans.row.id = r.id
    BY <1>1, <1>2, <2>1 DEF ReadFresh
  <2> QED BY <1>2, <1>3, <2>2
<1>5. ReadFresh(x, S) /\ AskedFor("patch", x.arg) /\ GroupReplaced(x, f)
  BY <1>1, <1>2 DEF ReadFresh, AskedFor, GroupReplaced
<1> QED BY <1>1, <1>2, <1>4, <1>5 DEF GroupReq

LEMMA GroupReads ==
    ASSUME GroupInv, NEW r \in reqs, r.st = "answered", LandGroupRead(r)
    PROVE  GroupInv'
<1>1. /\ ui.page = "groups" /\ DOMAIN ui = GroupUi /\ DeskPart(ui, reqs) /\ Distinct(srv)
      /\ GroupFormOk(ui.form) /\ ConfirmPart(ui)
      /\ \A q \in reqs : GroupReq(q, srv, ui.form)
  BY GroupIs
<1> DEFINE stale == groupPolicyStale(r.arg.seed, r.ans.row)
<1>2. r.kind = "read" /\ LandRead(r, stale)
  BY DEF LandGroupRead, LandRead
<1> HIDE DEF stale
<1>3. /\ DeskPart(ui', reqs') /\ srv' = srv /\ KeepsBut(ui, ui', Outcome)
      /\ (ui'.saving => ui.saving)
      /\ \A x \in reqs' : x.kind \in Saves =>
            \/ \E q \in reqs : Weaker(x, q)
            \/ r.ans.ok /\ ~stale /\ Follows(x, r)
  BY <1>1, <1>2, DeskLandsRead
<1>4. ASSUME NEW x \in reqs' PROVE GroupReq(x, srv, ui.form)
  <2>1. CASE x.kind \notin Saves
    BY <2>1 DEF GroupReq
  <2>2. ASSUME NEW q \in reqs, Weaker(x, q) PROVE GroupReq(x, srv, ui.form)
    BY <1>1, <2>2, GroupReqWeaker
  <2>3. CASE r.ans.ok /\ ~stale /\ Follows(x, r)
    BY <1>1, <1>2, <2>3, GroupFollows DEF stale
  <2> QED BY <1>3, <2>1, <2>2, <2>3
<1>5. /\ DOMAIN ui' = GroupUi /\ ui'.page = ui.page /\ ui'.open = ui.open
      /\ ui'.editing = ui.editing /\ ui'.form = ui.form
      /\ ui'.confirmEmpty = ui.confirmEmpty /\ ui'.confirmBlocks = ui.confirmBlocks
      /\ ui'.answered = ui.answered /\ ui'.agreed = ui.agreed
  BY <1>1, <1>3 DEF KeepsBut, Outcome, GroupUi
<1>6. ConfirmPart(ui')
  BY <1>1, <1>3, <1>5 DEF ConfirmPart, AgreedTo, BodyOf
<1> QED BY <1>1, <1>3, <1>4, <1>5, <1>6 DEF GroupInv, GroupOk

LEMMA GroupSaves ==
    ASSUME GroupInv, NEW r \in reqs, LandGroupSave(r)
    PROVE  GroupInv'
<1>1. /\ ui.page = "groups" /\ DOMAIN ui = GroupUi /\ DeskPart(ui, reqs) /\ Distinct(srv)
      /\ GroupFormOk(ui.form) /\ ConfirmPart(ui)
      /\ \A q \in reqs : GroupReq(q, srv, ui.form)
      /\ DOMAIN ui.answered = {"empty", "blocks"}
  BY GroupIs
<1>2. PICK took, closed :
         /\ LandSaved(r, took, closed) /\ DOMAIN took = GroupUi /\ DOMAIN closed = GroupUi
         /\ KeepsBut(ui, took, {"items", "secret"})
         /\ closed.open = FALSE /\ closed.formError = ui.formError /\ closed.saving = ui.saving
         /\ closed.byId = ui.byId /\ closed.run = ui.run /\ closed.pressed = ui.pressed
         /\ closed.upstreams = ui.upstreams /\ closed.page = ui.page
         /\ closed.answered = ui.answered /\ closed.form \in {ui.form, blankGroupForm}
         /\ closed.confirmEmpty = FALSE /\ closed.confirmBlocks = FALSE
  <2>1. CASE r.kind = "create"
    <3>1. PICK closed : closed = [GroupClosed(ui) EXCEPT !.form = blankGroupForm]
      OBVIOUS
    <3>2. LandSaved(r, ui, closed)
      BY <2>1, <3>1 DEF LandGroupSave
    <3>3. KeepsBut(ui, ui, {"items", "secret"})
      BY DEF KeepsBut
    <3>4. /\ DOMAIN closed = GroupUi
          /\ closed.open = FALSE /\ closed.formError = ui.formError /\ closed.saving = ui.saving
          /\ closed.byId = ui.byId /\ closed.run = ui.run /\ closed.pressed = ui.pressed
          /\ closed.upstreams = ui.upstreams /\ closed.page = ui.page
          /\ closed.answered = ui.answered /\ closed.form = blankGroupForm
          /\ closed.confirmEmpty = FALSE /\ closed.confirmBlocks = FALSE
      BY <1>1, <3>1 DEF GroupClosed, GroupUi
    <3> QED BY <1>1, <3>2, <3>3, <3>4
  <2>2. CASE r.kind # "create"
    <3>1. PICK took : took = [ui EXCEPT !.items = Replaced(@, r.ans.row)]
      OBVIOUS
    <3>2. PICK closed : closed = GroupClosed(took)
      OBVIOUS
    <3>3. LandSaved(r, took, closed)
      BY <2>2, <3>1, <3>2 DEF LandGroupSave
    <3>4. DOMAIN took = GroupUi /\ KeepsBut(ui, took, {"items", "secret"})
      BY <1>1, <3>1 DEF KeepsBut
    <3>5. /\ DOMAIN closed = GroupUi
          /\ closed.open = FALSE /\ closed.formError = took.formError
          /\ closed.saving = took.saving
          /\ closed.byId = took.byId /\ closed.run = took.run /\ closed.pressed = took.pressed
          /\ closed.upstreams = took.upstreams /\ closed.page = took.page
          /\ closed.answered = took.answered /\ closed.form = took.form
          /\ closed.confirmEmpty = FALSE /\ closed.confirmBlocks = FALSE
      BY <3>2, <3>4 DEF GroupClosed, GroupUi
    <3>6. /\ took.formError = ui.formError /\ took.saving = ui.saving
          /\ took.byId = ui.byId /\ took.run = ui.run /\ took.pressed = ui.pressed
          /\ took.upstreams = ui.upstreams /\ took.page = ui.page
          /\ took.answered = ui.answered /\ took.form = ui.form
      BY <1>1, <3>1 DEF GroupUi
    <3> QED BY <3>3, <3>4, <3>5, <3>6
  <2> QED BY <2>1, <2>2
<1>3. r.kind \in Saves
  BY DEF LandGroupSave, Saves
<1>4. /\ DeskPart(ui', reqs') /\ srv' = srv /\ From(reqs', reqs)
      /\ (ui'.saving => ui.saving)
      /\ \/ KeepsBut(closed, ui', Outcome) /\ Lane(reqs', "create") = {}
         \/ KeepsBut(took, ui', Outcome)
         \/ KeepsBut(ui, ui', Outcome)
  BY <1>1, <1>2, <1>3, DeskLandsSave
<1>5. CASE KeepsBut(closed, ui', Outcome) /\ Lane(reqs', "create") = {}
  <2>1. /\ DOMAIN ui' = GroupUi /\ ui'.page = "groups" /\ ui'.form = closed.form
        /\ ui'.confirmEmpty = FALSE /\ ui'.confirmBlocks = FALSE /\ ui'.answered = ui.answered
    BY <1>1, <1>2, <1>5 DEF KeepsBut, Outcome, GroupUi
  <2>2. ConfirmPart(ui')
    BY <1>1, <2>1, NoConfirm
  <2>3. GroupFormOk(ui'.form)
    BY <1>1, <1>2, <2>1, BlankForm
  <2>4. \A x \in reqs' : GroupReq(x, srv, ui'.form)
    BY <1>1, <1>4, <1>5, GroupReqsOthers
  <2> QED BY <1>1, <1>4, <2>1, <2>2, <2>3, <2>4 DEF GroupInv, GroupOk
<1>6. CASE KeepsBut(took, ui', Outcome) \/ KeepsBut(ui, ui', Outcome)
  <2>1. KeepsBut(ui, ui', GroupCalm)
    BY <1>1, <1>2, <1>6 DEF KeepsBut, Outcome, GroupCalm, GroupUi
  <2> QED BY <1>4, <2>1, GroupKept
<1> QED BY <1>4, <1>5, <1>6

\* Both sides read an entry alike (tool-entry.ts, toolfilter.go).
LEMMA EntriesAgree ==
    ASSUME NEW e, NEW t, NEW prefix
    PROVE  matchToolEntry(e, t.slug, t.name, prefix) <=> MatchToolEntry(e, t, prefix)
BY DEF matchToolEntry, MatchToolEntry

LEMMA PermitsAgree ==
    ASSUME NEW f, NEW t, f.mode \in {"allow", "deny"}
    PROVE  ~filterPermits(f, t.slug, t.name) <=> ShutsOut(f, t)
<1>1. CASE f.mode = "allow"
  <2>1. filterPermits(f, t.slug, t.name) <=>
           \/ \E e \in f.tools : scoped(e) /\ matchToolEntry(e, t.slug, t.name, FALSE)
           \/ \E e \in f.prefixes : scoped(e) /\ matchToolEntry(e, t.slug, t.name, TRUE)
    BY <1>1 DEF filterPermits
  <2> QED BY <1>1, <2>1, EntriesAgree DEF Names, ShutsOut
<1>2. CASE f.mode = "deny"
  <2>1. ~filterPermits(f, t.slug, t.name) <=>
           \/ \E e \in f.tools : matchToolEntry(e, t.slug, t.name, FALSE)
           \/ \E e \in f.prefixes : matchToolEntry(e, t.slug, t.name, TRUE)
    BY <1>2 DEF filterPermits
  <2> QED BY <1>2, <2>1, EntriesAgree DEF Names, ShutsOut
<1> QED BY <1>1, <1>2

\* A filter Save lets through is one the server can read.
LEMMA SavedReadable ==
    ASSUME NEW f, f.mode \in {"allow", "deny"}, ~filterProblem(f)
    PROVE  ValidateToolFilter(RawFilter("object", f.mode, f.tools, f.prefixes))
<1>1. \A e : cleanEntry(e) <=> CleanToolEntry(e)
  BY DEF cleanEntry, CleanToolEntry, Range
<1>2. f.tools \cup f.prefixes # {} /\ \A e \in f.tools \cup f.prefixes : cleanEntry(e)
  BY DEF filterProblem, listProblem, entryProblem
<1> DEFINE raw == RawFilter("object", f.mode, f.tools, f.prefixes)
<1>3. /\ raw.shape = "object" /\ raw.mode = f.mode /\ raw.tools = f.tools
      /\ raw.prefixes = f.prefixes
  BY DEF RawFilter
<1> HIDE DEF raw
<1>4. ValidateToolFilter(raw)
  BY <1>1, <1>2, <1>3 DEF ValidateToolFilter
<1> QED BY <1>4 DEF raw

\* The bodies a submit may send.
LEMMA PatchBody ==
    ASSUME NEW b, NEW f
    PROVE  /\ "tool_filter" \in DOMAIN groupPatchBody(b, f) <=> sendsFilter(b, f)
           /\ sendsFilter(b, f) => groupPatchBody(b, f).tool_filter = filterValue(f.filter)
<1> DEFINE D == {k \in {"name"} : trim(f.name) # b.name}
                \cup {k \in {"upstream_ids"} : f.upstream_ids # b.upstream_ids}
                \cup {k \in {"tool_filter"} : sendsFilter(b, f)}
           V == [name |-> trim(f.name), upstream_ids |-> f.upstream_ids,
                 tool_filter |-> filterValue(f.filter)]
<1>1. groupPatchBody(b, f) = [k \in D |-> V[k]]
  BY DEF groupPatchBody, Body, Restrict
<1>2. "tool_filter" \in D <=> sendsFilter(b, f)
  OBVIOUS
<1>3. V.tool_filter = filterValue(f.filter)
  OBVIOUS
<1> HIDE DEF D, V
<1> QED BY <1>1, <1>2, <1>3

LEMMA CreateBody ==
    ASSUME NEW f
    PROVE  /\ "tool_filter" \in DOMAIN groupCreateBody(f) <=> f.filter.mode # ""
           /\ f.filter.mode # "" => groupCreateBody(f).tool_filter = filterValue(f.filter)
<1> DEFINE D == {"name", "upstream_ids"} \cup {k \in {"tool_filter"} : f.filter.mode # ""}
           V == [name |-> f.name, upstream_ids |-> f.upstream_ids,
                 tool_filter |-> filterValue(f.filter)]
<1>1. groupCreateBody(f) = [k \in D |-> V[k]]
  BY DEF groupCreateBody, Body, Restrict
<1>2. "tool_filter" \in D <=> f.filter.mode # ""
  OBVIOUS
<1>3. V.tool_filter = filterValue(f.filter)
  OBVIOUS
<1> HIDE DEF D, V
<1> QED BY <1>1, <1>2, <1>3

\* A filter in the body is the form's, and Save found no fault in it.
LEMMA BodyFilter ==
    ASSUME NEW u, "tool_filter" \in DOMAIN BodyOf(u), ~groupSaveBlocked(u.editing, u.form)
    PROVE  /\ BodyOf(u).tool_filter = filterValue(u.form.filter)
           /\ ~filterProblem(u.form.filter)
<1>1. CASE u.editing = NoRow
  BY <1>1, CreateBody DEF BodyOf, groupSaveBlocked
<1>2. CASE u.editing # NoRow
  BY <1>2, PatchBody DEF BodyOf, groupSaveBlocked
<1> QED BY <1>1, <1>2

\* A filter by which the proxy would refuse all that is listed is one the dialog
\* asks about (catalogue.ts, blocksEverything).
LEMMA RefusedAsks ==
    ASSUME NEW u, GroupFormOk(u.form), ~groupSaveBlocked(u.editing, u.form),
           AllRefused(BodyOf(u))
    PROVE  /\ "tool_filter" \in DOMAIN BodyOf(u) /\ BodyOf(u).tool_filter # NoFilter
           /\ blocksEverything(u.form.filter, groupCatalogue)
<1> DEFINE f == u.form.filter
           seen == Advertised({m \in groupCatalogue : m.enabled})
           raw == BodyOf(u).tool_filter
<1>1. /\ "tool_filter" \in DOMAIN BodyOf(u) /\ catalogueComplete(groupCatalogue)
      /\ seen # {} /\ \A t \in seen : blockedBy(GroupAlone(raw), t)
  BY DEF AllRefused
<1>2. raw = filterValue(f) /\ ~filterProblem(f)
  BY <1>1, BodyFilter
<1>3. f.mode \in Modes
  BY DEF GroupFormOk
<1> HIDE DEF f, seen, raw
<1>4. f.mode # ""
  <2>1. SUFFICES ASSUME f.mode = "" PROVE FALSE
    OBVIOUS
  <2>2. raw = NoFilter
    BY <1>2, <2>1 DEF filterValue
  <2>3. NoFilter.shape = "absent" /\ ValidateToolFilter(NoFilter)
    BY DEF NoFilter, RawFilter, ValidateToolFilter
  <2>4. PICK t : t \in seen
    BY <1>1
  <2>5. ~blockedBy(GroupAlone(NoFilter), t)
    BY <2>3, GroupVerdict
  <2> QED BY <1>1, <2>2, <2>4, <2>5
<1>5. f.mode \in {"allow", "deny"}
  BY <1>3, <1>4 DEF Modes
<1>6. raw = RawFilter("object", f.mode, f.tools, f.prefixes)
  BY <1>2, <1>4 DEF filterValue
<1>7. /\ raw.shape = "object" /\ raw.mode = f.mode /\ raw.tools = f.tools
      /\ raw.prefixes = f.prefixes /\ raw # NoFilter
  BY <1>6 DEF RawFilter, NoFilter
<1>8. ValidateToolFilter(raw)
  BY <1>2, <1>5, <1>6, SavedReadable
<1>9. ASSUME NEW t \in seen PROVE ~filterPermits(f, t.slug, t.name)
  <2>1. blockedBy(GroupAlone(raw), t)
    BY <1>1
  <2>2. ShutsOut(raw, t)
    BY <1>8, <2>1, GroupVerdict
  <2>3. ShutsOut(f, t)
    BY <1>7, <2>2 DEF ShutsOut
  <2>4. ~filterPermits(f, t.slug, t.name)
    BY <1>5, <2>3, PermitsAgree
  <2> QED BY <2>4
<1>10. blocksEverything(f, groupCatalogue)
  BY <1>1, <1>9 DEF blocksEverything, seen
<1> QED BY <1>1, <1>7, <1>10 DEF f, raw

\* The page u is ready to send: what ui shows, but for what a submit resets.
Ready(u) ==
    /\ KeepsBut(ui, u, {"formError", "agreed", "answered", "confirmEmpty", "confirmBlocks"})
    /\ u.formError \in OwnOrNone /\ u.confirmEmpty = FALSE /\ u.confirmBlocks = FALSE
    /\ ui.open /\ ~ui.saving /\ ~groupBlocked /\ AgreedTo(u)

LEMMA ReadyIs ==
    ASSUME GroupInv, NEW u, Ready(u)
    PROVE  /\ DOMAIN u = GroupUi /\ u.page = "groups" /\ u.open = ui.open /\ u.open
           /\ u.saving = ui.saving /\ ~u.saving /\ u.form = ui.form /\ u.editing = ui.editing
           /\ u.confirmEmpty = FALSE /\ u.confirmBlocks = FALSE /\ AgreedTo(u)
           /\ ~groupSaveBlocked(u.editing, u.form) /\ DeskPart(u, reqs)
           /\ DOMAIN u.answered = {"empty", "blocks"}
<1>1. /\ DOMAIN ui = GroupUi /\ ui.page = "groups" /\ DeskPart(ui, reqs) /\ ReqsOk(reqs)
      /\ ui.upstreams \subseteq Upstreams /\ ui.open \in BOOLEAN
  BY GroupIs
<1>2. /\ DOMAIN u = GroupUi /\ u.page = "groups" /\ u.open = ui.open /\ u.saving = ui.saving
      /\ u.form = ui.form /\ u.editing = ui.editing /\ u.upstreams = ui.upstreams
      /\ u.byId = ui.byId /\ u.run = ui.run /\ u.pressed = ui.pressed
      /\ DeskFields \subseteq DOMAIN u
  BY <1>1 DEF Ready, KeepsBut, GroupUi, DeskFields
<1>3. u.formError \in OwnOrNone
  BY DEF Ready
<1>4. DeskPart(u, reqs)
  BY <1>1, <1>2, <1>3, DeskKept
<1> QED BY <1>2, <1>4 DEF Ready, groupBlocked, AgreedTo

\* The submit stops at an Alert, or has nothing to send.
LEMMA GroupStops ==
    ASSUME GroupInv, NEW u, Ready(u), NEW v, Apply([ui |-> v, reqs |-> reqs]),
           \/ v = GroupClosed(u)
           \/ v = [u EXCEPT !.confirmEmpty = TRUE] /\ u.editing # NoRow
           \/ v = [u EXCEPT !.confirmBlocks = TRUE]
    PROVE  GroupInv'
<1>1. ui' = v /\ reqs' = reqs /\ srv' = srv
  BY DEF Apply
<1>2. /\ ReqsOk(reqs) /\ Distinct(srv) /\ GroupFormOk(ui.form)
      /\ \A r \in reqs : GroupReq(r, srv, ui.form)
  BY GroupIs
<1>3. /\ DOMAIN u = GroupUi /\ u.page = "groups" /\ u.open
      /\ ~u.saving /\ u.form = ui.form
      /\ u.confirmEmpty = FALSE /\ u.confirmBlocks = FALSE /\ AgreedTo(u)
      /\ ~groupSaveBlocked(u.editing, u.form) /\ DeskPart(u, reqs)
      /\ DOMAIN u.answered = {"empty", "blocks"} /\ u.open = ui.open /\ ui.open \in BOOLEAN
  BY ReadyIs, GroupIs
<1>4. /\ DOMAIN v = GroupUi /\ v.page = u.page /\ v.saving = u.saving /\ v.form = u.form
      /\ v.editing = u.editing /\ v.agreed = u.agreed /\ v.answered = u.answered
      /\ v.formError = u.formError /\ v.upstreams = u.upstreams /\ v.byId = u.byId
      /\ v.run = u.run /\ v.pressed = u.pressed
  <2>1. KeepsBut(u, v, {"open", "confirmEmpty", "confirmBlocks"})
    BY <1>3 DEF GroupClosed, KeepsBut
  <2> QED BY <1>3, <2>1 DEF KeepsBut, GroupUi
<1>10. \/ v.open = FALSE /\ v.confirmEmpty = FALSE /\ v.confirmBlocks = FALSE
       \/ /\ v.open = u.open /\ v.confirmEmpty = TRUE /\ v.confirmBlocks = FALSE
          /\ u.editing # NoRow
       \/ v.open = u.open /\ v.confirmEmpty = FALSE /\ v.confirmBlocks = TRUE
  BY <1>3 DEF GroupClosed, GroupUi
<1>5. BodyOf(v) = BodyOf(u)
  BY <1>4 DEF BodyOf
<1>6. AgreedTo(v)
  BY <1>3, <1>4, <1>5 DEF AgreedTo
<1>7. ConfirmPart(v)
  BY <1>3, <1>4, <1>6, <1>10 DEF ConfirmPart
<1>8. DeskPart(v, reqs)
  <2>1. /\ DeskFields \subseteq DOMAIN v /\ v.formError \in OwnOrNone
        /\ v.upstreams \subseteq Upstreams /\ v.open \in BOOLEAN
    BY <1>3, <1>4, <1>10 DEF DeskFields, GroupUi, DeskPart, SubmitPart, ShownPart
  <2> QED BY <1>2, <1>3, <1>4, <2>1, DeskKept
<1>9. GroupOk(v, reqs, srv)
  BY <1>2, <1>3, <1>4, <1>7, <1>8 DEF GroupOk
<1> QED BY <1>1, <1>9 DEF GroupInv

\* The request of a submit is one its operator agreed to.
LEMMA SendingOk ==
    ASSUME GroupInv, NEW u, Ready(u), NEW kind \in Saves, NEW x, NEW f,
           (kind # "create") => (u.editing # NoRow),
           (kind = "create") => (u.editing = NoRow),
           (kind = "patch") => ("tool_filter" \notin DOMAIN BodyOf(u)),
           (/\ kind # "create" /\ "upstream_ids" \in DOMAIN BodyOf(u)
            /\ BodyOf(u).upstream_ids = {}) => u.answered.empty,
           ~asksAboutBlocking(u, BodyOf(u)),
           x.kind = kind, x.st = "sent", x.arg = Sending(u, kind, BodyOf(u)).arg,
           f = u.form
    PROVE  GroupReq(x, srv, f)
<1> DEFINE body == BodyOf(u)
<1>1. /\ u.form = ui.form /\ AgreedTo(u) /\ ~groupSaveBlocked(u.editing, u.form)
      /\ GroupFormOk(u.form)
  BY ReadyIs, GroupIs
<1>2. x.arg = [body |-> body, seed |-> u.editing, agreed |-> u.agreed,
               blocks |-> AllRefused(body), raced |-> FALSE]
  BY DEF Sending, Request
<1>3. /\ DOMAIN x.arg = GroupArg /\ x.arg.body = body /\ x.arg.seed = u.editing
      /\ x.arg.agreed = u.agreed /\ x.arg.blocks = AllRefused(body) /\ x.arg.raced = FALSE
  BY <1>2 DEF GroupArg
<1> HIDE DEF body
<1>4. AskedFor(x.kind, x.arg)
  <2>1. CASE AllRefused(body)
    <3>1. u.answered.blocks
      BY <1>1, <2>1, RefusedAsks DEF asksAboutBlocking, body
    <3> QED BY <1>1, <1>3, <3>1 DEF AskedFor, AgreedTo, body
  <2>2. CASE ~AllRefused(body)
    BY <1>1, <1>3, <2>2 DEF AskedFor, AgreedTo, body
  <2> QED BY <2>1, <2>2
<1>5. ReadFresh(x, srv) /\ GroupPatchFresh(x, srv)
  BY <1>3 DEF ReadFresh, GroupPatchFresh, body
<1>6. GroupReplaced(x, f)
  <2>1. SUFFICES ASSUME kind # "create", "tool_filter" \in DOMAIN body,
                        ~ValidateToolFilter(u.editing.tool_filter)
                 PROVE  f.filterReplace
    BY <1>3 DEF GroupReplaced
  <2>2. sendsFilter(u.editing, u.form)
    BY <2>1, PatchBody DEF body, BodyOf
  <2>3. parseToolFilter(u.editing.tool_filter).kind = "unreadable"
    BY <2>1, ParseAgrees
  <2> QED BY <2>2, <2>3 DEF sendsFilter
<1> QED BY <1>3, <1>4, <1>5, <1>6 DEF GroupReq

LEMMA GroupSends ==
    ASSUME GroupInv, NEW u, Ready(u), NEW kind \in Saves,
           (kind # "create") => (u.editing # NoRow),
           (kind = "create") => (u.editing = NoRow),
           (kind = "patch") => ("tool_filter" \notin DOMAIN BodyOf(u)),
           (/\ kind # "create" /\ "upstream_ids" \in DOMAIN BodyOf(u)
            /\ BodyOf(u).upstream_ids = {}) => u.answered.empty,
           ~asksAboutBlocking(u, BodyOf(u)),
           Apply([ui |-> [u EXCEPT !.saving = TRUE],
                  reqs |-> With(reqs, Sending(u, kind, BodyOf(u)))])
    PROVE  GroupInv'
<1> DEFINE q == Sending(u, kind, BodyOf(u))
<1>1. PICK id, arg : q = Request(kind, id, arg)
  BY DEF Sending
<1>2. ui' = [u EXCEPT !.saving = TRUE] /\ reqs' = With(reqs, q) /\ srv' = srv
  BY DEF Apply
<1>3. q.kind = kind /\ q.st = "sent" /\ q.arg = Sending(u, kind, BodyOf(u)).arg
  BY DEF Request, Sending
<1> HIDE DEF q
<1>4. /\ ReqsOk(reqs) /\ Distinct(srv) /\ GroupFormOk(ui.form)
      /\ \A r \in reqs : GroupReq(r, srv, ui.form)
  BY GroupIs
<1>5. /\ DOMAIN u = GroupUi /\ u.page = "groups" /\ ~u.saving /\ u.form = ui.form
      /\ u.confirmEmpty = FALSE /\ u.confirmBlocks = FALSE /\ DeskPart(u, reqs)
      /\ DOMAIN u.answered = {"empty", "blocks"}
  BY ReadyIs
<1>6. DeskPart(ui', reqs')
  BY <1>1, <1>2, <1>5, DeskSends
<1>7. /\ DOMAIN ui' = GroupUi /\ ui'.page = "groups" /\ ui'.form = u.form
      /\ ui'.confirmEmpty = FALSE /\ ui'.confirmBlocks = FALSE /\ ui'.answered = u.answered
  BY <1>2, <1>5 DEF GroupUi
<1>8. ConfirmPart(ui')
  BY <1>5, <1>7, NoConfirm
<1>9. \A x \in reqs' : GroupReq(x, srv, u.form)
  <2>1. PICK x : /\ reqs' = reqs \cup {x} /\ x.kind = q.kind /\ x.arg = q.arg /\ x.st = q.st
    BY <1>2, WithAdds
  <2>2. GroupReq(x, srv, u.form)
    BY <1>3, <2>1, SendingOk
  <2> QED BY <1>4, <1>5, <2>1, <2>2
<1> QED BY <1>2, <1>4, <1>5, <1>6, <1>7, <1>8, <1>9 DEF GroupInv, GroupOk

LEMMA GroupCreates ==
    ASSUME GroupInv, NEW u, Ready(u), u.editing = NoRow, createGroup(u)
    PROVE  GroupInv'
<1>1. BodyOf(u) = groupCreateBody(u.form) /\ "create" \in Saves
  BY DEF BodyOf, Saves
<1>2. CASE asksAboutBlocking(u, BodyOf(u))
  <2>1. PICK v : v = [u EXCEPT !.confirmBlocks = TRUE]
    OBVIOUS
  <2>2. Apply([ui |-> v, reqs |-> reqs])
    BY <1>1, <1>2, <2>1 DEF createGroup
  <2> QED BY <2>1, <2>2, GroupStops
<1>3. CASE ~asksAboutBlocking(u, BodyOf(u))
  <2>1. Apply([ui |-> [u EXCEPT !.saving = TRUE],
               reqs |-> With(reqs, Sending(u, "create", BodyOf(u)))])
    BY <1>1, <1>3 DEF createGroup
  <2> QED BY <1>1, <1>3, <2>1, GroupSends
<1> QED BY <1>2, <1>3

LEMMA GroupPatches ==
    ASSUME GroupInv, NEW u, Ready(u), u.editing # NoRow, saveGroup(u)
    PROVE  GroupInv'
<1> DEFINE body == BodyOf(u)
           empties == "upstream_ids" \in DOMAIN body /\ body.upstream_ids = {}
           kind == IF "tool_filter" \in DOMAIN body THEN "read" ELSE "patch"
<1>1. body = groupPatchBody(u.editing, u.form) /\ kind \in Saves /\ kind # "create"
  BY DEF BodyOf, Saves
<1>2. \/ Apply([ui |-> GroupClosed(u), reqs |-> reqs])
      \/ Apply([ui |-> [u EXCEPT !.confirmEmpty = TRUE], reqs |-> reqs])
      \/ Apply([ui |-> [u EXCEPT !.confirmBlocks = TRUE], reqs |-> reqs])
      \/ /\ ~(empties /\ ~u.answered.empty) /\ ~asksAboutBlocking(u, body)
         /\ Apply([ui |-> [u EXCEPT !.saving = TRUE],
                   reqs |-> With(reqs, Sending(u, kind, body))])
  <2>1. CASE DOMAIN body = {}
    BY <1>1, <2>1 DEF saveGroup
  <2>2. CASE DOMAIN body # {} /\ empties /\ ~u.answered.empty
    BY <1>1, <2>2 DEF saveGroup
  <2>3. CASE DOMAIN body # {} /\ ~(empties /\ ~u.answered.empty) /\ asksAboutBlocking(u, body)
    BY <1>1, <2>3 DEF saveGroup
  <2>4. CASE DOMAIN body # {} /\ ~(empties /\ ~u.answered.empty) /\ ~asksAboutBlocking(u, body)
    BY <1>1, <2>4 DEF saveGroup
  <2> QED BY <2>1, <2>2, <2>3, <2>4
<1>3. CASE \/ Apply([ui |-> GroupClosed(u), reqs |-> reqs])
           \/ Apply([ui |-> [u EXCEPT !.confirmEmpty = TRUE], reqs |-> reqs])
           \/ Apply([ui |-> [u EXCEPT !.confirmBlocks = TRUE], reqs |-> reqs])
  BY <1>3, GroupStops
<1>4. CASE /\ ~(empties /\ ~u.answered.empty) /\ ~asksAboutBlocking(u, body)
           /\ Apply([ui |-> [u EXCEPT !.saving = TRUE],
                     reqs |-> With(reqs, Sending(u, kind, body))])
  BY <1>1, <1>4, GroupSends
<1> QED BY <1>2, <1>3, <1>4

\* Save, and the two Alerts' own buttons.
LEMMA GroupResumes ==
    ASSUME GroupInv, NEW u, Ready(u), Resumed(u)
    PROVE  GroupInv'
<1>1. u.editing = ui.editing
  BY ReadyIs
<1>2. CASE ui.editing = NoRow
  BY <1>1, <1>2, GroupCreates DEF Resumed, mode
<1>3. CASE ui.editing # NoRow
  BY <1>1, <1>3, GroupPatches DEF Resumed, mode
<1> QED BY <1>2, <1>3

LEMMA GroupSubmits ==
    ASSUME GroupInv, submitGroup \/ confirmRemoveAll \/ confirmBlocksAll
    PROVE  GroupInv'
<1>1. /\ DOMAIN ui = GroupUi /\ ConfirmPart(ui) /\ ui.open \in BOOLEAN /\ ui.saving \in BOOLEAN
      /\ ui.formError \in OwnOrNone /\ ui.confirmEmpty \in BOOLEAN /\ ui.confirmBlocks \in BOOLEAN
      /\ DOMAIN ui.answered = {"empty", "blocks"}
  BY GroupIs
<1> DEFINE K == {"formError", "agreed", "answered", "confirmEmpty", "confirmBlocks"}
<1>2. SaveBody = BodyOf(ui)
  BY DEF SaveBody, BodyOf, mode
<1>3. CASE submitGroup
  <2>1. PICK u : u = [ui EXCEPT !.formError = "", !.agreed = {},
                                !.answered = [empty |-> FALSE, blocks |-> FALSE]]
    OBVIOUS
  <2>2. Resumed(u) /\ GroupDialog /\ ~ui.saving /\ ~groupBlocked
    BY <1>3, <2>1 DEF submitGroup
  <2>3. /\ KeepsBut(ui, u, K) /\ u.formError \in OwnOrNone
        /\ u.answered = [empty |-> FALSE, blocks |-> FALSE]
        /\ u.confirmEmpty = ui.confirmEmpty /\ u.confirmBlocks = ui.confirmBlocks
    BY <1>1, <2>1 DEF KeepsBut, OwnOrNone, GroupUi
  <2>4. ui.open /\ ui.confirmEmpty = FALSE /\ ui.confirmBlocks = FALSE
    BY <1>1, <2>2 DEF GroupDialog
  <2>5. AgreedTo(u)
    BY <2>3 DEF AgreedTo
  <2>6. Ready(u)
    BY <2>2, <2>3, <2>4, <2>5 DEF Ready
  <2> QED BY <2>2, <2>6, GroupResumes
<1>4. CASE confirmRemoveAll
  <2>1. PICK u : u = [ui EXCEPT !.confirmEmpty = FALSE, !.answered.empty = TRUE,
                                !.agreed = @ \cup {<<"empty", SaveBody>>}]
    OBVIOUS
  <2>2. saveGroup(u) /\ ui.confirmEmpty
    BY <1>4, <2>1 DEF confirmRemoveAll
  <2>3. /\ ui.open /\ ~ui.saving /\ ~groupSaveBlocked(ui.editing, ui.form) /\ AgreedTo(ui)
        /\ ui.editing # NoRow /\ ui.confirmBlocks = FALSE
    BY <1>1, <2>2 DEF ConfirmPart
  <2>4. /\ KeepsBut(ui, u, K) /\ u.formError = ui.formError /\ u.editing = ui.editing
        /\ u.form = ui.form /\ u.confirmEmpty = FALSE /\ u.confirmBlocks = ui.confirmBlocks
        /\ u.answered = [ui.answered EXCEPT !.empty = TRUE]
        /\ u.agreed = ui.agreed \cup {<<"empty", SaveBody>>}
    BY <1>1, <2>1 DEF KeepsBut, GroupUi
  <2>5. BodyOf(u) = BodyOf(ui)
    BY <2>4 DEF BodyOf
  <2>6. AgreedTo(u)
    BY <1>1, <1>2, <2>3, <2>4, <2>5 DEF AgreedTo
  <2>7. Ready(u)
    BY <1>1, <2>3, <2>4, <2>6 DEF Ready, groupBlocked
  <2> QED BY <2>2, <2>3, <2>4, <2>7, GroupPatches
<1>5. CASE confirmBlocksAll
  <2>1. PICK u : u = [ui EXCEPT !.confirmBlocks = FALSE, !.answered.blocks = TRUE,
                                !.agreed = @ \cup {<<"blocks", SaveBody>>}]
    OBVIOUS
  <2>2. Resumed(u) /\ ui.confirmBlocks
    BY <1>5, <2>1 DEF confirmBlocksAll
  <2>3. /\ ui.open /\ ~ui.saving /\ ~groupSaveBlocked(ui.editing, ui.form) /\ AgreedTo(ui)
        /\ ui.confirmEmpty = FALSE
    BY <1>1, <2>2 DEF ConfirmPart
  <2>4. /\ KeepsBut(ui, u, K) /\ u.formError = ui.formError /\ u.editing = ui.editing
        /\ u.form = ui.form /\ u.confirmBlocks = FALSE /\ u.confirmEmpty = ui.confirmEmpty
        /\ u.answered = [ui.answered EXCEPT !.blocks = TRUE]
        /\ u.agreed = ui.agreed \cup {<<"blocks", SaveBody>>}
    BY <1>1, <2>1 DEF KeepsBut, GroupUi
  <2>5. BodyOf(u) = BodyOf(ui)
    BY <2>4 DEF BodyOf
  <2>6. AgreedTo(u)
    BY <1>1, <1>2, <2>3, <2>4, <2>5 DEF AgreedTo
  <2>7. Ready(u)
    BY <1>1, <2>3, <2>4, <2>6 DEF Ready, groupBlocked
  <2> QED BY <2>2, <2>7, GroupResumes
<1> QED BY <1>3, <1>4, <1>5

\* The rows change, and every save out learns of it as Raced says.
LEMMA GroupChanges ==
    ASSUME GroupInv, DeskPart(ui', reqs'), KeepsBut(ui, ui', {"budget"}), Distinct(srv'),
           \A x \in reqs' : \/ \E q \in reqs : x = Aged(q, srv')
                            \/ GroupReq(x, srv', ui.form)
    PROVE  GroupInv'
<1>1. /\ ui.page = "groups" /\ DOMAIN ui = GroupUi /\ Distinct(srv) /\ GroupFormOk(ui.form)
      /\ ConfirmPart(ui) /\ \A r \in reqs : GroupReq(r, srv, ui.form)
      /\ ReqsOk(reqs)
  BY GroupIs
<1>2. /\ DOMAIN ui' = GroupUi /\ ui'.page = ui.page /\ ui'.open = ui.open
      /\ ui'.editing = ui.editing /\ ui'.form = ui.form /\ ui'.saving = ui.saving
      /\ ui'.confirmEmpty = ui.confirmEmpty /\ ui'.confirmBlocks = ui.confirmBlocks
      /\ ui'.answered = ui.answered /\ ui'.agreed = ui.agreed
  BY <1>1 DEF KeepsBut, GroupUi
<1>3. ConfirmPart(ui')
  BY <1>1, <1>2 DEF ConfirmPart, AgreedTo, BodyOf
<1>4. ASSUME NEW x \in reqs' PROVE GroupReq(x, srv', ui.form)
  <2>1. ASSUME NEW q \in reqs, x = Aged(q, srv') PROVE GroupReq(x, srv', ui.form)
    <3>1. ReqOk(q) /\ GroupReq(q, srv, ui.form)
      BY <1>1 DEF ReqsOk
    <3>2. GroupReq(Aged(q, srv'), srv', ui.form)
      BY <1>1, <3>1, GroupReqAged
    <3> QED BY <2>1, <3>2
  <2> QED BY <2>1
<1> QED BY <1>1, <1>2, <1>3, <1>4 DEF GroupInv, GroupOk

LEMMA GroupOthers ==
    ASSUME GroupInv, OtherGroup
    PROVE  GroupInv'
<1>1. DeskPart(ui, reqs) /\ Distinct(srv)
  BY GroupIs
<1>2. ui' = Spend(ui, "others") /\ reqs' = Raced(reqs, srv')
  BY DEF OtherGroup
<1>3. DeskPart(ui', reqs') /\ KeepsBut(ui, ui', {"budget"})
  BY <1>1, <1>2, DeskRaced
<1>4. Distinct(srv')
  <2>1. PICK g \in srv : \/ srv' = srv \ {g}
                         \/ \E t : srv' = (srv \ {g}) \cup {[g EXCEPT !.tool_filter = t]}
    BY DEF OtherGroup
  <2>2. \A t : LET h == [g EXCEPT !.tool_filter = t] IN "id" \in DOMAIN h /\ h.id = g.id
    BY <1>1 DEF Distinct
  <2> QED BY <1>1, <2>1, <2>2 DEF Distinct
<1>5. \A x \in reqs' : \E q \in reqs : x = Aged(q, srv')
  BY <1>2, RacedAged
<1> QED BY <1>3, <1>4, <1>5, GroupChanges

\* One row is written, or taken out, by its id.
LEMMA DistinctPut ==
    ASSUME NEW S, Distinct(S), NEW g, "id" \in DOMAIN g
    PROVE  Distinct({x \in S : x.id # g.id} \cup {g})
BY DEF Distinct

LEMMA DeletedIs ==
    ASSUME Distinct(srv), NEW id
    PROVE  Distinct(Deleted(id).srv)
BY DEF Deleted, Distinct

LEMMA PatchedId ==
    ASSUME NEW g, NEW body, "id" \in DOMAIN g
    PROVE  "id" \in DOMAIN patchGroup(g, body)
BY DEF patchGroup

\* The admin API: ids stay a key, and a read tells the row there is.
LEMMA GroupHandled ==
    ASSUME Distinct(srv), NEW r, NEW h, h = HandledGroup(r)
    PROVE  /\ Distinct(h.srv)
           /\ (r.kind = "read" /\ h.ans.ok) => h.ans.row \in h.srv /\ h.ans.row.id = r.id
<1> DEFINE kept(ans) == [srv |-> srv, ans |-> ans]
           put(g) == [srv |-> {x \in srv : x.id # g.id} \cup {g}, ans |-> Ok(g, {})]
           free == Fresh(GroupIds, {})
           blank(i) == [id |-> i, name |-> "", upstream_ids |-> {}, tool_filter |-> NoFilter]
           new == patchGroup(blank(CHOOSE i \in free : TRUE), r.arg.body)
           old == patchGroup(Row(r.id), r.arg.body)
<1>1. "id" \in DOMAIN new
  BY PatchedId
<1>2. Listed(r.id) => Row(r.id) \in srv /\ Row(r.id).id = r.id /\ "id" \in DOMAIN Row(r.id)
  BY RowListed DEF Distinct
<1>3. Listed(r.id) => "id" \in DOMAIN old
  BY <1>2, PatchedId
<1> HIDE DEF new, old
<1>4. \A a : Distinct(kept(a).srv)
  OBVIOUS
<1>5. \A g : "id" \in DOMAIN g => Distinct(put(g).srv)
  BY DistinctPut
<1>6. CASE r.kind = "list"
  <2>1. h = kept(Ok(NoRow, srv))
    BY <1>6 DEF HandledGroup
  <2> QED BY <1>4, <1>6, <2>1
<1>7. CASE r.kind = "create"
  <2>1. h = put(new) \/ h = kept(Err(Refused))
    BY <1>7 DEF HandledGroup, new
  <2> HIDE DEF put, kept
  <2> QED BY <1>1, <1>4, <1>5, <1>7, <2>1
<1>8. CASE r.kind \notin {"list", "create"} /\ ~Listed(r.id)
  <2>1. h = kept(Err(Gone))
    BY <1>8 DEF HandledGroup
  <2>2. ~h.ans.ok
    BY <2>1 DEF Err, NoAnswer
  <2> QED BY <1>4, <2>1, <2>2
<1>9. CASE r.kind = "read" /\ Listed(r.id)
  <2>1. h = kept(Ok(Row(r.id), {}))
    BY <1>9 DEF HandledGroup
  <2>2. h.srv = srv /\ h.ans.row = Row(r.id)
    BY <2>1 DEF Ok
  <2> QED BY <1>2, <1>9, <2>2
<1>10. CASE r.kind = "patch" /\ Listed(r.id)
  <2>1. h = put(old) \/ h = kept(Err(Refused))
    BY <1>10 DEF HandledGroup, old
  <2> HIDE DEF put, kept
  <2> QED BY <1>3, <1>4, <1>5, <1>10, <2>1
<1>11. CASE r.kind \notin {"list", "create", "read", "patch"} /\ Listed(r.id)
  <2>1. h = Deleted(r.id)
    BY <1>11 DEF HandledGroup
  <2> QED BY <1>11, <2>1, DeletedIs
<1> QED BY <1>6, <1>7, <1>8, <1>9, <1>10, <1>11

\* What Serve does with an answer.
LEMMA ServedIs ==
    ASSUME NEW r \in reqs, NEW h, Serve(r, h)
    PROVE  \E a : /\ reqs' = Served(r, a, srv') /\ (ui' = ui \/ ui' = Spend(ui, "fails"))
                  /\ srv' = h.srv \/ srv' = srv
                  /\ a.ok => a = h.ans /\ srv' = h.srv
<1>1. CASE /\ ui' = ui /\ srv' = h.srv
           /\ reqs' = Raced(reqs \ {r}, h.srv) \cup {[r EXCEPT !.st = "answered", !.ans = h.ans]}
  BY <1>1 DEF Served
<1>2. CASE /\ ui' = Spend(ui, "fails") /\ srv' \in {srv, h.srv}
           /\ reqs' = Raced(reqs \ {r}, srv')
                      \cup {[r EXCEPT !.st = "answered", !.ans = Err(Network)]}
  <2>1. ~Err(Network).ok
    BY DEF Err, NoAnswer
  <2>2. reqs' = Served(r, Err(Network), srv')
    BY <1>2 DEF Served
  <2> QED BY <1>2, <2>1, <2>2
<1> QED BY <1>1, <1>2 DEF Serve

LEMMA GroupServes ==
    ASSUME GroupInv, NEW r \in reqs, ServeGroup(r)
    PROVE  GroupInv'
<1>1. /\ DeskPart(ui, reqs) /\ Distinct(srv) /\ ReqsOk(reqs)
      /\ \A q \in reqs : GroupReq(q, srv, ui.form)
  BY GroupIs
<1>2. PICK h : h = HandledGroup(r)
  OBVIOUS
<1>3. r.kind # "discover" /\ Serve(r, h)
  BY <1>2 DEF ServeGroup
<1>4. /\ Distinct(h.srv)
      /\ (r.kind = "read" /\ h.ans.ok) => h.ans.row \in h.srv /\ h.ans.row.id = r.id
  BY <1>1, <1>2, GroupHandled
<1>5. PICK a : /\ reqs' = Served(r, a, srv') /\ (ui' = ui \/ ui' = Spend(ui, "fails"))
               /\ srv' = h.srv \/ srv' = srv
               /\ a.ok => a = h.ans /\ srv' = h.srv
  BY <1>3, ServedIs
<1>6. DeskPart(ui', reqs') /\ KeepsBut(ui, ui', {"budget"})
  BY <1>1, <1>3, <1>5, DeskAnswered
<1>7. Distinct(srv')
  BY <1>1, <1>4, <1>5
<1>8. (r.kind = "read" /\ a.ok) => (a.row \in srv' /\ a.row.id = r.id)
  BY <1>4, <1>5
<1>9. GroupReq([r EXCEPT !.st = "answered", !.ans = a], srv', ui.form)
  <2>1. ReqOk(r) /\ GroupReq(r, srv, ui.form)
    BY <1>1 DEF ReqsOk
  <2> QED BY <1>8, <2>1, GroupReqAnswered
<1>10. \A x \in reqs' : \/ \E q \in reqs : x = Aged(q, srv')
                        \/ GroupReq(x, srv', ui.form)
  <2>1. Raced(reqs \ {r}, srv') = {Aged(q, srv') : q \in reqs \ {r}}
    BY RacedAged
  <2> QED BY <1>5, <1>9, <2>1 DEF Served
<1> QED BY <1>6, <1>7, <1>10, GroupChanges

LEMMA GroupStep ==
    ASSUME GroupInv, GroupNext
    PROVE  GroupInv'
<1>1. CASE GroupOperate
  <2>1. CASE openCreateGroup
    BY <2>1, GroupOpens
  <2>2. CASE closeGroup \/ cancelConfirm
    BY <2>2, GroupCloses
  <2>3. CASE changeGroup
    BY <2>3, GroupEdits
  <2>4. CASE loadGroupTools
    BY <2>4, GroupLoads
  <2>5. CASE submitGroup \/ confirmRemoveAll \/ confirmBlocksAll
    BY <2>5, GroupSubmits
  <2>6. CASE closeDelete \/ remove
    BY <2>6, GroupTables
  <2>7. ASSUME NEW g \in ui.items, openEditGroup(g) \/ askDeleteGroup(g) PROVE GroupInv'
    BY <2>7, GroupOpens, GroupTables
  <2> QED BY <1>1, <2>1, <2>2, <2>3, <2>4, <2>5, <2>6, <2>7 DEF GroupOperate
<1>2. CASE GroupLand
  <2>1. PICK r \in reqs : /\ r.st = "answered"
                          /\ \/ LandGroupList(r) \/ LandGroupRead(r)
                             \/ LandGroupSave(r) \/ LandDelete(r)
    BY <1>2 DEF GroupLand
  <2> QED BY <2>1, GroupLists, GroupReads, GroupSaves
<1>3. CASE OtherGroup
  BY <1>3, GroupOthers
<1>4. ASSUME NEW r \in reqs, ServeGroup(r) \/ ServeDiscover(r) \/ LandDiscover(r) PROVE GroupInv'
  BY <1>4, GroupServes, GroupDiscovers
<1> QED BY <1>1, <1>2, <1>3, <1>4 DEF GroupNext

\* A page starts with load() alone.
LEMMA StartsIdle ==
    ASSUME NEW rs, NEW id, rs = With({}, Request("list", id, NoRow))
    PROVE  /\ ReqsOk(rs) /\ Lane(rs, "create") = {} /\ Lane(rs, "discover") = {}
           /\ \A r \in rs : r.kind \notin Saves
<1>1. ReqsOk({}) /\ "list" \notin Saves /\ "list" # "discover"
  BY DEF ReqsOk, Saves
<1>2. /\ ReqsOk(rs) /\ From(rs, {}) /\ Lane(rs, "create") = Lane({}, "create")
      /\ Lane(rs, "discover") = Lane({}, "discover")
  BY <1>1, SendsOther
<1>3. Lane({}, "create") = {} /\ Lane({}, "discover") = {}
  BY DEF Lane
<1> QED BY <1>2, <1>3 DEF From

LEMMA DeskStarts ==
    ASSUME NEW u, NEW rs, ReqsOk(rs), Lane(rs, "create") = {}, Lane(rs, "discover") = {},
           DeskFields \subseteq DOMAIN u, u.open = FALSE, u.saving = FALSE,
           u.formError \in OwnOrNone, u.upstreams = {}, u.byId = EmptyCatalogue, u.run = NoRun
    PROVE  DeskPart(u, rs)
<1>1. SubmitPart(u, rs)
  BY DEF SubmitPart, LaneIs, One
<1>2. u.upstreams \subseteq Upstreams
  OBVIOUS
<1>3. ShownPart(u) /\ LoadingPart(u, {})
  BY <1>2, NothingShown
<1> QED BY <1>1, <1>3 DEF DeskPart

LEMMA GroupStarts ==
    ASSUME NEW s \in GroupScenarios, GroupInit(s)
    PROVE  GroupInv
<1>1. PICK id : reqs = With({}, Request("list", id, NoRow))
  BY DEF GroupInit
<1>2. /\ ReqsOk(reqs) /\ Lane(reqs, "create") = {} /\ Lane(reqs, "discover") = {}
      /\ \A r \in reqs : r.kind \notin Saves
  BY <1>1, StartsIdle
<1>3. /\ DOMAIN ui = GroupUi /\ ui.page = "groups" /\ ui.open = FALSE /\ ui.saving = FALSE
      /\ ui.upstreams = {} /\ ui.byId = EmptyCatalogue /\ ui.run = NoRun
      /\ ui.confirmEmpty = FALSE /\ ui.confirmBlocks = FALSE
      /\ ui.answered = [empty |-> FALSE, blocks |-> FALSE] /\ ui.form = blankGroupForm
      /\ ui.formError \in OwnOrNone
  BY DEF GroupInit, GroupUi, OwnOrNone
<1>4. DeskFields \subseteq DOMAIN ui
  BY <1>3 DEF DeskFields, GroupUi
<1>5. DeskPart(ui, reqs)
  BY <1>2, <1>3, <1>4, DeskStarts
<1>6. Distinct(srv)
  BY GroupRows DEF GroupInit, Distinct
<1>7. ConfirmPart(ui)
  BY <1>3, NoConfirm
<1>8. \A r \in reqs : GroupReq(r, srv, ui.form)
  BY <1>2 DEF GroupReq
<1> QED BY <1>3, <1>5, <1>6, <1>7, <1>8, BlankForm DEF GroupInv, GroupOk

----------------------------------------------------------------------------
(* The Virtual keys page.                                                  *)

KeyUi ==
    {"page", "items", "upstreams", "groups", "open", "editing", "saving", "error", "formError",
     "form", "byId", "rateLimited", "run", "pressed", "secret", "pendingDelete", "policyKey",
     "policy", "policyError", "budget"}

KeyForm == {"name", "target_type", "target_id", "rate_limit", "tool_allowlist", "tool_denylist",
            "listsReplace", "http_methods", "methodsReplace"}

KeyArg == {"body", "seed", "fields", "raced"}

ListsIn(body) == {k \in Lists : Sent(body, k)}

\* A PATCH of the lists that nobody overtook finds the lists its dialog showed.
KeyPatchFresh(r, S) ==
    (r.kind = "patch" /\ r.st = "sent" /\ ListsIn(r.arg.body) # {} /\ ~r.arg.raced) =>
       \E g \in S : /\ g.id = r.id /\ g.lists_malformed = r.arg.seed.lists_malformed
                    /\ \A k \in ListsIn(r.arg.body) : g[k] = r.arg.seed[k]

\* Replace the stored rules was pressed, in the dialog the save came from.
KeyReplaced(r, f) ==
    (/\ r.kind \in {"read", "patch"} /\ r.mine /\ ListsIn(r.arg.body) # {}
     /\ r.arg.seed.lists_malformed) => f.listsReplace

KeyReq(r, S, f) ==
    r.kind \in Saves => /\ DOMAIN r.arg = KeyArg
                        /\ r.kind = "read" => ListsIn(r.arg.body) \subseteq r.arg.fields
                        /\ ReadFresh(r, S) /\ KeyPatchFresh(r, S) /\ KeyReplaced(r, f)

KeyOk(u, rs, S) ==
    /\ u.page = "keys" /\ DOMAIN u = KeyUi /\ DeskPart(u, rs) /\ Distinct(S)
    /\ DOMAIN u.form = KeyForm
    /\ \A r \in rs : KeyReq(r, S, u.form)

KeyInv == KeyOk(ui, reqs, srv)

LEMMA KeyIs ==
    ASSUME KeyInv
    PROVE  /\ ui.page = "keys" /\ DOMAIN ui = KeyUi /\ DeskPart(ui, reqs) /\ Distinct(srv)
           /\ DOMAIN ui.form = KeyForm /\ \A r \in reqs : KeyReq(r, srv, ui.form)
           /\ ReqsOk(reqs) /\ ui.open \in BOOLEAN /\ ui.saving \in BOOLEAN
           /\ ui.formError \in OwnOrNone /\ ui.upstreams \subseteq Upstreams
           /\ DeskFields \subseteq DOMAIN ui
BY DEF KeyInv, KeyOk, DeskPart, SubmitPart, ShownPart

LEMMA KeyReqWeaker ==
    ASSUME NEW x, NEW r, NEW S, NEW f, NEW g, Weaker(x, r), KeyReq(r, S, f),
           x.mine => (f.listsReplace => g.listsReplace)
    PROVE  KeyReq(x, S, g)
<1>1. /\ x.kind = r.kind /\ x.st = r.st /\ x.ans = r.ans /\ x.arg = r.arg /\ x.id = r.id
      /\ x.mine => r.mine
  BY DEF Weaker
<1>2. SUFFICES ASSUME x.kind \in Saves PROVE KeyReq(x, S, g)
  BY DEF KeyReq
<1>3. /\ DOMAIN r.arg = KeyArg /\ ReadFresh(r, S) /\ KeyPatchFresh(r, S) /\ KeyReplaced(r, f)
      /\ r.kind = "read" => ListsIn(r.arg.body) \subseteq r.arg.fields
  BY <1>1, <1>2 DEF KeyReq
<1>4. ReadFresh(x, S)
  BY <1>1, <1>3 DEF ReadFresh
<1>5. KeyPatchFresh(x, S)
  BY <1>1, <1>3 DEF KeyPatchFresh
<1>6. KeyReplaced(x, g)
  BY <1>1, <1>3 DEF KeyReplaced
<1> QED BY <1>1, <1>3, <1>4, <1>5, <1>6 DEF KeyReq

LEMMA KeyReqsFrom ==
    ASSUME NEW rs, NEW ss, NEW S, NEW f, NEW g, From(ss, rs), \A r \in rs : KeyReq(r, S, f),
           Lane(ss, "create") = {} \/ (f.listsReplace => g.listsReplace)
    PROVE  \A x \in ss : KeyReq(x, S, g)
<1> SUFFICES ASSUME NEW x \in ss, x.kind \in Saves PROVE KeyReq(x, S, g)
  BY DEF KeyReq
<1>1. PICK r \in rs : Weaker(x, r)
  BY DEF From
<1>2. Lane(ss, "create") = {} => ~x.mine
  BY DEF Lane, LaneOf
<1> QED BY <1>1, <1>2, KeyReqWeaker

LEMMA KeyReqAged ==
    ASSUME Distinct(srv), NEW r, NEW now, NEW f, ReqOk(r), KeyReq(r, srv, f)
    PROVE  KeyReq(Aged(r, now), now, f)
<1> DEFINE x == Aged(r, now)
<1>1. /\ x.kind = r.kind /\ x.id = r.id /\ x.st = r.st /\ x.mine = r.mine
      /\ x.arg = (IF Overtaken(r, now) THEN [r.arg EXCEPT !.raced = TRUE] ELSE r.arg)
  BY AgedIs
<1>2. SUFFICES ASSUME x.kind \in Saves PROVE KeyReq(x, now, f)
  BY DEF KeyReq
<1>3. /\ DOMAIN r.arg = KeyArg /\ ReadFresh(r, srv) /\ KeyPatchFresh(r, srv)
      /\ KeyReplaced(r, f)
      /\ r.kind = "read" => ListsIn(r.arg.body) \subseteq r.arg.fields
  BY <1>1, <1>2 DEF KeyReq
<1>4. ReadFresh(x, now)
  BY <1>3, ReadAged DEF KeyArg
<1> HIDE DEF x
<1>5. /\ DOMAIN x.arg = KeyArg /\ x.arg.body = r.arg.body /\ x.arg.seed = r.arg.seed
      /\ x.arg.fields = r.arg.fields
      /\ Overtaken(r, now) => x.arg.raced = TRUE
  BY <1>1, <1>3 DEF KeyArg
<1>6. KeyPatchFresh(x, now)
  <2>1. SUFFICES ASSUME x.kind = "patch", x.st = "sent", ListsIn(x.arg.body) # {}, ~x.arg.raced
                 PROVE  \E g \in now :
                           /\ g.id = x.id /\ g.lists_malformed = x.arg.seed.lists_malformed
                           /\ \A k \in ListsIn(x.arg.body) : g[k] = x.arg.seed[k]
    BY DEF KeyPatchFresh
  <2>2. ~Overtaken(r, now) /\ x.arg = r.arg
    BY <1>1, <1>5, <2>1
  <2>3. PICK g \in srv : /\ g.id = r.id /\ g.lists_malformed = r.arg.seed.lists_malformed
                         /\ \A k \in ListsIn(r.arg.body) : g[k] = r.arg.seed[k]
    BY <1>1, <1>3, <2>1, <2>2 DEF KeyPatchFresh
  <2>4. g \in now
    BY <1>1, <2>1, <2>2, <2>3, NotOvertaken
  <2> QED BY <1>1, <2>2, <2>3, <2>4
<1>7. KeyReplaced(x, f)
  BY <1>1, <1>3, <1>5 DEF KeyReplaced
<1> QED BY <1>1, <1>3, <1>4, <1>5, <1>6, <1>7 DEF KeyReq

LEMMA KeyReqAnswered ==
    ASSUME NEW r, NEW a, NEW S, NEW now, NEW f, ReqOk(r), KeyReq(r, S, f),
           (r.kind = "read" /\ a.ok) => (a.row \in now /\ a.row.id = r.id)
    PROVE  KeyReq([r EXCEPT !.st = "answered", !.ans = a], now, f)
<1> DEFINE x == [r EXCEPT !.st = "answered", !.ans = a]
<1>1. /\ x.kind = r.kind /\ x.id = r.id /\ x.mine = r.mine /\ x.arg = r.arg
      /\ x.st = "answered" /\ x.ans = a
  BY DEF ReqOk, ReqFields
<1> HIDE DEF x
<1>2. ReadFresh(x, now) /\ KeyPatchFresh(x, now)
  BY <1>1 DEF ReadFresh, KeyPatchFresh
<1>3. KeyReplaced(r, f) => KeyReplaced(x, f)
  BY <1>1 DEF KeyReplaced
<1>4. KeyReq(x, now, f)
  BY <1>1, <1>2, <1>3 DEF KeyReq
<1> QED BY <1>4 DEF x

\* The dialog's form and the saves are left alone.
LEMMA KeyKept ==
    ASSUME KeyInv, NEW K, KeepsBut(ui, ui', K), "page" \notin K, "form" \notin K,
           DeskPart(ui', reqs'), srv' = srv, From(reqs', reqs)
    PROVE  KeyInv'
<1>1. /\ ui.page = "keys" /\ DOMAIN ui = KeyUi /\ Distinct(srv)
      /\ DOMAIN ui.form = KeyForm /\ \A r \in reqs : KeyReq(r, srv, ui.form)
  BY KeyIs
<1>2. DOMAIN ui' = KeyUi /\ ui'.page = ui.page /\ ui'.form = ui.form
  BY <1>1 DEF KeepsBut, KeyUi
<1>3. \A x \in reqs' : KeyReq(x, srv, ui.form)
  BY <1>1, KeyReqsFrom
<1> QED BY <1>1, <1>2, <1>3 DEF KeyInv, KeyOk

\* Everything on the page that is not the dialog's own.
Aside == {"items", "upstreams", "groups", "open", "editing", "error", "formError", "form",
          "secret", "pendingDelete", "policyKey", "policy", "policyError", "budget",
          "rateLimited"}

LEMMA KeyDesk ==
    ASSUME KeyInv, NEW u, KeepsBut(ui, u, Aside), u.open \in BOOLEAN, u.formError \in OwnOrNone,
           u.upstreams \subseteq Upstreams, NEW ss, ReqsOk(ss),
           Lane(ss, "create") = Lane(reqs, "create"),
           Lane(ss, "discover") = Lane(reqs, "discover")
    PROVE  DeskPart(u, ss)
<1>1. DeskPart(ui, reqs) /\ DOMAIN ui = KeyUi
  BY KeyIs
<1>2. /\ DeskFields \subseteq DOMAIN u /\ u.saving = ui.saving /\ u.byId = ui.byId
      /\ u.run = ui.run /\ u.pressed = ui.pressed
  BY <1>1 DEF KeepsBut, KeyUi, DeskFields, Aside
<1> QED BY <1>1, <1>2, DeskKept

\* A step beside the dialog: its form, its save and its catalogue are left alone.
LEMMA KeyBeside ==
    ASSUME KeyInv, KeepsBut(ui, ui', Aside \ {"form"}), ui'.open \in BOOLEAN,
           ui'.formError \in OwnOrNone, ui'.upstreams \subseteq Upstreams, srv' = srv,
           ReqsOk(reqs'), From(reqs', reqs), Lane(reqs', "create") = Lane(reqs, "create"),
           Lane(reqs', "discover") = Lane(reqs, "discover")
    PROVE  KeyInv'
<1>1. KeepsBut(ui, ui', Aside)
  BY DEF KeepsBut
<1>2. DeskPart(ui', reqs')
  BY <1>1, KeyDesk
<1>3. "page" \notin Aside \ {"form"} /\ "form" \notin Aside \ {"form"}
  BY DEF Aside
<1> QED BY <1>2, <1>3, KeyKept

\* The dialog, the new key and the Alert are closed, or the Alert is opened.
LEMMA KeyCloses ==
    ASSUME KeyInv, NEW vk, closeKey \/ closeSecret \/ cancelDeleteKey \/ askDeleteKey(vk)
    PROVE  KeyInv'
<1>1. /\ DOMAIN ui = KeyUi /\ ReqsOk(reqs) /\ ui.open \in BOOLEAN
      /\ ui.formError \in OwnOrNone /\ ui.upstreams \subseteq Upstreams
  BY KeyIs
<1>2. reqs' = reqs /\ srv' = srv
  BY DEF closeKey, closeSecret, cancelDeleteKey, askDeleteKey, Apply
<1>3. /\ KeepsBut(ui, ui', {"open", "secret", "pendingDelete", "budget"})
      /\ ui'.open \in {ui.open, FALSE}
  BY <1>1 DEF closeKey, closeSecret, cancelDeleteKey, askDeleteKey, Apply, Spend, KeepsBut, KeyUi
<1>4. ui'.formError = ui.formError /\ ui'.upstreams = ui.upstreams
  BY <1>1, <1>3 DEF KeepsBut, KeyUi
<1>5. KeepsBut(ui, ui', Aside \ {"form"})
  BY <1>3 DEF KeepsBut, Aside
<1>6. From(reqs', reqs)
  BY <1>2, FromItself
<1> QED BY <1>1, <1>2, <1>3, <1>4, <1>5, <1>6, KeyBeside

\* Rotate, Revoke and Delete, sent from the row.
LEMMA KeyPresses ==
    ASSUME KeyInv, NEW vk, NEW kind \in {"rotate", "revoke"}, pressKey(kind, vk) \/ removeKey
    PROVE  KeyInv'
<1>1. /\ DOMAIN ui = KeyUi /\ ReqsOk(reqs) /\ ui.open \in BOOLEAN
      /\ ui.formError \in OwnOrNone /\ ui.upstreams \subseteq Upstreams
  BY KeyIs
<1>2. srv' = srv /\ KeepsBut(ui, ui', {"budget"})
  BY <1>1 DEF pressKey, removeKey, Apply, Spend, KeepsBut, KeyUi
<1>3. PICK k : /\ k \in {"rotate", "revoke", "delete"}
               /\ \E id : reqs' = With(reqs, Request(k, id, NoRow))
  BY DEF pressKey, removeKey, Apply
<1>4. k \notin Saves /\ k # "discover"
  BY <1>3 DEF Saves
<1>5. PICK id : reqs' = With(reqs, Request(k, id, NoRow))
  BY <1>3
<1>6. /\ ReqsOk(reqs') /\ From(reqs', reqs) /\ Lane(reqs', "create") = Lane(reqs, "create")
      /\ Lane(reqs', "discover") = Lane(reqs, "discover")
  BY <1>1, <1>4, <1>5, SendsOther
<1>7. ui'.open = ui.open /\ ui'.formError = ui.formError /\ ui'.upstreams = ui.upstreams
  BY <1>1, <1>2 DEF KeepsBut, KeyUi
<1>8. KeepsBut(ui, ui', Aside \ {"form"})
  BY <1>2 DEF KeepsBut, Aside
<1> QED BY <1>1, <1>2, <1>6, <1>7, <1>8, KeyBeside

\* The Policy dialog takes its number again each time it is opened or closed.
LEMMA PolicyBumped ==
    ASSUME NEW rs, ReqsOk(rs), NEW bs, bs = Bumped(rs, {"policy"})
    PROVE  /\ ReqsOk(bs) /\ From(bs, rs) /\ Lane(bs, "create") = Lane(rs, "create")
           /\ Lane(bs, "discover") = Lane(rs, "discover")
<1>1. ReqsOk(bs)
  BY DEF Bumped, ReqsOk, ReqOk, ReqFields
<1>2. \A r \in rs : LaneOf(r.kind) \in {"create", "discover"} => r.kind \notin {"policy"}
  BY DEF LaneOf, Saves
<1>3. \A r \in rs : r.kind \in {"policy"} => [r EXCEPT !.mine = FALSE].kind = r.kind
  BY DEF ReqsOk, ReqOk, ReqFields
<1>4. ASSUME NEW l \in {"create", "discover"} PROVE Lane(bs, l) = Lane(rs, l)
  BY <1>2, <1>3 DEF Bumped, Lane
<1> QED BY <1>1, <1>4, FromBumped

LEMMA KeyPolicies ==
    ASSUME KeyInv, NEW vk, openPolicy(vk) \/ closePolicy
    PROVE  KeyInv'
<1>1. /\ DOMAIN ui = KeyUi /\ ReqsOk(reqs) /\ ui.open \in BOOLEAN
      /\ ui.formError \in OwnOrNone /\ ui.upstreams \subseteq Upstreams
  BY KeyIs
<1>2. srv' = srv /\ KeepsBut(ui, ui', {"policyKey", "policy", "policyError", "budget"})
  BY <1>1 DEF openPolicy, closePolicy, Apply, Spend, KeepsBut, KeyUi
<1>3. PICK bs : bs = Bumped(reqs, {"policy"})
  OBVIOUS
<1>4. /\ ReqsOk(bs) /\ From(bs, reqs) /\ Lane(bs, "create") = Lane(reqs, "create")
      /\ Lane(bs, "discover") = Lane(reqs, "discover")
  BY <1>1, <1>3, PolicyBumped
<1>5. reqs' = bs \/ \E id : reqs' = With(bs, Request("policy", id, NoRow))
  BY <1>3 DEF openPolicy, closePolicy, Apply
<1>6. /\ ReqsOk(reqs') /\ From(reqs', reqs) /\ Lane(reqs', "create") = Lane(reqs, "create")
      /\ Lane(reqs', "discover") = Lane(reqs, "discover")
  <2>1. CASE reqs' = bs
    BY <1>4, <2>1
  <2>2. ASSUME NEW id, reqs' = With(bs, Request("policy", id, NoRow))
        PROVE  /\ ReqsOk(reqs') /\ From(reqs', bs) /\ Lane(reqs', "create") = Lane(bs, "create")
               /\ Lane(reqs', "discover") = Lane(bs, "discover")
    <3>1. "policy" \notin Saves /\ "policy" # "discover"
      BY DEF Saves
    <3> QED BY <1>4, <2>2, <3>1, SendsOther
  <2> QED BY <1>4, <1>5, <2>1, <2>2, FromFrom
<1>7. ui'.open = ui.open /\ ui'.formError = ui.formError /\ ui'.upstreams = ui.upstreams
  BY <1>1, <1>2 DEF KeepsBut, KeyUi
<1>8. KeepsBut(ui, ui', Aside \ {"form"})
  BY <1>2 DEF KeepsBut, Aside
<1> QED BY <1>1, <1>2, <1>6, <1>7, <1>8, KeyBeside

\* The answers that end beside the dialog.
LEMMA KeyLists ==
    ASSUME KeyInv, NEW r \in reqs,
           LandKeyList(r) \/ LandPressed(r) \/ LandKeyDelete(r) \/ LandPolicy(r)
    PROVE  KeyInv'
<1>1. /\ DOMAIN ui = KeyUi /\ ReqsOk(reqs) /\ ui.open \in BOOLEAN
      /\ ui.formError \in OwnOrNone /\ ui.upstreams \subseteq Upstreams
  BY KeyIs
<1>2. /\ srv' = srv /\ ui'.upstreams \subseteq Upstreams
      /\ KeepsBut(ui, ui', {"items", "upstreams", "groups", "error", "secret", "pendingDelete",
                            "policy", "policyError"})
  <2>1. CASE LandKeyList(r)
    BY <1>1, <2>1 DEF LandKeyList, KeepsBut, KeyUi
  <2>2. CASE LandPressed(r) \/ LandKeyDelete(r)
    BY <1>1, <2>2 DEF LandPressed, LandKeyDelete, Apply, KeepsBut, KeyUi
  <2>3. CASE LandPolicy(r)
    BY <1>1, <2>3 DEF LandPolicy, Apply, KeepsBut, KeyUi
  <2> QED BY <2>1, <2>2, <2>3
<1>3. r.kind \notin Saves /\ r.kind # "discover"
  BY DEF LandKeyList, LandPressed, LandKeyDelete, LandPolicy, Saves
<1>4. \/ reqs' = reqs \ {r}
      \/ reqs' = Reload(reqs \ {r}, r)
      \/ reqs' = Relisted(reqs \ {r})
  BY DEF LandKeyList, LandPressed, LandKeyDelete, LandPolicy, Apply, Relisted
<1>5. /\ ReqsOk(reqs') /\ From(reqs', reqs)
      /\ Lane(reqs', "create") = Lane(reqs \ {r}, "create")
      /\ Lane(reqs', "discover") = Lane(reqs \ {r}, "discover")
  BY <1>1, <1>4, Landed
<1>6. Lane(reqs', "create") = Lane(reqs, "create") /\ Lane(reqs', "discover") = Lane(reqs, "discover")
  <2>1. LaneOf(r.kind) # "create"
    BY <1>3, Numbers
  <2> QED BY <1>3, <1>5, <2>1, PressKept DEF Lane
<1>7. ui'.open = ui.open /\ ui'.formError = ui.formError
  BY <1>1, <1>2 DEF KeepsBut, KeyUi
<1>8. KeepsBut(ui, ui', Aside \ {"form"})
  BY <1>2 DEF KeepsBut, Aside
<1> QED BY <1>1, <1>2, <1>5, <1>6, <1>7, <1>8, KeyBeside

\* openCreate and openEdit of a key.
LEMMA KeyOpened ==
    ASSUME KeyInv, NEW u, KeepsBut(ui, u, {"editing", "form"}), DOMAIN u.form = KeyForm,
           keyOpened(u)
    PROVE  KeyInv'
<1>1. /\ ui.page = "keys" /\ DOMAIN ui = KeyUi /\ DeskPart(ui, reqs) /\ Distinct(srv)
      /\ \A r \in reqs : KeyReq(r, srv, ui.form)
      /\ ReqsOk(reqs) /\ ui.open \in BOOLEAN /\ ui.upstreams \subseteq Upstreams
  BY KeyIs
<1>2. PICK v : v = [u EXCEPT !.formError = ""]
  OBVIOUS
<1>3. DOMAIN u = KeyUi
  BY <1>1 DEF KeepsBut
<1>4. KeepsBut(u, v, {"formError"}) /\ NoMessage(v)
  BY <1>2, <1>3 DEF KeepsBut, NoMessage, KeyUi
<1>5. /\ KeepsBut(ui, v, {"editing", "form", "formError"}) /\ v.form = u.form
      /\ v.formError \in OwnOrNone /\ DOMAIN v = KeyUi
  BY <1>1, <1>3, <1>4 DEF KeepsBut, NoMessage, OwnOrNone, KeyUi
<1>6. /\ v.open = ui.open /\ v.upstreams = ui.upstreams /\ v.page = "keys"
      /\ KeepsBut(ui, v, Aside)
  BY <1>1, <1>5 DEF KeepsBut, KeyUi, Aside
<1>7. DeskPart(v, reqs)
  BY <1>1, <1>5, <1>6, KeyDesk
<1> DEFINE s == resetCatalogue(v, reqs)
           o == opened(s.ui, s.reqs)
<1>8. /\ DeskPart(s.ui, s.reqs) /\ From(s.reqs, reqs)
      /\ KeepsBut(v, s.ui, {"byId", "rateLimited", "run", "pressed"})
  BY <1>7, DeskResets
<1>9. ui' = o.ui /\ reqs' = o.reqs /\ srv' = srv
  BY <1>2 DEF keyOpened, Apply
<1> HIDE DEF s
<1>10. NoMessage(s.ui)
  BY <1>4, <1>5, <1>8 DEF KeepsBut, KeyUi, NoMessage
<1>11. /\ DeskPart(o.ui, o.reqs) /\ From(o.reqs, s.reqs)
       /\ KeepsBut(s.ui, o.ui, {"open", "saving", "formError", "budget"})
       /\ Lane(o.reqs, "create") = {}
  BY <1>8, <1>10, DeskOpens
<1> HIDE DEF o
<1>12. From(reqs', reqs) /\ Lane(reqs', "create") = {} /\ DeskPart(ui', reqs')
  BY <1>8, <1>9, <1>11, FromFrom
<1>13. DOMAIN ui' = KeyUi /\ ui'.page = "keys" /\ ui'.form = u.form
  BY <1>5, <1>6, <1>8, <1>9, <1>11 DEF KeepsBut, KeyUi
<1>14. \A x \in reqs' : KeyReq(x, srv, ui'.form)
  BY <1>1, <1>12, KeyReqsFrom
<1> QED BY <1>1, <1>9, <1>12, <1>13, <1>14 DEF KeyInv, KeyOk

LEMMA KeyBlank == DOMAIN blankVirtualKeyForm = KeyForm
BY DEF blankVirtualKeyForm, KeyForm

LEMMA KeyOpens ==
    ASSUME KeyInv, NEW vk, openCreateKey \/ openEditKey(vk)
    PROVE  KeyInv'
<1>1. DOMAIN ui = KeyUi
  BY KeyIs
<1>2. CASE openCreateKey
  <2>1. PICK u : u = [ui EXCEPT !.editing = NoRow, !.form = blankVirtualKeyForm]
    OBVIOUS
  <2>2. keyOpened(u)
    BY <1>2, <2>1 DEF openCreateKey
  <2>3. KeepsBut(ui, u, {"editing", "form"}) /\ u.form = blankVirtualKeyForm
    BY <1>1, <2>1 DEF KeepsBut, KeyUi
  <2> QED BY <2>2, <2>3, KeyBlank, KeyOpened
<1>3. CASE openEditKey(vk)
  <2>1. PICK u : u = [ui EXCEPT !.editing = vk, !.form = formFromVirtualKey(vk)]
    OBVIOUS
  <2>2. keyOpened(u)
    BY <1>3, <2>1 DEF openEditKey
  <2>3. KeepsBut(ui, u, {"editing", "form"}) /\ u.form = formFromVirtualKey(vk)
    BY <1>1, <2>1 DEF KeepsBut, KeyUi
  <2>4. DOMAIN formFromVirtualKey(vk) = KeyForm
    BY KeyBlank DEF formFromVirtualKey
  <2> QED BY <2>2, <2>3, <2>4, KeyOpened
<1> QED BY <1>2, <1>3

\* No input takes Replace the stored rules back (tool-list-fields.tsx).
LEMMA KeyEdited ==
    ASSUME NEW f, NEW c, NEW g \in KeyFields(f, c), DOMAIN f = KeyForm
    PROVE  DOMAIN g = KeyForm /\ (f.listsReplace => g.listsReplace)
<1> DEFINE Good(h) == DOMAIN h = KeyForm /\ (f.listsReplace => h.listsReplace)
<1>1. \A k, v : k # "listsReplace" => Good([f EXCEPT ![k] = v])
  BY DEF KeyForm
<1>2. Good([f EXCEPT !.listsReplace = TRUE])
  BY DEF KeyForm
<1>3. \A k \in Lists \cup {"name", "rate_limit", "http_methods", "methodsReplace"} :
         k # "listsReplace"
  BY DEF Lists
<1> HIDE DEF Good
<1>4. CASE \E x \in KeyTyped : g = [f EXCEPT ![x[1]] = x[2]]
  <2>1. PICK x \in KeyTyped : g = [f EXCEPT ![x[1]] = x[2]]
    BY <1>4
  <2>2. x[1] # "listsReplace"
    BY <1>3, KeyInputs
  <2> QED BY <1>1, <2>1, <2>2 DEF Good
<1>5. CASE g \in HttpMethodsFields(f)
  <2>1. \/ \E v : g = [f EXCEPT !.methodsReplace = v]
        \/ \E v : g = [f EXCEPT !.http_methods = v]
    BY <1>5 DEF HttpMethodsFields
  <2> QED BY <1>1, <2>1 DEF Good
<1>6. CASE g \in ToolListFields(f, c)
  <2>1. ASSUME NEW k \in Lists PROVE \A h \in RuleList(f, k) : Good(h)
    <3>1. \A h \in RuleList(f, k) : \E v : h = [f EXCEPT ![k] = v]
      BY DEF RuleList
    <3> QED BY <1>1, <1>3, <3>1
  <2>2. ASSUME NEW k \in Lists PROVE \A h \in PickerTicks(f, c, k) : Good(h)
    <3> DEFINE box(m, t) == RowBox(m, t, f[k], {}, Side(k), groupTarget)
               on(m, t) == ~box(m, t).ticked
               shown(m) == {x \in m.tools : box(m, x).shown /\ ~box(m, x).disabled}
               tick(m) == {[f EXCEPT ![k] = toggleEntry(@, tickEntry(m.slug, t), on(m, t))] :
                              t \in shown(m)}
    <3>1. PickerTicks(f, c, k) = UNION {tick(m) : m \in c}
      BY DEF PickerTicks
    <3> HIDE DEF on, shown
    <3>2. \A m \in c : \A h \in tick(m) : \E v : h = [f EXCEPT ![k] = v]
      OBVIOUS
    <3>3. \A m \in c : \A h \in tick(m) : Good(h)
      <4>1. k # "listsReplace"
        BY <1>3
      <4> HIDE DEF tick
      <4> QED BY <1>1, <3>2, <4>1
    <3> HIDE DEF tick
    <3> QED BY <3>1, <3>3
  <2> QED BY <1>2, <1>6, <2>1, <2>2 DEF ToolListFields, Good
<1> QED BY <1>4, <1>5, <1>6 DEF KeyFields

\* The form changes under the same saves.
LEMMA KeyRefilled ==
    ASSUME KeyInv, KeepsBut(ui, ui', {"form", "budget", "byId", "rateLimited", "run", "pressed"}),
           DeskPart(ui', reqs'), srv' = srv, From(reqs', reqs),
           DOMAIN ui'.form = KeyForm, ui.form.listsReplace => ui'.form.listsReplace
    PROVE  KeyInv'
<1>1. /\ ui.page = "keys" /\ DOMAIN ui = KeyUi /\ Distinct(srv)
      /\ \A r \in reqs : KeyReq(r, srv, ui.form)
  BY KeyIs
<1>2. DOMAIN ui' = KeyUi /\ ui'.page = ui.page
  BY <1>1 DEF KeepsBut, KeyUi
<1>3. \A x \in reqs' : KeyReq(x, srv, ui'.form)
  BY <1>1, KeyReqsFrom
<1> QED BY <1>1, <1>2, <1>3 DEF KeyInv, KeyOk

\* The page with another form, before its catalogue is touched.
LEMMA KeyTypes ==
    ASSUME KeyInv, NEW f, NEW u, u = Spend([ui EXCEPT !.form = f], "edits")
    PROVE  KeepsBut(ui, u, {"form", "budget"}) /\ u.form = f /\ DeskPart(u, reqs)
<1>1. /\ DOMAIN ui = KeyUi /\ ReqsOk(reqs) /\ ui.open \in BOOLEAN
      /\ ui.formError \in OwnOrNone /\ ui.upstreams \subseteq Upstreams
  BY KeyIs
<1>2. KeepsBut(ui, u, {"form", "budget"}) /\ u.form = f
  BY <1>1 DEF Spend, KeepsBut, KeyUi
<1>3. ui.open = u.open /\ u.formError = ui.formError /\ u.upstreams = ui.upstreams
  BY <1>1, <1>2 DEF KeepsBut, KeyUi
<1>4. KeepsBut(ui, u, Aside)
  BY <1>2 DEF KeepsBut, Aside
<1> QED BY <1>1, <1>2, <1>3, <1>4, KeyDesk

LEMMA KeyEdits ==
    ASSUME KeyInv, changeKey
    PROVE  KeyInv'
<1>1. PICK f \in KeyFields(ui.form, keyCatalogue) :
         Apply([ui |-> Spend([ui EXCEPT !.form = f], "edits"), reqs |-> reqs])
  BY DEF changeKey
<1>2. ui' = Spend([ui EXCEPT !.form = f], "edits") /\ reqs' = reqs /\ srv' = srv
  BY <1>1 DEF Apply
<1>3. KeepsBut(ui, ui', {"form", "budget"}) /\ ui'.form = f /\ DeskPart(ui', reqs)
  BY <1>2, KeyTypes
<1>4. DOMAIN f = KeyForm /\ (ui.form.listsReplace => f.listsReplace)
  BY <1>1, KeyIs, KeyEdited
<1>5. KeepsBut(ui, ui', {"form", "budget", "byId", "rateLimited", "run", "pressed"})
  BY <1>3 DEF KeepsBut
<1> QED BY <1>2, <1>3, <1>4, <1>5, FromItself, KeyRefilled

LEMMA KeyRetargets ==
    ASSUME KeyInv, retarget
    PROVE  KeyInv'
<1>1. PICK t : LET f == [ui.form EXCEPT !.target_type = t.target_type, !.target_id = t.target_id,
                                        !.tool_allowlist = {}, !.tool_denylist = {},
                                        !.http_methods = {}, !.methodsReplace = FALSE]
               IN  Apply(resetCatalogue(Spend([ui EXCEPT !.form = f], "edits"), reqs))
  BY DEF retarget
<1> DEFINE f == [ui.form EXCEPT !.target_type = t.target_type, !.target_id = t.target_id,
                                !.tool_allowlist = {}, !.tool_denylist = {},
                                !.http_methods = {}, !.methodsReplace = FALSE]
<1>2. DOMAIN f = KeyForm /\ f.listsReplace = ui.form.listsReplace
  BY KeyIs DEF KeyForm
<1> HIDE DEF f
<1>3. PICK u : u = Spend([ui EXCEPT !.form = f], "edits")
  OBVIOUS
<1>4. KeepsBut(ui, u, {"form", "budget"}) /\ u.form = f /\ DeskPart(u, reqs)
  BY <1>3, KeyTypes
<1>5. PICK c : c = resetCatalogue(u, reqs)
  OBVIOUS
<1>6. /\ DeskPart(c.ui, c.reqs) /\ From(c.reqs, reqs)
      /\ KeepsBut(u, c.ui, {"byId", "rateLimited", "run", "pressed"})
  BY <1>4, <1>5, DeskResets
<1>7. ui' = c.ui /\ reqs' = c.reqs /\ srv' = srv
  BY <1>1, <1>3, <1>5 DEF Apply, f
<1>8. /\ KeepsBut(ui, ui', {"form", "budget", "byId", "rateLimited", "run", "pressed"})
      /\ ui'.form = f
  BY <1>4, <1>6, <1>7, KeyIs DEF KeepsBut, KeyUi
<1> QED BY <1>2, <1>6, <1>7, <1>8, KeyRefilled

LEMMA KeyLoads ==
    ASSUME KeyInv, loadKeyTools
    PROVE  KeyInv'
<1>1. DeskPart(ui, reqs) /\ ui.upstreams \subseteq Upstreams /\ DOMAIN ui = KeyUi
  BY KeyIs
<1>2. {m.id : m \in keyCatalogue} \subseteq MemberIds
  BY <1>1 DEF keyCatalogue, catalogue, members, MemberIds
<1>3. PICK ids : ids \subseteq MemberIds /\ load(ids)
  BY <1>2 DEF loadKeyTools
<1>4. /\ DeskPart(ui', reqs') /\ From(reqs', reqs) /\ srv' = srv
      /\ KeepsBut(ui, ui', LoadFields)
  BY <1>1, <1>3, DeskLoads
<1>5. "page" \notin LoadFields /\ "form" \notin LoadFields
  BY DEF LoadFields
<1> QED BY <1>4, <1>5, KeyKept

LEMMA KeyDiscovers ==
    ASSUME KeyInv, NEW r \in reqs, ServeDiscover(r) \/ LandDiscover(r)
    PROVE  KeyInv'
<1>1. DeskPart(ui, reqs)
  BY KeyIs
<1>2. /\ DeskPart(ui', reqs') /\ From(reqs', reqs) /\ srv' = srv
      /\ KeepsBut(ui, ui', LoadFields)
  BY <1>1, DeskServes, DeskLearns
<1>3. "page" \notin LoadFields /\ "form" \notin LoadFields
  BY DEF LoadFields
<1> QED BY <1>2, <1>3, KeyKept

\* The PATCH carries exactly the lists that listsSent names.
LEMMA PatchedLists ==
    ASSUME NEW before, NEW f
    PROVE  ListsIn(virtualKeyPatchBody(before, f)) = listsSent(before, f)
<1>1. listsSent(before, f) \subseteq Lists
  BY DEF listsSent
<1>2. DOMAIN virtualKeyPatchBody(before, f) \cap Lists = listsSent(before, f)
  BY <1>1 DEF virtualKeyPatchBody, Restrict, Lists
<1> QED BY <1>2 DEF ListsIn, Sent

\* What a submit sends is one the invariant allows.
LEMMA KeySendingOk ==
    ASSUME NEW x, NEW e, NEW f, NEW fields, NEW body,
           fields = IF e = NoRow THEN {} ELSE listsSent(e, f),
           body = IF e = NoRow THEN virtualKeyCreateBody(f) ELSE virtualKeyPatchBody(e, f),
           x.kind = CASE e = NoRow   -> "create"
                      [] fields # {} -> "read"
                      [] OTHER       -> "patch",
           x.st = "sent",
           x.arg = [body |-> body, seed |-> e, fields |-> fields, raced |-> FALSE]
    PROVE  KeyReq(x, srv, f)
<1>1. /\ DOMAIN x.arg = KeyArg /\ x.arg.body = body /\ x.arg.seed = e
      /\ x.arg.fields = fields
  BY DEF KeyArg
<1>2. CASE e = NoRow
  <2>1. x.kind = "create"
    BY <1>2
  <2> QED BY <1>1, <2>1 DEF KeyReq, ReadFresh, KeyPatchFresh, KeyReplaced
<1>3. CASE e # NoRow
  <2>1. ListsIn(body) = fields /\ fields = listsSent(e, f)
    BY <1>3, PatchedLists
  <2>2. x.kind = IF fields # {} THEN "read" ELSE "patch"
    BY <1>3
  <2>3. ReadFresh(x, srv) /\ KeyPatchFresh(x, srv)
    BY <1>1, <2>1, <2>2 DEF ReadFresh, KeyPatchFresh
  <2>4. KeyReplaced(x, f)
    BY <1>1, <2>1 DEF KeyReplaced, listsSent
  <2> QED BY <1>1, <2>1, <2>2, <2>3, <2>4 DEF KeyReq
<1> QED BY <1>2, <1>3

LEMMA KeySubmits ==
    ASSUME KeyInv, submitKey
    PROVE  KeyInv'
<1>1. /\ ui.page = "keys" /\ DOMAIN ui = KeyUi /\ Distinct(srv) /\ DOMAIN ui.form = KeyForm
      /\ \A r \in reqs : KeyReq(r, srv, ui.form)
      /\ ReqsOk(reqs) /\ ui.open \in BOOLEAN /\ ui.upstreams \subseteq Upstreams
  BY KeyIs
<1>2. PICK u : u = [ui EXCEPT !.formError = ""]
  OBVIOUS
<1>3. /\ KeepsBut(ui, u, {"formError"}) /\ u.formError \in OwnOrNone /\ DOMAIN u = KeyUi
  BY <1>1, <1>2 DEF KeepsBut, OwnOrNone, KeyUi
<1>4. /\ u.open = ui.open /\ u.upstreams = ui.upstreams /\ u.page = "keys" /\ u.form = ui.form
      /\ u.saving = ui.saving /\ u.editing = ui.editing /\ KeepsBut(ui, u, Aside)
  BY <1>1, <1>3 DEF KeepsBut, KeyUi, Aside
<1>5. DeskPart(u, reqs)
  BY <1>1, <1>3, <1>4, KeyDesk
<1> DEFINE fields == IF ui.editing = NoRow THEN {} ELSE listsSent(ui.editing, ui.form)
           kind == CASE ui.editing = NoRow -> "create"
                     [] fields # {}        -> "read"
                     [] OTHER              -> "patch"
           arg == [body |-> KeySaveBody, seed |-> ui.editing, fields |-> fields, raced |-> FALSE]
<1>6. ~ui.saving
  BY DEF submitKey
<1>7. CASE DOMAIN KeySaveBody = {}
  <2>1. ui' = [u EXCEPT !.open = FALSE] /\ reqs' = reqs /\ srv' = srv
    BY <1>2, <1>7 DEF submitKey, Apply
  <2>2. KeepsBut(u, ui', {"open"}) /\ ui'.open = FALSE
    BY <1>3, <2>1 DEF KeepsBut, KeyUi
  <2>3. /\ KeepsBut(ui, ui', Aside \ {"form"}) /\ ui'.formError = u.formError
        /\ ui'.upstreams = ui.upstreams
    BY <1>1, <1>3, <1>4, <2>2 DEF KeepsBut, KeyUi, Aside
  <2> QED BY <1>1, <1>3, <2>1, <2>2, <2>3, FromItself, KeyBeside
<1>8. CASE DOMAIN KeySaveBody # {}
  <2>1. /\ ui' = [u EXCEPT !.saving = TRUE] /\ srv' = srv
        /\ reqs' = With(reqs, Request(kind, ui.editing.id, arg))
    BY <1>2, <1>8 DEF submitKey, Apply
  <2>2. kind \in Saves
    BY DEF Saves
  <2>3. PICK q : q = Request(kind, ui.editing.id, arg)
    OBVIOUS
  <2>4. q.kind = kind /\ q.st = "sent" /\ q.arg = arg
    BY <2>3 DEF Request
  <2>5. PICK x : /\ reqs' = reqs \cup {x} /\ x.kind = q.kind /\ x.arg = q.arg /\ x.st = q.st
    BY <2>1, <2>3, WithAdds
  <2>6. KeyReq(x, srv, ui.form)
    BY <2>4, <2>5, KeySendingOk DEF KeySaveBody
  <2> HIDE DEF kind, arg
  <2>7. DeskPart(ui', reqs')
    BY <1>4, <1>5, <1>6, <2>1, <2>2, DeskSends
  <2>8. DOMAIN ui' = KeyUi /\ ui'.page = "keys" /\ ui'.form = ui.form
    BY <1>3, <1>4, <2>1 DEF KeyUi
  <2> QED BY <1>1, <2>1, <2>5, <2>6, <2>7, <2>8 DEF KeyInv, KeyOk
<1> QED BY <1>7, <1>8

\* The PATCH that follows an up-to-date read.
LEMMA KeyFollows ==
    ASSUME NEW x, NEW r, NEW S, NEW f, KeyReq(r, S, f), r.kind = "read", r.st = "answered",
           r.ans.ok, ~keyPolicyStale(r.arg.seed, r.ans.row, r.arg.fields), Follows(x, r)
    PROVE  KeyReq(x, S, f)
<1>1. /\ DOMAIN r.arg = KeyArg /\ ListsIn(r.arg.body) \subseteq r.arg.fields
      /\ ReadFresh(r, S) /\ KeyReplaced(r, f)
  BY DEF KeyReq, Saves
<1>2. x.kind = "patch" /\ x.st = "sent" /\ x.mine = r.mine /\ x.id = r.id /\ x.arg = r.arg
  BY DEF Follows
<1>3. /\ r.arg.seed.lists_malformed = r.ans.row.lists_malformed
      /\ \A k \in r.arg.fields : r.arg.seed[k] = r.ans.row[k]
  BY DEF keyPolicyStale
<1>4. KeyPatchFresh(x, S)
  <2>1. SUFFICES ASSUME ~x.arg.raced
                 PROVE  \E g \in S :
                           /\ g.id = x.id /\ g.lists_malformed = x.arg.seed.lists_malformed
                           /\ \A k \in ListsIn(x.arg.body) : g[k] = x.arg.seed[k]
    BY DEF KeyPatchFresh
  <2>2. r.ans.row \in S /\ r.ans.row.id = r.id
    BY <1>1, <1>2, <2>1 DEF ReadFresh
  <2>3. \A k \in ListsIn(x.arg.body) : r.ans.row[k] = x.arg.seed[k]
    BY <1>1, <1>2, <1>3
  <2> QED BY <1>2, <1>3, <2>2, <2>3
<1>5. ReadFresh(x, S) /\ KeyReplaced(x, f)
  BY <1>1, <1>2 DEF ReadFresh, KeyReplaced
<1> QED BY <1>1, <1>2, <1>4, <1>5 DEF KeyReq

LEMMA KeyReads ==
    ASSUME KeyInv, NEW r \in reqs, r.st = "answered", LandKeyRead(r)
    PROVE  KeyInv'
<1>1. /\ ui.page = "keys" /\ DOMAIN ui = KeyUi /\ DeskPart(ui, reqs) /\ Distinct(srv)
      /\ DOMAIN ui.form = KeyForm /\ \A q \in reqs : KeyReq(q, srv, ui.form)
  BY KeyIs
<1> DEFINE stale == keyPolicyStale(r.arg.seed, r.ans.row, r.arg.fields)
<1>2. r.kind = "read" /\ LandRead(r, stale)
  BY DEF LandKeyRead, LandRead
<1> HIDE DEF stale
<1>3. /\ DeskPart(ui', reqs') /\ srv' = srv /\ KeepsBut(ui, ui', Outcome)
      /\ (ui'.saving => ui.saving)
      /\ \A x \in reqs' : x.kind \in Saves =>
            \/ \E q \in reqs : Weaker(x, q)
            \/ r.ans.ok /\ ~stale /\ Follows(x, r)
  BY <1>1, <1>2, DeskLandsRead
<1>4. ASSUME NEW x \in reqs' PROVE KeyReq(x, srv, ui.form)
  <2>1. CASE x.kind \notin Saves
    BY <2>1 DEF KeyReq
  <2>2. ASSUME NEW q \in reqs, Weaker(x, q) PROVE KeyReq(x, srv, ui.form)
    BY <1>1, <2>2, KeyReqWeaker
  <2>3. CASE r.ans.ok /\ ~stale /\ Follows(x, r)
    BY <1>1, <1>2, <2>3, KeyFollows DEF stale
  <2> QED BY <1>3, <2>1, <2>2, <2>3
<1>5. DOMAIN ui' = KeyUi /\ ui'.page = ui.page /\ ui'.form = ui.form
  BY <1>1, <1>3 DEF KeepsBut, Outcome, KeyUi
<1> QED BY <1>1, <1>3, <1>4, <1>5 DEF KeyInv, KeyOk

LEMMA KeySaves ==
    ASSUME KeyInv, NEW r \in reqs, LandKeySave(r)
    PROVE  KeyInv'
<1>1. /\ ui.page = "keys" /\ DOMAIN ui = KeyUi /\ DeskPart(ui, reqs) /\ Distinct(srv)
      /\ DOMAIN ui.form = KeyForm /\ \A q \in reqs : KeyReq(q, srv, ui.form)
  BY KeyIs
<1>2. PICK took : /\ took = IF r.kind = "create" THEN [ui EXCEPT !.secret = r.ans.row]
                            ELSE [ui EXCEPT !.items = Replaced(@, r.ans.row)]
  OBVIOUS
<1>3. PICK closed : closed = IF r.kind = "create"
                             THEN [took EXCEPT !.open = FALSE, !.form = blankVirtualKeyForm]
                             ELSE [took EXCEPT !.open = FALSE]
  OBVIOUS
<1>4. LandSaved(r, took, closed) /\ r.kind \in Saves
  BY <1>2, <1>3 DEF LandKeySave, Saves
<1>5. KeepsBut(ui, took, {"items", "secret"})
  BY <1>1, <1>2 DEF KeepsBut
<1>6. /\ KeepsBut(took, closed, {"open", "form"}) /\ closed.open = FALSE
      /\ closed.form \in {took.form, blankVirtualKeyForm}
  BY <1>1, <1>3, <1>5 DEF KeepsBut, KeyUi
<1>7. /\ DOMAIN closed = KeyUi /\ DOMAIN took = KeyUi
      /\ closed.formError = ui.formError /\ closed.saving = ui.saving
      /\ closed.byId = ui.byId /\ closed.run = ui.run /\ closed.pressed = ui.pressed
      /\ closed.upstreams = ui.upstreams /\ closed.page = ui.page
      /\ took.form = ui.form
  BY <1>1, <1>5, <1>6 DEF KeepsBut, KeyUi
<1>8. /\ DeskPart(ui', reqs') /\ srv' = srv /\ From(reqs', reqs)
      /\ (ui'.saving => ui.saving)
      /\ \/ KeepsBut(closed, ui', Outcome) /\ Lane(reqs', "create") = {}
         \/ KeepsBut(took, ui', Outcome)
         \/ KeepsBut(ui, ui', Outcome)
  BY <1>1, <1>4, <1>5, <1>6, <1>7, DeskLandsSave
<1>9. CASE KeepsBut(closed, ui', Outcome) /\ Lane(reqs', "create") = {}
  <2>1. DOMAIN ui' = KeyUi /\ ui'.page = "keys" /\ ui'.form = closed.form
    BY <1>1, <1>7, <1>9 DEF KeepsBut, Outcome, KeyUi
  <2>2. DOMAIN ui'.form = KeyForm
    BY <1>1, <1>6, <1>7, <2>1, KeyBlank
  <2>3. \A x \in reqs' : KeyReq(x, srv, ui'.form)
    BY <1>1, <1>8, <1>9, KeyReqsFrom
  <2> QED BY <1>1, <1>8, <2>1, <2>2, <2>3 DEF KeyInv, KeyOk
<1>10. CASE KeepsBut(took, ui', Outcome) \/ KeepsBut(ui, ui', Outcome)
  <2>1. PICK K : K = Outcome \cup {"items", "secret"}
    OBVIOUS
  <2>2. KeepsBut(ui, ui', K) /\ "page" \notin K /\ "form" \notin K
    BY <1>1, <1>5, <1>10, <2>1 DEF KeepsBut, Outcome, KeyUi
  <2> QED BY <1>8, <2>2, KeyKept
<1> QED BY <1>8, <1>9, <1>10

\* The rows change, and every save out learns of it as Raced says.
LEMMA KeyChanges ==
    ASSUME KeyInv, DeskPart(ui', reqs'), KeepsBut(ui, ui', {"budget"}), Distinct(srv'),
           \A x \in reqs' : \/ \E q \in reqs : x = Aged(q, srv')
                            \/ KeyReq(x, srv', ui.form)
    PROVE  KeyInv'
<1>1. /\ ui.page = "keys" /\ DOMAIN ui = KeyUi /\ Distinct(srv) /\ DOMAIN ui.form = KeyForm
      /\ \A r \in reqs : KeyReq(r, srv, ui.form)
      /\ ReqsOk(reqs)
  BY KeyIs
<1>2. DOMAIN ui' = KeyUi /\ ui'.page = ui.page /\ ui'.form = ui.form
  BY <1>1 DEF KeepsBut, KeyUi
<1>3. ASSUME NEW x \in reqs' PROVE KeyReq(x, srv', ui.form)
  <2>1. ASSUME NEW q \in reqs, x = Aged(q, srv') PROVE KeyReq(x, srv', ui.form)
    <3>1. ReqOk(q) /\ KeyReq(q, srv, ui.form)
      BY <1>1 DEF ReqsOk
    <3>2. KeyReq(Aged(q, srv'), srv', ui.form)
      BY <1>1, <3>1, KeyReqAged
    <3> QED BY <2>1, <3>2
  <2> QED BY <2>1
<1> QED BY <1>1, <1>2, <1>3 DEF KeyInv, KeyOk

\* A PATCH keeps the id.
LEMMA KeyPatched ==
    ASSUME NEW vk, NEW body, "id" \in DOMAIN vk
    PROVE  "id" \in DOMAIN patchVirtualKey(vk, body) /\ patchVirtualKey(vk, body).id = vk.id
BY DEF patchVirtualKey

LEMMA KeyOthers ==
    ASSUME KeyInv, OtherKey
    PROVE  KeyInv'
<1>1. DeskPart(ui, reqs) /\ Distinct(srv)
  BY KeyIs
<1>2. ui' = Spend(ui, "others") /\ reqs' = Raced(reqs, srv')
  BY DEF OtherKey
<1>3. DeskPart(ui', reqs') /\ KeepsBut(ui, ui', {"budget"})
  BY <1>1, <1>2, DeskRaced
<1>4. Distinct(srv')
  <2>1. PICK vk \in srv : \/ srv' = srv \ {vk}
                          \/ \E b : srv' = (srv \ {vk}) \cup {patchVirtualKey(vk, b)}
    BY DEF OtherKey
  <2>2. \A b : "id" \in DOMAIN patchVirtualKey(vk, b) /\ patchVirtualKey(vk, b).id = vk.id
    BY <1>1, KeyPatched DEF Distinct
  <2> QED BY <1>1, <2>1, <2>2 DEF Distinct
<1>5. \A x \in reqs' : \E q \in reqs : x = Aged(q, srv')
  BY <1>2, RacedAged
<1> QED BY <1>3, <1>4, <1>5, KeyChanges

\* The admin API: ids stay a key, and a read tells the row there is.
LEMMA KeyHandled ==
    ASSUME Distinct(srv), NEW r, NEW h, h = HandledKey(r)
    PROVE  /\ Distinct(h.srv)
           /\ (r.kind = "read" /\ h.ans.ok) => h.ans.row \in h.srv /\ h.ans.row.id = r.id
<1> DEFINE kept(ans) == [srv |-> srv, ans |-> ans]
           put(vk) == [srv |-> {x \in srv : x.id # vk.id} \cup {vk}, ans |-> Ok(vk, {})]
           free == Fresh(KeyIds, {ui.policyKey.id, ui.secret.id})
           blank == BlankKey(CHOOSE i \in free : TRUE, r.arg.body)
           new == patchVirtualKey(blank, r.arg.body)
           old == patchVirtualKey(Row(r.id), r.arg.body)
<1>1. "id" \in DOMAIN new
  <2>1. "id" \in DOMAIN blank
    BY DEF BlankKey
  <2> QED BY <2>1, KeyPatched
<1>2. Listed(r.id) => Row(r.id) \in srv /\ Row(r.id).id = r.id /\ "id" \in DOMAIN Row(r.id)
  BY RowListed DEF Distinct
<1>3. Listed(r.id) => "id" \in DOMAIN old
  BY <1>2, KeyPatched
<1> HIDE DEF new, old
<1>4. \A a : Distinct(kept(a).srv)
  OBVIOUS
<1>5. \A vk : "id" \in DOMAIN vk => Distinct(put(vk).srv)
  BY DistinctPut
<1>6. CASE r.kind = "list"
  <2>1. h = kept(Ok(NoRow, srv))
    BY <1>6 DEF HandledKey
  <2> QED BY <1>4, <1>6, <2>1
<1>7. CASE r.kind = "create"
  <2>1. h = put(new) \/ h = kept(Err(Refused))
    BY <1>7 DEF HandledKey, new
  <2> HIDE DEF put, kept
  <2> QED BY <1>1, <1>4, <1>5, <1>7, <2>1
<1>8. CASE r.kind \notin {"list", "create"} /\ ~Listed(r.id)
  <2>1. h = kept(Err(Gone))
    BY <1>8 DEF HandledKey
  <2>2. ~h.ans.ok
    BY <2>1 DEF Err, NoAnswer
  <2> QED BY <1>4, <2>1, <2>2
<1>9. CASE r.kind = "read" /\ Listed(r.id)
  <2>1. h = kept(Ok(Row(r.id), {}))
    BY <1>9 DEF HandledKey
  <2>2. h.srv = srv /\ h.ans.row = Row(r.id)
    BY <2>1 DEF Ok
  <2> QED BY <1>2, <1>9, <2>2
<1>10. CASE r.kind = "policy" /\ Listed(r.id)
  <2>1. h = kept(Ok(PolicyView(Row(r.id)), {}))
    BY <1>10 DEF HandledKey
  <2> QED BY <1>4, <1>10, <2>1
<1>11. CASE r.kind = "patch" /\ Listed(r.id)
  <2>1. h = put(old) \/ h = kept(Err(Refused))
    BY <1>11 DEF HandledKey, old
  <2> HIDE DEF put, kept
  <2> QED BY <1>3, <1>4, <1>5, <1>11, <2>1
<1>12. CASE r.kind \in {"rotate", "revoke"} /\ Listed(r.id)
  <2>1. \/ h = put([Row(r.id) EXCEPT !.secret = @ + 1, !.revoked = FALSE])
        \/ h = put([Row(r.id) EXCEPT !.revoked = TRUE])
    BY <1>12 DEF HandledKey
  <2>2. /\ "id" \in DOMAIN [Row(r.id) EXCEPT !.secret = @ + 1, !.revoked = FALSE]
        /\ "id" \in DOMAIN [Row(r.id) EXCEPT !.revoked = TRUE]
    BY <1>2, <1>12
  <2> HIDE DEF put
  <2> QED BY <1>5, <1>12, <2>1, <2>2
<1>13. CASE /\ r.kind \notin {"list", "create", "read", "policy", "patch", "rotate", "revoke"}
            /\ Listed(r.id)
  <2>1. h.srv = {x \in srv : x.id # r.id}
    BY <1>13 DEF HandledKey
  <2> QED BY <1>13, <2>1 DEF Distinct
<1> QED BY <1>6, <1>7, <1>8, <1>9, <1>10, <1>11, <1>12, <1>13

LEMMA KeyServes ==
    ASSUME KeyInv, NEW r \in reqs, ServeKey(r)
    PROVE  KeyInv'
<1>1. /\ DeskPart(ui, reqs) /\ Distinct(srv) /\ ReqsOk(reqs)
      /\ \A q \in reqs : KeyReq(q, srv, ui.form)
  BY KeyIs
<1>2. PICK h : h = HandledKey(r)
  OBVIOUS
<1>3. r.kind # "discover" /\ Serve(r, h)
  BY <1>2 DEF ServeKey
<1>4. /\ Distinct(h.srv)
      /\ (r.kind = "read" /\ h.ans.ok) => h.ans.row \in h.srv /\ h.ans.row.id = r.id
  BY <1>1, <1>2, KeyHandled
<1>5. PICK a : /\ reqs' = Served(r, a, srv') /\ (ui' = ui \/ ui' = Spend(ui, "fails"))
               /\ srv' = h.srv \/ srv' = srv
               /\ a.ok => a = h.ans /\ srv' = h.srv
  BY <1>3, ServedIs
<1>6. DeskPart(ui', reqs') /\ KeepsBut(ui, ui', {"budget"})
  BY <1>1, <1>3, <1>5, DeskAnswered
<1>7. Distinct(srv')
  BY <1>1, <1>4, <1>5
<1>8. (r.kind = "read" /\ a.ok) => (a.row \in srv' /\ a.row.id = r.id)
  BY <1>4, <1>5
<1>9. KeyReq([r EXCEPT !.st = "answered", !.ans = a], srv', ui.form)
  <2>1. ReqOk(r) /\ KeyReq(r, srv, ui.form)
    BY <1>1 DEF ReqsOk
  <2> QED BY <1>8, <2>1, KeyReqAnswered
<1>10. \A x \in reqs' : \/ \E q \in reqs : x = Aged(q, srv')
                        \/ KeyReq(x, srv', ui.form)
  <2>1. Raced(reqs \ {r}, srv') = {Aged(q, srv') : q \in reqs \ {r}}
    BY RacedAged
  <2> QED BY <1>5, <1>9, <2>1 DEF Served
<1> QED BY <1>6, <1>7, <1>10, KeyChanges

LEMMA KeyStep ==
    ASSUME KeyInv, KeyNext
    PROVE  KeyInv'
<1>1. CASE KeyOperate
  <2>1. CASE openCreateKey
    BY <2>1, KeyOpens
  <2>2. CASE closeKey \/ closeSecret \/ cancelDeleteKey
    BY <2>2, KeyCloses
  <2>3. CASE changeKey
    BY <2>3, KeyEdits
  <2>4. CASE retarget
    BY <2>4, KeyRetargets
  <2>5. CASE loadKeyTools
    BY <2>5, KeyLoads
  <2>6. CASE submitKey
    BY <2>6, KeySubmits
  <2>7. CASE removeKey
    BY <2>7, KeyPresses
  <2>8. CASE closePolicy
    BY <2>8, KeyPolicies
  <2>9. ASSUME NEW vk \in ui.items,
               \/ openEditKey(vk) \/ askDeleteKey(vk) \/ openPolicy(vk)
               \/ \E kind \in {"rotate", "revoke"} : pressKey(kind, vk)
        PROVE  KeyInv'
    BY <2>9, KeyOpens, KeyCloses, KeyPolicies, KeyPresses
  <2> QED BY <1>1, <2>1, <2>2, <2>3, <2>4, <2>5, <2>6, <2>7, <2>8, <2>9 DEF KeyOperate
<1>2. CASE KeyLand
  <2>1. PICK r \in reqs : /\ r.st = "answered"
                          /\ \/ LandKeyList(r) \/ LandKeyRead(r) \/ LandKeySave(r)
                             \/ LandPressed(r) \/ LandKeyDelete(r) \/ LandPolicy(r)
    BY <1>2 DEF KeyLand
  <2> QED BY <2>1, KeyLists, KeyReads, KeySaves
<1>3. CASE OtherKey
  BY <1>3, KeyOthers
<1>4. ASSUME NEW r \in reqs, ServeKey(r) \/ ServeDiscover(r) \/ LandDiscover(r) PROVE KeyInv'
  BY <1>4, KeyServes, KeyDiscovers
<1> QED BY <1>1, <1>2, <1>3, <1>4 DEF KeyNext

LEMMA KeyStarts ==
    ASSUME NEW s \in KeyScenarios, KeyInit(s)
    PROVE  KeyInv
<1>1. PICK id : reqs = With({}, Request("list", id, NoRow))
  BY DEF KeyInit
<1>2. /\ ReqsOk(reqs) /\ Lane(reqs, "create") = {} /\ Lane(reqs, "discover") = {}
      /\ \A r \in reqs : r.kind \notin Saves
  BY <1>1, StartsIdle
<1>3. /\ DOMAIN ui = KeyUi /\ ui.page = "keys" /\ ui.open = FALSE /\ ui.saving = FALSE
      /\ ui.upstreams = {} /\ ui.byId = EmptyCatalogue /\ ui.run = NoRun
      /\ ui.form = blankVirtualKeyForm /\ ui.formError \in OwnOrNone
  BY DEF KeyInit, KeyUi, OwnOrNone
<1>4. DeskFields \subseteq DOMAIN ui
  BY <1>3 DEF DeskFields, KeyUi
<1>5. DeskPart(ui, reqs)
  BY <1>2, <1>3, <1>4, DeskStarts
<1>6. Distinct(srv)
  BY KeyRows DEF KeyInit, Distinct
<1>7. \A r \in reqs : KeyReq(r, srv, ui.form)
  BY <1>2 DEF KeyReq
<1> QED BY <1>3, <1>5, <1>6, <1>7, KeyBlank DEF KeyInv, KeyOk

----------------------------------------------------------------------------
(* The three pages together.  One page is mounted and stays mounted.       *)

PagesInv == (On /\ UpInv) \/ (OnGroups /\ GroupInv) \/ (OnKeys /\ KeyInv)

LEMMA PagesStart == Init => PagesInv
<1>1. ASSUME NEW s \in UpScenarios, UpInit(s) PROVE On /\ UpInv
  <2>1. UpInv
    BY <1>1, UpStarts
  <2> QED BY <2>1 DEF UpInv, PageIs
<1>2. ASSUME NEW s \in GroupScenarios, GroupInit(s) PROVE OnGroups /\ GroupInv
  <2>1. GroupInv
    BY <1>2, GroupStarts
  <2> QED BY <2>1, GroupIs DEF OnGroups
<1>3. ASSUME NEW s \in KeyScenarios, KeyInit(s) PROVE OnKeys /\ KeyInv
  <2>1. KeyInv
    BY <1>3, KeyStarts
  <2> QED BY <2>1, KeyIs DEF OnKeys
<1> QED BY <1>1, <1>2, <1>3 DEF Init, PagesInv

LEMMA PagesStep == PagesInv /\ [Next]_dashVars => PagesInv'
<1> SUFFICES ASSUME PagesInv, [Next]_dashVars PROVE PagesInv'
  OBVIOUS
<1>1. /\ UpInv => On
      /\ GroupInv => OnGroups
      /\ KeyInv => OnKeys
  BY GroupIs, KeyIs DEF UpInv, PageIs, OnGroups, OnKeys
<1>2. /\ UpInv' => On'
      /\ GroupInv' => OnGroups'
      /\ KeyInv' => OnKeys'
  BY DEF UpInv, PageIs, GroupInv, GroupOk, OnGroups, KeyInv, KeyOk, OnKeys
<1>3. ~(On /\ OnGroups) /\ ~(On /\ OnKeys) /\ ~(OnGroups /\ OnKeys)
  BY DEF On, OnGroups, OnKeys
<1>4. CASE UNCHANGED dashVars
  <2>1. ui' = ui /\ srv' = srv /\ reqs' = reqs
    BY <1>4 DEF dashVars
  <2>2. UpInv => UpInv'
    BY <2>1 DEF UpInv, PageIs, On, Told, RowsOk
  <2>3. GroupInv => GroupInv'
    BY <2>1 DEF GroupInv
  <2>4. KeyInv => KeyInv'
    BY <2>1 DEF KeyInv
  <2> QED BY <1>2, <2>2, <2>3, <2>4 DEF PagesInv
<1>5. CASE On /\ UpNext
  <2>1. UpInv
    BY <1>1, <1>3, <1>5 DEF PagesInv
  <2>2. UpInv'
    BY <1>5, <2>1, UpStep
  <2> QED BY <1>2, <2>2 DEF PagesInv
<1>6. CASE OnGroups /\ GroupNext
  <2>1. GroupInv
    BY <1>1, <1>3, <1>6 DEF PagesInv
  <2>2. GroupInv'
    BY <1>6, <2>1, GroupStep
  <2> QED BY <1>2, <2>2 DEF PagesInv
<1>7. CASE OnKeys /\ KeyNext
  <2>1. KeyInv
    BY <1>1, <1>3, <1>7 DEF PagesInv
  <2>2. KeyInv'
    BY <1>7, <2>1, KeyStep
  <2> QED BY <1>2, <2>2 DEF PagesInv
<1> QED BY <1>4, <1>5, <1>6, <1>7 DEF Next

\* Every handler of the three pages, whatever is out when it runs and in
\* whatever order the answers land, keeps the page's busy flags, its messages,
\* its panels and its saves as PagesInv says.
THEOREM PagesCorrect == Spec => []PagesInv
BY PagesStart, PagesStep, PTL DEF Spec

\* What the page the dashboard shows is, of the three.
LEMMA OnPages ==
    ASSUME PagesInv
    PROVE  /\ On => UpInv
           /\ OnGroups => GroupInv
           /\ OnKeys => KeyInv
           /\ On \/ DeskPart(ui, reqs)
           /\ ReqsOk(reqs)
<1>1. ~(On /\ OnGroups) /\ ~(On /\ OnKeys) /\ ~(OnGroups /\ OnKeys)
  BY DEF On, OnGroups, OnKeys
<1>2. UpInv => ReqsOk(reqs)
  BY DEF UpInv, PageIs
<1>3. GroupInv => DeskPart(ui, reqs) /\ ReqsOk(reqs)
  BY GroupIs
<1>4. KeyInv => DeskPart(ui, reqs) /\ ReqsOk(reqs)
  BY KeyIs
<1> QED BY <1>1, <1>2, <1>3, <1>4 DEF PagesInv

\* The requests the properties count are lanes.
LEMMA LanesAre ==
    ASSUME ReqsOk(reqs)
    PROVE  /\ Mine(Saves) = Lane(reqs, "create")
           /\ Mine(FormDiscovery) = Lane(reqs, "discover_form")
           /\ Mine(RowDiscovery) = Lane(reqs, "discover_row")
           /\ Out({"start"}) = Lane(reqs, "start")
           /\ Out({"delete"}) = Lane(reqs, "delete")
           /\ Out({"revoke"}) = Lane(reqs, "revoke")
<1>1. /\ "create" \notin Unnumbered /\ "discover_form" \notin Unnumbered
      /\ "discover_row" \notin Unnumbered
  BY DEF Unnumbered
<1>2. /\ Mine(Saves) = Lane(reqs, "create")
      /\ Mine(FormDiscovery) = Lane(reqs, "discover_form")
      /\ Mine(RowDiscovery) = Lane(reqs, "discover_row")
  BY <1>1, Numbers DEF Mine, Lane
<1>3. ASSUME NEW l \in Unnumbered PROVE Out({l}) = Lane(reqs, l)
  <2>1. \A k : k \in {l} <=> LaneOf(k) = l
    BY DEF Unnumbered, LaneOf, Saves
  <2> QED BY <2>1 DEF Out, Lane
<1>4. "start" \in Unnumbered /\ "delete" \in Unnumbered /\ "revoke" \in Unnumbered
  BY DEF Unnumbered
<1> QED BY <1>2, <1>3, <1>4

LEMMA AtMostOne == ASSUME NEW S, One(S) PROVE Cardinality(S) <= 1
<1>1. CASE S = {}
  BY <1>1, FS_EmptySet
<1>2. CASE S # {}
  <2>1. PICK a : S = {a}
    BY <1>2 DEF One
  <2>2. Cardinality({a}) = 1
    BY FS_Singleton
  <2> QED BY <2>1, <2>2
<1> QED BY <1>1, <1>2

\* One member's discoveries are one, so members and requests are as many.
LEMMA AtMostTwo ==
    ASSUME NEW S, Two(S), NEW T, T = {r.id : r \in S}
    PROVE  Cardinality(S) <= 2 /\ Cardinality(S) = Cardinality(T)
<1>1. \A x, y : x # y => Cardinality({x, y}) = 2
  <2> SUFFICES ASSUME NEW x, NEW y, x # y PROVE Cardinality({x, y}) = 2
    OBVIOUS
  <2>1. IsFiniteSet({x}) /\ Cardinality({x}) = 1
    BY FS_Singleton
  <2>2. Cardinality({x} \cup {y}) = Cardinality({x}) + 1
    BY <2>1, FS_AddElement
  <2>3. {x} \cup {y} = {x, y}
    OBVIOUS
  <2> QED BY <2>1, <2>2, <2>3
<1>2. PICK a, b : S \subseteq {a, b}
  BY DEF Two
<1>3. CASE S = {}
  <2>1. T = {}
    BY <1>3
  <2> QED BY <1>3, <2>1, FS_EmptySet
<1>4. ASSUME NEW x, S = {x} PROVE Cardinality(S) <= 2 /\ Cardinality(S) = Cardinality(T)
  <2>1. T = {x.id}
    BY <1>4
  <2> QED BY <1>4, <2>1, FS_Singleton
<1>5. CASE S = {a, b} /\ a # b
  <2>1. PICK i, j : T = {i, j} /\ i # j
    <3>1. T = {a.id, b.id} /\ a.id # b.id
      BY <1>5 DEF Two
    <3> QED BY <3>1
  <2>2. Cardinality(S) = 2
    BY <1>1, <1>5
  <2>3. Cardinality(T) = 2
    <3>1. i # j
      BY <2>1
    <3>2. Cardinality({i, j}) = 2
      BY <1>1, <3>1
    <3> QED BY <2>1, <3>2
  <2> QED BY <2>2, <2>3
<1> QED BY <1>2, <1>3, <1>4, <1>5

----------------------------------------------------------------------------
(* What the runs check, for every instance.                                *)

LEMMA DialogIsOwn == PagesInv => OwnDialog
<1> SUFFICES ASSUME PagesInv PROVE OwnDialog
  OBVIOUS
<1>1. ui.formError \in OwnOrNone /\ LaneIs(reqs, "create", ui.saving)
  <2>1. CASE On
    BY <2>1, OnPages DEF UpInv, DialogPart
  <2>2. CASE ~On
    BY <2>2, OnPages DEF DeskPart, SubmitPart
  <2> QED BY <2>1, <2>2
<1>2. Mine(Saves) = Lane(reqs, "create")
  BY OnPages, LanesAre
<1>3. ui.formError # "other"
  BY <1>1 DEF OwnOrNone
<1> QED BY <1>1, <1>2, <1>3 DEF OwnDialog, LaneIs

LEMMA PanelsAre == PagesInv => PanelsDescribe
<1> SUFFICES ASSUME PagesInv, On PROVE PanelsDescribe
  BY DEF PanelsDescribe
<1>1. DialogPart(ui, reqs) /\ ToolsPart(ui, reqs)
  BY OnPages DEF UpInv
<1>2. /\ Mine(FormDiscovery) = Lane(reqs, "discover_form")
      /\ Mine(RowDiscovery) = Lane(reqs, "discover_row")
  BY OnPages, LanesAre
<1> QED BY <1>1, <1>2 DEF PanelsDescribe, DialogPart, ToolsPart, LaneIs

LEMMA FormIsTheRows == PagesInv => FormBelongsToRow
<1> SUFFICES ASSUME PagesInv, On PROVE FormBelongsToRow
  BY DEF FormBelongsToRow
<1>1. DialogPart(ui, reqs)
  BY OnPages DEF UpInv
<1> QED BY <1>1 DEF FormBelongsToRow, DialogPart, TypedHere

LEMMA ButtonsHeld == PagesInv => HeldWhileOut
<1> SUFFICES ASSUME PagesInv, On PROVE HeldWhileOut
  BY DEF HeldWhileOut
<1>1. HoldsPart(ui, reqs)
  BY OnPages DEF UpInv
<1>2. /\ Out({"start"}) = Lane(reqs, "start") /\ Out({"delete"}) = Lane(reqs, "delete")
      /\ Out({"revoke"}) = Lane(reqs, "revoke")
  BY OnPages, LanesAre
<1>3. Cardinality(Out({"start"})) <= 1
  BY <1>1, <1>2, AtMostOne DEF HoldsPart, LaneIs
<1>4. /\ ui.connecting # "" <=> ui.left \/ Out({"start"}) # {}
      /\ ui.deleting <=> Out({"delete"}) # {}
      /\ ui.revoking <=> Out({"revoke"}) # {}
  BY <1>1, <1>2 DEF HoldsPart, LaneIs
<1> QED BY <1>3, <1>4 DEF HeldWhileOut

LEMMA CatalogueIs == PagesInv => CatalogueIsThisDialogs
<1> SUFFICES ASSUME PagesInv, ui.page \in {"groups", "keys"} PROVE CatalogueIsThisDialogs
  BY DEF CatalogueIsThisDialogs
<1> DEFINE out == Mine(Discoveries)
           loading == {i \in DOMAIN ui.byId : ui.byId[i].state = "loading"}
<1>1. DeskPart(ui, reqs) /\ ReqsOk(reqs)
  BY OnPages DEF On
<1>2. out = Lane(reqs, "discover")
  BY <1>1, DiscoverLane
<1>3. LoadingPart(ui, out) /\ ShownPart(ui)
  BY <1>1, <1>2 DEF DeskPart
<1> HIDE DEF out
<1>4. loading = {r.id : r \in out}
  BY <1>3 DEF LoadingPart, ShownPart
<1> HIDE DEF loading
<1>5. Cardinality(out) <= 2 /\ Cardinality(out) = Cardinality(loading)
  BY <1>3, <1>4, AtMostTwo DEF LoadingPart
<1>6. ui.run.on <=> out # {}
  BY <1>3 DEF LoadingPart
<1>7. {i \in DOMAIN ui.byId : ui.byId[i] # idleMember} \subseteq ui.pressed
  BY <1>3 DEF ShownPart
<1> QED BY <1>4, <1>5, <1>6, <1>7 DEF CatalogueIsThisDialogs, PICKER_IN_FLIGHT, out, loading

LEMMA SavesAsked == PagesInv => ConfirmAsked
<1> SUFFICES ASSUME PagesInv, OnGroups, NEW r \in reqs, r.kind \in {"read", "patch", "create"}
             PROVE  /\ (/\ r.kind # "create" /\ "upstream_ids" \in DOMAIN r.arg.body
                        /\ r.arg.body.upstream_ids = {}) => <<"empty", r.arg.body>> \in r.arg.agreed
                    /\ r.arg.blocks => <<"blocks", r.arg.body>> \in r.arg.agreed
  BY DEF ConfirmAsked, Out
<1>1. GroupReq(r, srv, ui.form)
  BY OnPages, GroupIs
<1> QED BY <1>1 DEF GroupReq, AskedFor, Saves

LEMMA FilterIsKept == ASSUME GroupInv PROVE FilterKept
<1> SUFFICES ASSUME NEW r \in reqs, r.kind = "patch", r.st = "sent", Listed(r.id),
                    "tool_filter" \in DOMAIN r.arg.body
             PROVE  /\ r.arg.raced \/ SameVerdicts(r.arg.seed.tool_filter, Row(r.id).tool_filter)
                    /\ (~ValidateToolFilter(r.arg.seed.tool_filter) /\ r.mine)
                          => ui.form.filterReplace
  BY DEF FilterKept
<1>1. GroupPatchFresh(r, srv) /\ GroupReplaced(r, ui.form) /\ Distinct(srv)
  BY GroupIs DEF GroupReq, Saves
<1>2. ASSUME ~r.arg.raced
      PROVE  SameVerdicts(r.arg.seed.tool_filter, Row(r.id).tool_filter)
  <2>1. PICK g \in srv : /\ g.id = r.id
                         /\ SameVerdicts(r.arg.seed.tool_filter, g.tool_filter)
    BY <1>1, <1>2 DEF GroupPatchFresh
  <2>2. Row(r.id) = g
    BY <1>1, <2>1, RowIs
  <2> QED BY <2>1, <2>2
<1> QED BY <1>1, <1>2 DEF GroupReplaced

LEMMA ListsAreKept == ASSUME KeyInv PROVE ListsKept
<1> SUFFICES ASSUME NEW r \in reqs, r.kind = "patch", r.st = "sent", Listed(r.id),
                    ListsIn(r.arg.body) # {}
             PROVE  /\ ~r.arg.raced =>
                          /\ Row(r.id).lists_malformed = r.arg.seed.lists_malformed
                          /\ \A k \in ListsIn(r.arg.body) : Row(r.id)[k] = r.arg.seed[k]
                    /\ (r.arg.seed.lists_malformed /\ r.mine) => ui.form.listsReplace
  BY DEF ListsKept, ListsIn
<1>1. KeyPatchFresh(r, srv) /\ KeyReplaced(r, ui.form) /\ Distinct(srv)
  BY KeyIs DEF KeyReq, Saves
<1>2. ASSUME ~r.arg.raced
      PROVE  /\ Row(r.id).lists_malformed = r.arg.seed.lists_malformed
             /\ \A k \in ListsIn(r.arg.body) : Row(r.id)[k] = r.arg.seed[k]
  <2>1. PICK g \in srv : /\ g.id = r.id /\ g.lists_malformed = r.arg.seed.lists_malformed
                         /\ \A k \in ListsIn(r.arg.body) : g[k] = r.arg.seed[k]
    BY <1>1, <1>2 DEF KeyPatchFresh
  <2>2. Row(r.id) = g
    BY <1>1, <2>1, RowIs
  <2> QED BY <2>1, <2>2
<1> QED BY <1>1, <1>2 DEF KeyReplaced

\* A dialog never shows the failure of a save that another dialog sent, and its
\* Save is busy exactly while a request of its own submit is out: every handler
\* compares the number it saw with dialogSeq before it touches the dialog
\* (upstreams/page.tsx:404-433, groups/page.tsx:163-197, virtual-keys/page.tsx:242-281).
THEOREM DialogShowsItsOwn == Spec => []OwnDialog
BY PagesCorrect, DialogIsOwn, PTL

\* The Discover panel never describes a connection the form no longer has, the
\* Tools dialog never another row, and a spinning panel has a request out that
\* will end it: an edit of the connection or a change of row takes a new number
\* and drops the answer on its way (upstreams/page.tsx:229-300).
THEOREM PanelsAreAboutTheirs == Spec => []PanelsDescribe
BY PagesCorrect, PanelsAre, PTL

\* An answer that re-seeds the form re-seeds the row's own dialog, and no
\* credential typed in one dialog is in the form of the next
\* (upstreams/page.tsx:398, 537).
THEOREM FormIsItsRows == Spec => []FormBelongsToRow
BY PagesCorrect, FormIsTheRows, PTL

\* Connect, Delete and Disconnect are held exactly while their request is out,
\* and no second sign-in starts beside the first (upstreams/page.tsx:488-564).
THEOREM ButtonsHeldWhileOut == Spec => []HeldWhileOut
BY PagesCorrect, ButtonsHeld, PTL

\* useCatalogue shows a member as Loading exactly while its own discovery is
\* out, never runs more than two, and never leaves a press under way with
\* nothing out; what a closed dialog asked for is not shown in the next
\* (use-catalogue.ts:57-81).
THEOREM CatalogueIsOwn == Spec => []CatalogueIsThisDialogs
BY PagesCorrect, CatalogueIs, PTL

\* No group is left without members, or by a complete catalogue without a
\* callable tool, by a save whose own body the operator did not agree to
\* (groups/page.tsx:214-277).
THEOREM BlockingSavesAreAsked == Spec => []ConfirmAsked
BY PagesCorrect, SavesAsked, PTL

\* A save that carries a filter or a list finds the rules its dialog showed, or
\* was overtaken between its fresh read and its PATCH; and rules that cannot be
\* read are replaced only when Replace was pressed in that dialog
\* (groups/page.tsx:208-246, virtual-keys/page.tsx:294-329).
THEOREM RulesAreNotLostSilently == Spec => []NoSilentOverwrite
<1>1. PagesInv => NoSilentOverwrite
  <2> SUFFICES ASSUME PagesInv PROVE NoSilentOverwrite
    OBVIOUS
  <2>1. (OnGroups => GroupInv) /\ (OnKeys => KeyInv)
    BY OnPages
  <2> QED BY <2>1, FilterIsKept, ListsAreKept DEF NoSilentOverwrite
<1> QED BY <1>1, PagesCorrect, PTL
=============================================================================
