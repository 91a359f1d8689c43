------------------------ MODULE DashboardRulesProofs ------------------------
(***************************************************************************)
(* Proofs about what the dashboard's pages say: of a save that loses the   *)
(* stored credential, and of the tool rules.                               *)
(*                                                                         *)
(* A page speaks from what it was told before.  The properties hold        *)
(* because every answer on its way, and everything kept of one, agrees     *)
(* with what the server has now, in the parts named first.  Each page then *)
(* has a section on how its steps keep them, and a section on what its     *)
(* dialogs conclude from them.                                             *)
(***************************************************************************)
EXTENDS DashboardProofs

----------------------------------------------------------------------------
(* What was told, and is so still.                                         *)

\* The Upstreams page: no row, stored, shown, on its way or in the form, has an
\* auth type that is none of the known ones.
TypedRow(u) == {"auth_type", "stored"} \subseteq DOMAIN u /\ u.auth_type \in AuthTypes
KnownType(x) == x.auth_type \in AuthTypes
TypedReq(r) ==
    /\ r.kind = "create" => KnownType(r.arg)
    /\ (r.kind = "patch" /\ Has(r.arg, "auth_type")) => KnownType(r.arg)
    /\ (r.kind \in {"list", "refresh"} /\ r.ans.ok) => \A x \in r.ans.rows : KnownType(x)
    /\ (r.kind \in {"patch", "revoke"} /\ r.ans.ok) => KnownType(r.ans.row)
TypedReqs(rs) == \A r \in rs : TypedReq(r)
UpTyped == /\ \A u \in srv : TypedRow(u)
           /\ \A x \in ui.items : KnownType(x)
           /\ KnownType(ui.form) /\ TypedReqs(reqs)

\* A member's entry in the catalogue is true of the upstream.
Tells(m, i) ==
    \A u \in Upstreams : u.id = i =>
       /\ (m.state = "ok" /\ ~m.truncated) => m.tools = u.tools
       /\ m.state # "ok" => m.tools = {}
CatalogueTells(u, rs) ==
    /\ \A i \in DOMAIN u.byId : Tells(u.byId[i], i)
    /\ \A r \in rs : (r.kind = "discover" /\ r.ans.ok) => Tells(memberFromDiscovery(r.ans), r.id)

\* The lists a dialog draws from are empty or whole, and come together.
GroupsLoaded(u) == u.upstreams \in {{}, Upstreams}
KeysLoaded(u) == \/ u.upstreams = {}
                 \/ u.upstreams = Upstreams /\ u.groups = KeyGroups

\* A key's row, shown or on its way, has the target of the row stored under its
\* id; and a policy, shown or on its way to the dialog, is the named key's.
SameTarget(x, y) == x.target_type = y.target_type /\ x.target_id = y.target_id
OfRows(x, S) == \A y \in S : y.id = x.id => SameTarget(y, x)
GroupView(vk) ==
    {[tool_filter |-> IF g.tool_filter.shape = "object" THEN g.tool_filter ELSE NoFilter,
      malformed |-> ~ValidateToolFilter(g.tool_filter)] :
         g \in {h \in KeyGroups : vk.target_type = "group" /\ h.id = vk.target_id}}
About(v, vk) == v.id = vk.id /\ v.group = GroupView(vk)
RowsTold(r) == r.ans.rows \cup (IF r.kind = "patch" THEN {r.ans.row} ELSE {})
TargetsPart(u, rs, S) ==
    /\ \A x \in u.items : OfRows(x, S)
    /\ \A r \in rs : r.ans.ok => \A x \in RowsTold(r) : OfRows(x, S)
PolicyPart(u, rs, S) ==
    /\ \A v \in u.policy : About(v, u.policyKey)
    /\ \A r \in rs : (r.kind = "policy" /\ r.mine) =>
          /\ r.id = u.policyKey.id /\ OfRows(u.policyKey, S)
          /\ r.ans.ok => About(r.ans.row, u.policyKey)

----------------------------------------------------------------------------
(* A save that loses the stored credential.                                *)

\* The keys of a PATCH the Edit dialog sends, and their values.
LEMMA UpPatchBody ==
    ASSUME NEW before, NEW f, NEW b, b = upstreamPatchBody(before, f)
    PROVE  /\ Has(b, "url") <=> trim(f.url) # before.url
           /\ Has(b, "url") => b.url = trim(f.url)
           /\ Has(b, "auth_type") <=> \/ f.auth_type # before.auth_type
                                      \/ f.auth_type = "none" /\ f.clear_stored
           /\ Has(b, "auth_type") => b.auth_type = f.auth_type
           /\ Has(b, "auth_config") => credentialTyped(f)
<1> DEFINE config == authConfigFrom(f)
           V == [name |-> trim(f.name), url |-> trim(f.url),
                 transport |-> f.transport, test_path |-> trim(f.test_path),
                 auth_type |-> f.auth_type, enabled |-> f.enabled,
                 auth_config |-> [config EXCEPT !.name = trim(@)]]
           named == config.shape \in {"header", "param"} => trim(config.name) # ""
           D == {k \in {"name", "url", "transport", "enabled"} : V[k] # before[k]}
                \cup {k \in {"test_path"} : before.kind = "http" /\ V[k] # before[k]}
                \cup {k \in {"auth_type"} : \/ V[k] # before[k]
                                            \/ f.auth_type = "none" /\ f.clear_stored}
                \cup {k \in {"auth_config"} : credentialTyped(f) /\ named}
<1>1. b = [k \in D |-> V[k]]
  BY DEF upstreamPatchBody, Restrict
<1>2. V.url = trim(f.url) /\ V.auth_type = f.auth_type
  OBVIOUS
<1> HIDE DEF V, named
<1>3. "url" \in D <=> V.url # before.url
  OBVIOUS
<1>4. "auth_type" \in D <=> \/ V.auth_type # before.auth_type
                            \/ f.auth_type = "none" /\ f.clear_stored
  OBVIOUS
<1>5. "auth_config" \in D => credentialTyped(f)
  OBVIOUS
<1> HIDE DEF D
<1> QED BY <1>1, <1>2, <1>3, <1>4, <1>5 DEF Has

\* What the server does to the credential on a PATCH without one.
LEMMA PatchLoses ==
    ASSUME NEW u, NEW f, NEW b, "stored" \in DOMAIN u,
           b = upstreamPatchBody(Present(u), f), ~credentialTyped(f)
    PROVE  patchUpstream(u, b).stored # u.stored <=>
              /\ u.stored # Nothing
              /\ \/ f.auth_type = "none" /\ (u.auth_type # "none" \/ f.clear_stored)
                 \/ u.auth_type = "oauth" /\ trim(f.url) # u.url
                 \/ f.auth_type # u.auth_type /\ "oauth" \in {u.auth_type, f.auth_type}
<1>1. Present(u).auth_type = u.auth_type /\ Present(u).url = u.url
  BY DEF Present
<1>2. ~Has(b, "auth_config")
  BY UpPatchBody
<1>3. clearAuth(u, b) <=>
        \/ f.auth_type = "none" /\ (u.auth_type # "none" \/ f.clear_stored)
        \/ u.auth_type = "oauth" /\ trim(f.url) # u.url
        \/ f.auth_type # u.auth_type /\ "oauth" \in {u.auth_type, f.auth_type}
  BY <1>1, <1>2, UpPatchBody DEF clearAuth, urlMoves, acrossOAuth, typeMoves
<1>4. patchUpstream(u, b).stored = IF clearAuth(u, b) THEN Nothing ELSE u.stored
  <2> DEFINE s == IF clearAuth(u, b) THEN Nothing
                  ELSE IF Has(b, "auth_config") THEN b.auth_config ELSE u.stored
  <2> HIDE DEF s
  <2>1. patchUpstream(u, b).stored = s
    BY DEF patchUpstream, s
  <2> QED BY <1>2, <2>1 DEF s
<1> QED BY <1>3, <1>4

\* A required credential box is filled, with spaces at worst.
LEMMA RequiredTyped ==
    ASSUME NEW before, NEW f, f.auth_type \in AuthTypes, ValidForm("edit", before, f),
           ~\E k \in CredentialBox(f) : f[k] = Spaces, credentialRequired(before, f)
    PROVE  credentialTyped(f)
<1>1. \A k \in CredentialBox(f) : f[k] # ""
  BY DEF ValidForm, Required
<1>2. \A k \in CredentialBox(f) : trim(f[k]) # ""
  BY <1>1 DEF trim
<1>3. f.auth_type \in {"bearer", "header", "api_key", "query"}
  BY DEF credentialRequired, AuthTypes, headerShaped, queryShaped
<1>4. CASE f.auth_type = "bearer"
  BY <1>2, <1>4 DEF CredentialBox, credentialTyped
<1>5. CASE f.auth_type \in {"header", "api_key", "query"}
  BY <1>2, <1>5 DEF CredentialBox, credentialTyped, headerShaped, queryShaped
<1> QED BY <1>3, <1>4, <1>5

\* The sentences that announce a removal.
LEMMA RemovalsAre ==
    ASSUME NEW u, NEW f, NEW before, before = Present(u)
    PROVE  Removals(before, f) # {} <=>
              /\ u.stored # Nothing
              /\ \/ u.auth_type # "none" /\ f.auth_type = "none"
                 \/ u.auth_type = "oauth" /\ trim(f.url) # u.url
                 \/ f.auth_type = "oauth" /\ u.auth_type # "oauth"
<1> DEFINE said == {"removes", "disconnects", "removes client"}
<1>1. /\ before.auth_type = u.auth_type /\ before.url = u.url
      /\ before.auth_configured <=> u.stored # Nothing
      /\ before.auth_status = StatusOf(u.auth_type, u.stored)
  BY DEF Present
<1>2. before.auth_status \in {"none", "undecryptable", "ok", "expired", "unreadable"}
  BY <1>1 DEF StatusOf
<1>3. removeCredentialDescription(before, f) \in said <=>
        u.auth_type # "none" /\ f.auth_type = "none" /\ u.stored # Nothing
  BY <1>1 DEF removeCredentialDescription
<1>4. urlChangeDescription(before, f) \in said <=>
        u.auth_type = "oauth" /\ trim(f.url) # u.url /\ u.stored # Nothing
  BY <1>1 DEF urlChangeDescription
<1>5. authTone(before) \notin said
  BY DEF authTone
<1>6. credentialHelp(before, f) \notin said
  BY <1>2, <1>5 DEF credentialHelp
<1>7. editCredentialDescription(before, f) \in said <=>
        f.auth_type = "oauth" /\ u.auth_type # "oauth" /\ u.stored # Nothing
  <2>1. f.auth_type = "oauth" => ~credentialRequired(before, f)
    BY DEF credentialRequired
  <2> QED BY <1>1, <1>6, <2>1 DEF editCredentialDescription
<1> QED BY <1>3, <1>4, <1>7 DEF Removals

\* The Remove box is on screen when there is something to remove.
LEMMA TickedIs ==
    ASSUME NEW u, NEW f
    PROVE  "clear_stored" \in Offered("edit", Present(u), f) <=>
              u.auth_type = "none" /\ u.stored # Nothing /\ f.auth_type = "none"
<1>1. /\ Present(u).auth_type = u.auth_type
      /\ Present(u).auth_configured <=> u.stored # Nothing
  BY DEF Present
<1>2. clearStoredDescription(Present(u), f) # "" <=>
        u.auth_type = "none" /\ u.stored # Nothing /\ f.auth_type = "none"
  BY <1>1 DEF clearStoredDescription
<1>3. "clear_stored" \notin CredentialBox(f)
  BY DEF CredentialBox
<1> QED BY <1>2, <1>3 DEF Offered

\* A save is announced exactly when it loses what is stored, whatever is in the
\* form (upstream-form.tsx, upstreams.go).
LEMMA SaveIsWarned ==
    ASSUME NEW u, NEW f, NEW b, "stored" \in DOMAIN u, f.auth_type \in AuthTypes,
           b = upstreamPatchBody(Present(u), f), ValidForm("edit", Present(u), f),
           ~credentialTyped(f), ~\E k \in CredentialBox(f) : f[k] = Spaces
    PROVE  patchUpstream(u, b).stored # u.stored <=>
              \/ f.clear_stored /\ "clear_stored" \in Offered("edit", Present(u), f)
              \/ Removals(Present(u), f) # {}
<1>1. Present(u).auth_type = u.auth_type
  BY DEF Present
<1>2. f.auth_type # u.auth_type => f.auth_type \in {"none", "oauth"}
  <2>1. ~credentialRequired(Present(u), f)
    BY RequiredTyped
  <2> QED BY <1>1, <2>1 DEF credentialRequired
<1> QED BY <1>2, PatchLoses, RemovalsAre, TickedIs

\* Each way of changing the requests keeps them typed.
LEMMA TypedSent ==
    ASSUME NEW rs, NEW kind, NEW id, NEW arg, TypedReqs(rs),
           kind = "create" => KnownType(arg),
           (kind = "patch" /\ Has(arg, "auth_type")) => KnownType(arg)
    PROVE  TypedReqs(With(rs, Request(kind, id, arg)))
<1>1. PICK x : /\ With(rs, Request(kind, id, arg)) = rs \cup {x}
               /\ x.kind = Request(kind, id, arg).kind /\ x.arg = Request(kind, id, arg).arg
               /\ x.ans = Request(kind, id, arg).ans
  BY WithAdds
<1>2. x.kind = kind /\ x.arg = arg /\ ~x.ans.ok
  BY <1>1 DEF Request, NoAnswer
<1> QED BY <1>1, <1>2 DEF TypedReqs, TypedReq

LEMMA TypedBumped ==
    ASSUME NEW rs, NEW K, ReqsOk(rs), TypedReqs(rs)
    PROVE  TypedReqs(Bumped(rs, K))
<1> SUFFICES ASSUME NEW x \in Bumped(rs, K) PROVE TypedReq(x)
  BY DEF TypedReqs
<1>1. PICK r \in rs : x = r \/ x = [r EXCEPT !.mine = FALSE]
  BY DEF Bumped
<1>2. x.kind = r.kind /\ x.arg = r.arg /\ x.ans = r.ans
  BY <1>1 DEF ReqsOk, ReqOk, ReqFields
<1> QED BY <1>2 DEF TypedReqs, TypedReq

LEMMA TypedLanded ==
    ASSUME NEW rs, NEW r, TypedReqs(rs)
    PROVE  TypedReqs(rs \ {r}) /\ TypedReqs(Reload(rs \ {r}, r))
<1>1. TypedReqs(rs \ {r})
  BY DEF TypedReqs
<1>2. TypedReqs(With(rs \ {r}, Request("list", "", NoRow)))
  BY <1>1, TypedSent
<1> QED BY <1>1, <1>2 DEF Reload

LEMMA TypedKept ==
    ASSUME UpTyped, srv' = srv, ui'.items = ui.items, ui'.form = ui.form, TypedReqs(reqs')
    PROVE  UpTyped'
BY DEF UpTyped, TypedRow, KnownType, TypedReqs, TypedReq

LEMMA TypedForm ==
    ASSUME UpTyped, srv' = srv, ui'.items = ui.items, ui'.form.auth_type \in AuthTypes,
           TypedReqs(reqs')
    PROVE  UpTyped'
BY DEF UpTyped, TypedRow, KnownType, TypedReqs, TypedReq

LEMMA UpIs ==
    ASSUME UpInv
    PROVE  /\ DOMAIN ui = UpFields /\ DOMAIN ui.form = FormFields /\ ReqsOk(reqs) /\ RowsOk
           /\ \A r \in reqs : r.kind \in UpKinds
           /\ "auth_type" \in FormFields
BY DEF UpInv, PageIs, Told, DialogPart, AnswersOk, AnswerOk, FormFields, blankUpstreamForm

\* The steps that leave the table, the form and the rows alone.
LEMMA TypedLooks ==
    ASSUME UpInv, UpTyped,
           \/ discoverForm \/ discoverRow \/ closeTools \/ closeDelete \/ remove
           \/ askRevoke \/ closeRevoke \/ revoke \/ restored
           \/ \E u \in ui.items : openTools(u) \/ askDelete(u) \/ connect(u)
           \/ \E r \in reqs : LandConnect(r) \/ LandDiscoverForm(r) \/ LandDiscoverRow(r)
    PROVE  UpTyped'
<1>1. DOMAIN ui = UpFields /\ ReqsOk(reqs) /\ TypedReqs(reqs)
  BY UpIs DEF UpTyped
<1>2. \A K : TypedReqs(Bumped(reqs, K))
  BY <1>1, TypedBumped
<1> DEFINE Goal == srv' = srv /\ ui'.items = ui.items /\ ui'.form = ui.form /\ TypedReqs(reqs')
<1>3. CASE discoverForm
  <2>1. TypedReqs(With(Bumped(reqs, FormDiscovery),
                       Request("discover_form", "", Connection(ui.form))))
    BY <1>2, TypedSent
  <2>2. Goal
    BY <1>1, <1>3, <2>1 DEF discoverForm, UpFields
  <2> QED BY <2>2, TypedKept
<1>4. ASSUME NEW row PROVE TypedReqs(With(Bumped(reqs, RowDiscovery),
                                           Request("discover_row", row.id, NoRow)))
  BY <1>2, TypedSent
<1>5. CASE discoverRow
  <2>1. Goal
    BY <1>1, <1>4, <1>5 DEF discoverRow, Apply, Asked, Spend, UpFields
  <2> QED BY <2>1, TypedKept
<1>6. CASE closeTools
  <2>1. Goal
    BY <1>1, <1>2, <1>6 DEF closeTools, Apply, UpFields
  <2> QED BY <2>1, TypedKept
<1>7. CASE closeDelete \/ askRevoke \/ closeRevoke \/ restored
  <2>1. CASE closeDelete
    BY <1>1, <2>1, TypedKept DEF closeDelete, Apply, UpFields
  <2>2. CASE askRevoke
    BY <1>1, <2>2, TypedKept DEF askRevoke, Apply, Spend, UpFields
  <2>3. CASE closeRevoke
    BY <1>1, <2>3, TypedKept DEF closeRevoke, Apply, UpFields
  <2>4. CASE restored
    BY <1>1, <2>4, TypedKept DEF restored, Apply, UpFields
  <2> QED BY <1>7, <2>1, <2>2, <2>3, <2>4
<1>8. ASSUME NEW kind \in {"delete", "revoke", "start"}, NEW id, NEW arg
      PROVE  TypedReqs(With(reqs, Request(kind, id, arg)))
  BY <1>1, TypedSent
<1>9. CASE remove
  <2>1. Goal
    BY <1>1, <1>8, <1>9 DEF remove, Apply, UpFields
  <2> QED BY <2>1, TypedKept
<1>10. CASE revoke
  <2>1. Goal
    BY <1>1, <1>8, <1>10 DEF revoke, Apply, UpFields
  <2> QED BY <2>1, TypedKept
<1>11. ASSUME NEW u \in ui.items, openTools(u) PROVE UpTyped'
  <2>1. Goal
    BY <1>1, <1>4, <1>11 DEF openTools, Apply, Asked, Spend, UpFields
  <2> QED BY <2>1, TypedKept
<1>12. ASSUME NEW u \in ui.items, askDelete(u) PROVE UpTyped'
  <2>1. Goal
    BY <1>1, <1>12 DEF askDelete, Apply, Spend, UpFields
  <2> QED BY <2>1, TypedKept
<1>13. ASSUME NEW u \in ui.items, connect(u) PROVE UpTyped'
  <2>1. Goal
    BY <1>1, <1>8, <1>13 DEF connect, Apply, Spend, UpFields
  <2> QED BY <2>1, TypedKept
<1>14. ASSUME NEW r \in reqs, LandConnect(r) \/ LandDiscoverForm(r) \/ LandDiscoverRow(r)
       PROVE  UpTyped'
  <2>1. TypedReqs(reqs \ {r}) /\ TypedReqs(Reload(reqs \ {r}, r))
    BY <1>1, TypedLanded
  <2>2. TypedReqs(With(reqs \ {r}, Request("refresh", "", NoRow)))
    BY <2>1, TypedSent
  <2>3. Goal
    BY <1>1, <1>14, <2>1, <2>2 DEF LandConnect, LandDiscoverForm, LandDiscoverRow, UpFields
  <2> QED BY <2>3, TypedKept
<1> QED BY <1>3, <1>5, <1>6, <1>7, <1>9, <1>10, <1>11, <1>12, <1>13, <1>14

\* The steps that take rows into the table.
LEMMA TypedLists ==
    ASSUME UpInv, UpTyped, NEW r \in reqs, LandList(r) \/ LandDelete(r) \/ LandRevoke(r)
    PROVE  UpTyped'
<1>1. /\ DOMAIN ui = UpFields /\ ReqsOk(reqs) /\ TypedReqs(reqs)
      /\ \A x \in ui.items : KnownType(x)
  BY UpIs DEF UpTyped
<1>2. TypedReqs(reqs \ {r}) /\ TypedReqs(Reload(reqs \ {r}, r))
  BY <1>1, TypedLanded
<1>3. TypedReq(r)
  BY <1>1 DEF TypedReqs
<1>4. /\ srv' = srv /\ ui'.form = ui.form /\ TypedReqs(reqs')
      /\ \/ ui'.items \subseteq ui.items
         \/ ui'.items = r.ans.rows /\ r.ans.ok /\ r.kind \in {"list", "refresh"}
         \/ ui'.items = Replaced(ui.items, r.ans.row) /\ r.ans.ok /\ r.kind = "revoke"
  <2>1. CASE LandList(r)
    BY <1>1, <1>2, <2>1 DEF LandList, UpFields
  <2>2. CASE LandDelete(r)
    BY <1>1, <1>2, <2>2 DEF LandDelete, UpFields
  <2>3. CASE LandRevoke(r)
    BY <1>1, <1>2, <2>3 DEF LandRevoke, UpFields
  <2> QED BY <2>1, <2>2, <2>3
<1>5. \A x \in ui'.items : KnownType(x)
  BY <1>1, <1>3, <1>4 DEF TypedReq, Replaced
<1> QED BY <1>4, <1>5 DEF UpTyped, TypedRow, KnownType, TypedReqs, TypedReq

\* The steps that fill the form.
LEMMA TypedOpens ==
    ASSUME UpInv, UpTyped, openAdd \/ \E u \in ui.items : openEdit(u)
    PROVE  UpTyped'
<1>1. /\ DOMAIN ui = UpFields /\ DOMAIN ui.form = FormFields /\ ReqsOk(reqs) /\ TypedReqs(reqs)
      /\ ui.form.auth_type \in AuthTypes
      /\ \A x \in ui.items : KnownType(x)
  BY UpIs DEF UpTyped, KnownType
<1>2. TypedReqs(Bumped(Bumped(reqs, FormDiscovery), Saves))
  BY <1>1, TypedBumped, Renumbered
<1>3. CASE openAdd
  <2>1. ui'.form = [ui.form EXCEPT !.name = "", !.kind = "mcp", !.url = "",
                      !.transport = "streamable-http", !.test_path = "",
                      !.token = "", !.value = "", !.clear_stored = FALSE]
    BY <1>1, <1>3 DEF openAdd, Apply, opened, resetFormDiscovery, Spend, UpFields
  <2>2. ui'.form.auth_type = ui.form.auth_type
    BY <1>1, <2>1 DEF FormFields, blankUpstreamForm
  <2>3. srv' = srv /\ ui'.items = ui.items /\ TypedReqs(reqs')
    BY <1>1, <1>2, <1>3 DEF openAdd, Apply, opened, resetFormDiscovery, Spend, UpFields
  <2> QED BY <1>1, <2>2, <2>3, TypedForm
<1>4. ASSUME NEW u \in ui.items, openEdit(u) PROVE UpTyped'
  <2>1. ui'.form = [formFromUpstream(u) EXCEPT !.register_client = u.id \in ui.registerFor]
    BY <1>1, <1>4 DEF openEdit, Apply, opened, resetFormDiscovery, Spend, UpFields
  <2>2. DOMAIN formFromUpstream(u) = FormFields /\ formFromUpstream(u).auth_type = u.auth_type
    BY DEF formFromUpstream, blankUpstreamForm, FormFields
  <2>3. "auth_type" \in FormFields
    BY DEF FormFields, blankUpstreamForm
  <2>4. ui'.form.auth_type = u.auth_type
    BY <2>1, <2>2, <2>3
  <2>5. srv' = srv /\ ui'.items = ui.items /\ TypedReqs(reqs')
    BY <1>1, <1>2, <1>4 DEF openEdit, Apply, opened, resetFormDiscovery, Spend, UpFields
  <2> QED BY <1>1, <2>4, <2>5, TypedForm DEF KnownType
<1> QED BY <1>3, <1>4

LEMMA TypedCloses ==
    ASSUME NEW u, NEW rs, NEW c, c = Closed(u, rs), DOMAIN u = UpFields,
           DOMAIN u.form = FormFields, ReqsOk(rs), TypedReqs(rs)
    PROVE  /\ c.ui.items = u.items /\ c.ui.form.auth_type = u.form.auth_type
           /\ TypedReqs(c.reqs) /\ ReqsOk(c.reqs) /\ DOMAIN c.ui = UpFields
<1>1. /\ c.ui.items = u.items /\ c.ui.form = [u.form EXCEPT !.token = "", !.value = ""]
      /\ c.reqs = Bumped(rs, FormDiscovery) /\ DOMAIN c.ui = UpFields
  BY DEF Closed, resetFormDiscovery, UpFields
<1>2. c.ui.form.auth_type = u.form.auth_type
  BY <1>1 DEF FormFields, blankUpstreamForm
<1> QED BY <1>1, <1>2, TypedBumped, Renumbered

LEMMA TypedEnters ==
    ASSUME UpInv, UpTyped, close \/ ChangeField
    PROVE  UpTyped'
<1>1. /\ DOMAIN ui = UpFields /\ DOMAIN ui.form = FormFields /\ ReqsOk(reqs) /\ TypedReqs(reqs)
      /\ ui.form.auth_type \in AuthTypes
  BY UpIs DEF UpTyped, KnownType
<1>2. CASE close
  <2>1. PICK c : c = Closed(ui, reqs)
    OBVIOUS
  <2>2. ui' = c.ui /\ reqs' = c.reqs /\ srv' = srv
    BY <1>2, <2>1 DEF close, Apply
  <2>3. ui'.items = ui.items /\ ui'.form.auth_type = ui.form.auth_type /\ TypedReqs(reqs')
    BY <1>1, <2>1, <2>2, TypedCloses
  <2> QED BY <1>1, <2>2, <2>3, TypedForm
<1>3. CASE ChangeField
  <2>1. PICK k \in Offered(mode, ui.editing, ui.form) :
                \E v \in Typed[k] : onFieldChange(k, v)
    BY <1>3 DEF ChangeField
  <2>0. PICK v \in Typed[k] : onFieldChange(k, v)
    BY <2>1
  <2>2. Entered(k, v).auth_type \in AuthTypes
    <3>1. CASE k = "kind"
      BY <1>1, <3>1 DEF Entered, applyKindChange, FormFields, blankUpstreamForm, AuthTypes
    <3>2. CASE k = "auth_type"
      BY <1>1, <2>0, <3>2, UpAuthTypes DEF Entered, FormFields, blankUpstreamForm
    <3>3. CASE k \notin {"kind", "auth_type"}
      BY <1>1, <3>3 DEF Entered, FormFields, blankUpstreamForm
    <3> QED BY <3>1, <3>2, <3>3
  <2> DEFINE f == Entered(k, v)
             w == Spend([ui EXCEPT !.form = f, !.typedHere = @ \cup ({k} \cap Credentials)],
                        "edits")
  <2>3. /\ ui' = w \/ ui' = [w EXCEPT !.formDiscovery = IDLE]
        /\ reqs' = reqs \/ reqs' = Bumped(reqs, FormDiscovery)
        /\ srv' = srv
    BY <2>0 DEF onFieldChange, Apply, resetFormDiscovery
  <2> HIDE DEF f
  <2>4. DOMAIN w = UpFields /\ w.form = f /\ w.items = ui.items
    BY <1>1 DEF Spend, UpFields
  <2> HIDE DEF w
  <2>5. ui'.form = f /\ ui'.items = ui.items
    BY <2>3, <2>4 DEF UpFields
  <2>6. TypedReqs(reqs')
    BY <1>1, <2>3, TypedBumped
  <2> QED BY <2>2, <2>3, <2>5, <2>6, TypedForm DEF f
<1> QED BY <1>2, <1>3

LEMMA TypedSubmits ==
    ASSUME UpInv, UpTyped, submit
    PROVE  UpTyped'
<1>1. /\ DOMAIN ui = UpFields /\ DOMAIN ui.form = FormFields /\ ReqsOk(reqs) /\ TypedReqs(reqs)
      /\ ui.form.auth_type \in AuthTypes
  BY UpIs DEF UpTyped, KnownType
<1>2. CASE clientSecretAlone(ui.form)
  <2>1. srv' = srv /\ ui'.items = ui.items /\ ui'.form = ui.form /\ TypedReqs(reqs')
    BY <1>1, <1>2 DEF submit, Apply, UpFields
  <2> QED BY <2>1, TypedKept
<1>3. CASE ~clientSecretAlone(ui.form) /\ mode # "edit"
  <2>1. create
    BY <1>3 DEF submit
  <2>2. KnownType(upstreamCreateBody(ui.form))
    BY <1>1 DEF upstreamCreateBody, KnownType
  <2>3. TypedReqs(With(reqs, Request("create", "", upstreamCreateBody(ui.form))))
    BY <1>1, <2>2, TypedSent
  <2>4. srv' = srv /\ ui'.items = ui.items /\ ui'.form = ui.form /\ TypedReqs(reqs')
    BY <1>1, <2>1, <2>3 DEF create, Apply, UpFields
  <2> QED BY <2>4, TypedKept
<1>4. CASE ~clientSecretAlone(ui.form) /\ mode = "edit"
  <2>1. save
    BY <1>4 DEF submit
  <2>2. PICK u : u = [rememberRegister(ui) EXCEPT !.formError = ""]
    OBVIOUS
  <2>3. DOMAIN u = UpFields /\ u.items = ui.items /\ u.form = ui.form
    BY <1>1, <2>2 DEF rememberRegister, UpFields
  <2>4. PICK body : body = upstreamPatchBody(ui.editing, ui.form)
    OBVIOUS
  <2>5. CASE DOMAIN body = {}
    <3>1. PICK c : c = Closed(u, reqs)
      OBVIOUS
    <3>2. ui' = c.ui /\ reqs' = c.reqs /\ srv' = srv
      BY <2>1, <2>2, <2>4, <2>5, <3>1 DEF save, Apply
    <3>3. ui'.items = ui.items /\ ui'.form.auth_type = ui.form.auth_type /\ TypedReqs(reqs')
      BY <1>1, <2>3, <3>1, <3>2, TypedCloses
    <3> QED BY <1>1, <3>2, <3>3, TypedForm
  <2>6. CASE DOMAIN body # {}
    <3>1. /\ ui' = [u EXCEPT !.saving = TRUE] /\ srv' = srv
          /\ reqs' = With(reqs, Request("patch", u.editing.id, body))
      BY <2>1, <2>2, <2>4, <2>6 DEF save, Apply
    <3>2. Has(body, "auth_type") => KnownType(body)
      BY <1>1, <2>4, UpPatchBody DEF KnownType
    <3>3. TypedReqs(reqs')
      BY <1>1, <3>1, <3>2, TypedSent
    <3>4. ui'.items = ui.items /\ ui'.form = ui.form
      BY <2>3, <3>1 DEF UpFields
    <3> QED BY <3>1, <3>3, <3>4, TypedKept
  <2> QED BY <2>5, <2>6
<1> QED BY <1>2, <1>3, <1>4

LEMMA TypedSaved ==
    ASSUME UpInv, UpTyped, NEW r \in reqs, LandSave(r)
    PROVE  UpTyped'
<1>1. /\ DOMAIN ui = UpFields /\ DOMAIN ui.form = FormFields /\ ReqsOk(reqs) /\ TypedReqs(reqs)
      /\ ui.form.auth_type \in AuthTypes /\ \A x \in ui.items : KnownType(x)
  BY UpIs DEF UpTyped, KnownType
<1>2. TypedReqs(reqs \ {r}) /\ TypedReqs(Reload(reqs \ {r}, r)) /\ ReqsOk(reqs \ {r})
  BY <1>1, TypedLanded, LaneLanded
<1>3. CASE ~r.ans.ok
  <2>1. ui' = Finally(failed(ui, r), r) /\ reqs' = Reload(reqs \ {r}, r) /\ srv' = srv
    BY <1>3 DEF LandSave, Apply
  <2>2. ui'.items = ui.items /\ ui'.form = ui.form
    BY <1>1, <2>1 DEF Finally, failed, UpFields
  <2> QED BY <1>2, <2>1, <2>2, TypedKept
<1>4. CASE r.ans.ok
  <2> DEFINE took == [ui EXCEPT !.items = IF r.kind = "patch" THEN Replaced(@, r.ans.row) ELSE @]
  <2>1. /\ DOMAIN took = UpFields /\ took.form = ui.form
        /\ took.items = ui.items \/ (r.kind = "patch" /\ took.items = Replaced(ui.items, r.ans.row))
    BY <1>1 DEF UpFields
  <2>2. \A x \in took.items : KnownType(x)
    BY <1>1, <1>4, <2>1 DEF Replaced, TypedReqs, TypedReq
  <2>3. PICK d : /\ d = (IF r.mine THEN Closed(took, reqs \ {r})
                         ELSE [ui |-> took, reqs |-> reqs \ {r}])
                 /\ ui' = Finally(d.ui, r) /\ srv' = srv
                 /\ reqs' = IF r.kind = "create" THEN With(d.reqs, Request("list", "", NoRow))
                            ELSE d.reqs
    BY <1>4 DEF LandSave, Apply
  <2> HIDE DEF took
  <2>4. /\ DOMAIN d.ui = UpFields /\ d.ui.items = took.items
        /\ d.ui.form.auth_type = ui.form.auth_type /\ TypedReqs(d.reqs)
    <3>1. CASE r.mine
      <4>1. d = Closed(took, reqs \ {r}) /\ DOMAIN took.form = FormFields
        BY <1>1, <2>1, <2>3, <3>1
      <4> QED BY <1>2, <2>1, <4>1, TypedCloses
    <3>2. CASE ~r.mine
      BY <1>2, <2>1, <2>3, <3>2
    <3> QED BY <3>1, <3>2
  <2>5. TypedReqs(With(d.reqs, Request("list", "", NoRow)))
    BY <2>4, TypedSent
  <2>6. ui'.items = took.items /\ ui'.form.auth_type = ui.form.auth_type /\ TypedReqs(reqs')
    BY <2>3, <2>4, <2>5 DEF Finally, UpFields
  <2> QED BY <1>1, <2>2, <2>3, <2>6 DEF UpTyped, TypedRow, KnownType, TypedReqs, TypedReq
<1> QED BY <1>3, <1>4

\* What an answer to a request of this kind may say.
TypedAnswer(kind, ans) ==
    ans.ok => /\ kind \in {"list", "refresh"} => \A x \in ans.rows : KnownType(x)
              /\ kind \in {"patch", "revoke"} => KnownType(ans.row)

\* The server keeps its rows typed and answers with typed rows.
LEMMA TypedServes ==
    ASSUME NEW r, \A u \in srv : TypedRow(u), TypedReq(r), r.kind \in UpKinds
    PROVE  /\ \A u \in Handled(r).srv : TypedRow(u)
           /\ TypedAnswer(r.kind, Handled(r).ans)
<1> DEFINE put(u) == [srv |-> {x \in srv : x.id # u.id} \cup {u}, ans |-> Ok(Present(u), {})]
           kept(a) == [srv |-> srv, ans |-> a]
           Fine(h) == (\A u \in h.srv : TypedRow(u)) /\ TypedAnswer(r.kind, h.ans)
<1>1. ASSUME NEW u, TypedRow(u) PROVE Fine(put(u))
  <2>1. KnownType(Ok(Present(u), {}).row) /\ Ok(Present(u), {}).rows = {}
    BY <1>1 DEF Ok, Present, KnownType, TypedRow
  <2> QED BY <1>1, <2>1 DEF TypedAnswer
<1>2. ASSUME NEW code PROVE Fine(kept(Err(code)))
  BY DEF TypedAnswer, Err, NoAnswer
<1>3. r.kind \notin {"patch", "revoke"} => Fine(kept(Ok(NoRow, {})))
  BY DEF TypedAnswer, Ok
<1>4. r.kind \notin {"patch", "revoke"} => Fine(kept(Ok(NoRow, Listing)))
  <2>1. \A u : Present(u).auth_type = u.auth_type
    BY DEF Present
  <2>2. \A x \in Listing : KnownType(x)
    BY <2>1 DEF Listing, TypedRow, KnownType
  <2> QED BY <2>2 DEF TypedAnswer, Ok
<1>5. Listed(r.id) => TypedRow(Row(r.id))
  BY DEF Listed, Row
<1>6. CASE r.kind \in {"list", "refresh", "discover_form"}
  BY <1>6, <1>3, <1>4 DEF Handled
<1>7. CASE r.kind = "create"
  <2>1. \A i : TypedRow(createUpstream(i, r.arg))
    BY <1>7 DEF createUpstream, TypedRow, TypedReq, KnownType
  <2> QED BY <1>7, <2>1, <1>1, <1>2 DEF Handled
<1>8. CASE r.kind \in {"discover_row", "start"}
  BY <1>8, <1>2, <1>3 DEF Handled
<1>9. CASE r.kind = "patch"
  <2>1. Listed(r.id) => TypedRow(patchUpstream(Row(r.id), r.arg))
    BY <1>5, <1>9 DEF patchUpstream, TypedRow, TypedReq, KnownType, Merged
  <2> QED BY <1>9, <2>1, <1>1, <1>2 DEF Handled
<1>10. CASE r.kind = "delete"
  <2>1. Fine(Deleted(r.id))
    BY <1>10 DEF Deleted, TypedAnswer, Ok, Err, NoAnswer
  <2> QED BY <1>10, <2>1, <1>2 DEF Handled
<1>11. CASE r.kind = "revoke"
  <2>1. Listed(r.id) => TypedRow([Row(r.id) EXCEPT !.stored = Nothing])
    BY <1>5 DEF TypedRow
  <2> QED BY <1>11, <2>1, <1>1, <1>2 DEF Handled
<1> QED BY <1>6, <1>7, <1>8, <1>9, <1>10, <1>11 DEF UpKinds

LEMMA TypedAnswers ==
    ASSUME UpInv, UpTyped, UpRespond \/ UpOther
    PROVE  UpTyped'
<1>1. /\ DOMAIN ui = UpFields /\ ReqsOk(reqs) /\ TypedReqs(reqs) /\ \A u \in srv : TypedRow(u)
      /\ \A r \in reqs : r.kind \in UpKinds
      /\ KnownType(ui.form) /\ \A x \in ui.items : KnownType(x)
  BY UpIs DEF UpTyped
<1>2. ASSUME ui'.items = ui.items, ui'.form = ui.form, \A u \in srv' : TypedRow(u),
             TypedReqs(reqs')
      PROVE  UpTyped'
  BY <1>1, <1>2 DEF UpTyped, TypedRow, KnownType, TypedReqs, TypedReq
<1>3. ASSUME NEW r \in reqs, UpServe(r) \/ UpLose(r) PROVE UpTyped'
  <2>1. /\ \A u \in Handled(r).srv : TypedRow(u)
        /\ TypedAnswer(r.kind, Handled(r).ans)
    BY <1>1, TypedServes DEF TypedReqs
  <2>2. ASSUME NEW a, TypedAnswer(r.kind, a) PROVE TypedReqs(Replied(r, a))
    <3>1. PICK x : x = [r EXCEPT !.st = "answered", !.ans = a]
      OBVIOUS
    <3>2. x.kind = r.kind /\ x.arg = r.arg /\ x.ans = a
      BY <1>1, <3>1 DEF ReqsOk, ReqOk, ReqFields
    <3>3. TypedReq(x)
      BY <1>1, <2>2, <3>2 DEF TypedReqs, TypedReq, TypedAnswer
    <3>4. Replied(r, a) = (reqs \ {r}) \cup {x}
      BY <3>1 DEF Replied
    <3> QED BY <1>1, <3>3, <3>4 DEF TypedReqs
  <2>3. TypedAnswer(r.kind, Err(Network))
    BY DEF TypedAnswer, Err, NoAnswer
  <2>4. CASE UpServe(r)
    <3>1. ui' = ui /\ srv' = Handled(r).srv /\ reqs' = Replied(r, Handled(r).ans)
      BY <2>4 DEF UpServe
    <3> QED BY <1>2, <2>1, <2>2, <3>1
  <2>5. CASE UpLose(r)
    <3>1. /\ ui' = Spend(ui, "fails") /\ srv' \in {srv, Handled(r).srv}
          /\ reqs' = Replied(r, Err(Network))
      BY <2>5 DEF UpLose
    <3>2. ui'.items = ui.items /\ ui'.form = ui.form
      BY <1>1, <3>1 DEF Spend, UpFields
    <3> QED BY <1>1, <1>2, <2>1, <2>2, <2>3, <3>1, <3>2
  <2> QED BY <1>3, <2>4, <2>5
<1>4. CASE UpOther
  <2>1. ui' = Spend(ui, "others") /\ reqs' = reqs
    BY <1>4 DEF UpOther
  <2>2. ui'.items = ui.items /\ ui'.form = ui.form
    BY <1>1, <2>1 DEF Spend, UpFields
  <2>3. PICK u \in srv : \/ srv' = srv \ {u}
                         \/ srv' = (srv \ {u}) \cup {[u EXCEPT !.stored = Blob("set", "")]}
                         \/ srv' = (srv \ {u}) \cup {patchUpstream(u, [auth_type |-> "none"])}
    BY <1>4 DEF UpOther
  <2>4. TypedRow([u EXCEPT !.stored = Blob("set", "")])
    BY <1>1 DEF TypedRow
  <2>5. TypedRow(patchUpstream(u, [auth_type |-> "none"]))
    BY <1>1 DEF TypedRow, patchUpstream, Merged, Has, AuthTypes
  <2> QED BY <1>1, <1>2, <2>1, <2>2, <2>3, <2>4, <2>5
<1> QED BY <1>3, <1>4 DEF UpRespond

LEMMA TypedStep ==
    ASSUME UpInv, UpTyped, UpNext
    PROVE  UpTyped'
<1>1. CASE UpRespond \/ UpOther
  BY <1>1, TypedAnswers
<1>2. CASE UpLand
  <2>1. PICK r \in reqs : \/ LandList(r) \/ LandSave(r) \/ LandDelete(r) \/ LandRevoke(r)
                          \/ LandConnect(r) \/ LandDiscoverForm(r) \/ LandDiscoverRow(r)
    BY <1>2 DEF UpLand
  <2>2. CASE LandList(r) \/ LandDelete(r) \/ LandRevoke(r)
    BY <2>2, TypedLists
  <2>3. CASE LandSave(r)
    BY <2>3, TypedSaved
  <2>4. CASE LandConnect(r) \/ LandDiscoverForm(r) \/ LandDiscoverRow(r)
    BY <2>4, TypedLooks
  <2> QED BY <2>1, <2>2, <2>3, <2>4
<1>3. CASE UpOperate
  <2>1. CASE \/ discoverForm \/ discoverRow \/ closeTools \/ closeDelete \/ remove
             \/ askRevoke \/ closeRevoke \/ revoke \/ restored
             \/ \E u \in ui.items : openTools(u) \/ askDelete(u) \/ connect(u)
    BY <2>1, TypedLooks
  <2>2. CASE openAdd \/ \E u \in ui.items : openEdit(u)
    BY <2>2, TypedOpens
  <2>3. CASE close \/ ChangeField
    BY <2>3, TypedEnters
  <2>4. CASE submit
    BY <2>4, TypedSubmits
  <2> QED BY <1>3, <2>1, <2>2, <2>3, <2>4 DEF UpOperate
<1> QED BY <1>1, <1>2, <1>3 DEF UpNext

LEMMA TypedStarts ==
    ASSUME NEW s \in UpScenarios, UpInit(s)
    PROVE  UpTyped
<1>1. \A u \in srv : TypedRow(u)
  BY UpAuthTypes DEF UpInit, TypedRow
<1>2. ui.items = {} /\ ui.form = blankUpstreamForm
  BY DEF UpInit
<1>3. KnownType(ui.form)
  <2>1. blankUpstreamForm.auth_type = "none"
    BY ONLY TRUE DEF blankUpstreamForm
  <2> QED BY <1>2, <2>1 DEF KnownType, AuthTypes
<1>4. TypedReqs({})
  BY DEF TypedReqs
<1>5. TypedReqs(reqs)
  BY <1>4, TypedSent DEF UpInit
<1> QED BY <1>1, <1>2, <1>3, <1>5 DEF UpTyped

\* What the Edit dialog says of a save is true.
LEMMA LossIsSaid == ASSUME UpTyped PROVE WarnedBeforeLoss
<1> SUFFICES ASSUME On, ui.open, ui.editing # NoRow, NEW u \in srv,
                    Present(u) = ui.editing, ValidForm("edit", ui.editing, ui.form),
                    ~credentialTyped(ui.form),
                    ~\E k \in CredentialBox(ui.form) : ui.form[k] = Spaces
             PROVE  patchUpstream(u, upstreamPatchBody(ui.editing, ui.form)).stored # u.stored
                       <=> \/ /\ ui.form.clear_stored
                              /\ "clear_stored" \in Offered("edit", ui.editing, ui.form)
                           \/ Removals(ui.editing, ui.form) # {}
  BY DEF WarnedBeforeLoss
<1>1. "stored" \in DOMAIN u /\ ui.form.auth_type \in AuthTypes
  BY DEF UpTyped, TypedRow, KnownType
<1> QED BY <1>1, SaveIsWarned

----------------------------------------------------------------------------
\* What a step leaves of the requests: one of those there were, at most less the
\* page's own, or a new one that says nothing yet.
Akin(x, r) == x.kind = r.kind /\ x.id = r.id /\ x.ans = r.ans /\ (x.mine => r.mine)
Unread(x) == x.ans = NoAnswer /\ x.kind # "policy"
Comes(ss, rs) == \A x \in ss : Unread(x) \/ \E r \in rs : Akin(x, r)

LEMMA ComesItself == ASSUME NEW rs, NEW S PROVE Comes(rs, rs) /\ Comes(rs \ S, rs)
BY DEF Comes, Akin

LEMMA ComesComes == ASSUME NEW a, NEW b, NEW c, Comes(a, b), Comes(b, c) PROVE Comes(a, c)
<1> SUFFICES ASSUME NEW x \in a, ~Unread(x) PROVE \E r \in c : Akin(x, r)
  BY DEF Comes
<1>1. PICK y \in b : Akin(x, y)
  BY DEF Comes
<1>2. ~Unread(y)
  BY <1>1 DEF Akin, Unread
<1>3. PICK z \in c : Akin(y, z)
  BY <1>2 DEF Comes
<1> QED BY <1>1, <1>3 DEF Akin

LEMMA ComesBumped == ASSUME NEW rs, NEW K, ReqsOk(rs) PROVE Comes(Bumped(rs, K), rs)
<1> SUFFICES ASSUME NEW x \in Bumped(rs, K) PROVE \E r \in rs : Akin(x, r)
  BY DEF Comes
<1>1. PICK r \in rs : x = IF r.kind \in K THEN [r EXCEPT !.mine = FALSE] ELSE r
  BY DEF Bumped
<1>2. DOMAIN r = ReqFields
  BY DEF ReqsOk, ReqOk
<1>3. Akin(x, r)
  BY <1>1, <1>2 DEF ReqFields, Akin
<1> QED BY <1>3

LEMMA ComesWith ==
    ASSUME NEW rs, NEW req, req.ans = NoAnswer, req.kind # "policy"
    PROVE  Comes(With(rs, req), rs)
<1>1. PICK y : /\ With(rs, req) = rs \cup {y} /\ y.kind = req.kind /\ y.ans = req.ans
  BY WithAdds
<1>2. Unread(y)
  BY <1>1 DEF Unread
<1> QED BY <1>1, <1>2 DEF Comes, Akin

LEMMA ComesSent ==
    ASSUME NEW rs, NEW kind, NEW id, NEW arg, kind # "policy"
    PROVE  Comes(With(rs, Request(kind, id, arg)), rs)
<1> DEFINE req == Request(kind, id, arg)
<1>1. req.ans = NoAnswer /\ req.kind = kind
  BY DEF Request
<1> HIDE DEF req
<1>2. Comes(With(rs, req), rs)
  BY <1>1, ComesWith
<1> QED BY <1>2 DEF req

\* A request that landed is gone, and a list may be asked for.
LEMMA ComesLess ==
    ASSUME NEW rs, NEW r, NEW ss,
           \/ ss = rs \ {r}
           \/ ss = Reload(rs \ {r}, r)
           \/ ss = Relisted(rs \ {r})
    PROVE  Comes(ss, rs)
<1>1. Comes(rs \ {r}, rs)
  BY ComesItself
<1>2. Comes(Relisted(rs \ {r}), rs \ {r})
  <2>1. "list" # "policy"
    OBVIOUS
  <2> QED BY <2>1, ComesSent DEF Relisted
<1>3. ss = rs \ {r} \/ ss = Relisted(rs \ {r})
  BY DEF Reload, Relisted
<1> QED BY <1>1, <1>2, <1>3, ComesComes

LEMMA ComesAged ==
    ASSUME NEW rs, NEW now, ReqsOk(rs)
    PROVE  Comes(Raced(rs, now), rs)
<1> SUFFICES ASSUME NEW x \in Raced(rs, now) PROVE \E r \in rs : Akin(x, r)
  BY DEF Comes
<1>1. PICK r \in rs : x = Aged(r, now)
  BY RacedAged
<1>2. ReqOk(r)
  BY DEF ReqsOk
<1>3. /\ Aged(r, now).kind = r.kind /\ Aged(r, now).mine = r.mine
      /\ Aged(r, now).id = r.id /\ Aged(r, now).ans = r.ans
  BY <1>2, AgedIs
<1>4. Akin(x, r)
  BY <1>1, <1>3 DEF Akin
<1> QED BY <1>4

----------------------------------------------------------------------------
ToldReq(r) == (r.kind = "discover" /\ r.ans.ok) => Tells(memberFromDiscovery(r.ans), r.id)
SameView(u, v) == v.byId \in {u.byId, EmptyCatalogue}

LEMMA ReqsTold ==
    ASSUME NEW u, NEW rs, NEW ss, CatalogueTells(u, rs), Comes(ss, rs)
    PROVE  \A x \in ss : ToldReq(x)
<1> SUFFICES ASSUME NEW x \in ss PROVE ToldReq(x)
  OBVIOUS
<1>1. CASE Unread(x)
  BY <1>1 DEF Unread, ToldReq, NoAnswer
<1>2. CASE \E r \in rs : Akin(x, r)
  <2>1. PICK r \in rs : Akin(x, r)
    BY <1>2
  <2>2. (r.kind = "discover" /\ r.ans.ok) => Tells(memberFromDiscovery(r.ans), r.id)
    BY DEF CatalogueTells
  <2> QED BY <2>1, <2>2 DEF Akin, ToldReq
<1> QED BY <1>1, <1>2 DEF Comes

LEMMA IdleTells == \A i : Tells(idleMember, i)
BY DEF Tells, idleMember

LEMMA EmptyTells == \A i \in DOMAIN EmptyCatalogue : Tells(EmptyCatalogue[i], i)
BY IdleTells DEF EmptyCatalogue

\* The catalogue is kept or dropped, and no discovery is answered.
LEMMA TellsKept ==
    ASSUME NEW u, NEW v, NEW rs, NEW ss, CatalogueTells(u, rs), Comes(ss, rs), SameView(u, v)
    PROVE  CatalogueTells(v, ss)
<1>1. \A x \in ss : ToldReq(x)
  BY ReqsTold
<1>2. \A i \in DOMAIN v.byId : Tells(v.byId[i], i)
  BY EmptyTells DEF SameView, CatalogueTells
<1> QED BY <1>1, <1>2 DEF CatalogueTells, ToldReq

----------------------------------------------------------------------------
\* The three steps of a discovery.
LEMMA StartedTells ==
    ASSUME NEW b, NEW ids, NEW c, \A i \in DOMAIN b : Tells(b[i], i),
           c = [i \in DOMAIN b |-> IF i \in ids THEN [idleMember EXCEPT !.state = "loading"]
                                   ELSE b[i]]
    PROVE  \A i \in DOMAIN c : Tells(c[i], i)
<1>1. \A i : Tells([idleMember EXCEPT !.state = "loading"], i)
  BY DEF Tells, idleMember
<1> QED BY <1>1

LEMMA DiscoveryTells ==
    ASSUME NEW r, NEW a \in Discovered(r).well \cup Discovered(r).badly, a.ok
    PROVE  Tells(memberFromDiscovery(a), r.id)
<1> SUFFICES ASSUME NEW w \in Upstreams, w.id = r.id
             PROVE  /\ (/\ memberFromDiscovery(a).state = "ok"
                        /\ ~memberFromDiscovery(a).truncated)
                          => memberFromDiscovery(a).tools = w.tools
                    /\ memberFromDiscovery(a).state # "ok"
                          => memberFromDiscovery(a).tools = {}
  BY DEF Tells
<1> DEFINE u == CHOOSE x \in Upstreams : x.id = r.id
<1>1. u = w
  BY UpstreamRows
<1> HIDE DEF u
<1>2. \/ a.row = [state |-> "ok", tools |-> w.tools, truncated |-> FALSE, id |-> r.id]
      \/ a.row = [state |-> "ok", tools |-> {t \in w.tools : Len(t) = 1}, truncated |-> TRUE,
                  id |-> r.id]
      \/ a.row = [state |-> "failed", tools |-> {}, truncated |-> FALSE, id |-> r.id]
  <2>1. Discovered(r) =
           [well |-> {Ok([state |-> "ok", tools |-> u.tools, truncated |-> FALSE, id |-> r.id], {})},
            badly |-> {Ok([state |-> "ok", tools |-> {t \in u.tools : Len(t) = 1},
                           truncated |-> TRUE, id |-> r.id], {}),
                       Ok([state |-> "failed", tools |-> {}, truncated |-> FALSE, id |-> r.id], {}),
                       Err(TooMany), Err(Network)}]
    BY DEF Discovered, u
  <2>2. a \notin {Err(TooMany), Err(Network)}
    BY DEF Err, NoAnswer
  <2>3. \A x, y : Ok(x, y).row = x
    BY DEF Ok
  <2>4. a \in Discovered(r).well \/ a \in Discovered(r).badly
    OBVIOUS
  <2>5. CASE a \in Discovered(r).well
    <3>1. a = Ok([state |-> "ok", tools |-> u.tools, truncated |-> FALSE, id |-> r.id], {})
      BY <2>1, <2>5
    <3> QED BY <1>1, <2>3, <3>1
  <2>6. CASE a \in Discovered(r).badly
    <3>1. \/ a = Ok([state |-> "ok", tools |-> {t \in u.tools : Len(t) = 1},
                     truncated |-> TRUE, id |-> r.id], {})
          \/ a = Ok([state |-> "failed", tools |-> {}, truncated |-> FALSE, id |-> r.id], {})
      BY <2>1, <2>2, <2>6
    <3> QED BY <1>1, <2>3, <3>1
  <2> QED BY <2>4, <2>5, <2>6
<1>3. CASE a.row = [state |-> "ok", tools |-> w.tools, truncated |-> FALSE, id |-> r.id]
  BY <1>3 DEF memberFromDiscovery
<1>4. CASE a.row = [state |-> "ok", tools |-> {t \in w.tools : Len(t) = 1}, truncated |-> TRUE,
                    id |-> r.id]
  <2>1. a.row.state = "ok" /\ a.row.truncated
    BY <1>4
  <2>2. /\ memberFromDiscovery(a).state = "ok"
        /\ memberFromDiscovery(a).truncated = a.row.truncated
    BY <2>1 DEF memberFromDiscovery
  <2> QED BY <2>1, <2>2
<1>5. CASE a.row = [state |-> "failed", tools |-> {}, truncated |-> FALSE, id |-> r.id]
  BY <1>5 DEF memberFromDiscovery, idleMember
<1> QED BY <1>2, <1>3, <1>4, <1>5

Learned(x) == x.kind = "discover" /\ x.ans.rows = {}

LEMMA DeskTells ==
    ASSUME DeskPart(ui, reqs), CatalogueTells(ui, reqs), NEW r \in reqs, ServeDiscover(r)
    PROVE  CatalogueTells(ui', reqs') /\ \A x \in reqs' : Learned(x) \/ x \in reqs
<1>1. DOMAIN r = ReqFields
  BY DEF DeskPart, ReqsOk, ReqOk
<1>2. ui'.byId = ui.byId
  BY DEF ServeDiscover, Spend, DeskPart, DeskFields
<1>3. PICK a \in Discovered(r).well \cup Discovered(r).badly : reqs' = Replied(r, a)
  BY DEF ServeDiscover
<1> DEFINE y == [r EXCEPT !.st = "answered", !.ans = a]
<1>4. y.kind = "discover" /\ y.id = r.id /\ y.ans = a
  BY <1>1 DEF ReqFields, ServeDiscover
<1>5. reqs' = (reqs \ {r}) \cup {y}
  BY <1>3 DEF Replied
<1> HIDE DEF y
<1>6. ToldReq(y)
  BY <1>4, DiscoveryTells DEF ToldReq
<1>7. \A x \in reqs' : ToldReq(x)
  BY <1>5, <1>6 DEF CatalogueTells, ToldReq
<1>8. a.rows = {}
  <2>1. \A x : Ok(x, {}).rows = {}
    BY DEF Ok
  <2>2. \A x : Err(x).rows = {}
    BY DEF Err, NoAnswer
  <2> QED BY <2>1, <2>2, Zenon DEF Discovered
<1>9. \A x \in reqs' : Learned(x) \/ x \in reqs
  BY <1>4, <1>5, <1>8 DEF Learned
<1> QED BY <1>2, <1>7, <1>9 DEF CatalogueTells, ToldReq

LEMMA DeskHears ==
    ASSUME DeskPart(ui, reqs), CatalogueTells(ui, reqs), NEW r \in reqs, LandDiscover(r)
    PROVE  CatalogueTells(ui', reqs') /\ Comes(reqs', reqs)
<1>0. {"byId", "run", "rateLimited"} \subseteq DOMAIN ui /\ ReqsOk(reqs)
  BY DEF DeskPart, DeskFields
<1>1. CASE ~r.mine
  <2>1. ui' = ui /\ reqs' = reqs \ {r}
    BY <1>1 DEF LandDiscover, Apply
  <2> QED BY <2>1, ComesItself, TellsKept DEF SameView
<1>2. CASE r.mine
  <2> DEFINE limited == r.ans.code = TooMany
             known == IF r.ans.ok THEN memberFromDiscovery(r.ans)
                      ELSE IF limited THEN idleMember
                      ELSE [idleMember EXCEPT !.state = "failed"]
             u == [ui EXCEPT !.byId[r.id] = known, !.run.limited = @ \/ limited]
             rest == reqs \ {r}
  <2>1. Tells(known, r.id)
    <3>1. CASE r.ans.ok
      BY <3>1 DEF CatalogueTells, LandDiscover
    <3>2. CASE ~r.ans.ok /\ limited
      BY <3>2, IdleTells
    <3>3. CASE ~r.ans.ok /\ ~limited
      BY <3>3 DEF Tells, idleMember
    <3> QED BY <3>1, <3>2, <3>3
  <2>2. u.byId = [ui.byId EXCEPT ![r.id] = known] /\ {"byId", "run", "rateLimited"} \subseteq DOMAIN u
    BY <1>0
  <2>3. \/ ui' = Settled(u, Mine(Discoveries) \ {r}) /\ reqs' = rest
        \/ \E i \in u.run.queue : ui' = Started(u, {i}) /\ reqs' = Asking(i, rest)
    BY <1>2, Zenon DEF LandDiscover, Apply
  <2> HIDE DEF known, u, limited
  <2>4. \A i \in DOMAIN u.byId : Tells(u.byId[i], i)
    BY <2>1, <2>2 DEF CatalogueTells
  <2>5. CASE ui' = Settled(u, Mine(Discoveries) \ {r}) /\ reqs' = rest
    <3>1. ui'.byId = u.byId
      BY <2>2, <2>5 DEF Settled
    <3>2. Comes(reqs', reqs)
      BY <2>5, ComesItself
    <3>3. \A x \in reqs' : ToldReq(x)
      BY <3>2, ReqsTold
    <3> QED BY <2>4, <3>1, <3>2, <3>3 DEF CatalogueTells, ToldReq
  <2>6. CASE \E i \in u.run.queue : ui' = Started(u, {i}) /\ reqs' = Asking(i, rest)
    <3>1. PICK i \in u.run.queue : ui' = Started(u, {i}) /\ reqs' = Asking(i, rest)
      BY <2>6
    <3>2. ui'.byId = [j \in DOMAIN u.byId |->
                        IF j \in {i} THEN [idleMember EXCEPT !.state = "loading"] ELSE u.byId[j]]
      BY <2>2, <3>1 DEF Started
    <3>3. \A j \in DOMAIN ui'.byId : Tells(ui'.byId[j], j)
      BY <2>4, <3>2, StartedTells
    <3>4. Comes(reqs', rest) /\ Comes(rest, reqs)
      <4>1. "discover" # "policy"
        OBVIOUS
      <4>2. Comes(Asking(i, rest), rest)
        BY ONLY <4>1, ComesSent DEF Asking
      <4> QED BY <3>1, <4>2, ComesItself
    <3>5. Comes(reqs', reqs)
      BY <3>4, ComesComes
    <3>6. \A x \in reqs' : ToldReq(x)
      BY <3>5, ReqsTold
    <3> QED BY <3>3, <3>5, <3>6 DEF CatalogueTells, ToldReq
  <2> QED BY <2>3, <2>5, <2>6
<1> QED BY <1>1, <1>2

LEMMA DeskAsks ==
    ASSUME DeskPart(ui, reqs), CatalogueTells(ui, reqs), NEW ids, load(ids)
    PROVE  /\ CatalogueTells(ui', reqs') /\ Comes(reqs', reqs)
           /\ KeepsBut(ui, ui', LoadFields) /\ srv' = srv
<1>0. {"byId", "run", "rateLimited", "pressed", "budget"} \subseteq DOMAIN ui
  BY DEF DeskPart, DeskFields
<1> DEFINE u == [ui EXCEPT !.rateLimited = FALSE, !.pressed = @ \cup ids,
                           !.run = [on |-> TRUE, queue |-> ids, limited |-> FALSE]]
<1>1. PICK a, b \in ids :
         /\ ui' = Spend(Started(u, {a, b}), "loads")
         /\ reqs' = IF a = b THEN Asking(a, reqs) ELSE Asking(b, Asking(a, reqs))
  BY DEF load, Apply
<1>2. u.byId = ui.byId /\ {"byId", "run", "budget"} \subseteq DOMAIN u
  BY <1>0
<1>8. KeepsBut(ui, u, LoadFields)
  BY DEF KeepsBut, LoadFields
<1> HIDE DEF u
<1>3. ui'.byId = [j \in DOMAIN u.byId |->
                    IF j \in {a, b} THEN [idleMember EXCEPT !.state = "loading"] ELSE u.byId[j]]
  BY <1>1, <1>2 DEF Started, Spend
<1>4. \A j \in DOMAIN ui'.byId : Tells(ui'.byId[j], j)
  BY <1>2, <1>3, StartedTells DEF CatalogueTells
<1>5. Comes(Asking(a, reqs), reqs) /\ Comes(Asking(b, Asking(a, reqs)), Asking(a, reqs))
  BY ComesSent DEF Asking
<1>6. Comes(reqs', reqs)
  BY <1>1, <1>5, ComesComes
<1>7. \A x \in reqs' : ToldReq(x)
  BY <1>6, ReqsTold
<1>9. KeepsBut(u, ui', LoadFields)
  BY <1>1 DEF KeepsBut, LoadFields, Started, Spend
<1>10. KeepsBut(ui, ui', LoadFields)
  BY <1>8, <1>9 DEF KeepsBut
<1> QED BY <1>4, <1>6, <1>7, <1>10 DEF CatalogueTells, ToldReq, load, Apply

\* Any other request served says nothing of a catalogue.
LEMMA ServedTells ==
    ASSUME DeskPart(ui, reqs), CatalogueTells(ui, reqs), NEW r \in reqs, r.kind # "discover",
           NEW a, NEW now, reqs' = Served(r, a, now), ui'.byId = ui.byId
    PROVE  CatalogueTells(ui', reqs')
<1>1. ReqsOk(reqs) /\ ReqsOk(reqs \ {r}) /\ DOMAIN r = ReqFields
  BY DEF DeskPart, ReqsOk, ReqOk
<1>2. Comes(Raced(reqs \ {r}, now), reqs)
  BY <1>1, ComesAged, ComesItself, ComesComes
<1>3. \A x \in Raced(reqs \ {r}, now) : ToldReq(x)
  BY <1>2, ReqsTold
<1>4. ToldReq([r EXCEPT !.st = "answered", !.ans = a])
  BY <1>1 DEF ToldReq, ReqFields
<1>5. \A x \in reqs' : ToldReq(x)
  BY <1>3, <1>4 DEF Served
<1> QED BY <1>5 DEF CatalogueTells, ToldReq

----------------------------------------------------------------------------
\* The Groups page: what its catalogue says stays true.
GroupTells == CatalogueTells(ui, reqs) /\ GroupsLoaded(ui)
Still(u, v) == v.byId = u.byId /\ v.upstreams = u.upstreams
Looks(u, v) == SameView(u, v) /\ v.upstreams \in {u.upstreams, Upstreams}

LEMMA GroupLooks ==
    ASSUME GroupTells, Looks(ui, ui'), Comes(reqs', reqs)
    PROVE  GroupTells'
<1>1. CatalogueTells(ui', reqs')
  BY TellsKept DEF GroupTells, Looks
<1>2. GroupsLoaded(ui')
  BY DEF GroupTells, GroupsLoaded, Looks
<1> QED BY <1>1, <1>2 DEF GroupTells

LEMMA StillLooks == ASSUME NEW u, NEW v, Still(u, v) PROVE Looks(u, v)
BY DEF Still, Looks, SameView

LEMMA FailedStill ==
    ASSUME NEW u, NEW r, NEW v, {"byId", "upstreams"} \subseteq DOMAIN u,
           v = failed(u, r) \/ v = Finally(u, r) \/ v = Finally(failed(u, r), r)
    PROVE  Still(u, v)
BY DEF Still, failed, Finally

LEMMA ReadComes ==
    ASSUME NEW r \in reqs, NEW stale, LandRead(r, stale),
           {"byId", "upstreams"} \subseteq DOMAIN ui
    PROVE  Comes(reqs', reqs) /\ Still(ui, ui')
<1> DEFINE rest == reqs \ {r}
           p == [Request("patch", r.id, r.arg) EXCEPT !.mine = r.mine]
<1>1. p.ans = NoAnswer /\ p.kind = "patch"
  BY DEF Request
<1> HIDE DEF p
<1>2. \/ ui' = Finally(failed(ui, r), r) /\ reqs' = Reload(rest, r)
      \/ ui' = Finally(failed(ui, r), r) /\ reqs' = rest
      \/ ui' = ui /\ reqs' = With(rest, p)
  BY DEF LandRead, Apply, p
<1>3. CASE ui' = Finally(failed(ui, r), r) /\ reqs' \in {Reload(rest, r), rest}
  BY <1>3, ComesLess, FailedStill
<1>4. CASE ui' = ui /\ reqs' = With(rest, p)
  <2>1. Comes(reqs', rest) /\ Comes(rest, reqs)
    BY <1>1, <1>4, ComesWith, ComesItself
  <2> QED BY <1>4, <2>1, ComesComes DEF Still
<1> QED BY <1>2, <1>3, <1>4

LEMMA SavedComes ==
    ASSUME NEW r \in reqs, NEW took, NEW closed, LandSaved(r, took, closed),
           {"byId", "upstreams"} \subseteq DOMAIN ui, {"byId", "upstreams"} \subseteq DOMAIN took,
           {"byId", "upstreams"} \subseteq DOMAIN closed, Still(ui, took), Still(ui, closed)
    PROVE  Comes(reqs', reqs) /\ Still(ui, ui')
<1> DEFINE rest == reqs \ {r}
<1>1. \/ /\ \E c \in {took, closed} : ui' = Finally(c, r)
         /\ reqs' \in {Relisted(rest), rest}
      \/ ui' = Finally(failed(ui, r), r) /\ reqs' = Reload(rest, r)
  BY DEF LandSaved, Apply, Relisted
<1>2. CASE /\ \E c \in {took, closed} : ui' = Finally(c, r)
           /\ reqs' \in {Relisted(rest), rest}
  <2>1. PICK c \in {took, closed} : ui' = Finally(c, r)
    BY <1>2
  <2>2. Still(c, ui')
    BY <2>1, FailedStill
  <2>3. Comes(reqs', reqs)
    BY <1>2, ComesLess
  <2> QED BY <2>2, <2>3 DEF Still
<1>3. CASE ui' = Finally(failed(ui, r), r) /\ reqs' = Reload(rest, r)
  BY <1>3, ComesLess, FailedStill
<1> QED BY <1>1, <1>2, <1>3

LEMMA GroupResumesCalm ==
    ASSUME NEW u, {"byId", "upstreams"} \subseteq DOMAIN u, Still(ui, u), Resumed(u)
    PROVE  Comes(reqs', reqs) /\ Still(ui, ui')
<1>1. \A kind \in Saves : \A body :
         Comes(With(reqs, Sending(u, kind, body)), reqs)
  <2> SUFFICES ASSUME NEW kind \in Saves, NEW body
               PROVE  Comes(With(reqs, Sending(u, kind, body)), reqs)
    OBVIOUS
  <2>1. kind # "policy"
    BY DEF Saves
  <2> QED BY <2>1, ComesSent DEF Sending
<1>2. \/ ui' \in {GroupClosed(u), [u EXCEPT !.confirmEmpty = TRUE],
                  [u EXCEPT !.confirmBlocks = TRUE]} /\ reqs' = reqs
      \/ ui' = [u EXCEPT !.saving = TRUE]
         /\ \E kind \in Saves : \E body : reqs' = With(reqs, Sending(u, kind, body))
  <2>1. CASE saveGroup(u)
    <3> DEFINE body == groupPatchBody(u.editing, u.form)
               k == IF "tool_filter" \in DOMAIN body THEN "read" ELSE "patch"
    <3>1. k \in Saves
      BY DEF Saves
    <3>2. \/ ui' \in {GroupClosed(u), [u EXCEPT !.confirmEmpty = TRUE],
                      [u EXCEPT !.confirmBlocks = TRUE]} /\ reqs' = reqs
          \/ ui' = [u EXCEPT !.saving = TRUE] /\ reqs' = With(reqs, Sending(u, k, body))
      BY <2>1, Zenon DEF saveGroup, Apply
    <3> QED BY <3>1, <3>2
  <2>2. CASE createGroup(u)
    <3>1. "create" \in Saves
      BY DEF Saves
    <3> QED BY <2>2, <3>1 DEF createGroup, Apply
  <2> QED BY <2>1, <2>2 DEF Resumed
<1>3. Comes(reqs', reqs)
  BY <1>1, <1>2, ComesItself
<1>4. Still(u, ui')
  BY <1>2 DEF Still, GroupClosed
<1> QED BY <1>3, <1>4 DEF Still

LEMMA GroupOpenedCalm ==
    ASSUME NEW u, DeskFields \subseteq DOMAIN u, Still(ui, u), ReqsOk(reqs), groupOpened(u)
    PROVE  Comes(reqs', reqs) /\ Looks(ui, ui')
<1> DEFINE s == resetCatalogue(u, reqs)
           o == opened(s.ui, s.reqs)
<1>1. /\ s.ui.byId = EmptyCatalogue /\ s.ui.upstreams = u.upstreams /\ DOMAIN s.ui = DOMAIN u
      /\ s.reqs = Bumped(reqs, Discoveries)
  BY DEF resetCatalogue, DeskFields
<1>2. ReqsOk(s.reqs) /\ Comes(s.reqs, reqs)
  BY <1>1, Renumbered, ComesBumped
<1> HIDE DEF s
<1>3. o.ui.byId = s.ui.byId /\ o.ui.upstreams = s.ui.upstreams /\ o.reqs = Bumped(s.reqs, Saves)
  BY <1>1 DEF opened, Spend, DeskFields
<1>4. Comes(o.reqs, s.reqs)
  BY <1>2, <1>3, ComesBumped
<1>5. ui' = o.ui /\ reqs' = o.reqs
  BY DEF groupOpened, Apply, s
<1> HIDE DEF o
<1>6. Comes(reqs', reqs)
  BY <1>2, <1>4, <1>5, ComesComes
<1> QED BY <1>1, <1>3, <1>5, <1>6 DEF Looks, SameView, Still

LEMMA GroupUiIs ==
    ASSUME GroupInv
    PROVE  /\ GroupUi = DOMAIN ui /\ {"byId", "upstreams"} \subseteq DOMAIN ui
           /\ DeskFields \subseteq DOMAIN ui /\ ReqsOk(reqs) /\ DeskPart(ui, reqs)
<1>1. DOMAIN ui = GroupUi /\ DeskPart(ui, reqs) /\ ReqsOk(reqs)
  BY GroupIs
<1> QED BY <1>1 DEF GroupUi, DeskFields

LEMMA GroupOperatesTells ==
    ASSUME GroupInv, GroupTells, GroupOperate
    PROVE  GroupTells'
<1>0. DOMAIN ui = GroupUi /\ ReqsOk(reqs) /\ DeskPart(ui, reqs)
  BY GroupUiIs
<1>1. CASE closeGroup \/ changeGroup \/ cancelConfirm \/ closeDelete
           \/ \E g \in ui.items : askDeleteGroup(g)
  <2>1. reqs' = reqs /\ Still(ui, ui')
    <3>1. CASE closeGroup \/ cancelConfirm \/ closeDelete
      BY <1>0, <3>1 DEF closeGroup, GroupClosed, cancelConfirm, closeDelete, Apply, Still, GroupUi
    <3>2. CASE changeGroup
      BY <1>0, <3>2 DEF changeGroup, Spend, Apply, Still, GroupUi
    <3>3. CASE \E g \in ui.items : askDeleteGroup(g)
      BY <1>0, <3>3 DEF askDeleteGroup, Spend, Apply, Still, GroupUi
    <3> QED BY <1>1, <3>1, <3>2, <3>3
  <2> QED BY <2>1, StillLooks, ComesItself, GroupLooks
<1>2. CASE openCreateGroup \/ \E g \in ui.items : openEditGroup(g)
  <2>1. PICK u : /\ groupOpened(u)
                 /\ \/ u = [ui EXCEPT !.editing = NoRow, !.formError = "",
                                      !.form = blankGroupForm]
                    \/ \E g \in ui.items : u = [ui EXCEPT !.editing = g, !.formError = "",
                                                          !.form = formFromGroup(g)]
    BY <1>2 DEF openCreateGroup, openEditGroup
  <2>2. DOMAIN u = DOMAIN ui /\ Still(ui, u)
    BY <1>0, <2>1 DEF Still, GroupUi
  <2>3. DeskFields \subseteq DOMAIN u
    BY <2>2, GroupUiIs
  <2> QED BY <1>0, <2>1, <2>2, <2>3, GroupOpenedCalm, GroupLooks
<1>3. CASE loadGroupTools
  <2>1. PICK ids : load(ids)
    BY <1>3 DEF loadGroupTools
  <2>2. CatalogueTells(ui', reqs') /\ KeepsBut(ui, ui', LoadFields)
    BY <1>0, <2>1, DeskAsks DEF GroupTells
  <2>3. ui'.upstreams = ui.upstreams
    BY <1>0, <2>2 DEF KeepsBut, LoadFields, GroupUi
  <2> QED BY <2>2, <2>3 DEF GroupTells, GroupsLoaded
<1>4. CASE submitGroup \/ confirmRemoveAll \/ confirmBlocksAll
  <2>1. PICK u : Resumed(u) /\ DOMAIN u = DOMAIN ui /\ Still(ui, u)
    <3>1. CASE submitGroup
      <4> DEFINE u == [ui EXCEPT !.formError = "", !.agreed = {},
                                 !.answered = [empty |-> FALSE, blocks |-> FALSE]]
      <4>1. Resumed(u)
        BY <3>1 DEF submitGroup
      <4>2. DOMAIN u = DOMAIN ui /\ Still(ui, u)
        BY <1>0 DEF Still, GroupUi
      <4> QED BY <4>1, <4>2
    <3>2. CASE confirmBlocksAll
      <4> DEFINE u == [ui EXCEPT !.confirmBlocks = FALSE, !.answered.blocks = TRUE,
                                 !.agreed = @ \cup {<<"blocks", SaveBody>>}]
      <4>1. Resumed(u)
        BY <3>2 DEF confirmBlocksAll
      <4>2. DOMAIN u = DOMAIN ui /\ Still(ui, u)
        BY <1>0 DEF Still, GroupUi
      <4> QED BY <4>1, <4>2
    <3>3. CASE confirmRemoveAll
      <4> DEFINE u == [ui EXCEPT !.confirmEmpty = FALSE, !.answered.empty = TRUE,
                                 !.agreed = @ \cup {<<"empty", SaveBody>>}]
      <4>1. saveGroup(u)
        BY <3>3 DEF confirmRemoveAll
      <4>2. DOMAIN u = DOMAIN ui /\ Still(ui, u)
        BY <1>0 DEF Still, GroupUi
      <4>3. ui.editing # NoRow
        BY <3>3, GroupIs DEF confirmRemoveAll, ConfirmPart
      <4> QED BY <4>1, <4>2, <4>3 DEF Resumed, mode
    <3> QED BY <1>4, <3>1, <3>2, <3>3
  <2>2. {"byId", "upstreams"} \subseteq DOMAIN u
    BY <2>1, GroupUiIs
  <2> QED BY <2>1, <2>2, GroupResumesCalm, StillLooks, GroupLooks
<1>5. CASE remove
  <2>1. Still(ui, ui')
    BY <1>0, <1>5 DEF remove, Apply, Still, GroupUi
  <2>2. Comes(reqs', reqs)
    <3>1. "delete" # "policy"
      OBVIOUS
    <3> QED BY <1>5, <3>1, ComesSent DEF remove, Apply
  <2> QED BY <2>1, <2>2, StillLooks, GroupLooks
<1> QED BY <1>1, <1>2, <1>3, <1>4, <1>5 DEF GroupOperate

LEMMA GroupLandsTells ==
    ASSUME GroupInv, GroupTells, GroupLand
    PROVE  GroupTells'
<1>0. DOMAIN ui = GroupUi /\ ReqsOk(reqs) /\ {"byId", "upstreams"} \subseteq DOMAIN ui
  BY GroupUiIs
<1>1. PICK r \in reqs : LandGroupList(r) \/ LandGroupRead(r) \/ LandGroupSave(r) \/ LandDelete(r)
  BY DEF GroupLand
<1>2. CASE LandGroupList(r)
  <2>1. Looks(ui, ui')
    BY <1>0, <1>2 DEF LandGroupList, Looks, SameView, GroupUi
  <2>2. Comes(reqs', reqs)
    BY <1>2, ComesLess DEF LandGroupList
  <2> QED BY <2>1, <2>2, GroupLooks
<1>3. CASE LandGroupRead(r)
  BY <1>0, <1>3, ReadComes, StillLooks, GroupLooks DEF LandGroupRead
<1>4. CASE LandGroupSave(r)
  <2>1. PICK took, closed : /\ LandSaved(r, took, closed)
                            /\ DOMAIN took = DOMAIN ui /\ DOMAIN closed = DOMAIN ui
                            /\ Still(ui, took) /\ Still(ui, closed)
    <3>1. CASE r.kind = "create"
      <4> DEFINE closed == [GroupClosed(ui) EXCEPT !.form = blankGroupForm]
      <4>1. LandSaved(r, ui, closed)
        BY <1>4, <3>1 DEF LandGroupSave
      <4>2. DOMAIN closed = DOMAIN ui /\ Still(ui, closed)
        BY <1>0 DEF Still, GroupUi, GroupClosed
      <4> QED BY <4>1, <4>2 DEF Still
    <3>2. CASE r.kind # "create"
      <4> DEFINE took == [ui EXCEPT !.items = Replaced(@, r.ans.row)]
                 closed == GroupClosed(took)
      <4>1. LandSaved(r, took, closed)
        BY <1>4, <3>2 DEF LandGroupSave
      <4>2. DOMAIN took = DOMAIN ui /\ Still(ui, took)
        BY <1>0 DEF Still, GroupUi
      <4>3. DOMAIN closed = DOMAIN ui /\ Still(ui, closed)
        BY <1>0 DEF Still, GroupUi, GroupClosed
      <4> QED BY <4>1, <4>2, <4>3
    <3> QED BY <3>1, <3>2
  <2> QED BY <1>0, <2>1, SavedComes, StillLooks, GroupLooks
<1>5. CASE LandDelete(r)
  <2>1. Still(ui, ui')
    BY <1>0, <1>5 DEF LandDelete, Still, GroupUi
  <2>2. Comes(reqs', reqs)
    BY <1>5, ComesLess DEF LandDelete
  <2> QED BY <2>1, <2>2, StillLooks, GroupLooks
<1> QED BY <1>1, <1>2, <1>3, <1>4, <1>5

LEMMA GroupStepTells ==
    ASSUME GroupInv, GroupTells, GroupNext
    PROVE  GroupTells'
<1>0. DOMAIN ui = GroupUi /\ ReqsOk(reqs) /\ DeskPart(ui, reqs)
  BY GroupUiIs
<1>1. CASE OtherGroup
  <2>1. Still(ui, ui')
    BY <1>0, <1>1 DEF OtherGroup, Spend, Still, GroupUi
  <2>2. Comes(reqs', reqs)
    BY <1>0, <1>1, ComesAged DEF OtherGroup
  <2> QED BY <2>1, <2>2, StillLooks, GroupLooks
<1>2. CASE \E r \in reqs : ServeGroup(r)
  <2>1. PICK r \in reqs : r.kind # "discover" /\ Serve(r, HandledGroup(r))
    BY <1>2 DEF ServeGroup
  <2>2. PICK a : reqs' = Served(r, a, srv') /\ (ui' = ui \/ ui' = Spend(ui, "fails"))
    BY <2>1, ServedIs
  <2>3. Still(ui, ui')
    BY <1>0, <2>2 DEF Spend, Still, GroupUi
  <2>4. CatalogueTells(ui', reqs')
    BY <1>0, <2>1, <2>2, <2>3, ServedTells DEF Still, GroupTells
  <2> QED BY <2>3, <2>4 DEF Still, GroupTells, GroupsLoaded
<1>3. CASE \E r \in reqs : ServeDiscover(r) \/ LandDiscover(r)
  <2>1. PICK r \in reqs : ServeDiscover(r) \/ LandDiscover(r)
    BY <1>3
  <2>2. CatalogueTells(ui', reqs')
    BY <1>0, <2>1, DeskTells, DeskHears DEF GroupTells
  <2>3. KeepsBut(ui, ui', LoadFields)
    BY <1>0, <2>1, DeskServes, DeskLearns
  <2>4. ui'.upstreams = ui.upstreams
    BY <1>0, <2>3 DEF KeepsBut, LoadFields, GroupUi
  <2> QED BY <2>2, <2>4 DEF GroupTells, GroupsLoaded
<1> QED BY <1>1, <1>2, <1>3, GroupOperatesTells, GroupLandsTells DEF GroupNext

LEMMA GroupStartsTelling ==
    ASSUME NEW s \in GroupScenarios, GroupInit(s)
    PROVE  GroupTells
<1>1. ui.byId = EmptyCatalogue /\ ui.upstreams = {}
  BY DEF GroupInit
<1>2. Comes(reqs, {})
  <2>1. "list" # "policy"
    OBVIOUS
  <2> QED BY <2>1, ComesSent DEF GroupInit
<1>3. CatalogueTells(ui, {})
  BY <1>1, EmptyTells DEF CatalogueTells
<1>4. CatalogueTells(ui, reqs)
  BY <1>2, <1>3, TellsKept DEF SameView
<1> QED BY <1>1, <1>4 DEF GroupTells, GroupsLoaded

----------------------------------------------------------------------------
\* The Virtual keys page: the same of its catalogue, and of what it was told
\* of a key's target.
KeyTells == /\ CatalogueTells(ui, reqs) /\ KeysLoaded(ui)
            /\ TargetsPart(ui, reqs, srv) /\ PolicyPart(ui, reqs, srv)
SameKeys(u, v) == /\ v.upstreams = u.upstreams /\ v.groups = u.groups /\ v.items = u.items
                  /\ v.policy = u.policy /\ v.policyKey = u.policyKey
KeyStill(u, v) == SameView(u, v) /\ SameKeys(u, v)
KeyShown == {"byId", "upstreams", "groups", "items", "policy", "policyKey"}

LEMMA TargetsCome ==
    ASSUME NEW rs, NEW ss, NEW S, Comes(ss, rs),
           \A r \in rs : r.ans.ok => \A x \in RowsTold(r) : OfRows(x, S)
    PROVE  \A r \in ss : r.ans.ok => \A x \in RowsTold(r) : OfRows(x, S)
<1> SUFFICES ASSUME NEW y \in ss, y.ans.ok, NEW x \in RowsTold(y) PROVE OfRows(x, S)
  OBVIOUS
<1>1. ~Unread(y)
  BY DEF Unread, NoAnswer
<1>2. PICK r \in rs : Akin(y, r)
  BY <1>1 DEF Comes
<1>3. r.ans.ok /\ x \in RowsTold(r)
  BY <1>2 DEF Akin, RowsTold
<1> QED BY <1>3

PolicyReq(r, vk, S) ==
    (r.kind = "policy" /\ r.mine) =>
          /\ r.id = vk.id /\ OfRows(vk, S)
          /\ r.ans.ok => About(r.ans.row, vk)

LEMMA PolicyComes ==
    ASSUME NEW rs, NEW ss, NEW vk, NEW S, Comes(ss, rs), \A r \in rs : PolicyReq(r, vk, S)
    PROVE  \A r \in ss : PolicyReq(r, vk, S)
<1> SUFFICES ASSUME NEW y \in ss, y.kind = "policy", y.mine PROVE PolicyReq(y, vk, S)
  BY DEF PolicyReq
<1>1. PICK r \in rs : Akin(y, r)
  BY DEF Comes, Unread
<1>2. PolicyReq(r, vk, S)
  OBVIOUS
<1> QED BY <1>1, <1>2 DEF Akin, PolicyReq

\* Nothing is written: the table shows rows it was told of, and the Policy
\* dialog is about the same key.
LEMMA KeyShows ==
    ASSUME KeyTells, srv' = srv, Comes(reqs', reqs), SameView(ui, ui'), KeysLoaded(ui'),
           \A x \in ui'.items : x \in ui.items \/ OfRows(x, srv),
           ui'.policyKey = ui.policyKey, \A v \in ui'.policy : About(v, ui.policyKey)
    PROVE  KeyTells'
<1>1. CatalogueTells(ui', reqs')
  BY TellsKept DEF KeyTells
<1>2. TargetsPart(ui', reqs', srv')
  BY TargetsCome DEF KeyTells, TargetsPart
<1>3. \A r \in reqs : PolicyReq(r, ui.policyKey, srv)
  BY DEF KeyTells, PolicyPart, PolicyReq
<1>4. \A r \in reqs' : PolicyReq(r, ui.policyKey, srv)
  BY <1>3, PolicyComes
<1>5. PolicyPart(ui', reqs', srv')
  BY <1>4 DEF PolicyPart, PolicyReq
<1> QED BY <1>1, <1>2, <1>5 DEF KeyTells

LEMMA KeyCalm ==
    ASSUME KeyTells, srv' = srv, Comes(reqs', reqs), KeyStill(ui, ui')
    PROVE  KeyTells'
<1>1. \A v \in ui.policy : About(v, ui.policyKey)
  BY DEF KeyTells, PolicyPart
<1> QED BY <1>1, KeyShows DEF KeyStill, SameKeys, KeyTells, KeysLoaded

LEMMA KeepsStill ==
    ASSUME NEW u, NEW v, NEW K, KeepsBut(u, v, K), KeyShown \subseteq DOMAIN u,
           K \cap KeyShown = {}
    PROVE  KeyStill(u, v) /\ Still(u, v)
BY DEF KeepsBut, KeyShown, KeyStill, SameView, SameKeys, Still

LEMMA KeyUiIs ==
    ASSUME KeyInv
    PROVE  /\ DOMAIN ui = KeyUi /\ KeyShown \subseteq DOMAIN ui
           /\ ReqsOk(reqs) /\ DeskPart(ui, reqs)
<1>1. DOMAIN ui = KeyUi /\ DeskPart(ui, reqs) /\ ReqsOk(reqs)
  BY KeyIs
<1> QED BY <1>1 DEF KeyUi, KeyShown

LEMMA EndedKeeps ==
    ASSUME NEW u, NEW r, NEW v,
           v = failed(u, r) \/ v = Finally(u, r) \/ v = Finally(failed(u, r), r)
    PROVE  KeepsBut(u, v, Outcome)
BY DEF KeepsBut, Outcome, failed, Finally

LEMMA KeyOpenedTells ==
    ASSUME KeyInv, KeyTells, NEW u, KeepsBut(ui, u, {"editing", "form"}), keyOpened(u)
    PROVE  KeyTells'
<1>0. KeyShown \subseteq DOMAIN ui /\ ReqsOk(reqs)
  BY KeyUiIs
<1> DEFINE w == [u EXCEPT !.formError = ""]
           s == resetCatalogue(w, reqs)
           o == opened(s.ui, s.reqs)
<1>1. ui' = o.ui /\ reqs' = o.reqs /\ srv' = srv
  BY DEF keyOpened, Apply
<1>2. /\ s.ui = [w EXCEPT !.byId = EmptyCatalogue, !.rateLimited = FALSE, !.run = NoRun,
                          !.pressed = {}]
      /\ s.reqs = Bumped(reqs, Discoveries)
  BY DEF resetCatalogue
<1>3. KeepsBut(u, w, {"formError"})
  BY DEF KeepsBut
<1>4. KeepsBut(ui, w, {"editing", "form", "formError"})
  BY <1>3 DEF KeepsBut
<1> HIDE DEF w
<1>5. KeepsBut(w, s.ui, {"byId", "rateLimited", "run", "pressed"})
      /\ ("byId" \in DOMAIN w => s.ui.byId = EmptyCatalogue)
  BY <1>2 DEF KeepsBut
<1> HIDE DEF s
<1>6. KeepsBut(s.ui, o.ui, {"open", "saving", "formError", "budget"})
      /\ o.reqs = Bumped(s.reqs, Saves)
  BY DEF opened, Spend, KeepsBut
<1>7. Comes(s.reqs, reqs) /\ ReqsOk(s.reqs)
  BY <1>0, <1>2, Renumbered, ComesBumped
<1>8. Comes(o.reqs, s.reqs)
  BY <1>6, <1>7, ComesBumped
<1> HIDE DEF o
<1>9. Comes(reqs', reqs)
  BY <1>1, <1>7, <1>8, ComesComes
<1>10. SameKeys(ui, s.ui) /\ s.ui.byId = EmptyCatalogue /\ KeyShown \subseteq DOMAIN s.ui
  BY <1>0, <1>4, <1>5 DEF KeepsBut, SameKeys, KeyShown
<1>11. SameKeys(s.ui, ui') /\ ui'.byId = EmptyCatalogue
  BY <1>1, <1>6, <1>10 DEF KeepsBut, SameKeys, KeyShown
<1>12. KeyStill(ui, ui')
  BY <1>10, <1>11 DEF KeyStill, SameView, SameKeys
<1> QED BY <1>1, <1>9, <1>12, KeyCalm

LEMMA KeyStands ==
    ASSUME KeyInv, KeyTells, NEW K, KeepsBut(ui, ui', K), K \cap KeyShown = {}, srv' = srv,
           Comes(reqs', reqs)
    PROVE  KeyTells'
BY KeyUiIs, KeepsStill, KeyCalm

LEMMA KeyTurns ==
    ASSUME KeyInv, KeyTells,
           \/ closeKey \/ changeKey \/ closeSecret \/ cancelDeleteKey
           \/ \E vk \in ui.items : askDeleteKey(vk)
    PROVE  KeyTells'
<1>1. reqs' = reqs /\ srv' = srv
  BY DEF closeKey, changeKey, closeSecret, cancelDeleteKey, askDeleteKey, Apply
<1>2. KeepsBut(ui, ui', {"open", "form", "budget", "secret", "pendingDelete"})
  BY DEF closeKey, changeKey, closeSecret, cancelDeleteKey, askDeleteKey, Apply, Spend, KeepsBut
<1> QED BY <1>1, <1>2, ComesItself, KeyStands DEF KeyShown

LEMMA KeyAimsTells ==
    ASSUME KeyInv, KeyTells, retarget
    PROVE  KeyTells'
<1>0. KeyShown \subseteq DOMAIN ui /\ ReqsOk(reqs)
  BY KeyUiIs
<1>1. PICK f : Apply(resetCatalogue(Spend([ui EXCEPT !.form = f], "edits"), reqs))
  BY DEF retarget
<1> DEFINE u == Spend([ui EXCEPT !.form = f], "edits")
           s == resetCatalogue(u, reqs)
<1>2. KeepsBut(ui, u, {"form", "budget"})
  BY DEF KeepsBut, Spend
<1> HIDE DEF u
<1>3. /\ KeepsBut(u, s.ui, {"byId", "rateLimited", "run", "pressed"})
      /\ ("byId" \in DOMAIN u => s.ui.byId = EmptyCatalogue)
      /\ s.reqs = Bumped(reqs, Discoveries)
  BY DEF resetCatalogue, KeepsBut
<1>4. ui' = s.ui /\ reqs' = s.reqs /\ srv' = srv
  BY <1>1 DEF Apply, u
<1> HIDE DEF s
<1>5. SameKeys(ui, ui') /\ ui'.byId = EmptyCatalogue
  BY <1>0, <1>2, <1>3, <1>4 DEF KeepsBut, SameKeys, KeyShown
<1>6. Comes(reqs', reqs)
  BY <1>0, <1>3, <1>4, ComesBumped
<1> QED BY <1>4, <1>5, <1>6, KeyCalm DEF KeyStill, SameView

LEMMA KeyAsks ==
    ASSUME KeyInv, KeyTells,
           submitKey \/ removeKey \/ \E vk \in ui.items : \E kind \in {"rotate", "revoke"} :
                                        pressKey(kind, vk)
    PROVE  KeyTells'
<1>1. srv' = srv
  BY DEF submitKey, removeKey, pressKey, Apply
<1>2. KeepsBut(ui, ui', {"open", "saving", "formError", "budget"})
  <2>1. CASE submitKey
    BY <2>1 DEF submitKey, Apply, KeepsBut
  <2>2. CASE ~submitKey
    BY <2>2 DEF removeKey, pressKey, Apply, Spend, KeepsBut
  <2> QED BY <2>1, <2>2
<1>3. reqs' = reqs \/ \E kind : kind # "policy" /\ \E id, arg :
                         reqs' = With(reqs, Request(kind, id, arg))
  <2>1. CASE submitKey
    <3> DEFINE fields == IF ui.editing = NoRow THEN {} ELSE listsSent(ui.editing, ui.form)
               kind == CASE ui.editing = NoRow -> "create"
                         [] fields # {}        -> "read"
                         [] OTHER              -> "patch"
    <3>1. kind # "policy"
      OBVIOUS
    <3>2. \/ reqs' = reqs
          \/ \E id, arg : reqs' = With(reqs, Request(kind, id, arg))
      BY <2>1, Zenon DEF submitKey, Apply
    <3> QED BY <3>1, <3>2
  <2>2. CASE removeKey
    <3>1. "delete" # "policy"
      OBVIOUS
    <3> QED BY <2>2, <3>1 DEF removeKey, Apply
  <2>3. CASE \E vk \in ui.items : \E kind \in {"rotate", "revoke"} : pressKey(kind, vk)
    BY <2>3 DEF pressKey, Apply
  <2> QED BY <2>1, <2>2, <2>3
<1>4. Comes(reqs', reqs)
  BY <1>3, ComesSent, ComesItself
<1> QED BY <1>1, <1>2, <1>4, KeyStands DEF KeyShown

\* A catalogue's discovery, whatever it teaches.
LEMMA KeyLearns ==
    ASSUME KeyInv, KeyTells, CatalogueTells(ui', reqs'), KeepsBut(ui, ui', LoadFields),
           srv' = srv, Comes({x \in reqs' : ~Learned(x)}, reqs)
    PROVE  KeyTells'
<1>1. SameKeys(ui, ui')
  BY KeyUiIs DEF KeepsBut, LoadFields, SameKeys, KeyShown
<1> DEFINE others == {x \in reqs' : ~Learned(x)}
<1>2. TargetsPart(ui', reqs', srv')
  <2>1. \A r \in others : r.ans.ok => \A x \in RowsTold(r) : OfRows(x, srv)
    BY TargetsCome DEF KeyTells, TargetsPart
  <2>2. \A r \in reqs' : Learned(r) => RowsTold(r) = {}
    BY DEF Learned, RowsTold
  <2>3. \A r \in reqs' : r.ans.ok => \A x \in RowsTold(r) : OfRows(x, srv)
    BY <2>1, <2>2
  <2> QED BY <1>1, <2>3 DEF KeyTells, TargetsPart, SameKeys
<1>3. PolicyPart(ui', reqs', srv')
  <2>1. \A r \in reqs : PolicyReq(r, ui.policyKey, srv)
    BY DEF KeyTells, PolicyPart, PolicyReq
  <2>2. \A r \in others : PolicyReq(r, ui.policyKey, srv)
    BY <2>1, PolicyComes
  <2>3. \A r \in reqs' : PolicyReq(r, ui.policyKey, srv)
    BY <2>2 DEF Learned, PolicyReq
  <2> QED BY <1>1, <2>3 DEF KeyTells, PolicyPart, SameKeys, PolicyReq
<1>4. KeysLoaded(ui')
  BY <1>1 DEF KeyTells, KeysLoaded, SameKeys
<1> QED BY <1>2, <1>3, <1>4 DEF KeyTells

LEMMA KeyDiscoversTells ==
    ASSUME KeyInv, KeyTells,
           loadKeyTools \/ \E r \in reqs : ServeDiscover(r) \/ LandDiscover(r)
    PROVE  KeyTells'
<1>0. DeskPart(ui, reqs) /\ CatalogueTells(ui, reqs)
  BY KeyUiIs DEF KeyTells
<1>1. CASE loadKeyTools
  <2>1. PICK ids : load(ids)
    BY <1>1 DEF loadKeyTools
  <2>2. /\ CatalogueTells(ui', reqs') /\ Comes(reqs', reqs)
        /\ KeepsBut(ui, ui', LoadFields) /\ srv' = srv
    BY <1>0, <2>1, DeskAsks
  <2>3. Comes({x \in reqs' : ~Learned(x)}, reqs)
    BY <2>2 DEF Comes
  <2> QED BY <2>2, <2>3, KeyLearns
<1>2. CASE \E r \in reqs : ServeDiscover(r)
  <2>1. PICK r \in reqs : ServeDiscover(r)
    BY <1>2
  <2>2. CatalogueTells(ui', reqs') /\ \A x \in reqs' : Learned(x) \/ x \in reqs
    BY <1>0, <2>1, DeskTells
  <2>3. KeepsBut(ui, ui', LoadFields) /\ srv' = srv
    BY <1>0, <2>1, DeskServes
  <2>4. Comes({x \in reqs' : ~Learned(x)}, reqs)
    BY <2>2 DEF Comes, Akin
  <2> QED BY <2>2, <2>3, <2>4, KeyLearns
<1>3. CASE \E r \in reqs : LandDiscover(r)
  <2>1. PICK r \in reqs : LandDiscover(r)
    BY <1>3
  <2>2. CatalogueTells(ui', reqs') /\ Comes(reqs', reqs)
    BY <1>0, <2>1, DeskHears
  <2>3. KeepsBut(ui, ui', LoadFields) /\ srv' = srv
    BY <1>0, <2>1, DeskLearns
  <2>4. Comes({x \in reqs' : ~Learned(x)}, reqs)
    BY <2>2 DEF Comes
  <2> QED BY <2>2, <2>3, <2>4, KeyLearns
<1> QED BY <1>1, <1>2, <1>3

\* The Policy dialog is about another key, or none: no answer in flight is its.
LEMMA KeyAsksPolicy ==
    ASSUME KeyInv, KeyTells, closePolicy \/ \E vk \in ui.items : openPolicy(vk)
    PROVE  KeyTells'
<1>0. KeyShown \subseteq DOMAIN ui /\ ReqsOk(reqs)
  BY KeyUiIs
<1> DEFINE bs == Bumped(reqs, {"policy"})
<1>1. Comes(bs, reqs) /\ \A x \in bs : x.kind = "policy" => ~x.mine
  <2>1. \A x \in bs : x.kind = "policy" => ~x.mine
    <3> SUFFICES ASSUME NEW x \in bs, x.kind = "policy" PROVE ~x.mine
      OBVIOUS
    <3>1. PICK r \in reqs : x = IF r.kind \in {"policy"} THEN [r EXCEPT !.mine = FALSE] ELSE r
      BY DEF Bumped
    <3>2. DOMAIN r = ReqFields
      BY <1>0 DEF ReqsOk, ReqOk
    <3> QED BY <3>1, <3>2 DEF ReqFields
  <2> QED BY <1>0, <2>1, ComesBumped
<1> HIDE DEF bs
<1>2. /\ srv' = srv /\ ui'.policy = {} /\ ui'.byId = ui.byId /\ ui'.items = ui.items
      /\ ui'.upstreams = ui.upstreams /\ ui'.groups = ui.groups
  <2>1. CASE closePolicy
    BY <1>0, <2>1 DEF closePolicy, Apply, KeyShown
  <2>2. CASE \E vk \in ui.items : openPolicy(vk)
    BY <1>0, <2>2 DEF openPolicy, Apply, KeyShown, Spend
  <2> QED BY <2>1, <2>2
<1>3. \/ reqs' = bs
      \/ \E vk \in ui.items : /\ ui'.policyKey = vk
                              /\ reqs' = With(bs, Request("policy", vk.id, NoRow))
  <2>1. CASE closePolicy
    BY <2>1 DEF closePolicy, Apply, bs
  <2>2. CASE \E vk \in ui.items : openPolicy(vk)
    <3>1. PICK vk \in ui.items : openPolicy(vk)
      BY <2>2
    <3>2. ui'.policyKey = vk /\ reqs' = With(bs, Request("policy", vk.id, NoRow))
      BY <1>0, <3>1 DEF openPolicy, Apply, KeyShown, Spend, bs
    <3> QED BY <3>2
  <2> QED BY <2>1, <2>2
<1>4. \A x \in reqs' : \/ x \in bs
                       \/ /\ x.kind = "policy" /\ x.id = ui'.policyKey.id /\ x.ans = NoAnswer
                          /\ ui'.policyKey \in ui.items
  <2>1. CASE reqs' = bs
    BY <2>1
  <2>2. CASE \E vk \in ui.items : /\ ui'.policyKey = vk
                                  /\ reqs' = With(bs, Request("policy", vk.id, NoRow))
    <3>1. PICK vk \in ui.items : /\ ui'.policyKey = vk
                                 /\ reqs' = With(bs, Request("policy", vk.id, NoRow))
      BY <2>2
    <3> DEFINE req == Request("policy", vk.id, NoRow)
    <3>2. req.kind = "policy" /\ req.id = vk.id /\ req.ans = NoAnswer
      BY DEF Request
    <3>3. PICK y : With(bs, req) = bs \cup {y} /\ y.kind = req.kind /\ y.id = req.id
                   /\ y.ans = req.ans
      BY WithAdds
    <3> QED BY <3>1, <3>2, <3>3
  <2> QED BY <1>3, <2>1, <2>2
<1>5. \A x \in bs : ToldReq(x)
  BY <1>1, ReqsTold DEF KeyTells
<1>6. CatalogueTells(ui', reqs')
  <2>1. \A x \in reqs' : ToldReq(x)
    BY <1>4, <1>5 DEF ToldReq
  <2> QED BY <1>2, <2>1 DEF CatalogueTells, KeyTells, ToldReq
<1>7. TargetsPart(ui', reqs', srv')
  <2>1. \A r \in bs : r.ans.ok => \A x \in RowsTold(r) : OfRows(x, srv)
    BY <1>1, TargetsCome DEF KeyTells, TargetsPart
  <2>2. ~NoAnswer.ok
    BY DEF NoAnswer
  <2> QED BY <1>2, <1>4, <2>1, <2>2 DEF KeyTells, TargetsPart
<1>8. PolicyPart(ui', reqs', srv')
  <2> SUFFICES ASSUME NEW r \in reqs', r.kind = "policy", r.mine
               PROVE  /\ r.id = ui'.policyKey.id /\ OfRows(ui'.policyKey, srv)
                      /\ ~r.ans.ok
    BY <1>2 DEF PolicyPart
  <2>1. /\ r.id = ui'.policyKey.id /\ r.ans = NoAnswer /\ ui'.policyKey \in ui.items
    BY <1>1, <1>4
  <2>2. ~NoAnswer.ok
    BY DEF NoAnswer
  <2> QED BY <2>1, <2>2 DEF KeyTells, TargetsPart
<1>9. KeysLoaded(ui')
  BY <1>2 DEF KeyTells, KeysLoaded
<1> QED BY <1>6, <1>7, <1>8, <1>9 DEF KeyTells

LEMMA KeySavesTells ==
    ASSUME KeyInv, KeyTells, NEW r \in reqs, LandKeySave(r)
    PROVE  KeyTells'
<1>0. KeyShown \subseteq DOMAIN ui
  BY KeyUiIs
<1>1. PICK took, closed :
         /\ LandSaved(r, took, closed)
         /\ KeepsBut(ui, took, {"items", "secret"})
         /\ KeepsBut(took, closed, {"open", "form"})
         /\ took.items = ui.items \/ (r.kind = "patch" /\ took.items = Replaced(ui.items, r.ans.row))
  <2>1. CASE r.kind = "create"
    <3> DEFINE took == [ui EXCEPT !.secret = r.ans.row]
               closed == [took EXCEPT !.open = FALSE, !.form = blankVirtualKeyForm]
    <3>1. LandSaved(r, took, closed)
      BY <2>1 DEF LandKeySave
    <3>2. KeepsBut(ui, took, {"items", "secret"}) /\ took.items = ui.items
      BY <1>0 DEF KeepsBut, KeyShown
    <3> HIDE DEF took
    <3>3. KeepsBut(took, closed, {"open", "form"})
      BY DEF KeepsBut
    <3> QED BY <3>1, <3>2, <3>3
  <2>2. CASE r.kind # "create"
    <3> DEFINE took == [ui EXCEPT !.items = Replaced(@, r.ans.row)]
               closed == [took EXCEPT !.open = FALSE]
    <3>1. LandSaved(r, took, closed) /\ r.kind = "patch"
      BY <2>2 DEF LandKeySave
    <3>2. KeepsBut(ui, took, {"items", "secret"}) /\ took.items = Replaced(ui.items, r.ans.row)
      BY <1>0 DEF KeepsBut, KeyShown
    <3> HIDE DEF took
    <3>3. KeepsBut(took, closed, {"open", "form"})
      BY DEF KeepsBut
    <3> QED BY <3>1, <3>2, <3>3
  <2> QED BY <2>1, <2>2
<1>2. /\ KeyShown \subseteq DOMAIN took /\ KeyShown \subseteq DOMAIN closed
      /\ Still(ui, took) /\ Still(ui, closed) /\ closed.items = took.items
      /\ \A c \in {took, closed, ui} : /\ c.byId = ui.byId /\ c.groups = ui.groups
                                       /\ c.upstreams = ui.upstreams /\ c.policy = ui.policy
                                       /\ c.policyKey = ui.policyKey
  BY <1>0, <1>1 DEF KeepsBut, KeyShown, Still
<1>3. Comes(reqs', reqs)
  BY <1>0, <1>1, <1>2, SavedComes DEF KeyShown
<1>4. srv' = srv /\ \/ \E c \in {took, closed} : r.ans.ok /\ ui' = Finally(c, r)
                    \/ ui' = Finally(failed(ui, r), r)
  BY <1>1 DEF LandSaved, Apply
<1>5. \E c \in {took, closed, ui} : KeepsBut(c, ui', Outcome) /\ (c # ui => r.ans.ok)
  BY <1>4, EndedKeeps
<1>6. PICK c \in {took, closed, ui} : KeepsBut(c, ui', Outcome) /\ (c # ui => r.ans.ok)
  BY <1>5
<1>7. KeyStill(c, ui')
  BY <1>0, <1>2, <1>6, KeepsStill DEF KeyShown, Outcome
<1>8. \A x \in c.items : x \in ui.items \/ OfRows(x, srv)
  <2>1. CASE c.items = ui.items
    BY <2>1
  <2>2. CASE c.items # ui.items
    <3>1. r.kind = "patch" /\ c.items = Replaced(ui.items, r.ans.row) /\ r.ans.ok
      BY <1>1, <1>2, <1>6, <2>2
    <3>2. OfRows(r.ans.row, srv)
      BY <3>1 DEF KeyTells, TargetsPart, RowsTold
    <3> QED BY <3>1, <3>2 DEF Replaced
  <2> QED BY <2>1, <2>2
<1>9. /\ SameView(ui, ui') /\ KeysLoaded(ui') /\ ui'.policyKey = ui.policyKey
      /\ ui'.policy = ui.policy /\ ui'.items = c.items
  BY <1>2, <1>7 DEF KeyStill, SameView, SameKeys, KeyTells, KeysLoaded
<1>10. \A v \in ui'.policy : About(v, ui.policyKey)
  BY <1>9 DEF KeyTells, PolicyPart
<1> QED BY <1>3, <1>4, <1>8, <1>9, <1>10, KeyShows

LEMMA KeyLandsTells ==
    ASSUME KeyInv, KeyTells, KeyLand
    PROVE  KeyTells'
<1>0. KeyShown \subseteq DOMAIN ui /\ DeskPart(ui, reqs)
  BY KeyUiIs
<1>1. PICK r \in reqs : \/ LandKeyList(r) \/ LandKeyRead(r) \/ LandKeySave(r) \/ LandPressed(r)
                        \/ LandKeyDelete(r) \/ LandPolicy(r)
  BY DEF KeyLand
<1>p. \A v \in ui.policy : About(v, ui.policyKey)
  BY DEF KeyTells, PolicyPart
<1>2. CASE LandKeyList(r)
  <2>1. Comes(reqs', reqs) /\ srv' = srv
    BY <1>2, ComesLess DEF LandKeyList
  <2>2. CASE ~r.ans.ok
    <3>1. KeepsBut(ui, ui', {"error"})
      BY <1>2, <2>2 DEF LandKeyList, KeepsBut
    <3> QED BY <2>1, <3>1, KeyStands DEF KeyShown
  <2>3. CASE r.ans.ok
    <3>1. /\ ui'.items = r.ans.rows /\ ui'.upstreams = Upstreams /\ ui'.groups = KeyGroups
          /\ ui'.byId = ui.byId /\ ui'.policy = ui.policy /\ ui'.policyKey = ui.policyKey
      BY <1>0, <1>2, <2>3 DEF LandKeyList, KeyShown
    <3>2. \A x \in r.ans.rows : OfRows(x, srv)
      BY <2>3 DEF KeyTells, TargetsPart, RowsTold
    <3> QED BY <1>p, <2>1, <3>1, <3>2, KeyShows DEF SameView, KeysLoaded
  <2> QED BY <2>2, <2>3
<1>3. CASE LandKeyRead(r)
  <2>1. PICK stale : LandRead(r, stale)
    BY <1>3 DEF LandKeyRead
  <2>2. Comes(reqs', reqs)
    BY <1>0, <2>1, ReadComes DEF KeyShown
  <2>3. srv' = srv /\ KeepsBut(ui, ui', Outcome)
    BY <1>0, <2>1, DeskLandsRead
  <2> QED BY <2>2, <2>3, KeyStands DEF KeyShown, Outcome
<1>4. CASE LandKeySave(r)
  BY <1>4, KeySavesTells
<1>5. CASE LandPressed(r) \/ LandKeyDelete(r)
  <2>1. srv' = srv /\ KeepsBut(ui, ui', {"error", "secret", "pendingDelete"})
    BY <1>5 DEF LandPressed, LandKeyDelete, Apply, KeepsBut
  <2>2. Comes(reqs', reqs)
    BY <1>5, ComesLess DEF LandPressed, LandKeyDelete, Apply, Relisted
  <2> QED BY <2>1, <2>2, KeyStands DEF KeyShown
<1>6. CASE LandPolicy(r)
  <2>1. srv' = srv /\ Comes(reqs', reqs)
    BY <1>6, ComesLess DEF LandPolicy, Apply
  <2>2. CASE r.mine /\ r.ans.ok
    <3>1. ui' = [ui EXCEPT !.policy = {r.ans.row}]
      BY <1>6, <2>2 DEF LandPolicy, Apply
    <3>2. About(r.ans.row, ui.policyKey)
      BY <1>6, <2>2 DEF LandPolicy, KeyTells, PolicyPart
    <3>3. /\ ui'.policy = {r.ans.row} /\ ui'.policyKey = ui.policyKey /\ ui'.items = ui.items
          /\ ui'.byId = ui.byId /\ ui'.upstreams = ui.upstreams /\ ui'.groups = ui.groups
      BY <1>0, <3>1 DEF KeyShown
    <3> QED BY <2>1, <3>2, <3>3, KeyShows DEF SameView, KeyTells, KeysLoaded
  <2>3. CASE ~(r.mine /\ r.ans.ok)
    <3>1. KeepsBut(ui, ui', {"policyError"})
      BY <1>6, <2>3 DEF LandPolicy, Apply, KeepsBut
    <3> QED BY <2>1, <3>1, KeyStands DEF KeyShown
  <2> QED BY <2>2, <2>3
<1> QED BY <1>1, <1>2, <1>3, <1>4, <1>5, <1>6

LEMMA KeyOperatesTells ==
    ASSUME KeyInv, KeyTells, KeyOperate
    PROVE  KeyTells'
<1>1. CASE openCreateKey \/ \E vk \in ui.items : openEditKey(vk)
  <2>1. PICK u : /\ keyOpened(u)
                 /\ \E e, f : u = [ui EXCEPT !.editing = e, !.form = f]
    BY <1>1 DEF openCreateKey, openEditKey
  <2>2. KeepsBut(ui, u, {"editing", "form"})
    BY <2>1 DEF KeepsBut
  <2> QED BY <2>1, <2>2, KeyOpenedTells
<1>2. CASE \/ closeKey \/ changeKey \/ closeSecret \/ cancelDeleteKey
           \/ \E vk \in ui.items : askDeleteKey(vk)
  BY <1>2, KeyTurns
<1>3. CASE \/ submitKey \/ removeKey
           \/ \E vk \in ui.items : \E kind \in {"rotate", "revoke"} : pressKey(kind, vk)
  BY <1>3, KeyAsks
<1>4. CASE closePolicy \/ \E vk \in ui.items : openPolicy(vk)
  BY <1>4, KeyAsksPolicy
<1>5. CASE retarget
  BY <1>5, KeyAimsTells
<1>6. CASE loadKeyTools
  BY <1>6, KeyDiscoversTells
<1> QED BY <1>1, <1>2, <1>3, <1>4, <1>5, <1>6 DEF KeyOperate

----------------------------------------------------------------------------
\* The rows are written: each keeps its target, and a new one has an id that
\* nothing the page was told of has.
KeyFresh == Fresh(KeyIds, {ui.policyKey.id, ui.secret.id})
Follow(S, T) == \A y \in T : \/ \E z \in S : z.id = y.id /\ SameTarget(y, z)
                             \/ y.id \in KeyFresh

LEMMA FollowOf ==
    ASSUME NEW S, NEW T, Follow(S, T), NEW x, OfRows(x, S), x.id \notin KeyFresh
    PROVE  OfRows(x, T)
<1> SUFFICES ASSUME NEW y \in T, y.id = x.id PROVE SameTarget(y, x)
  BY DEF OfRows
<1>1. PICK z \in S : z.id = y.id /\ SameTarget(y, z)
  BY DEF Follow
<1>2. SameTarget(z, x)
  BY <1>1 DEF OfRows
<1> QED BY <1>1, <1>2 DEF SameTarget

LEMMA ToldNotFresh ==
    /\ \A x \in ui.items : x.id \notin KeyFresh
    /\ \A r \in reqs : \A x \in RowsTold(r) : x.id \notin KeyFresh
    /\ ui.policyKey.id \notin KeyFresh
<1> DEFINE answered == UNION {r.ans.rows \cup {r.ans.row} : r \in reqs}
           shown == ui.items \cup {ui.editing, ui.pendingDelete}
<1>1. \A i \in KeyFresh : /\ i \notin {ui.policyKey.id, ui.secret.id}
                          /\ ~\E x \in answered \cup shown : x.id = i
  BY DEF KeyFresh, Fresh
<1>2. \A r \in reqs : RowsTold(r) \subseteq answered
  BY DEF RowsTold
<1> QED BY <1>1, <1>2

LEMMA KeyWrites ==
    ASSUME KeyInv, KeyTells, Follow(srv, srv'), KeyStill(ui, ui'), ui'.byId = ui.byId,
           NEW ss, Comes(ss, reqs), NEW new, reqs' = ss \cup new,
           \A y \in new : /\ ToldReq(y)
                          /\ y.ans.ok => \A x \in RowsTold(y) : OfRows(x, srv')
                          /\ PolicyReq(y, ui.policyKey, srv')
    PROVE  KeyTells'
<1>1. CatalogueTells(ui', reqs')
  <2>1. \A x \in ss : ToldReq(x)
    BY ReqsTold DEF KeyTells
  <2>2. \A x \in reqs' : ToldReq(x)
    BY <2>1
  <2> QED BY <2>2 DEF CatalogueTells, KeyTells, ToldReq
<1>2. TargetsPart(ui', reqs', srv')
  <2>1. \A r \in reqs : r.ans.ok => \A x \in RowsTold(r) : OfRows(x, srv')
    BY ToldNotFresh, FollowOf DEF KeyTells, TargetsPart
  <2>2. \A r \in ss : r.ans.ok => \A x \in RowsTold(r) : OfRows(x, srv')
    BY <2>1, TargetsCome
  <2>3. \A x \in ui'.items : OfRows(x, srv')
    BY ToldNotFresh, FollowOf DEF KeyTells, TargetsPart, KeyStill, SameKeys
  <2> QED BY <2>2, <2>3 DEF TargetsPart
<1>3. PolicyPart(ui', reqs', srv')
  <2>1. \A r \in reqs : PolicyReq(r, ui.policyKey, srv')
    <3> SUFFICES ASSUME NEW r \in reqs, r.kind = "policy", r.mine
                 PROVE  PolicyReq(r, ui.policyKey, srv')
      BY DEF PolicyReq
    <3>1. /\ r.id = ui.policyKey.id /\ OfRows(ui.policyKey, srv)
          /\ r.ans.ok => About(r.ans.row, ui.policyKey)
      BY DEF KeyTells, PolicyPart
    <3>2. OfRows(ui.policyKey, srv')
      BY <3>1, ToldNotFresh, FollowOf
    <3> QED BY <3>1, <3>2 DEF PolicyReq
  <2>2. \A r \in ss : PolicyReq(r, ui.policyKey, srv')
    BY <2>1, PolicyComes
  <2>3. \A r \in reqs' : PolicyReq(r, ui'.policyKey, srv')
    BY <2>2 DEF KeyStill, SameKeys
  <2>4. \A v \in ui'.policy : About(v, ui'.policyKey)
    BY DEF KeyStill, SameKeys, KeyTells, PolicyPart
  <2> QED BY <2>3, <2>4 DEF PolicyPart, PolicyReq
<1>4. KeysLoaded(ui')
  BY DEF KeyTells, KeysLoaded, KeyStill, SameKeys
<1> QED BY <1>1, <1>2, <1>3, <1>4 DEF KeyTells

LEMMA FollowItself == ASSUME NEW S, NEW T, T \subseteq S PROVE Follow(S, T)
BY DEF Follow, SameTarget

LEMMA PatchedTarget ==
    ASSUME NEW vk, NEW body
    PROVE  /\ SameTarget(patchVirtualKey(vk, body), vk)
           /\ patchVirtualKey(vk, body).id = vk.id
BY DEF patchVirtualKey, SameTarget

\* Putting a row that has its row's target, or a fresh id, keeps every target.
LEMMA PutFollows ==
    ASSUME NEW S, NEW g,
           \/ \E z \in S : z.id = g.id /\ SameTarget(g, z)
           \/ g.id \in KeyFresh
    PROVE  Follow(S, {x \in S : x.id # g.id} \cup {g})
BY DEF Follow, SameTarget

\* What the admin API does of a key request, and says.
LEMMA KeyAnswers ==
    ASSUME Distinct(srv), NEW r, NEW h, h = HandledKey(r)
    PROVE  /\ Follow(srv, h.srv)
           /\ h.ans.rows \subseteq h.srv
           /\ r.kind = "patch" /\ h.ans.ok => h.ans.row \in h.srv
           /\ r.kind = "policy" /\ h.ans.ok =>
                 /\ h.srv = srv
                 /\ \E vk \in srv : vk.id = r.id /\ h.ans.row = PolicyView(vk)
<1> DEFINE kept(ans) == [srv |-> srv, ans |-> ans]
           put(vk) == [srv |-> {x \in srv : x.id # vk.id} \cup {vk}, ans |-> Ok(vk, {})]
           free == Fresh(KeyIds, {ui.policyKey.id, ui.secret.id})
           blank == BlankKey(CHOOSE i \in free : TRUE, r.arg.body)
           goal == /\ Follow(srv, h.srv)
                   /\ h.ans.rows \subseteq h.srv
                   /\ r.kind = "patch" /\ h.ans.ok => h.ans.row \in h.srv
                   /\ r.kind = "policy" /\ h.ans.ok =>
                         /\ h.srv = srv
                         /\ \E vk \in srv : vk.id = r.id /\ h.ans.row = PolicyView(vk)
<1>1. \A a : /\ kept(a).srv = srv /\ kept(a).ans = a
             /\ Follow(srv, kept(a).srv)
  BY FollowItself
<1>2. \A vk : /\ put(vk).srv = {x \in srv : x.id # vk.id} \cup {vk}
              /\ put(vk).ans.row = vk /\ put(vk).ans.rows = {}
  BY DEF Ok
<1>3. \A code : ~Err(code).ok /\ Err(code).rows = {}
  BY DEF Err, NoAnswer
<1>4. \A row, rows : Ok(row, rows).row = row /\ Ok(row, rows).rows = rows
  BY DEF Ok
<1>5. \/ \E code : h = kept(Err(code))
      \/ r.kind = "list" /\ h = kept(Ok(NoRow, srv))
      \/ free # {} /\ r.kind = "create" /\ h = put(patchVirtualKey(blank, r.arg.body))
      \/ /\ Listed(r.id)
         /\ \/ r.kind = "read" /\ h = kept(Ok(Row(r.id), {}))
            \/ r.kind = "policy" /\ h = kept(Ok(PolicyView(Row(r.id)), {}))
            \/ r.kind = "patch" /\ h = put(patchVirtualKey(Row(r.id), r.arg.body))
            \/ r.kind = "rotate" /\ h = put([Row(r.id) EXCEPT !.secret = @ + 1, !.revoked = FALSE])
            \/ r.kind = "revoke" /\ h = put([Row(r.id) EXCEPT !.revoked = TRUE])
            \/ /\ r.kind \notin {"list", "read", "policy", "patch", "rotate", "revoke", "create"}
               /\ h = [srv |-> {x \in srv : x.id # r.id}, ans |-> Ok(NoRow, {})]
  <2>1. CASE r.kind = "list"
    BY <2>1 DEF HandledKey
  <2>2. CASE r.kind = "create"
    <3>1. h = IF free # {} /\ KeyBodyAccepted(blank, r.arg.body)
              THEN put(patchVirtualKey(blank, r.arg.body)) ELSE kept(Err(Refused))
      BY <2>2 DEF HandledKey
    <3> HIDE DEF kept, put, free, blank
    <3> QED BY <2>2, <3>1
  <2>3. CASE r.kind \notin {"list", "create"} /\ ~Listed(r.id)
    <3>1. h = kept(Err(Gone))
      BY <2>3 DEF HandledKey
    <3> QED BY <3>1
  <2>4. CASE r.kind \notin {"list", "create"} /\ Listed(r.id)
    <3>1. h = CASE r.kind = "read" -> kept(Ok(Row(r.id), {}))
               [] r.kind = "policy" -> kept(Ok(PolicyView(Row(r.id)), {}))
               [] r.kind = "patch" -> IF KeyBodyAccepted(Row(r.id), r.arg.body)
                                      THEN put(patchVirtualKey(Row(r.id), r.arg.body))
                                      ELSE kept(Err(Refused))
               [] r.kind = "rotate" -> put([Row(r.id) EXCEPT !.secret = @ + 1, !.revoked = FALSE])
               [] r.kind = "revoke" -> put([Row(r.id) EXCEPT !.revoked = TRUE])
               [] OTHER -> [srv |-> {x \in srv : x.id # r.id}, ans |-> Ok(NoRow, {})]
      BY <2>4 DEF HandledKey
    <3> HIDE DEF kept, put, free, blank
    <3>2. CASE r.kind = "read"
      BY <2>4, <3>1, <3>2
    <3>3. CASE r.kind = "policy"
      BY <2>4, <3>1, <3>3
    <3>4. CASE r.kind = "patch"
      BY <2>4, <3>1, <3>4
    <3>5. CASE r.kind = "rotate"
      BY <2>4, <3>1, <3>5
    <3>6. CASE r.kind = "revoke"
      BY <2>4, <3>1, <3>6
    <3>7. CASE r.kind \notin {"read", "policy", "patch", "rotate", "revoke"}
      BY <2>4, <3>1, <3>7
    <3> QED BY <3>2, <3>3, <3>4, <3>5, <3>6, <3>7
  <2> QED BY <2>1, <2>2, <2>3, <2>4
<1> HIDE DEF kept, put, free, blank
<1>6. CASE \E code : h = kept(Err(code))
  BY <1>1, <1>3, <1>6
<1>7. CASE r.kind = "list" /\ h = kept(Ok(NoRow, srv))
  BY <1>1, <1>4, <1>7
<1>8. CASE free # {} /\ r.kind = "create" /\ h = put(patchVirtualKey(blank, r.arg.body))
  <2>1. blank.id \in KeyFresh
    <3>1. (CHOOSE i \in free : TRUE) \in free
      BY <1>8
    <3> QED BY <3>1 DEF blank, BlankKey, free, KeyFresh
  <2>2. patchVirtualKey(blank, r.arg.body).id \in KeyFresh
    BY <2>1, PatchedTarget
  <2>3. Follow(srv, h.srv)
    BY <1>2, <1>8, <2>2, PutFollows
  <2> QED BY <1>2, <1>8, <2>3
<1>9. CASE Listed(r.id)
  <2>1. Row(r.id) \in srv /\ Row(r.id).id = r.id
    BY <1>9, RowListed
  <2>2. \A g : g.id = r.id /\ SameTarget(g, Row(r.id)) =>
           Follow(srv, {x \in srv : x.id # g.id} \cup {g})
    BY <2>1, PutFollows
  <2>3. CASE r.kind = "read" /\ h = kept(Ok(Row(r.id), {}))
    BY <1>1, <1>4, <2>3
  <2>4. CASE r.kind = "policy" /\ h = kept(Ok(PolicyView(Row(r.id)), {}))
    BY <1>1, <1>4, <2>1, <2>4
  <2>5. CASE r.kind = "patch" /\ h = put(patchVirtualKey(Row(r.id), r.arg.body))
    <3>1. Follow(srv, h.srv)
      BY <1>2, <2>1, <2>2, <2>5, PatchedTarget
    <3> QED BY <1>2, <2>5, <3>1
  <2>6. CASE r.kind = "rotate" /\ h = put([Row(r.id) EXCEPT !.secret = @ + 1, !.revoked = FALSE])
    <3> DEFINE g == [Row(r.id) EXCEPT !.secret = @ + 1, !.revoked = FALSE]
    <3>1. g.id = r.id /\ SameTarget(g, Row(r.id))
      BY <2>1 DEF SameTarget
    <3> HIDE DEF g
    <3>2. Follow(srv, put(g).srv)
      BY <1>2, <2>2, <3>1
    <3> QED BY <1>2, <2>6, <3>2 DEF g
  <2>7. CASE r.kind = "revoke" /\ h = put([Row(r.id) EXCEPT !.revoked = TRUE])
    <3> DEFINE g == [Row(r.id) EXCEPT !.revoked = TRUE]
    <3>1. g.id = r.id /\ SameTarget(g, Row(r.id))
      BY <2>1 DEF SameTarget
    <3> HIDE DEF g
    <3>2. Follow(srv, put(g).srv)
      BY <1>2, <2>2, <3>1
    <3> QED BY <1>2, <2>7, <3>2 DEF g
  <2>8. CASE /\ r.kind \notin {"list", "read", "policy", "patch", "rotate", "revoke", "create"}
             /\ h = [srv |-> {x \in srv : x.id # r.id}, ans |-> Ok(NoRow, {})]
    <3>1. h.srv = {x \in srv : x.id # r.id} /\ h.ans.rows = {}
      BY <1>4, <2>8
    <3>2. Follow(srv, h.srv)
      BY <3>1, FollowItself
    <3> QED BY <2>8, <3>1, <3>2
  <2>9. CASE \E code : h = kept(Err(code))
    BY <1>6, <2>9
  <2> QED BY <1>5, <1>6, <1>7, <1>8, <2>3, <2>4, <2>5, <2>6, <2>7, <2>8
<1> QED BY <1>5, <1>6, <1>7, <1>8, <1>9

LEMMA KeyServesTells ==
    ASSUME KeyInv, KeyTells, NEW r \in reqs, ServeKey(r)
    PROVE  KeyTells'
<1>0. KeyShown \subseteq DOMAIN ui /\ ReqsOk(reqs) /\ Distinct(srv)
  BY KeyUiIs, KeyIs
<1>1. PICK h : h = HandledKey(r)
  OBVIOUS
<1>2. Serve(r, h) /\ r.kind # "discover"
  BY <1>1 DEF ServeKey
<1>3. PICK a : /\ reqs' = Served(r, a, srv') /\ (ui' = ui \/ ui' = Spend(ui, "fails"))
               /\ srv' = h.srv \/ srv' = srv
               /\ a.ok => a = h.ans /\ srv' = h.srv
  BY <1>2, ServedIs
<1>4. /\ Follow(srv, h.srv) /\ h.ans.rows \subseteq h.srv
      /\ r.kind = "patch" /\ h.ans.ok => h.ans.row \in h.srv
      /\ r.kind = "policy" /\ h.ans.ok =>
            /\ h.srv = srv
            /\ \E vk \in srv : vk.id = r.id /\ h.ans.row = PolicyView(vk)
  BY <1>0, <1>1, KeyAnswers
<1>5. Distinct(h.srv)
  BY <1>0, <1>1, KeyHandled
<1>6. Follow(srv, srv')
  BY <1>3, <1>4, FollowItself
<1>7. KeyStill(ui, ui') /\ ui'.byId = ui.byId
  <2>1. KeepsBut(ui, ui', {"budget"})
    BY <1>3 DEF KeepsBut, Spend
  <2> QED BY <1>0, <2>1, KeepsStill DEF KeyShown, Still
<1> DEFINE ss == Raced(reqs \ {r}, srv')
           y == [r EXCEPT !.st = "answered", !.ans = a]
<1>8. Comes(ss, reqs)
  <2>1. ReqsOk(reqs \ {r})
    BY <1>0 DEF ReqsOk
  <2> QED BY <2>1, ComesAged, ComesItself, ComesComes
<1>9. y.kind = r.kind /\ y.ans = a /\ y.id = r.id /\ y.mine = r.mine
  BY <1>0 DEF ReqsOk, ReqOk, ReqFields
<1>10. reqs' = ss \cup {y}
  BY <1>3 DEF Served
<1> HIDE DEF ss, y
<1>11. ToldReq(y)
  BY <1>2, <1>9 DEF ToldReq
<1>12. y.ans.ok => \A x \in RowsTold(y) : OfRows(x, srv')
  <2> SUFFICES ASSUME a.ok, NEW x \in RowsTold(y) PROVE OfRows(x, srv')
    BY <1>9
  <2>1. a = h.ans /\ srv' = h.srv
    BY <1>3
  <2>2. x \in srv'
    BY <1>4, <1>9, <2>1 DEF RowsTold
  <2> QED BY <1>5, <2>1, <2>2 DEF OfRows, Distinct, SameTarget
<1>13. PolicyReq(y, ui.policyKey, srv')
  <2> SUFFICES ASSUME r.kind = "policy", r.mine
               PROVE  /\ r.id = ui.policyKey.id /\ OfRows(ui.policyKey, srv')
                      /\ a.ok => About(a.row, ui.policyKey)
    BY <1>9 DEF PolicyReq
  <2>1. r.id = ui.policyKey.id /\ OfRows(ui.policyKey, srv)
    BY DEF KeyTells, PolicyPart
  <2>2. OfRows(ui.policyKey, srv')
    BY <1>6, <2>1, ToldNotFresh, FollowOf
  <2>3. ASSUME a.ok PROVE About(a.row, ui.policyKey)
    <3>1. PICK vk \in srv : vk.id = r.id /\ a.row = PolicyView(vk)
      BY <1>3, <1>4, <2>3
    <3>2. SameTarget(vk, ui.policyKey)
      BY <2>1, <3>1 DEF OfRows
    <3>3. PolicyView(vk).id = vk.id /\ PolicyView(vk).group = GroupView(vk)
      BY DEF PolicyView, GroupView
    <3>4. GroupView(vk) = GroupView(ui.policyKey)
      BY <3>2 DEF GroupView, SameTarget
    <3> QED BY <2>1, <3>1, <3>3, <3>4 DEF About
  <2> QED BY <2>1, <2>2, <2>3
<1> QED BY <1>6, <1>7, <1>8, <1>10, <1>11, <1>12, <1>13, KeyWrites

LEMMA KeyOthersTells ==
    ASSUME KeyInv, KeyTells, OtherKey
    PROVE  KeyTells'
<1>0. KeyShown \subseteq DOMAIN ui /\ ReqsOk(reqs)
  BY KeyUiIs
<1>1. KeyStill(ui, ui') /\ ui'.byId = ui.byId
  <2>1. KeepsBut(ui, ui', {"budget"})
    BY DEF OtherKey, KeepsBut, Spend
  <2> QED BY <1>0, <2>1, KeepsStill DEF KeyShown, Still
<1>2. Follow(srv, srv')
  <2>1. PICK vk \in srv : \/ srv' = srv \ {vk}
                          \/ \E b \in OtherLists :
                                srv' = (srv \ {vk}) \cup {patchVirtualKey(vk, b)}
    BY DEF OtherKey
  <2>2. CASE srv' = srv \ {vk}
    BY <2>2, FollowItself
  <2>3. CASE \E b \in OtherLists : srv' = (srv \ {vk}) \cup {patchVirtualKey(vk, b)}
    <3>1. PICK b \in OtherLists : srv' = (srv \ {vk}) \cup {patchVirtualKey(vk, b)}
      BY <2>3
    <3>2. SameTarget(patchVirtualKey(vk, b), vk) /\ patchVirtualKey(vk, b).id = vk.id
      BY PatchedTarget
    <3> QED BY <3>1, <3>2 DEF Follow, SameTarget
  <2> QED BY <2>1, <2>2, <2>3
<1>3. Comes(reqs', reqs)
  BY <1>0, ComesAged DEF OtherKey
<1>4. PICK new : new = {}
  OBVIOUS
<1>5. PICK ss : ss = reqs'
  OBVIOUS
<1>6. Comes(ss, reqs) /\ reqs' = ss \cup new
  BY <1>3, <1>4, <1>5
<1> QED BY <1>1, <1>2, <1>4, <1>6, KeyWrites

LEMMA KeyStepTells ==
    ASSUME KeyInv, KeyTells, KeyNext
    PROVE  KeyTells'
<1>1. CASE KeyOperate
  BY <1>1, KeyOperatesTells
<1>2. CASE KeyLand
  BY <1>2, KeyLandsTells
<1>3. CASE OtherKey
  BY <1>3, KeyOthersTells
<1>4. CASE \E r \in reqs : ServeKey(r)
  BY <1>4, KeyServesTells
<1>5. CASE \E r \in reqs : ServeDiscover(r) \/ LandDiscover(r)
  BY <1>5, KeyDiscoversTells
<1> QED BY <1>1, <1>2, <1>3, <1>4, <1>5 DEF KeyNext

LEMMA KeyStartsTelling ==
    ASSUME NEW s \in KeyScenarios, KeyInit(s)
    PROVE  KeyTells
<1>1. /\ ui.byId = EmptyCatalogue /\ ui.upstreams = {} /\ ui.items = {} /\ ui.policy = {}
  BY DEF KeyInit
<1>2. Comes(reqs, {})
  <2>1. "list" # "policy"
    OBVIOUS
  <2> QED BY <2>1, ComesSent DEF KeyInit
<1>3. CatalogueTells(ui, {})
  BY <1>1, EmptyTells DEF CatalogueTells
<1>4. CatalogueTells(ui, reqs)
  BY <1>2, <1>3, TellsKept DEF SameView
<1>5. TargetsPart(ui, reqs, srv)
  <2>1. \A r \in reqs : r.ans.ok => \A x \in RowsTold(r) : OfRows(x, srv)
    BY <1>2, TargetsCome
  <2> QED BY <1>1, <2>1 DEF TargetsPart
<1>6. PolicyPart(ui, reqs, srv)
  <2>1. \A r \in reqs : PolicyReq(r, ui.policyKey, srv)
    BY <1>2, PolicyComes
  <2> QED BY <1>1, <2>1 DEF PolicyPart, PolicyReq
<1> QED BY <1>1, <1>4, <1>5, <1>6 DEF KeyTells, KeysLoaded

----------------------------------------------------------------------------
(* What the dialogs say of a rule, and what the proxy makes of it.          *)

LEMMA CleanAgree == ASSUME NEW e PROVE cleanEntry(e) <=> CleanToolEntry(e)
BY DEF cleanEntry, CleanToolEntry, Range

\* A group's entry is marked exactly when the API would refuse it alone.
LEMMA ProblemAgrees ==
    ASSUME NEW e, NEW m \in {"allow", "deny"}
    PROVE  /\ entryProblem(e, "tool", m, TRUE)
                 <=> ~ValidateToolFilterWrite(RawFilter("object", m, {e}, {}))
           /\ entryProblem(e, "prefix", m, TRUE)
                 <=> ~ValidateToolFilterWrite(RawFilter("object", m, {}, {e}))
<1> DEFINE raw(T, P) == RawFilter("object", m, T, P)
           rules(T, P) == /\ \A x \in T \cup P : CleanToolEntry(x)
                          /\ m = "allow" => T \cup P # {} /\ \A x \in T \cup P : scoped(x)
                          /\ validateEntries(T, FALSE) /\ validateEntries(P, TRUE)
<1>1. \A T, P : ValidateToolFilterWrite(raw(T, P)) <=> rules(T, P)
  <2> SUFFICES ASSUME NEW T, NEW P PROVE ValidateToolFilterWrite(raw(T, P)) <=> rules(T, P)
    OBVIOUS
  <2> DEFINE w == raw(T, P)
  <2>1. w.shape = "object" /\ w.mode = m /\ w.tools = T /\ w.prefixes = P
    BY DEF RawFilter
  <2> HIDE DEF w
  <2>2. ValidateToolFilterWrite(w) <=> rules(T, P)
    BY <2>1 DEF ValidateToolFilterWrite, ValidateToolFilter, requireScoped
  <2> QED BY <2>2 DEF w
<1> HIDE DEF raw
<1>2. rules({e}, {}) <=> /\ CleanToolEntry(e) /\ (m = "allow" => scoped(e))
                         /\ scoped(e) => validSlug(e.head) /\ e.rest # <<>>
  BY DEF validateEntries
<1>3. rules({}, {e}) <=> /\ CleanToolEntry(e) /\ (m = "allow" => scoped(e))
                         /\ scoped(e) => validSlug(e.head)
  BY DEF validateEntries
<1>4. entryProblem(e, "tool", m, TRUE)
         <=> ~(/\ CleanToolEntry(e) /\ (m = "allow" => scoped(e))
               /\ scoped(e) => validSlug(e.head) /\ e.rest # <<>>)
  BY CleanAgree DEF entryProblem
<1>5. entryProblem(e, "prefix", m, TRUE)
         <=> ~(/\ CleanToolEntry(e) /\ (m = "allow" => scoped(e))
               /\ scoped(e) => validSlug(e.head))
  BY CleanAgree DEF entryProblem
<1> HIDE DEF rules
<1> QED BY <1>1, <1>2, <1>3, <1>4, <1>5 DEF raw

LEMMA AcceptedWrite ==
    ASSUME NEW f, f.mode \in Modes, ~filterProblem(f)
    PROVE  ValidateToolFilterWrite(filterValue(f))
<1>1. CASE f.mode = ""
  <2>1. filterValue(f) = NoFilter
    BY <1>1 DEF filterValue
  <2>2. NoFilter.shape = "absent" /\ NoFilter.tools = {} /\ NoFilter.prefixes = {} /\ NoFilter.mode = ""
    BY DEF NoFilter, RawFilter
  <2> QED BY <2>1, <2>2 DEF ValidateToolFilterWrite, ValidateToolFilter, validateEntries
<1>2. CASE f.mode # ""
  <2> DEFINE raw == RawFilter("object", f.mode, f.tools, f.prefixes)
  <2>1. f.mode \in {"allow", "deny"} /\ filterValue(f) = raw
    BY <1>2 DEF Modes, filterValue
  <2>2. raw.mode = f.mode /\ raw.tools = f.tools /\ raw.prefixes = f.prefixes
    BY DEF RawFilter
  <2>3. ValidateToolFilter(raw)
    BY <2>1, SavedReadable
  <2>4. /\ \A e \in f.tools : ~entryProblem(e, "tool", f.mode, TRUE)
        /\ \A e \in f.prefixes : ~entryProblem(e, "prefix", f.mode, TRUE)
    BY <1>2 DEF filterProblem, listProblem
  <2> HIDE DEF raw
  <2>5. validateEntries(raw.tools, FALSE)
    BY <2>2, <2>4, CleanAgree DEF validateEntries, entryProblem
  <2>6. validateEntries(raw.prefixes, TRUE)
    BY <2>2, <2>4, CleanAgree DEF validateEntries, entryProblem
  <2>7. raw.mode = "allow" => requireScoped(raw.tools \cup raw.prefixes)
    BY <2>2, <2>4 DEF requireScoped, entryProblem
  <2> QED BY <2>1, <2>3, <2>5, <2>6, <2>7 DEF ValidateToolFilterWrite
<1> QED BY <1>1, <1>2

\* What a loaded catalogue says of its members is so.
CatalogueIsTrue(ids) ==
    LET c == catalogue(ids)
    IN  /\ \A m \in c : \E u \in Upstreams :
              /\ u.id = m.id /\ u.slug = m.slug /\ u.slug # "" /\ m.id \in ids
              /\ whole(m) => m.tools = u.tools
              /\ m.state # "ok" => m.tools = {}
        /\ c # {} => \A u \in Upstreams : (u.id \in ids /\ u.tools # {}) =>
                        \E m \in c : m.id = u.id /\ m.slug = u.slug

LEMMA CatalogueTrue ==
    ASSUME CatalogueTells(ui, reqs), GroupsLoaded(ui), DOMAIN ui.byId = MemberIds, NEW ids
    PROVE  CatalogueIsTrue(ids)
<1> DEFINE c == catalogue(ids)
           entry(u) == [id |-> u.id, slug |-> u.slug, enabled |-> u.enabled,
                        state |-> ui.byId[u.id].state, tools |-> ui.byId[u.id].tools,
                        truncated |-> ui.byId[u.id].truncated]
<1>1. c = {entry(u) : u \in members(ids)}
  BY DEF catalogue
<1>2. \A u : /\ entry(u).id = u.id /\ entry(u).slug = u.slug
             /\ entry(u).state = ui.byId[u.id].state /\ entry(u).tools = ui.byId[u.id].tools
             /\ entry(u).truncated = ui.byId[u.id].truncated
  OBVIOUS
<1> HIDE DEF entry, c
<1>3. ASSUME NEW m \in c
      PROVE  \E u \in Upstreams :
              /\ u.id = m.id /\ u.slug = m.slug /\ u.slug # "" /\ m.id \in ids
              /\ whole(m) => m.tools = u.tools
              /\ m.state # "ok" => m.tools = {}
  <2>1. PICK u \in members(ids) : m = entry(u)
    BY <1>1
  <2>2. u \in Upstreams /\ u.id \in ids
    BY DEF members, GroupsLoaded
  <2>3. Tells(ui.byId[u.id], u.id)
    BY <2>2 DEF CatalogueTells, MemberIds
  <2> QED BY <1>2, <2>1, <2>2, <2>3, UpstreamRows DEF Tells, whole
<1>4. ASSUME c # {}, NEW u \in Upstreams, u.id \in ids, u.tools # {}
      PROVE  \E m \in c : m.id = u.id /\ m.slug = u.slug
  <2>1. ui.upstreams = Upstreams
    BY <1>1, <1>4 DEF members, GroupsLoaded
  <2>2. u \in members(ids)
    BY <1>4, <2>1, UpstreamRows DEF members
  <2> QED BY <1>1, <1>2, <2>2
<1> QED BY <1>3, <1>4 DEF CatalogueIsTrue, c

LEMMA WholeCatalogue ==
    ASSUME NEW ids, CatalogueIsTrue(ids), catalogueComplete(catalogue(ids))
    PROVE  Advertised(catalogue(ids)) = ToolsOf(ids)
<1> DEFINE c == catalogue(ids)
<1>1. /\ \A m \in c : whole(m) /\ \E u \in Upstreams :
              u.id = m.id /\ u.slug = m.slug /\ m.id \in ids /\ m.tools = u.tools
      /\ \A u \in Upstreams : (u.id \in ids /\ u.tools # {}) =>
                        \E m \in c : m.id = u.id /\ m.slug = u.slug
  BY DEF CatalogueIsTrue, catalogueComplete
<1> HIDE DEF c
<1>2. ASSUME NEW u \in Upstreams, u.id \in ids, u.tools # {}
      PROVE  \E m \in c : m.id = u.id /\ m.slug = u.slug /\ m.tools = u.tools
  <2>1. PICK m \in c : m.id = u.id /\ m.slug = u.slug
    BY <1>1, <1>2
  <2>2. PICK w \in Upstreams : w.id = m.id /\ m.tools = w.tools
    BY <1>1
  <2>3. w = u
    BY <2>1, <2>2, UpstreamRows
  <2> QED BY <2>1, <2>2, <2>3
<1>3. ASSUME NEW t \in Advertised(c) PROVE t \in ToolsOf(ids)
  <2>1. PICK m \in c : t \in {[slug |-> m.slug, name |-> x] : x \in m.tools}
    BY DEF Advertised
  <2>2. PICK u \in Upstreams : u.slug = m.slug /\ u.id \in ids /\ m.tools = u.tools
    BY <1>1
  <2> QED BY <2>1, <2>2 DEF ToolsOf
<1>4. ASSUME NEW t \in ToolsOf(ids) PROVE t \in Advertised(c)
  <2>1. PICK u \in Upstreams : u.id \in ids /\ t \in {[slug |-> u.slug, name |-> x] : x \in u.tools}
    BY DEF ToolsOf
  <2>2. PICK m \in c : m.slug = u.slug /\ m.tools = u.tools
    BY <1>2, <2>1
  <2> QED BY <2>1, <2>2 DEF Advertised
<1> QED BY <1>3, <1>4 DEF c

LEMMA SomeAdvertised ==
    ASSUME NEW ids, CatalogueIsTrue(ids), Advertised(catalogue(ids)) # {}
    PROVE  catalogueComplete(catalogue(ids)) \/ incompleteLine(catalogue(ids))
<1> DEFINE c == catalogue(ids)
<1>1. \A m \in c : m.state # "ok" => m.tools = {}
  BY DEF CatalogueIsTrue
<1> HIDE DEF c
<1>2. PICK m \in c : m.tools # {}
  BY DEF Advertised, c
<1>3. m.state # "idle"
  BY <1>1, <1>2
<1>4. ASSUME ~catalogueComplete(c) PROVE incompleteLine(c)
  <2>1. PICK x \in c : ~whole(x)
    BY <1>2, <1>4 DEF catalogueComplete
  <2>2. x.id \in incompleteMembers(c)
    BY <2>1 DEF incompleteMembers
  <2> QED BY <1>2, <1>3, <2>2 DEF incompleteLine
<1> QED BY <1>4 DEF c

\* A picker row is ticked exactly when an entry that counts names its tool.
LEMMA TickedNames ==
    ASSUME NEW m, NEW t, NEW tools, NEW prefixes, NEW side, NEW grouped,
           m.slug # ""
    PROVE  RowBox(m, t, tools, prefixes, side, grouped).ticked
              <=> Names(tools, prefixes, [slug |-> m.slug, name |-> t],
                        side = "allow" /\ grouped)
<1> DEFINE id == [slug |-> m.slug, name |-> t]
           entry == tickEntry(m.slug, t)
<1>1. id.slug = m.slug /\ id.name = t
  OBVIOUS
<1>2. entry.head = m.slug /\ entry.rest = t /\ entry # EmptyEntry
  BY DEF tickEntry, Entry, EmptyEntry
<1>3. RowBox(m, t, tools, prefixes, side, grouped).ticked
         <=> coveringEntry(m.slug, t, tools, prefixes, side, grouped) \/ entry \in tools
  BY DEF RowBox
<1>4. \A e, pre : matchToolEntry(e, m.slug, t, pre) <=> MatchToolEntry(e, id, pre)
  BY <1>1, EntriesAgree
<1>5. MatchToolEntry(entry, id, FALSE) /\ scoped(entry)
  BY <1>1, <1>2 DEF MatchToolEntry, scoped
<1> HIDE DEF id, entry
<1>6. coveringEntry(m.slug, t, tools, prefixes, side, grouped)
         <=> \/ \E e \in tools \ {entry} : ((side = "allow" /\ grouped) => scoped(e))
                                          /\ MatchToolEntry(e, id, FALSE)
             \/ \E e \in prefixes : ((side = "allow" /\ grouped) => scoped(e))
                                    /\ MatchToolEntry(e, id, TRUE)
  BY <1>4 DEF coveringEntry, entry
<1> QED BY <1>3, <1>5, <1>6 DEF Names, id

\* A row is drawn as named exactly when its box would be ticked, unless its own
\* list holds an entry for it that no list may hold; a row said to stay blocked
\* is an allow row that is not named.
LEMMA ShownIs ==
    ASSUME NEW m, NEW t, NEW tools, NEW prefixes, NEW side, NEW grouped,
           cleanEntry(tickEntry(m.slug, t)) \/ tickEntry(m.slug, t) \notin tools
    PROVE  /\ ShownNamed(RowBox(m, t, tools, prefixes, side, grouped))
                 <=> RowBox(m, t, tools, prefixes, side, grouped).ticked
           /\ ShownBlocked(RowBox(m, t, tools, prefixes, side, grouped), side)
                 => side = "allow" /\ ~RowBox(m, t, tools, prefixes, side, grouped).ticked
<1> DEFINE box == RowBox(m, t, tools, prefixes, side, grouped)
           covered == coveringEntry(m.slug, t, tools, prefixes, side, grouped)
           entry == tickEntry(m.slug, t)
<1>1. box.shown = cleanEntry(entry) /\ box.disabled = covered
      /\ box.ticked = (covered \/ entry \in tools)
  BY DEF RowBox
<1>2. cleanEntry(entry) \in BOOLEAN /\ covered \in BOOLEAN
  BY DEF cleanEntry, coveringEntry
<1> HIDE DEF box, covered, entry
<1>3. cleanEntry(entry) \/ entry \notin tools
  BY DEF entry
<1>4. ShownNamed(box) <=> box.ticked
  BY <1>1, <1>2, <1>3 DEF ShownNamed
<1>5. ShownBlocked(box, side) => side = "allow" /\ ~box.ticked
  BY <1>1, <1>2, <1>3 DEF ShownBlocked, unnameableRowNote
<1> QED BY <1>4, <1>5 DEF box

\* What an entry's mark and the standing lines say of the members' tools.
LEMMA EntryMarks ==
    ASSUME NEW e, NEW kind, NEW m \in {"allow", "deny"}, NEW un, NEW gt, NEW over
    PROVE  /\ entryMark(e, kind, m, gt, un, over) = "Cannot be saved"
                 <=> entryProblem(e, kind, m, gt)
           /\ entryMark(e, kind, m, gt, un, over) = "Not advertised" => e \in un
BY DEF entryMark

\* A tool of one member of a loaded catalogue has the member's own slug.
LEMMA ToolOfMember ==
    ASSUME NEW ids, CatalogueIsTrue(ids), NEW m \in catalogue(ids), NEW t \in ToolsOf({m.id})
    PROVE  t.slug = m.slug /\ t = [slug |-> m.slug, name |-> t.name]
<1>1. PICK u \in Upstreams : u.id = m.id /\ u.slug = m.slug
  BY DEF CatalogueIsTrue
<1>2. PICK w \in Upstreams : w.id = m.id /\ t \in {[slug |-> w.slug, name |-> x] : x \in w.tools}
  BY DEF ToolsOf
<1>3. w = u
  BY <1>1, <1>2, UpstreamRows
<1> QED BY <1>1, <1>2, <1>3

LEMMA UnmatchedTrue ==
    ASSUME NEW ids, CatalogueIsTrue(ids), NEW S, NEW pre \in BOOLEAN,
           NEW e \in unmatchedEntries(S, catalogue(ids), pre)
    PROVE  ~\E t \in ToolsOf(ids) : MatchToolEntry(e, t, pre)
<1>1. /\ catalogueComplete(catalogue(ids))
      /\ ~\E t \in Advertised(catalogue(ids)) : matchToolEntry(e, t.slug, t.name, pre)
  BY DEF unmatchedEntries
<1>2. Advertised(catalogue(ids)) = ToolsOf(ids)
  BY <1>1, WholeCatalogue
<1> QED BY <1>1, <1>2, EntriesAgree

LEMMA PrefixTrue ==
    ASSUME NEW ids, CatalogueIsTrue(ids), NEW e, prefixMatches(e, catalogue(ids)) # {}
    PROVE  prefixMatches(e, catalogue(ids)) = {t \in ToolsOf(ids) : MatchToolEntry(e, t, TRUE)}
<1>1. catalogueComplete(catalogue(ids))
  BY DEF prefixMatches
<1>2. Advertised(catalogue(ids)) = ToolsOf(ids)
  BY <1>1, WholeCatalogue
<1>3. \A t : matchToolEntry(e, t.slug, t.name, TRUE) <=> MatchToolEntry(e, t, TRUE)
  BY EntriesAgree
<1> QED BY <1>1, <1>2, <1>3 DEF prefixMatches

\* The verdict of the filter a form would send.
LEMMA FormVerdict ==
    ASSUME NEW f, f.mode \in {"allow", "deny"}, NEW t
    PROVE  /\ GroupAlone(filterValue(f)).raw = filterValue(f)
           /\ blockedBy(GroupAlone(filterValue(f)), t)
                 <=> ~ValidateToolFilter(filterValue(f)) \/ ShutsOut(f, t)
<1> DEFINE raw == RawFilter("object", f.mode, f.tools, f.prefixes)
<1>1. filterValue(f) = raw
  BY DEF filterValue
<1>2. /\ raw.shape = "object" /\ raw.mode = f.mode /\ raw.tools = f.tools
      /\ raw.prefixes = f.prefixes
  BY DEF RawFilter
<1>3. GroupAlone(raw).raw = raw
  BY DEF GroupAlone, ToolRules
<1> HIDE DEF raw
<1>4. blockedBy(GroupAlone(raw), t) <=> ~ValidateToolFilter(raw) \/ ShutsOut(raw, t)
  BY <1>2, GroupVerdict
<1>5. ShutsOut(raw, t) <=> ShutsOut(f, t)
  BY <1>2 DEF ShutsOut
<1> QED BY <1>1, <1>3, <1>4, <1>5

LEMMA BlocksTrue ==
    ASSUME NEW ids, CatalogueIsTrue(ids), NEW f, f.mode \in {"allow", "deny"},
           blocksEverything(f, catalogue(ids)),
           NEW m \in {x \in catalogue(ids) : x.enabled}, NEW t \in ToolsOf({m.id})
    PROVE  blockedBy(GroupAlone(filterValue(f)), t)
<1> DEFINE c == catalogue(ids)
<1>1. /\ whole(m)
      /\ \A x \in Advertised({y \in c : y.enabled}) : ~filterPermits(f, x.slug, x.name)
  BY DEF blocksEverything, catalogueComplete
<1>2. PICK u \in Upstreams : u.id = m.id /\ u.slug = m.slug /\ m.tools = u.tools
  <2>1. m \in catalogue(ids)
    OBVIOUS
  <2>2. PICK u \in Upstreams :
           /\ u.id = m.id /\ u.slug = m.slug /\ u.slug # "" /\ m.id \in ids
           /\ whole(m) => m.tools = u.tools
           /\ m.state # "ok" => m.tools = {}
    BY <2>1, Zenon DEF CatalogueIsTrue
  <2> QED BY <1>1, <2>2
<1>3. PICK w \in Upstreams : w.id = m.id /\ t \in {[slug |-> w.slug, name |-> x] : x \in w.tools}
  BY DEF ToolsOf
<1>4. w = u
  BY <1>2, <1>3, UpstreamRows
<1>5. t \in Advertised({y \in c : y.enabled})
  BY <1>2, <1>3, <1>4 DEF Advertised
<1>6. ShutsOut(f, t)
  BY <1>1, <1>5, PermitsAgree
<1> QED BY <1>6, FormVerdict

LEMMA BadgeTrue ==
    ASSUME NEW g
    PROVE  groupFilterBadge(g) = "Filter unreadable" <=> ~ValidateToolFilter(g.tool_filter)
<1> DEFINE p == parseToolFilter(g.tool_filter)
<1>1. /\ p.kind \in {"none", "unreadable", "filter"} /\ p.form.mode \in Modes
      /\ ValidateToolFilter(g.tool_filter) <=> p.kind # "unreadable"
  BY ParsedIs, ParsedForm, ParseAgrees
<1>2. groupFilterBadge(g) = CASE p.kind = "unreadable" -> "Filter unreadable"
                              [] p.kind = "filter"     -> p.form.mode
                              [] OTHER                 -> ""
  BY DEF groupFilterBadge
<1> HIDE DEF p
<1> QED BY <1>1, <1>2 DEF Modes

LEMMA GroupReadsAlike ==
    ASSUME GroupInv, GroupTells
    PROVE  GroupRulesReadAlike
<1> DEFINE f == ui.form.filter
           ids == ui.form.upstream_ids
           c == groupCatalogue
           p == GroupAlone(filterValue(f))
           mark(e, kind) ==
              entryMark(e, kind, f.mode, TRUE,
                        unmatchedEntries(IF kind = "tool" THEN f.tools ELSE f.prefixes, c,
                                         kind = "prefix"), FALSE)
           entries == {<<e, "tool">> : e \in f.tools} \cup {<<e, "prefix">> : e \in f.prefixes}
           box(m, t) == RowBox(m, t, f.tools, f.prefixes, f.mode, TRUE)
           alone(e, kind) == IF kind = "tool" THEN RawFilter("object", f.mode, {e}, {})
                             ELSE RawFilter("object", f.mode, {}, {e})
<1>1. c = catalogue(ids) /\ CatalogueIsTrue(ids)
  <2>1. DeskPart(ui, reqs)
    BY GroupIs
  <2>2. DOMAIN ui.byId = MemberIds
    BY <2>1 DEF DeskPart, ShownPart
  <2>3. CatalogueIsTrue(ids)
    BY <2>2, CatalogueTrue DEF GroupTells
  <2> QED BY <2>3 DEF groupCatalogue
<1>2. f.mode \in Modes /\ GroupFormOk(ui.form)
  BY GroupIs DEF GroupFormOk
<1> HIDE DEF f, ids, c
<1>3. ASSUME f.mode # ""
      PROVE  /\ \A x \in entries :
                    /\ mark(x[1], x[2]) = "Cannot be saved"
                          <=> ~ValidateToolFilterWrite(alone(x[1], x[2]))
                    /\ mark(x[1], x[2]) = "Not advertised"
                          => ~\E t \in ToolsOf(ids) : MatchToolEntry(x[1], t, x[2] = "prefix")
             /\ \A e \in f.prefixes : prefixMatches(e, c) # {} =>
                    prefixMatches(e, c) = {t \in ToolsOf(ids) : MatchToolEntry(e, t, TRUE)}
             /\ Advertised(c) # {} => catalogueComplete(c) \/ incompleteLine(c)
  <2>1. f.mode \in {"allow", "deny"}
    BY <1>2, <1>3 DEF Modes
  <2>2. ASSUME NEW x \in entries
        PROVE  /\ mark(x[1], x[2]) = "Cannot be saved"
                          <=> ~ValidateToolFilterWrite(alone(x[1], x[2]))
               /\ mark(x[1], x[2]) = "Not advertised"
                          => ~\E t \in ToolsOf(ids) : MatchToolEntry(x[1], t, x[2] = "prefix")
    <3>1. PICK e, kind : e = x[1] /\ kind = x[2] /\ kind \in {"tool", "prefix"}
      BY <2>2
    <3> DEFINE S == IF kind = "tool" THEN f.tools ELSE f.prefixes
               un == unmatchedEntries(S, c, kind = "prefix")
    <3>2. mark(e, kind) = entryMark(e, kind, f.mode, TRUE, un, FALSE)
      OBVIOUS
    <3>3. entryProblem(e, kind, f.mode, TRUE) <=> ~ValidateToolFilterWrite(alone(e, kind))
      BY <2>1, <3>1, ProblemAgrees
    <3>4. e \in un => ~\E t \in ToolsOf(ids) : MatchToolEntry(e, t, kind = "prefix")
      BY <1>1, UnmatchedTrue
    <3> HIDE DEF un, mark, alone
    <3>5. /\ mark(e, kind) = "Cannot be saved" <=> ~ValidateToolFilterWrite(alone(e, kind))
          /\ mark(e, kind) = "Not advertised"
                => ~\E t \in ToolsOf(ids) : MatchToolEntry(e, t, kind = "prefix")
      BY <2>1, <3>2, <3>3, <3>4, EntryMarks
    <3> QED BY <3>1, <3>5
  <2>3. \A e \in f.prefixes : prefixMatches(e, c) # {} =>
           prefixMatches(e, c) = {t \in ToolsOf(ids) : MatchToolEntry(e, t, TRUE)}
    BY <1>1, PrefixTrue
  <2>4. Advertised(c) # {} => catalogueComplete(c) \/ incompleteLine(c)
    BY <1>1, SomeAdvertised
  <2> HIDE DEF mark, entries, alone
  <2> QED BY <2>2, <2>3, <2>4
<1>4. ASSUME f.mode # "", ValidateToolFilter(p.raw)
      PROVE  /\ \A m \in c : \A t \in m.tools :
                    /\ ShownNamed(box(m, t)) <=>
                          blockedBy(p, [slug |-> m.slug, name |-> t]) = (f.mode = "deny")
                    /\ ShownBlocked(box(m, t), f.mode) =>
                          blockedBy(p, [slug |-> m.slug, name |-> t])
             /\ \A m \in {x \in c : UNLISTED_STAYS_BLOCKED(x, f.mode)} :
                    \A t \in ToolsOf({m.id}) :
                       t.name \notin m.tools => blockedBy(p, t) \/ box(m, t.name).ticked
             /\ blocksEverything(f, c) =>
                    \A m \in {x \in c : x.enabled} : \A t \in ToolsOf({m.id}) : blockedBy(p, t)
             /\ filterAdmitsNothing(f) => \A t \in ToolsOf(ids) : blockedBy(p, t)
             /\ filterListsNothing(f) => \A t \in ToolsOf(ids) : ~blockedBy(p, t)
  <2>1. f.mode \in {"allow", "deny"}
    BY <1>2, <1>4 DEF Modes
  <2>2. \A t : blockedBy(p, t) <=> ShutsOut(f, t)
    <3>1. ValidateToolFilter(filterValue(f))
      BY <1>4 DEF GroupAlone, ToolRules
    <3> QED BY <2>1, <3>1, FormVerdict
  <2>3. ASSUME NEW m \in c, NEW t
        PROVE  box(m, t).ticked <=>
                  blockedBy(p, [slug |-> m.slug, name |-> t]) = (f.mode = "deny")
    <3> DEFINE id == [slug |-> m.slug, name |-> t]
               ticked == box(m, t).ticked
    <3>1. m.slug # ""
      BY <1>1 DEF CatalogueIsTrue
    <3>2. ticked <=> Names(f.tools, f.prefixes, id, f.mode = "allow" /\ TRUE)
      BY <3>1, TickedNames
    <3>3. blockedBy(p, id) <=> ShutsOut(f, id)
      BY <2>2
    <3>4. blockedBy(p, id) \in BOOLEAN
      BY DEF blockedBy
    <3>5. ticked \in BOOLEAN
      BY DEF RowBox, coveringEntry
    <3> HIDE DEF p, id, ticked
    <3>6. ASSUME f.mode = "allow" PROVE ticked <=> blockedBy(p, id) = (f.mode = "deny")
      <4>1. Names(f.tools, f.prefixes, id, f.mode = "allow" /\ TRUE)
              <=> Names(f.tools, f.prefixes, id, TRUE)
        BY <3>6
      <4> QED BY <3>2, <3>3, <3>4, <3>5, <3>6, <4>1 DEF ShutsOut
    <3>7. ASSUME f.mode = "deny" PROVE ticked <=> blockedBy(p, id) = (f.mode = "deny")
      <4>1. Names(f.tools, f.prefixes, id, f.mode = "allow" /\ TRUE)
              <=> Names(f.tools, f.prefixes, id, FALSE)
        BY <3>7 DEF Names
      <4> QED BY <3>2, <3>3, <3>4, <3>5, <3>7, <4>1 DEF ShutsOut
    <3>8. ticked <=> blockedBy(p, id) = (f.mode = "deny")
      BY <2>1, <3>6, <3>7
    <3> QED BY <3>8 DEF ticked, id
  <2>4. blocksEverything(f, c) =>
           \A m \in {x \in c : x.enabled} : \A t \in ToolsOf({m.id}) : blockedBy(p, t)
    BY <1>1, <2>1, BlocksTrue
  <2>5. filterAdmitsNothing(f) => \A t \in ToolsOf(ids) : blockedBy(p, t)
    BY <2>2 DEF filterAdmitsNothing, ShutsOut, Names
  <2>6. filterListsNothing(f) => \A t \in ToolsOf(ids) : ~blockedBy(p, t)
    BY <2>2 DEF filterListsNothing, ShutsOut, Names
  <2>7. \A e \in f.tools : cleanEntry(e)
    <3> DEFINE raw == RawFilter("object", f.mode, f.tools, f.prefixes)
    <3>1. p.raw = raw
      BY <1>4 DEF GroupAlone, ToolRules, filterValue
    <3>2. raw.shape = "object" /\ raw.tools = f.tools
      BY DEF RawFilter
    <3> HIDE DEF raw, p
    <3> QED BY <1>4, <3>1, <3>2, CleanAgree DEF ValidateToolFilter
  <2>8. ASSUME NEW m \in c, NEW t
        PROVE  /\ ShownNamed(box(m, t)) <=> box(m, t).ticked
               /\ ShownBlocked(box(m, t), f.mode) => f.mode = "allow" /\ ~box(m, t).ticked
    <3>1. cleanEntry(tickEntry(m.slug, t)) \/ tickEntry(m.slug, t) \notin f.tools
      BY <2>7
    <3> QED BY <3>1, ShownIs
  <2>9. \A t : blockedBy(p, t) \in BOOLEAN
    BY DEF blockedBy
  <2> HIDE DEF p, box
  <2>10. ASSUME NEW m \in c, NEW t, f.mode = "allow", ~box(m, t).ticked
         PROVE  blockedBy(p, [slug |-> m.slug, name |-> t])
    BY <2>3, <2>9, <2>10
  <2>11. ASSUME NEW m \in {x \in c : UNLISTED_STAYS_BLOCKED(x, f.mode)}, NEW t \in ToolsOf({m.id})
         PROVE  blockedBy(p, t) \/ box(m, t.name).ticked
    <3>1. f.mode = "allow" /\ m \in c
      BY <2>11 DEF UNLISTED_STAYS_BLOCKED
    <3>2. t = [slug |-> m.slug, name |-> t.name]
      BY <1>1, <3>1, ToolOfMember
    <3> QED BY <2>10, <3>1, <3>2
  <2>12. \A m \in c : \A t \in m.tools :
            /\ ShownNamed(box(m, t)) <=>
                  blockedBy(p, [slug |-> m.slug, name |-> t]) = (f.mode = "deny")
            /\ ShownBlocked(box(m, t), f.mode) =>
                  blockedBy(p, [slug |-> m.slug, name |-> t])
    BY <2>3, <2>8, <2>10
  <2>13. \A m \in {x \in c : UNLISTED_STAYS_BLOCKED(x, f.mode)} :
            \A t \in ToolsOf({m.id}) :
               t.name \notin m.tools => blockedBy(p, t) \/ box(m, t.name).ticked
    BY <2>11
  <2> QED BY <2>4, <2>5, <2>6, <2>12, <2>13
<1>5. \A g \in ui.items :
         groupFilterBadge(g) = "Filter unreadable" <=> ~ValidateToolFilter(g.tool_filter)
  BY BadgeTrue
<1>6. ~groupBlocked => FilterAccepted(SaveBody)
  <2>1. SaveBody = BodyOf(ui)
    BY DEF SaveBody, BodyOf, mode
  <2>2. ASSUME ~groupBlocked, "tool_filter" \in DOMAIN BodyOf(ui)
        PROVE  ValidateToolFilterWrite(BodyOf(ui).tool_filter)
    <3>1. BodyOf(ui).tool_filter = filterValue(f) /\ ~filterProblem(f)
      BY <2>2, BodyFilter DEF groupBlocked, f
    <3> QED BY <1>2, <3>1, AcceptedWrite
  <2> QED BY <2>1, <2>2 DEF FilterAccepted
<1> HIDE DEF mark, entries, alone, p, box
<1> QED BY <1>3, <1>4, <1>5, <1>6 DEF GroupRulesReadAlike, f, ids, c, mark, entries, alone, p, box

----------------------------------------------------------------------------
\* A group's filter, as a key's dialog shows it and as the proxy runs it.
LEMMA GroupBlocksAgree ==
    ASSUME NEW raw, NEW id
    PROVE  groupBlocks(raw, id.slug, id.name) <=> blockedBy(GroupAlone(raw), id)
<1> DEFINE p == parseToolFilter(raw)
<1>1. /\ p.kind \in {"none", "unreadable", "filter"} /\ p.form.mode \in Modes
      /\ ValidateToolFilter(raw) <=> p.kind # "unreadable"
      /\ p.kind = "filter" => /\ raw.shape = "object" /\ raw.mode # ""
                              /\ p.form = FilterForm(raw.mode, raw.tools, raw.prefixes)
      /\ p.kind = "none" => raw.shape # "object" \/ raw.mode = ""
  BY ParsedIs, ParsedForm, ParseAgrees
<1>2. blockedBy(GroupAlone(raw), id)
         <=> ~ValidateToolFilter(raw) \/ (raw.shape = "object" /\ ShutsOut(raw, id))
  BY GroupVerdict
<1>3. groupBlocks(raw, id.slug, id.name) <=>
         CASE p.kind = "unreadable" -> TRUE
           [] p.kind = "none"       -> FALSE
           [] OTHER -> ~filterPermits(p.form, id.slug, id.name)
  BY DEF groupBlocks
<1> HIDE DEF p
<1>4. CASE p.kind = "unreadable"
  BY <1>1, <1>2, <1>3, <1>4
<1>5. CASE p.kind = "none"
  BY <1>1, <1>2, <1>3, <1>5 DEF ShutsOut
<1>6. CASE p.kind = "filter"
  <2> DEFINE form == FilterForm(raw.mode, raw.tools, raw.prefixes)
  <2>0. form.mode = raw.mode /\ form.tools = raw.tools /\ form.prefixes = raw.prefixes
    BY ONLY TRUE DEF FilterForm
  <2> HIDE DEF form
  <2>1. /\ p.form.mode = raw.mode /\ p.form.tools = raw.tools /\ p.form.prefixes = raw.prefixes
    BY <1>1, <1>6, <2>0 DEF form
  <2>2. p.form.mode \in {"allow", "deny"}
    BY <1>1, <1>6, <2>1 DEF Modes
  <2>3. ~filterPermits(p.form, id.slug, id.name) <=> ShutsOut(p.form, id)
    BY <2>2, PermitsAgree
  <2>4. ShutsOut(p.form, id) <=> ShutsOut(raw, id)
    BY <2>1 DEF ShutsOut
  <2> QED BY <1>1, <1>2, <1>3, <1>6, <2>3, <2>4
<1> QED BY <1>1, <1>4, <1>5, <1>6

LEMMA NoFilterIs ==
    /\ ValidateToolFilter(NoFilter) /\ NoFilter.shape = "absent"
    /\ parseToolFilter(NoFilter).kind = "none"
<1>1. NoFilter.shape = "absent"
  BY DEF NoFilter, RawFilter
<1> QED BY <1>1 DEF ValidateToolFilter, parseToolFilter

\* The verdict on one call, as the rules of a key: lists that cannot be read,
\* the group's filter, the deny list and the allow list.
KeyJudges(deny, allow, bad, raw, gt, id) ==
    blockedBy(ToolRules(deny, allow, bad, raw, gt), id) <=>
       \/ bad
       \/ blockedBy(GroupAlone(raw), id)
       \/ Names(deny, {}, id, FALSE)
       \/ allow # {} /\ ~Names(allow, {}, id, gt)

LEMMA KeyVerdict ==
    ASSUME NEW deny, NEW allow, NEW raw, NEW gt \in BOOLEAN, NEW bad, NEW id,
           gt \/ raw = NoFilter
    PROVE  KeyJudges(deny, allow, bad, raw, gt, id)
<1> DEFINE p == ToolRules(deny, allow, bad, raw, gt)
           f == IF raw.shape = "object" THEN raw ELSE NoFilter
           listed(allowSide) == \/ matchesAny(p, f.tools, id, FALSE, allowSide)
                                \/ matchesAny(p, f.prefixes, id, TRUE, allowSide)
<1>1. /\ p.deny = deny /\ p.allow = allow /\ p.listsMalformed = bad /\ p.raw = raw
      /\ p.groupTarget = gt
  BY DEF ToolRules
<1>2. blockedBy(p, id) <=>
         \/ ~ValidateToolFilter(raw) \/ bad
         \/ matchesAny(p, deny, id, FALSE, FALSE)
         \/ allow # {} /\ ~matchesAny(p, allow, id, FALSE, TRUE)
         \/ f.mode = "allow" /\ ~listed(TRUE)
         \/ f.mode = "deny" /\ listed(FALSE)
  BY <1>1 DEF blockedBy
<1> HIDE DEF p
<1>3. matchesAny(p, deny, id, FALSE, FALSE) <=> Names(deny, {}, id, FALSE)
  BY DEF matchesAny, Names
<1>4. matchesAny(p, allow, id, FALSE, TRUE) <=> Names(allow, {}, id, gt)
  BY <1>1 DEF matchesAny, Names
<1>5. gt => (listed(TRUE) <=> Names(f.tools, f.prefixes, id, TRUE))
  BY <1>1 DEF matchesAny, Names
<1>6. listed(FALSE) <=> Names(f.tools, f.prefixes, id, FALSE)
  BY DEF matchesAny, Names
<1>7. raw.shape # "object" => f.mode = ""
  BY DEF NoFilter, RawFilter
<1>8. blockedBy(GroupAlone(raw), id)
         <=> ~ValidateToolFilter(raw) \/ (raw.shape = "object" /\ ShutsOut(raw, id))
  BY GroupVerdict
<1>9. ~gt => raw.shape # "object"
  BY NoFilterIs
<1> HIDE DEF listed
<1>10. CASE raw.shape = "object"
  <2>1. gt /\ f = raw
    BY <1>9, <1>10
  <2>2. (f.mode = "allow" /\ ~listed(TRUE)) \/ (f.mode = "deny" /\ listed(FALSE))
           <=> ShutsOut(raw, id)
    BY <1>5, <1>6, <2>1 DEF ShutsOut
  <2> QED BY <1>2, <1>3, <1>4, <1>8, <1>10, <2>2 DEF p, KeyJudges
<1>11. CASE raw.shape # "object"
  <2>1. f.mode = ""
    BY <1>7, <1>11
  <2> HIDE DEF f
  <2> QED BY <1>2, <1>3, <1>4, <1>8, <1>11, <2>1 DEF p, KeyJudges
<1> QED BY <1>10, <1>11

LEMMA DeniedAgrees ==
    ASSUME NEW deny, NEW id
    PROVE  deniedBy(id.slug, id.name, deny) <=> Names(deny, {}, id, FALSE)
BY EntriesAgree DEF deniedBy, Names

\* The one group a key targets.
LEMMA TargetFilter ==
    ASSUME NEW vk, NEW g \in KeyGroups, vk.target_type = "group", g.id = vk.target_id
    PROVE  GroupFilter(vk) = g.tool_filter
<1> DEFINE h == CHOOSE x \in KeyGroups : x.id = vk.target_id
<1>1. h \in KeyGroups /\ h.id = vk.target_id
  OBVIOUS
<1>2. h = g
  BY <1>1, KeyGroupRows
<1>3. GroupFilter(vk) = h.tool_filter
  BY DEF GroupFilter
<1> HIDE DEF h
<1> QED BY <1>2, <1>3

LEMMA NoTargetFilter ==
    ASSUME NEW vk, ~\E g \in KeyGroups : vk.target_type = "group" /\ g.id = vk.target_id
    PROVE  GroupFilter(vk) = NoFilter
BY DEF GroupFilter

\* What a key's list rejects, the API would refuse.
LEMMA ListAccepted ==
    ASSUME NEW list, NEW side, NEW gt, ~listProblem(list, side, gt)
    PROVE  ValidateToolList(side, list, gt)
BY CleanAgree DEF listProblem, entryProblem, ValidateToolList, validateEntries, requireScoped

----------------------------------------------------------------------------
(* The Virtual keys page's dialogs and the rules of a key.                  *)

\* What a key's dialog stands on is true of the target.
LEMMA KeyDeskTrue ==
    ASSUME KeyInv, KeyTells
    PROVE  /\ CatalogueIsTrue(targetIds)
           /\ keyCatalogue # {} => ui.groups = KeyGroups /\ ui.upstreams = Upstreams
           /\ groupTarget \in BOOLEAN
<1>1. DOMAIN ui.byId = MemberIds
  BY KeyIs DEF DeskPart, ShownPart
<1>2. CatalogueTells(ui, reqs) /\ KeysLoaded(ui)
  BY DEF KeyTells
<1>3. GroupsLoaded(ui)
  BY <1>2 DEF KeysLoaded, GroupsLoaded
<1>4. CatalogueIsTrue(targetIds)
  BY <1>1, <1>2, <1>3, CatalogueTrue
<1>5. ASSUME keyCatalogue # {} PROVE ui.upstreams # {}
  BY <1>5 DEF keyCatalogue, catalogue, members
<1> QED BY <1>2, <1>4, <1>5 DEF KeysLoaded, groupTarget

\* The note under a row that the group's filter stops its tool.
LEMMA GroupNote ==
    ASSUME ui.groups = KeyGroups, NEW id
    PROVE  (\E g \in TargetGroup : groupBlocks(g.tool_filter, id.slug, id.name))
              <=> blockedBy(GroupAlone(GroupFilter(Target)), id)
<1>1. TargetGroup = {g \in KeyGroups : Target.target_type = "group" /\ g.id = Target.target_id}
  BY DEF TargetGroup, groupTarget
<1>2. CASE \E g \in KeyGroups : Target.target_type = "group" /\ g.id = Target.target_id
  <2>1. PICK g \in KeyGroups : Target.target_type = "group" /\ g.id = Target.target_id
    BY <1>2
  <2>2. TargetGroup = {g}
    BY <1>1, <2>1, KeyGroupRows
  <2>3. GroupFilter(Target) = g.tool_filter
    BY <2>1, TargetFilter
  <2> QED BY <2>2, <2>3, GroupBlocksAgree
<1>3. CASE ~\E g \in KeyGroups : Target.target_type = "group" /\ g.id = Target.target_id
  <2>1. TargetGroup = {} /\ GroupFilter(Target) = NoFilter
    BY <1>1, <1>3, NoTargetFilter
  <2>2. ~blockedBy(GroupAlone(NoFilter), id)
    BY NoFilterIs, GroupVerdict
  <2> QED BY <2>1, <2>2
<1> QED BY <1>2, <1>3

\* The proxy's verdict on a call, with the lists in the form.
LEMMA DialogVerdict ==
    ASSUME NEW deny, NEW allow, NEW id
    PROVE  blockedBy(ToolRules(deny, allow, FALSE, GroupFilter(Target), groupTarget), id) <=>
              \/ blockedBy(GroupAlone(GroupFilter(Target)), id)
              \/ Names(deny, {}, id, FALSE)
              \/ allow # {} /\ ~Names(allow, {}, id, groupTarget)
<1>1. groupTarget \in BOOLEAN /\ (groupTarget \/ GroupFilter(Target) = NoFilter)
  BY DEF groupTarget, GroupFilter
<1>2. PICK raw, gt, bad : raw = GroupFilter(Target) /\ gt = groupTarget /\ bad = FALSE
  OBVIOUS
<1>3. gt \in BOOLEAN
  BY <1>1, <1>2
<1>4. gt \/ raw = NoFilter
  BY <1>1, <1>2
<1>5. KeyJudges(deny, allow, bad, raw, gt, id)
  BY <1>3, <1>4, KeyVerdict
<1> QED BY <1>2, <1>5 DEF KeyJudges

RowJudged(m, t) ==
    LET f == ui.form
        p == ToolRules(f.tool_denylist, f.tool_allowlist, FALSE, GroupFilter(Target), groupTarget)
        ticked(field) == RowBox(m, t, f[field], {}, Side(field), groupTarget).ticked
    IN  blockedBy(p, [slug |-> m.slug, name |-> t]) <=>
           \/ rowNotes(m.slug, t, "allow") # {}
           \/ ticked("tool_denylist")
           \/ f.tool_allowlist # {} /\ ~ticked("tool_allowlist")

LEMMA RowsJudged ==
    ASSUME KeyInv, KeyTells, NEW m \in keyCatalogue, NEW t
    PROVE  RowJudged(m, t)
<1> DEFINE id == [slug |-> m.slug, name |-> t]
           deny == ui.form.tool_denylist
           allow == ui.form.tool_allowlist
           p == ToolRules(deny, allow, FALSE, GroupFilter(Target), groupTarget)
           ticked(field) == RowBox(m, t, ui.form[field], {}, Side(field), groupTarget).ticked
<1>1. id.slug = m.slug /\ id.name = t
  OBVIOUS
<1>2. /\ ui.groups = KeyGroups /\ m.slug # "" /\ groupTarget \in BOOLEAN
  BY KeyDeskTrue DEF CatalogueIsTrue, keyCatalogue
<1>3. ticked("tool_denylist") <=> Names(deny, {}, id, FALSE)
  <2>1. ticked("tool_denylist") <=> Names(deny, {}, id, Side("tool_denylist") = "allow" /\ groupTarget)
    BY <1>2, TickedNames
  <2>2. (Side("tool_denylist") = "allow" /\ groupTarget) = FALSE
    BY <1>2 DEF Side
  <2> QED BY <2>1, <2>2
<1>4. ticked("tool_allowlist") <=> Names(allow, {}, id, groupTarget)
  <2>1. ticked("tool_allowlist") <=> Names(allow, {}, id, Side("tool_allowlist") = "allow" /\ groupTarget)
    BY <1>2, TickedNames
  <2>2. (Side("tool_allowlist") = "allow" /\ groupTarget) = groupTarget
    BY <1>2 DEF Side
  <2> QED BY <2>1, <2>2
<1>5. rowNotes(m.slug, t, "allow") # {} <=>
         \/ blockedBy(GroupAlone(GroupFilter(Target)), id) \/ Names(deny, {}, id, FALSE)
  <2>1. rowNotes(m.slug, t, "allow") # {} <=>
           \/ \E g \in TargetGroup : groupBlocks(g.tool_filter, id.slug, id.name)
           \/ deniedBy(id.slug, id.name, deny)
    BY <1>1 DEF rowNotes
  <2>2. deniedBy(id.slug, id.name, deny) <=> Names(deny, {}, id, FALSE)
    BY DeniedAgrees
  <2>3. (\E g \in TargetGroup : groupBlocks(g.tool_filter, id.slug, id.name))
           <=> blockedBy(GroupAlone(GroupFilter(Target)), id)
    BY <1>2, GroupNote
  <2> HIDE DEF id
  <2> QED BY <2>1, <2>2, <2>3
<1>6. blockedBy(p, id) <=>
              \/ blockedBy(GroupAlone(GroupFilter(Target)), id)
              \/ Names(deny, {}, id, FALSE)
              \/ allow # {} /\ ~Names(allow, {}, id, groupTarget)
  BY DialogVerdict
<1> HIDE DEF id, p, ticked
<1>7. blockedBy(p, id) <=>
           \/ rowNotes(m.slug, t, "allow") # {}
           \/ ticked("tool_denylist")
           \/ allow # {} /\ ~ticked("tool_allowlist")
  BY <1>3, <1>4, <1>5, <1>6
<1> QED BY <1>7 DEF RowJudged, id, p, ticked, deny, allow

\* What a row of the key's pickers shows of its tool is the proxy's verdict.
KeyRowReads(m, t) ==
    LET f == ui.form
        p == ToolRules(f.tool_denylist, f.tool_allowlist, FALSE, GroupFilter(Target), groupTarget)
        box(field) == RowBox(m, t, f[field], {}, Side(field), groupTarget)
    IN  /\ blockedBy(p, [slug |-> m.slug, name |-> t]) <=>
              \/ rowNotes(m.slug, t, "allow") # {}
              \/ ShownNamed(box("tool_denylist"))
              \/ f.tool_allowlist # {} /\ ~ShownNamed(box("tool_allowlist"))
        /\ ShownBlocked(box("tool_allowlist"), "allow") =>
              blockedBy(p, [slug |-> m.slug, name |-> t]) \/ f.tool_allowlist = {}

LEMMA KeyRowsRead ==
    ASSUME KeyInv, KeyTells, NEW m \in keyCatalogue, NEW t,
           \/ cleanEntry(tickEntry(m.slug, t))
           \/ tickEntry(m.slug, t) \notin ui.form.tool_allowlist \cup ui.form.tool_denylist
    PROVE  KeyRowReads(m, t)
<1> DEFINE f == ui.form
           p == ToolRules(f.tool_denylist, f.tool_allowlist, FALSE, GroupFilter(Target), groupTarget)
           blocked == blockedBy(p, [slug |-> m.slug, name |-> t])
           box(field) == RowBox(m, t, f[field], {}, Side(field), groupTarget)
<1>1. RowJudged(m, t)
  BY RowsJudged
<1>2. blocked <=>
           \/ rowNotes(m.slug, t, "allow") # {}
           \/ box("tool_denylist").ticked
           \/ f.tool_allowlist # {} /\ ~box("tool_allowlist").ticked
  BY <1>1 DEF RowJudged
<1>3. ShownNamed(box("tool_denylist")) <=> box("tool_denylist").ticked
  BY ShownIs
<1>4. /\ ShownNamed(box("tool_allowlist")) <=> box("tool_allowlist").ticked
      /\ ShownBlocked(box("tool_allowlist"), Side("tool_allowlist"))
            => ~box("tool_allowlist").ticked
  BY ShownIs
<1>5. Side("tool_allowlist") = "allow"
  BY DEF Side
<1> HIDE DEF box, blocked
<1>6. /\ blocked <=>
            \/ rowNotes(m.slug, t, "allow") # {}
            \/ ShownNamed(box("tool_denylist"))
            \/ f.tool_allowlist # {} /\ ~ShownNamed(box("tool_allowlist"))
      /\ ShownBlocked(box("tool_allowlist"), "allow") => blocked \/ f.tool_allowlist = {}
  BY <1>2, <1>3, <1>4, <1>5
<1> QED BY <1>6 DEF KeyRowReads, box, blocked

\* A tool the catalogue left out is blocked, unless the allow list is empty or an
\* entry of it reaches the tool.
UnlistedReads(m, t) ==
    LET f == ui.form
        p == ToolRules(f.tool_denylist, f.tool_allowlist, FALSE, GroupFilter(Target), groupTarget)
    IN  \/ blockedBy(p, t)
        \/ f.tool_allowlist = {}
        \/ RowBox(m, t.name, f["tool_allowlist"], {}, Side("tool_allowlist"), groupTarget).ticked

LEMMA KeyUnlisted ==
    ASSUME KeyInv, KeyTells, NEW m \in keyCatalogue, NEW t \in ToolsOf({m.id})
    PROVE  UnlistedReads(m, t)
<1>1. t = [slug |-> m.slug, name |-> t.name]
  BY KeyDeskTrue, ToolOfMember DEF keyCatalogue
<1>2. RowJudged(m, t.name)
  BY RowsJudged
<1> QED BY <1>1, <1>2 DEF RowJudged, UnlistedReads

\* The marks of a key's list: what the API would refuse, and what no tool has.
LEMMA KeyMarks ==
    ASSUME KeyInv, KeyTells, NEW k \in Lists, NEW e \in ui.form[k]
    PROVE  /\ listMark(ui.form, keyCatalogue, k, e) = "Cannot be saved"
                 <=> ~ValidateToolList(Side(k), {e}, groupTarget)
           /\ listMark(ui.form, keyCatalogue, k, e) = "Not advertised"
                 => ~\E t \in ToolsOf(targetIds) : MatchToolEntry(e, t, FALSE)
<1> DEFINE un == unmatchedEntries(ui.form[k], keyCatalogue, FALSE)
           over == k = "tool_allowlist" /\ allowEntryDeniedBy(e, ui.form.tool_denylist, targetSlug)
<1>1. Side(k) \in {"allow", "deny"} /\ groupTarget \in BOOLEAN
  BY KeyDeskTrue DEF Side
<1>2. listMark(ui.form, keyCatalogue, k, e) = entryMark(e, "tool", Side(k), groupTarget, un, over)
  BY DEF listMark
<1>3. e \in un => ~\E t \in ToolsOf(targetIds) : MatchToolEntry(e, t, FALSE)
  BY KeyDeskTrue, UnmatchedTrue DEF keyCatalogue
<1> HIDE DEF un, over
<1>4. /\ entryMark(e, "tool", Side(k), groupTarget, un, over) = "Cannot be saved"
            <=> entryProblem(e, "tool", Side(k), groupTarget)
      /\ entryMark(e, "tool", Side(k), groupTarget, un, over) = "Not advertised" => e \in un
  BY <1>1, EntryMarks
<1>5. entryProblem(e, "tool", Side(k), groupTarget)
         <=> ~ValidateToolList(Side(k), {e}, groupTarget)
  BY <1>1, CleanAgree DEF entryProblem, ValidateToolList, validateEntries, requireScoped
<1> QED BY <1>2, <1>3, <1>4, <1>5

\* The tool an allow entry names, on the key's one upstream.
LEMMA TheTargetSlug ==
    ASSUME KeyInv, KeyTells, NEW m \in keyCatalogue, ~groupTarget
    PROVE  targetSlug = m.slug
<1>1. ui.upstreams = Upstreams /\ targetIds \subseteq {Target.target_id}
  BY KeyDeskTrue DEF targetIds
<1> HIDE DEF targetIds
<1>2. PICK u \in members(targetIds) : m.slug = u.slug
  BY DEF keyCatalogue, catalogue
<1> DEFINE w == CHOOSE x \in members(targetIds) : TRUE
<1>3. w \in members(targetIds)
  BY <1>2
<1>4. targetSlug = w.slug
  BY <1>2 DEF targetSlug
<1> HIDE DEF w
<1>5. w = u
  BY <1>1, <1>2, <1>3, UpstreamRows DEF members
<1> QED BY <1>2, <1>4, <1>5

\* The standing line and the Also denied mark.
LEMMA DeniedIsBlocked ==
    ASSUME NEW deny, NEW allow, NEW e \in allow, NEW slug, NEW t \in entryTool(e, slug),
           allowEntryDeniedBy(e, deny, slug)
    PROVE  blockedBy(ToolRules(deny, allow, FALSE, GroupFilter(Target), groupTarget), t)
<1>1. PICK x \in entryTool(e, slug) : deniedBy(x.slug, x.name, deny)
  BY DEF allowEntryDeniedBy
<1>2. x = t
  BY <1>1 DEF entryTool
<1>3. Names(deny, {}, t, FALSE)
  BY <1>1, <1>2, DeniedAgrees
<1> QED BY <1>3, DialogVerdict

LEMMA NothingAdmitted ==
    ASSUME KeyInv, KeyTells, NEW m \in keyCatalogue, NEW t, NEW deny, NEW allow,
           allowListAdmitsNothing(allow, deny, groupTarget, targetSlug)
    PROVE  blockedBy(ToolRules(deny, allow, FALSE, GroupFilter(Target), groupTarget),
                     [slug |-> m.slug, name |-> t])
<1> DEFINE id == [slug |-> m.slug, name |-> t]
<1>1. id.slug = m.slug /\ id.name = t /\ id = [slug |-> m.slug, name |-> t]
  OBVIOUS
<1>2. m.slug # ""
  BY KeyDeskTrue DEF CatalogueIsTrue, keyCatalogue
<1>3. groupTarget \/ targetSlug = m.slug
  BY TheTargetSlug
<1> HIDE DEF id
<1>4. ASSUME Names(allow, {}, id, groupTarget) PROVE Names(deny, {}, id, FALSE)
  <2>1. PICK e \in allow : (groupTarget => scoped(e)) /\ MatchToolEntry(e, id, FALSE)
    BY <1>4 DEF Names
  <2>2. allowEntryDeniedBy(e, deny, targetSlug)
    BY <2>1 DEF allowListAdmitsNothing
  <2>3. PICK x \in entryTool(e, targetSlug) : deniedBy(x.slug, x.name, deny)
    BY <2>2 DEF allowEntryDeniedBy
  <2>4. x = [slug |-> IF scoped(e) THEN e.head ELSE targetSlug, name |-> e.rest]
    BY <2>3 DEF entryTool
  <2>5. (IF scoped(e) THEN e.head ELSE targetSlug) = m.slug /\ e.rest = t
    BY <1>1, <1>3, <2>1 DEF MatchToolEntry
  <2>6. x = id
    BY <1>1, <2>4, <2>5
  <2> QED BY <2>3, <2>6, DeniedAgrees
<1>5. allow # {}
  BY DEF allowListAdmitsNothing
<1> QED BY <1>1, <1>4, <1>5, DialogVerdict

\* What Save lets through, the API takes.
LEMMA ListsLetThrough ==
    ASSUME ~keyBlocked, NEW k \in Lists, Sent(KeySaveBody, k)
    PROVE  ValidateToolList(Side(k), ui.form[k], groupTarget)
<1>1. CASE ui.editing = NoRow
  BY <1>1, ListAccepted DEF keyBlocked, keySaveBlocked
<1>2. CASE ui.editing # NoRow
  <2>1. k \in listsSent(ui.editing, ui.form)
    BY <1>2, PatchedLists DEF KeySaveBody, ListsIn
  <2> QED BY <1>2, <2>1, ListAccepted DEF keyBlocked, keySaveBlocked
<1> QED BY <1>1, <1>2

\* The badge of a row, and the rules of the key it stands on.
LEMMA KeyBadgeTrue ==
    ASSUME NEW vk, NEW t
    PROVE  /\ keyRulesBadge(vk) = "" => ~blockedBy(OwnRules(vk), t)
           /\ keyRulesBadge(vk) = "Rules unreadable" => blockedBy(OwnRules(vk), t)
<1>1. keyRulesBadge(vk) = "" => /\ ~vk.lists_malformed
                                /\ vk.tool_allowlist = {} /\ vk.tool_denylist = {}
  BY DEF keyRulesBadge, Lists
<1>2. keyRulesBadge(vk) = "Rules unreadable" => vk.lists_malformed
  BY DEF keyRulesBadge
<1>3. PICK gt, bad : gt = (vk.target_type = "group") /\ bad = vk.lists_malformed
  OBVIOUS
<1>4. ~blockedBy(GroupAlone(NoFilter), t)
  BY NoFilterIs, GroupVerdict
<1>5. gt \in BOOLEAN
  BY <1>3
<1>6. PICK raw : raw = NoFilter
  OBVIOUS
<1>7. gt \/ raw = NoFilter
  BY <1>6
<1>8. KeyJudges(vk.tool_denylist, vk.tool_allowlist, bad, raw, gt, t)
  BY <1>5, <1>7, KeyVerdict
<1>9. blockedBy(OwnRules(vk), t)
         <=> \/ vk.lists_malformed
             \/ Names(vk.tool_denylist, {}, t, FALSE)
             \/ vk.tool_allowlist # {} /\ ~Names(vk.tool_allowlist, {}, t, gt)
  BY <1>3, <1>4, <1>6, <1>8 DEF OwnRules, KeyJudges
<1> QED BY <1>1, <1>2, <1>9 DEF Names

\* The Policy dialog's block about a group is pink only when the group's filter
\* stops every tool.
LEMMA SummaryBlocks ==
    ASSUME NEW raw, groupFilterSummary(raw, FALSE), NEW t
    PROVE  blockedBy(GroupAlone(raw), t)
<1> DEFINE p == parseToolFilter(raw)
<1>1. /\ p.kind \in {"none", "unreadable", "filter"}
      /\ ValidateToolFilter(raw) <=> p.kind # "unreadable"
      /\ p.kind = "filter" => /\ raw.shape = "object" /\ raw.mode # ""
                              /\ p.form = FilterForm(raw.mode, raw.tools, raw.prefixes)
  BY ParsedIs, ParseAgrees
<1>2. p.kind = "none" => p.form = blankFilterForm
  BY DEF parseToolFilter
<1>3. p.kind = "unreadable" \/ filterAdmitsNothing(p.form)
  BY DEF groupFilterSummary
<1>4. ~filterAdmitsNothing(blankFilterForm)
  <2>1. blankFilterForm.mode = ""
    BY DEF blankFilterForm, FilterForm
  <2> HIDE DEF blankFilterForm
  <2> QED BY <2>1 DEF filterAdmitsNothing
<1>5. blockedBy(GroupAlone(raw), t)
         <=> ~ValidateToolFilter(raw) \/ (raw.shape = "object" /\ ShutsOut(raw, t))
  BY GroupVerdict
<1> HIDE DEF p
<1>6. CASE p.kind = "unreadable"
  BY <1>1, <1>5, <1>6
<1>7. CASE p.kind = "filter"
  <2> DEFINE form == FilterForm(raw.mode, raw.tools, raw.prefixes)
  <2>1. form.mode = raw.mode /\ form.tools = raw.tools /\ form.prefixes = raw.prefixes
    BY ONLY TRUE DEF FilterForm
  <2>2. filterAdmitsNothing(form)
    BY <1>1, <1>3, <1>7
  <2> HIDE DEF form
  <2>3. ShutsOut(raw, t)
    BY <2>1, <2>2 DEF filterAdmitsNothing, ShutsOut, Names
  <2> QED BY <1>1, <1>5, <1>7, <2>3
<1> QED BY <1>1, <1>2, <1>3, <1>4, <1>6, <1>7

\* What the dialog says of one key's policy is so, and said when it is.
PolicyIsTrue(v, vk) ==
    /\ v.id = vk.id
    /\ "mcp" \in v.target_kinds =>
          /\ v.lists_malformed => "lists" \in PolicyBody(v)
          /\ ~ValidateToolFilter(GroupFilter(vk)) => "group" \in PolicyBody(v)
    /\ v.methods_malformed /\ "http" \in v.target_kinds => "methods" \in PolicyBody(v)
    /\ "group" \in PolicyBody(v) =>
          \A t : blockedBy(GroupAlone(GroupFilter(vk)), t)

LEMMA PolicyTrue ==
    ASSUME NEW v, NEW vk, About(v, vk)
    PROVE  PolicyIsTrue(v, vk)
<1> DEFINE served(g) ==
              [tool_filter |-> IF g.tool_filter.shape = "object" THEN g.tool_filter ELSE NoFilter,
               malformed |-> ~ValidateToolFilter(g.tool_filter)]
           groups == {g \in KeyGroups : vk.target_type = "group" /\ g.id = vk.target_id}
           pinkGroup == \E x \in v.group : groupFilterSummary(x.tool_filter, x.malformed)
<1>1. v.id = vk.id /\ v.group = {served(g) : g \in groups}
  BY DEF About, GroupView
<1>2. \A g : /\ served(g).malformed = ~ValidateToolFilter(g.tool_filter)
             /\ g.tool_filter.shape = "object" => served(g).tool_filter = g.tool_filter
             /\ g.tool_filter.shape # "object" => served(g).tool_filter = NoFilter
  OBVIOUS
<1>3. /\ "group" \in PolicyBody(v) <=> pinkGroup /\ "mcp" \in visibleBlocks(v)
      /\ "lists" \in PolicyBody(v) <=> v.lists_malformed /\ "mcp" \in visibleBlocks(v)
      /\ v.methods_malformed /\ "http" \in visibleBlocks(v) => "methods" \in PolicyBody(v)
  <2> DEFINE block == [lists |-> "mcp", group |-> "mcp", methods |-> "http"]
             pink == [lists |-> keyListsState(v) = "unreadable",
                      group |-> pinkGroup,
                      methods |-> methodsSentence(v) = "unreadable"]
  <2>1. PolicyBody(v) = {k \in DOMAIN block : pink[k] /\ block[k] \in visibleBlocks(v)}
    BY DEF PolicyBody
  <2>2. DOMAIN block = {"lists", "group", "methods"}
    OBVIOUS
  <2>3. block["lists"] = "mcp" /\ block["group"] = "mcp" /\ block["methods"] = "http"
    OBVIOUS
  <2>4. pink["group"] = pinkGroup
    OBVIOUS
  <2>5. pink["lists"] = (keyListsState(v) = "unreadable")
    OBVIOUS
  <2>6. keyListsState(v) = "unreadable" <=> v.lists_malformed
    BY DEF keyListsState
  <2>7. pink["methods"] = (methodsSentence(v) = "unreadable")
    OBVIOUS
  <2>8. v.methods_malformed => methodsSentence(v) = "unreadable"
    BY DEF methodsSentence
  <2> HIDE DEF block, pink, pinkGroup
  <2> QED BY <2>1, <2>2, <2>3, <2>4, <2>5, <2>6, <2>7, <2>8
<1>4. \A b \in {"mcp", "http"} : b \in v.target_kinds => b \in visibleBlocks(v)
  BY DEF visibleBlocks
<1> HIDE DEF served
<1>5. ASSUME ~ValidateToolFilter(GroupFilter(vk)) PROVE pinkGroup
  <2>1. PICK g \in groups : TRUE
    BY <1>5, NoTargetFilter, NoFilterIs
  <2>2. GroupFilter(vk) = g.tool_filter
    BY <2>1, TargetFilter
  <2>3. served(g) \in v.group /\ served(g).malformed = TRUE
    BY <1>1, <1>2, <1>5, <2>1, <2>2
  <2> QED BY <2>3 DEF groupFilterSummary
<1>6. ASSUME pinkGroup, NEW t PROVE blockedBy(GroupAlone(GroupFilter(vk)), t)
  <2>1. PICK x \in v.group : groupFilterSummary(x.tool_filter, x.malformed)
    BY <1>6
  <2>2. PICK g \in groups : x = served(g)
    BY <1>1, <2>1
  <2>3. GroupFilter(vk) = g.tool_filter
    BY <2>2, TargetFilter
  <2>4. CASE ~ValidateToolFilter(g.tool_filter)
    BY <2>3, <2>4, GroupVerdict
  <2>5. CASE ValidateToolFilter(g.tool_filter)
    <3>1. groupFilterSummary(x.tool_filter, FALSE)
      BY <1>2, <2>1, <2>2, <2>5 DEF groupFilterSummary
    <3>2. blockedBy(GroupAlone(x.tool_filter), t)
      BY <3>1, SummaryBlocks
    <3>3. x.tool_filter = g.tool_filter \/ x.tool_filter = NoFilter
      BY <1>2, <2>2
    <3>4. ~blockedBy(GroupAlone(NoFilter), t)
      BY NoFilterIs, GroupVerdict
    <3> QED BY <2>3, <3>2, <3>3, <3>4
  <2> QED BY <2>4, <2>5
<1> HIDE DEF pinkGroup, groups
<1> QED BY <1>1, <1>3, <1>4, <1>5, <1>6 DEF PolicyIsTrue

LEMMA KeyReadsAlike ==
    ASSUME KeyInv, KeyTells
    PROVE  KeyRulesReadAlike
<1> DEFINE f == ui.form
           p == ToolRules(f.tool_denylist, f.tool_allowlist, FALSE, GroupFilter(Target), groupTarget)
           box(m, t, field) == RowBox(m, t, f[field], {}, Side(field), groupTarget)
           named(m, t, field) == ShownNamed(box(m, t, field))
           unsavable(m, t) == LET e == tickEntry(m.slug, t)
                              IN  ~cleanEntry(e) /\ e \in f.tool_allowlist \cup f.tool_denylist
           rows == \A m \in keyCatalogue : \A t \in {x \in m.tools : ~unsavable(m, x)} :
                      /\ blockedBy(p, [slug |-> m.slug, name |-> t]) <=>
                            \/ rowNotes(m.slug, t, "allow") # {}
                            \/ named(m, t, "tool_denylist")
                            \/ f.tool_allowlist # {} /\ ~named(m, t, "tool_allowlist")
                      /\ ShownBlocked(box(m, t, "tool_allowlist"), "allow") =>
                            blockedBy(p, [slug |-> m.slug, name |-> t]) \/ f.tool_allowlist = {}
           unlisted == \A m \in {x \in keyCatalogue : UNLISTED_STAYS_BLOCKED(x, "allow")} :
                          \A t \in ToolsOf({m.id}) : t.name \notin m.tools =>
                             \/ blockedBy(p, t)
                             \/ f.tool_allowlist = {} \/ box(m, t.name, "tool_allowlist").ticked
           marks == \A k \in Lists : \A e \in f[k] :
                       /\ listMark(f, keyCatalogue, k, e) = "Cannot be saved"
                             <=> ~ValidateToolList(Side(k), {e}, groupTarget)
                       /\ listMark(f, keyCatalogue, k, e) = "Not advertised"
                             => ~\E t \in ToolsOf(targetIds) : MatchToolEntry(e, t, FALSE)
           nothing ==
              allowListAdmitsNothing(f.tool_allowlist, f.tool_denylist, groupTarget, targetSlug)
                 => \A m \in keyCatalogue : \A t \in m.tools :
                       blockedBy(p, [slug |-> m.slug, name |-> t])
           denied ==
              \A e \in f.tool_allowlist : allowEntryDeniedBy(e, f.tool_denylist, targetSlug)
                 => \A t \in entryTool(e, targetSlug) : blockedBy(p, t)
           accepted == ~keyBlocked => \A k \in Lists : Sent(KeySaveBody, k) =>
                                         ValidateToolList(Side(k), f[k], groupTarget)
           badges == \A vk \in ui.items : \A t \in ToolsOf({u.id : u \in Upstreams}) :
              /\ keyRulesBadge(vk) = "" => ~blockedBy(OwnRules(vk), t)
              /\ keyRulesBadge(vk) = "Rules unreadable" => blockedBy(OwnRules(vk), t)
           policy == \A v \in ui.policy :
              /\ v.id = ui.policyKey.id
              /\ "mcp" \in v.target_kinds =>
                    /\ v.lists_malformed => "lists" \in PolicyBody(v)
                    /\ ~ValidateToolFilter(GroupFilter(ui.policyKey)) => "group" \in PolicyBody(v)
              /\ v.methods_malformed /\ "http" \in v.target_kinds => "methods" \in PolicyBody(v)
              /\ "group" \in PolicyBody(v) =>
                    \A t \in ToolsOf({u.id : u \in Upstreams}) :
                       blockedBy(GroupAlone(GroupFilter(ui.policyKey)), t)
<1>1. rows
  <2>1. ASSUME NEW m \in keyCatalogue, NEW t \in {x \in m.tools : ~unsavable(m, x)}
        PROVE  KeyRowReads(m, t)
    BY <2>1, KeyRowsRead
  <2> QED BY <2>1 DEF KeyRowReads
<1>8. unlisted
  BY KeyUnlisted DEF UnlistedReads
<1>9. marks
  BY KeyMarks
<1>2. nothing
  BY NothingAdmitted
<1>3. denied
  BY DeniedIsBlocked
<1>4. accepted
  BY ListsLetThrough
<1>5. badges
  BY KeyBadgeTrue
<1>6. policy
  <2>1. \A v \in ui.policy : PolicyIsTrue(v, ui.policyKey)
    BY PolicyTrue DEF KeyTells, PolicyPart
  <2> QED BY <2>1 DEF PolicyIsTrue
<1>7. (rows /\ unlisted /\ marks /\ nothing /\ denied /\ accepted /\ badges /\ policy)
         => KeyRulesReadAlike
  BY DEF KeyRulesReadAlike
<1> HIDE DEF rows, unlisted, marks, nothing, denied, accepted, badges, policy
<1> QED BY <1>1, <1>2, <1>3, <1>4, <1>5, <1>6, <1>7, <1>8, <1>9

----------------------------------------------------------------------------
(* The three pages together.                                                *)

TellsInv == /\ On => UpTyped
            /\ OnGroups => GroupTells
            /\ OnKeys => KeyTells

LEMMA TellsStarts == Init => TellsInv
<1>1. ~(On /\ OnGroups) /\ ~(On /\ OnKeys) /\ ~(OnGroups /\ OnKeys)
  BY DEF On, OnGroups, OnKeys
<1>2. ASSUME NEW s \in UpScenarios, UpInit(s) PROVE On /\ UpTyped
  <2>1. UpInv
    BY <1>2, UpStarts
  <2> QED BY <1>2, <2>1, TypedStarts DEF UpInv, PageIs
<1>3. ASSUME NEW s \in GroupScenarios, GroupInit(s) PROVE OnGroups /\ GroupTells
  <2>1. GroupInv
    BY <1>3, GroupStarts
  <2> QED BY <1>3, <2>1, GroupIs, GroupStartsTelling DEF OnGroups
<1>4. ASSUME NEW s \in KeyScenarios, KeyInit(s) PROVE OnKeys /\ KeyTells
  <2>1. KeyInv
    BY <1>4, KeyStarts
  <2> QED BY <1>4, <2>1, KeyIs, KeyStartsTelling DEF OnKeys
<1> QED BY <1>1, <1>2, <1>3, <1>4 DEF Init, TellsInv

LEMMA TellsStep == PagesInv /\ TellsInv /\ [Next]_dashVars => TellsInv'
<1> SUFFICES ASSUME PagesInv, TellsInv, [Next]_dashVars PROVE TellsInv'
  OBVIOUS
<1>1. ~(On /\ OnGroups)' /\ ~(On /\ OnKeys)' /\ ~(OnGroups /\ OnKeys)'
  BY DEF On, OnGroups, OnKeys
<1>2. /\ UpInv' => On'
      /\ GroupInv' => OnGroups'
      /\ KeyInv' => OnKeys'
  BY DEF UpInv, PageIs, GroupInv, GroupOk, OnGroups, KeyInv, KeyOk, OnKeys
<1>3. CASE UNCHANGED dashVars
  <2>1. ui' = ui /\ srv' = srv /\ reqs' = reqs
    BY <1>3 DEF dashVars
  <2>2. On' = On /\ OnGroups' = OnGroups /\ OnKeys' = OnKeys
    BY <2>1 DEF On, OnGroups, OnKeys
  <2>3. UpTyped => UpTyped'
    BY <2>1 DEF UpTyped
  <2>4. (GroupTells => GroupTells') /\ (KeyTells => KeyTells')
    BY <2>1 DEF GroupTells, KeyTells
  <2> QED BY <2>2, <2>3, <2>4 DEF TellsInv
<1>4. CASE On /\ UpNext
  <2>1. UpInv' /\ UpTyped'
    BY <1>4, OnPages, UpStep, TypedStep DEF TellsInv
  <2> QED BY <1>1, <1>2, <2>1 DEF TellsInv
<1>5. CASE OnGroups /\ GroupNext
  <2>1. GroupInv' /\ GroupTells'
    BY <1>5, OnPages, GroupStep, GroupStepTells DEF TellsInv
  <2> QED BY <1>1, <1>2, <2>1 DEF TellsInv
<1>6. CASE OnKeys /\ KeyNext
  <2>1. KeyInv' /\ KeyTells'
    BY <1>6, OnPages, KeyStep, KeyStepTells DEF TellsInv
  <2> QED BY <1>1, <1>2, <2>1 DEF TellsInv
<1> QED BY <1>3, <1>4, <1>5, <1>6 DEF Next

\* What the pages hold was told them by the server and is still so: no row has
\* an unknown kind of credential, a loaded catalogue has its members' own tools,
\* the groups beside a key are the groups there are, nothing here moves a key to
\* another target, and a policy on screen is the named key's
\* (discover-many.ts:16-62, virtual-keys/page.tsx:155-171, virtual-key-form.ts).
THEOREM PagesTell == Spec => []TellsInv
BY TellsStarts, TellsStep, PagesCorrect, PTL DEF Spec

\* An upstream's saved credential is dropped by an edit that types none exactly
\* when the dialog says that a save will remove it, or the operator ticked
\* Remove (upstream-form.tsx:53-92, upstreams.go:543-816).
THEOREM LossIsAnnounced == Spec => []WarnedBeforeLoss
<1>1. TellsInv => WarnedBeforeLoss
  BY LossIsSaid DEF TellsInv, WarnedBeforeLoss
<1> QED BY <1>1, PagesTell, PTL

\* The ticks, row notes, marks, badges and standing lines that RulesReadAlike
\* compares say what the proxy does with the call, or the API with the save, from
\* a catalogue that may be partial, stale or empty.  Two sentences overstate, and
\* the property says when: that a tool stays blocked, beside an empty allow list
\* of a key, and that a tool left out does, where an entry reaches it
\* (toolfilter.go, policy.go; tool-filter.ts, catalogue.ts, rule-conflicts.ts,
\* policy-view.ts).
THEOREM RulesAreReadAlike == Spec => []RulesReadAlike
<1>1. PagesInv /\ TellsInv => RulesReadAlike
  <2> SUFFICES ASSUME PagesInv, TellsInv PROVE RulesReadAlike
    OBVIOUS
  <2>1. (OnGroups => GroupInv /\ GroupTells) /\ (OnKeys => KeyInv /\ KeyTells)
    BY OnPages DEF TellsInv
  <2> QED BY <2>1, GroupReadsAlike, KeyReadsAlike DEF RulesReadAlike
<1> QED BY <1>1, PagesCorrect, PagesTell, PTL
=============================================================================
