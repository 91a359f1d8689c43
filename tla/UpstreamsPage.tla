--------------------------- MODULE UpstreamsPage ---------------------------
(***************************************************************************)
(* The Upstreams page: the Add and Edit dialog with its Discover panel,    *)
(* the Tools dialog, Connect, Disconnect and Delete, against an admin API  *)
(* that another operator writes to as well.  Dialogs are modal: a row's    *)
(* actions are out of reach while one is open.                             *)
(*                                                                         *)
(* A message is modelled by what it is about: formError by whether it      *)
(* answers this dialog's own submit, a result by the connection or the row *)
(* it describes.  `open` stands for openRef too, and `connecting` for      *)
(* connectingRef: each pair is written by the same handlers.               *)
(***************************************************************************)
EXTENDS DashPage, UpstreamForm

CONSTANTS Typed,      \* Typed[k]: what the operator may enter in field k
          UpIds,      \* the ids upstream rows may have
          UpScenarios \* the rows to start from, and the bounds: dialogs opened
                      \* (opens), fields edited and which (edits, fields), writes
                      \* of another operator (others), failed requests (fails)

\* Every row has an id, and NoRow's is none of them.
ASSUME UpRows ==
    /\ NoRow.id \notin UpIds
    /\ \A s \in UpScenarios : \A u \in s.rows : "id" \in DOMAIN u /\ u.id \in UpIds

\* The store and the Auth type select know these types and no others.
ASSUME UpAuthTypes ==
    /\ Typed.auth_type \subseteq AuthTypes
    /\ \A s \in UpScenarios : \A u \in s.rows :
          {"auth_type", "stored"} \subseteq DOMAIN u /\ u.auth_type \in AuthTypes

\* A discovery panel; its result is known by what was asked about.
IDLE == [result |-> {}, pending |-> FALSE, error |-> FALSE]

Listing == {Present(u) : u \in srv}

UpInit(scenario) ==
    /\ srv = scenario.rows
    /\ ui = [page |-> "upstreams", items |-> {}, open |-> FALSE,
             editing |-> NoRow, saving |-> FALSE, error |-> FALSE,
             formError |-> "", form |-> blankUpstreamForm,
             formDiscovery |-> IDLE, tools |-> NoRow, rowDiscovery |-> IDLE,
             pendingDelete |-> NoRow, deleting |-> FALSE, deleteError |-> "",
             connecting |-> "", connectError |-> FALSE, left |-> FALSE,
             registerFor |-> {}, pendingRevoke |-> NoRow, revoking |-> FALSE,
             revokeError |-> FALSE, revokeLine |-> "",
             seededFrom |-> "", typedHere |-> {},
             budget |-> [opens |-> scenario.opens, edits |-> scenario.edits,
                         fields |-> scenario.fields, others |-> scenario.others,
                         fails |-> scenario.fails]]
    /\ reqs = With({}, Request("list", "", NoRow))

\* Nothing modal is open: the table and its menus can be used.
TableReachable == /\ ~ui.open /\ ui.tools = NoRow /\ ~ui.left
                  /\ ui.pendingDelete = NoRow /\ ui.pendingRevoke = NoRow
DialogReachable == ui.open /\ ui.pendingRevoke = NoRow /\ ~ui.left

\* A row's menu; every row's trigger is held while a connect is under way.
upstreamActions(u) == {"tools", "edit", "delete"} \cup
                      (IF u.auth_type = "oauth" THEN {"connect"} ELSE {})
rowConnectState == IF ui.connecting # "" THEN "held" ELSE "free"
MenuOffers(u, action) ==
    TableReachable /\ rowConnectState = "free" /\ action \in upstreamActions(u)

(***************************************************************************)
(* The Discover panel.                                                     *)
(***************************************************************************)
FormDiscovery == {"discover_form"}
RowDiscovery == {"discover_row"}

\* The panel is emptied, and a request in flight can no longer fill it.
resetFormDiscovery(u, rs) ==
    [ui |-> [u EXCEPT !.formDiscovery = IDLE], reqs |-> Bumped(rs, FormDiscovery)]

\* The connection a form describes.
Connection(f) == [k \in CONNECTION_FIELDS |-> f[k]]

Discoverable == trim(ui.form.url) # ""

discoverForm ==
    /\ DialogReachable /\ mode = "create"
    /\ Discoverable /\ ~ui.formDiscovery.pending /\ ui.form.auth_type # "oauth"
    /\ Room
    /\ ui' = [ui EXCEPT !.formDiscovery = [IDLE EXCEPT !.pending = TRUE]]
    /\ reqs' = With(Bumped(reqs, FormDiscovery),
                    Request("discover_form", "", Connection(ui.form)))
    /\ UNCHANGED srv

\* run's callbacks, for either panel.
Ran(r, of) == IF r.ans.ok THEN [IDLE EXCEPT !.result = {of}]
              ELSE [IDLE EXCEPT !.error = TRUE]

LandDiscoverForm(r) ==
    /\ r.kind = "discover_form"
    /\ ui' = IF r.mine THEN [ui EXCEPT !.formDiscovery = Ran(r, r.arg)] ELSE ui
    /\ reqs' = reqs \ {r}
    /\ UNCHANGED srv

(***************************************************************************)
(* The Tools dialog.                                                       *)
(***************************************************************************)
Asked(u, row) == [ui |-> [u EXCEPT !.rowDiscovery = [IDLE EXCEPT !.pending = TRUE]],
                  reqs |-> With(Bumped(reqs, RowDiscovery),
                                Request("discover_row", row.id, NoRow))]

openTools(row) ==
    /\ MenuOffers(row, "tools") /\ Can("opens") /\ Room
    /\ Apply(Asked(Spend([ui EXCEPT !.tools = row], "opens"), row))

\* Refresh, or Test again.
discoverRow ==
    /\ ui.tools # NoRow /\ ~ui.rowDiscovery.pending /\ Can("opens") /\ Room
    /\ Apply(Asked(Spend(ui, "opens"), ui.tools))

\* Mutant: the answer on its way is left to land.
CloseToolsHalf ==
    /\ ui.tools # NoRow
    /\ Apply([ui |-> [ui EXCEPT !.tools = NoRow, !.rowDiscovery = IDLE],
              reqs |-> reqs])

closeTools ==
    /\ ui.tools # NoRow
    /\ Apply([ui |-> [ui EXCEPT !.tools = NoRow, !.rowDiscovery = IDLE],
              reqs |-> Bumped(reqs, RowDiscovery)])

\* The table is read again whether or not the dialog is still there.
LandDiscoverRow(r) ==
    /\ r.kind = "discover_row"
    /\ ui' = IF r.mine THEN [ui EXCEPT !.rowDiscovery = Ran(r, r.id)] ELSE ui
    /\ reqs' = With(reqs \ {r}, Request("refresh", "", NoRow))
    /\ UNCHANGED srv

(***************************************************************************)
(* The list.                                                               *)
(***************************************************************************)
LandList(r) ==
    /\ r.kind \in {"list", "refresh"}
    /\ ui' = IF r.ans.ok THEN [ui EXCEPT !.items = r.ans.rows]
             ELSE IF r.kind = "list" THEN [ui EXCEPT !.error = TRUE]
             ELSE ui
    /\ reqs' = reqs \ {r}
    /\ UNCHANGED srv

(***************************************************************************)
(* The Add and Edit dialog.                                                *)
(***************************************************************************)
openAdd ==
    /\ TableReachable /\ Can("opens")
    /\ LET s == resetFormDiscovery(
                  [ui EXCEPT !.editing = NoRow, !.formError = "", !.seededFrom = "",
                     !.typedHere = {},
                     !.form = [@ EXCEPT !.name = "", !.kind = "mcp", !.url = "",
                        !.transport = "streamable-http", !.test_path = "",
                        !.token = "", !.value = "", !.clear_stored = FALSE]], reqs)
       IN  Apply(opened(s.ui, s.reqs))

openEdit(u) ==
    /\ MenuOffers(u, "edit") /\ Can("opens")
    /\ LET s == resetFormDiscovery(
                  [ui EXCEPT !.editing = u, !.formError = "", !.revokeLine = "",
                     !.seededFrom = u.id, !.typedHere = {},
                     !.form = [formFromUpstream(u) EXCEPT
                                  !.register_client = u.id \in ui.registerFor]], reqs)
       IN  Apply(opened(s.ui, s.reqs))

\* Every way out; editing stays for the leave transition.
Closed(u, rs) ==
    resetFormDiscovery([u EXCEPT !.open = FALSE,
                          !.form = [@ EXCEPT !.token = "", !.value = ""]], rs)

close == DialogReachable /\ Apply(Closed(ui, reqs))

\* One input changed.  The Kind radio goes through applyKindChange.
Entered(k, v) == IF k = "kind" THEN applyKindChange(ui.form, v)
                 ELSE [ui.form EXCEPT ![k] = v]

Credentials == {"token", "value"}

onFieldChange(k, v) ==
    LET u == Spend([ui EXCEPT !.form = Entered(k, v),
                       !.typedHere = @ \cup ({k} \cap Credentials)],
                   "edits")
    IN  Apply(IF mode = "create" /\ k \in CONNECTION_FIELDS
              THEN resetFormDiscovery(u, reqs) ELSE [ui |-> u, reqs |-> reqs])

ChangeField ==
    /\ DialogReachable /\ Can("edits")
    /\ \E k \in Offered(mode, ui.editing, ui.form) \cap ui.budget.fields :
          \E v \in Typed[k] \ {ui.form[k]} :
             OptionOf(ui.form, k, v) /\ onFieldChange(k, v)

rememberRegister(u) ==
    IF "oauth" \in {u.editing.auth_type, u.form.auth_type}
    THEN [u EXCEPT !.registerFor = IF u.form.register_client
                                   THEN @ \cup {u.editing.id}
                                   ELSE @ \ {u.editing.id}]
    ELSE u

create == Apply([ui |-> [ui EXCEPT !.formError = "", !.saving = TRUE],
                 reqs |-> With(reqs, Request("create", "", upstreamCreateBody(ui.form)))])

save ==
    LET u == [rememberRegister(ui) EXCEPT !.formError = ""]
        body == upstreamPatchBody(ui.editing, ui.form)
    IN  IF DOMAIN body = {} THEN Apply(Closed(u, reqs))
        ELSE Apply([ui |-> [u EXCEPT !.saving = TRUE],
                    reqs |-> With(reqs, Request("patch", u.editing.id, body))])

submit ==
    /\ DialogReachable /\ ~ui.saving /\ Room
    /\ ValidForm(mode, ui.editing, ui.form)
    /\ IF clientSecretAlone(ui.form)
       THEN Apply([ui |-> [ui EXCEPT !.formError = "own"], reqs |-> reqs])
       ELSE IF mode = "edit" THEN save ELSE create

LandSave(r) ==
    /\ r.kind \in Saves
    /\ LET rest == reqs \ {r}
           took == [ui EXCEPT !.items = IF r.kind = "patch"
                                        THEN Replaced(@, r.ans.row) ELSE @]
           done == IF r.mine THEN Closed(took, rest)
                   ELSE [ui |-> took, reqs |-> rest]
       IN  IF r.ans.ok
           THEN Apply([ui |-> Finally(done.ui, r),
                       reqs |-> IF r.kind = "create"
                                THEN With(done.reqs, Request("list", "", NoRow))
                                ELSE done.reqs])
           ELSE Apply([ui |-> Finally(failed(ui, r), r), reqs |-> Reload(rest, r)])

(***************************************************************************)
(* Delete.                                                                 *)
(***************************************************************************)
askDelete(u) ==
    /\ MenuOffers(u, "delete") /\ Can("opens")
    /\ Apply([ui |-> Spend([ui EXCEPT !.pendingDelete = u], "opens"), reqs |-> reqs])

(***************************************************************************)
(* Connect: the sign-in leaves the page.                                   *)
(***************************************************************************)
\* A menu item stays clickable while its menu fades, so the trigger's hold is
\* not enough: the ref is the guard.
connect(u) ==
    /\ TableReachable /\ "connect" \in upstreamActions(u)
    /\ ui.connecting = "" /\ Can("opens") /\ Room
    /\ Apply([ui |-> Spend([ui EXCEPT !.connecting = u.id, !.connectError = FALSE],
                           "opens"),
              reqs |-> With(reqs, Request("start", u.id,
                               [registered |-> u.id \in ui.registerFor]))])

\* Mutant: a failed start leaves the buttons held.
LandConnectHeld(r) ==
    /\ r.kind = "start"
    /\ ui' = IF r.ans.ok THEN [ui EXCEPT !.left = TRUE]
             ELSE [ui EXCEPT !.connectError = TRUE]
    /\ reqs' = Reload(reqs \ {r}, r)
    /\ UNCHANGED srv

\* An answer with a web address takes the tab there; one without is an error.
LandConnect(r) ==
    /\ r.kind = "start"
    /\ \/ r.ans.ok /\ ui' = [ui EXCEPT !.left = TRUE]
       \/ ui' = [ui EXCEPT !.connectError = TRUE, !.connecting = ""]
    /\ reqs' = Reload(reqs \ {r}, r)
    /\ UNCHANGED srv

\* Back through the browser's page cache, which keeps a page with nothing out.
restored ==
    /\ ui.left /\ reqs = {}
    /\ Apply([ui |-> [ui EXCEPT !.left = FALSE, !.connecting = ""], reqs |-> reqs])

(***************************************************************************)
(* Disconnect, from the Edit dialog.                                       *)
(***************************************************************************)
askRevoke ==
    /\ DialogReachable /\ mode = "edit" /\ ~ui.revoking
    /\ revokeKind(ui.editing) # "" /\ Can("opens")
    /\ Apply([ui |-> Spend([ui EXCEPT !.pendingRevoke = ui.editing], "opens"),
              reqs |-> reqs])

closeRevoke ==
    /\ ui.pendingRevoke # NoRow
    /\ Apply([ui |-> [ui EXCEPT !.pendingRevoke = NoRow, !.revokeError = FALSE],
              reqs |-> reqs])

revoke ==
    /\ ui.pendingRevoke # NoRow /\ ~ui.revoking /\ Room
    /\ Apply([ui |-> [ui EXCEPT !.revoking = TRUE, !.revokeError = FALSE],
              reqs |-> With(reqs, Request("revoke", ui.pendingRevoke.id,
                               [kind |-> revokeKind(ui.pendingRevoke)]))])

\* Mutant: the dialog takes the answered row whichever it is on.
EditingAfterAny(r) == r.ans.row

\* The dialog takes the answered row if it is still on it.
EditingAfter(r) == IF ui.editing.id = r.ans.row.id THEN r.ans.row ELSE ui.editing

LandRevoke(r) ==
    /\ r.kind = "revoke"
    /\ ui' = IF r.ans.ok
             THEN [ui EXCEPT !.revoking = FALSE, !.pendingRevoke = NoRow,
                     !.revokeError = FALSE, !.revokeLine = r.id,
                     !.items = Replaced(@, r.ans.row),
                     !.editing = EditingAfter(r)]
             ELSE [ui EXCEPT !.revoking = FALSE, !.revokeError = TRUE]
    /\ reqs' = Reload(reqs \ {r}, r)
    /\ UNCHANGED srv

(***************************************************************************)
(* The admin API, and another operator at it.                              *)
(***************************************************************************)
FreeIds == Fresh(UpIds, ui.registerFor)

\* What the server does with a request: its rows afterwards and the answer.
Handled(r) ==
    LET kept(ans) == [srv |-> srv, ans |-> ans]
        put(u) == [srv |-> {x \in srv : x.id # u.id} \cup {u},
                   ans |-> Ok(Present(u), {})]
    IN  CASE r.kind \in {"list", "refresh"} -> kept(Ok(NoRow, Listing))
          [] r.kind = "discover_form" -> kept(Ok(NoRow, {}))
          [] r.kind = "create" ->
                IF CreateAccepted(r.arg) /\ FreeIds # {}
                THEN put(createUpstream(CHOOSE i \in FreeIds : TRUE, r.arg))
                ELSE kept(Err(Refused))
          [] OTHER -> IF ~Listed(r.id) THEN kept(Err(Gone)) ELSE
             CASE r.kind = "discover_row" -> kept(Ok(NoRow, {}))
               [] r.kind = "start" ->
                     kept(IF Row(r.id).auth_type = "oauth" THEN Ok(NoRow, {}) ELSE Err(Refused))
               [] r.kind = "patch" ->
                     IF PatchAccepted(Row(r.id), r.arg)
                     THEN put(patchUpstream(Row(r.id), r.arg)) ELSE kept(Err(Refused))
               [] r.kind = "delete" -> Deleted(r.id)
               [] r.kind = "revoke" ->
                     IF Row(r.id).auth_type # "oauth" THEN kept(Err(Refused))
                     ELSE put([Row(r.id) EXCEPT !.stored = Nothing])

\* The answer arrives, the request never reaches the server, or it does and
\* its answer is lost.
UpServe(r) ==
    /\ r.st = "sent" /\ UNCHANGED ui
    /\ srv' = Handled(r).srv
    /\ reqs' = Replied(r, Handled(r).ans)

UpLose(r) ==
    /\ r.st = "sent" /\ Can("fails")
    /\ ui' = Spend(ui, "fails")
    /\ srv' \in {srv, Handled(r).srv}
    /\ reqs' = Replied(r, Err(Network))

\* Another operator deletes a row, moves it, or signs it in.
UpOther ==
    /\ Can("others")
    /\ ui' = Spend(ui, "others")
    /\ UNCHANGED reqs
    /\ \E u \in srv :
          \/ srv' = srv \ {u}
          \/ u.auth_type = "oauth" /\ srv' = (srv \ {u}) \cup
                {[u EXCEPT !.stored = Blob("set", "")]}
          \/ srv' = (srv \ {u}) \cup {patchUpstream(u, [auth_type |-> "none"])}

UpRespond == \E r \in reqs : UpServe(r) \/ UpLose(r)

UpLand == \E r \in {q \in reqs : q.st = "answered"} :
             \/ LandList(r) \/ LandSave(r) \/ LandDelete(r) \/ LandRevoke(r)
             \/ LandConnect(r) \/ LandDiscoverForm(r) \/ LandDiscoverRow(r)

UpOperate ==
    \/ openAdd \/ close \/ ChangeField \/ submit \/ discoverForm
    \/ discoverRow \/ closeTools
    \/ closeDelete \/ remove \/ askRevoke \/ closeRevoke \/ revoke \/ restored
    \/ \E u \in ui.items : openEdit(u) \/ openTools(u) \/ askDelete(u) \/ connect(u)

UpNext == UpOperate \/ UpRespond \/ UpLand \/ UpOther
----------------------------------------------------------------------------
On == ui.page = "upstreams"

(***************************************************************************)
(* A save that removes or replaces what is stored was announced: by a      *)
(* typed credential, by one of the sentences beside the fields, or by the  *)
(* ticked Remove box, which is on screen whenever it has an effect.  And a *)
(* sentence that says so is true.  It is about the row the dialog was      *)
(* seeded with, and it excepts a required credential box filled with       *)
(* spaces, which the browser lets through (upstream-form.tsx:326) and      *)
(* upstreamPatchBody then leaves out.                                      *)
(***************************************************************************)
WarnedBeforeLoss ==
    (On /\ ui.open /\ ui.editing # NoRow) =>
        \A u \in srv :
           LET f == ui.form
               body == upstreamPatchBody(ui.editing, f)
               blank == \E k \in CredentialBox(f) : f[k] = Spaces
               ticked == f.clear_stored /\ "clear_stored" \in Offered("edit", ui.editing, f)
           IN  /\ Present(u) = ui.editing
               /\ ValidForm("edit", ui.editing, f) /\ PatchAccepted(u, body)
               /\ ~credentialTyped(f) /\ ~blank
               => (patchUpstream(u, body).stored # u.stored
                      <=> ticked \/ Removals(ui.editing, f) # {})

(***************************************************************************)
(* A panel describes what it stands beside: the Discover panel the         *)
(* connection as the form has it now, the Tools dialog its own row; and a  *)
(* pending panel has a request that will end it.                           *)
(***************************************************************************)
PanelsDescribe ==
    On => /\ ui.formDiscovery.result \subseteq {Connection(ui.form)}
          /\ ui.rowDiscovery.result \subseteq {ui.tools.id}
          /\ ui.formDiscovery.pending <=> Mine(FormDiscovery) # {}
          /\ ui.rowDiscovery.pending <=> Mine(RowDiscovery) # {}

(***************************************************************************)
(* The form is this dialog's: it is compared with, and sent to, the row it *)
(* was seeded from, so an answer to Disconnect on another row never        *)
(* re-seeds it (page.tsx:537), and the token or value in it was typed      *)
(* here, whichever dialog was closed before (page.tsx:398).                *)
(***************************************************************************)
FormBelongsToRow ==
    On => /\ ui.editing # NoRow => ui.editing.id = ui.seededFrom
          /\ ui.open => {k \in Credentials : ui.form[k] # ""} \subseteq ui.typedHere

(***************************************************************************)
(* A button is held exactly while the request it sent is out, so no row is *)
(* left with dead buttons and no second sign-in starts beside the first    *)
(* (page.tsx:488-515, 522-564), the page cache's restore included.         *)
(***************************************************************************)
HeldWhileOut ==
    On => /\ ui.connecting # "" <=> ui.left \/ Out({"start"}) # {}
          /\ Cardinality(Out({"start"})) <= 1
          /\ ui.deleting <=> Out({"delete"}) # {}
          /\ ui.revoking <=> Out({"revoke"}) # {}
============================================================================
