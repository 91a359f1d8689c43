------------------------------ MODULE KeysPage ------------------------------
(***************************************************************************)
(* The Virtual keys page: the Create and Edit dialog with its two tool     *)
(* lists over one picker, Rotate, Revoke, Delete, the dialog that shows a  *)
(* new key once, and the read-only Policy dialog.  A PATCH that carries a  *)
(* list is preceded by a fresh read of the row.                            *)
(*                                                                         *)
(* A row whose stored lists do not decode is served with lists_malformed   *)
(* and without the list that failed; rows here are as they are served.     *)
(* secret is the number of the key material a row holds, shown in place of *)
(* the plaintext; refused, the doors with a refused call in the period.    *)
(***************************************************************************)
EXTENDS ToolCatalogue, FormText

CONSTANTS KeyIds,        \* the ids key rows may have
          KeyGroups,     \* the groups a key may target
          KeyEntries,    \* the entries an operator may add by hand
          KeyTyped,      \* what may be typed: names and rate limits
          OtherLists,    \* the lists another operator may store
          KeyScenarios   \* as on the Groups page

\* The id is the rows' primary key, and only these two are typed.
ASSUME KeyRows == \A s \in KeyScenarios : \A vk, wk \in s.rows :
                     "id" \in DOMAIN vk /\ (vk.id = wk.id => vk = wk)
ASSUME KeyGroupRows == \A g, h \in KeyGroups : g.id = h.id => g = h
ASSUME KeyInputs == \A x \in KeyTyped : x[1] \in {"name", "rate_limit"}

HTTP_METHODS == {"GET", "DELETE"}     \* of the six, a safe verb and another
Lists == {"tool_allowlist", "tool_denylist"}
Side(field) == IF field = "tool_allowlist" THEN "allow" ELSE "deny"
Sent(body, k) == k \in DOMAIN body

----------------------------------------------------------------------------
(* virtual-key-form.ts.  "" is no limit.                                   *)

blankVirtualKeyForm ==
    [name |-> "", target_type |-> "upstream", target_id |-> "", rate_limit |-> "",
     tool_allowlist |-> {}, tool_denylist |-> {}, listsReplace |-> FALSE,
     http_methods |-> {}, methodsReplace |-> FALSE]

formFromVirtualKey(vk) ==
    [k \in DOMAIN blankVirtualKeyForm |->
        IF k \in {"listsReplace", "methodsReplace"} THEN FALSE ELSE vk[k]]

virtualKeyCreateBody(f) ==
    Restrict(f, {"name", "target_type", "target_id"}
                \cup {k \in {"rate_limit"} : f[k] # ""}
                \cup {k \in Lists \cup {"http_methods"} : f[k] # {}})

methodsSent(before, f) ==
    IF before.methods_malformed THEN f.methodsReplace
    ELSE before.http_methods # f.http_methods

\* Lists that cannot be read go both or not at all.
listsSent(before, f) ==
    IF before.lists_malformed THEN {k \in Lists : f.listsReplace}
    ELSE {k \in Lists : before[k] # f[k]}

\* "05" is the number 5.
Number(t) == IF t = "05" THEN "5" ELSE t

virtualKeyPatchBody(before, f) ==
    Restrict([f EXCEPT !.name = trim(@), !.rate_limit = Number(@)],
             {k \in {"name"} : trim(f.name) # before.name}
             \cup {k \in {"rate_limit"} : Number(f.rate_limit) # before.rate_limit}
             \cup listsSent(before, f)
             \cup {k \in {"http_methods"} : methodsSent(before, f)})

keySaveBlocked(before, f, groupTarget) ==
    \E k \in (IF before = NoRow THEN Lists ELSE listsSent(before, f)) :
       listProblem(f[k], Side(k), groupTarget)

keyPolicyStale(seed, fresh, fields) ==
    \/ seed.lists_malformed # fresh.lists_malformed
    \/ \E k \in fields : seed[k] # fresh[k]

keyRulesBadge(vk) ==
    IF vk.lists_malformed THEN "Rules unreadable"
    ELSE IF vk.methods_malformed THEN "Methods unreadable"
    ELSE IF \E k \in Lists : vk[k] # {} THEN "rules"
    ELSE ""

----------------------------------------------------------------------------
(* What the dialog stands on: the key's target, and the rules beside it.   *)

Target == IF ui.editing = NoRow THEN ui.form ELSE ui.editing
groupTarget == Target.target_type = "group"
TargetGroup == {g \in ui.groups : groupTarget /\ g.id = Target.target_id}
targetIds == IF groupTarget THEN UNION {g.upstream_ids : g \in TargetGroup}
             ELSE {Target.target_id} \ {""}
targetKinds == {u.kind : u \in {x \in ui.upstreams : x.id \in targetIds}}
targetSlug == IF groupTarget \/ members(targetIds) = {} THEN ""
              ELSE (CHOOSE u \in members(targetIds) : TRUE).slug

keyCatalogue == catalogue(targetIds)
keyBlocked == keySaveBlocked(ui.editing, ui.form, groupTarget)

\* The sections that are on screen, and those that stand behind Replace.
MethodsShown == "http" \in targetKinds
ToolListsShown == Target.target_id = "" \/ "mcp" \in targetKinds
ListsLocked == ui.editing # NoRow /\ ui.editing.lists_malformed /\ ~ui.form.listsReplace
MethodsLocked == ui.editing # NoRow /\ ui.editing.methods_malformed /\ ~ui.form.methodsReplace

HttpMethodsFields(f) ==
    IF MethodsLocked THEN {[f EXCEPT !.methodsReplace = TRUE]}
    ELSE {[f EXCEPT !.http_methods = IF v \in @ THEN @ \ {v} ELSE @ \cup {v}] :
             v \in HTTP_METHODS}

\* One list: each entry's Remove, and the Add input.
RuleList(f, field) ==
    {[f EXCEPT ![field] = toggleEntry(@, e, FALSE)] : e \in f[field]}
    \cup {[f EXCEPT ![field] = toggleEntry(@, e, TRUE)] : e \in KeyEntries}

\* A tick of the picker goes to the list the radio says.
PickerTicks(f, c, field) ==
    LET box(m, t) == RowBox(m, t, f[field], {}, Side(field), groupTarget)
    IN  UNION {{[f EXCEPT ![field] = toggleEntry(@, tickEntry(m.slug, t), ~box(m, t).ticked)] :
                   t \in {x \in m.tools : box(m, x).shown /\ ~box(m, x).disabled}} : m \in c}

ToolListFields(f, c) ==
    IF ListsLocked THEN {[f EXCEPT !.listsReplace = TRUE]}
    ELSE UNION {RuleList(f, k) \cup PickerTicks(f, c, k) : k \in Lists}

KeyFields(f, c) ==
    {[f EXCEPT ![x[1]] = x[2]] : x \in KeyTyped}
    \cup (IF MethodsShown THEN HttpMethodsFields(f) ELSE {})
    \cup (IF ToolListsShown THEN ToolListFields(f, c) ELSE {})

\* The notes under a picker row: the group's filter, and the deny list while
\* ticks go to the allow list.
rowNotes(slug, name, ticking) ==
    {n \in {"group"} : \E g \in TargetGroup : groupBlocks(g.tool_filter, slug, name)}
    \cup {n \in {"denied"} : ticking = "allow" /\ deniedBy(slug, name, ui.form.tool_denylist)}

----------------------------------------------------------------------------
(* The Policy dialog: policy-view.ts over the server's view of one key.    *)

keyListsState(view) == IF view.lists_malformed THEN "unreadable" ELSE "lists"

methodsSentence(view) ==
    IF view.methods_malformed THEN "unreadable"
    ELSE IF "http" \in view.target_kinds /\ view.http_methods = {}
    THEN "Every method is allowed." ELSE ""

\* A door's block is drawn while the key has the door, or has counts on it.
visibleBlocks(view) == {b \in {"mcp", "http"} : b \in view.target_kinds \cup view.refused}

\* The lines that say a rule refuses everything.
PolicyBody(view) ==
    LET block == [lists |-> "mcp", group |-> "mcp", methods |-> "http"]
        pink == [lists |-> keyListsState(view) = "unreadable",
                 group |-> \E g \in view.group : groupFilterSummary(g.tool_filter, g.malformed),
                 methods |-> methodsSentence(view) = "unreadable"]
    IN  {k \in DOMAIN block : pink[k] /\ block[k] \in visibleBlocks(view)}

\* GET /virtual-keys/{id}/policy: a filter that is no object is not echoed.
PolicyView(vk) ==
    LET group == {g \in KeyGroups : vk.target_type = "group" /\ g.id = vk.target_id}
        ids == IF vk.target_type = "group" THEN UNION {g.upstream_ids : g \in group}
               ELSE {vk.target_id}
        served(g) == [tool_filter |-> IF g.tool_filter.shape = "object" THEN g.tool_filter
                                      ELSE NoFilter,
                      malformed |-> ~ValidateToolFilter(g.tool_filter)]
    IN  [id |-> vk.id, group |-> {served(g) : g \in group}, refused |-> vk.refused,
         lists_malformed |-> vk.lists_malformed, methods_malformed |-> vk.methods_malformed,
         http_methods |-> vk.http_methods,
         target_kinds |-> {u.kind : u \in {x \in Upstreams : x.id \in ids}}]

----------------------------------------------------------------------------
(* The page.                                                               *)

KeyInit(scenario) ==
    /\ srv = scenario.rows
    /\ ui = [page |-> "keys", items |-> {}, upstreams |-> {}, groups |-> {},
             open |-> FALSE, editing |-> NoRow, saving |-> FALSE, error |-> FALSE,
             formError |-> "", form |-> blankVirtualKeyForm,
             byId |-> EmptyCatalogue, rateLimited |-> FALSE, run |-> NoRun, pressed |-> {},
             secret |-> NoRow, pendingDelete |-> NoRow,
             policyKey |-> NoRow, policy |-> {}, policyError |-> FALSE,
             budget |-> [opens |-> scenario.opens, edits |-> scenario.edits,
                         loads |-> scenario.loads, others |-> scenario.others,
                         fails |-> scenario.fails]]
    /\ reqs = With({}, Request("list", "", NoRow))

\* The dialog with the new key comes up over whatever is open.
KeyTable == /\ ~ui.open /\ ui.secret = NoRow
            /\ ui.pendingDelete = NoRow /\ ui.policyKey = NoRow
KeyDialog == ui.open /\ ui.secret = NoRow

LandKeyList(r) ==
    /\ r.kind = "list"
    /\ ui' = IF r.ans.ok THEN [ui EXCEPT !.items = r.ans.rows, !.upstreams = Upstreams,
                                         !.groups = KeyGroups]
             ELSE [ui EXCEPT !.error = TRUE]
    /\ reqs' = reqs \ {r}
    /\ UNCHANGED srv

keyOpened(u) == LET s == resetCatalogue([u EXCEPT !.formError = ""], reqs)
                IN  Apply(opened(s.ui, s.reqs))

openCreateKey ==
    /\ KeyTable /\ Can("opens")
    /\ keyOpened([ui EXCEPT !.editing = NoRow, !.form = blankVirtualKeyForm])

openEditKey(vk) ==
    /\ KeyTable /\ Can("opens")
    /\ keyOpened([ui EXCEPT !.editing = vk, !.form = formFromVirtualKey(vk)])

closeKey == KeyDialog /\ Apply([ui |-> [ui EXCEPT !.open = FALSE], reqs |-> reqs])

changeKey ==
    /\ KeyDialog /\ Can("edits")
    /\ \E f \in KeyFields(ui.form, keyCatalogue) \ {ui.form} :
          Apply([ui |-> Spend([ui EXCEPT !.form = f], "edits"), reqs |-> reqs])

\* A new target, on create: its lists, its methods and its catalogue start empty.
retarget ==
    /\ KeyDialog /\ ui.editing = NoRow /\ Can("edits")
    /\ \E t \in {[target_type |-> k, target_id |-> ""] : k \in {"upstream", "group"}}
                \cup {[target_type |-> ui.form.target_type, target_id |-> x.id] :
                         x \in IF ui.form.target_type = "group" THEN ui.groups
                               ELSE ui.upstreams} :
          LET f == [ui.form EXCEPT !.target_type = t.target_type, !.target_id = t.target_id,
                                   !.tool_allowlist = {}, !.tool_denylist = {},
                                   !.http_methods = {}, !.methodsReplace = FALSE]
          IN  f # ui.form /\ Apply(resetCatalogue(Spend([ui EXCEPT !.form = f], "edits"), reqs))

loadKeyTools ==
    /\ KeyDialog /\ ToolListsShown /\ ~ListsLocked
    /\ LET ids == {m.id : m \in keyCatalogue}
       IN  load(ids) \/ \E i \in ids : ids # {i} /\ load({i})

KeySaveBody == IF ui.editing = NoRow THEN virtualKeyCreateBody(ui.form)
               ELSE virtualKeyPatchBody(ui.editing, ui.form)

submitKey ==
    /\ KeyDialog /\ ~ui.saving /\ ~keyBlocked
    /\ ui.form.name # "" /\ (ui.editing = NoRow => ui.form.target_id # "")
    /\ LET fields == IF ui.editing = NoRow THEN {} ELSE listsSent(ui.editing, ui.form)
           kind == CASE ui.editing = NoRow -> "create"
                     [] fields # {}        -> "read"
                     [] OTHER              -> "patch"
           u == [ui EXCEPT !.formError = ""]
       IN  IF DOMAIN KeySaveBody = {} THEN Apply([ui |-> [u EXCEPT !.open = FALSE], reqs |-> reqs])
           ELSE /\ Room
                /\ Apply([ui |-> [u EXCEPT !.saving = TRUE],
                          reqs |-> With(reqs, Request(kind, ui.editing.id,
                              [body |-> KeySaveBody, seed |-> ui.editing, fields |-> fields,
                               raced |-> FALSE]))])

LandKeyRead(r) == LandRead(r, keyPolicyStale(r.arg.seed, r.ans.row, r.arg.fields))

LandKeySave(r) ==
    /\ r.kind \in {"create", "patch"}
    /\ IF r.kind = "create"
       THEN LET took == [ui EXCEPT !.secret = r.ans.row]
            IN  LandSaved(r, took, [took EXCEPT !.open = FALSE, !.form = blankVirtualKeyForm])
       ELSE LET took == [ui EXCEPT !.items = Replaced(@, r.ans.row)]
            IN  LandSaved(r, took, [took EXCEPT !.open = FALSE])

\* Rotate and Revoke, straight from the row's menu.
pressKey(kind, vk) ==
    /\ KeyTable /\ Can("opens") /\ Room
    /\ Apply([ui |-> Spend(ui, "opens"), reqs |-> With(reqs, Request(kind, vk.id, NoRow))])

LandPressed(r) ==
    /\ r.kind \in {"rotate", "revoke"}
    /\ IF ~r.ans.ok THEN Apply([ui |-> [ui EXCEPT !.error = TRUE], reqs |-> reqs \ {r}])
       ELSE Apply([ui |-> IF r.kind = "rotate" THEN [ui EXCEPT !.secret = r.ans.row] ELSE ui,
                   reqs |-> With(reqs \ {r}, Request("list", "", NoRow))])

closeSecret == /\ ui.secret # NoRow
               /\ Apply([ui |-> [ui EXCEPT !.secret = NoRow], reqs |-> reqs])

askDeleteKey(vk) ==
    /\ KeyTable /\ Can("opens")
    /\ Apply([ui |-> Spend([ui EXCEPT !.pendingDelete = vk], "opens"), reqs |-> reqs])

KeyAlert == ui.pendingDelete # NoRow /\ ui.secret = NoRow
cancelDeleteKey == KeyAlert /\ Apply([ui |-> [ui EXCEPT !.pendingDelete = NoRow], reqs |-> reqs])

\* Nothing holds the button while a delete is out.
removeKey ==
    /\ KeyAlert /\ Room
    /\ Apply([ui |-> ui, reqs |-> With(reqs, Request("delete", ui.pendingDelete.id, NoRow))])

LandKeyDelete(r) ==
    /\ r.kind = "delete"
    /\ IF r.ans.ok
       THEN Apply([ui |-> [ui EXCEPT !.pendingDelete = NoRow],
                   reqs |-> With(reqs \ {r}, Request("list", "", NoRow))])
       ELSE Apply([ui |-> [ui EXCEPT !.error = TRUE], reqs |-> reqs \ {r}])

openPolicy(vk) ==
    /\ KeyTable /\ Can("opens") /\ Room
    /\ Apply([ui |-> Spend([ui EXCEPT !.policyKey = vk, !.policy = {}, !.policyError = FALSE],
                           "opens"),
              reqs |-> With(Bumped(reqs, {"policy"}), Request("policy", vk.id, NoRow))])

closePolicy ==
    /\ ui.policyKey # NoRow /\ ui.secret = NoRow
    /\ Apply([ui |-> [ui EXCEPT !.policyKey = NoRow, !.policy = {}, !.policyError = FALSE],
              reqs |-> Bumped(reqs, {"policy"})])

LandPolicy(r) ==
    /\ r.kind = "policy"
    /\ Apply([ui |-> IF ~r.mine THEN ui
                     ELSE IF r.ans.ok THEN [ui EXCEPT !.policy = {r.ans.row}]
                     ELSE [ui EXCEPT !.policyError = TRUE],
              reqs |-> Reload(reqs \ {r}, r)])

----------------------------------------------------------------------------
(* The admin API's side of a key, and another operator.                    *)

\* Lists that do not decode are left alone until both are replaced.
patchVirtualKey(vk, body) ==
    LET value(k) == IF Sent(body, k) THEN body[k] ELSE vk[k]
    IN  [vk EXCEPT !.name = trim(value("name")), !.rate_limit = value("rate_limit"),
                   !.tool_allowlist = value("tool_allowlist"),
                   !.tool_denylist = value("tool_denylist"),
                   !.lists_malformed = @ /\ ~\A k \in Lists : Sent(body, k),
                   !.http_methods = value("http_methods"),
                   !.methods_malformed = @ /\ ~Sent(body, "http_methods")]

ListsAccepted(vk, body) ==
    /\ \A k \in Lists : Sent(body, k) =>
          ValidateToolList(Side(k), body[k], vk.target_type = "group")
    /\ vk.lists_malformed => (Sent(body, "tool_allowlist") <=> Sent(body, "tool_denylist"))

KeyBodyAccepted(vk, body) ==
    ListsAccepted(vk, body) /\ (Sent(body, "name") => trim(body.name) # "")

BlankKey(i, body) ==
    [id |-> i, name |-> "", target_type |-> body.target_type, target_id |-> body.target_id,
     rate_limit |-> "", tool_allowlist |-> {}, tool_denylist |-> {}, http_methods |-> {},
     lists_malformed |-> FALSE, methods_malformed |-> FALSE, revoked |-> FALSE, secret |-> 1,
     refused |-> {}]

HandledKey(r) ==
    LET kept(ans) == [srv |-> srv, ans |-> ans]
        put(vk) == [srv |-> {x \in srv : x.id # vk.id} \cup {vk}, ans |-> Ok(vk, {})]
        free == Fresh(KeyIds, {ui.policyKey.id, ui.secret.id})
        blank == BlankKey(CHOOSE i \in free : TRUE, r.arg.body)
    IN  CASE r.kind = "list" -> kept(Ok(NoRow, srv))
          [] r.kind = "create" ->
                IF free # {} /\ KeyBodyAccepted(blank, r.arg.body)
                THEN put(patchVirtualKey(blank, r.arg.body)) ELSE kept(Err(Refused))
          [] OTHER -> IF ~Listed(r.id) THEN kept(Err(Gone)) ELSE
             CASE r.kind = "read" -> kept(Ok(Row(r.id), {}))
               [] r.kind = "policy" -> kept(Ok(PolicyView(Row(r.id)), {}))
               [] r.kind = "patch" -> IF KeyBodyAccepted(Row(r.id), r.arg.body)
                                      THEN put(patchVirtualKey(Row(r.id), r.arg.body))
                                      ELSE kept(Err(Refused))
               [] r.kind = "rotate" -> put([Row(r.id) EXCEPT !.secret = @ + 1, !.revoked = FALSE])
               [] r.kind = "revoke" -> put([Row(r.id) EXCEPT !.revoked = TRUE])
               [] OTHER -> [srv |-> {x \in srv : x.id # r.id}, ans |-> Ok(NoRow, {})]

ServeKey(r) == r.kind # "discover" /\ r.st = "sent" /\ Serve(r, HandledKey(r))

OtherKey ==
    /\ Can("others") /\ ui' = Spend(ui, "others")
    /\ \E vk \in srv : srv' \in {srv \ {vk}} \cup
          {(srv \ {vk}) \cup {patchVirtualKey(vk, b)} : b \in OtherLists}
    /\ reqs' = Raced(reqs, srv')

KeyLand == \E r \in {q \in reqs : q.st = "answered"} :
              \/ LandKeyList(r) \/ LandKeyRead(r) \/ LandKeySave(r) \/ LandPressed(r)
              \/ LandKeyDelete(r) \/ LandPolicy(r)

KeyOperate ==
    \/ openCreateKey \/ closeKey \/ changeKey \/ retarget \/ loadKeyTools \/ submitKey
    \/ closeSecret \/ cancelDeleteKey \/ removeKey \/ closePolicy
    \/ \E vk \in ui.items : \/ openEditKey(vk) \/ askDeleteKey(vk) \/ openPolicy(vk)
                            \/ \E kind \in {"rotate", "revoke"} : pressKey(kind, vk)

KeyNext ==
    \/ KeyOperate \/ KeyLand \/ OtherKey
    \/ \E r \in reqs : ServeKey(r) \/ ServeDiscover(r) \/ LandDiscover(r)

----------------------------------------------------------------------------
OnKeys == ui.page = "keys"

\* The two lists: a PATCH about to replace one other than the one its dialog
\* was seeded with was overtaken after the fresh read, and lists that cannot
\* be read are replaced only after Replace the stored rules.
ListsKept ==
    \A r \in reqs :
       (r.kind = "patch" /\ r.st = "sent" /\ Listed(r.id)) =>
          LET now == Row(r.id)
              seed == r.arg.seed
              sent == {k \in Lists : Sent(r.arg.body, k)}
          IN  /\ (sent # {} /\ ~r.arg.raced) =>
                    /\ now.lists_malformed = seed.lists_malformed
                    /\ \A k \in sent : now[k] = seed[k]
              /\ (sent # {} /\ seed.lists_malformed /\ r.mine) => ui.form.listsReplace

\* The filter the proxy runs on a key with this target.
GroupFilter(vk) ==
    IF vk.target_type # "group" \/ ~\E g \in KeyGroups : g.id = vk.target_id THEN NoFilter
    ELSE (CHOOSE g \in KeyGroups : g.id = vk.target_id).tool_filter

\* The proxy's rules of a key, its group's filter aside.
OwnRules(vk) == ToolRules(vk.tool_denylist, vk.tool_allowlist, vk.lists_malformed, NoFilter,
                          vk.target_type = "group")

\* A row of the lists: its mark.
listMark(f, c, field, e) ==
    entryMark(e, "tool", Side(field), groupTarget, unmatchedEntries(f[field], c, FALSE),
              field = "tool_allowlist" /\ allowEntryDeniedBy(e, f.tool_denylist, targetSlug))

\* A picker row's tick, covering line and notes are the proxy's verdict on its
\* tool, for every name no list holds an unsavable entry of.  A row said to stay
\* blocked is blocked, and so is a tool left out under a member said to keep such
\* tools blocked, unless an entry reaches it; but an empty allow list, which the
\* proxy takes for none, blocks nothing (README, Findings).  The standing line is
\* true, and so are three marks: Cannot be saved, Also denied, and Not advertised
\* of every tool of the target, loaded or not.  Save lets through only lists the
\* API takes; a key without a badge refuses no tool of its own, and one with
\* unreadable rules every tool; and the Policy dialog is about the key it names
\* and says so when a rule refuses everything.
KeyRulesReadAlike ==
    LET f == ui.form
        p == ToolRules(f.tool_denylist, f.tool_allowlist, FALSE, GroupFilter(Target), groupTarget)
        box(m, t, field) == RowBox(m, t, f[field], {}, Side(field), groupTarget)
        named(m, t, field) == ShownNamed(box(m, t, field))
        unsavable(m, t) == LET e == tickEntry(m.slug, t)
                           IN  ~cleanEntry(e) /\ e \in f.tool_allowlist \cup f.tool_denylist
    IN  /\ (ui.open /\ ~ListsLocked) =>
              /\ \A m \in keyCatalogue : \A t \in {x \in m.tools : ~unsavable(m, x)} :
                    LET blocked == blockedBy(p, [slug |-> m.slug, name |-> t])
                    IN  /\ blocked <=>
                              \/ rowNotes(m.slug, t, "allow") # {}
                              \/ named(m, t, "tool_denylist")
                              \/ f.tool_allowlist # {} /\ ~named(m, t, "tool_allowlist")
                        /\ ShownBlocked(box(m, t, "tool_allowlist"), "allow")
                              => blocked \/ f.tool_allowlist = {}
              /\ \A m \in {x \in keyCatalogue : UNLISTED_STAYS_BLOCKED(x, "allow")} :
                    \A t \in ToolsOf({m.id}) : t.name \notin m.tools =>
                       \/ blockedBy(p, t)
                       \/ f.tool_allowlist = {} \/ box(m, t.name, "tool_allowlist").ticked
              /\ \A k \in Lists : \A e \in f[k] :
                    LET mark == listMark(f, keyCatalogue, k, e)
                    IN  /\ mark = "Cannot be saved"
                              <=> ~ValidateToolList(Side(k), {e}, groupTarget)
                        /\ mark = "Not advertised"
                              => ~\E t \in ToolsOf(targetIds) : MatchToolEntry(e, t, FALSE)
              /\ allowListAdmitsNothing(f.tool_allowlist, f.tool_denylist, groupTarget, targetSlug)
                    => \A m \in keyCatalogue : \A t \in m.tools :
                          blockedBy(p, [slug |-> m.slug, name |-> t])
              /\ \A e \in f.tool_allowlist : allowEntryDeniedBy(e, f.tool_denylist, targetSlug)
                    => \A t \in entryTool(e, targetSlug) : blockedBy(p, t)
              /\ ~keyBlocked => \A k \in Lists : Sent(KeySaveBody, k) =>
                                    ValidateToolList(Side(k), f[k], groupTarget)
        /\ \A vk \in ui.items : \A t \in ToolsOf({u.id : u \in Upstreams}) :
              /\ keyRulesBadge(vk) = "" => ~blockedBy(OwnRules(vk), t)
              /\ keyRulesBadge(vk) = "Rules unreadable" => blockedBy(OwnRules(vk), t)
        /\ \A v \in ui.policy :
              /\ v.id = ui.policyKey.id
              /\ "mcp" \in v.target_kinds =>
                    /\ v.lists_malformed => "lists" \in PolicyBody(v)
                    /\ ~ValidateToolFilter(GroupFilter(ui.policyKey)) => "group" \in PolicyBody(v)
              /\ v.methods_malformed /\ "http" \in v.target_kinds => "methods" \in PolicyBody(v)
              /\ "group" \in PolicyBody(v) =>
                    \A t \in ToolsOf({u.id : u \in Upstreams}) :
                       blockedBy(GroupAlone(GroupFilter(ui.policyKey)), t)
=============================================================================
