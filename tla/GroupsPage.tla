----------------------------- MODULE GroupsPage -----------------------------
(***************************************************************************)
(* The Groups page: the Create and Edit dialog with its tool filter, the   *)
(* two confirms a save may have to wait for, and Delete, against an admin  *)
(* API another operator writes to as well.  A PATCH that carries the       *)
(* filter is preceded by a fresh read of the row.                          *)
(*                                                                         *)
(* A request carries, beside its body, the row its dialog was seeded with  *)
(* and three things no code keeps: what the operator agreed to for it      *)
(* (agreed), whether the catalogue said that its filter blocks everything  *)
(* (blocks), and whether the row was written after the fresh read (raced). *)
(***************************************************************************)
EXTENDS ToolCatalogue, FormText

CONSTANTS GroupIds,        \* the ids group rows may have
          GroupEntries,    \* the entries an operator may add by hand
          GroupNames,      \* the names an operator may type
          OtherFilters,    \* the filters another operator may store
          GroupScenarios   \* the rows to start from and the bounds, as on the
                           \* Upstreams page; loads bounds the Load presses

\* The id is the rows' primary key.
ASSUME GroupRows == \A s \in GroupScenarios : \A g, h \in s.rows :
                       "id" \in DOMAIN g /\ (g.id = h.id => g = h)

----------------------------------------------------------------------------
(* group-form.ts.                                                          *)

blankGroupForm ==
    [name |-> "", upstream_ids |-> {}, filter |-> blankFilterForm,
     filterUnreadable |-> FALSE, filterReplace |-> FALSE, filterChosen |-> FALSE]

formFromGroup(g) ==
    LET stored == parseToolFilter(g.tool_filter)
    IN  [blankGroupForm EXCEPT
            !.name = g.name, !.upstream_ids = g.upstream_ids,
            !.filter = stored.form,
            !.filterUnreadable = stored.kind = "unreadable"]

Body(has, value) == Restrict(value, has)

groupCreateBody(f) ==
    Body({"name", "upstream_ids"} \cup {k \in {"tool_filter"} : f.filter.mode # ""},
         [name |-> f.name, upstream_ids |-> f.upstream_ids,
          tool_filter |-> filterValue(f.filter)])

sendsFilter(before, f) ==
    LET stored == parseToolFilter(before.tool_filter)
    IN  IF stored.kind = "unreadable" THEN f.filterReplace /\ f.filterChosen
        ELSE ~sameFilter(stored.form, f.filter)

groupPatchBody(before, f) ==
    Body({k \in {"name"} : trim(f.name) # before.name}
         \cup {k \in {"upstream_ids"} : f.upstream_ids # before.upstream_ids}
         \cup {k \in {"tool_filter"} : sendsFilter(before, f)},
         [name |-> trim(f.name), upstream_ids |-> f.upstream_ids,
          tool_filter |-> filterValue(f.filter)])

groupSaveBlocked(before, f) ==
    LET sends == IF before = NoRow THEN f.filter.mode # "" ELSE sendsFilter(before, f)
    IN  \/ f.filterReplace /\ ~f.filterChosen
        \/ sends /\ filterProblem(f.filter)

\* Mutant: only a filter that can be read is compared.
PolicyStaleReadable(seed, fresh) ==
    LET a == parseToolFilter(seed.tool_filter)
        b == parseToolFilter(fresh.tool_filter)
    IN  a.kind = "filter" /\ b.kind = "filter" /\ ~sameFilter(a.form, b.form)

groupPolicyStale(seed, fresh) ==
    LET a == parseToolFilter(seed.tool_filter)
        b == parseToolFilter(fresh.tool_filter)
    IN  \/ a.kind # b.kind
        \/ a.kind = "unreadable" /\ seed.tool_filter # fresh.tool_filter
        \/ a.kind = "filter" /\ ~sameFilter(a.form, b.form)

groupFilterBadge(g) ==
    LET stored == parseToolFilter(g.tool_filter)
    IN  CASE stored.kind = "unreadable" -> "Filter unreadable"
          [] stored.kind = "filter"     -> stored.form.mode
          [] OTHER                      -> ""

----------------------------------------------------------------------------
(* What one input of the dialog makes of the form: GroupFields and         *)
(* ToolFilterFields.                                                       *)

Chosen(f, m) == [f EXCEPT !.filter.mode = m, !.filterChosen = TRUE]
ToolsSet(f, e, on) == [f EXCEPT !.filter.tools = toggleEntry(@, e, on)]
PrefixesSet(f, e, on) == [f EXCEPT !.filter.prefixes = toggleEntry(@, e, on)]

\* Each entry's Remove, and the two Add inputs.
ToolEntriesEdits(f) ==
    {ToolsSet(f, e, FALSE) : e \in f.filter.tools}
    \cup {PrefixesSet(f, e, FALSE) : e \in f.filter.prefixes}
    \cup {ToolsSet(f, e, TRUE) : e \in GroupEntries}
    \cup {PrefixesSet(f, e, TRUE) : e \in GroupEntries}

\* The picker: a box per loaded tool, and one per member.
PickerEdits(f, c) ==
    LET side == IF f.filter.mode = "allow" THEN "allow" ELSE "deny"
        box(m, t) == RowBox(m, t, f.filter.tools, f.filter.prefixes, side, TRUE)
        tick(m) == {ToolsSet(f, tickEntry(m.slug, t), ~box(m, t).ticked) :
                       t \in {x \in m.tools : box(m, x).shown /\ ~box(m, x).disabled}}
        all(m) == LET e == wholeMemberPrefix(m.slug)
                  IN  PrefixesSet(f, e, e \notin f.filter.prefixes)
    IN  {all(m) : m \in c} \cup UNION {tick(m) : m \in c}

\* An unreadable filter is edited only once it is being replaced.
ToolFilterFields(f, c) ==
    IF f.filterUnreadable /\ ~f.filterReplace
    THEN {[f EXCEPT !.filterReplace = TRUE, !.filterChosen = FALSE]}
    ELSE {Chosen(f, m) : m \in {x \in {"", "allow", "deny"} :
                                  x # f.filter.mode \/ (f.filterReplace /\ ~f.filterChosen)}}
         \cup (IF f.filter.mode = "" THEN {} ELSE ToolEntriesEdits(f) \cup PickerEdits(f, c))

\* The name, the members' boxes and the filter.
GroupFields(f, c) ==
    {[f EXCEPT !.name = v] : v \in GroupNames}
    \cup {[f EXCEPT !.upstream_ids = IF u.id \in @ THEN @ \ {u.id} ELSE @ \cup {u.id}] :
             u \in ui.upstreams}
    \cup ToolFilterFields(f, c)

----------------------------------------------------------------------------
(* The page.                                                               *)

GroupInit(scenario) ==
    /\ srv = scenario.rows
    /\ ui = [page |-> "groups", items |-> {}, upstreams |-> {}, open |-> FALSE,
             editing |-> NoRow, saving |-> FALSE, error |-> FALSE,
             formError |-> "", form |-> blankGroupForm,
             confirmEmpty |-> FALSE, confirmBlocks |-> FALSE,
             answered |-> [empty |-> FALSE, blocks |-> FALSE],
             byId |-> EmptyCatalogue, rateLimited |-> FALSE, run |-> NoRun,
             pressed |-> {}, agreed |-> {},
             pendingDelete |-> NoRow, deleting |-> FALSE, deleteError |-> "",
             budget |-> [opens |-> scenario.opens, edits |-> scenario.edits,
                         loads |-> scenario.loads, others |-> scenario.others,
                         fails |-> scenario.fails]]
    /\ reqs = With({}, Request("list", "", NoRow))

GroupTable == ~ui.open /\ ui.pendingDelete = NoRow
GroupDialog == ui.open /\ ~ui.confirmEmpty /\ ~ui.confirmBlocks

groupCatalogue == catalogue(ui.form.upstream_ids)
groupBlocked == groupSaveBlocked(ui.editing, ui.form)

\* groupActions: what a row's menu offers.
groupActions == {"edit", "delete"}

LandGroupList(r) ==
    /\ r.kind = "list"
    /\ ui' = IF r.ans.ok THEN [ui EXCEPT !.items = r.ans.rows, !.upstreams = Upstreams]
             ELSE [ui EXCEPT !.error = TRUE]
    /\ reqs' = reqs \ {r}
    /\ UNCHANGED srv

\* opened: a dialog of its own, with a catalogue of its own.
groupOpened(u) ==
    LET s == resetCatalogue(u, reqs)
        o == opened(s.ui, s.reqs)
    IN  Apply(o)

openCreateGroup ==
    /\ GroupTable /\ Can("opens")
    /\ groupOpened([ui EXCEPT !.editing = NoRow, !.formError = "",
                              !.form = blankGroupForm])

openEditGroup(g) ==
    /\ GroupTable /\ "edit" \in groupActions /\ Can("opens")
    /\ groupOpened([ui EXCEPT !.editing = g, !.formError = "",
                              !.form = formFromGroup(g)])

GroupClosed(u) == [u EXCEPT !.open = FALSE, !.confirmEmpty = FALSE, !.confirmBlocks = FALSE]

closeGroup == GroupDialog /\ Apply([ui |-> GroupClosed(ui), reqs |-> reqs])

changeGroup ==
    /\ GroupDialog /\ Can("edits")
    /\ \E f \in GroupFields(ui.form, groupCatalogue) \ {ui.form} :
          Apply([ui |-> Spend([ui EXCEPT !.form = f], "edits"), reqs |-> reqs])

\* Load tools, or one member's Load, Reload or Try again.
loadGroupTools ==
    /\ GroupDialog /\ ui.form.filter.mode # ""
    /\ ~(ui.form.filterUnreadable /\ ~ui.form.filterReplace)
    /\ LET ids == {m.id : m \in groupCatalogue}
       IN  load(ids) \/ \E i \in ids : ids # {i} /\ load({i})

\* The save has to stop for the second confirm.
asksAboutBlocking(u, body) ==
    /\ "tool_filter" \in DOMAIN body /\ body.tool_filter # NoFilter
    /\ ~u.answered.blocks
    /\ blocksEverything(u.form.filter, groupCatalogue)

\* The proxy would refuse every tool the loaded members advertise.
AllRefused(body) ==
    LET seen == Advertised({m \in groupCatalogue : m.enabled})
    IN  /\ "tool_filter" \in DOMAIN body /\ catalogueComplete(groupCatalogue)
        /\ seen # {} /\ \A t \in seen : blockedBy(GroupAlone(body.tool_filter), t)

Sending(u, kind, body) ==
    Request(kind, u.editing.id,
            [body |-> body, seed |-> u.editing, agreed |-> u.agreed,
             blocks |-> AllRefused(body), raced |-> FALSE])

createGroup(u) ==
    LET body == groupCreateBody(u.form)
    IN  IF asksAboutBlocking(u, body)
        THEN Apply([ui |-> [u EXCEPT !.confirmBlocks = TRUE], reqs |-> reqs])
        ELSE /\ Room
             /\ Apply([ui |-> [u EXCEPT !.saving = TRUE],
                       reqs |-> With(reqs, Sending(u, "create", body))])

saveGroup(u) ==
    LET body == groupPatchBody(u.editing, u.form)
        empties == "upstream_ids" \in DOMAIN body /\ body.upstream_ids = {}
    IN  CASE DOMAIN body = {} -> Apply([ui |-> GroupClosed(u), reqs |-> reqs])
          [] empties /\ ~u.answered.empty ->
                Apply([ui |-> [u EXCEPT !.confirmEmpty = TRUE], reqs |-> reqs])
          [] ~(empties /\ ~u.answered.empty) /\ asksAboutBlocking(u, body) ->
                Apply([ui |-> [u EXCEPT !.confirmBlocks = TRUE], reqs |-> reqs])
          [] OTHER ->
                /\ Room
                /\ Apply([ui |-> [u EXCEPT !.saving = TRUE],
                          reqs |-> With(reqs, Sending(u, IF "tool_filter" \in DOMAIN body
                                                         THEN "read" ELSE "patch", body))])

Resumed(u) == IF mode = "edit" THEN saveGroup(u) ELSE createGroup(u)

\* Mutant: an answer outlives the submit it was given to.
SubmitKept == /\ GroupDialog /\ ~ui.saving /\ ~groupBlocked /\ ui.form.name # ""
              /\ Resumed([ui EXCEPT !.formError = "", !.agreed = {}])

submitGroup ==
    /\ GroupDialog /\ ~ui.saving /\ ~groupBlocked /\ ui.form.name # ""
    /\ Resumed([ui EXCEPT !.formError = "", !.agreed = {},
                          !.answered = [empty |-> FALSE, blocks |-> FALSE]])

SaveBody == IF mode = "edit" THEN groupPatchBody(ui.editing, ui.form)
            ELSE groupCreateBody(ui.form)

confirmRemoveAll ==
    /\ ui.confirmEmpty
    /\ saveGroup([ui EXCEPT !.confirmEmpty = FALSE, !.answered.empty = TRUE,
                            !.agreed = @ \cup {<<"empty", SaveBody>>}])

confirmBlocksAll ==
    /\ ui.confirmBlocks
    /\ Resumed([ui EXCEPT !.confirmBlocks = FALSE, !.answered.blocks = TRUE,
                          !.agreed = @ \cup {<<"blocks", SaveBody>>}])

\* An Alert's own Cancel leaves the dialog as it was.
cancelConfirm ==
    /\ ui.confirmEmpty \/ ui.confirmBlocks
    /\ Apply([ui |-> [ui EXCEPT !.confirmEmpty = FALSE, !.confirmBlocks = FALSE],
              reqs |-> reqs])

LandGroupRead(r) == LandRead(r, groupPolicyStale(r.arg.seed, r.ans.row))

LandGroupSave(r) ==
    /\ r.kind \in {"create", "patch"}
    /\ IF r.kind = "create"
       THEN LandSaved(r, ui, [GroupClosed(ui) EXCEPT !.form = blankGroupForm])
       ELSE LET took == [ui EXCEPT !.items = Replaced(@, r.ans.row)]
            IN  LandSaved(r, took, GroupClosed(took))

askDeleteGroup(g) ==
    /\ GroupTable /\ "delete" \in groupActions /\ Can("opens")
    /\ Apply([ui |-> Spend([ui EXCEPT !.pendingDelete = g], "opens"), reqs |-> reqs])

----------------------------------------------------------------------------
(* The admin API's side of a group, and another operator.                  *)

patchGroup(g, body) ==
    [g EXCEPT !.name = IF "name" \in DOMAIN body THEN trim(body.name) ELSE @,
              !.upstream_ids = IF "upstream_ids" \in DOMAIN body THEN body.upstream_ids ELSE @,
              !.tool_filter = IF "tool_filter" \in DOMAIN body THEN body.tool_filter ELSE @]

FilterAccepted(body) ==
    "tool_filter" \in DOMAIN body => ValidateToolFilterWrite(body.tool_filter)
GroupBodyAccepted(body) ==
    FilterAccepted(body) /\ ("name" \in DOMAIN body => trim(body.name) # "")

HandledGroup(r) ==
    LET kept(ans) == [srv |-> srv, ans |-> ans]
        put(g) == [srv |-> {x \in srv : x.id # g.id} \cup {g}, ans |-> Ok(g, {})]
        free == Fresh(GroupIds, {})
        blank(i) == [id |-> i, name |-> "", upstream_ids |-> {}, tool_filter |-> NoFilter]
    IN  CASE r.kind = "list" -> kept(Ok(NoRow, srv))
          [] r.kind = "create" ->
                IF GroupBodyAccepted(r.arg.body) /\ free # {}
                THEN put(patchGroup(blank(CHOOSE i \in free : TRUE), r.arg.body))
                ELSE kept(Err(Refused))
          [] OTHER -> IF ~Listed(r.id) THEN kept(Err(Gone)) ELSE
             CASE r.kind = "read" -> kept(Ok(Row(r.id), {}))
               [] r.kind = "patch" -> IF GroupBodyAccepted(r.arg.body)
                                      THEN put(patchGroup(Row(r.id), r.arg.body))
                                      ELSE kept(Err(Refused))
               [] OTHER -> Deleted(r.id)

ServeGroup(r) == r.kind # "discover" /\ r.st = "sent" /\ Serve(r, HandledGroup(r))

OtherGroup ==
    /\ Can("others") /\ ui' = Spend(ui, "others")
    /\ \E g \in srv : srv' \in {srv \ {g}} \cup
          {(srv \ {g}) \cup {[g EXCEPT !.tool_filter = t]} : t \in OtherFilters}
    /\ reqs' = Raced(reqs, srv')

GroupLand == \E r \in {q \in reqs : q.st = "answered"} :
                LandGroupList(r) \/ LandGroupRead(r) \/ LandGroupSave(r) \/ LandDelete(r)

GroupOperate ==
    \/ openCreateGroup \/ closeGroup \/ changeGroup \/ loadGroupTools \/ submitGroup
    \/ confirmRemoveAll \/ confirmBlocksAll \/ cancelConfirm \/ closeDelete \/ remove
    \/ \E g \in ui.items : openEditGroup(g) \/ askDeleteGroup(g)

GroupNext ==
    \/ GroupOperate \/ GroupLand \/ OtherGroup
    \/ \E r \in reqs : ServeGroup(r) \/ ServeDiscover(r) \/ LandDiscover(r)
----------------------------------------------------------------------------
OnGroups == ui.page = "groups"

\* Two stored filters the proxy treats alike: both or neither refuse every call
\* as unreadable, and no tool is refused by one alone.
SameVerdicts(a, b) ==
    /\ ValidateToolFilter(a) = ValidateToolFilter(b)
    /\ \A t \in ToolsOf({u.id : u \in Upstreams}) :
          blockedBy(GroupAlone(a), t) = blockedBy(GroupAlone(b), t)

\* A PATCH about to replace a filter the proxy treats otherwise than the one its
\* dialog showed was overtaken after the fresh read, and a filter that cannot be
\* read is replaced only after Replace filter.
FilterKept ==
    \A r \in reqs :
       (/\ r.kind = "patch" /\ r.st = "sent" /\ Listed(r.id)
        /\ "tool_filter" \in DOMAIN r.arg.body) =>
          LET seed == r.arg.seed.tool_filter
          IN  /\ r.arg.raced \/ SameVerdicts(seed, Row(r.id).tool_filter)
              /\ (~ValidateToolFilter(seed) /\ r.mine) => ui.form.filterReplace

(***************************************************************************)
(* A save that leaves a group without members, or, by a complete           *)
(* catalogue, without a callable tool, is sent only after the operator     *)
(* agreed to that very body in this submit (groups/page.tsx:214-277).      *)
(***************************************************************************)
ConfirmAsked ==
    OnGroups => \A r \in Out({"read", "patch", "create"}) :
       LET body == r.arg.body
       IN  /\ (r.kind # "create" /\ "upstream_ids" \in DOMAIN body /\ body.upstream_ids = {})
                 => <<"empty", body>> \in r.arg.agreed
           /\ r.arg.blocks => <<"blocks", body>> \in r.arg.agreed

\* Of a filter the proxy can read: a row is drawn ticked or covered exactly when
\* the rule names its tool, and one said to stay blocked is blocked; so is a tool
\* left out under a member said to keep such tools blocked, unless an entry
\* reaches it (README, Findings).  Not advertised, a prefix's list of tools and
\* the standing lines are true of every tool the members have, loaded or not, or
\* the incomplete line is shown.  And a badge is pink, a mark says Cannot be
\* saved and Save is let through exactly when the server says so.
GroupRulesReadAlike ==
    LET f == ui.form.filter
        c == groupCatalogue
        p == GroupAlone(filterValue(f))
        ids == ui.form.upstream_ids
        mark(e, kind) ==
           entryMark(e, kind, f.mode, TRUE,
                     unmatchedEntries(IF kind = "tool" THEN f.tools ELSE f.prefixes, c,
                                      kind = "prefix"), FALSE)
        entries == {<<e, "tool">> : e \in f.tools} \cup {<<e, "prefix">> : e \in f.prefixes}
        box(m, t) == RowBox(m, t, f.tools, f.prefixes, f.mode, TRUE)
        alone(e, kind) == IF kind = "tool" THEN RawFilter("object", f.mode, {e}, {})
                          ELSE RawFilter("object", f.mode, {}, {e})
    IN  /\ (ui.open /\ f.mode # "") =>
              /\ \A x \in entries :
                    /\ mark(x[1], x[2]) = "Cannot be saved"
                          <=> ~ValidateToolFilterWrite(alone(x[1], x[2]))
                    /\ mark(x[1], x[2]) = "Not advertised"
                          => ~\E t \in ToolsOf(ids) : MatchToolEntry(x[1], t, x[2] = "prefix")
              /\ \A e \in f.prefixes : prefixMatches(e, c) # {} =>
                    prefixMatches(e, c) = {t \in ToolsOf(ids) : MatchToolEntry(e, t, TRUE)}
              /\ Advertised(c) # {} => catalogueComplete(c) \/ incompleteLine(c)
        /\ (ui.open /\ f.mode # "" /\ ValidateToolFilter(p.raw)) =>
              /\ \A m \in c : \A t \in m.tools :
                    LET blocked == blockedBy(p, [slug |-> m.slug, name |-> t])
                    IN  /\ ShownNamed(box(m, t)) <=> blocked = (f.mode = "deny")
                        /\ ShownBlocked(box(m, t), f.mode) => blocked
              /\ \A m \in {x \in c : UNLISTED_STAYS_BLOCKED(x, f.mode)} :
                    \A t \in ToolsOf({m.id}) :
                       t.name \notin m.tools => blockedBy(p, t) \/ box(m, t.name).ticked
              /\ blocksEverything(f, c) =>
                    \A m \in {x \in c : x.enabled} : \A t \in ToolsOf({m.id}) : blockedBy(p, t)
              /\ filterAdmitsNothing(f) => \A t \in ToolsOf(ids) : blockedBy(p, t)
              /\ filterListsNothing(f) => \A t \in ToolsOf(ids) : ~blockedBy(p, t)
        /\ \A g \in ui.items :
              groupFilterBadge(g) = "Filter unreadable" <=> ~ValidateToolFilter(g.tool_filter)
        /\ (ui.open /\ ~groupBlocked) => FilterAccepted(SaveBody)
=============================================================================
