----------------------------- MODULE ToolPolicy -----------------------------
(***************************************************************************)
(* The tool rules as the proxy enforces them and as the dashboard shows    *)
(* them: entries and how one matches a tool, a group's filter, a virtual   *)
(* key's two lists, and the verdicts the dialogs draw from a catalogue.    *)
(*                                                                         *)
(* An entry is what splitEntry makes of it: head is the slug before the    *)
(* separator ("" when unscoped), rest the letters after it.  A list is the *)
(* set of its entries: order and repeats mean nothing to any rule here.  A *)
(* sentence is modelled by whether it is shown.                            *)
(***************************************************************************)
EXTENDS SequencesExt

Entry(head, rest) == [head |-> head, rest |-> rest]
Space == " "          \* stands for any space or control character
BadSlug == "Docs"      \* a head no slug can be: validSlug has no capitals
EmptyEntry == Entry("", <<>>)

scoped(e) == e.head # ""
validSlug(s) == s # BadSlug

----------------------------------------------------------------------------
(* The server: toolfilter.go validates, policy.go enforces.                *)

\* A stored tool_filter: absent (or {}), an object, or any other JSON.
RawFilter(shape, m, tools, prefixes) ==
    [shape |-> shape, mode |-> m, tools |-> tools, prefixes |-> prefixes]
NoFilter == RawFilter("absent", "", {}, {})

CleanToolEntry(e) == e # EmptyEntry /\ Space \notin Range(e.rest)

MatchToolEntry(e, id, prefix) ==
    /\ e # EmptyEntry
    /\ scoped(e) => e.head = id.slug
    /\ IF prefix THEN IsPrefix(e.rest, id.name) ELSE e.rest = id.name

ValidateToolFilter(raw) ==
    \/ raw.shape = "absent"
    \/ /\ raw.shape = "object"
       /\ raw.mode \in {"", "allow", "deny"}
       /\ raw.mode = "" => raw.tools \cup raw.prefixes = {}
       /\ raw.mode = "allow" => raw.tools \cup raw.prefixes # {}
       /\ \A e \in raw.tools \cup raw.prefixes : CleanToolEntry(e)

validateEntries(entries, allowEmptyRest) ==
    \A e \in entries :
       /\ CleanToolEntry(e)
       /\ scoped(e) => validSlug(e.head) /\ (e.rest # <<>> \/ allowEmptyRest)

requireScoped(entries) == \A e \in entries : scoped(e)

ValidateToolFilterWrite(raw) ==
    /\ ValidateToolFilter(raw)
    /\ validateEntries(raw.tools, FALSE) /\ validateEntries(raw.prefixes, TRUE)
    /\ raw.mode = "allow" => requireScoped(raw.tools \cup raw.prefixes)

ValidateToolList(side, entries, groupTarget) ==
    /\ validateEntries(entries, FALSE)
    /\ groupTarget /\ side = "allow" => requireScoped(entries)

\* The rules on one call: a key's lists, and its group's filter if it has one.
ToolRules(deny, allow, unreadable, raw, groupTarget) ==
    [deny |-> deny, allow |-> allow, listsMalformed |-> unreadable, raw |-> raw,
     groupTarget |-> groupTarget]
GroupAlone(raw) == ToolRules({}, {}, FALSE, raw, TRUE)

matchesAny(p, entries, id, prefix, allowSide) ==
    \E e \in entries : /\ (allowSide /\ p.groupTarget) => scoped(e)
                       /\ MatchToolEntry(e, id, prefix)

\* Whether some rule refuses the tool; a filter that is no object has no mode.
blockedBy(p, id) ==
    LET f == IF p.raw.shape = "object" THEN p.raw ELSE NoFilter
        listed(allowSide) == \/ matchesAny(p, f.tools, id, FALSE, allowSide)
                             \/ matchesAny(p, f.prefixes, id, TRUE, allowSide)
    IN  \/ ~ValidateToolFilter(p.raw)
        \/ p.listsMalformed
        \/ matchesAny(p, p.deny, id, FALSE, FALSE)
        \/ p.allow # {} /\ ~matchesAny(p, p.allow, id, FALSE, TRUE)
        \/ f.mode = "allow" /\ ~listed(TRUE)
        \/ f.mode = "deny" /\ listed(FALSE)

----------------------------------------------------------------------------
(* The browser's copy: tool-entry.ts and tool-filter.ts.                   *)

cleanEntry(e) == e # EmptyEntry /\ ~\E i \in DOMAIN e.rest : e.rest[i] = Space

tickEntry(slug, name) == Entry(slug, name)
wholeMemberPrefix(slug) == Entry(slug, <<>>)

matchToolEntry(e, slug, name, prefix) ==
    IF e = EmptyEntry \/ (scoped(e) /\ e.head # slug) THEN FALSE
    ELSE IF prefix THEN IsPrefix(e.rest, name) ELSE e.rest = name

\* The write-side rules: the API would refuse this entry.
entryProblem(e, kind, side, groupTarget) ==
    \/ ~cleanEntry(e)
    \/ scoped(e) /\ (~validSlug(e.head) \/ (e.rest = <<>> /\ kind = "tool"))
    \/ ~scoped(e) /\ side = "allow" /\ groupTarget

FilterForm(m, tools, prefixes) == [mode |-> m, tools |-> tools, prefixes |-> prefixes]
blankFilterForm == FilterForm("", {}, {})

\* Under allow an unscoped entry admits nothing.
filterPermits(f, slug, name) ==
    LET usable == {e \in f.tools \cup f.prefixes : f.mode = "allow" => scoped(e)}
        listed == \/ \E e \in f.tools \cap usable : matchToolEntry(e, slug, name, FALSE)
                  \/ \E e \in f.prefixes \cap usable : matchToolEntry(e, slug, name, TRUE)
    IN  CASE f.mode = "allow" -> listed
          [] f.mode = "deny"  -> ~listed
          [] OTHER            -> TRUE

\* What a served filter is, and the form it fills.
parseToolFilter(raw) ==
    LET entries == raw.tools \cup raw.prefixes
        as(kind, f) == [kind |-> kind, form |-> f]
        unreadable == \/ raw.shape # "object"
                      \/ raw.mode \notin {"", "allow", "deny"}
                      \/ \E e \in entries : ~cleanEntry(e)
                      \/ raw.mode = "" /\ entries # {}
                      \/ raw.mode = "allow" /\ entries = {}
    IN  IF raw.shape = "absent" THEN as("none", blankFilterForm)
        ELSE IF unreadable THEN as("unreadable", blankFilterForm)
        ELSE IF raw.mode = "" THEN as("none", blankFilterForm)
        ELSE as("filter", FilterForm(raw.mode, raw.tools, raw.prefixes))

\* The value to send; no filter is null.
filterValue(f) == IF f.mode = "" THEN NoFilter
                  ELSE RawFilter("object", f.mode, f.tools, f.prefixes)

sameFilter(a, b) == (a.mode = "" /\ b.mode = "") \/ a = b

toggleEntry(list, e, on) == IF on THEN list \cup {e} ELSE list \ {e}

listProblem(list, side, groupTarget) ==
    \E e \in list : entryProblem(e, "tool", side, groupTarget)

filterProblem(f) ==
    /\ f.mode # ""
    /\ \/ f.tools \cup f.prefixes = {}
       \/ listProblem(f.tools, f.mode, TRUE)
       \/ \E e \in f.prefixes : entryProblem(e, "prefix", f.mode, TRUE)

filterAdmitsNothing(f) ==
    /\ f.mode = "allow" /\ f.tools \cup f.prefixes # {}
    /\ ~\E e \in f.tools \cup f.prefixes : scoped(e)

filterListsNothing(f) == f.mode = "deny" /\ f.tools \cup f.prefixes = {}

----------------------------------------------------------------------------
(* catalogue.ts: what a Load tools press learned, and what it shows.       *)
(* A catalogue is the set of the target's members, each with its state and *)
(* the tools it answered.                                                  *)

whole(m) == m.state = "ok" /\ ~m.truncated
catalogueComplete(c) == c # {} /\ \A m \in c : whole(m)
incompleteMembers(c) == {m.id : m \in {x \in c : ~whole(x)}}
\* The line that says why nothing is marked Not advertised.
incompleteLine(c) == (\E m \in c : m.state # "idle") /\ incompleteMembers(c) # {}

\* The tools a set of members advertises.
Advertised(c) == UNION {{[slug |-> m.slug, name |-> t] : t \in m.tools} : m \in c}

unmatchedEntries(entries, c, prefix) ==
    {e \in entries : /\ catalogueComplete(c)
                     /\ ~\E t \in Advertised(c) : matchToolEntry(e, t.slug, t.name, prefix)}

\* Mutant: an unscoped allow entry on a group is taken to cover its tool.
CoveringUnskipped(slug, name, tools, prefixes, side, groupTarget) ==
    \/ \E e \in tools \ {tickEntry(slug, name)} : matchToolEntry(e, slug, name, FALSE)
    \/ \E e \in prefixes : matchToolEntry(e, slug, name, TRUE)

\* Another entry than the row's own already names this tool.
coveringEntry(slug, name, tools, prefixes, side, groupTarget) ==
    LET skipped(e) == side = "allow" /\ groupTarget /\ ~scoped(e)
    IN  \/ \E e \in tools \ {tickEntry(slug, name)} :
              ~skipped(e) /\ matchToolEntry(e, slug, name, FALSE)
        \/ \E e \in prefixes : ~skipped(e) /\ matchToolEntry(e, slug, name, TRUE)

blocksEverything(f, c) ==
    LET listed == Advertised({m \in c : m.enabled})
    IN  /\ catalogueComplete(c)
        /\ listed # {}
        /\ \A t \in listed : ~filterPermits(f, t.slug, t.name)

\* A row of the Entries list.
entryMark(e, kind, side, groupTarget, unmatched, overruled) ==
    IF entryProblem(e, kind, side, groupTarget) THEN "Cannot be saved"
    ELSE IF overruled THEN "Also denied"
    ELSE IF e \in unmatched THEN "Not advertised"
    ELSE IF kind = "prefix" THEN "Prefix"
    ELSE IF groupTarget /\ ~scoped(e) THEN "Any member"
    ELSE ""

\* A picker row's box: none for a name no entry can hold, ticked for a tool a
\* rule names, and disabled when it is another entry that names it.
RowBox(m, name, tools, prefixes, side, groupTarget) ==
    LET covered == coveringEntry(m.slug, name, tools, prefixes, side, groupTarget)
        entry == tickEntry(m.slug, name)
    IN  [shown |-> cleanEntry(entry), ticked |-> covered \/ entry \in tools,
         disabled |-> covered]

\* What the row shows: a tick, or the line that names the entry it is covered by.
ShownNamed(box) == box.disabled \/ (box.shown /\ box.ticked)

\* The line under a row with no box says that the tool stays blocked, unless a
\* rule reaches it.
unnameableRowNote(side, covered) == side = "allow" /\ ~covered
ShownBlocked(box, side) == ~box.shown /\ unnameableRowNote(side, box.disabled)

\* The line under a member that says the tools it left out stay blocked.  It is
\* there too for names discovery drops, which no rule decides: the proxy refuses
\* every call of one (models.UsableToolName).
UNLISTED_STAYS_BLOCKED(m, side) == side = "allow" /\ m.state = "ok" /\ m.truncated

----------------------------------------------------------------------------
(* rule-conflicts.ts: what one rule does to another.                       *)

\* The tool an allow entry names, as a set of at most one.
entryTool(e, targetSlug) ==
    LET slug == IF scoped(e) THEN e.head ELSE targetSlug
    IN  IF slug = "" \/ e.rest = <<>> THEN {} ELSE {[slug |-> slug, name |-> e.rest]}

deniedBy(slug, name, deny) == \E d \in deny : matchToolEntry(d, slug, name, FALSE)

allowEntryDeniedBy(e, deny, targetSlug) ==
    \E t \in entryTool(e, targetSlug) : deniedBy(t.slug, t.name, deny)

allowListAdmitsNothing(allow, deny, groupTarget, targetSlug) ==
    /\ allow # {}
    /\ \A e \in allow : \/ groupTarget /\ ~scoped(e)
                        \/ allowEntryDeniedBy(e, deny, targetSlug)

prefixMatches(prefix, c) ==
    {t \in Advertised(c) : /\ catalogueComplete(c)
                           /\ matchToolEntry(prefix, t.slug, t.name, TRUE)}

\* An unreadable filter stops every tool, no filter stops none.
groupBlocks(raw, slug, name) ==
    LET stored == parseToolFilter(raw)
    IN  CASE stored.kind = "unreadable" -> TRUE
          [] stored.kind = "none"       -> FALSE
          [] OTHER -> ~filterPermits(stored.form, slug, name)

\* The read-only block about a key's group is pink: the group blocks every
\* tool.  The server's verdict, where there is one, wins over the parse.
groupFilterSummary(raw, malformed) ==
    LET stored == parseToolFilter(raw)
    IN  malformed \/ stored.kind = "unreadable" \/ filterAdmitsNothing(stored.form)
=============================================================================
