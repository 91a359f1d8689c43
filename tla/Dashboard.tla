----------------------------- MODULE Dashboard -----------------------------
(***************************************************************************)
(* The dashboard: one of its three administration pages is mounted, in one *)
(* of the situations its scenarios name.                                   *)
(***************************************************************************)
EXTENDS UpstreamsPage, GroupsPage, KeysPage

Init == \/ \E s \in UpScenarios : UpInit(s)
        \/ \E s \in GroupScenarios : GroupInit(s)
        \/ \E s \in KeyScenarios : KeyInit(s)

Next == \/ On /\ UpNext
        \/ OnGroups /\ GroupNext
        \/ OnKeys /\ KeyNext

Spec == Init /\ [][Next]_dashVars

----------------------------------------------------------------------------
(***************************************************************************)
(* No save drops another operator's rules without a word: a PATCH about to *)
(* replace a group's filter, or a key's list, other than the one its       *)
(* dialog was seeded with was overtaken after its fresh read, and rules    *)
(* that cannot be read, which refuse every call, are replaced only when    *)
(* the operator pressed Replace (groups/page.tsx:208-246,                  *)
(* virtual-keys/page.tsx:294-329).                                         *)
(***************************************************************************)
NoSilentOverwrite == (OnGroups => FilterKept) /\ (OnKeys => ListsKept)

(***************************************************************************)
(* The dialogs tell what the proxy would do and the API would take: the    *)
(* ticks, row notes, marks and lines that GroupRulesReadAlike and          *)
(* KeyRulesReadAlike compare agree with the rules as the server reads      *)
(* them, for tools that were never loaded too (policy.go:195-284,          *)
(* toolfilter.go).  Two sentences are known to overstate, and the formulas *)
(* name when: that a tool stays blocked, where the key's allow list is     *)
(* empty, and that a tool that is not listed does, where an entry reaches  *)
(* it (catalogue.ts:172,189).                                              *)
(***************************************************************************)
RulesReadAlike == (OnGroups => GroupRulesReadAlike) /\ (OnKeys => KeyRulesReadAlike)
=============================================================================
