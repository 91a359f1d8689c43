--------------------------- MODULE ToolCatalogue ---------------------------
(***************************************************************************)
(* A dialog's tool catalogue, on the Groups and the Virtual keys page:     *)
(* useCatalogue keeps it and discoverMembers fills it, at most two         *)
(* discoveries at a time.  `run` is the press under way in this dialog; a  *)
(* press of an earlier one holds another reset key and stands in nobody's  *)
(* way, so only its requests are left of it.                               *)
(***************************************************************************)
EXTENDS DashPage, ToolPolicy

CONSTANT Upstreams    \* every upstream: id, slug, enabled, kind and its tools

\* The id is the rows' primary key, the store gives every row a slug, and an
\* HTTP API has no tools.
ASSUME UpstreamRows ==
    \A u \in Upstreams : /\ u.slug # "" /\ (u.kind = "http" => u.tools = {})
                         /\ \A v \in Upstreams : u.id = v.id => u = v

PICKER_IN_FLIGHT == 2
Discoveries == {"discover"}

NoRun == [on |-> FALSE, queue |-> {}, limited |-> FALSE]
idleMember == [state |-> "idle", tools |-> {}, truncated |-> FALSE]
\* The tools these upstreams have, asked or not.
ToolsOf(ids) ==
    UNION {{[slug |-> u.slug, name |-> t] : t \in u.tools} : u \in {x \in Upstreams : x.id \in ids}}

EmptyCatalogue == [i \in {u.id : u \in Upstreams} |-> idleMember]

memberFromDiscovery(ans) ==
    IF ans.row.state = "failed" THEN [idleMember EXCEPT !.state = "failed"]
    ELSE [state |-> "ok", tools |-> ans.row.tools, truncated |-> ans.row.truncated]

\* The members with tools to load; an HTTP API has none.
members(ids) == {u \in ui.upstreams : u.id \in ids /\ u.kind # "http"}

\* What the catalogue says of these members, and of no others.
catalogue(ids) ==
    {[id |-> u.id, slug |-> u.slug, enabled |-> u.enabled,
      state |-> ui.byId[u.id].state, tools |-> ui.byId[u.id].tools,
      truncated |-> ui.byId[u.id].truncated] : u \in members(ids)}

\* Mutant: the last dialog's requests are left to land in this one.
ResetHalf(u, rs) ==
    [ui |-> [u EXCEPT !.byId = EmptyCatalogue, !.rateLimited = FALSE, !.run = NoRun,
                      !.pressed = {}],
     reqs |-> rs]

\* A new reset key drops everything and makes every answer in flight stale.
resetCatalogue(u, rs) ==
    [ui |-> [u EXCEPT !.byId = EmptyCatalogue, !.rateLimited = FALSE, !.run = NoRun,
                      !.pressed = {}],
     reqs |-> Bumped(rs, Discoveries)]

Started(u, ids) ==
    [u EXCEPT !.byId = [i \in DOMAIN @ |->
                          IF i \in ids THEN [idleMember EXCEPT !.state = "loading"]
                          ELSE @[i]],
              !.run.queue = @ \ ids]

Asking(i, rs) == With(rs, Request("discover", i, NoRow))

\* Two workers take the first members; a press during a run is dropped.
load(ids) ==
    /\ ~ui.run.on /\ Can("loads")
    /\ Cardinality(reqs) + PICKER_IN_FLIGHT <= MaxOut
    /\ \E a, b \in ids :
          /\ a = b => ids = {a}
          /\ Apply([ui |-> Spend(Started([ui EXCEPT !.rateLimited = FALSE,
                                   !.pressed = @ \cup ids,
                                   !.run = [on |-> TRUE, queue |-> ids, limited |-> FALSE]],
                                 {a, b}), "loads"),
                    reqs |-> IF a = b THEN Asking(a, reqs)
                             ELSE Asking(b, Asking(a, reqs))])

\* Both workers are done: the slot is free, and a refusal is said once.
Settled(u, out) ==
    IF out = {} /\ (u.run.limited \/ u.run.queue = {})
    THEN [u EXCEPT !.run = NoRun, !.rateLimited = u.run.limited] ELSE u

\* A worker's answer, and its next member.
LandDiscover(r) ==
    /\ r.kind = "discover" /\ r.st = "answered"
    /\ IF ~r.mine THEN Apply([ui |-> ui, reqs |-> reqs \ {r}])
       ELSE LET limited == r.ans.code = TooMany
                known == IF r.ans.ok THEN memberFromDiscovery(r.ans)
                         ELSE IF limited THEN idleMember
                         ELSE [idleMember EXCEPT !.state = "failed"]
                u == [ui EXCEPT !.byId[r.id] = known, !.run.limited = @ \/ limited]
                rest == reqs \ {r}
            IN  IF u.run.limited \/ u.run.queue = {}
                THEN Apply([ui |-> Settled(u, Mine(Discoveries) \ {r}), reqs |-> rest])
                ELSE \E i \in u.run.queue :
                        Apply([ui |-> Started(u, {i}), reqs |-> Asking(i, rest)])

\* The discover route: the member's tools, some of them, its failure, or a 429.
Discovered(r) ==
    LET u == CHOOSE x \in Upstreams : x.id = r.id
        said(state, tools, truncated) ==
           Ok([state |-> state, tools |-> tools, truncated |-> truncated, id |-> r.id], {})
    IN  [well |-> {said("ok", u.tools, FALSE)},
         badly |-> {said("ok", {t \in u.tools : Len(t) = 1}, TRUE),
                    said("failed", {}, FALSE), Err(TooMany), Err(Network)}]

ServeDiscover(r) ==
    /\ r.kind = "discover" /\ r.st = "sent" /\ UNCHANGED srv
    /\ \/ \E a \in Discovered(r).well : reqs' = Replied(r, a) /\ UNCHANGED ui
       \/ /\ Can("fails") /\ ui' = Spend(ui, "fails")
          /\ \E a \in Discovered(r).badly : reqs' = Replied(r, a)

----------------------------------------------------------------------------
(***************************************************************************)
(* A dialog's catalogue is filled by its own presses alone, two            *)
(* discoveries at a time and never the same member twice at once, and a    *)
(* press always ends: a member shows Loading exactly while its own request *)
(* is out, and the slot is held exactly that long (use-catalogue.ts:57-81).*)
(***************************************************************************)
CatalogueIsThisDialogs ==
    LET out == Mine(Discoveries)
        loading == {i \in DOMAIN ui.byId : ui.byId[i].state = "loading"}
    IN  ui.page \in {"groups", "keys"} =>
           /\ Cardinality(out) <= PICKER_IN_FLIGHT
           /\ loading = {r.id : r \in out} /\ Cardinality(out) = Cardinality(loading)
           /\ ui.run.on <=> out # {}
           /\ {i \in DOMAIN ui.byId : ui.byId[i] # idleMember} \subseteq ui.pressed
=============================================================================
