------------------------------ MODULE EraCache ------------------------------
(***************************************************************************)
(* The era cache of the group endpoint (internal/proxy/eracache.go) and its *)
(* callers: the catalogue walk (memberCatalogues, listTools), which lists a *)
(* member after it learned its era, the routed call that follows a walk,    *)
(* and the relay of any other method to the first member (serve), which     *)
(* lists nothing. get, the probe and put are separate steps; operators edit *)
(* the rows meanwhile.                                                      *)
(***************************************************************************)
EXTENDS Naturals, FiniteSets

CONSTANTS
    Ids,            \* upstreams
    Callers,        \* requests on the group endpoint
    None,           \* no entry
    TTL,            \* eraTTL, in ticks
    Retry,          \* eraRetry, in ticks
    MaxEntries,     \* maxEraEntries
    MaxClock,       \* bound on the clock
    MaxStamp        \* bound on the edits of a row

ASSUME LifeAssumption == TTL \in Nat /\ Retry \in Nat \ {0} /\ Retry <= TTL
ASSUME SizeAssumption == MaxEntries \in Nat \ {0}
ASSUME BoundAssumption == MaxClock \in Nat /\ MaxStamp \in Nat \ {0}

Stamps == 1..MaxStamp
Times == 0..(MaxClock + TTL)

\* An entry. of is the updated_at of the row the probe was built from, seen the
\* one put stamped it with.
Verdict == [fail : BOOLEAN, of : Stamps, seen : Stamps, expires : Times]

ASSUME IdsAssumption == IsFiniteSet(Ids)
ASSUME NoneAssumption == None \notin Verdict

VARIABLES
    clock,
    stamp,      \* per upstream: updated_at of its row
    entries,    \* c.entries
    caller,     \* per caller: the request and where it is
    floor,      \* per upstream: the last probe remembered, and how long it must do
    unlisted    \* per upstream: its last listing failed

vars == <<clock, stamp, entries, caller, floor, unlisted>>

Idle == [pc |-> "idle", kind |-> "walk", id |-> None, seen |-> 1]
Caller == [pc : {"peek", "lookup", "probe", "list", "retry", "routed"},
           kind : {"walk", "relay"}, id : Ids, seen : Stamps] \cup {Idle}

\* Every variable keeps its type, and the map never passes its bound.
TypeOK ==
    /\ clock \in 0..MaxClock
    /\ stamp \in [Ids -> Stamps]
    /\ entries \in [Ids -> Verdict \cup {None}]
    /\ caller \in [Callers -> Caller]
    /\ floor \in [Ids -> [until : Times, seen : Stamps]]
    /\ unlisted \in [Ids -> BOOLEAN]
    /\ Cardinality({i \in Ids : entries[i] # None}) <= MaxEntries

Init ==
    /\ clock = 0
    /\ stamp = [i \in Ids |-> 1]
    /\ entries = [i \in Ids |-> None]
    /\ caller = [c \in Callers |-> Idle]
    /\ floor = [i \in Ids |-> [until |-> 0, seen |-> 1]]
    /\ unlisted = [i \in Ids |-> FALSE]

-----------------------------------------------------------------------------
(* The cache. *)

Live(v) == clock < v.expires

\* get: the verdict of this row, not expired.
Hit(i, s) == /\ entries[i] # None
             /\ entries[i].seen = s
             /\ Live(entries[i])

\* Mutant: only expired entries make room.
KeptExpired(i) ==
    {IF entries[i] # None THEN {j \in Ids : entries[j] # None}
     ELSE {j \in Ids : entries[j] # None /\ Live(entries[j])}}

\* evictLocked, when put inserts: the expired go, then, while the map is full,
\* the one that expires soonest (any, among equals). The sets of ids that may
\* be left.
Kept(i) ==
    LET held == {j \in Ids : entries[j] # None}
        live == {j \in held : Live(entries[j])}
    IN  IF i \in held THEN {held}
        ELSE IF Cardinality(live) < MaxEntries THEN {live}
        ELSE {K \in SUBSET live :
                /\ Cardinality(K) = MaxEntries - 1
                /\ \A j \in live \ K, k \in K : entries[j].expires <= entries[k].expires}

\* put, the only inserter; it stamps the expiry itself.
Put(i, v, ttl) ==
    \E K \in Kept(i) :
        /\ entries' = [j \in Ids |->
                         IF j = i THEN [v EXCEPT !.expires = clock + ttl]
                         ELSE IF j \in K THEN entries[j] ELSE None]
        /\ floor' = [j \in Ids |->
                       IF j = i THEN [until |-> clock + Retry, seen |-> v.seen]
                       ELSE IF j \in K THEN floor[j] ELSE [floor[j] EXCEPT !.until = 0]]

\* Mutant: a listing that failed evicts.
ShortenedEvict(i) == None

\* retrySoon: the expiry comes forward to the floor, never back.
Shortened(i) ==
    IF entries[i] # None /\ clock + Retry < entries[i].expires
    THEN [entries[i] EXCEPT !.expires = clock + Retry]
    ELSE entries[i]

-----------------------------------------------------------------------------
(* The callers. *)

Goto(c, pc) == caller' = [caller EXCEPT ![c].pc = pc]
Finish(c) == caller' = [caller EXCEPT ![c] = Idle]

\* What a caller does with a verdict. A walk lists the member, unless it cannot
\* be spoken to, which is a listing that failed.
Use(c, fail) ==
    IF caller[c].kind = "relay" THEN Finish(c)
    ELSE Goto(c, IF fail THEN "retry" ELSE "list")

\* The row is read (resolveTargets), for a walk or for a relay.
Begin(c) ==
    /\ caller[c] = Idle
    /\ \E i \in Ids, k \in {"walk", "relay"} :
         caller' = [caller EXCEPT ![c] = [pc |-> IF k = "walk" THEN "lookup" ELSE "peek",
                                          kind |-> k, id |-> i, seen |-> stamp[i]]]
    /\ UNCHANGED <<clock, stamp, entries, floor, unlisted>>

\* A transport the proxy cannot dial, or a credential it cannot present: the
\* member is not asked, which is a listing that failed too.
Refused(c) ==
    /\ caller[c].pc = IF caller[c].kind = "walk" THEN "lookup" ELSE "peek"
    /\ Use(c, TRUE)
    /\ UNCHANGED <<clock, stamp, entries, floor, unlisted>>

\* serve's own get, before memberEra.
Peek(c) ==
    LET a == caller[c] IN
    /\ a.pc = "peek"
    /\ IF Hit(a.id, a.seen) THEN Finish(c) ELSE Goto(c, "lookup")
    /\ UNCHANGED <<clock, stamp, entries, floor, unlisted>>

\* memberEra's get.
Lookup(c) ==
    LET a == caller[c] IN
    /\ a.pc = "lookup"
    /\ IF Hit(a.id, a.seen) THEN Use(c, entries[a.id].fail) ELSE Goto(c, "probe")
    /\ UNCHANGED <<clock, stamp, entries, floor, unlisted>>

\* Mutant: the entry is stamped with the row as it is now.
RememberLate(c, fail, reached) ==
    LET a == caller[c] IN
    Put(a.id, [fail |-> fail, of |-> a.seen, seen |-> stamp[a.id], expires |-> 0],
        IF fail \/ ~reached THEN Retry ELSE TTL)

\* memberEra's put.
Remember(c, fail, reached) ==
    LET a == caller[c] IN
    Put(a.id, [fail |-> fail, of |-> a.seen, seen |-> a.seen, expires |-> 0],
        IF fail \/ ~reached THEN Retry ELSE TTL)

\* ProbeEra returns: an answer, a modern server that cannot be spoken to, or
\* silence.
Probed(c) ==
    /\ caller[c].pc = "probe"
    /\ \E fail, reached \in BOOLEAN :
         /\ fail => reached
         /\ Remember(c, fail, reached)
         /\ Use(c, fail)
    /\ UNCHANGED <<clock, stamp, unlisted>>

\* The client went away and took the probe with it: nothing is remembered, and
\* the walk's listing fails too.
Abandoned(c) ==
    /\ caller[c].pc = "probe"
    /\ Use(c, TRUE)
    /\ UNCHANGED <<clock, stamp, entries, floor, unlisted>>

\* The walk's tools/list, and whether its answer parses.
List(c) ==
    /\ caller[c].pc = "list"
    /\ \E ok \in BOOLEAN :
         /\ unlisted' = [unlisted EXCEPT ![caller[c].id] = ~ok]
         /\ Goto(c, IF ok THEN "routed" ELSE "retry")
    /\ UNCHANGED <<clock, stamp, entries, floor>>

\* memberCatalogues: any failure to list.
RetrySoon(c) ==
    /\ caller[c].pc = "retry"
    /\ entries' = [entries EXCEPT ![caller[c].id] = Shortened(caller[c].id)]
    /\ Finish(c)
    /\ UNCHANGED <<clock, stamp, floor, unlisted>>

\* A tools/call routed to the member reads the cache and never probes.
Routed(c) ==
    /\ caller[c].pc = "routed"
    /\ Finish(c)
    /\ UNCHANGED <<clock, stamp, entries, floor, unlisted>>

\* PATCH: every save moves updated_at.
Edit(i) ==
    /\ stamp[i] < MaxStamp
    /\ stamp' = [stamp EXCEPT ![i] = @ + 1]
    /\ UNCHANGED <<clock, entries, caller, floor, unlisted>>

Tick ==
    /\ clock < MaxClock
    /\ clock' = clock + 1
    /\ UNCHANGED <<stamp, entries, caller, floor, unlisted>>

Next ==
    \/ \E c \in Callers : \/ Begin(c) \/ Refused(c) \/ Peek(c) \/ Lookup(c) \/ Probed(c)
                          \/ Abandoned(c) \/ List(c) \/ RetrySoon(c) \/ Routed(c)
    \/ \E i \in Ids : Edit(i)
    \/ Tick

Spec == Init /\ [][Next]_vars

-----------------------------------------------------------------------------
(* Properties. *)

\* The verdict a request is about to act on was learned from the row that request holds:
\* a probe that races an edit stores a verdict the edited row never matches.
VerdictOfThisRow ==
    \A c \in Callers :
        LET a == caller[c] IN
        a.pc \in {"peek", "lookup", "routed"} /\ Hit(a.id, a.seen) => entries[a.id].of = a.seen

\* A member is probed again for the same row only after eraRetry, unless its
\* entry was pushed out: a listing that fails shortens the entry and never
\* removes it, so a member that is broken for good is not sent a probe with
\* every request.
ProbeFloor ==
    [][\A c \in Callers :
          LET a == caller[c] IN
          a.pc = "lookup" /\ caller'[c].pc = "probe" =>
              ~(floor[a.id].seen = a.seen /\ clock < floor[a.id].until)]_vars

\* What the comment on retrySoon says of two calls that race: an entry that a
\* late put made long again belongs to a caller whose own listing is still to
\* come, and corrects it ("every put is followed by that caller's own listing").
LatePutCorrected ==
    \A i \in Ids :
        entries[i] # None /\ entries[i].expires > clock + Retry /\ unlisted[i] =>
            \E c \in Callers : caller[c].id = i /\ caller[c].pc \in {"list", "retry"}
=============================================================================
