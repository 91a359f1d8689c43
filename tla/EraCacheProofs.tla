--------------------------- MODULE EraCacheProofs ---------------------------
(***************************************************************************)
(* The era cache for any number of upstreams, requests and edits, and any  *)
(* lifetimes with eraRetry no longer than eraTTL: its bound, what a hit    *)
(* means, and the floor under the probes of a member.                      *)
(***************************************************************************)
EXTENDS EraCache, FiniteSetTheorems, TLAPS

\* put stamps an entry with the updated_at the probe was built from.
StampedAsProbed == \A i \in Ids : entries[i] # None => entries[i].of = entries[i].seen

\* While the floor of a probe lasts its entry is there and good, and no floor is
\* longer than eraRetry from now: so retrySoon cannot cut below it.
FloorHeld ==
    \A i \in Ids :
        /\ floor[i].until <= clock + Retry
        /\ clock < floor[i].until =>
             /\ entries[i] # None
             /\ entries[i].seen = floor[i].seen
             /\ floor[i].until <= entries[i].expires

IInv == TypeOK /\ StampedAsProbed /\ FloorHeld

HeldIds == {i \in Ids : entries[i] # None}

\* evictLocked leaves room for the entry that is put.
LEMMA PutRoom ==
    ASSUME TypeOK, NEW i \in Ids, NEW K \in Kept(i)
    PROVE  K \subseteq HeldIds /\ Cardinality(K \cup {i}) <= MaxEntries
<1> DEFINE live == {j \in HeldIds : Live(entries[j])}
<1>1. IsFiniteSet(HeldIds) /\ Cardinality(HeldIds) <= MaxEntries
  <2>1. HeldIds \subseteq Ids
    BY DEF HeldIds
  <2> QED
    BY <2>1, IdsAssumption, FS_Subset DEF TypeOK, HeldIds
<1>2. live \subseteq HeldIds /\ IsFiniteSet(live)
  BY <1>1, FS_Subset
<1>3. ASSUME NEW S, IsFiniteSet(S), Cardinality(S) < MaxEntries
      PROVE  Cardinality(S \cup {i}) <= MaxEntries
  <2>1. Cardinality(S) \in Nat /\ Cardinality(S \cup {i}) \in Nat
        /\ (Cardinality(S \cup {i}) = Cardinality(S) \/ Cardinality(S \cup {i}) = Cardinality(S) + 1)
    BY <1>3, FS_CardinalityType, FS_AddElement
  <2> QED
    BY <1>3, <2>1, SizeAssumption
<1>4. CASE i \in HeldIds
  <2>1. K = HeldIds
    BY <1>4 DEF Kept, HeldIds
  <2>2. K \cup {i} = HeldIds
    BY <1>4, <2>1
  <2> QED
    BY <1>1, <2>1, <2>2
<1>5. CASE i \notin HeldIds /\ Cardinality(live) < MaxEntries
  <2>1. K = live
    BY <1>5 DEF Kept, HeldIds
  <2> QED
    BY <1>2, <1>3, <1>5, <2>1
<1>6. CASE i \notin HeldIds /\ ~(Cardinality(live) < MaxEntries)
  <2>1. K \subseteq live /\ Cardinality(K) = MaxEntries - 1
    BY <1>6 DEF Kept, HeldIds
  <2>2. IsFiniteSet(K) /\ Cardinality(K) < MaxEntries
    BY <1>2, <2>1, FS_Subset, SizeAssumption
  <2> QED
    BY <1>2, <1>3, <2>1, <2>2
<1> QED
  BY <1>4, <1>5, <1>6

\* What put leaves: the parts of the invariant about the map and the floors.
LEMMA PutInv ==
    ASSUME IInv, NEW i \in Ids, NEW s \in Stamps, NEW fail \in BOOLEAN, NEW ttl \in {TTL, Retry},
           Put(i, [fail |-> fail, of |-> s, seen |-> s, expires |-> 0], ttl), clock' = clock
    PROVE  /\ entries' \in [Ids -> Verdict \cup {None}]
           /\ floor' \in [Ids -> [until : Times, seen : Stamps]]
           /\ Cardinality({j \in Ids : entries'[j] # None}) <= MaxEntries
           /\ StampedAsProbed' /\ FloorHeld'
<1> DEFINE v == [fail |-> fail, of |-> s, seen |-> s, expires |-> 0]
           e == [fail |-> fail, of |-> s, seen |-> s, expires |-> clock + ttl]
           f == [until |-> clock + Retry, seen |-> s]
<1>0. [v EXCEPT !.expires = clock + ttl] = e /\ v.seen = s
  OBVIOUS
<1>1. PICK K \in Kept(i) :
        /\ entries' = [j \in Ids |-> IF j = i THEN e ELSE IF j \in K THEN entries[j] ELSE None]
        /\ floor' = [j \in Ids |-> IF j = i THEN f
                                   ELSE IF j \in K THEN floor[j] ELSE [floor[j] EXCEPT !.until = 0]]
  BY <1>0 DEF Put
<1>2. TypeOK /\ clock \in 0..MaxClock /\ clock \in Nat
  BY BoundAssumption DEF IInv, TypeOK
<1>3. clock + ttl \in Times /\ clock + Retry \in Times /\ clock + Retry <= clock + ttl /\ 0 \in Times
  BY <1>2, LifeAssumption, BoundAssumption DEF Times
<1>4. e \in Verdict /\ f \in [until : Times, seen : Stamps]
  BY <1>3 DEF Verdict
<1>5. e # None /\ e.of = s /\ e.seen = s /\ e.expires = clock + ttl /\ f.until = clock + Retry /\ f.seen = s
  BY <1>4, NoneAssumption
<1> HIDE DEF e, f, v
<1>6. entries' \in [Ids -> Verdict \cup {None}]
  BY <1>1, <1>2, <1>4 DEF TypeOK
<1>7. \A j \in Ids : [floor[j] EXCEPT !.until = 0] \in [until : Times, seen : Stamps]
                     /\ [floor[j] EXCEPT !.until = 0].until = 0
  BY <1>2, <1>3 DEF TypeOK
<1>8. floor' \in [Ids -> [until : Times, seen : Stamps]]
  BY <1>1, <1>2, <1>4, <1>7 DEF TypeOK
<1>9. Cardinality({j \in Ids : entries'[j] # None}) <= MaxEntries
  <2>1. K \subseteq HeldIds /\ Cardinality(K \cup {i}) <= MaxEntries
    BY <1>2, PutRoom
  <2>2. {j \in Ids : entries'[j] # None} = K \cup {i}
    BY <1>1, <1>5, <2>1 DEF HeldIds
  <2> QED
    BY <2>1, <2>2
<1>10. StampedAsProbed'
  BY <1>1, <1>5 DEF IInv, StampedAsProbed
<1>11. FloorHeld'
  <2> SUFFICES ASSUME NEW j \in Ids
               PROVE  /\ floor'[j].until <= clock + Retry
                      /\ clock < floor'[j].until =>
                           /\ entries'[j] # None
                           /\ entries'[j].seen = floor'[j].seen
                           /\ floor'[j].until <= entries'[j].expires
    BY DEF FloorHeld
  <2>1. CASE j = i
    <3>1. entries'[j] = e /\ floor'[j] = f
      BY <1>1, <2>1
    <3> QED
      BY <1>2, <1>3, <1>5, <3>1, LifeAssumption
  <2>2. CASE j # i /\ j \in K
    <3>1. entries'[j] = entries[j] /\ floor'[j] = floor[j]
      BY <1>1, <2>2
    <3> QED
      BY <3>1 DEF IInv, FloorHeld
  <2>3. CASE j # i /\ j \notin K
    <3>1. floor'[j].until = 0
      BY <1>1, <1>7, <2>3
    <3> QED
      BY <1>2, <3>1, LifeAssumption
  <2> QED
    BY <2>1, <2>2, <2>3
<1> QED
  BY <1>6, <1>8, <1>9, <1>10, <1>11

\* The invariant holds in an empty cache.
LEMMA InitInv == Init => IInv
<1> SUFFICES ASSUME Init PROVE IInv
  OBVIOUS
<1>1. 1 \in Stamps /\ 0 \in Times /\ 0 \in 0..MaxClock
  BY LifeAssumption, BoundAssumption DEF Stamps, Times
<1>2. {i \in Ids : entries[i] # None} = {}
  BY DEF Init
<1>3. Cardinality({i \in Ids : entries[i] # None}) <= MaxEntries
  BY <1>2, FS_EmptySet, SizeAssumption
<1>4. floor \in [Ids -> [until : Times, seen : Stamps]]
  BY <1>1 DEF Init
<1>5. TypeOK
  BY <1>1, <1>3, <1>4 DEF Init, TypeOK, Caller
<1>6. StampedAsProbed /\ FloorHeld
  BY LifeAssumption DEF Init, StampedAsProbed, FloorHeld
<1> QED
  BY <1>5, <1>6 DEF IInv

\* A step that changes neither the map, the floors nor the clock.
LEMMA CallerStep ==
    ASSUME IInv, caller' \in [Callers -> Caller], stamp' \in [Ids -> Stamps],
           unlisted' \in [Ids -> BOOLEAN], UNCHANGED <<clock, entries, floor>>
    PROVE  IInv'
<1>1. TypeOK'
  BY DEF IInv, TypeOK
<1>2. StampedAsProbed' /\ FloorHeld'
  BY DEF IInv, StampedAsProbed, FloorHeld
<1> QED
  BY <1>1, <1>2 DEF IInv

\* What a caller's record is after a step to another pc.
LEMMA GotoType ==
    ASSUME TypeOK, NEW c \in Callers, caller[c] # Idle,
           NEW p \in {"peek", "lookup", "probe", "list", "retry", "routed"},
           Goto(c, p) \/ Finish(c)
    PROVE  caller' \in [Callers -> Caller]
<1>1. caller \in [Callers -> Caller] /\ Idle \in Caller
  BY DEF TypeOK, Caller
<1>2. caller[c] \in [pc : {"peek", "lookup", "probe", "list", "retry", "routed"},
                     kind : {"walk", "relay"}, id : Ids, seen : Stamps]
  BY <1>1 DEF Caller
<1>3. [caller[c] EXCEPT !.pc = p] \in Caller
  BY <1>2 DEF Caller
<1>4. CASE Goto(c, p)
  <2>1. caller' = [caller EXCEPT ![c] = [caller[c] EXCEPT !.pc = p]]
    BY <1>1, <1>4 DEF Goto
  <2> QED
    BY <1>1, <1>3, <2>1
<1>5. CASE Finish(c)
  BY <1>1, <1>5 DEF Finish
<1> QED
  BY <1>4, <1>5

\* A caller that is not idle holds an upstream and a stamp.
LEMMA Busy ==
    ASSUME TypeOK, NEW c \in Callers, caller[c].pc # "idle"
    PROVE  caller[c] # Idle /\ caller[c].id \in Ids /\ caller[c].seen \in Stamps
<1>1. caller[c] \in Caller
  BY DEF TypeOK
<1>2. caller[c] # Idle
  BY DEF Idle
<1> QED
  BY <1>1, <1>2 DEF Caller

\* Use leads to a caller's record too.
LEMMA UseType ==
    ASSUME TypeOK, NEW c \in Callers, caller[c] # Idle, NEW fail \in BOOLEAN, Use(c, fail)
    PROVE  caller' \in [Callers -> Caller]
<1>1. Finish(c) \/ Goto(c, "retry") \/ Goto(c, "list")
  BY DEF Use, Goto
<1> QED
  BY <1>1, GotoType

\* Every step keeps the invariant.
LEMMA NextInv == IInv /\ [Next]_vars => IInv'
<1> SUFFICES ASSUME IInv, [Next]_vars PROVE IInv'
  OBVIOUS
<1>0. TypeOK /\ stamp \in [Ids -> Stamps] /\ unlisted \in [Ids -> BOOLEAN]
      /\ caller \in [Callers -> Caller]
  BY DEF IInv, TypeOK
<1>1. CASE UNCHANGED vars
  <2>1. caller' = caller /\ stamp' = stamp /\ unlisted' = unlisted /\ UNCHANGED <<clock, entries, floor>>
    BY <1>1 DEF vars
  <2> QED
    BY <1>0, <2>1, CallerStep
<1>2. ASSUME NEW c \in Callers, Begin(c) PROVE IInv'
  <2>1. PICK i \in Ids, k \in {"walk", "relay"} :
          caller' = [caller EXCEPT ![c] = [pc |-> IF k = "walk" THEN "lookup" ELSE "peek",
                                           kind |-> k, id |-> i, seen |-> stamp[i]]]
    BY <1>2 DEF Begin
  <2>2. stamp[i] \in Stamps
    BY <1>0
  <2>3. [pc |-> IF k = "walk" THEN "lookup" ELSE "peek", kind |-> k, id |-> i, seen |-> stamp[i]] \in Caller
    BY <2>2 DEF Caller
  <2>4. caller' \in [Callers -> Caller]
    BY <1>0, <2>1, <2>3
  <2> QED
    BY <1>0, <1>2, <2>4, CallerStep DEF Begin
<1>3. ASSUME NEW c \in Callers, Peek(c) PROVE IInv'
  <2>1. caller[c] # Idle
    BY <1>0, <1>3, Busy DEF Peek
  <2>2. Finish(c) \/ Goto(c, "lookup")
    BY <1>3 DEF Peek
  <2>3. caller' \in [Callers -> Caller]
    BY <1>0, <2>1, <2>2, GotoType
  <2> QED
    BY <1>0, <1>3, <2>3, CallerStep DEF Peek
<1>4. ASSUME NEW c \in Callers, Lookup(c) PROVE IInv'
  <2>1. caller[c] # Idle /\ caller[c].id \in Ids
    BY <1>0, <1>4, Busy DEF Lookup
  <2>2. CASE Hit(caller[c].id, caller[c].seen)
    <3>1. entries[caller[c].id] \in Verdict
      BY <1>0, <2>1, <2>2 DEF Hit, TypeOK
    <3>2. entries[caller[c].id].fail \in BOOLEAN
      BY <3>1 DEF Verdict
    <3>3. Use(c, entries[caller[c].id].fail)
      BY <1>4, <2>2 DEF Lookup
    <3> QED
      BY <1>0, <1>4, <2>1, <3>2, <3>3, UseType, CallerStep DEF Lookup
  <2>3. CASE ~Hit(caller[c].id, caller[c].seen)
    <3>1. Goto(c, "probe")
      BY <1>4, <2>3 DEF Lookup
    <3>2. caller' \in [Callers -> Caller]
      BY <1>0, <2>1, <3>1, GotoType
    <3> QED
      BY <1>0, <1>4, <3>2, CallerStep DEF Lookup
  <2> QED
    BY <2>2, <2>3
<1>5. ASSUME NEW c \in Callers, Probed(c) PROVE IInv'
  <2>1. caller[c] # Idle /\ caller[c].id \in Ids /\ caller[c].seen \in Stamps
    BY <1>0, <1>5, Busy DEF Probed
  <2>2. PICK fail \in BOOLEAN, reached \in BOOLEAN : Remember(c, fail, reached) /\ Use(c, fail)
    BY <1>5 DEF Probed
  <2>3. PICK ttl \in {TTL, Retry} :
          Put(caller[c].id, [fail |-> fail, of |-> caller[c].seen, seen |-> caller[c].seen, expires |-> 0], ttl)
    BY <2>2 DEF Remember
  <2>4. clock' = clock /\ stamp' = stamp /\ unlisted' = unlisted
    BY <1>5 DEF Probed
  <2>5. caller' \in [Callers -> Caller]
    BY <1>0, <2>1, <2>2, UseType
  <2>6. /\ entries' \in [Ids -> Verdict \cup {None}]
        /\ floor' \in [Ids -> [until : Times, seen : Stamps]]
        /\ Cardinality({j \in Ids : entries'[j] # None}) <= MaxEntries
        /\ StampedAsProbed' /\ FloorHeld'
    BY <2>1, <2>3, <2>4, PutInv
  <2> QED
    BY <1>0, <2>4, <2>5, <2>6 DEF IInv, TypeOK
<1>6. ASSUME NEW c \in Callers, Abandoned(c) PROVE IInv'
  <2>1. caller[c] # Idle
    BY <1>0, <1>6, Busy DEF Abandoned
  <2>2. caller' \in [Callers -> Caller]
    BY <1>0, <1>6, <2>1, UseType DEF Abandoned
  <2> QED
    BY <1>0, <1>6, <2>2, CallerStep DEF Abandoned
<1>7. ASSUME NEW c \in Callers, Refused(c) PROVE IInv'
  <2>1. caller[c] # Idle
    BY <1>0, <1>7, Busy DEF Refused
  <2>2. caller' \in [Callers -> Caller]
    BY <1>0, <1>7, <2>1, UseType DEF Refused
  <2> QED
    BY <1>0, <1>7, <2>2, CallerStep DEF Refused
<1>8. ASSUME NEW c \in Callers, List(c) PROVE IInv'
  <2>1. caller[c] # Idle
    BY <1>0, <1>8, Busy DEF List
  <2>2. PICK ok \in BOOLEAN : /\ unlisted' = [unlisted EXCEPT ![caller[c].id] = ~ok]
                              /\ Goto(c, IF ok THEN "routed" ELSE "retry")
    BY <1>8 DEF List
  <2>3. unlisted' \in [Ids -> BOOLEAN]
    BY <1>0, <2>2
  <2>4. caller' \in [Callers -> Caller]
    BY <1>0, <2>1, <2>2, GotoType
  <2> QED
    BY <1>0, <1>8, <2>3, <2>4, CallerStep DEF List
<1>9. ASSUME NEW c \in Callers, RetrySoon(c) PROVE IInv'
  <2> DEFINE i == caller[c].id
             e == [entries[i] EXCEPT !.expires = clock + Retry]
  <2>1. caller[c] # Idle /\ i \in Ids
    BY <1>0, <1>9, Busy DEF RetrySoon
  <2>2. caller' \in [Callers -> Caller]
    BY <1>0, <1>9, <2>1, GotoType DEF RetrySoon
  <2>3. UNCHANGED <<clock, stamp, floor, unlisted>> /\ entries' = [entries EXCEPT ![i] = Shortened(i)]
    BY <1>9 DEF RetrySoon
  <2>4. CASE Shortened(i) = entries[i]
    <3>1. entries' = entries
      BY <1>0, <2>3, <2>4 DEF TypeOK
    <3> QED
      BY <1>0, <2>2, <2>3, <3>1, CallerStep
  <2>5. CASE Shortened(i) # entries[i]
    <3>1. entries[i] # None /\ clock + Retry < entries[i].expires /\ Shortened(i) = e
      BY <2>5 DEF Shortened
    <3>2. entries[i] \in Verdict /\ clock \in 0..MaxClock
      BY <1>0, <2>1, <3>1 DEF TypeOK
    <3>3. clock + Retry \in Times /\ clock \in Nat
      BY <3>2, LifeAssumption, BoundAssumption DEF Times
    <3>4. e \in Verdict /\ e.of = entries[i].of /\ e.seen = entries[i].seen /\ e.expires = clock + Retry
      BY <3>2, <3>3 DEF Verdict
    <3> HIDE DEF e
    <3>5. e # None
      BY <3>4, NoneAssumption
    <3>6. \A j \in Ids : entries'[j] = IF j = i THEN e ELSE entries[j]
      BY <1>0, <2>3, <3>1 DEF TypeOK
    <3>7. entries' \in [Ids -> Verdict \cup {None}]
      BY <1>0, <2>3, <3>1, <3>4 DEF TypeOK
    <3>8. {j \in Ids : entries'[j] # None} = {j \in Ids : entries[j] # None}
      BY <3>1, <3>5, <3>6
    <3>9. TypeOK'
      BY <1>0, <2>2, <2>3, <3>7, <3>8 DEF TypeOK
    <3>10. StampedAsProbed'
      BY <3>1, <3>4, <3>6 DEF IInv, StampedAsProbed
    <3>11. FloorHeld'
      BY <2>3, <3>1, <3>4, <3>5, <3>6 DEF IInv, FloorHeld
    <3> QED
      BY <3>9, <3>10, <3>11 DEF IInv
  <2> QED
    BY <2>4, <2>5
<1>10. ASSUME NEW c \in Callers, Routed(c) PROVE IInv'
  <2>1. caller[c] # Idle
    BY <1>0, <1>10, Busy DEF Routed
  <2>2. caller' \in [Callers -> Caller]
    BY <1>0, <1>10, <2>1, GotoType DEF Routed
  <2> QED
    BY <1>0, <1>10, <2>2, CallerStep DEF Routed
<1>11. ASSUME NEW i \in Ids, Edit(i) PROVE IInv'
  <2>1. stamp' \in [Ids -> Stamps]
    BY <1>0, <1>11, BoundAssumption DEF Edit, Stamps
  <2> QED
    BY <1>0, <1>11, <2>1, CallerStep DEF Edit
<1>12. CASE Tick
  <2>1. clock \in 0..MaxClock /\ clock' = clock + 1 /\ clock < MaxClock
        /\ UNCHANGED <<stamp, entries, caller, floor, unlisted>>
    BY <1>0, <1>12 DEF Tick, TypeOK
  <2>2. clock' \in 0..MaxClock
    BY <2>1, BoundAssumption
  <2>3. TypeOK'
    BY <1>0, <2>1, <2>2 DEF TypeOK
  <2>4. \A j \in Ids : floor[j].until \in Nat
    BY <1>0, LifeAssumption, BoundAssumption DEF TypeOK, Times
  <2>5. FloorHeld'
    BY <2>1, <2>4, LifeAssumption, BoundAssumption DEF IInv, FloorHeld
  <2>6. StampedAsProbed'
    BY <2>1 DEF IInv, StampedAsProbed
  <2> QED
    BY <2>3, <2>5, <2>6 DEF IInv
<1> QED
  BY <1>1, <1>2, <1>3, <1>4, <1>5, <1>6, <1>7, <1>8, <1>9, <1>10, <1>11, <1>12 DEF Next

\* The invariant of every behaviour.
LEMMA Invariance == Spec => []IInv
BY InitInv, NextInv, PTL DEF Spec

\* The cache never holds more than maxEraEntries entries, whatever order the
\* callers put them in, and every variable keeps its type.
THEOREM CacheBounded == Spec => []TypeOK
<1>1. IInv => TypeOK
  BY DEF IInv
<1> QED
  BY <1>1, Invariance, PTL

\* A verdict get returns was learned from the row its caller holds.
THEOREM HitIsOfThisRow == Spec => []VerdictOfThisRow
<1>1. IInv => VerdictOfThisRow
  <2> SUFFICES ASSUME IInv, NEW c \in Callers, caller[c].pc \in {"peek", "lookup", "routed"},
                      Hit(caller[c].id, caller[c].seen)
               PROVE  entries[caller[c].id].of = caller[c].seen
    BY DEF VerdictOfThisRow
  <2>1. caller[c].id \in Ids
    BY Busy DEF IInv
  <2> QED
    BY <2>1 DEF IInv, StampedAsProbed, Hit
<1> QED
  BY <1>1, Invariance, PTL

\* Failed listings never bring two remembered probes of one row closer than
\* eraRetry: memberEra misses only when the floor of the last one is over.
THEOREM ProbesKeepTheirFloor == Spec => ProbeFloor
<1> DEFINE Kept1 == \A c \in Callers :
              LET a == caller[c] IN
              a.pc = "lookup" /\ caller'[c].pc = "probe" =>
                  ~(floor[a.id].seen = a.seen /\ clock < floor[a.id].until)
<1>1. IInv /\ [Next]_vars => [Kept1]_vars
  <2> SUFFICES ASSUME IInv, Next, NEW c \in Callers,
                      caller[c].pc = "lookup", caller'[c].pc = "probe",
                      floor[caller[c].id].seen = caller[c].seen, clock < floor[caller[c].id].until
               PROVE  FALSE
    BY DEF vars
  <2> DEFINE a == caller[c]
  <2>0. caller \in [Callers -> Caller] /\ a.id \in Ids
    BY Busy DEF IInv, TypeOK
  <2>1. Hit(a.id, a.seen)
    <3>1. floor[a.id].until \in Nat /\ clock \in Nat
      BY <2>0, LifeAssumption, BoundAssumption DEF IInv, TypeOK, Times
    <3>2. entries[a.id] # None /\ entries[a.id].seen = a.seen
          /\ floor[a.id].until <= entries[a.id].expires
      BY <2>0 DEF IInv, FloorHeld
    <3>3. entries[a.id].expires \in Nat
      BY <2>0, <3>2, LifeAssumption, BoundAssumption DEF IInv, TypeOK, Verdict, Times
    <3> QED
      BY <3>1, <3>2, <3>3 DEF Hit, Live
  <2>2. ASSUME NEW d \in Callers, d # c,
               \/ Begin(d) \/ Refused(d) \/ Peek(d) \/ Lookup(d) \/ Probed(d)
               \/ Abandoned(d) \/ List(d) \/ RetrySoon(d) \/ Routed(d)
        PROVE  caller'[c] = caller[c]
    BY <2>0, <2>2 DEF Begin, Refused, Peek, Lookup, Probed, Abandoned, List, RetrySoon, Routed, Use, Goto, Finish
  <2>3. ASSUME Begin(c) \/ Peek(c) \/ Probed(c) \/ Abandoned(c) \/ List(c) \/ RetrySoon(c) \/ Routed(c)
        PROVE  FALSE
    BY <2>3 DEF Begin, Idle, Peek, Probed, Abandoned, List, RetrySoon, Routed
  <2>4. ASSUME (\E i \in Ids : Edit(i)) \/ Tick PROVE FALSE
    BY <2>4 DEF Edit, Tick
  <2>5. ASSUME NEW fail, Use(c, fail) PROVE FALSE
    <3>1. CASE Finish(c)
      BY <2>0, <3>1 DEF Finish, Idle
    <3>2. CASE \E p \in {"retry", "list"} : Goto(c, p)
      <4>1. PICK p \in {"retry", "list"} : caller' = [caller EXCEPT ![c].pc = p]
        BY <3>2 DEF Goto
      <4>2. caller[c] \in [pc : {"peek", "lookup", "probe", "list", "retry", "routed"},
                           kind : {"walk", "relay"}, id : Ids, seen : Stamps]
        BY <2>0, Busy DEF IInv, Caller
      <4>3. caller'[c].pc = p
        BY <2>0, <4>1, <4>2
      <4> QED
        BY <4>1, <4>3
    <3> QED
      BY <2>5, <3>1, <3>2 DEF Use, Goto
  <2>6. CASE Lookup(c)
    BY <2>1, <2>5, <2>6 DEF Lookup
  <2>7. CASE Refused(c)
    BY <2>5, <2>7 DEF Refused
  <2> QED
    BY <2>2, <2>3, <2>4, <2>6, <2>7 DEF Next
<1> QED
  BY <1>1, Invariance, PTL DEF Spec, ProbeFloor
=============================================================================
