------------------------- MODULE StreamRecheckProofs -------------------------
(***************************************************************************)
(* What the re-check of an open stream guarantees for any number of edits, *)
(* refreshes and rekeys: the baseline it adopts at each check never drifts *)
(* from the upstream the stream was opened against, and it ends a stream   *)
(* as changed only for a change.                                           *)
(***************************************************************************)
EXTENDS StreamRecheck, TLAPS

\* Every write an operator makes moves updated_at, so two rows with one stamp
\* hold one credential under one URL: this is what a refresh relies on.
StampTells ==
    /\ base.stamp <= up.stamp
    /\ base.stamp = up.stamp => SameUpstream(base, up)

\* What since leaves out did not happen to the row.
SinceTells ==
    "edit" \notin since =>
        /\ SameUpstream(base, up)
        /\ "save" \notin since => base.stamp = up.stamp
        /\ since \cap {"refresh", "rekey"} = {} => base.blob = up.blob
        /\ up.type = "static" => "refresh" \notin since

IInv == TypeOK /\ BaselineNeverDrifts /\ StampTells /\ SinceTells

\* The blobs the model builds are blobs.
LEMMA Blobs == /\ NoBlob \in Blob /\ FirstBlob \in Blob
               /\ NoBlob.sign = 0 /\ NoBlob.seal = 0
BY StampAssumption DEF NoBlob, FirstBlob, Blob

\* What EXCEPT on a row changes, and what it leaves.
LEMMA RowFields ==
    ASSUME NEW r \in Row, NEW b \in Blob, NEW s \in 1..MaxStamp
    PROVE  /\ [r EXCEPT !.blob = b] \in Row
           /\ [r EXCEPT !.stamp = s] \in Row
           /\ [r EXCEPT !.stamp = s].stamp = s
           /\ [r EXCEPT !.stamp = s].url = r.url
           /\ [r EXCEPT !.stamp = s].type = r.type
           /\ [r EXCEPT !.stamp = s].blob = r.blob
           /\ [r EXCEPT !.stamp = s].there = r.there
BY DEF Row

\* The same for a blob that is sealed again.
LEMMA BlobFields ==
    ASSUME NEW c \in Blob, NEW s \in 0..MaxSeal, NEW r \in 0..MaxSeal, NEW o \in BOOLEAN
    PROVE  /\ [c EXCEPT !.seal = s, !.rot = r] \in Blob
           /\ [c EXCEPT !.seal = s, !.rot = r].sign = c.sign
           /\ [c EXCEPT !.seal = s, !.opens = o] \in Blob
           /\ [c EXCEPT !.seal = s, !.opens = o].sign = c.sign
BY DEF Blob

\* A stream that has just opened satisfies the invariant.
LEMMA InitInv == Init => IInv
<1> SUFFICES ASSUME Init PROVE IInv
  OBVIOUS
<1>1. PICK u \in Urls, t \in {"oauth", "static"}, b \in {FirstBlob, NoBlob} :
        up = [there |-> TRUE, enabled |-> TRUE, url |-> u, type |-> t, stamp |-> 1, blob |-> b]
  BY DEF Init
<1>2. up \in Row
  BY <1>1, Blobs, StampAssumption DEF Row
<1>3. opened = up /\ base = up /\ since = {} /\ key = TRUE /\ member = TRUE
      /\ pc = "wait" /\ cause = "none"
  BY DEF Init
<1>4. TypeOK
  BY <1>2, <1>3 DEF TypeOK, Events
<1>5. up.stamp \in Nat
  BY <1>1
<1> QED
  BY <1>3, <1>4, <1>5 DEF IInv, BaselineNeverDrifts, StampTells, SinceTells, SameUpstream

\* An operator's write: the stamp moves, and unless it is an edit of what the
\* stream depends on, the row stays the same upstream with the same bytes.
LEMMA SaveInv ==
    ASSUME IInv, NEW row \in Row, NEW event \in {"edit", "save"}, Save(row, event),
           event = "save" => row.url = up.url /\ row.type = up.type /\ row.blob = up.blob
    PROVE  IInv'
<1> DEFINE s == up.stamp + 1
<1>0. up \in Row /\ base \in Row /\ opened \in Row /\ since \subseteq Events
  BY DEF IInv, TypeOK
<1>1. s \in 1..MaxStamp /\ up.stamp \in Nat /\ base.stamp \in Nat
  BY <1>0, StampAssumption DEF Save, Row
<1>2. up' = [row EXCEPT !.stamp = s] /\ since' = since \cup {event}
      /\ UNCHANGED <<key, member, opened, base, pc, cause>>
  BY DEF Save
<1>3. /\ up' \in Row /\ up'.stamp = s /\ up'.url = row.url /\ up'.type = row.type
      /\ up'.blob = row.blob
  BY <1>0, <1>1, <1>2, RowFields DEF Row
<1>4. TypeOK'
  BY <1>0, <1>2, <1>3 DEF IInv, TypeOK, Events
<1>5. base.stamp <= up.stamp
  BY DEF IInv, StampTells
<1>6. StampTells'
  BY <1>1, <1>2, <1>3, <1>5 DEF StampTells
<1>7. SinceTells'
  <2> SUFFICES ASSUME "edit" \notin since' PROVE
        /\ SameUpstream(base, up)'
        /\ "save" \in since'
        /\ since' \cap {"refresh", "rekey"} = {} => base'.blob = up'.blob
        /\ up'.type = "static" => "refresh" \notin since'
    BY DEF SinceTells
  <2>1. "edit" \notin since /\ event = "save" /\ "save" \in since'
    BY <1>2
  <2>2. up'.url = up.url /\ up'.type = up.type /\ up'.blob = up.blob
    BY <1>3, <2>1
  <2>3. SameUpstream(base, up)'
    BY <1>2, <2>1, <2>2 DEF IInv, SinceTells, SameUpstream
  <2>4. since' \cap {"refresh", "rekey"} = {} => base'.blob = up'.blob
    BY <1>2, <2>1, <2>2 DEF IInv, SinceTells
  <2>5. up'.type = "static" => "refresh" \notin since'
    BY <1>2, <2>1, <2>2 DEF IInv, SinceTells
  <2> QED
    BY <2>1, <2>3, <2>4, <2>5
<1>8. BaselineNeverDrifts'
  BY <1>2 DEF IInv, BaselineNeverDrifts, SameUpstream
<1> QED
  BY <1>4, <1>6, <1>7, <1>8 DEF IInv

\* A write that leaves updated_at alone, and the sign-in with it.
LEMMA ResealInv ==
    ASSUME IInv, NEW b \in Blob, b.sign = up.blob.sign,
           NEW event \in {"refresh", "rekey"}, event = "refresh" => up.type = "oauth",
           up' = [up EXCEPT !.blob = b], since' = since \cup {event},
           UNCHANGED <<key, member, opened, base, pc, cause>>
    PROVE  IInv'
<1>0. up \in Row /\ base \in Row /\ since \subseteq Events
  BY DEF IInv, TypeOK
<1>1. /\ up' \in Row /\ up'.stamp = up.stamp /\ up'.url = up.url /\ up'.type = up.type
      /\ up'.blob = b
  BY <1>0 DEF Row
<1>2. TypeOK'
  BY <1>0, <1>1 DEF IInv, TypeOK, Events
<1>3. StampTells'
  BY <1>1 DEF IInv, StampTells, SameUpstream
<1>4. SinceTells'
  <2> SUFFICES ASSUME "edit" \notin since' PROVE
        /\ SameUpstream(base, up)'
        /\ "save" \notin since' => base'.stamp = up'.stamp
        /\ up'.type = "static" => "refresh" \notin since'
    BY DEF SinceTells
  <2>1. "edit" \notin since
    OBVIOUS
  <2> QED
    BY <1>1, <2>1 DEF IInv, SinceTells, SameUpstream
<1>5. BaselineNeverDrifts'
  BY DEF IInv, BaselineNeverDrifts, SameUpstream
<1> QED
  BY <1>2, <1>3, <1>4, <1>5 DEF IInv

\* A row found unchanged is the upstream the baseline is.
LEMMA UnchangedIsSame ==
    ASSUME IInv, ~UpstreamChanged(base, up)
    PROVE  SameUpstream(base, up)
<1>1. base.url = up.url /\ base.type = up.type
  BY DEF UpstreamChanged
<1>2. CASE base.blob = up.blob
  BY <1>1, <1>2 DEF SameUpstream
<1>3. CASE base.blob # up.blob /\ base.stamp = up.stamp
  BY <1>3 DEF IInv, StampTells
<1>4. CASE base.blob # up.blob /\ base.stamp # up.stamp
  <2>1. SameGrant(base.blob, up.blob)
    BY <1>4 DEF UpstreamChanged
  <2> QED
    BY <1>1, <2>1 DEF SameGrant, SameUpstream
<1> QED
  BY <1>2, <1>3, <1>4

\* Every write of the rows and every step of the re-check keeps the invariant.
LEMMA NextInv == IInv /\ [Next]_vars => IInv'
<1> SUFFICES ASSUME IInv, [Next]_vars PROVE IInv'
  OBVIOUS
<1>0. up \in Row /\ base \in Row /\ opened \in Row /\ up.blob \in Blob /\ up.stamp \in 1..MaxStamp
  BY DEF IInv, TypeOK, Row
<1>1. ASSUME UNCHANGED vars PROVE IInv'
  BY <1>1 DEF vars, IInv, TypeOK, BaselineNeverDrifts, StampTells, SinceTells, SameUpstream
<1>2. ASSUME EditKey \/ EditGroup PROVE IInv'
  BY <1>2 DEF EditKey, EditGroup, IInv, TypeOK, BaselineNeverDrifts, StampTells, SinceTells, SameUpstream
<1>3. ASSUME Rename PROVE IInv'
  BY <1>0, <1>3, SaveInv DEF Rename
<1>4. ASSUME Enable PROVE IInv'
  <2>1. PICK e \in BOOLEAN : Save([up EXCEPT !.enabled = e], "save")
    BY <1>4 DEF Enable
  <2> DEFINE r == [up EXCEPT !.enabled = e]
  <2>2. r \in Row /\ r.url = up.url /\ r.type = up.type /\ r.blob = up.blob
    BY <1>0 DEF Row
  <2> HIDE DEF r
  <2>3. Save(r, "save")
    BY <2>1 DEF r
  <2> QED
    BY <2>2, <2>3, SaveInv
<1>5. ASSUME EditUrl PROVE IInv'
  <2>1. PICK u \in Urls \ {up.url} :
          Save([up EXCEPT !.url = u, !.blob = IF up.type = "oauth" THEN NoBlob ELSE @], "edit")
    BY <1>5 DEF EditUrl
  <2>2. [up EXCEPT !.url = u, !.blob = IF up.type = "oauth" THEN NoBlob ELSE @] \in Row
    BY <1>0, Blobs DEF Row
  <2> QED
    BY <2>1, <2>2, SaveInv
<1>6. ASSUME NewCredential PROVE IInv'
  <2>1. up.stamp < MaxStamp /\ up.blob.seal < MaxSeal /\ Save([up EXCEPT !.blob = Fresh], "edit")
    BY <1>6 DEF NewCredential, Save
  <2>2. Fresh \in Blob
    BY <1>0, <2>1, StampAssumption DEF Fresh, Blob
  <2>3. [up EXCEPT !.blob = Fresh] \in Row
    BY <1>0, <2>2 DEF Row
  <2> QED
    BY <2>1, <2>3, SaveInv
<1>7. ASSUME ClearCredential PROVE IInv'
  <2>1. [up EXCEPT !.blob = NoBlob] \in Row
    BY <1>0, Blobs DEF Row
  <2> QED
    BY <1>7, <2>1, SaveInv DEF ClearCredential
<1>8. ASSUME EditType PROVE IInv'
  <2>1. PICK t \in {"oauth", "static"} \ {up.type}, b \in {NoBlob, Fresh} :
          b.seal <= MaxSeal /\ Save([up EXCEPT !.type = t, !.blob = b], "edit")
    BY <1>8 DEF EditType
  <2>2. up.stamp < MaxStamp
    BY <2>1 DEF Save
  <2>3. b \in Blob
    <3>1. CASE b = NoBlob
      BY <3>1, Blobs
    <3>2. CASE b = Fresh
      <4>1. up.blob.seal + 1 <= MaxSeal
        BY <2>1, <3>2 DEF Fresh
      <4> QED
        BY <1>0, <2>2, <3>2, <4>1, StampAssumption DEF Fresh, Blob
    <3> QED
      BY <2>1, <3>1, <3>2
  <2>4. [up EXCEPT !.type = t, !.blob = b] \in Row
    BY <1>0, <2>3 DEF Row
  <2> QED
    BY <2>1, <2>4, SaveInv
<1>9. ASSUME Delete PROVE IInv'
  <2>1. /\ up' \in Row /\ up'.stamp = up.stamp /\ up'.url = up.url /\ up'.type = up.type
        /\ up'.blob = up.blob
    BY <1>0, <1>9 DEF Delete, Row
  <2> QED
    BY <1>9, <2>1 DEF Delete, IInv, TypeOK, BaselineNeverDrifts, StampTells, SinceTells, SameUpstream
<1>10. ASSUME Refresh PROVE IInv'
  <2>1. PICK r \in {up.blob.rot, up.blob.rot + 1} :
          r <= MaxSeal /\ up' = [up EXCEPT !.blob.seal = @ + 1, !.blob.rot = r]
    BY <1>10 DEF Refresh
  <2> DEFINE b == [up.blob EXCEPT !.seal = @ + 1, !.rot = r]
  <2>2. r \in Nat /\ r \in 0..MaxSeal
    BY <1>0, <2>1, StampAssumption DEF Blob
  <2>s. up.blob.seal + 1 \in 0..MaxSeal
    BY <1>0, <1>10, StampAssumption DEF Refresh, Blob
  <2>3. b \in Blob /\ b.sign = up.blob.sign
    BY <1>0, <2>2, <2>s, BlobFields
  <2>4. up' = [up EXCEPT !.blob = b]
    BY <1>0, <2>1 DEF Row, Blob
  <2> HIDE DEF b
  <2>5. /\ up.type = "oauth" /\ since' = since \cup {"refresh"}
        /\ UNCHANGED <<key, member, opened, base, pc, cause>>
    BY <1>10 DEF Refresh
  <2> QED
    BY <2>3, <2>4, <2>5, ResealInv
<1>11. ASSUME Rekey PROVE IInv'
  <2>1. PICK o \in BOOLEAN : up' = [up EXCEPT !.blob.seal = @ + 1, !.blob.opens = o]
    BY <1>11 DEF Rekey
  <2> DEFINE b == [up.blob EXCEPT !.seal = @ + 1, !.opens = o]
  <2>s. up.blob.seal + 1 \in 0..MaxSeal
    BY <1>0, <1>11, StampAssumption DEF Rekey, Blob
  <2>3. b \in Blob /\ b.sign = up.blob.sign
    BY <1>0, <2>s, StampAssumption, BlobFields
  <2>4. up' = [up EXCEPT !.blob = b]
    BY <1>0, <2>1 DEF Row, Blob
  <2> HIDE DEF b
  <2>5. since' = since \cup {"rekey"} /\ UNCHANGED <<key, member, opened, base, pc, cause>>
    BY <1>11 DEF Rekey
  <2> QED
    BY <2>3, <2>4, <2>5, ResealInv
<1>12. ASSUME Start \/ StoreFails PROVE IInv'
  BY <1>12 DEF Start, StoreFails, IInv, TypeOK, BaselineNeverDrifts, StampTells, SinceTells, SameUpstream
<1>13. ASSUME ReadKey PROVE IInv'
  BY <1>13 DEF ReadKey, End, IInv, TypeOK, BaselineNeverDrifts, StampTells, SinceTells, SameUpstream
<1>14. ASSUME ReadUpstream PROVE IInv'
  <2>1. CASE pc' = "ended" /\ UNCHANGED <<base, since>>
    BY <1>14, <2>1 DEF ReadUpstream, End, IInv, TypeOK, BaselineNeverDrifts, StampTells, SinceTells, SameUpstream
  <2>2. CASE /\ ~UpstreamChanged(base, up) /\ base' = up /\ since' = {}
             /\ pc' = (IF Grouped THEN "group" ELSE "wait") /\ UNCHANGED cause
    <3>1. SameUpstream(base, up)
      BY <2>2, UnchangedIsSame
    <3>2. UNCHANGED <<key, member, up, opened>> /\ pc = "upstream"
      BY <1>14 DEF ReadUpstream
    <3>3. BaselineNeverDrifts'
      BY <2>2, <3>1, <3>2 DEF IInv, BaselineNeverDrifts, SameUpstream
    <3>4. StampTells' /\ SinceTells'
      BY <1>0, <2>2, <3>2 DEF StampTells, SinceTells, SameUpstream
    <3>5. TypeOK'
      BY <2>2, <3>2 DEF IInv, TypeOK
    <3> QED
      BY <3>3, <3>4, <3>5 DEF IInv
  <2> QED
    BY <1>14, <2>1, <2>2 DEF ReadUpstream, End
<1>15. ASSUME ReadGroup PROVE IInv'
  BY <1>15 DEF ReadGroup, End, IInv, TypeOK, BaselineNeverDrifts, StampTells, SinceTells, SameUpstream
<1> QED
  BY <1>1, <1>2, <1>3, <1>4, <1>5, <1>6, <1>7, <1>8, <1>9, <1>10, <1>11, <1>12, <1>13, <1>14, <1>15
     DEF Next, Writers

\* The invariant of every behaviour.
LEMMA Invariance == Spec => []IInv
BY InitInv, NextInv, PTL DEF Spec

\* Every reachable state of the re-check is well typed, and a stream it cut has
\* a cause.
THEOREM RecheckTypeCorrect == Spec => []TypeOK
<1>1. IInv => TypeOK
  BY DEF IInv
<1> QED
  BY <1>1, Invariance, PTL

\* For any number of checks, refreshes, rekeys and edits, recheck's baseline is
\* the upstream the stream was opened against.
THEOREM BaselineSteady == Spec => []BaselineNeverDrifts
<1>1. IInv => BaselineNeverDrifts
  BY DEF IInv
<1> QED
  BY <1>1, Invariance, PTL

\* recheck ends a stream as changed only for an edit of what the stream depends
\* on, or for new bytes that came with a save inside one interval, or, on a
\* static row, for a rekey.
THEOREM OnlyChangesEnd == Spec => RenameKeepsStream
<1> DEFINE Told == cause' = "changed" /\ cause = "none" =>
                     \/ "edit" \in since
                     \/ "save" \in since /\ since \cap {"refresh", "rekey"} # {}
                     \/ up.type = "static" /\ "rekey" \in since
<1>1. IInv /\ [Next]_vars => [Told]_vars
  <2> SUFFICES ASSUME IInv, Next, cause' = "changed", cause = "none", "edit" \notin since
               PROVE  \/ "save" \in since /\ since \cap {"refresh", "rekey"} # {}
                      \/ up.type = "static" /\ "rekey" \in since
    OBVIOUS
  <2>1. ReadUpstream /\ UpstreamChanged(base, up)
    BY DEF Next, Writers, EditKey, EditGroup, Rename, Enable, EditUrl, NewCredential, ClearCredential,
           EditType, Save, Delete, Refresh, Rekey, Start, StoreFails, ReadKey, ReadUpstream, ReadGroup, End
  <2>2. SameUpstream(base, up)
    BY DEF IInv, SinceTells
  <2>3. base.blob # up.blob /\ (base.type # "oauth" \/ base.stamp # up.stamp)
    BY <2>1, <2>2 DEF UpstreamChanged, SameUpstream
  <2>4. since \cap {"refresh", "rekey"} # {}
    BY <2>3 DEF IInv, SinceTells
  <2>5. CASE base.type # "oauth"
    <3>1. up.type = "static"
      BY <2>2, <2>5 DEF IInv, TypeOK, Row, SameUpstream
    <3>2. "refresh" \notin since
      BY <3>1 DEF IInv, SinceTells
    <3> QED
      BY <2>4, <3>1, <3>2
  <2>6. CASE base.stamp # up.stamp
    BY <2>4, <2>6 DEF IInv, SinceTells
  <2> QED
    BY <2>3, <2>5, <2>6
<1> QED
  BY <1>1, Invariance, PTL DEF Spec, RenameKeepsStream
=============================================================================
