---------------------------- MODULE StreamRecheck ----------------------------
(***************************************************************************)
(* Handler.recheck (internal/proxy/stream.go): once a minute an open stream *)
(* reads its key, its upstream and its group, one after the other, and ends *)
(* when the stream is no longer one the key may have. Meanwhile operators   *)
(* edit those rows, calls refresh the oauth token set, and a rekey re-seals *)
(* it. A row that is found unchanged becomes the baseline of the next check.*)
(***************************************************************************)
EXTENDS Naturals

CONSTANTS
    Urls,
    Grouped,        \* the key targets a group
    MaxStamp,       \* bound on the edits of the upstream row
    MaxSeal         \* bound on the writes that leave updated_at alone

ASSUME GroupedAssumption == Grouped \in BOOLEAN
ASSUME StampAssumption == MaxStamp \in Nat \ {0} /\ MaxSeal \in Nat

VARIABLES
    key,        \* the key is the one that was authenticated, and active
    member,     \* the group still names the upstream
    up,         \* the upstream row
    opened,     \* the row as read for the request
    base,       \* row.upstream: the row the next check compares with
    since,      \* what happened to the row since base was read
    pc,         \* the re-check
    cause       \* the cause it cut the stream with

vars == <<key, member, up, opened, base, since, pc, cause>>

(***************************************************************************)
(* A stored credential: sign names the credential an operator entered or   *)
(* signed in for (0: none), rot the rotations of its refresh token, seal   *)
(* the ciphertext, opens whether this process holds its key. Two blobs are *)
(* equal bytes only if they are equal records. The transport, which is     *)
(* compared as the URL is, is left out: a stream has a streamable-http row,*)
(* and no write can give it another transport.                             *)
(***************************************************************************)
Blob == [sign : 0..MaxStamp, rot : 0..MaxSeal, seal : 0..MaxSeal, opens : BOOLEAN]
Row == [there : BOOLEAN, enabled : BOOLEAN, url : Urls, type : {"oauth", "static"},
        blob : Blob, stamp : 1..MaxStamp]
NoBlob == [sign |-> 0, rot |-> 0, seal |-> 0, opens |-> FALSE]

FirstBlob == [sign |-> 1, rot |-> 0, seal |-> 0, opens |-> TRUE]

Events == {"edit", "save", "refresh", "rekey"}

\* Every variable keeps its type, and a stream is cut with a cause.
TypeOK ==
    /\ key \in BOOLEAN /\ member \in BOOLEAN
    /\ up \in Row /\ opened \in Row /\ base \in Row
    /\ since \subseteq Events
    /\ pc \in {"wait", "key", "upstream", "group", "ended"}
    /\ cause \in {"none", "revoked", "removed", "changed"}
    /\ cause = "none" <=> pc # "ended"

\* The stream opens on an enabled row whose credential opens, or has none.
Init ==
    /\ key = TRUE /\ member = TRUE
    /\ \E u \in Urls, t \in {"oauth", "static"}, b \in {FirstBlob, NoBlob} :
         /\ t = "oauth" => b = FirstBlob
         /\ up = [there |-> TRUE, enabled |-> TRUE, url |-> u, type |-> t, stamp |-> 1, blob |-> b]
    /\ opened = up /\ base = up
    /\ since = {}
    /\ pc = "wait" /\ cause = "none"

-----------------------------------------------------------------------------
(* The store's writers. *)

\* A revoked, expired, rotated or retargeted key, and a target or an expiry put
\* back; a group that drops the upstream, or takes it in again.
EditKey ==
    /\ pc # "ended"
    /\ key' \in BOOLEAN
    /\ UNCHANGED <<member, up, opened, base, since, pc, cause>>

EditGroup ==
    /\ Grouped /\ pc # "ended"
    /\ member' \in BOOLEAN
    /\ UNCHANGED <<key, up, opened, base, since, pc, cause>>

\* Every operator's write of the row moves updated_at.
Save(row, event) ==
    /\ pc # "ended" /\ up.there /\ up.stamp < MaxStamp
    /\ up' = [row EXCEPT !.stamp = up.stamp + 1]
    /\ since' = since \cup {event}
    /\ UNCHANGED <<key, member, opened, base, pc, cause>>

Fresh == [sign |-> up.stamp + 1, rot |-> 0, seal |-> up.blob.seal + 1, opens |-> TRUE]

Rename == Save(up, "save")
Enable == \E e \in BOOLEAN : Save([up EXCEPT !.enabled = e], "save")

\* On an oauth row a new url clears the token set.
EditUrl == \E u \in Urls \ {up.url} :
    Save([up EXCEPT !.url = u, !.blob = IF up.type = "oauth" THEN NoBlob ELSE @], "edit")

\* A new credential, or a sign-in; a Disconnect, or a cleared credential; a
\* change of auth_type across oauth, which clears the credential or brings one.
NewCredential == up.blob.seal < MaxSeal /\ Save([up EXCEPT !.blob = Fresh], "edit")
ClearCredential == up.blob # NoBlob /\ Save([up EXCEPT !.blob = NoBlob], "edit")
EditType == \E t \in {"oauth", "static"} \ {up.type}, b \in {NoBlob, Fresh} :
    b.seal <= MaxSeal /\ Save([up EXCEPT !.type = t, !.blob = b], "edit")

Delete ==
    /\ pc # "ended" /\ up.there
    /\ up' = [up EXCEPT !.there = FALSE]
    /\ UNCHANGED <<key, member, opened, base, since, pc, cause>>

\* Present's refresh: new bytes, and a new refresh token where the vendor
\* rotates it; updated_at stays.
Refresh ==
    /\ pc # "ended" /\ up.there /\ up.type = "oauth" /\ up.blob # NoBlob /\ up.blob.opens
    /\ up.blob.seal < MaxSeal
    /\ \E r \in {up.blob.rot, up.blob.rot + 1} :
         r <= MaxSeal /\ up' = [up EXCEPT !.blob.seal = @ + 1, !.blob.rot = r]
    /\ since' = since \cup {"refresh"}
    /\ UNCHANGED <<key, member, opened, base, pc, cause>>

\* A rekey: new bytes over the same plaintext, under a key this process may not
\* hold until it restarts.
Rekey ==
    /\ pc # "ended" /\ up.there /\ up.blob # NoBlob
    /\ up.blob.seal < MaxSeal
    /\ \E o \in BOOLEAN : up' = [up EXCEPT !.blob.seal = @ + 1, !.blob.opens = o]
    /\ since' = since \cup {"rekey"}
    /\ UNCHANGED <<key, member, opened, base, pc, cause>>

-----------------------------------------------------------------------------
(* The re-check. *)

\* Mutant: the same client, whatever the grant.
SameGrantAny(a, b) == a.opens /\ b.opens

\* sameGrant: both open, and hold the same refresh token.
SameGrant(a, b) == a.opens /\ b.opens /\ a.sign = b.sign /\ a.rot = b.rot

UpstreamChanged(was, now) ==
    \/ was.url # now.url \/ was.type # now.type
    \/ /\ was.blob # now.blob
       /\ \/ was.type # "oauth"
          \/ was.stamp # now.stamp /\ ~SameGrant(was.blob, now.blob)

End(why) == pc' = "ended" /\ cause' = why

\* The timer.
Start ==
    /\ pc = "wait"
    /\ pc' = "key"
    /\ UNCHANGED <<key, member, up, opened, base, since, cause>>

\* Mutant: a store that cannot be read ends the stream.
StoreFailsClosed ==
    /\ pc \in {"key", "upstream", "group"}
    /\ pc' = "ended"
    /\ UNCHANGED <<key, member, up, opened, base, since, cause>>

\* Any of the three reads fails: the stream stays open until the next check.
StoreFails ==
    /\ pc \in {"key", "upstream", "group"}
    /\ pc' = "wait"
    /\ UNCHANGED <<key, member, up, opened, base, since, cause>>

ReadKey ==
    /\ pc = "key"
    /\ IF key THEN pc' = "upstream" /\ UNCHANGED cause ELSE End("revoked")
    /\ UNCHANGED <<key, member, up, opened, base, since>>

\* Mutant: the stream keeps comparing with the row it opened with.
ReadUpstreamNoBase ==
    /\ pc = "upstream"
    /\ \/ ~(up.there /\ up.enabled) /\ End("removed") /\ UNCHANGED <<base, since>>
       \/ /\ up.there /\ up.enabled /\ UpstreamChanged(base, up)
          /\ End("changed") /\ UNCHANGED <<base, since>>
       \/ /\ up.there /\ up.enabled /\ ~UpstreamChanged(base, up)
          /\ since' = {}
          /\ pc' = IF Grouped THEN "group" ELSE "wait"
          /\ UNCHANGED <<base, cause>>
    /\ UNCHANGED <<key, member, up, opened>>

\* Mutant: the baseline is taken before the comparison.
ReadUpstreamBaseFirst ==
    /\ pc = "upstream"
    /\ base' = up /\ since' = {}
    /\ IF up.there /\ up.enabled
       THEN pc' = (IF Grouped THEN "group" ELSE "wait") /\ UNCHANGED cause
       ELSE End("removed")
    /\ UNCHANGED <<key, member, up, opened>>

ReadUpstream ==
    /\ pc = "upstream"
    /\ \/ ~(up.there /\ up.enabled) /\ End("removed") /\ UNCHANGED <<base, since>>
       \/ /\ up.there /\ up.enabled /\ UpstreamChanged(base, up)
          /\ End("changed") /\ UNCHANGED <<base, since>>
       \/ /\ up.there /\ up.enabled /\ ~UpstreamChanged(base, up)
          /\ base' = up /\ since' = {}
          /\ pc' = IF Grouped THEN "group" ELSE "wait"
          /\ UNCHANGED cause
    /\ UNCHANGED <<key, member, up, opened>>

ReadGroup ==
    /\ pc = "group"
    /\ IF member THEN pc' = "wait" /\ UNCHANGED cause ELSE End("removed")
    /\ UNCHANGED <<key, member, up, opened, base, since>>

-----------------------------------------------------------------------------
Writers == \/ EditKey \/ EditGroup \/ Rename \/ Enable \/ EditUrl \/ NewCredential
           \/ ClearCredential \/ EditType \/ Delete \/ Refresh \/ Rekey

Next == Writers \/ Start \/ StoreFails \/ ReadKey \/ ReadUpstream \/ ReadGroup

Spec == Init /\ [][Next]_vars

\* The timer is set again after every check, and a store that is asked for ever
\* answers for ever again.
Fairness == WF_vars(Start) /\ SF_vars(ReadKey) /\ SF_vars(ReadUpstream) /\ SF_vars(ReadGroup)

LiveSpec == Spec /\ Fairness

-----------------------------------------------------------------------------
(* Properties. *)

\* However many refreshes, rekeys and renames a long stream adopts, its baseline
\* is still the upstream it was opened against: the same URL, type and
\* credential. Each check compares with the last row only, so a comparison that
\* let a change through would never see it again.
SameUpstream(a, b) == a.url = b.url /\ a.type = b.type /\ a.blob.sign = b.blob.sign
BaselineNeverDrifts == SameUpstream(base, opened)

\* A stream ends as changed only if an operator changed the URL, the type or the
\* credential, or if a new set or an unopenable one came together with an edit
\* inside one interval (the limit the comment on recheck records); on a static
\* row a rekey is enough. A rename alone, or one after a refresh that a check
\* has seen, keeps the stream.
RenameKeepsStream ==
    [][cause' = "changed" /\ cause = "none" =>
          \/ "edit" \in since
          \/ "save" \in since /\ since \cap {"refresh", "rekey"} # {}
          \/ up.type = "static" /\ "rekey" \in since]_vars

\* A stream the key may no longer have ends, whatever else changes meanwhile:
\* the key, the row, what the row is, or the membership stays wrong, and the
\* store answers now and then. The three rows are read one by one, so a check
\* may see each of them right at its own moment.
Ended == pc = "ended"
WrongStreamEnds ==
    /\ []<>key \/ <>Ended
    /\ []<>(up.there /\ up.enabled) \/ <>Ended
    /\ []<>SameUpstream(up, opened) \/ <>Ended
    /\ []<>member \/ <>Ended
=============================================================================
