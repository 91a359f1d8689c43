----------------------------- MODULE OAuthGrant -----------------------------
(***************************************************************************)
(* The OAuth grant of one upstream row: who may write it, who may spend    *)
(* its refresh token, and what a proxied call presents.                    *)
(*                                                                         *)
(*   - Callers are proxied calls: they read the row, then ask              *)
(*     credential.Presenter.Present for the credential, then forward to    *)
(*     the URL they read (internal/credential/present.go, proxy.go).       *)
(*   - Admins are management requests: oauthStart, oauthCallback,          *)
(*     oauthRevoke, patchUpstream and deleteUpstream (internal/api). Some  *)
(*     may be served by another replica, which shares only the database.   *)
(*   - `porymcp rekey` is another process on the same database.            *)
(*   - The vendor's authorization server is external: it rotates refresh   *)
(*     tokens and takes a second use of one as theft.                      *)
(*                                                                         *)
(* One SQL statement is one step, one vendor round trip is one step, and   *)
(* the process-wide per-upstream lock is the variable lock.                *)
(***************************************************************************)
EXTENDS Integers, FiniteSets

CONSTANTS
    Callers,        \* proxied calls in flight
    Admins,         \* management requests in flight
    Remote,         \* the ones another replica serves, under a lock of its own
    Urls,           \* values of the row's url column
    NoProc,         \* the lock's value when nobody holds it
    Life,           \* expires_in of every token the vendor mints
    Window,         \* refreshWindow
    HoldOff,        \* refreshHoldOff
    MaxTime,        \* bound: clock ticks
    MaxSerial,      \* bound: tokens the vendor mints
    MaxStamp,       \* bound: operator writes (values of updated_at)
    MaxRestarts     \* bound: process restarts

ASSUME ProcsAssumption == /\ Callers \cap Admins = {}
                          /\ NoProc \notin Callers \cup Admins
                          /\ Remote \subseteq Admins
ASSUME TimesAssumption == /\ Life \in Nat /\ Window \in Nat /\ HoldOff \in Nat
                          /\ MaxTime \in Nat
ASSUME BoundsAssumption == /\ MaxSerial \in Nat \ {0} /\ MaxStamp \in Nat \ {0}
                           /\ MaxRestarts \in Nat
ASSUME UrlsAssumption == Urls # {}

VARIABLES
    row,      \* the upstreams row
    flow,     \* the pending sign-in of oauthFlows for this upstream
    lock,     \* holder of credential.LockUpstream
    hold,     \* lockEntry.retryAfter
    call,     \* per caller: the local variables of serve and Present
    adm,      \* per admin: the local variables of the handler it runs
    now,      \* PoryMCP's clock
    stamp,    \* the last timestamp an operator write drew from time.Now()
    vendor,   \* the authorization server
    ended,    \* history: grants an operator replaced, cleared or disconnected
    lost,     \* history: spent refresh tokens whose successor was not stored
    restarts  \* history: restarts so far

vars == <<row, flow, lock, hold, call, adm, now, stamp, vendor, ended, lost, restarts>>

-----------------------------------------------------------------------------
(* Values. *)

Serial == 0..MaxSerial
Stamp == 0..MaxStamp
Time == 0..(MaxTime + Life)
Types == {"none", "static", "oauth"}

\* auth_config. "empty" is no bytes, "client" an OAuthTokenSet that holds only
\* the client the operator typed, "static" a credential of another auth type,
\* "tokens" a connected OAuthTokenSet. at and rt are the access and refresh
\* token (0: none), grant the sign-in they descend from, res the resource, exp
\* expires_at. old tells ciphertext under a previous key from the current one.
\* Two connected sets that agree on every field are the same ciphertext: each
\* token is minted once and a set is sealed once per key.
Blob == [kind: {"empty", "client", "static", "tokens"}, at: Serial, rt: Serial,
         grant: Serial, res: Urls, exp: Time, old: BOOLEAN]

AnyUrl == CHOOSE u \in Urls : TRUE

Plain(kind, url) == [kind |-> kind, at |-> 0, rt |-> 0, grant |-> 0,
                     res |-> url, exp |-> 0, old |-> FALSE]

NoAuth == Plain("empty", AnyUrl)

Row == [live: BOOLEAN, url: Urls, type: Types, auth: Blob, ver: Stamp]

NoFlow == [on |-> FALSE, seen |-> 0, res |-> AnyUrl]
Flow == [on: BOOLEAN, seen: Stamp, res: Urls]

\* The authorization server: tokens minted so far, refresh tokens it still
\* accepts, those already spent, those spent twice, and the grant of each.
Vendor == [minted: Serial, live: SUBSET Serial, spent: SUBSET Serial,
           twice: SUBSET Serial, owner: [Serial -> Serial]]

\* auth is the blob the call works from (at "done": the one it presents), next
\* the renewed set, t the clock as Present read it.
CallerPC == {"idle", "read", "wait", "reread", "vendor", "drop", "swap",
             "again", "swap2", "done"}
CallerOut == {"none", "ok", "unreadable", "expired", "refresh_failed"}
Call == [pc: CallerPC, url: Urls, type: Types, auth: Blob, t: 0..MaxTime,
         next: Blob, out: CallerOut]

Idle == [pc |-> "idle", url |-> AnyUrl, type |-> "none", auth |-> NoAuth,
         t |-> 0, next |-> NoAuth, out |-> "none"]

\* seen is the updated_at the handler compares against, stamp the one it will
\* write; named, write, drop are patchUpstream's in.URL.Set, writeAuth and its
\* test for flows.drop.
AdminPC == {"idle", "start", "exchange", "connectLock", "connect",
            "patchLock", "patch", "patchDrop", "revokeLock", "revokeRead",
            "revokeVendor", "revoke", "revokeAgain", "revoke2"}
Admin == [pc: AdminPC, seen: Stamp, url: Urls, type: Types, auth: Blob,
          named: BOOLEAN, write: BOOLEAN, drop: BOOLEAN, stamp: Stamp]

Rest == [pc |-> "idle", seen |-> 0, url |-> AnyUrl, type |-> "none",
         auth |-> NoAuth, named |-> FALSE, write |-> FALSE, drop |-> FALSE,
         stamp |-> 0]

Procs == Callers \cup Admins

\* Every variable keeps its type: the shapes above are what the code can hold.
TypeOK ==
    /\ row \in Row
    /\ flow \in Flow
    /\ lock \in Procs \cup {NoProc}
    /\ hold \in 0..(MaxTime + HoldOff)
    /\ call \in [Callers -> Call]
    /\ adm \in [Admins -> Admin]
    /\ now \in 0..MaxTime
    /\ stamp \in Stamp
    /\ vendor \in Vendor
    /\ ended \subseteq Serial
    /\ lost \subseteq Serial
    /\ restarts \in 0..MaxRestarts

-----------------------------------------------------------------------------
(* credential.Read and the predicates of present.go. *)

\* Read: whether a stored blob is worth anything under an auth type.
Readable(type, auth) ==
    \/ type = "none"
    \/ type = "static" /\ auth.kind = "static"
    \/ type = "oauth" /\ auth.kind = "tokens"

\* open: Read, and the set must have been minted for the row's own URL.
Opens(type, auth, url) == type = "oauth" /\ Readable(type, auth) /\ auth.res = url

Due(auth, t) == auth.exp <= t + Window

\* stillValid: the stored token while it has not lapsed, the error afterwards.
StillValid(auth, t, lapsed) == IF auth.exp > t THEN "ok" ELSE lapsed

\* The refresh tokens that stop being the row's when its blob is given up.
GrantOf(auth) == IF auth.kind = "tokens" THEN {auth.grant} ELSE {}

\* Mutants: an unconditional UPDATE, and one that compares the type only.
SwapHitsAny(expect) == row.live
ConnectHitsAny(seen) == row.live /\ row.type = "oauth"

\* SwapUpstreamAuth's WHERE clause, and ConnectUpstreamAuth's.
SwapHits(expect) == row.live /\ row.auth = expect
ConnectHits(seen) == row.live /\ row.ver = seen /\ row.type = "oauth"

-----------------------------------------------------------------------------
(* Initial states: a row in any configuration the API can have saved, the  *)
(* process just started.                                                   *)

SavedAuth(type, url) ==
    CASE type = "none"   -> {NoAuth}
      [] type = "static" -> {Plain("static", url)}
      [] type = "oauth"  -> {NoAuth, Plain("client", url)}
           \cup [kind: {"tokens"}, at: {1}, rt: {0, 1}, grant: {1}, res: {url},
                 exp: {Life}, old: {FALSE}]

Init ==
    /\ \E url \in Urls, type \in Types : \E auth \in SavedAuth(type, url) :
         /\ row = [live |-> TRUE, url |-> url, type |-> type, auth |-> auth, ver |-> 0]
         /\ vendor = [minted |-> auth.at, live |-> {auth.rt} \ {0}, spent |-> {},
                      twice |-> {}, owner |-> [n \in Serial |-> IF n = 1 THEN auth.grant ELSE 0]]
    /\ flow = NoFlow
    /\ lock = NoProc
    /\ hold = 0
    /\ call = [c \in Callers |-> Idle]
    /\ adm = [a \in Admins |-> Rest]
    /\ now = 0
    /\ stamp = 0
    /\ ended = {}
    /\ lost = {}
    /\ restarts = 0

-----------------------------------------------------------------------------
(* Presenter.Present, run by a caller. *)

\* Present returns: out, and on "ok" the blob whose tokens the call sends.
Return(c, out, auth) ==
    call' = [call EXCEPT ![c] = [Idle EXCEPT
                !.pc = "done", !.url = call[c].url,
                !.auth = IF out = "ok" THEN auth ELSE NoAuth, !.out = out]]

Unlock(p) == lock' = IF lock = p THEN NoProc ELSE lock

\* What a failure to store the renewed set costs: the token just spent.
Forfeit(c) == {call[c].auth.rt} \ {call[c].next.rt}

\* serve (or memberCatalogues, or the discover route) reads the row.
CallerRead(c) ==
    /\ call[c].pc = "idle"
    /\ row.live
    /\ call' = [call EXCEPT ![c] = [Idle EXCEPT !.pc = "read", !.url = row.url,
                                    !.type = row.type, !.auth = row.auth]]
    /\ UNCHANGED <<row, flow, lock, hold, adm, now, stamp, vendor, ended, lost, restarts>>

PresentOpen(c) ==
    LET k == call[c]
        opens == IF k.type = "oauth" THEN Opens(k.type, k.auth, k.url)
                                     ELSE Readable(k.type, k.auth)
    IN
    /\ k.pc = "read"
    /\ \/ ~opens /\ Return(c, "unreadable", NoAuth)
       \/ opens /\ k.type = "none" /\ Return(c, "ok", NoAuth)
       \/ opens /\ k.type = "static" /\ Return(c, "ok", k.auth)
       \/ opens /\ k.type = "oauth" /\ ~Due(k.auth, now) /\ Return(c, "ok", k.auth)
       \/ /\ opens /\ k.type = "oauth" /\ Due(k.auth, now)
          /\ call' = [call EXCEPT ![c].pc = "wait", ![c].t = now, ![c].auth = NoAuth]
    /\ UNCHANGED <<row, flow, lock, hold, adm, now, stamp, vendor, ended, lost, restarts>>

\* Mutant: no mutual exclusion between two refreshes.
PresentLockShared(c) ==
    /\ call[c].pc = "wait"
    /\ lock' = c
    /\ call' = [call EXCEPT ![c].pc = "reread"]
    /\ UNCHANGED <<row, flow, hold, adm, now, stamp, vendor, ended, lost, restarts>>

PresentLock(c) ==
    /\ call[c].pc = "wait"
    /\ lock = NoProc
    /\ lock' = c
    /\ call' = [call EXCEPT ![c].pc = "reread"]
    /\ UNCHANGED <<row, flow, hold, adm, now, stamp, vendor, ended, lost, restarts>>

\* The caller's context ends while it waits for the lock.
PresentGiveUp(c) ==
    /\ call[c].pc = "wait"
    /\ Return(c, "refresh_failed", NoAuth)
    /\ UNCHANGED <<row, flow, lock, hold, adm, now, stamp, vendor, ended, lost, restarts>>

\* What the re-read under the lock decides; "go" calls the vendor.
Verdict(t) ==
    CASE ~row.live \/ ~Opens(row.type, row.auth, row.url) -> "unreadable"
      [] OTHER -> IF ~Due(row.auth, t) THEN "ok"
                  ELSE IF t < hold THEN StillValid(row.auth, t, "refresh_failed")
                  ELSE IF row.auth.rt = 0 THEN StillValid(row.auth, t, "expired")
                  ELSE "go"

PresentReread(c) ==
    /\ call[c].pc = "reread"
    /\ \/ /\ Verdict(call[c].t) = "go"
          /\ call' = [call EXCEPT ![c].pc = "vendor", ![c].auth = row.auth]
          /\ UNCHANGED lock
       \/ /\ Verdict(call[c].t) # "go"
          /\ Return(c, Verdict(call[c].t), row.auth)
          /\ Unlock(c)
       \/ /\ Return(c, "refresh_failed", NoAuth)        \* the store failed
          /\ Unlock(c)
    /\ UNCHANGED <<row, flow, hold, adm, now, stamp, vendor, ended, lost, restarts>>

\* Mutant: each renewal extends the old expiry.
RenewedFromExpiry(auth, n, rotate, t) ==
    [auth EXCEPT !.at = n, !.rt = IF rotate THEN n ELSE auth.rt,
                 !.exp = auth.exp + Life, !.old = FALSE]

\* apply: a refresh answer, with or without a new refresh token. The expiry
\* counts from the clock read before the lock was taken.
Renewed(auth, n, rotate, t) ==
    [auth EXCEPT !.at = n, !.rt = IF rotate THEN n ELSE auth.rt,
                 !.exp = t + Life, !.old = FALSE]

VendorMints(n, grant, rt) ==
    [vendor EXCEPT !.minted = n, !.owner[n] = grant,
                   !.live = @ \cup ({rt} \ {0})]

\* The token endpoint accepts the refresh token; its answer arrives.
VendorRenews(c) ==
    LET rt == call[c].auth.rt
        n == vendor.minted + 1
    IN
    /\ call[c].pc = "vendor"
    /\ rt \in vendor.live
    /\ n <= MaxSerial
    /\ \E rotate \in BOOLEAN, arrives \in BOOLEAN :
         /\ vendor' = [VendorMints(n, vendor.owner[rt], IF rotate THEN n ELSE 0) EXCEPT
                         !.live = IF rotate THEN @ \ {rt} ELSE @,
                         !.spent = IF rotate THEN @ \cup {rt} ELSE @]
         /\ \/ /\ arrives
               /\ call' = [call EXCEPT ![c].pc = "swap",
                             ![c].next = Renewed(call[c].auth, n, rotate, call[c].t)]
               /\ UNCHANGED <<lock, hold, lost>>
            \/ /\ ~arrives      \* refreshVendorBudget ran out on the way back
               /\ hold' = call[c].t + HoldOff
               /\ lost' = IF rotate THEN lost \cup {rt} ELSE lost
               /\ Return(c, StillValid(call[c].auth, call[c].t, "refresh_failed"), call[c].auth)
               /\ Unlock(c)
    /\ UNCHANGED <<row, flow, adm, now, stamp, ended, restarts>>

\* Mutant: the early return forgets the lock.
VendorUnavailableLocked(c) ==
    /\ call[c].pc = "vendor"
    /\ hold' = call[c].t + HoldOff
    /\ Return(c, StillValid(call[c].auth, call[c].t, "refresh_failed"), call[c].auth)
    /\ UNCHANGED <<row, flow, lock, adm, now, stamp, vendor, ended, lost, restarts>>

\* The vendor cannot be reached, or answers nothing usable.
VendorUnavailable(c) ==
    /\ call[c].pc = "vendor"
    /\ hold' = call[c].t + HoldOff
    /\ Return(c, StillValid(call[c].auth, call[c].t, "refresh_failed"), call[c].auth)
    /\ Unlock(c)
    /\ UNCHANGED <<row, flow, adm, now, stamp, vendor, ended, lost, restarts>>

\* invalid_grant or invalid_client. A token presented a second time ends every
\* token of its grant.
VendorRejects(c) ==
    LET rt == call[c].auth.rt IN
    /\ call[c].pc = "vendor"
    /\ vendor' = IF rt \in vendor.spent
                 THEN [vendor EXCEPT !.twice = @ \cup {rt},
                         !.live = {n \in @ : vendor.owner[n] # vendor.owner[rt]}]
                 ELSE vendor
    /\ call' = [call EXCEPT ![c].pc = "drop"]
    /\ UNCHANGED <<row, flow, lock, hold, adm, now, stamp, ended, lost, restarts>>

\* swap: the refused refresh token leaves the row, best effort.
PresentDrop(c) ==
    LET k == call[c] IN
    /\ k.pc = "drop"
    /\ \/ SwapHits(k.auth) /\ row' = [row EXCEPT !.auth = [k.auth EXCEPT !.rt = 0, !.old = FALSE]]
       \/ UNCHANGED row
    /\ Return(c, StillValid(k.auth, k.t, "expired"), k.auth)
    /\ Unlock(c)
    /\ UNCHANGED <<flow, hold, adm, now, stamp, vendor, ended, lost, restarts>>

\* The renewed set is stored over the bytes it was made from.
PresentSwap(c) ==
    LET k == call[c] IN
    /\ k.pc = "swap"
    /\ \/ /\ SwapHits(k.auth)
          /\ row' = [row EXCEPT !.auth = k.next]
          /\ Return(c, "ok", k.next)
          /\ Unlock(c)
          /\ UNCHANGED lost
       \/ /\ ~SwapHits(k.auth)
          /\ call' = [call EXCEPT ![c].pc = "again"]
          /\ UNCHANGED <<row, lock, lost>>
       \/ /\ Return(c, "ok", k.next)                    \* the store failed
          /\ lost' = lost \cup Forfeit(c)
          /\ Unlock(c)
          /\ UNCHANGED row
    /\ UNCHANGED <<flow, hold, adm, now, stamp, vendor, ended, restarts>>

\* The bytes moved: a re-wrapped set still holds the token just spent, any
\* other set is another writer's and theirs wins.
PresentAgain(c) ==
    LET k == call[c]
        opens == row.live /\ Opens(row.type, row.auth, row.url)
    IN
    /\ k.pc = "again"
    /\ \/ /\ opens /\ row.auth.rt = k.auth.rt
          /\ call' = [call EXCEPT ![c].pc = "swap2", ![c].auth = row.auth]
          /\ UNCHANGED <<lock, lost>>
       \/ /\ opens /\ row.auth.rt # k.auth.rt
          /\ Return(c, StillValid(row.auth, k.t, "expired"), row.auth)
          /\ lost' = lost \cup Forfeit(c)
          /\ Unlock(c)
       \/ /\ ~opens
          /\ Return(c, "unreadable", NoAuth)
          /\ lost' = lost \cup Forfeit(c)
          /\ Unlock(c)
       \/ /\ Return(c, "ok", k.next)                    \* the store failed
          /\ lost' = lost \cup Forfeit(c)
          /\ Unlock(c)
    /\ UNCHANGED <<row, flow, hold, adm, now, stamp, vendor, ended, restarts>>

PresentSwapAgain(c) ==
    LET k == call[c] IN
    /\ k.pc = "swap2"
    /\ \/ /\ SwapHits(k.auth)
          /\ row' = [row EXCEPT !.auth = k.next]
          /\ UNCHANGED lost
       \/ /\ lost' = lost \cup Forfeit(c)               \* a miss, or the store failed
          /\ UNCHANGED row
    /\ Return(c, "ok", k.next)
    /\ Unlock(c)
    /\ UNCHANGED <<flow, hold, adm, now, stamp, vendor, ended, restarts>>

\* forward: the request goes out to the URL that was read, or is refused.
CallerForward(c) ==
    /\ call[c].pc = "done"
    /\ call' = [call EXCEPT ![c] = Idle]
    /\ UNCHANGED <<row, flow, lock, hold, adm, now, stamp, vendor, ended, lost, restarts>>

-----------------------------------------------------------------------------
(* The sign-in: oauthStart and oauthCallback. *)

AdminIdle(a) == adm' = [adm EXCEPT ![a] = Rest]

StartRead(a) ==
    /\ adm[a].pc = "idle" /\ a \notin Remote
    /\ row.live /\ row.type = "oauth"
    /\ adm' = [adm EXCEPT ![a] = [Rest EXCEPT !.pc = "start", !.seen = row.ver, !.url = row.url]]
    /\ UNCHANGED <<row, flow, lock, hold, call, now, stamp, vendor, ended, lost, restarts>>

\* The metadata walk succeeded and flows.put replaced any pending sign-in, or
\* found the map full after removing it, or something on the way refused it.
StartPut(a) ==
    /\ adm[a].pc = "start"
    /\ \/ flow' = [on |-> TRUE, seen |-> adm[a].seen, res |-> adm[a].url]
       \/ flow' = NoFlow
       \/ UNCHANGED flow
    /\ AdminIdle(a)
    /\ UNCHANGED <<row, lock, hold, call, now, stamp, vendor, ended, lost, restarts>>

\* oauthFlowTTL: flows.take refuses an expired sign-in, flows.put sweeps it.
FlowExpires ==
    /\ flow.on
    /\ flow' = NoFlow
    /\ UNCHANGED <<row, lock, hold, call, adm, now, stamp, vendor, ended, lost, restarts>>

\* flows.take is single use; the vendor's refusal, a bad iss, a missing code or
\* a row edited since oauthStart end the sign-in there. now, which becomes
\* updated_at and the base of expires_at, is drawn here.
CallbackTake(a) ==
    /\ adm[a].pc = "idle" /\ a \notin Remote
    /\ flow.on
    /\ flow' = NoFlow
    /\ \/ /\ ConnectHits(flow.seen)
          /\ stamp < MaxStamp
          /\ stamp' = stamp + 1
          /\ adm' = [adm EXCEPT ![a] = [Rest EXCEPT !.pc = "exchange", !.seen = flow.seen,
                        !.stamp = stamp + 1,
                        !.auth = [Plain("client", flow.res) EXCEPT !.exp = now + Life]]]
       \/ UNCHANGED <<adm, stamp>>
    /\ UNCHANGED <<row, lock, hold, call, now, vendor, ended, lost, restarts>>

\* Exchange: a new grant, with or without a refresh token.
CallbackExchange(a) ==
    LET n == vendor.minted + 1 IN
    /\ adm[a].pc = "exchange"
    /\ \/ /\ n <= MaxSerial
          /\ \E rt \in {0, n} :
               /\ vendor' = VendorMints(n, n, rt)
               /\ adm' = [adm EXCEPT ![a].pc = "connectLock",
                            ![a].auth = [@ EXCEPT !.kind = "tokens", !.at = n, !.rt = rt, !.grant = n]]
       \/ AdminIdle(a) /\ UNCHANGED vendor
    /\ UNCHANGED <<row, flow, lock, hold, call, now, stamp, ended, lost, restarts>>

\* LockUpstream, or its deadline. The lock is process memory: a request on
\* another replica takes that replica's, which nobody here holds.
AdminLock(a, from, to) ==
    /\ adm[a].pc = from
    /\ \/ /\ a \notin Remote
          /\ lock = NoProc
          /\ lock' = a
          /\ adm' = [adm EXCEPT ![a].pc = to]
       \/ /\ a \in Remote
          /\ adm' = [adm EXCEPT ![a].pc = to]
          /\ UNCHANGED lock
       \/ AdminIdle(a) /\ UNCHANGED lock                \* "upstream is busy"
    /\ UNCHANGED <<row, flow, hold, call, now, stamp, vendor, ended, lost, restarts>>

CallbackLock(a) == AdminLock(a, "connectLock", "connect")

\* ConnectUpstreamAuth: the new set, if nobody edited the row since oauthStart.
CallbackConnect(a) ==
    /\ adm[a].pc = "connect"
    /\ \/ /\ ConnectHits(adm[a].seen)
          /\ row' = [row EXCEPT !.auth = adm[a].auth, !.ver = adm[a].stamp]
          /\ ended' = ended \cup GrantOf(row.auth)
       \/ UNCHANGED <<row, ended>>
    /\ AdminIdle(a)
    /\ Unlock(a)
    /\ UNCHANGED <<flow, hold, call, now, stamp, vendor, lost, restarts>>

-----------------------------------------------------------------------------
(* patchUpstream and deleteUpstream. *)

\* encryptAuth of the body's auth_config: {} clears, anything else is sealed as
\* what the merged auth_type takes (oauth takes a client identity only).
Encrypted(type, cfg, url) ==
    IF cfg = "clear" THEN NoAuth
    ELSE Plain(IF type = "oauth" THEN "client" ELSE "static", url)

\* The stored blob is removed: None was chosen, or an oauth row's URL or type
\* moved and the body brought nothing to replace it.
ClearsAuth(url, type, cfg, namesType) ==
    \/ namesType /\ type = "none"
    \/ row.type = "oauth" /\ url # row.url /\ cfg = "absent"
    \/ row.type # type /\ "oauth" \in {row.type, type} /\ cfg = "absent"

\* Everything the handler decides from the row it read first: the merged
\* columns, writeAuth, and whether a pending sign-in is forgotten.
Patched(url, type, cfg, named, namesType) ==
    LET clear == ClearsAuth(url, type, cfg, namesType)
        write == cfg # "absent" \/ (clear /\ row.auth.kind # "empty")
        oauth == "oauth" \in {row.type, type}
    IN  [pc |-> IF oauth THEN "patchLock" ELSE "patch",
         seen |-> 0, url |-> url, type |-> type, named |-> named,
         auth |-> IF clear \/ cfg = "absent" THEN NoAuth ELSE Encrypted(type, cfg, url),
         write |-> write,
         drop |-> oauth /\ (url # row.url \/ type # row.type \/ cfg # "absent"),
         stamp |-> stamp + 1]

\* A field the body does not name keeps the value just read.
PatchRead(a) ==
    /\ adm[a].pc = "idle"
    /\ row.live
    /\ stamp < MaxStamp
    /\ stamp' = stamp + 1
    /\ \E url \in Urls, type \in Types, cfg \in {"absent", "clear", "value"},
          named \in BOOLEAN, namesType \in BOOLEAN :
         /\ ~named => url = row.url
         /\ ~namesType => type = row.type
         /\ ~(namesType /\ type = "none" /\ cfg = "value")     \* errAuthNoneCredential
         /\ adm' = [adm EXCEPT ![a] = Patched(url, type, cfg, named, namesType)]
    /\ UNCHANGED <<row, flow, lock, hold, call, now, vendor, ended, lost, restarts>>

PatchLock(a) == AdminLock(a, "patchLock", "patch")

\* UpdateUpstream: every column, auth_config only when writeAuth. An error
\* (no such row, the store) ends the request.
PatchWrite(a) ==
    LET k == adm[a] IN
    /\ k.pc = "patch"
    /\ \/ /\ row.live
          /\ row' = [row EXCEPT !.url = k.url, !.type = k.type, !.ver = k.stamp,
                                !.auth = IF k.write THEN k.auth ELSE @]
          /\ ended' = ended \cup (IF k.write THEN GrantOf(row.auth) ELSE {})
          /\ IF k.drop THEN /\ adm' = [adm EXCEPT ![a] = [Rest EXCEPT !.pc = "patchDrop"]]
                            /\ UNCHANGED lock
                       ELSE AdminIdle(a) /\ Unlock(a)
       \/ /\ AdminIdle(a)
          /\ Unlock(a)
          /\ UNCHANGED <<row, ended>>
    /\ UNCHANGED <<flow, hold, call, now, stamp, vendor, lost, restarts>>

\* flows.drop (of the replica that serves the edit), then the deferred unlock.
PatchDropFlow(a) ==
    /\ adm[a].pc = "patchDrop"
    /\ flow' = IF a \in Remote THEN flow ELSE NoFlow
    /\ AdminIdle(a)
    /\ Unlock(a)
    /\ UNCHANGED <<row, hold, call, now, stamp, vendor, ended, lost, restarts>>

\* deleteUpstream: one DELETE, no lock, the pending sign-in stays.
DeleteUpstream(a) ==
    /\ adm[a].pc = "idle"
    /\ row.live
    /\ row' = [row EXCEPT !.live = FALSE, !.auth = NoAuth]
    /\ ended' = ended \cup GrantOf(row.auth)
    /\ UNCHANGED <<flow, lock, hold, call, adm, now, stamp, vendor, lost, restarts>>

-----------------------------------------------------------------------------
(* oauthRevoke. *)

\* The stamp is drawn here and not after the vendor call: stamps are compared
\* for equality only, so when each is drawn makes no difference.
RevokeRead(a) ==
    /\ adm[a].pc = "idle"
    /\ row.live /\ row.type = "oauth"
    /\ stamp < MaxStamp
    /\ stamp' = stamp + 1
    /\ adm' = [adm EXCEPT ![a] = [Rest EXCEPT !.pc = "revokeLock", !.stamp = stamp + 1]]
    /\ UNCHANGED <<row, flow, lock, hold, call, now, vendor, ended, lost, restarts>>

RevokeLock(a) == AdminLock(a, "revokeLock", "revokeRead")

\* The row again under the lock. A row with no bytes has nothing to revoke.
RevokeReread(a) ==
    /\ adm[a].pc = "revokeRead"
    /\ \/ /\ row.live /\ row.type = "oauth" /\ row.auth.kind # "empty"
          /\ adm' = [adm EXCEPT ![a].pc = "revokeVendor", ![a].seen = row.ver, ![a].auth = row.auth]
          /\ UNCHANGED lock
       \/ AdminIdle(a) /\ Unlock(a)
    /\ UNCHANGED <<row, flow, hold, call, now, stamp, vendor, ended, lost, restarts>>

\* The vendor drops the grant, refuses, cannot be reached, or offers no
\* revocation: the disconnect goes on. A grant with no refresh token is
\* revoked by its access token.
RevokeVendor(a) ==
    /\ adm[a].pc = "revokeVendor"
    /\ \/ vendor' = [vendor EXCEPT !.live = {n \in @ : vendor.owner[n] # adm[a].auth.grant}]
       \/ UNCHANGED vendor
    /\ adm' = [adm EXCEPT ![a].pc = "revoke"]
    /\ UNCHANGED <<row, flow, lock, hold, call, now, stamp, ended, lost, restarts>>

Disconnect(a) ==
    /\ ConnectHits(adm[a].seen)
    /\ row' = [row EXCEPT !.auth = NoAuth, !.ver = adm[a].stamp]
    /\ ended' = ended \cup GrantOf(row.auth)

RevokeWrite(a) ==
    /\ adm[a].pc = "revoke"
    /\ \/ Disconnect(a) /\ AdminIdle(a) /\ Unlock(a)
       \/ /\ ~ConnectHits(adm[a].seen)
          /\ adm' = [adm EXCEPT ![a].pc = "revokeAgain"]
          /\ UNCHANGED <<row, ended, lock>>
       \/ AdminIdle(a) /\ Unlock(a) /\ UNCHANGED <<row, ended>>      \* the store failed
    /\ UNCHANGED <<flow, hold, call, now, stamp, vendor, lost, restarts>>

\* Mutant: whatever is stored is cleared.
StillRevokedAny(a) == row.live /\ row.type = "oauth"

StillRevoked(a) ==
    /\ row.live /\ row.type = "oauth"
    /\ row.auth.at = adm[a].auth.at /\ row.auth.rt = adm[a].auth.rt

\* The row was edited meanwhile: only the set just revoked is still cleared.
RevokeAgain(a) ==
    /\ adm[a].pc = "revokeAgain"
    /\ \/ /\ StillRevoked(a)
          /\ adm' = [adm EXCEPT ![a].pc = "revoke2", ![a].seen = row.ver]
          /\ UNCHANGED lock
       \/ AdminIdle(a) /\ Unlock(a)                    \* 404, 409 or a store error
    /\ UNCHANGED <<row, flow, hold, call, now, stamp, vendor, ended, lost, restarts>>

RevokeWriteAgain(a) ==
    /\ adm[a].pc = "revoke2"
    /\ \/ Disconnect(a)
       \/ UNCHANGED <<row, ended>>
    /\ AdminIdle(a)
    /\ Unlock(a)
    /\ UNCHANGED <<flow, hold, call, now, stamp, vendor, lost, restarts>>

-----------------------------------------------------------------------------
(* The rest of the world. *)

\* `porymcp rekey`: RekeyUpstreams re-wraps the blob in one transaction.
Rekey ==
    /\ row.auth.old
    /\ row' = [row EXCEPT !.auth.old = FALSE]
    /\ UNCHANGED <<flow, lock, hold, call, adm, now, stamp, vendor, ended, lost, restarts>>

Tick ==
    /\ now < MaxTime
    /\ now' = now + 1
    /\ UNCHANGED <<row, flow, lock, hold, call, adm, stamp, vendor, ended, lost, restarts>>

\* The process stops anywhere and starts again, perhaps with a new current key
\* and the old one kept as a previous key. Locks, hold-offs and pending
\* sign-ins live in memory; so does a renewed set that was not stored yet.
Restart ==
    /\ restarts < MaxRestarts
    /\ restarts' = restarts + 1
    /\ \E rotated \in BOOLEAN :
         row' = [row EXCEPT !.auth.old = @ \/ (rotated /\ row.auth.kind # "empty")]
    /\ flow' = NoFlow
    /\ lock' = NoProc
    /\ hold' = 0
    /\ call' = [c \in Callers |-> Idle]
    /\ adm' = [a \in Admins |-> IF a \in Remote THEN adm[a] ELSE Rest]
    /\ lost' = lost \cup UNION {Forfeit(c) : c \in {d \in Callers :
                                  call[d].pc \in {"swap", "again", "swap2"}}}
    /\ UNCHANGED <<now, stamp, vendor, ended>>

CallerStep(c) ==
    \/ PresentOpen(c) \/ PresentLock(c) \/ PresentGiveUp(c) \/ PresentReread(c)
    \/ VendorRenews(c) \/ VendorUnavailable(c) \/ VendorRejects(c)
    \/ PresentDrop(c) \/ PresentSwap(c) \/ PresentAgain(c) \/ PresentSwapAgain(c)
    \/ CallerForward(c)

AdminBegin(a) ==
    \/ StartRead(a) \/ CallbackTake(a) \/ PatchRead(a) \/ RevokeRead(a) \/ DeleteUpstream(a)

AdminStep(a) ==
    \/ StartPut(a)
    \/ CallbackExchange(a) \/ CallbackLock(a) \/ CallbackConnect(a)
    \/ PatchLock(a) \/ PatchWrite(a) \/ PatchDropFlow(a)
    \/ RevokeLock(a) \/ RevokeReread(a) \/ RevokeVendor(a) \/ RevokeWrite(a)
    \/ RevokeAgain(a) \/ RevokeWriteAgain(a)

Next ==
    \/ \E c \in Callers : CallerRead(c) \/ CallerStep(c)
    \/ \E a \in Admins : AdminBegin(a) \/ AdminStep(a)
    \/ FlowExpires \/ Rekey \/ Tick \/ Restart

Spec == Init /\ [][Next]_vars

\* A request that has begun goes on: every wait in it, for the lock, the vendor
\* or the store, has a deadline. Nothing obliges a new request to arrive.
Fairness == /\ \A c \in Callers : WF_vars(CallerStep(c))
            /\ \A a \in Admins : WF_vars(AdminStep(a))

LiveSpec == Spec /\ Fairness

-----------------------------------------------------------------------------
(* Properties. *)

\* A refresh token is redeemed a second time only when the set its first use
\* returned was never stored: concurrent calls, a rekey, an edit or a restart
\* alone never make PoryMCP replay a token the vendor rotated, which a vendor
\* answers by ending the whole grant (Present: the lock and the re-read).
NoDoubleSpend == vendor.twice \subseteq lost

\* A grant the operator disconnected, replaced or cleared never comes back to
\* the row: a refresh in flight loses to the operator (SwapUpstreamAuth).
EndedGrantStaysEnded == row.auth.kind = "tokens" => row.auth.grant \notin ended

\* A sign-in stores its tokens only on an oauth row that still has the URL they
\* were minted for, whatever was edited while the browser was away
\* (oauthCallback, ConnectUpstreamAuth).
ConnectBindsToUrl ==
    [][(/\ row'.auth # row.auth
        /\ row'.auth.kind = "tokens"
        /\ row'.ver # row.ver) => /\ row'.type = "oauth"
                                  /\ row'.auth.res = row'.url]_vars

\* A Disconnect empties the row only of the grant it sent to the vendor's
\* revocation endpoint, even when another replica edited the row under it
\* (oauthRevoke: the compare on updated_at, and the one after a miss).
DisconnectHitsItsGrant ==
    [][\A a \in Admins :
          (/\ adm[a].pc \in {"revoke", "revoke2"} /\ adm'[a].pc = "idle"
           /\ row'.auth.kind = "empty" /\ row.auth.kind # "empty" /\ row.live)
          => row.auth.grant = adm[a].auth.grant]_vars

\* The per-upstream lock is always let go: no return path of Present, the
\* callback, an edit or a disconnect keeps it.
LockAlwaysFreed == \A p \in Procs : lock = p ~> lock # p

\* What open's comment promises: a call never presents a token to a URL it was
\* not minted for. Present checks the set against the row it re-read, while the
\* call goes to the URL of the row read before.
PresentedWhereMinted ==
    \A c \in Callers :
        (call[c].pc = "done" /\ call[c].out = "ok" /\ call[c].auth.kind = "tokens")
        => call[c].auth.res = call[c].url

\* What patchUpstream's comment promises: a key the body did not carry leaves
\* the stored value alone. Here: a PATCH that names no url does not change it.
PatchLeavesUnnamedUrl ==
    [][\A a \in Admins :
          (adm[a].pc = "patch" /\ ~adm[a].named /\ row'.ver = adm[a].stamp)
          => row'.url = row.url]_vars
=============================================================================
