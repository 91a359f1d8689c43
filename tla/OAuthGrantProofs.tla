-------------------------- MODULE OAuthGrantProofs --------------------------
(* Proofs about OAuthGrant, for every set of callers, requests and URLs and *)
(* every value of the bounds.                                               *)
EXTENDS OAuthGrant, TLAPS

-----------------------------------------------------------------------------
(* Types. *)

\* The constants the initial state is built from lie within the bounds.
LEMMA BoundFacts ==
  /\ 0 \in Serial /\ 1 \in Serial /\ 0 \in Stamp
  /\ 0 \in Time /\ Life \in Time
  BY BoundsAssumption, TimesAssumption DEF Serial, Stamp, Time

\* The url of a set that has none is a url.
LEMMA AnyUrlType == AnyUrl \in Urls
  BY UrlsAssumption DEF AnyUrl

\* A blob that holds no grant is a blob.
LEMMA PlainType ==
  ASSUME NEW kind \in {"empty", "client", "static"}, NEW url \in Urls
  PROVE  Plain(kind, url) \in Blob
  BY BoundsAssumption, TimesAssumption DEF Plain, Blob, Serial, Time

\* The idle values of the row's credential, a call, an operator and the sign-in
\* flow have their types.
LEMMA ConstantTypes ==
  /\ NoAuth \in Blob
  /\ Idle \in Call
  /\ Rest \in Admin
  /\ NoFlow \in Flow
<1>1. NoAuth \in Blob
  BY AnyUrlType, PlainType DEF NoAuth
<1>2. QED
  BY <1>1, AnyUrlType, BoundsAssumption, TimesAssumption
     DEF Idle, Call, CallerPC, CallerOut, Types, Rest, Admin, AdminPC, Stamp, NoFlow, Flow

\* What Return does to the record of the call that returns.
LEMMA ReturnType ==
  ASSUME TypeOK, NEW c \in Callers, NEW out \in CallerOut, NEW auth \in Blob,
         Return(c, out, auth)
  PROVE  call' \in [Callers -> Call]
<1>1. call[c].url \in Urls
  BY DEF TypeOK, Call
<1>2. [Idle EXCEPT !.pc = "done", !.url = call[c].url,
         !.auth = IF out = "ok" THEN auth ELSE NoAuth, !.out = out] \in Call
  BY <1>1, ConstantTypes DEF Call, CallerPC, CallerOut
<1>3. QED
  BY <1>2 DEF TypeOK, Return

\* stillValid ends a call with one of Present's outcomes.
LEMMA StillValidType ==
  ASSUME NEW auth, NEW t, NEW lapsed \in CallerOut
  PROVE  StillValid(auth, t, lapsed) \in CallerOut
  BY DEF StillValid, CallerOut

\* Releasing the per-upstream lock leaves it free or with its holder.
LEMMA UnlockType ==
  ASSUME TypeOK, NEW p, Unlock(p)
  PROVE  lock' \in Procs \cup {NoProc}
  BY DEF TypeOK, Unlock

\* An operator whose handler has returned is at rest.
LEMMA AdminIdleType ==
  ASSUME TypeOK, NEW a \in Admins, AdminIdle(a)
  PROVE  adm' \in [Admins -> Admin]
  BY ConstantTypes DEF TypeOK, AdminIdle

\* What a call that dies would forfeit are refresh tokens.
LEMMA ForfeitType ==
  ASSUME TypeOK, NEW c \in Callers
  PROVE  Forfeit(c) \subseteq Serial
  BY DEF TypeOK, Call, Blob, Forfeit

\* The grants a blob names are serials.
LEMMA GrantOfType ==
  ASSUME NEW auth \in Blob
  PROVE  GrantOf(auth) \subseteq Serial
  BY DEF Blob, GrantOf

\* A token endpoint that issues a set stays a vendor.
LEMMA VendorMintsType ==
  ASSUME TypeOK, NEW n \in Serial, NEW grant \in Serial, NEW rt \in Serial
  PROVE  VendorMints(n, grant, rt) \in Vendor
  BY DEF TypeOK, Vendor, VendorMints

\* apply: the set a refresh returns is a blob, its expiry within the clock's
\* bound.
LEMMA RenewedType ==
  ASSUME NEW auth \in Blob, NEW n \in Serial, NEW rotate \in BOOLEAN, NEW t \in 0..MaxTime
  PROVE  Renewed(auth, n, rotate, t) \in Blob
<1>1. t + Life \in Time
  BY TimesAssumption DEF Time
<1>2. QED
  BY <1>1 DEF Renewed, Blob

\* A re-read under the lock that does not go on to the vendor ends the call with
\* one of Present's outcomes.
LEMMA VerdictType ==
  ASSUME NEW t, Verdict(t) # "go"
  PROVE  Verdict(t) \in CallerOut
  BY DEF Verdict, StillValid, CallerOut

\* The initial states are typed.
LEMMA TypeInit == Init => TypeOK
<1> SUFFICES ASSUME Init PROVE TypeOK
  OBVIOUS
<1>1. PICK url \in Urls, type \in Types : \E auth \in SavedAuth(type, url) :
         /\ row = [live |-> TRUE, url |-> url, type |-> type, auth |-> auth, ver |-> 0]
         /\ vendor = [minted |-> auth.at, live |-> {auth.rt} \ {0}, spent |-> {},
                      twice |-> {}, owner |-> [n \in Serial |-> IF n = 1 THEN auth.grant ELSE 0]]
  BY DEF Init
<1>2. PICK auth \in SavedAuth(type, url) :
         /\ row = [live |-> TRUE, url |-> url, type |-> type, auth |-> auth, ver |-> 0]
         /\ vendor = [minted |-> auth.at, live |-> {auth.rt} \ {0}, spent |-> {},
                      twice |-> {}, owner |-> [n \in Serial |-> IF n = 1 THEN auth.grant ELSE 0]]
  BY <1>1
<1>3. auth \in Blob
  <2>1. [kind: {"tokens"}, at: {1}, rt: {0, 1}, grant: {1}, res: {url},
         exp: {Life}, old: {FALSE}] \subseteq Blob
    BY BoundFacts DEF Blob
  <2>2. CASE type = "none"
    BY <2>2, ConstantTypes DEF SavedAuth
  <2>3. CASE type = "static"
    BY <2>3, PlainType DEF SavedAuth
  <2>4. CASE type = "oauth"
    BY <2>1, <2>4, PlainType, ConstantTypes DEF SavedAuth
  <2>5. QED
    BY <2>2, <2>3, <2>4 DEF Types
<1>4. row \in Row
  BY <1>2, <1>3, BoundsAssumption DEF Row, Stamp
<1>5. vendor \in Vendor
  <2>1. auth.at \in Serial /\ auth.rt \in Serial /\ auth.grant \in Serial /\ 0 \in Serial
    BY <1>3, BoundsAssumption DEF Blob, Serial
  <2>2. QED
    BY <1>2, <2>1 DEF Vendor
<1>6. QED
  BY <1>4, <1>5, ConstantTypes, BoundsAssumption, TimesAssumption
     DEF Init, TypeOK, Stamp, Serial

\* Every step of a proxied call keeps the types.
LEMMA TypeCallerStep ==
  ASSUME TypeOK, NEW c \in Callers, CallerRead(c) \/ CallerStep(c)
  PROVE  TypeOK'
<1> USE DEF TypeOK
<1>0. /\ call[c] \in Call
      /\ call[c].t \in 0..MaxTime /\ call[c].auth \in Blob /\ call[c].next \in Blob
      /\ row.auth \in Blob /\ row.url \in Urls /\ row.type \in Types
      /\ NoAuth \in Blob
  BY ConstantTypes DEF Call, Row
<1>1. CASE CallerRead(c)
  BY <1>0, <1>1, ConstantTypes DEF CallerRead, Call, CallerPC
<1>2. CASE PresentOpen(c)
  <2>1. call' \in [Callers -> Call]
    <3>1. ASSUME NEW out \in CallerOut, NEW auth \in Blob, Return(c, out, auth)
          PROVE  call' \in [Callers -> Call]
      BY <3>1, ReturnType
    <3>2. "ok" \in CallerOut /\ "unreadable" \in CallerOut
      BY DEF CallerOut
    <3>3. CASE call' = [call EXCEPT ![c].pc = "wait", ![c].t = now, ![c].auth = NoAuth]
      BY <1>0, <3>3 DEF Call, CallerPC
    <3>4. QED
      BY <1>0, <1>2, <3>1, <3>2, <3>3 DEF PresentOpen
  <2>2. QED
    BY <1>2, <2>1 DEF PresentOpen
<1>3. CASE PresentLock(c)
  BY <1>0, <1>3 DEF PresentLock, Call, CallerPC, Procs
<1>4. CASE PresentGiveUp(c)
  <2>1. call' \in [Callers -> Call]
    BY <1>0, <1>4, ReturnType DEF PresentGiveUp, CallerOut
  <2>2. QED
    BY <1>4, <2>1 DEF PresentGiveUp
<1>5. CASE PresentReread(c)
  <2>1. CASE Verdict(call[c].t) = "go" /\ call' = [call EXCEPT ![c].pc = "vendor", ![c].auth = row.auth] /\ UNCHANGED lock
    BY <1>0, <1>5, <2>1 DEF PresentReread, Call, CallerPC
  <2>2. CASE Verdict(call[c].t) # "go" /\ Return(c, Verdict(call[c].t), row.auth) /\ Unlock(c)
    <3>1. call' \in [Callers -> Call]
      BY <1>0, <2>2, ReturnType, VerdictType
    <3>2. QED
      BY <1>5, <2>2, <3>1, UnlockType DEF PresentReread
  <2>3. CASE Return(c, "refresh_failed", NoAuth) /\ Unlock(c)
    <3>1. call' \in [Callers -> Call]
      BY <1>0, <2>3, ReturnType DEF CallerOut
    <3>2. QED
      BY <1>5, <2>3, <3>1, UnlockType DEF PresentReread
  <2>4. QED
    BY <1>5, <2>1, <2>2, <2>3 DEF PresentReread
<1>6. CASE VendorRenews(c)
  <2> DEFINE rt == call[c].auth.rt
             n == vendor.minted + 1
  <2>1. n \in Serial /\ rt \in Serial /\ vendor.owner[rt] \in Serial /\ 0 \in Serial
    <3>1. rt \in Serial /\ vendor.minted \in Serial /\ vendor.owner \in [Serial -> Serial]
      BY <1>0 DEF Vendor, Blob
    <3>2. n \in Serial
      BY <1>6, <3>1, BoundsAssumption DEF VendorRenews, Serial
    <3>3. QED
      BY <3>1, <3>2, BoundFacts
  <2>2. PICK rotate \in BOOLEAN, arrives \in BOOLEAN :
         /\ vendor' = [VendorMints(n, vendor.owner[rt], IF rotate THEN n ELSE 0) EXCEPT
                         !.live = IF rotate THEN @ \ {rt} ELSE @,
                         !.spent = IF rotate THEN @ \cup {rt} ELSE @]
         /\ \/ /\ arrives
               /\ call' = [call EXCEPT ![c].pc = "swap",
                             ![c].next = Renewed(call[c].auth, n, rotate, call[c].t)]
               /\ UNCHANGED <<lock, hold, lost>>
            \/ /\ ~arrives
               /\ hold' = call[c].t + HoldOff
               /\ lost' = IF rotate THEN lost \cup {rt} ELSE lost
               /\ Return(c, StillValid(call[c].auth, call[c].t, "refresh_failed"), call[c].auth)
               /\ Unlock(c)
    BY <1>6 DEF VendorRenews
  <2>3. vendor' \in Vendor
    <3>1. VendorMints(n, vendor.owner[rt], IF rotate THEN n ELSE 0) \in Vendor
      BY <2>1, VendorMintsType
    <3> HIDE DEF n, rt
    <3>2. QED
      BY <2>1, <2>2, <3>1 DEF Vendor
  <2>4. Renewed(call[c].auth, n, rotate, call[c].t) \in Blob
    BY <1>0, <2>1, RenewedType
  <2>5. StillValid(call[c].auth, call[c].t, "refresh_failed") \in CallerOut
    BY StillValidType DEF CallerOut
  <2>6. call' \in [Callers -> Call] /\ lock' \in Procs \cup {NoProc}
    <3>1. CASE arrives
      BY <1>0, <2>2, <2>4, <3>1 DEF Call, CallerPC
    <3>2. CASE ~arrives
      BY <1>0, <2>2, <2>5, <3>2, ReturnType, UnlockType
    <3>3. QED
      BY <3>1, <3>2
  <2>7. hold' \in 0..(MaxTime + HoldOff) /\ lost' \subseteq Serial
    BY <1>0, <2>1, <2>2, TimesAssumption
  <2>8. QED
    BY <1>6, <2>3, <2>6, <2>7 DEF VendorRenews
<1>7. CASE VendorUnavailable(c)
  <2>1. StillValid(call[c].auth, call[c].t, "refresh_failed") \in CallerOut
    BY StillValidType DEF CallerOut
  <2>2. call' \in [Callers -> Call] /\ lock' \in Procs \cup {NoProc}
    BY <1>0, <1>7, <2>1, ReturnType, UnlockType DEF VendorUnavailable
  <2>3. hold' \in 0..(MaxTime + HoldOff)
    BY <1>0, <1>7, TimesAssumption DEF VendorUnavailable
  <2>4. QED
    BY <1>7, <2>2, <2>3 DEF VendorUnavailable
<1>8. CASE VendorRejects(c)
  <2>1. call' \in [Callers -> Call]
    BY <1>0, <1>8 DEF VendorRejects, Call, CallerPC
  <2>2. vendor' \in Vendor
    BY <1>0, <1>8 DEF VendorRejects, Vendor, Blob
  <2>3. QED
    BY <1>8, <2>1, <2>2 DEF VendorRejects
<1>9. CASE PresentDrop(c)
  <2>1. call' \in [Callers -> Call] /\ lock' \in Procs \cup {NoProc}
    <3>1. StillValid(call[c].auth, call[c].t, "expired") \in CallerOut
      BY StillValidType DEF CallerOut
    <3>2. QED
      BY <1>0, <1>9, <3>1, ReturnType, UnlockType DEF PresentDrop
  <2>2. row' \in Row
    <3>1. [call[c].auth EXCEPT !.rt = 0, !.old = FALSE] \in Blob
      BY <1>0, BoundFacts DEF Blob
    <3>2. QED
      BY <1>9, <3>1 DEF PresentDrop, Row
  <2>3. QED
    BY <1>9, <2>1, <2>2 DEF PresentDrop
<1>10. CASE PresentSwap(c)
  <2>1. "ok" \in CallerOut
    BY DEF CallerOut
  <2>2. lost' \subseteq Serial
    BY <1>10, ForfeitType DEF PresentSwap
  <2>3. row' \in Row
    BY <1>0, <1>10 DEF PresentSwap, Row
  <2>4. call' \in [Callers -> Call] /\ lock' \in Procs \cup {NoProc}
    <3>1. CASE Return(c, "ok", call[c].next) /\ Unlock(c)
      BY <1>0, <2>1, <3>1, ReturnType, UnlockType
    <3>2. CASE call' = [call EXCEPT ![c].pc = "again"] /\ UNCHANGED lock
      BY <1>0, <3>2 DEF Call, CallerPC
    <3>3. QED
      BY <1>10, <3>1, <3>2 DEF PresentSwap
  <2>5. QED
    BY <1>10, <2>2, <2>3, <2>4 DEF PresentSwap
<1>11. CASE PresentAgain(c)
  <2>1. lost' \subseteq Serial
    BY <1>11, ForfeitType DEF PresentAgain
  <2>2. call' \in [Callers -> Call] /\ lock' \in Procs \cup {NoProc}
    <3>1. ASSUME NEW out \in CallerOut, NEW auth \in Blob, Return(c, out, auth)
          PROVE  call' \in [Callers -> Call]
      BY <3>1, ReturnType
    <3>2. "ok" \in CallerOut /\ "unreadable" \in CallerOut
            /\ StillValid(row.auth, call[c].t, "expired") \in CallerOut
      BY StillValidType DEF CallerOut
    <3>3. CASE call' = [call EXCEPT ![c].pc = "swap2", ![c].auth = row.auth] /\ UNCHANGED lock
      BY <1>0, <3>3 DEF Call, CallerPC
    <3>4. QED
      BY <1>0, <1>11, <3>1, <3>2, <3>3, UnlockType DEF PresentAgain
  <2>3. QED
    BY <1>11, <2>1, <2>2 DEF PresentAgain
<1>12. CASE PresentSwapAgain(c)
  <2>1. call' \in [Callers -> Call] /\ lock' \in Procs \cup {NoProc}
    <3>1. "ok" \in CallerOut
      BY DEF CallerOut
    <3>2. QED
      BY <1>0, <1>12, <3>1, ReturnType, UnlockType DEF PresentSwapAgain
  <2>2. lost' \subseteq Serial
    BY <1>12, ForfeitType DEF PresentSwapAgain
  <2>3. row' \in Row
    BY <1>0, <1>12 DEF PresentSwapAgain, Row
  <2>4. QED
    BY <1>12, <2>1, <2>2, <2>3 DEF PresentSwapAgain
<1>13. CASE CallerForward(c)
  BY <1>13, ConstantTypes DEF CallerForward
<1>14. QED
  BY <1>1, <1>2, <1>3, <1>4, <1>5, <1>6, <1>7, <1>8, <1>9, <1>10, <1>11, <1>12, <1>13
     DEF CallerStep

\* So does an operator's handler that takes the lock, or gives up waiting.
LEMMA TypeAdminLock ==
  ASSUME TypeOK, NEW a \in Admins, NEW from, NEW to \in AdminPC, AdminLock(a, from, to)
  PROVE  TypeOK'
<1>1. CASE adm' = [adm EXCEPT ![a].pc = to] /\ lock' \in {a, lock}
  BY <1>1 DEF TypeOK, AdminLock, Admin, Procs
<1>2. CASE AdminIdle(a) /\ UNCHANGED lock
  <2>1. adm' \in [Admins -> Admin]
    BY <1>2, AdminIdleType
  <2>2. QED
    BY <1>2, <2>1 DEF TypeOK, AdminLock
<1>3. QED
  BY <1>1, <1>2 DEF AdminLock

\* So does every other step of an operator's handler.
LEMMA TypeAdminStep ==
  ASSUME TypeOK, NEW a \in Admins, AdminBegin(a) \/ AdminStep(a)
  PROVE  TypeOK'
<1> USE DEF TypeOK
<1>0. /\ adm[a] \in Admin
      /\ adm[a].seen \in Stamp /\ adm[a].stamp \in Stamp /\ adm[a].url \in Urls
      /\ adm[a].type \in Types /\ adm[a].auth \in Blob
      /\ row.auth \in Blob /\ row.url \in Urls /\ row.type \in Types /\ row.ver \in Stamp
      /\ flow.seen \in Stamp /\ flow.res \in Urls
      /\ NoAuth \in Blob /\ NoFlow \in Flow /\ Rest \in Admin
      /\ 0 \in Stamp
      /\ stamp < MaxStamp => stamp + 1 \in Stamp
      /\ GrantOf(row.auth) \subseteq Serial
  <2>1. stamp < MaxStamp => stamp + 1 \in Stamp
    BY BoundsAssumption DEF Stamp
  <2>2. row.auth \in Blob
    BY DEF Row
  <2>3. QED
    BY <2>1, <2>2, ConstantTypes, GrantOfType, BoundFacts DEF Admin, Row, Flow
<1>1. AdminIdle(a) => adm' \in [Admins -> Admin]
  BY AdminIdleType
<1>2. Unlock(a) => lock' \in Procs \cup {NoProc}
  BY UnlockType
<1>3. CASE StartRead(a)
  BY <1>0, <1>3 DEF StartRead, Admin, AdminPC
<1>4. CASE StartPut(a)
  <2>0. [on |-> TRUE, seen |-> adm[a].seen, res |-> adm[a].url] \in Flow
    BY <1>0 DEF Flow
  <2>1. flow' \in Flow
    BY <1>0, <1>4, <2>0 DEF StartPut
  <2>2. QED
    BY <1>1, <1>4, <2>1 DEF StartPut
<1>5. CASE CallbackTake(a)
  <2>1. [Plain("client", flow.res) EXCEPT !.exp = now + Life] \in Blob
    <3>1. now + Life \in Time
      BY TimesAssumption DEF Time
    <3>2. QED
      BY <1>0, <3>1, PlainType DEF Blob
  <2>2. stamp' \in Stamp
    BY <1>0, <1>5 DEF CallbackTake
  <2>3. adm' \in [Admins -> Admin]
    <3>1. CASE UNCHANGED adm
      BY <3>1
    <3>2. CASE stamp < MaxStamp /\ adm' = [adm EXCEPT ![a] = [Rest EXCEPT !.pc = "exchange",
                 !.seen = flow.seen, !.stamp = stamp + 1,
                 !.auth = [Plain("client", flow.res) EXCEPT !.exp = now + Life]]]
      <4> DEFINE b == [Plain("client", flow.res) EXCEPT !.exp = now + Life]
      <4>1. b \in Blob /\ flow.seen \in Stamp /\ stamp + 1 \in Stamp /\ Rest \in Admin
        BY <1>0, <2>1, <3>2
      <4> HIDE DEF b
      <4>2. [Rest EXCEPT !.pc = "exchange", !.seen = flow.seen, !.stamp = stamp + 1,
                         !.auth = b] \in Admin
        BY <4>1 DEF Admin, AdminPC
      <4>3. QED
        BY <3>2, <4>2 DEF b
    <3>3. QED
      BY <1>5, <3>1, <3>2 DEF CallbackTake
  <2>4. QED
    BY <1>0, <1>5, <2>2, <2>3 DEF CallbackTake
<1>6. CASE CallbackExchange(a)
  <2> DEFINE n == vendor.minted + 1
  <2>1. CASE n <= MaxSerial
    <3>0. vendor.minted \in Serial
      BY DEF Vendor
    <3>1. n \in Serial /\ 0 \in Serial
      BY <2>1, <3>0, BoundsAssumption DEF Serial
    <3> HIDE DEF n
    <3>2. \A rt \in {0, n} : /\ VendorMints(n, n, rt) \in Vendor
                             /\ [adm[a].auth EXCEPT !.kind = "tokens", !.at = n, !.rt = rt,
                                                  !.grant = n] \in Blob
      BY <1>0, <3>1, VendorMintsType DEF Blob
    <3>3. QED
      BY <1>0, <1>1, <1>6, <3>2 DEF n, CallbackExchange, Admin, AdminPC
  <2>2. CASE ~(n <= MaxSerial)
    BY <1>1, <1>6, <2>2 DEF CallbackExchange
  <2>3. QED
    BY <2>1, <2>2
<1>7. CASE CallbackLock(a) \/ PatchLock(a) \/ RevokeLock(a)
  <2>1. "connect" \in AdminPC /\ "patch" \in AdminPC /\ "revokeRead" \in AdminPC
    BY DEF AdminPC
  <2>2. QED
    BY <1>7, <2>1, TypeAdminLock DEF CallbackLock, PatchLock, RevokeLock
<1>8. CASE CallbackConnect(a)
  BY <1>0, <1>1, <1>2, <1>8 DEF CallbackConnect, Row
<1>9. CASE PatchRead(a)
  <2>1. stamp + 1 \in Stamp
    BY <1>0, <1>9 DEF PatchRead
  <2>2. ASSUME NEW url \in Urls, NEW type \in Types, NEW cfg \in {"absent", "clear", "value"},
               NEW named \in BOOLEAN, NEW namesType \in BOOLEAN
        PROVE  Patched(url, type, cfg, named, namesType) \in Admin
    <3>1. Encrypted(type, cfg, url) \in Blob
      BY <1>0, PlainType DEF Encrypted
    <3>2. QED
      BY <1>0, <2>1, <3>1 DEF Patched, Admin, AdminPC
  <2>3. ASSUME NEW k \in Admin, adm' = [adm EXCEPT ![a] = k]
        PROVE  adm' \in [Admins -> Admin]
    BY <2>3
  <2>4. adm' \in [Admins -> Admin]
    BY <1>9, <2>2, <2>3, Zenon DEF PatchRead
  <2>5. QED
    BY <1>9, <2>1, <2>4 DEF PatchRead
<1>10. CASE PatchWrite(a)
  <2>1. row' \in Row /\ ended' \subseteq Serial
    BY <1>0, <1>10 DEF PatchWrite, Row
  <2>2. adm' \in [Admins -> Admin] /\ lock' \in Procs \cup {NoProc}
    <3>1. CASE adm' = [adm EXCEPT ![a] = [Rest EXCEPT !.pc = "patchDrop"]] /\ UNCHANGED lock
      BY <1>0, <3>1 DEF Admin, AdminPC
    <3>2. CASE AdminIdle(a) /\ Unlock(a)
      BY <1>1, <1>2, <3>2
    <3>3. QED
      BY <1>10, <3>1, <3>2 DEF PatchWrite
  <2>3. QED
    BY <1>10, <2>1, <2>2 DEF PatchWrite
<1>11. CASE PatchDropFlow(a)
  BY <1>0, <1>1, <1>2, <1>11 DEF PatchDropFlow
<1>12. CASE DeleteUpstream(a)
  BY <1>0, <1>12 DEF DeleteUpstream, Row
<1>13. CASE RevokeRead(a)
  BY <1>0, <1>13 DEF RevokeRead, Admin, AdminPC
<1>14. CASE RevokeReread(a)
  BY <1>0, <1>1, <1>2, <1>14 DEF RevokeReread, Admin, AdminPC
<1>15. CASE RevokeVendor(a)
  <2>1. vendor' \in Vendor
    BY <1>15 DEF RevokeVendor, Vendor
  <2>2. QED
    BY <1>0, <1>15, <2>1 DEF RevokeVendor, Admin, AdminPC
<1>16. CASE RevokeWrite(a)
  <2>1. row' \in Row /\ ended' \subseteq Serial
    BY <1>0, <1>16 DEF RevokeWrite, Disconnect, Row
  <2>2. adm' \in [Admins -> Admin] /\ lock' \in Procs \cup {NoProc}
    <3>1. CASE AdminIdle(a) /\ Unlock(a)
      BY <1>1, <1>2, <3>1
    <3>2. CASE adm' = [adm EXCEPT ![a].pc = "revokeAgain"] /\ UNCHANGED lock
      BY <1>0, <3>2 DEF Admin, AdminPC
    <3>3. QED
      BY <1>16, <3>1, <3>2 DEF RevokeWrite
  <2>3. QED
    BY <1>16, <2>1, <2>2 DEF RevokeWrite
<1>17. CASE RevokeAgain(a)
  BY <1>0, <1>1, <1>2, <1>17 DEF RevokeAgain, Admin, AdminPC
<1>18. CASE RevokeWriteAgain(a)
  BY <1>0, <1>1, <1>2, <1>18 DEF RevokeWriteAgain, Disconnect, Row
<1>19. QED
  BY <1>3, <1>4, <1>5, <1>6, <1>7, <1>8, <1>9, <1>10, <1>11, <1>12, <1>13, <1>14, <1>15,
     <1>16, <1>17, <1>18 DEF AdminBegin, AdminStep

\* So do the steps no request makes: a flow expires, a rekey, the clock, a restart.
LEMMA TypeWorldStep ==
  ASSUME TypeOK, FlowExpires \/ Rekey \/ Tick \/ Restart
  PROVE  TypeOK'
<1> USE DEF TypeOK
<1>1. CASE FlowExpires
  BY <1>1, ConstantTypes DEF FlowExpires
<1>2. CASE Rekey
  BY <1>2 DEF Rekey, Row, Blob
<1>3. CASE Tick
  BY <1>3, TimesAssumption DEF Tick
<1>4. CASE Restart
  <2>1. row' \in Row
    BY <1>4 DEF Restart, Row, Blob
  <2>2. lost' \subseteq Serial
    BY <1>4, ForfeitType DEF Restart
  <2>3. call' \in [Callers -> Call] /\ adm' \in [Admins -> Admin] /\ flow' \in Flow
    BY <1>4, ConstantTypes DEF Restart
  <2>4. hold' \in 0..(MaxTime + HoldOff) /\ restarts' \in 0..MaxRestarts
    BY <1>4, TimesAssumption, BoundsAssumption DEF Restart
  <2>5. QED
    BY <1>4, <2>1, <2>2, <2>3, <2>4 DEF Restart
<1>5. QED
  BY <1>1, <1>2, <1>3, <1>4

\* Type correctness is inductive.
LEMMA TypeStep == TypeOK /\ [Next]_vars => TypeOK'
<1> SUFFICES ASSUME TypeOK, [Next]_vars PROVE TypeOK'
  OBVIOUS
<1>1. CASE \E c \in Callers : CallerRead(c) \/ CallerStep(c)
  BY <1>1, TypeCallerStep
<1>2. CASE \E a \in Admins : AdminBegin(a) \/ AdminStep(a)
  BY <1>2, TypeAdminStep
<1>3. CASE FlowExpires \/ Rekey \/ Tick \/ Restart
  BY <1>3, TypeWorldStep
<1>4. CASE UNCHANGED vars
  BY <1>4 DEF TypeOK, vars
<1>5. QED
  BY <1>1, <1>2, <1>3, <1>4 DEF Next

\* Every variable keeps its type, whatever the bounds: no expiry, stamp or
\* serial the handlers compute leaves its range.
THEOREM TypeCorrect == Spec => []TypeOK
  BY TypeInit, TypeStep, PTL DEF Spec

-----------------------------------------------------------------------------
(* A refresh token is not spent twice. The argument: only the caller that  *)
(* holds the lock spends a token, it spends the one the row held when it   *)
(* was read again under the lock, and until its successor is stored (or    *)
(* given up) the lock is not let go.                                       *)

Critical == {"reread", "vendor", "drop", "swap", "again", "swap2"}
Unstored == {"swap", "again", "swap2"}

LockInv == \A c \in Callers : call[c].pc \in Critical => lock = c

\* Serials the vendor has not minted yet are nowhere.
MintedInv ==
    /\ 0 \notin vendor.spent
    /\ \A r \in vendor.spent : r <= vendor.minted
    /\ row.auth.rt <= vendor.minted
    /\ \A c \in Callers : call[c].auth.rt <= vendor.minted /\ call[c].next.rt <= vendor.minted
    /\ \A a \in Admins : adm[a].auth.rt <= vendor.minted

\* A token that is in the row although it was spent: its successor was given
\* up, or is still in the hands of the caller that spent it.
RowInv ==
    row.auth.rt \in vendor.spent =>
        \/ row.auth.rt \in lost
        \/ \E c \in Callers : call[c].pc \in Unstored /\ call[c].auth.rt = row.auth.rt

CallInv ==
    \A c \in Callers :
        /\ call[c].pc = "vendor" => /\ call[c].auth.rt # 0
                                    /\ call[c].auth.rt \in vendor.spent => call[c].auth.rt \in lost
        /\ call[c].pc \in Unstored =>
              /\ call[c].next.rt # call[c].auth.rt => call[c].next.rt \notin vendor.spent
              /\ call[c].next.rt = call[c].auth.rt =>
                    (call[c].auth.rt \in vendor.spent => call[c].auth.rt \in lost)

\* The refresh token of a sign-in that is not stored yet is held by nobody else.
SignInHolds(a) == adm[a].pc \in {"connectLock", "connect"} /\ adm[a].auth.rt # 0

SignInInv ==
    \A a \in Admins :
        SignInHolds(a) =>
            /\ adm[a].auth.rt \notin vendor.spent
            /\ adm[a].auth.rt # row.auth.rt
            /\ \A c \in Callers :
                  /\ call[c].pc = "vendor" => call[c].auth.rt # adm[a].auth.rt
                  /\ call[c].pc \in Unstored => call[c].next.rt # adm[a].auth.rt
            /\ \A b \in Admins \ {a} : SignInHolds(b) => adm[b].auth.rt # adm[a].auth.rt

PatchInv == \A a \in Admins : adm[a].pc \in {"patchLock", "patch"} => adm[a].auth.rt = 0

SpendInv ==
    /\ LockInv /\ MintedInv /\ RowInv /\ CallInv /\ SignInInv /\ PatchInv
    /\ NoDoubleSpend

\* Before any refresh nothing is spent.
LEMMA SpendInit == Init => SpendInv
<1> SUFFICES ASSUME Init PROVE SpendInv
  OBVIOUS
<1>1. /\ call = [c \in Callers |-> Idle] /\ adm = [a \in Admins |-> Rest]
      /\ Idle.pc = "idle" /\ Idle.auth.rt = 0 /\ Idle.next.rt = 0
      /\ Rest.pc = "idle" /\ Rest.auth.rt = 0
  BY DEF Init, Idle, Rest, NoAuth, Plain
<1>2. vendor.spent = {} /\ vendor.twice = {}
  BY DEF Init
<1>3. row.auth.rt <= vendor.minted /\ vendor.minted >= 0
  <2>1. PICK url \in Urls, type \in Types : \E auth \in SavedAuth(type, url) :
           row.auth = auth /\ vendor.minted = auth.at
    BY DEF Init
  <2>2. PICK auth \in SavedAuth(type, url) : row.auth = auth /\ vendor.minted = auth.at
    BY <2>1
  <2>3. auth.rt <= auth.at /\ auth.at \in {0, 1}
    <3>1. NoAuth.rt = 0 /\ NoAuth.at = 0
      BY DEF NoAuth, Plain
    <3>2. \A kind : Plain(kind, url).rt = 0 /\ Plain(kind, url).at = 0
      BY DEF Plain
    <3>3. \A b \in [kind: {"tokens"}, at: {1}, rt: {0, 1}, grant: {1}, res: {url},
                    exp: {Life}, old: {FALSE}] : b.rt <= b.at /\ b.at = 1
      OBVIOUS
    <3>4. CASE type = "none"
      BY <3>1, <3>4 DEF SavedAuth
    <3>5. CASE type = "static"
      BY <3>2, <3>5 DEF SavedAuth
    <3>6. CASE type = "oauth"
      <4>1. CASE auth \in {NoAuth, Plain("client", url)}
        BY <3>1, <3>2, <4>1
      <4>2. CASE auth \in [kind: {"tokens"}, at: {1}, rt: {0, 1}, grant: {1}, res: {url},
                           exp: {Life}, old: {FALSE}]
        BY <3>3, <4>2
      <4>3. QED
        BY <3>6, <4>1, <4>2 DEF SavedAuth
    <3>7. QED
      BY <3>4, <3>5, <3>6 DEF Types
  <2>4. QED
    BY <2>2, <2>3
<1>4. QED
  BY <1>1, <1>2, <1>3
     DEF SpendInv, LockInv, MintedInv, RowInv, CallInv, SignInInv, SignInHolds, PatchInv,
         NoDoubleSpend, Critical, Unstored

\* A step of caller c that mints and spends nothing.
LEMMA CallerMoves ==
  ASSUME TypeOK, TypeOK', SpendInv, NEW c \in Callers,
         UNCHANGED adm,
         \A d \in Callers \ {c} : call'[d] = call[d],
         vendor'.spent = vendor.spent, vendor'.minted = vendor.minted,
         vendor'.twice \subseteq lost', lost \subseteq lost',
         \A d \in Callers \ {c} : lock = d => lock' = d,
         call'[c].pc \in Critical => lock' = c,
         call'[c].auth.rt <= vendor.minted, call'[c].next.rt <= vendor.minted,
         \/ row'.auth.rt \in {row.auth.rt, 0}
         \/ call[c].pc \in Unstored /\ row'.auth.rt = call[c].next.rt,
         call'[c].pc = "vendor" => call'[c].auth.rt = row.auth.rt,
         call'[c].pc \in Unstored => call[c].pc \in Unstored /\ call'[c].next.rt = call[c].next.rt,
         call'[c].pc = "vendor" => call'[c].auth.rt # 0,
         call'[c].pc = "vendor" /\ call'[c].auth.rt \in vendor.spent => call'[c].auth.rt \in lost',
         call'[c].pc \in Unstored => call'[c].auth.rt = call[c].auth.rt,
         RowInv'
  PROVE  SpendInv'
<1>1. LockInv'
  BY DEF SpendInv, LockInv
<1>2. MintedInv'
  <2>1. row'.auth.rt <= vendor'.minted
    <3>1. vendor.minted >= 0
      BY DEF TypeOK, Vendor, Serial
    <3>2. QED
      BY <3>1 DEF SpendInv, MintedInv
  <2>2. QED
    BY <2>1 DEF SpendInv, MintedInv
<1>3. CallInv'
  <2> DEFINE Ok(k, spent, gone) ==
        /\ k.pc = "vendor" => k.auth.rt # 0 /\ (k.auth.rt \in spent => k.auth.rt \in gone)
        /\ k.pc \in Unstored =>
              /\ k.next.rt # k.auth.rt => k.next.rt \notin spent
              /\ k.next.rt = k.auth.rt => (k.auth.rt \in spent => k.auth.rt \in gone)
  <2>1. \A d \in Callers : Ok(call[d], vendor.spent, lost)
    BY DEF SpendInv, CallInv
  <2>2. \A d \in Callers \ {c} : Ok(call'[d], vendor'.spent, lost')
    BY <2>1
  <2>3. Ok(call'[c], vendor'.spent, lost')
    BY <2>1
  <2>4. \A d \in Callers : Ok(call'[d], vendor'.spent, lost')
    BY <2>2, <2>3
  <2>5. QED
    BY <2>4 DEF CallInv
<1>4. SignInInv'
  <2> SUFFICES ASSUME NEW a \in Admins, SignInHolds(a)'
               PROVE  /\ adm'[a].auth.rt \notin vendor'.spent
                      /\ adm'[a].auth.rt # row'.auth.rt
                      /\ \A d \in Callers :
                            /\ call'[d].pc = "vendor" => call'[d].auth.rt # adm'[a].auth.rt
                            /\ call'[d].pc \in Unstored => call'[d].next.rt # adm'[a].auth.rt
                      /\ \A b \in Admins \ {a} : SignInHolds(b)' => adm'[b].auth.rt # adm'[a].auth.rt
    BY DEF SignInInv
  <2>1. SignInHolds(a) /\ adm[a].auth.rt # 0
    BY DEF SignInHolds
  <2>2. /\ adm[a].auth.rt \notin vendor.spent
        /\ adm[a].auth.rt # row.auth.rt
        /\ \A d \in Callers :
              /\ call[d].pc = "vendor" => call[d].auth.rt # adm[a].auth.rt
              /\ call[d].pc \in Unstored => call[d].next.rt # adm[a].auth.rt
        /\ \A b \in Admins \ {a} : SignInHolds(b) => adm[b].auth.rt # adm[a].auth.rt
    BY <2>1 DEF SpendInv, SignInInv
  <2>3. adm'[a].auth.rt # row'.auth.rt
    BY <2>1, <2>2
  <2>4. \A b \in Admins \ {a} : SignInHolds(b)' => adm'[b].auth.rt # adm'[a].auth.rt
    BY <2>2 DEF SignInHolds
  <2>5. \A d \in Callers :
              /\ call'[d].pc = "vendor" => call'[d].auth.rt # adm'[a].auth.rt
              /\ call'[d].pc \in Unstored => call'[d].next.rt # adm'[a].auth.rt
    <3>1. \A d \in Callers \ {c} :
              /\ call'[d].pc = "vendor" => call'[d].auth.rt # adm'[a].auth.rt
              /\ call'[d].pc \in Unstored => call'[d].next.rt # adm'[a].auth.rt
      BY <2>2
    <3>2. /\ call'[c].pc = "vendor" => call'[c].auth.rt # adm'[a].auth.rt
          /\ call'[c].pc \in Unstored => call'[c].next.rt # adm'[a].auth.rt
      BY <2>2
    <3>3. QED
      BY <3>1, <3>2
  <2>6. QED
    BY <2>2, <2>3, <2>4, <2>5
<1>5. PatchInv'
  BY DEF SpendInv, PatchInv
<1>6. QED
  BY <1>1, <1>2, <1>3, <1>4, <1>5 DEF SpendInv, NoDoubleSpend

\* Return ends the call: it holds no renewed set any more.
LEMMA ReturnEffect ==
  ASSUME TypeOK, NEW c \in Callers, NEW out, NEW auth, Return(c, out, auth)
  PROVE  /\ call'[c].pc = "done" /\ call'[c].next.rt = 0
         /\ call'[c].auth.rt \in {auth.rt, 0}
         /\ \A d \in Callers \ {c} : call'[d] = call[d]
<1>1. NoAuth.rt = 0 /\ Idle.next.rt = 0
  BY DEF NoAuth, Idle, Plain
<1>2. call'[c] = [Idle EXCEPT !.pc = "done", !.url = call[c].url,
                    !.auth = IF out = "ok" THEN auth ELSE NoAuth, !.out = out]
  BY DEF Return, TypeOK
<1>3. call'[c].pc = "done" /\ call'[c].next.rt = 0
  BY <1>1, <1>2 DEF Idle
<1>4. call'[c].auth = IF out = "ok" THEN auth ELSE NoAuth
  BY <1>2 DEF Idle
<1>5. QED
  BY <1>1, <1>3, <1>4 DEF Return, TypeOK

\* A step that returns from Present without storing anything.
LEMMA CallerReturns ==
  ASSUME TypeOK, TypeOK', SpendInv, NEW c \in Callers, NEW out, NEW auth,
         Return(c, out, auth),
         UNCHANGED <<adm, vendor>>, row'.auth.rt \in {row.auth.rt, 0},
         lost \subseteq lost', \A d \in Callers \ {c} : lock = d => lock' = d,
         auth.rt <= vendor.minted,
         call[c].pc \in Unstored => (call[c].auth.rt \in vendor.spent => call[c].auth.rt \in lost')
  PROVE  SpendInv'
<1>1. /\ call'[c].pc = "done" /\ call'[c].next.rt = 0
      /\ call'[c].auth.rt \in {auth.rt, 0}
      /\ \A d \in Callers \ {c} : call'[d] = call[d]
  BY ReturnEffect
<1>2. vendor.minted >= 0 /\ call'[c].pc \notin Critical /\ call'[c].pc \notin Unstored
  BY <1>1 DEF TypeOK, Vendor, Serial, Critical, Unstored
<1>3. RowInv'
  <2> SUFFICES ASSUME row'.auth.rt \in vendor.spent
               PROVE  \/ row'.auth.rt \in lost'
                      \/ \E d \in Callers : call'[d].pc \in Unstored /\ call'[d].auth.rt = row'.auth.rt
    BY DEF RowInv
  <2>1. row'.auth.rt = row.auth.rt
    BY DEF SpendInv, MintedInv
  <2>2. CASE row.auth.rt \in lost
    BY <2>1, <2>2
  <2>3. CASE \E d \in Callers : call[d].pc \in Unstored /\ call[d].auth.rt = row.auth.rt
    BY <1>1, <2>1, <2>3
  <2>4. QED
    BY <2>1, <2>2, <2>3 DEF SpendInv, RowInv
<1>4. vendor.twice \subseteq lost'
  BY DEF SpendInv, NoDoubleSpend
<1>5. QED
  BY <1>1, <1>2, <1>3, <1>4, CallerMoves

\* Forfeit pays for a set that is given up.
LEMMA ForfeitPays ==
  ASSUME SpendInv, NEW c \in Callers, call[c].pc \in Unstored, Forfeit(c) \cup lost \subseteq lost'
  PROVE  call[c].auth.rt \in vendor.spent => call[c].auth.rt \in lost'
  BY DEF SpendInv, CallInv, Forfeit

\* Releasing the lock takes it from nobody else.
LEMMA UnlockOthers ==
  ASSUME TypeOK, NEW c \in Procs, Unlock(c)
  PROVE  \A d \in Callers \ {c} : lock = d => lock' = d
  BY DEF Unlock

\* The renewed set is stored: the row holds no spent token.
LEMMA SwapStores ==
  ASSUME TypeOK, TypeOK', SpendInv, NEW c \in Callers, call[c].pc \in Unstored,
         row'.auth = call[c].next, Return(c, "ok", call[c].next),
         UNCHANGED <<adm, vendor, lost>>, \A d \in Callers \ {c} : lock = d => lock' = d
  PROVE  SpendInv'
<1>1. /\ call'[c].pc = "done" /\ call'[c].next.rt = 0
      /\ call'[c].auth.rt \in {call[c].next.rt, 0}
      /\ \A d \in Callers \ {c} : call'[d] = call[d]
  BY ReturnEffect
<1>2. /\ vendor.minted >= 0 /\ call[c].next.rt <= vendor.minted
      /\ call'[c].pc \notin Critical /\ call'[c].pc \notin Unstored
      /\ vendor.twice \subseteq lost
  BY <1>1 DEF TypeOK, Vendor, Serial, Critical, Unstored, SpendInv, MintedInv, NoDoubleSpend
<1>3. RowInv'
  BY DEF SpendInv, CallInv, RowInv
<1>4. QED
  BY <1>1, <1>2, <1>3, CallerMoves

\* The one step that spends a refresh token.
LEMMA SpendRenews ==
  ASSUME TypeOK, TypeOK', SpendInv, NEW c \in Callers, VendorRenews(c)
  PROVE  SpendInv'
<1> DEFINE rt == call[c].auth.rt
           n == vendor.minted + 1
<1>1. /\ call[c].pc = "vendor" /\ lock = c /\ rt # 0
      /\ \A d \in Callers \ {c} : call[d].pc \notin Critical
      /\ vendor.minted \in Nat /\ n \in Serial /\ rt <= vendor.minted /\ rt \in Int
      /\ row.auth.rt <= vendor.minted
  <2>1. call[c].pc = "vendor" /\ lock = c
    BY DEF VendorRenews, SpendInv, LockInv, Critical
  <2>2. vendor.minted \in Nat /\ n \in Serial /\ rt \in Int
    <3>1. vendor.minted \in Serial /\ rt \in Serial /\ n <= MaxSerial
      BY DEF VendorRenews, TypeOK, Vendor, Call, Blob
    <3>2. QED
      BY <3>1, BoundsAssumption DEF Serial
  <2>3. QED
    BY <2>1, <2>2 DEF SpendInv, LockInv, CallInv, MintedInv
<1>2. PICK rotate \in BOOLEAN, arrives \in BOOLEAN :
         /\ vendor' = [VendorMints(n, vendor.owner[rt], IF rotate THEN n ELSE 0) EXCEPT
                         !.live = IF rotate THEN @ \ {rt} ELSE @,
                         !.spent = IF rotate THEN @ \cup {rt} ELSE @]
         /\ \/ /\ arrives
               /\ call' = [call EXCEPT ![c].pc = "swap",
                             ![c].next = Renewed(call[c].auth, n, rotate, call[c].t)]
               /\ UNCHANGED <<lock, hold, lost>>
            \/ /\ ~arrives
               /\ hold' = call[c].t + HoldOff
               /\ lost' = IF rotate THEN lost \cup {rt} ELSE lost
               /\ Return(c, StillValid(call[c].auth, call[c].t, "refresh_failed"), call[c].auth)
               /\ Unlock(c)
  BY DEF VendorRenews
<1>3. /\ vendor'.minted = n /\ vendor'.twice = vendor.twice
      /\ vendor'.spent = IF rotate THEN vendor.spent \cup {rt} ELSE vendor.spent
  BY <1>2 DEF VendorMints, TypeOK, Vendor
<1>4. UNCHANGED <<row, adm>>
  BY DEF VendorRenews
<1>5. /\ \A d \in Callers \ {c} : call'[d] = call[d] /\ call'[d].pc \notin Critical
      /\ \/ /\ call'[c].pc = "swap" /\ call'[c].auth = call[c].auth
            /\ call'[c].next.rt = IF rotate THEN n ELSE rt
            /\ lost' = lost /\ lock' = c
         \/ /\ call'[c].pc = "done" /\ call'[c].next.rt = 0 /\ call'[c].auth.rt \in {rt, 0}
            /\ lost' = IF rotate THEN lost \cup {rt} ELSE lost
  <2>0. call \in [Callers -> Call] /\ call[c].auth \in Blob
    BY DEF TypeOK, Call
  <2>1. CASE arrives
    <3>1. Renewed(call[c].auth, n, rotate, call[c].t).rt = IF rotate THEN n ELSE rt
      BY <2>0 DEF Renewed, Blob
    <3>2. call'[c].pc = "swap" /\ call'[c].auth = call[c].auth
            /\ call'[c].next = Renewed(call[c].auth, n, rotate, call[c].t)
      BY <1>2, <2>0, <2>1 DEF Call
    <3>3. QED
      BY <1>1, <1>2, <2>0, <2>1, <3>1, <3>2
  <2>2. CASE ~arrives
    BY <1>1, <1>2, <2>2, ReturnEffect
  <2>3. QED
    BY <2>1, <2>2
<1> HIDE DEF n, rt
<1>6. LockInv'
  BY <1>5 DEF LockInv, Critical
<1>7. MintedInv'
  <2>1. n >= vendor.minted /\ rt <= n /\ 0 <= n
    BY <1>1 DEF n
  <2>2. \A r \in vendor'.spent : r <= vendor'.minted
    <3>1. \A r \in vendor.spent : r <= n
      BY <1>1 DEF SpendInv, MintedInv, n, TypeOK, Vendor, Serial
    <3>2. QED
      BY <1>3, <2>1, <3>1
  <2>3. \A d \in Callers : call'[d].auth.rt <= n /\ call'[d].next.rt <= n
    <3>1. \A d \in Callers \ {c} : call'[d].auth.rt <= n /\ call'[d].next.rt <= n
      <4>1. \A d \in Callers : /\ call[d].auth.rt <= vendor.minted /\ call[d].next.rt <= vendor.minted
                              /\ call[d].auth.rt \in Int /\ call[d].next.rt \in Int
        BY DEF SpendInv, MintedInv, TypeOK, Call, Blob, Serial
      <4>2. QED
        BY <1>1, <1>5, <4>1 DEF n
    <3>2. call'[c].auth.rt <= n /\ call'[c].next.rt <= n
      BY <1>1, <1>5, <2>1 DEF n, rt
    <3>3. QED
      BY <3>1, <3>2
  <2>4. \A a \in Admins : adm'[a].auth.rt <= n
    <3>1. \A a \in Admins : adm[a].auth.rt <= vendor.minted /\ adm[a].auth.rt \in Int
      BY DEF SpendInv, MintedInv, TypeOK, Admin, Blob, Serial
    <3>2. QED
      BY <1>1, <1>4, <3>1 DEF n
  <2>5. row'.auth.rt <= n
    BY <1>1, <1>4 DEF n, TypeOK, Row, Blob, Serial
  <2>6. 0 \notin vendor'.spent
    BY <1>1, <1>3 DEF SpendInv, MintedInv
  <2>7. QED
    BY <1>3, <2>2, <2>3, <2>4, <2>5, <2>6 DEF MintedInv
<1>8. RowInv'
  <2> SUFFICES ASSUME row.auth.rt \in vendor'.spent
               PROVE  \/ row.auth.rt \in lost'
                      \/ \E d \in Callers : call'[d].pc \in Unstored /\ call'[d].auth.rt = row.auth.rt
    BY <1>4 DEF RowInv
  <2>1. CASE rotate /\ row.auth.rt = rt
    BY <1>5, <2>1 DEF Unstored, rt
  <2>2. CASE row.auth.rt \in vendor.spent
    <3>1. row.auth.rt \in lost
      BY <1>1, <2>2 DEF SpendInv, RowInv, Critical, Unstored
    <3>2. QED
      BY <1>5, <3>1
  <2>3. QED
    BY <1>3, <2>1, <2>2
<1>9. CallInv'
  <2>1. \A d \in Callers \ {c} : call'[d].pc # "vendor" /\ call'[d].pc \notin Unstored
    BY <1>5 DEF Critical, Unstored
  <2>2. CASE call'[c].pc = "done"
    BY <2>1, <2>2 DEF CallInv, Unstored
  <2>3. CASE call'[c].pc = "swap"
    <3>1. n \notin vendor.spent /\ n # rt
      BY <1>1 DEF SpendInv, MintedInv, n
    <3>2. rt \in vendor.spent => rt \in lost
      BY <1>1 DEF SpendInv, CallInv, rt
    <3>3. QED
      BY <1>3, <1>5, <2>1, <2>3, <3>1, <3>2 DEF CallInv, Unstored, rt
  <2>4. QED
    BY <1>5, <2>2, <2>3
<1>10. SignInInv'
  <2> SUFFICES ASSUME NEW a \in Admins, SignInHolds(a)
               PROVE  /\ adm[a].auth.rt \notin vendor'.spent
                      /\ adm[a].auth.rt # row.auth.rt
                      /\ \A d \in Callers :
                            /\ call'[d].pc = "vendor" => call'[d].auth.rt # adm[a].auth.rt
                            /\ call'[d].pc \in Unstored => call'[d].next.rt # adm[a].auth.rt
                      /\ \A b \in Admins \ {a} : SignInHolds(b) => adm[b].auth.rt # adm[a].auth.rt
    BY <1>4 DEF SignInInv, SignInHolds
  <2>1. /\ adm[a].auth.rt \notin vendor.spent
        /\ adm[a].auth.rt # row.auth.rt
        /\ adm[a].auth.rt # rt
        /\ \A b \in Admins \ {a} : SignInHolds(b) => adm[b].auth.rt # adm[a].auth.rt
    BY <1>1 DEF SpendInv, SignInInv, rt
  <2>2. adm[a].auth.rt # n
    BY <1>1 DEF SpendInv, MintedInv, n
  <2>3. \A d \in Callers : /\ call'[d].pc # "vendor"
                           /\ call'[d].pc \in Unstored => call'[d].next.rt # adm[a].auth.rt
    BY <1>5, <2>1, <2>2 DEF Critical, Unstored
  <2>4. QED
    BY <1>3, <2>1, <2>3
<1>11. PatchInv'
  BY <1>4 DEF SpendInv, PatchInv
<1>12. NoDoubleSpend'
  BY <1>3, <1>5 DEF SpendInv, NoDoubleSpend
<1>13. QED
  BY <1>6, <1>7, <1>8, <1>9, <1>10, <1>11, <1>12 DEF SpendInv

\* Every step of a proxied call keeps SpendInv: only the lock's holder redeems,
\* and what it redeems is what the row holds.
LEMMA SpendCallerStep ==
  ASSUME TypeOK, TypeOK', SpendInv, NEW c \in Callers, CallerRead(c) \/ CallerStep(c)
  PROVE  SpendInv'
<1>0. /\ NoAuth.rt = 0 /\ vendor.minted \in Nat /\ c \in Procs
      /\ row.auth.rt <= vendor.minted /\ call[c].auth.rt <= vendor.minted
      /\ call[c].next.rt <= vendor.minted
      /\ vendor.twice \subseteq lost
      /\ call \in [Callers -> Call]
  BY DEF NoAuth, Plain, TypeOK, Vendor, Serial, Procs, SpendInv, MintedInv, NoDoubleSpend
<1>r. ASSUME NEW out, NEW auth, Return(c, out, auth), UNCHANGED <<adm, vendor, row>>,
             lost \subseteq lost', \A d \in Callers \ {c} : lock = d => lock' = d,
             auth.rt <= vendor.minted,
             call[c].pc \in Unstored => (call[c].auth.rt \in vendor.spent => call[c].auth.rt \in lost')
      PROVE  SpendInv'
  BY <1>r, CallerReturns
<1>u. Unlock(c) => \A d \in Callers \ {c} : lock = d => lock' = d
  BY <1>0, UnlockOthers
\* A step that only moves c, not out of the states that hold a renewed set.
<1>m. ASSUME UNCHANGED <<row, vendor, adm>>, lost' = lost,
             \A d \in Callers \ {c} : call'[d] = call[d],
             call[c].pc \notin Unstored \/ (/\ call'[c].pc \in Unstored
                                            /\ call'[c].auth.rt = call[c].auth.rt)
      PROVE  RowInv'
  BY <1>m DEF SpendInv, RowInv
<1>1. CASE CallerRead(c)
  <2>1. /\ call'[c].pc = "read" /\ call'[c].auth = row.auth /\ call'[c].next.rt = 0
        /\ \A d \in Callers \ {c} : call'[d] = call[d]
        /\ call[c].pc \notin Unstored
    BY <1>0, <1>1 DEF CallerRead, Idle, NoAuth, Plain, Unstored
  <2>2. RowInv'
    BY <1>1, <1>m, <2>1 DEF CallerRead
  <2>3. QED
    BY <1>0, <1>1, <2>1, <2>2, CallerMoves DEF CallerRead, Critical, Unstored
<1>2. CASE PresentOpen(c)
  <2>1. CASE call' = [call EXCEPT ![c].pc = "wait", ![c].t = now, ![c].auth = NoAuth]
    <3>1. /\ call'[c].pc = "wait" /\ call'[c].auth.rt = 0 /\ call'[c].next = call[c].next
          /\ \A d \in Callers \ {c} : call'[d] = call[d]
          /\ call[c].pc \notin Unstored
      BY <1>0, <1>2, <2>1 DEF PresentOpen, Call, Unstored
    <3>2. RowInv'
      BY <1>2, <1>m, <3>1 DEF PresentOpen
    <3>3. QED
      BY <1>0, <1>2, <3>1, <3>2, CallerMoves DEF PresentOpen, Critical, Unstored
  <2>2. CASE \E out \in CallerOut : Return(c, out, NoAuth) \/ Return(c, out, call[c].auth)
    <3>1. call[c].pc \notin Unstored
      BY <1>2 DEF PresentOpen, Unstored
    <3>2. QED
      BY <1>0, <1>2, <1>r, <2>2, <3>1 DEF PresentOpen
  <2>3. QED
    BY <1>2, <2>1, <2>2 DEF PresentOpen, CallerOut
<1>3. CASE PresentLock(c)
  <2>1. /\ call'[c].pc = "reread" /\ call'[c].auth = call[c].auth /\ call'[c].next = call[c].next
        /\ \A d \in Callers \ {c} : call'[d] = call[d]
        /\ call[c].pc \notin Unstored
    BY <1>0, <1>3 DEF PresentLock, Call, Unstored
  <2>2. RowInv'
    BY <1>3, <1>m, <2>1 DEF PresentLock
  <2>3. \A d \in Callers \ {c} : lock = d => lock' = d
    BY <1>3, ProcsAssumption DEF PresentLock
  <2>4. QED
    BY <1>0, <1>3, <2>1, <2>2, <2>3, CallerMoves DEF PresentLock, Critical, Unstored
<1>4. CASE PresentGiveUp(c)
  BY <1>0, <1>4, <1>r DEF PresentGiveUp, Unstored
<1>5. CASE PresentReread(c)
  <2>0. call[c].pc \notin Unstored /\ lock = c
    BY <1>5 DEF PresentReread, Unstored, SpendInv, LockInv, Critical
  <2>1. CASE Verdict(call[c].t) = "go" /\ call' = [call EXCEPT ![c].pc = "vendor", ![c].auth = row.auth] /\ UNCHANGED lock
    <3>1. /\ call'[c].pc = "vendor" /\ call'[c].auth = row.auth /\ call'[c].next = call[c].next
          /\ \A d \in Callers \ {c} : call'[d] = call[d]
      BY <1>0, <2>1 DEF Call
    <3>2. row.auth.rt # 0
      BY <2>1 DEF Verdict, StillValid
    <3>3. row.auth.rt \in vendor.spent => row.auth.rt \in lost
      <4>1. \A d \in Callers : call[d].pc \notin Unstored
        BY <2>0 DEF SpendInv, LockInv, Critical, Unstored
      <4>2. QED
        BY <4>1 DEF SpendInv, RowInv
    <3>4. RowInv'
      BY <1>5, <1>m, <2>0, <3>1 DEF PresentReread
    <3>5. QED
      BY <1>0, <1>5, <2>0, <2>1, <3>1, <3>2, <3>3, <3>4, CallerMoves
         DEF PresentReread, Critical, Unstored
  <2>2. CASE Return(c, Verdict(call[c].t), row.auth) /\ Unlock(c)
    BY <1>0, <1>5, <1>r, <1>u, <2>0, <2>2 DEF PresentReread
  <2>3. CASE Return(c, "refresh_failed", NoAuth) /\ Unlock(c)
    BY <1>0, <1>5, <1>r, <1>u, <2>0, <2>3 DEF PresentReread
  <2>4. QED
    BY <1>5, <2>1, <2>2, <2>3 DEF PresentReread
<1>6. CASE VendorRenews(c)
  BY <1>6, SpendRenews
<1>7. CASE VendorUnavailable(c)
  BY <1>0, <1>7, <1>r, <1>u DEF VendorUnavailable, Unstored
<1>8. CASE VendorRejects(c)
  <2>1. /\ call'[c].pc = "drop" /\ call'[c].auth = call[c].auth /\ call'[c].next = call[c].next
        /\ \A d \in Callers \ {c} : call'[d] = call[d]
        /\ call[c].pc = "vendor" /\ call[c].pc \notin Unstored /\ lock = c
    BY <1>0, <1>8 DEF VendorRejects, Call, Unstored, SpendInv, LockInv, Critical
  <2>2. vendor'.spent = vendor.spent /\ vendor'.minted = vendor.minted
    BY <1>8 DEF VendorRejects, TypeOK, Vendor
  <2>3. vendor'.twice \subseteq lost'
    <3>1. vendor'.twice \subseteq vendor.twice \cup ({call[c].auth.rt} \cap vendor.spent)
      BY <1>8 DEF VendorRejects, TypeOK, Vendor
    <3>2. QED
      BY <1>0, <1>8, <2>1, <3>1 DEF VendorRejects, SpendInv, CallInv
  <2>4. RowInv'
    BY <1>8, <2>1, <2>2 DEF VendorRejects, SpendInv, RowInv
  <2>5. QED
    BY <1>0, <1>8, <2>1, <2>2, <2>3, <2>4, CallerMoves DEF VendorRejects, Unstored
<1>9. CASE PresentDrop(c)
  <2>1. row'.auth.rt \in {row.auth.rt, 0}
    <3>1. row \in Row /\ call[c].auth \in Blob
      BY DEF TypeOK, Call
    <3>2. [call[c].auth EXCEPT !.rt = 0, !.old = FALSE].rt = 0
      BY <3>1 DEF Blob
    <3>3. QED
      BY <1>9, <3>1, <3>2 DEF PresentDrop, Row
  <2>2. QED
    BY <1>0, <1>9, <1>u, <2>1, CallerReturns DEF PresentDrop, Unstored
<1>10. CASE PresentSwap(c)
  <2>0. call[c].pc \in Unstored /\ lock = c /\ row \in Row
    BY <1>10 DEF PresentSwap, Unstored, SpendInv, LockInv, Critical, TypeOK
  <2>1. CASE row' = [row EXCEPT !.auth = call[c].next] /\ Return(c, "ok", call[c].next)
               /\ Unlock(c) /\ UNCHANGED lost
    <3>1. row'.auth = call[c].next
      BY <2>0, <2>1 DEF Row
    <3>2. QED
      BY <1>0, <1>10, <1>u, <2>0, <2>1, <3>1, SwapStores DEF PresentSwap
  <2>2. CASE call' = [call EXCEPT ![c].pc = "again"] /\ UNCHANGED <<row, lock, lost>>
    <3>1. /\ call'[c].pc = "again" /\ call'[c].auth = call[c].auth /\ call'[c].next = call[c].next
          /\ \A d \in Callers \ {c} : call'[d] = call[d]
      BY <1>0, <2>2 DEF Call
    <3>2. RowInv'
      BY <1>10, <1>m, <2>2, <3>1 DEF PresentSwap, Unstored
    <3>3. QED
      BY <1>0, <1>10, <2>0, <2>2, <3>1, <3>2, CallerMoves DEF PresentSwap, Unstored
  <2>3. CASE Return(c, "ok", call[c].next) /\ lost' = lost \cup Forfeit(c) /\ Unlock(c) /\ UNCHANGED row
    BY <1>0, <1>10, <1>r, <1>u, <2>0, <2>3, ForfeitPays DEF PresentSwap
  <2>4. QED
    BY <1>10, <2>1, <2>2, <2>3 DEF PresentSwap
<1>11. CASE PresentAgain(c)
  <2>0. call[c].pc \in Unstored /\ lock = c
    BY <1>11 DEF PresentAgain, Unstored, SpendInv, LockInv, Critical
  <2>1. CASE /\ row.auth.rt = call[c].auth.rt
             /\ call' = [call EXCEPT ![c].pc = "swap2", ![c].auth = row.auth]
             /\ UNCHANGED <<lock, lost>>
    <3>1. /\ call'[c].pc = "swap2" /\ call'[c].auth = row.auth /\ call'[c].next = call[c].next
          /\ \A d \in Callers \ {c} : call'[d] = call[d]
      BY <1>0, <2>1 DEF Call
    <3>2. RowInv'
      BY <1>11, <1>m, <2>1, <3>1 DEF PresentAgain, Unstored
    <3>3. QED
      BY <1>0, <1>11, <2>0, <2>1, <3>1, <3>2, CallerMoves DEF PresentAgain, Unstored
  <2>2. CASE /\ \E out \in CallerOut, auth \in {row.auth, NoAuth, call[c].next} : Return(c, out, auth)
             /\ lost' = lost \cup Forfeit(c) /\ Unlock(c)
    BY <1>0, <1>11, <1>r, <1>u, <2>0, <2>2, ForfeitPays DEF PresentAgain
  <2>3. StillValid(row.auth, call[c].t, "expired") \in CallerOut
    BY StillValidType DEF CallerOut
  <2>4. QED
    BY <1>11, <2>1, <2>2, <2>3 DEF PresentAgain, CallerOut
<1>12. CASE PresentSwapAgain(c)
  <2>0. call[c].pc \in Unstored /\ lock = c /\ row \in Row
    BY <1>12 DEF PresentSwapAgain, Unstored, SpendInv, LockInv, Critical, TypeOK
  <2>1. CASE row' = [row EXCEPT !.auth = call[c].next] /\ UNCHANGED lost
    <3>1. row'.auth = call[c].next
      BY <2>0, <2>1 DEF Row
    <3>2. QED
      BY <1>0, <1>12, <1>u, <2>0, <2>1, <3>1, SwapStores DEF PresentSwapAgain
  <2>2. CASE lost' = lost \cup Forfeit(c) /\ UNCHANGED row
    BY <1>0, <1>12, <1>r, <1>u, <2>0, <2>2, ForfeitPays DEF PresentSwapAgain
  <2>3. QED
    BY <1>12, <2>1, <2>2 DEF PresentSwapAgain
<1>13. CASE CallerForward(c)
  <2>1. /\ call'[c].pc = "idle" /\ call'[c].auth.rt = 0 /\ call'[c].next.rt = 0
        /\ \A d \in Callers \ {c} : call'[d] = call[d]
        /\ call[c].pc \notin Unstored
    BY <1>0, <1>13 DEF CallerForward, Idle, NoAuth, Plain, Unstored
  <2>2. RowInv'
    BY <1>13, <1>m, <2>1 DEF CallerForward
  <2>3. QED
    BY <1>0, <1>13, <2>1, <2>2, CallerMoves DEF CallerForward, Critical, Unstored
<1>14. QED
  BY <1>1, <1>2, <1>3, <1>4, <1>5, <1>6, <1>7, <1>8, <1>9, <1>10, <1>11, <1>12, <1>13
     DEF CallerStep

\* A step of request a: it may mint a sign-in's tokens and store them, and
\* never spends one.
LEMMA AdminMoves ==
  ASSUME TypeOK, TypeOK', SpendInv, NEW a \in Admins,
         UNCHANGED <<call, lost>>,
         \A b \in Admins \ {a} : adm'[b] = adm[b],
         vendor'.spent = vendor.spent, vendor'.twice = vendor.twice,
         vendor'.minted \in {vendor.minted, vendor.minted + 1},
         \A c \in Callers : lock = c => lock' = c,
         adm'[a].auth.rt <= vendor'.minted,
         \/ row'.auth.rt \in {row.auth.rt, 0}
         \/ /\ SignInHolds(a) /\ row'.auth.rt = adm[a].auth.rt
            /\ ~SignInHolds(a)',
         SignInHolds(a)' =>
            \/ /\ SignInHolds(a) /\ adm'[a].auth.rt = adm[a].auth.rt
               /\ row'.auth.rt \in {row.auth.rt, 0}
            \/ /\ adm'[a].auth.rt = vendor.minted + 1
               /\ row'.auth.rt \in {row.auth.rt, 0},
         adm'[a].pc \in {"patchLock", "patch"} => adm'[a].auth.rt = 0
  PROVE  SpendInv'
<1>0. /\ vendor.minted \in Nat /\ vendor'.minted >= vendor.minted
      /\ row.auth.rt \in Int /\ row.auth.rt <= vendor.minted
      /\ \A b \in Admins : adm[b].auth.rt \in Int /\ adm[b].auth.rt <= vendor.minted
      /\ \A c \in Callers : /\ call[c].auth.rt \in Int /\ call[c].next.rt \in Int
                            /\ call[c].auth.rt <= vendor.minted /\ call[c].next.rt <= vendor.minted
      /\ \A r \in vendor.spent : r \in Int /\ r <= vendor.minted
  <2>1. /\ vendor.minted \in Serial /\ vendor.spent \subseteq Serial
        /\ row.auth.rt \in Serial
        /\ \A b \in Admins : adm[b].auth.rt \in Serial
        /\ \A c \in Callers : call[c].auth.rt \in Serial /\ call[c].next.rt \in Serial
    BY DEF TypeOK, Vendor, Row, Admin, Call, Blob
  <2>2. \A r \in Serial : r \in Nat
    BY BoundsAssumption DEF Serial
  <2>3. vendor.minted \in Nat /\ vendor'.minted >= vendor.minted
    BY <2>1, <2>2
  <2>4. QED
    BY <2>1, <2>2, <2>3 DEF SpendInv, MintedInv
<1>1. LockInv'
  BY DEF SpendInv, LockInv
<1>2. MintedInv'
  <2>1. \A x \in Int : x <= vendor.minted => x <= vendor'.minted
    BY <1>0
  <2>2. row'.auth.rt <= vendor'.minted
    BY <1>0, <2>1
  <2>3. \A b \in Admins : adm'[b].auth.rt <= vendor'.minted
    BY <1>0, <2>1
  <2>4. \A r \in vendor'.spent : r <= vendor'.minted
    BY <1>0, <2>1
  <2>5. \A c \in Callers : call'[c].auth.rt <= vendor'.minted /\ call'[c].next.rt <= vendor'.minted
    BY <1>0, <2>1
  <2>6. QED
    BY <2>2, <2>3, <2>4, <2>5 DEF SpendInv, MintedInv
<1>3. RowInv'
  <2>1. CASE row'.auth.rt \in {row.auth.rt, 0}
    BY <2>1 DEF SpendInv, RowInv, MintedInv
  <2>2. CASE SignInHolds(a) /\ row'.auth.rt = adm[a].auth.rt
    BY <2>2 DEF SpendInv, RowInv, SignInInv
  <2>3. QED
    BY <2>1, <2>2
<1>4. CallInv'
  BY DEF SpendInv, CallInv
<1>5. SignInInv'
  <2> SUFFICES ASSUME NEW b \in Admins, SignInHolds(b)'
               PROVE  /\ adm'[b].auth.rt \notin vendor.spent
                      /\ adm'[b].auth.rt # row'.auth.rt
                      /\ \A c \in Callers :
                            /\ call[c].pc = "vendor" => call[c].auth.rt # adm'[b].auth.rt
                            /\ call[c].pc \in Unstored => call[c].next.rt # adm'[b].auth.rt
                      /\ \A d \in Admins \ {b} : SignInHolds(d)' => adm'[d].auth.rt # adm'[b].auth.rt
    BY DEF SignInInv
  <2>0. /\ adm'[b].auth.rt # 0
        /\ \A d \in Admins \ {a} : SignInHolds(d)' <=> SignInHolds(d)
    BY DEF SignInHolds
  <2>1. CASE b # a
    <3>1. /\ SignInHolds(b) /\ adm'[b] = adm[b]
          /\ adm[b].auth.rt \notin vendor.spent
          /\ adm[b].auth.rt # row.auth.rt
          /\ \A c \in Callers :
                /\ call[c].pc = "vendor" => call[c].auth.rt # adm[b].auth.rt
                /\ call[c].pc \in Unstored => call[c].next.rt # adm[b].auth.rt
          /\ \A d \in Admins \ {b} : SignInHolds(d) => adm[d].auth.rt # adm[b].auth.rt
      BY <2>0, <2>1 DEF SpendInv, SignInInv
    <3>2. adm[b].auth.rt # row'.auth.rt
      BY <2>0, <2>1, <3>1
    <3>3. SignInHolds(a)' => adm'[a].auth.rt # adm[b].auth.rt
      BY <1>0, <2>1, <3>1
    <3>4. \A d \in Admins \ {a, b} : SignInHolds(d)' => adm'[d].auth.rt # adm[b].auth.rt
      BY <2>0, <3>1
    <3>5. QED
      BY <2>1, <3>1, <3>2, <3>3, <3>4
  <2>2. CASE b = a /\ SignInHolds(a) /\ adm'[a].auth.rt = adm[a].auth.rt
               /\ row'.auth.rt \in {row.auth.rt, 0}
    <3>1. /\ adm[a].auth.rt \notin vendor.spent
          /\ adm[a].auth.rt # row.auth.rt
          /\ \A c \in Callers :
                /\ call[c].pc = "vendor" => call[c].auth.rt # adm[a].auth.rt
                /\ call[c].pc \in Unstored => call[c].next.rt # adm[a].auth.rt
          /\ \A d \in Admins \ {a} : SignInHolds(d) => adm[d].auth.rt # adm[a].auth.rt
      BY <2>2 DEF SpendInv, SignInInv
    <3>2. QED
      BY <2>0, <2>2, <3>1
  <2>3. CASE b = a /\ adm'[a].auth.rt = vendor.minted + 1 /\ row'.auth.rt \in {row.auth.rt, 0}
    <3>1. /\ vendor.minted + 1 \notin vendor.spent
          /\ vendor.minted + 1 # row'.auth.rt
          /\ \A c \in Callers : call[c].auth.rt # vendor.minted + 1 /\ call[c].next.rt # vendor.minted + 1
          /\ \A d \in Admins : adm[d].auth.rt # vendor.minted + 1
      BY <1>0, <2>3
    <3>2. QED
      BY <2>3, <3>1
  <2>4. QED
    BY <2>1, <2>2, <2>3
<1>6. PatchInv'
  BY DEF SpendInv, PatchInv
<1>7. QED
  BY <1>1, <1>2, <1>3, <1>4, <1>5, <1>6 DEF SpendInv, NoDoubleSpend

\* Every step of an operator's handler keeps SpendInv.
LEMMA SpendAdminStep ==
  ASSUME TypeOK, TypeOK', SpendInv, NEW a \in Admins, AdminBegin(a) \/ AdminStep(a)
  PROVE  SpendInv'
<1>0. /\ NoAuth.rt = 0 /\ Rest.pc = "idle" /\ Rest.auth.rt = 0 /\ a \in Procs
      /\ row \in Row /\ adm \in [Admins -> Admin] /\ adm[a] \in Admin /\ Rest \in Admin
      /\ vendor \in Vendor /\ vendor.minted \in Nat
      /\ row.auth.rt <= vendor.minted /\ adm[a].auth.rt <= vendor.minted
  BY ConstantTypes DEF NoAuth, Plain, Rest, TypeOK, Vendor, Serial, Procs, SpendInv, MintedInv
<1>u. Unlock(a) => \A c \in Callers : lock = c => lock' = c
  BY ProcsAssumption DEF Unlock
<1>i. AdminIdle(a) => adm'[a] = Rest /\ \A b \in Admins \ {a} : adm'[b] = adm[b]
  BY <1>0 DEF AdminIdle
\* Every step but the exchange and the connect is of this kind.
<1>q. ASSUME UNCHANGED <<call, lost>>, \A b \in Admins \ {a} : adm'[b] = adm[b],
             vendor'.spent = vendor.spent, vendor'.twice = vendor.twice,
             vendor'.minted = vendor.minted,
             \A c \in Callers : lock = c => lock' = c,
             adm'[a].auth.rt <= vendor.minted,
             row'.auth.rt \in {row.auth.rt, 0},
             \/ adm'[a].pc \notin {"connectLock", "connect"}
             \/ SignInHolds(a) /\ adm'[a].auth.rt = adm[a].auth.rt
             \/ adm'[a].auth.rt = 0,
             adm'[a].pc \in {"patchLock", "patch"} => adm'[a].auth.rt = 0
      PROVE  SpendInv'
  BY <1>q, AdminMoves DEF SignInHolds
<1>1. CASE StartRead(a) \/ RevokeRead(a)
  <2>1. /\ adm'[a].pc \in {"start", "revokeLock"} /\ adm'[a].auth.rt = 0
        /\ \A b \in Admins \ {a} : adm'[b] = adm[b]
    <3>1. CASE StartRead(a)
      BY <1>0, <3>1 DEF StartRead, Admin
    <3>2. CASE RevokeRead(a)
      BY <1>0, <3>2 DEF RevokeRead, Admin
    <3>3. QED
      BY <1>1, <3>1, <3>2
  <2>2. QED
    BY <1>0, <1>1, <1>q, <2>1 DEF StartRead, RevokeRead
<1>2. CASE StartPut(a)
  BY <1>0, <1>2, <1>i, <1>q DEF StartPut
<1>3. CASE CallbackTake(a)
  <2>1. CASE UNCHANGED adm
    BY <1>0, <1>3, <1>q, <2>1 DEF CallbackTake, SpendInv, PatchInv, SignInHolds
  <2>2. CASE adm' = [adm EXCEPT ![a] = [Rest EXCEPT !.pc = "exchange",
                 !.seen = flow.seen, !.stamp = stamp + 1,
                 !.auth = [Plain("client", flow.res) EXCEPT !.exp = now + Life]]]
    <3>1. [Plain("client", flow.res) EXCEPT !.exp = now + Life].rt = 0
      BY DEF Plain
    <3>2. /\ adm'[a].pc = "exchange" /\ adm'[a].auth.rt = 0
          /\ \A b \in Admins \ {a} : adm'[b] = adm[b]
      BY <1>0, <2>2, <3>1 DEF Admin
    <3>3. QED
      BY <1>0, <1>3, <1>q, <3>2 DEF CallbackTake
  <2>3. QED
    BY <1>3, <2>1, <2>2 DEF CallbackTake
<1>4. CASE CallbackExchange(a)
  <2> DEFINE n == vendor.minted + 1
  <2>1. CASE \E rt \in {0, n} :
               /\ vendor' = VendorMints(n, n, rt)
               /\ adm' = [adm EXCEPT ![a].pc = "connectLock",
                            ![a].auth = [adm[a].auth EXCEPT !.kind = "tokens", !.at = n, !.rt = rt, !.grant = n]]
    <3>1. PICK rt \in {0, n} :
               /\ vendor' = VendorMints(n, n, rt)
               /\ adm' = [adm EXCEPT ![a].pc = "connectLock",
                            ![a].auth = [adm[a].auth EXCEPT !.kind = "tokens", !.at = n, !.rt = rt, !.grant = n]]
      BY <2>1
    <3>2. /\ vendor'.spent = vendor.spent /\ vendor'.twice = vendor.twice /\ vendor'.minted = n
      BY <1>0, <3>1 DEF VendorMints, Vendor
    <3>3. /\ adm'[a].pc = "connectLock" /\ adm'[a].auth.rt = rt
          /\ \A b \in Admins \ {a} : adm'[b] = adm[b]
      BY <1>0, <3>1 DEF Admin, Blob
    <3>4. QED
      BY <1>0, <1>4, <3>2, <3>3, AdminMoves DEF CallbackExchange, SignInHolds
  <2>2. CASE AdminIdle(a) /\ UNCHANGED vendor
    BY <1>0, <1>4, <1>i, <1>q, <2>2 DEF CallbackExchange
  <2>3. QED
    BY <1>4, <2>1, <2>2 DEF CallbackExchange
<1>5. CASE CallbackLock(a) \/ PatchLock(a) \/ RevokeLock(a)
  <2>1. PICK from \in {"connectLock", "patchLock", "revokeLock"}, to \in {"connect", "patch", "revokeRead"} :
          /\ AdminLock(a, from, to)
          /\ <<from, to>> \in {<<"connectLock", "connect">>, <<"patchLock", "patch">>,
                               <<"revokeLock", "revokeRead">>}
    BY <1>5 DEF CallbackLock, PatchLock, RevokeLock
  <2>2. CASE AdminIdle(a) /\ UNCHANGED lock
    BY <1>0, <1>i, <1>q, <2>1, <2>2 DEF AdminLock
  <2>3. CASE adm' = [adm EXCEPT ![a].pc = to] /\ (lock' = lock \/ lock = NoProc)
    <3>1. /\ adm'[a].pc = to /\ adm'[a].auth = adm[a].auth /\ adm[a].pc = from
          /\ \A b \in Admins \ {a} : adm'[b] = adm[b]
      BY <1>0, <2>1, <2>3 DEF AdminLock, Admin
    <3>2. \A c \in Callers : lock = c => lock' = c
      BY <2>3, ProcsAssumption
    <3>3. adm'[a].pc = "patch" => adm[a].auth.rt = 0
      BY <2>1, <3>1 DEF SpendInv, PatchInv
    <3>4. adm'[a].pc = "connect" => SignInHolds(a) \/ adm[a].auth.rt = 0
      BY <2>1, <3>1 DEF SignInHolds
    <3>5. QED
      BY <1>0, <1>q, <2>1, <3>1, <3>2, <3>3, <3>4 DEF AdminLock
  <2>4. QED
    BY <2>1, <2>2, <2>3 DEF AdminLock
<1>6. CASE CallbackConnect(a)
  <2>1. CASE UNCHANGED row
    BY <1>0, <1>6, <1>i, <1>u, <1>q, <2>1 DEF CallbackConnect
  <2>2. CASE row' = [row EXCEPT !.auth = adm[a].auth, !.ver = adm[a].stamp]
    <3>1. row'.auth = adm[a].auth
      BY <1>0, <2>2 DEF Row
    <3>2. SignInHolds(a) \/ adm[a].auth.rt = 0
      BY <1>6 DEF CallbackConnect, SignInHolds
    <3>3. adm'[a] = Rest /\ \A b \in Admins \ {a} : adm'[b] = adm[b]
      BY <1>6, <1>i DEF CallbackConnect
    <3>4. ~SignInHolds(a)'
      BY <1>0, <3>3 DEF SignInHolds
    <3>5. QED
      BY <1>0, <1>6, <1>u, <3>1, <3>2, <3>3, <3>4, AdminMoves DEF CallbackConnect
  <2>3. QED
    BY <1>6, <2>1, <2>2 DEF CallbackConnect
<1>7. CASE PatchRead(a)
  <2> DEFINE Good(k) == k.auth.rt = 0 /\ k.pc \in {"patchLock", "patch"}
  <2>1. ASSUME NEW url \in Urls, NEW type \in Types, NEW cfg \in {"absent", "clear", "value"},
               NEW named \in BOOLEAN, NEW namesType \in BOOLEAN
        PROVE  Good(Patched(url, type, cfg, named, namesType))
    <3>1. Encrypted(type, cfg, url).rt = 0
      BY <1>0 DEF Encrypted, Plain
    <3>2. QED
      BY <1>0, <3>1 DEF Patched
  <2> HIDE DEF Good
  <2>2. \E k : Good(k) /\ adm' = [adm EXCEPT ![a] = k]
    BY <1>7, <2>1, Zenon DEF PatchRead
  <2>3. Good(adm'[a]) /\ \A b \in Admins \ {a} : adm'[b] = adm[b]
    BY <1>0, <2>2
  <2>4. QED
    BY <1>0, <1>7, <1>q, <2>3 DEF PatchRead, Good
<1>8. CASE PatchWrite(a)
  <2>1. row'.auth.rt \in {row.auth.rt, 0}
    <3>1. adm[a].auth.rt = 0
      BY <1>8 DEF PatchWrite, SpendInv, PatchInv
    <3>2. QED
      BY <1>0, <1>8, <3>1 DEF PatchWrite, Row
  <2>2. CASE adm' = [adm EXCEPT ![a] = [Rest EXCEPT !.pc = "patchDrop"]] /\ UNCHANGED lock
    <3>1. /\ adm'[a].pc = "patchDrop" /\ adm'[a].auth.rt = 0
          /\ \A b \in Admins \ {a} : adm'[b] = adm[b]
      BY <1>0, <2>2 DEF Admin
    <3>2. QED
      BY <1>0, <1>8, <1>q, <2>1, <2>2, <3>1 DEF PatchWrite
  <2>3. CASE AdminIdle(a) /\ Unlock(a)
    BY <1>0, <1>8, <1>i, <1>u, <1>q, <2>1, <2>3 DEF PatchWrite
  <2>4. QED
    BY <1>8, <2>2, <2>3 DEF PatchWrite
<1>9. CASE PatchDropFlow(a)
  BY <1>0, <1>9, <1>i, <1>u, <1>q DEF PatchDropFlow
<1>10. CASE DeleteUpstream(a)
  <2>1. row'.auth.rt = 0
    BY <1>0, <1>10 DEF DeleteUpstream, Row
  <2>2. QED
    BY <1>0, <1>10, <1>q, <2>1 DEF DeleteUpstream
<1>11. CASE RevokeReread(a)
  <2>1. CASE adm' = [adm EXCEPT ![a].pc = "revokeVendor", ![a].seen = row.ver, ![a].auth = row.auth]
               /\ UNCHANGED lock
    <3>1. /\ adm'[a].pc = "revokeVendor" /\ adm'[a].auth = row.auth
          /\ \A b \in Admins \ {a} : adm'[b] = adm[b]
      BY <1>0, <2>1 DEF Admin
    <3>2. QED
      BY <1>0, <1>11, <1>q, <2>1, <3>1 DEF RevokeReread
  <2>2. CASE AdminIdle(a) /\ Unlock(a)
    BY <1>0, <1>11, <1>i, <1>u, <1>q, <2>2 DEF RevokeReread
  <2>3. QED
    BY <1>11, <2>1, <2>2 DEF RevokeReread
<1>12. CASE RevokeVendor(a)
  <2>1. vendor'.spent = vendor.spent /\ vendor'.twice = vendor.twice /\ vendor'.minted = vendor.minted
    BY <1>0, <1>12 DEF RevokeVendor, Vendor
  <2>2. /\ adm'[a].pc = "revoke" /\ adm'[a].auth = adm[a].auth
        /\ \A b \in Admins \ {a} : adm'[b] = adm[b]
    BY <1>0, <1>12 DEF RevokeVendor, Admin
  <2>3. QED
    BY <1>0, <1>12, <1>q, <2>1, <2>2 DEF RevokeVendor
<1>13. CASE RevokeWrite(a) \/ RevokeWriteAgain(a)
  <2>1. row'.auth.rt \in {row.auth.rt, 0}
    BY <1>0, <1>13 DEF RevokeWrite, RevokeWriteAgain, Disconnect, Row
  <2>2. CASE AdminIdle(a) /\ Unlock(a)
    BY <1>0, <1>13, <1>i, <1>u, <1>q, <2>1, <2>2 DEF RevokeWrite, RevokeWriteAgain
  <2>3. CASE adm' = [adm EXCEPT ![a].pc = "revokeAgain"] /\ UNCHANGED lock
    <3>1. /\ adm'[a].pc = "revokeAgain" /\ adm'[a].auth = adm[a].auth
          /\ \A b \in Admins \ {a} : adm'[b] = adm[b]
      BY <1>0, <2>3 DEF Admin
    <3>2. QED
      BY <1>0, <1>13, <1>q, <2>1, <2>3, <3>1 DEF RevokeWrite, RevokeWriteAgain
  <2>4. QED
    BY <1>13, <2>2, <2>3 DEF RevokeWrite, RevokeWriteAgain
<1>14. CASE RevokeAgain(a)
  <2>1. CASE adm' = [adm EXCEPT ![a].pc = "revoke2", ![a].seen = row.ver] /\ UNCHANGED lock
    <3>1. /\ adm'[a].pc = "revoke2" /\ adm'[a].auth = adm[a].auth
          /\ \A b \in Admins \ {a} : adm'[b] = adm[b]
      BY <1>0, <2>1 DEF Admin
    <3>2. QED
      BY <1>0, <1>14, <1>q, <2>1, <3>1 DEF RevokeAgain
  <2>2. CASE AdminIdle(a) /\ Unlock(a)
    BY <1>0, <1>14, <1>i, <1>u, <1>q, <2>2 DEF RevokeAgain
  <2>3. QED
    BY <1>14, <2>1, <2>2 DEF RevokeAgain
<1>15. QED
  BY <1>1, <1>2, <1>3, <1>4, <1>5, <1>6, <1>7, <1>8, <1>9, <1>10, <1>11, <1>12, <1>13, <1>14
     DEF AdminBegin, AdminStep

\* So do a flow that expires, a rekey, the clock and a restart, which forfeits
\* what the calls it ends had received.
LEMMA SpendWorldStep ==
  ASSUME TypeOK, TypeOK', SpendInv, FlowExpires \/ Rekey \/ Tick \/ Restart
  PROVE  SpendInv'
<1> USE DEF SpendInv, LockInv, MintedInv, RowInv, CallInv, SignInInv, SignInHolds, PatchInv,
            NoDoubleSpend
<1>1. CASE FlowExpires \/ Tick
  BY <1>1 DEF FlowExpires, Tick
<1>2. CASE Rekey
  <2>1. row'.auth.rt = row.auth.rt
    BY <1>2 DEF Rekey, TypeOK, Row, Blob
  <2>2. UNCHANGED <<call, adm, vendor, lock, lost>>
    BY <1>2 DEF Rekey
  <2>3. LockInv' /\ MintedInv' /\ CallInv' /\ PatchInv' /\ NoDoubleSpend'
    BY <2>1, <2>2
  <2>4. RowInv'
    BY <2>1, <2>2
  <2>5. SignInInv'
    BY <2>1, <2>2
  <2> HIDE DEF SpendInv, LockInv, MintedInv, RowInv, CallInv, SignInInv, SignInHolds, PatchInv,
            NoDoubleSpend
  <2>6. QED
    BY <2>3, <2>4, <2>5 DEF SpendInv
<1>3. CASE Restart
  <2>1. row'.auth.rt = row.auth.rt
    BY <1>3 DEF Restart, TypeOK, Row, Blob
  <2>2. \A c \in Callers : call'[c].pc = "idle" /\ call'[c].auth.rt = 0 /\ call'[c].next.rt = 0
    BY <1>3 DEF Restart, Idle, NoAuth, Plain
  <2>3. /\ Rest.pc = "idle" /\ Rest.auth.rt = 0
        /\ \A a \in Admins : adm'[a] \in {adm[a], Rest}
    BY <1>3 DEF Restart, Rest, NoAuth, Plain
  <2>4. vendor' = vendor /\ vendor.minted >= 0 /\ lost \subseteq lost'
    BY <1>3 DEF Restart, TypeOK, Vendor, Serial
  <2>5. RowInv'
    <3>1. \A c \in Callers : call[c].pc \in Unstored => Forfeit(c) \subseteq lost'
      BY <1>3 DEF Restart, Unstored
    <3>2. \A c \in Callers : call[c].pc \in Unstored =>
             (call[c].auth.rt \in vendor.spent => call[c].auth.rt \in lost')
      BY <2>4, <3>1 DEF Forfeit
    <3>3. QED
      BY <2>1, <2>4, <3>2
  <2>6. LockInv' /\ CallInv'
    BY <2>2 DEF Critical, Unstored
  <2>7. MintedInv' /\ PatchInv' /\ NoDoubleSpend'
    BY <2>1, <2>2, <2>3, <2>4
  <2>8. SignInInv'
    BY <2>1, <2>2, <2>3, <2>4 DEF Unstored
  <2> HIDE DEF SpendInv, LockInv, MintedInv, RowInv, CallInv, SignInInv, SignInHolds, PatchInv,
            NoDoubleSpend
  <2>9. QED
    BY <2>5, <2>6, <2>7, <2>8 DEF SpendInv
<1>4. QED
  BY <1>1, <1>2, <1>3

\* SpendInv is inductive, given the types.
LEMMA SpendStep == TypeOK /\ TypeOK' /\ SpendInv /\ [Next]_vars => SpendInv'
<1> SUFFICES ASSUME TypeOK, TypeOK', SpendInv, [Next]_vars PROVE SpendInv'
  OBVIOUS
<1>1. CASE \E c \in Callers : CallerRead(c) \/ CallerStep(c)
  BY <1>1, SpendCallerStep
<1>2. CASE \E a \in Admins : AdminBegin(a) \/ AdminStep(a)
  BY <1>2, SpendAdminStep
<1>3. CASE FlowExpires \/ Rekey \/ Tick \/ Restart
  BY <1>3, SpendWorldStep
<1>4. CASE UNCHANGED vars
  BY <1>4 DEF vars, SpendInv, LockInv, MintedInv, RowInv, CallInv, SignInInv, SignInHolds,
              PatchInv, NoDoubleSpend
<1>5. QED
  BY <1>1, <1>2, <1>3, <1>4 DEF Next

\* Concurrent calls, operator edits on this or another replica, a rekey and
\* restarts never make PoryMCP redeem a refresh token twice: a second use needs
\* a first one whose successor was never stored (Present).
THEOREM NeverSpentTwice == Spec => []NoDoubleSpend
<1>1. Spec => []SpendInv
  BY TypeCorrect, SpendInit, SpendStep, PTL DEF Spec
<1>2. SpendInv => NoDoubleSpend
  BY DEF SpendInv
<1>3. QED
  BY <1>1, <1>2, PTL

-----------------------------------------------------------------------------
(* What an edit, a sign-in and a disconnect may do to each other. Every    *)
(* handler compares the row with what it saw by updated_at alone; the      *)
(* argument is that a stamp, once drawn, is new to everyone who compares,  *)
(* and that a token names its grant at the vendor.                         *)

\* A set's tokens are tokens the vendor minted for the set's grant.
Owned(b, v) ==
    /\ b.at <= v.minted /\ b.grant <= v.minted /\ v.owner[b.at] = b.grant
    /\ b.rt # 0 => b.rt <= v.minted /\ v.owner[b.rt] = b.grant /\ b.kind = "tokens"

OwnerInv ==
    /\ vendor.owner[0] = 0
    /\ Owned(row.auth, vendor)
    /\ \A c \in Callers : Owned(call[c].auth, vendor) /\ Owned(call[c].next, vendor)
    /\ \A a \in Admins : Owned(adm[a].auth, vendor)

\* A refresh in flight renews a set that can be refreshed, within its grant.
SwapInv ==
    \A c \in Callers :
        /\ call[c].pc \in {"vendor"} \cup Unstored => call[c].auth.rt # 0
        /\ call[c].pc \in Unstored => /\ call[c].next.kind = "tokens"
                                      /\ call[c].next.grant = call[c].auth.grant

EndedInv ==
    /\ \A g \in ended : g <= vendor.minted
    /\ EndedGrantStaysEnded

\* A sign-in that is not stored yet has a grant of its own, and an edit brings
\* none.
SignIn == {"connectLock", "connect"}

PendInv ==
    \A a \in Admins :
        /\ adm[a].pc \in SignIn =>
              /\ adm[a].auth.grant \notin ended
              /\ row.auth.kind = "tokens" => row.auth.grant # adm[a].auth.grant
              /\ \A b \in Admins \ {a} :
                    adm[b].pc \in SignIn => adm[b].auth.grant # adm[a].auth.grant
        /\ adm[a].pc \in {"patchLock", "patch"} => adm[a].auth.kind # "tokens"

\* The stamps somebody may compare with, and a stamp that none of them is.
Known == {row.ver, flow.seen} \cup {adm[a].seen : a \in Admins}
Stamped == AdminPC \ {"idle", "start", "patchDrop"}

StampInv ==
    /\ \A s \in Known : s <= stamp
    /\ \A a \in Admins :
          /\ adm[a].stamp <= stamp
          /\ adm[a].pc \in Stamped =>
                /\ adm[a].stamp # 0 /\ adm[a].stamp \notin Known
                /\ \A b \in Admins \ {a} : adm[b].stamp # adm[a].stamp

\* A sign-in, or a handler, that still sees the row's stamp sees the row's url
\* and grant.
FlowView(f, r) == f.on /\ f.seen = r.ver => f.res = r.url

View(k, r) ==
    k.seen = r.ver =>
        /\ k.pc = "start" => k.url = r.url
        /\ k.pc \in {"exchange"} \cup SignIn => k.auth.res = r.url
        /\ k.pc \in {"revokeVendor", "revoke", "revoke2"} /\ r.live =>
              r.auth.grant = k.auth.grant

ViewInv == FlowView(flow, row) /\ \A a \in Admins : View(adm[a], row)

EditInv == OwnerInv /\ SwapInv /\ EndedInv /\ PendInv /\ StampInv /\ ViewInv

\* A token keeps its owner when the vendor mints another.
LEMMA OwnedKept ==
  ASSUME NEW v \in Vendor, NEW w \in Vendor, v.minted <= w.minted,
         \A n \in Serial : n <= v.minted => w.owner[n] = v.owner[n],
         NEW b \in Blob, Owned(b, v)
  PROVE  Owned(b, w)
<1>1. /\ b.at \in Serial /\ b.rt \in Serial /\ b.grant \in Serial
      /\ v.minted \in Serial /\ w.minted \in Serial
  BY DEF Vendor, Blob
<1>2. \A n \in Serial : n \in Int
  BY BoundsAssumption DEF Serial
<1>3. \A n \in Serial : n <= v.minted => n <= w.minted
  BY <1>1, <1>2
<1> QED
  BY <1>1, <1>3 DEF Owned

\* A blob without tokens names no grant.
LEMMA OwnedPlain ==
  ASSUME TypeOK, vendor.owner[0] = 0, NEW b, b.at = 0, b.rt = 0, b.grant = 0
  PROVE  Owned(b, vendor)
<1>1. vendor.minted >= 0
  BY BoundsAssumption DEF TypeOK, Vendor, Serial
<1> QED
  BY <1>1 DEF Owned

\* The blobs the handlers start from.
LEMMA PlainFields ==
  /\ NoAuth.at = 0 /\ NoAuth.rt = 0 /\ NoAuth.grant = 0 /\ NoAuth.kind = "empty"
  /\ \A kind, url : /\ Plain(kind, url).at = 0 /\ Plain(kind, url).rt = 0
                    /\ Plain(kind, url).grant = 0 /\ Plain(kind, url).kind = kind
                    /\ Plain(kind, url).res = url
  BY DEF NoAuth, Plain

\* A row as the API saved it, and nothing drawn, ended or in flight.
LEMMA EditInit == Init => EditInv
<1> SUFFICES ASSUME Init PROVE EditInv
  OBVIOUS
<1>1. /\ call = [c \in Callers |-> Idle] /\ adm = [a \in Admins |-> Rest] /\ flow = NoFlow
      /\ Idle.pc = "idle" /\ Idle.auth = NoAuth /\ Idle.next = NoAuth
      /\ Rest.pc = "idle" /\ Rest.auth = NoAuth /\ Rest.seen = 0 /\ Rest.stamp = 0
      /\ ~NoFlow.on /\ NoFlow.seen = 0 /\ stamp = 0 /\ ended = {} /\ row.ver = 0
  BY DEF Init, Idle, Rest, NoFlow
<1>2. TypeOK
  BY TypeInit
<1>3. vendor.owner[0] = 0 /\ Owned(row.auth, vendor)
  <2>1. PICK url \in Urls, type \in Types : \E auth \in SavedAuth(type, url) :
           /\ row.auth = auth /\ vendor.minted = auth.at
           /\ vendor.owner = [n \in Serial |-> IF n = 1 THEN auth.grant ELSE 0]
    BY DEF Init
  <2>2. PICK auth \in SavedAuth(type, url) :
           /\ row.auth = auth /\ vendor.minted = auth.at
           /\ vendor.owner = [n \in Serial |-> IF n = 1 THEN auth.grant ELSE 0]
    BY <2>1
  <2>3. vendor.owner[0] = 0 /\ vendor.owner[1] = auth.grant
    BY <2>2, BoundFacts
  <2>4. \/ auth.at = 0 /\ auth.rt = 0 /\ auth.grant = 0
        \/ auth.at = 1 /\ auth.rt \in {0, 1} /\ auth.grant = 1 /\ auth.kind = "tokens"
    <3>1. \A b \in [kind: {"tokens"}, at: {1}, rt: {0, 1}, grant: {1}, res: {url},
                    exp: {Life}, old: {FALSE}] :
            b.at = 1 /\ b.rt \in {0, 1} /\ b.grant = 1 /\ b.kind = "tokens"
      OBVIOUS
    <3>2. CASE type = "none"
      BY <3>2, PlainFields DEF SavedAuth
    <3>3. CASE type = "static"
      BY <3>3, PlainFields DEF SavedAuth
    <3>4. CASE type = "oauth"
      <4>1. \/ auth \in {NoAuth, Plain("client", url)}
            \/ auth \in [kind: {"tokens"}, at: {1}, rt: {0, 1}, grant: {1}, res: {url},
                         exp: {Life}, old: {FALSE}]
        BY <3>4 DEF SavedAuth
      <4>2. CASE auth \in {NoAuth, Plain("client", url)}
        BY <4>2, PlainFields
      <4>3. CASE auth \in [kind: {"tokens"}, at: {1}, rt: {0, 1}, grant: {1}, res: {url},
                           exp: {Life}, old: {FALSE}]
        BY <3>1, <4>3
      <4> QED
        BY <4>1, <4>2, <4>3
    <3> QED
      BY <3>2, <3>3, <3>4 DEF Types
  <2>5. CASE auth.at = 0 /\ auth.rt = 0 /\ auth.grant = 0
    BY <1>2, <2>2, <2>3, <2>5, OwnedPlain
  <2>6. CASE auth.at = 1 /\ auth.rt \in {0, 1} /\ auth.grant = 1 /\ auth.kind = "tokens"
    BY <2>2, <2>3, <2>6 DEF Owned
  <2> QED
    BY <2>3, <2>4, <2>5, <2>6
<1>4. OwnerInv
  <2>1. Owned(NoAuth, vendor)
    BY <1>2, <1>3, PlainFields, OwnedPlain
  <2> QED
    BY <1>1, <1>3, <2>1 DEF OwnerInv
<1>5. SwapInv /\ EndedInv /\ PendInv
  BY <1>1 DEF SwapInv, EndedInv, PendInv, SignIn, Unstored, EndedGrantStaysEnded
<1>6. StampInv /\ ViewInv
  BY <1>1 DEF StampInv, Known, Stamped, AdminPC, ViewInv, View, FlowView, SignIn
<1> QED
  BY <1>4, <1>5, <1>6 DEF EditInv

\* A step of the row's credential that stays within its grant and its version.
KeepsGrant ==
    /\ row'.ver = row.ver /\ row'.url = row.url /\ row'.live = row.live
    /\ row'.auth.kind = row.auth.kind /\ row'.auth.grant = row.auth.grant

\* What Return leaves in the caller's record.
LEMMA ReturnBlobs ==
  ASSUME TypeOK, NEW c \in Callers, NEW out, NEW auth, Return(c, out, auth)
  PROVE  /\ call'[c].pc = "done" /\ call'[c].next = NoAuth
         /\ call'[c].auth \in {auth, NoAuth}
         /\ \A d \in Callers \ {c} : call'[d] = call[d]
<1>1. call'[c] = [Idle EXCEPT !.pc = "done", !.url = call[c].url,
                    !.auth = IF out = "ok" THEN auth ELSE NoAuth, !.out = out]
  BY DEF Return, TypeOK
<1>2. call'[c].pc = "done" /\ call'[c].next = NoAuth
  BY <1>1 DEF Idle
<1>3. call'[c].auth = IF out = "ok" THEN auth ELSE NoAuth
  BY <1>1 DEF Idle
<1> QED
  BY <1>2, <1>3 DEF Return, TypeOK

\* A step of caller c that leaves the vendor's tokens as they are.
LEMMA CallerOwns ==
  ASSUME TypeOK, OwnerInv, SwapInv, NEW c \in Callers, UNCHANGED adm,
         \A d \in Callers \ {c} : call'[d] = call[d],
         vendor'.minted = vendor.minted, vendor'.owner = vendor.owner,
         Owned(row'.auth, vendor),
         Owned(call'[c].auth, vendor), Owned(call'[c].next, vendor),
         call'[c].pc \in {"vendor"} \cup Unstored => call'[c].auth.rt # 0,
         call'[c].pc \in Unstored => /\ call'[c].next.kind = "tokens"
                                     /\ call'[c].next.grant = call'[c].auth.grant
  PROVE  OwnerInv' /\ SwapInv'
<1>1. \A b : Owned(b, vendor) => Owned(b, vendor')
  BY DEF Owned
<1>2. OwnerInv'
  <2>1. \A d \in Callers : Owned(call'[d].auth, vendor) /\ Owned(call'[d].next, vendor)
    BY DEF OwnerInv
  <2> QED
    BY <1>1, <2>1 DEF OwnerInv
<1>3. SwapInv'
  BY DEF SwapInv
<1> QED
  BY <1>2, <1>3

\* A caller that returns from Present.
LEMMA CallerOwnsReturn ==
  ASSUME TypeOK, OwnerInv, SwapInv, NEW c \in Callers, UNCHANGED <<adm, vendor>>,
         NEW out, NEW auth, Owned(auth, vendor), Return(c, out, auth),
         Owned(row'.auth, vendor)
  PROVE  OwnerInv' /\ SwapInv'
<1>1. /\ call'[c].pc = "done" /\ call'[c].next = NoAuth
      /\ call'[c].auth \in {auth, NoAuth}
      /\ \A d \in Callers \ {c} : call'[d] = call[d]
  BY ReturnBlobs
<1>2. Owned(NoAuth, vendor)
  BY OwnedPlain, PlainFields DEF OwnerInv
<1>3. Owned(call'[c].auth, vendor) /\ Owned(call'[c].next, vendor)
  BY <1>1, <1>2
<1>4. call'[c].pc \notin {"vendor"} \cup Unstored
  BY <1>1 DEF Unstored
<1> QED
  BY <1>1, <1>3, <1>4, CallerOwns

\* A refresh: the new tokens belong to the grant of the one spent.
LEMMA RenewOwns ==
  ASSUME TypeOK, TypeOK', OwnerInv, SwapInv, NEW c \in Callers, VendorRenews(c)
  PROVE  OwnerInv' /\ SwapInv' /\ vendor'.minted = vendor.minted + 1
<1> DEFINE rt == call[c].auth.rt
           n == vendor.minted + 1
<1>0. /\ call[c].auth \in Blob /\ rt \in Serial /\ n \in Serial /\ n \in Int /\ n # 0
      /\ vendor \in Vendor /\ vendor' \in Vendor /\ call[c].pc = "vendor"
      /\ \A m \in Serial : m \in Int
  <2>1. call[c].auth \in Blob /\ rt \in Serial /\ vendor \in Vendor /\ vendor' \in Vendor
    BY DEF TypeOK, Call, Blob
  <2>2. vendor.minted \in 0..MaxSerial
    BY DEF TypeOK, Vendor, Serial
  <2>3. n <= MaxSerial /\ call[c].pc = "vendor"
    BY DEF VendorRenews
  <2> QED
    BY <2>1, <2>2, <2>3, BoundsAssumption DEF Serial
<1>1. PICK rotate \in BOOLEAN, arrives \in BOOLEAN :
         /\ vendor' = [VendorMints(n, vendor.owner[rt], IF rotate THEN n ELSE 0) EXCEPT
                         !.live = IF rotate THEN @ \ {rt} ELSE @,
                         !.spent = IF rotate THEN @ \cup {rt} ELSE @]
         /\ \/ /\ arrives
               /\ call' = [call EXCEPT ![c].pc = "swap",
                             ![c].next = Renewed(call[c].auth, n, rotate, call[c].t)]
            \/ /\ ~arrives
               /\ Return(c, StillValid(call[c].auth, call[c].t, "refresh_failed"), call[c].auth)
  BY DEF VendorRenews
<1>2. vendor'.minted = n /\ vendor'.owner = [vendor.owner EXCEPT ![n] = vendor.owner[rt]]
  BY <1>0, <1>1 DEF VendorMints, Vendor
<1>3. /\ vendor.minted <= vendor'.minted /\ vendor'.owner[n] = vendor.owner[rt]
      /\ \A m \in Serial : m <= vendor.minted => vendor'.owner[m] = vendor.owner[m]
  BY <1>0, <1>2 DEF Vendor
<1>4. \A b \in Blob : Owned(b, vendor) => Owned(b, vendor')
  BY <1>0, <1>3, OwnedKept
<1>5. vendor'.owner[0] = 0
  BY <1>0, <1>3, BoundFacts DEF OwnerInv, Vendor, Serial
<1>6. /\ row.auth \in Blob
      /\ \A d \in Callers : call[d].auth \in Blob /\ call[d].next \in Blob
      /\ \A a \in Admins : adm[a].auth \in Blob
  BY DEF TypeOK, Row, Call, Admin
<1>7. Owned(NoAuth, vendor')
  BY <1>5, PlainFields, OwnedPlain, ConstantTypes, <1>4 DEF OwnerInv
<1>8. UNCHANGED <<row, adm>>
  BY DEF VendorRenews
<1>9. Owned(row'.auth, vendor') /\ \A a \in Admins : Owned(adm'[a].auth, vendor')
  BY <1>4, <1>6, <1>8 DEF OwnerInv
<1>10. \A d \in Callers : Owned(call[d].auth, vendor') /\ Owned(call[d].next, vendor')
  BY <1>4, <1>6 DEF OwnerInv
<1>11. CASE arrives
  <2>1. call' = [call EXCEPT ![c].pc = "swap",
                             ![c].next = Renewed(call[c].auth, n, rotate, call[c].t)]
    BY <1>1, <1>11
  <2>2. /\ call'[c].pc = "swap" /\ call'[c].auth = call[c].auth
        /\ call'[c].next = Renewed(call[c].auth, n, rotate, call[c].t)
        /\ \A d \in Callers \ {c} : call'[d] = call[d]
    BY <2>1 DEF TypeOK, Call
  <2>3. rt # 0 /\ Owned(call[c].auth, vendor)
    BY <1>0 DEF SwapInv, OwnerInv
  <2>4. /\ call'[c].next.at = n /\ call'[c].next.rt \in {n, rt}
        /\ call'[c].next.grant = call[c].auth.grant /\ call'[c].next.kind = call[c].auth.kind
    BY <1>0, <2>2 DEF Renewed, Blob
  <2>5. /\ call[c].auth.kind = "tokens" /\ vendor.owner[rt] = call[c].auth.grant
        /\ rt <= vendor.minted /\ call[c].auth.grant <= vendor.minted
    BY <2>3 DEF Owned
  <2>6. /\ rt <= n /\ call[c].auth.grant <= n /\ vendor'.owner[rt] = call[c].auth.grant
        /\ n <= n
    BY <1>0, <1>3, <2>5 DEF TypeOK, Vendor, Blob
  <2>7. Owned(call'[c].next, vendor')
    BY <1>2, <1>3, <2>4, <2>5, <2>6 DEF Owned
  <2>8. OwnerInv'
    BY <1>5, <1>9, <1>10, <2>2, <2>7 DEF OwnerInv
  <2>9. SwapInv'
    BY <2>2, <2>3, <2>4, <2>5 DEF SwapInv
  <2> QED
    BY <1>2, <2>8, <2>9
<1>12. CASE ~arrives
  <2>1. Return(c, StillValid(call[c].auth, call[c].t, "refresh_failed"), call[c].auth)
    BY <1>1, <1>12
  <2>2. /\ call'[c].pc = "done" /\ call'[c].next = NoAuth
        /\ call'[c].auth \in {call[c].auth, NoAuth}
        /\ \A d \in Callers \ {c} : call'[d] = call[d]
    BY <2>1, ReturnBlobs
  <2>3. OwnerInv'
    BY <1>5, <1>7, <1>9, <1>10, <2>2 DEF OwnerInv
  <2>4. SwapInv'
    BY <2>2 DEF SwapInv, Unstored
  <2> QED
    BY <1>2, <2>3, <2>4
<1> QED
  BY <1>11, <1>12

\* A call keeps the row's grant: a renewed set, or one without its refused
\* token, replaces only the set it was made from (SwapUpstreamAuth).
LEMMA CallerStays ==
  ASSUME TypeOK, TypeOK', OwnerInv, SwapInv, NEW c \in Callers, CallerRead(c) \/ CallerStep(c)
  PROVE  OwnerInv' /\ SwapInv' /\ KeepsGrant
<1>0. /\ call \in [Callers -> Call] /\ call[c] \in Call /\ row \in Row /\ Idle \in Call
      /\ call[c].auth \in Blob /\ call[c].next \in Blob /\ row.auth \in Blob
      /\ Idle.pc = "idle" /\ Idle.auth = NoAuth /\ Idle.next = NoAuth
  BY ConstantTypes DEF TypeOK, Row, Call, Idle
<1>1. /\ Owned(NoAuth, vendor) /\ Owned(row.auth, vendor)
      /\ Owned(call[c].auth, vendor) /\ Owned(call[c].next, vendor)
  BY OwnedPlain, PlainFields DEF OwnerInv
<1>k. UNCHANGED row => KeepsGrant
  BY DEF KeepsGrant
<1>r. ASSUME UNCHANGED <<adm, vendor, row>>, NEW out, NEW auth, Return(c, out, auth),
             auth \in {NoAuth, row.auth, call[c].auth, call[c].next}
      PROVE  OwnerInv' /\ SwapInv' /\ KeepsGrant
  <2>1. Owned(auth, vendor) /\ Owned(row'.auth, vendor)
    BY <1>1, <1>r
  <2> QED
    BY <1>k, <1>r, <2>1, CallerOwnsReturn
\* A step that moves on inside Present.
<1>m. ASSUME UNCHANGED <<adm, row>>, \A d \in Callers \ {c} : call'[d] = call[d],
             vendor'.minted = vendor.minted, vendor'.owner = vendor.owner,
             call'[c].auth \in {NoAuth, row.auth, call[c].auth},
             call'[c].next \in {NoAuth, call[c].next},
             call'[c].pc \notin {"vendor"} \cup Unstored
      PROVE  OwnerInv' /\ SwapInv' /\ KeepsGrant
  <2>1. Owned(row'.auth, vendor) /\ Owned(call'[c].auth, vendor) /\ Owned(call'[c].next, vendor)
    BY <1>1, <1>m
  <2> QED
    BY <1>k, <1>m, <2>1, CallerOwns
<1>2. CASE CallerRead(c)
  <2>1. /\ call'[c].pc = "read" /\ call'[c].auth = row.auth /\ call'[c].next = NoAuth
        /\ \A d \in Callers \ {c} : call'[d] = call[d]
    BY <1>0, <1>2 DEF CallerRead, Call
  <2> QED
    BY <1>2, <1>m, <2>1 DEF CallerRead, Unstored
<1>3. CASE PresentOpen(c)
  <2>0. UNCHANGED <<adm, vendor, row>>
    BY <1>3 DEF PresentOpen
  <2>1. CASE call' = [call EXCEPT ![c].pc = "wait", ![c].t = now, ![c].auth = NoAuth]
    <3>1. /\ call'[c].pc = "wait" /\ call'[c].auth = NoAuth /\ call'[c].next = call[c].next
          /\ \A d \in Callers \ {c} : call'[d] = call[d]
      BY <1>0, <2>1 DEF Call
    <3> QED
      BY <1>m, <2>0, <3>1 DEF Unstored
  <2>2. \/ Return(c, "unreadable", NoAuth) \/ Return(c, "ok", NoAuth) \/ Return(c, "ok", call[c].auth)
        \/ call' = [call EXCEPT ![c].pc = "wait", ![c].t = now, ![c].auth = NoAuth]
    BY <1>3 DEF PresentOpen
  <2> QED
    BY <1>r, <2>0, <2>1, <2>2
<1>4. CASE PresentLock(c)
  <2>1. /\ call'[c].pc = "reread" /\ call'[c].auth = call[c].auth /\ call'[c].next = call[c].next
        /\ \A d \in Callers \ {c} : call'[d] = call[d]
    BY <1>0, <1>4 DEF PresentLock, Call
  <2> QED
    BY <1>4, <1>m, <2>1 DEF PresentLock, Unstored
<1>5. CASE PresentGiveUp(c)
  BY <1>5, <1>r DEF PresentGiveUp
<1>6. CASE PresentReread(c)
  <2>0. UNCHANGED <<adm, vendor, row>>
    BY <1>6 DEF PresentReread
  <2>1. CASE /\ Verdict(call[c].t) = "go"
             /\ call' = [call EXCEPT ![c].pc = "vendor", ![c].auth = row.auth]
    <3>1. /\ call'[c].pc = "vendor" /\ call'[c].auth = row.auth /\ call'[c].next = call[c].next
          /\ \A d \in Callers \ {c} : call'[d] = call[d]
      BY <1>0, <2>1 DEF Call
    <3>2. row.auth.rt # 0
      BY <2>1 DEF Verdict, StillValid
    <3>3. call'[c].pc \notin Unstored
      BY <3>1 DEF Unstored
    <3> QED
      BY <1>1, <1>k, <2>0, <3>1, <3>2, <3>3, CallerOwns
  <2>2. \/ Verdict(call[c].t) = "go" /\ call' = [call EXCEPT ![c].pc = "vendor", ![c].auth = row.auth]
        \/ Return(c, Verdict(call[c].t), row.auth) \/ Return(c, "refresh_failed", NoAuth)
    BY <1>6 DEF PresentReread
  <2> QED
    BY <1>r, <2>0, <2>1, <2>2
<1>7. CASE VendorRenews(c)
  BY <1>7, <1>k, RenewOwns DEF VendorRenews
<1>8. CASE VendorUnavailable(c)
  BY <1>8, <1>r DEF VendorUnavailable
<1>9. CASE VendorRejects(c)
  <2>1. /\ call'[c].pc = "drop" /\ call'[c].auth = call[c].auth /\ call'[c].next = call[c].next
        /\ \A d \in Callers \ {c} : call'[d] = call[d]
    BY <1>0, <1>9 DEF VendorRejects, Call
  <2>2. vendor'.minted = vendor.minted /\ vendor'.owner = vendor.owner
    BY <1>9 DEF VendorRejects, TypeOK, Vendor
  <2> QED
    BY <1>9, <1>m, <2>1, <2>2 DEF VendorRejects, Unstored
<1>10. CASE PresentDrop(c)
  <2>0. /\ Return(c, StillValid(call[c].auth, call[c].t, "expired"), call[c].auth)
        /\ UNCHANGED <<adm, vendor>>
    BY <1>10 DEF PresentDrop
  <2>1. CASE UNCHANGED row
    BY <1>r, <2>0, <2>1
  <2>2. CASE /\ SwapHits(call[c].auth)
             /\ row' = [row EXCEPT !.auth = [call[c].auth EXCEPT !.rt = 0, !.old = FALSE]]
    <3>1. /\ row'.auth.rt = 0 /\ row'.auth.at = row.auth.at /\ row'.auth.grant = row.auth.grant
          /\ row'.auth.kind = row.auth.kind
          /\ row'.ver = row.ver /\ row'.url = row.url /\ row'.live = row.live
      BY <1>0, <2>2 DEF SwapHits, Row, Blob
    <3>2. Owned(row'.auth, vendor)
      BY <1>1, <3>1 DEF Owned
    <3> QED
      BY <1>1, <2>0, <3>1, <3>2, CallerOwnsReturn DEF KeepsGrant
  <2> QED
    BY <1>10, <2>1, <2>2 DEF PresentDrop
\* The renewed set over the one it was made from.
<1>s. ASSUME call[c].pc \in Unstored, SwapHits(call[c].auth), row' = [row EXCEPT !.auth = call[c].next],
             Return(c, "ok", call[c].next), UNCHANGED <<adm, vendor>>
      PROVE  OwnerInv' /\ SwapInv' /\ KeepsGrant
  <2>1. /\ call[c].auth.rt # 0 /\ call[c].next.kind = "tokens"
        /\ call[c].next.grant = call[c].auth.grant /\ call[c].auth = row.auth
    BY <1>s DEF SwapInv, SwapHits
  <2>2. row.auth.kind = "tokens"
    BY <1>1, <2>1 DEF Owned
  <2>3. row'.auth = call[c].next /\ row'.ver = row.ver /\ row'.url = row.url /\ row'.live = row.live
    BY <1>0, <1>s DEF Row
  <2> QED
    BY <1>1, <1>s, <2>1, <2>2, <2>3, CallerOwnsReturn DEF KeepsGrant
\* On the way from one attempt to the next.
<1>t. ASSUME call[c].pc \in Unstored, UNCHANGED <<adm, vendor, row>>,
             \A d \in Callers \ {c} : call'[d] = call[d], call'[c].next = call[c].next,
             call'[c].auth.rt = call[c].auth.rt, call'[c].auth.grant = call[c].auth.grant,
             call'[c].auth \in {call[c].auth, row.auth}
      PROVE  OwnerInv' /\ SwapInv' /\ KeepsGrant
  <2>1. /\ call[c].auth.rt # 0 /\ call[c].next.kind = "tokens"
        /\ call[c].next.grant = call[c].auth.grant
    BY <1>t DEF SwapInv
  <2>2. Owned(call'[c].auth, vendor) /\ Owned(call'[c].next, vendor) /\ Owned(row'.auth, vendor)
    BY <1>1, <1>t
  <2> QED
    BY <1>k, <1>t, <2>1, <2>2, CallerOwns
<1>11. CASE PresentSwap(c)
  <2>0. call[c].pc \in Unstored /\ UNCHANGED <<adm, vendor>>
    BY <1>11 DEF PresentSwap, Unstored
  <2>1. CASE ~SwapHits(call[c].auth) /\ call' = [call EXCEPT ![c].pc = "again"] /\ UNCHANGED row
    <3>1. /\ call'[c].auth = call[c].auth /\ call'[c].next = call[c].next
          /\ \A d \in Callers \ {c} : call'[d] = call[d]
      BY <1>0, <2>1 DEF Call
    <3> QED
      BY <1>t, <2>0, <2>1, <3>1
  <2>2. \/ ~SwapHits(call[c].auth) /\ call' = [call EXCEPT ![c].pc = "again"] /\ UNCHANGED row
        \/ /\ SwapHits(call[c].auth) /\ row' = [row EXCEPT !.auth = call[c].next]
           /\ Return(c, "ok", call[c].next)
        \/ Return(c, "ok", call[c].next) /\ UNCHANGED row
    BY <1>11 DEF PresentSwap
  <2> QED
    BY <1>r, <1>s, <2>0, <2>1, <2>2
<1>12. CASE PresentAgain(c)
  <2>0. call[c].pc \in Unstored /\ UNCHANGED <<adm, vendor, row>>
    BY <1>12 DEF PresentAgain, Unstored
  <2>1. CASE /\ row.auth.rt = call[c].auth.rt
             /\ call' = [call EXCEPT ![c].pc = "swap2", ![c].auth = row.auth]
    <3>1. /\ call'[c].auth = row.auth /\ call'[c].next = call[c].next
          /\ \A d \in Callers \ {c} : call'[d] = call[d]
      BY <1>0, <2>1 DEF Call
    <3>2. row.auth.grant = call[c].auth.grant
      <4>1. call[c].auth.rt # 0
        BY <2>0 DEF SwapInv
      <4> QED
        BY <1>1, <2>1, <4>1 DEF Owned
    <3> QED
      BY <1>t, <2>0, <2>1, <3>1, <3>2
  <2>2. \/ /\ row.auth.rt = call[c].auth.rt
           /\ call' = [call EXCEPT ![c].pc = "swap2", ![c].auth = row.auth]
        \/ Return(c, StillValid(row.auth, call[c].t, "expired"), row.auth)
        \/ Return(c, "unreadable", NoAuth)
        \/ Return(c, "ok", call[c].next)
    BY <1>12 DEF PresentAgain
  <2> QED
    BY <1>r, <2>0, <2>1, <2>2
<1>13. CASE PresentSwapAgain(c)
  <2>0. call[c].pc \in Unstored /\ UNCHANGED <<adm, vendor>> /\ Return(c, "ok", call[c].next)
    BY <1>13 DEF PresentSwapAgain, Unstored
  <2>1. \/ SwapHits(call[c].auth) /\ row' = [row EXCEPT !.auth = call[c].next]
        \/ UNCHANGED row
    BY <1>13 DEF PresentSwapAgain
  <2> QED
    BY <1>r, <1>s, <2>0, <2>1
<1>14. CASE CallerForward(c)
  <2>1. /\ call'[c] = Idle /\ \A d \in Callers \ {c} : call'[d] = call[d]
    BY <1>0, <1>14 DEF CallerForward
  <2> QED
    BY <1>0, <1>14, <1>m, <2>1 DEF CallerForward, Unstored
<1> QED
  BY <1>2, <1>3, <1>4, <1>5, <1>6, <1>7, <1>8, <1>9, <1>10, <1>11, <1>12, <1>13, <1>14 DEF CallerStep

\* An operator's handler that has returned.
LEMMA RestFields ==
  /\ Rest.pc = "idle" /\ Rest.seen = 0 /\ Rest.stamp = 0 /\ Rest.auth = NoAuth
  /\ ~NoFlow.on /\ NoFlow.seen = 0
  BY DEF Rest, NoFlow

\* A step that is no operator's: the handlers in flight see the same row, or
\* have died with their process.
LEMMA EditsWait ==
  ASSUME TypeOK, TypeOK', EditInv, OwnerInv', SwapInv', KeepsGrant,
         UNCHANGED <<stamp, ended>>, vendor.minted <= vendor'.minted,
         flow' \in {flow, NoFlow}, \A a \in Admins : adm'[a] \in {adm[a], Rest}
  PROVE  EditInv'
<1> USE DEF EditInv
<1>0. stamp >= 0 /\ stamp \in Int /\ \A g \in Serial : g \in Int
  BY BoundsAssumption DEF TypeOK, Stamp, Serial
<1>1. EndedInv'
  <2>1. \A g \in ended : g \in Int /\ vendor.minted \in Int /\ vendor'.minted \in Int
    BY <1>0 DEF TypeOK, Vendor
  <2> QED
    BY <2>1 DEF EndedInv, EndedGrantStaysEnded, KeepsGrant
<1>2. PendInv'
  <2>1. \A a \in Admins : adm'[a].pc \in SignIn \cup {"patchLock", "patch"} => adm'[a] = adm[a]
    BY RestFields DEF SignIn
  <2> QED
    BY <2>1 DEF PendInv, KeepsGrant, SignIn
<1>3. StampInv'
  <2>1. Known' \subseteq Known \cup {0}
    BY RestFields DEF Known, KeepsGrant
  <2>2. \A a \in Admins : adm'[a].pc \in Stamped => adm'[a] = adm[a]
    BY RestFields DEF Stamped
  <2>3. \A a \in Admins : adm'[a].stamp \in {adm[a].stamp, 0}
    BY RestFields
  <2> QED
    BY <1>0, <2>1, <2>2, <2>3 DEF StampInv
<1>4. ViewInv'
  <2>1. \A a \in Admins : adm'[a].pc # "idle" => adm'[a] = adm[a]
    BY RestFields
  <2>2. flow'.on => flow' = flow
    BY RestFields
  <2>3. FlowView(flow', row')
    BY <2>2 DEF ViewInv, FlowView, KeepsGrant
  <2>4. \A a \in Admins : View(adm'[a], row')
    BY <2>1 DEF ViewInv, View, KeepsGrant, SignIn
  <2> QED
    BY <2>3, <2>4 DEF ViewInv
<1> QED
  BY <1>1, <1>2, <1>3, <1>4

\* The clock, a rekey, the end of a sign-in and a restart.
LEMMA WorldStays ==
  ASSUME TypeOK, TypeOK', EditInv, FlowExpires \/ Rekey \/ Tick \/ Restart
  PROVE  EditInv'
<1> USE DEF EditInv
<1>1. /\ UNCHANGED <<stamp, ended, vendor>> /\ flow' \in {flow, NoFlow}
      /\ \A a \in Admins : adm'[a] \in {adm[a], Rest}
      /\ \A c \in Callers : call'[c] \in {call[c], Idle}
  BY DEF FlowExpires, Rekey, Tick, Restart, TypeOK
<1>2. /\ KeepsGrant
      /\ row'.auth.at = row.auth.at /\ row'.auth.rt = row.auth.rt
  <2>1. row \in Row /\ row.auth \in Blob
    BY DEF TypeOK, Row
  <2>2. CASE UNCHANGED row
    BY <2>2 DEF KeepsGrant
  <2>3. CASE \E o : row' = [row EXCEPT !.auth.old = o]
    <3>1. PICK o : row' = [row EXCEPT !.auth.old = o]
      BY <2>3
    <3>2. /\ row'.ver = row.ver /\ row'.url = row.url /\ row'.live = row.live
          /\ row'.auth = [row.auth EXCEPT !.old = o]
      BY <2>1, <3>1 DEF Row
    <3> QED
      BY <2>1, <3>2 DEF KeepsGrant, Blob
  <2> QED
    BY <2>2, <2>3 DEF FlowExpires, Rekey, Tick, Restart
<1>3. Owned(NoAuth, vendor)
  BY OwnedPlain, PlainFields DEF OwnerInv
<1>4. Idle.auth = NoAuth /\ Idle.next = NoAuth /\ Idle.pc = "idle"
  BY DEF Idle
<1>5. OwnerInv'
  <2>1. Owned(row'.auth, vendor)
    BY <1>2 DEF OwnerInv, Owned, KeepsGrant
  <2>2. \A c \in Callers : Owned(call'[c].auth, vendor) /\ Owned(call'[c].next, vendor)
    BY <1>1, <1>3, <1>4 DEF OwnerInv
  <2>3. \A a \in Admins : Owned(adm'[a].auth, vendor)
    BY <1>1, <1>3, RestFields DEF OwnerInv
  <2>4. vendor' = vendor
    BY <1>1
  <2> QED
    BY <2>1, <2>2, <2>3, <2>4 DEF OwnerInv
<1>6. SwapInv'
  BY <1>1, <1>4 DEF SwapInv, Unstored
<1>7. vendor.minted <= vendor'.minted
  BY <1>1 DEF TypeOK, Vendor, Serial
<1> QED
  BY <1>1, <1>2, <1>5, <1>6, <1>7, EditsWait

\* A step of handler a that leaves the vendor's tokens as they are.
LEMMA AdminOwns ==
  ASSUME TypeOK, OwnerInv, SwapInv, NEW a \in Admins, UNCHANGED call,
         \A b \in Admins \ {a} : adm'[b] = adm[b],
         vendor'.minted = vendor.minted, vendor'.owner = vendor.owner,
         Owned(row'.auth, vendor), Owned(adm'[a].auth, vendor)
  PROVE  OwnerInv' /\ SwapInv'
<1>1. \A b : Owned(b, vendor) => Owned(b, vendor')
  BY DEF Owned
<1>2. \A b \in Admins : Owned(adm'[b].auth, vendor)
  BY DEF OwnerInv
<1>3. OwnerInv'
  BY <1>1, <1>2 DEF OwnerInv
<1>4. SwapInv'
  BY DEF SwapInv
<1> QED
  BY <1>3, <1>4

\* A step of handler a that stores no sign-in: the row keeps its grant, or gives
\* it up for good.
LEMMA AdminSettles ==
  ASSUME TypeOK, OwnerInv, EndedInv, PendInv, NEW a \in Admins,
         \A b \in Admins \ {a} : adm'[b] = adm[b], vendor'.minted = vendor.minted,
         \/ /\ row'.auth.kind = row.auth.kind /\ row'.auth.grant = row.auth.grant
            /\ UNCHANGED ended
         \/ row'.auth.kind # "tokens" /\ ended' = ended \cup GrantOf(row.auth),
         adm'[a].pc \in SignIn => adm[a].pc \in SignIn /\ adm'[a].auth.grant = adm[a].auth.grant,
         adm'[a].pc \in {"patchLock", "patch"} => adm'[a].auth.kind # "tokens"
  PROVE  EndedInv' /\ PendInv'
<1>1. EndedInv'
  BY DEF EndedInv, EndedGrantStaysEnded, GrantOf, OwnerInv, Owned
<1>2. \A b \in Admins : adm'[b].pc \in SignIn =>
         adm[b].pc \in SignIn /\ adm'[b].auth.grant = adm[b].auth.grant
  OBVIOUS
<1>3. ASSUME NEW b \in Admins, adm'[b].pc \in SignIn
      PROVE  /\ adm'[b].auth.grant \notin ended'
             /\ row'.auth.kind = "tokens" => row'.auth.grant # adm'[b].auth.grant
             /\ \A d \in Admins \ {b} :
                   adm'[d].pc \in SignIn => adm'[d].auth.grant # adm'[b].auth.grant
  <2>1. /\ adm[b].auth.grant \notin ended
        /\ row.auth.kind = "tokens" => row.auth.grant # adm[b].auth.grant
        /\ \A d \in Admins \ {b} : adm[d].pc \in SignIn => adm[d].auth.grant # adm[b].auth.grant
    BY <1>2, <1>3 DEF PendInv
  <2> QED
    BY <1>2, <1>3, <2>1 DEF GrantOf
<1>4. \A b \in Admins : adm'[b].pc \in {"patchLock", "patch"} => adm'[b].auth.kind # "tokens"
  BY DEF PendInv
<1>5. PendInv'
  BY <1>3, <1>4 DEF PendInv
<1> QED
  BY <1>1, <1>5

\* A step of handler a that draws no stamp and writes no version.
LEMMA AdminLooks ==
  ASSUME TypeOK, StampInv, ViewInv, NEW a \in Admins, UNCHANGED stamp,
         \A b \in Admins \ {a} : adm'[b] = adm[b],
         row'.ver = row.ver, row'.url = row.url,
         row'.live => row.live /\ row'.auth.grant = row.auth.grant,
         flow'.seen \in Known \cup {0}, adm'[a].seen \in Known \cup {0},
         adm'[a].stamp \in {adm[a].stamp, 0},
         adm'[a].pc \in Stamped => adm[a].pc \in Stamped /\ adm'[a].stamp = adm[a].stamp,
         FlowView(flow', row), View(adm'[a], row)
  PROVE  StampInv' /\ ViewInv'
<1>1. StampInv'
  <2>1. Known' \subseteq Known \cup {0}
    BY DEF Known
  <2>2. stamp >= 0
    BY BoundsAssumption DEF TypeOK, Stamp
  <2>3. \A s \in Known' : s <= stamp'
    BY <2>1, <2>2 DEF StampInv
  <2>4. \A b \in Admins : adm'[b].stamp \in {adm[b].stamp, 0}
    OBVIOUS
  <2>5. \A b \in Admins : adm'[b].stamp <= stamp'
    BY <2>2, <2>4 DEF StampInv
  <2>6. \A b \in Admins : adm'[b].pc \in Stamped => adm[b].pc \in Stamped /\ adm'[b].stamp = adm[b].stamp
    OBVIOUS
  <2> QED
    BY <2>1, <2>3, <2>4, <2>5, <2>6 DEF StampInv
<1>2. ViewInv'
  <2>1. \A k : View(k, row) => View(k, row')
    BY DEF View
  <2>2. FlowView(flow', row')
    BY DEF FlowView
  <2>3. \A b \in Admins : View(adm'[b], row)
    BY DEF ViewInv
  <2> QED
    BY <2>1, <2>2, <2>3 DEF ViewInv
<1> QED
  BY <1>1, <1>2

\* A step of handler a that draws the stamp it will write.
LEMMA AdminDraws ==
  ASSUME TypeOK, StampInv, ViewInv, NEW a \in Admins, UNCHANGED row, stamp' = stamp + 1,
         \A b \in Admins \ {a} : adm'[b] = adm[b],
         flow' \in {flow, NoFlow}, adm'[a].seen \in {flow.seen, 0},
         adm'[a].stamp = stamp + 1, View(adm'[a], row)
  PROVE  StampInv' /\ ViewInv'
<1>1. StampInv'
  <2>1. Known' \subseteq Known \cup {0}
    BY RestFields DEF Known
  <2>2. stamp >= 0 /\ stamp \in Int
    BY BoundsAssumption DEF TypeOK, Stamp
  <2>3. \A s \in Known \cup {0} : s \in Int
    <3>1. \A s \in Stamp : s \in Int
      BY BoundsAssumption DEF Stamp
    <3>2. row.ver \in Stamp /\ flow.seen \in Stamp /\ \A b \in Admins : adm[b].seen \in Stamp
      BY DEF TypeOK, Row, Flow, Admin
    <3> QED
      BY <3>1, <3>2 DEF Known
  <2>4. \A s \in Known \cup {0} : s <= stamp
    BY <2>2 DEF StampInv
  <2>5. \A s \in Known' : s <= stamp' /\ s # stamp'
    BY <2>1, <2>2, <2>3, <2>4
  <2>6. \A b \in Admins : adm[b].stamp <= stamp /\ adm[b].stamp \in Int
    BY BoundsAssumption DEF TypeOK, StampInv, Admin, Stamp
  <2>7. \A b \in Admins \ {a} : adm'[b].stamp <= stamp' /\ adm'[b].stamp # stamp'
    BY <2>2, <2>6
  <2>8. adm'[a].stamp = stamp' /\ stamp' # 0 /\ stamp' <= stamp'
    BY <2>2
  <2>9. ASSUME NEW b \in Admins \ {a}, adm'[b].pc \in Stamped
        PROVE  /\ adm'[b].stamp # 0 /\ adm'[b].stamp \notin Known'
               /\ \A d \in Admins \ {b} : adm'[d].stamp # adm'[b].stamp
    <3>1. /\ adm[b].stamp # 0 /\ adm[b].stamp \notin Known
          /\ \A d \in Admins \ {b} : adm[d].stamp # adm[b].stamp
      BY <2>9 DEF StampInv
    <3> QED
      BY <2>1, <2>7, <2>8, <2>9, <3>1
  <2> QED
    BY <2>5, <2>7, <2>8, <2>9 DEF StampInv
<1>2. ViewInv'
  BY RestFields DEF ViewInv, FlowView
<1> QED
  BY <1>1, <1>2

\* A step of handler a that writes its stamp: nobody who compares knows it.
LEMMA AdminWrites ==
  ASSUME TypeOK, StampInv, ViewInv, NEW a \in Admins, UNCHANGED <<stamp, flow>>,
         \A b \in Admins \ {a} : adm'[b] = adm[b],
         adm[a].pc \in Stamped, row'.ver = adm[a].stamp,
         adm'[a].pc \in {"idle", "patchDrop"}, adm'[a].seen = 0, adm'[a].stamp = 0
  PROVE  StampInv' /\ ViewInv'
<1>1. /\ adm[a].stamp # 0 /\ adm[a].stamp \notin Known /\ adm[a].stamp <= stamp
      /\ \A b \in Admins \ {a} : adm[b].stamp # adm[a].stamp
  BY DEF StampInv
<1>2. StampInv'
  <2>1. Known' \subseteq Known \cup {0, adm[a].stamp}
    BY DEF Known
  <2>2. stamp >= 0
    BY BoundsAssumption DEF TypeOK, Stamp
  <2>3. \A s \in Known' : s <= stamp'
    BY <1>1, <2>1, <2>2 DEF StampInv
  <2>4. \A b \in Admins : adm'[b].stamp <= stamp'
    BY <2>2 DEF StampInv
  <2>5. adm'[a].pc \notin Stamped
    BY DEF Stamped
  <2>6. ASSUME NEW b \in Admins \ {a}, adm'[b].pc \in Stamped
        PROVE  /\ adm'[b].stamp # 0 /\ adm'[b].stamp \notin Known'
               /\ \A d \in Admins \ {b} : adm'[d].stamp # adm'[b].stamp
    <3>1. /\ adm[b].stamp # 0 /\ adm[b].stamp \notin Known
          /\ \A d \in Admins \ {b} : adm[d].stamp # adm[b].stamp
      BY <2>6 DEF StampInv
    <3> QED
      BY <1>1, <2>1, <2>6, <3>1
  <2> QED
    BY <2>3, <2>4, <2>5, <2>6 DEF StampInv
<1>3. ViewInv'
  <2>1. flow'.seen # row'.ver /\ \A b \in Admins : adm'[b].seen # row'.ver
    BY <1>1 DEF Known
  <2> QED
    BY <2>1 DEF ViewInv, View, FlowView
<1> QED
  BY <1>2, <1>3

\* The exchange: the new grant is nobody's yet.
LEMMA ExchangeStays ==
  ASSUME TypeOK, TypeOK', EditInv, NEW a \in Admins, adm[a].pc = "exchange",
         NEW n, n = vendor.minted + 1, n \in Serial, NEW rt \in {0, n},
         vendor'.minted = n, vendor'.owner = [vendor.owner EXCEPT ![n] = n],
         adm'[a].pc = "connectLock", adm'[a].seen = adm[a].seen, adm'[a].stamp = adm[a].stamp,
         adm'[a].auth.kind = "tokens", adm'[a].auth.at = n, adm'[a].auth.rt = rt,
         adm'[a].auth.grant = n, adm'[a].auth.res = adm[a].auth.res,
         \A b \in Admins \ {a} : adm'[b] = adm[b],
         UNCHANGED <<row, flow, call, stamp, ended>>
  PROVE  EditInv'
<1> USE DEF EditInv
<1>0. vendor \in Vendor /\ vendor' \in Vendor /\ vendor.minted \in 0..MaxSerial
  BY DEF TypeOK, Vendor, Serial
<1>1. n \in Int /\ n # 0 /\ n <= n /\ vendor.minted <= n /\ ~(n <= vendor.minted)
  BY <1>0, BoundsAssumption DEF Serial
<1>3. /\ vendor'.owner[n] = n
      /\ \A m \in Serial : m <= vendor.minted => vendor'.owner[m] = vendor.owner[m]
  BY <1>0, <1>1 DEF Vendor
<1>6. /\ row.auth \in Blob
      /\ \A c \in Callers : call[c].auth \in Blob /\ call[c].next \in Blob
      /\ \A b \in Admins : adm[b].auth \in Blob
  BY DEF TypeOK, Row, Call, Admin
<1>7. OwnerInv' /\ SwapInv'
  <2>1. \A b \in Blob : Owned(b, vendor) => Owned(b, vendor')
    BY <1>0, <1>1, <1>3, OwnedKept
  <2>2. Owned(adm'[a].auth, vendor')
    BY <1>1, <1>3 DEF Owned
  <2>3. vendor'.owner[0] = 0
    BY <1>0, <1>3, BoundFacts DEF OwnerInv
  <2>4. \A b \in Admins : Owned(adm'[b].auth, vendor')
    BY <1>6, <2>1, <2>2 DEF OwnerInv
  <2>5. SwapInv'
    BY DEF SwapInv
  <2> QED
    BY <1>6, <2>1, <2>3, <2>4, <2>5 DEF OwnerInv
<1>8. EndedInv'
  <2>1. \A g \in ended : g \in Int
    BY BoundsAssumption DEF TypeOK, Serial
  <2>2. \A g \in ended : g <= n
    BY <1>0, <1>1, <2>1 DEF EndedInv
  <2> QED
    BY <2>2 DEF EndedInv, EndedGrantStaysEnded
<1>9. PendInv'
  <2>1. n \notin ended /\ row.auth.grant # n /\ \A b \in Admins : adm[b].auth.grant # n
    BY <1>1 DEF EndedInv, OwnerInv, Owned
  <2>2. ASSUME NEW b \in Admins, adm'[b].pc \in SignIn
        PROVE  /\ adm'[b].auth.grant \notin ended'
               /\ row'.auth.kind = "tokens" => row'.auth.grant # adm'[b].auth.grant
               /\ \A d \in Admins \ {b} :
                     adm'[d].pc \in SignIn => adm'[d].auth.grant # adm'[b].auth.grant
    <3>1. CASE b = a
      BY <2>1, <3>1
    <3>2. CASE b # a
      BY <2>1, <2>2, <3>2 DEF PendInv
    <3> QED
      BY <3>1, <3>2
  <2> QED
    BY <2>2 DEF PendInv
<1>10. StampInv' /\ ViewInv'
  <2>1. adm[a].pc \in Stamped /\ adm[a].seen \in Known /\ flow.seen \in Known
    BY DEF Stamped, AdminPC, Known
  <2>2. View(adm'[a], row)
    BY DEF ViewInv, View, SignIn
  <2>3. FlowView(flow', row)
    BY DEF ViewInv
  <2> QED
    BY <2>1, <2>2, <2>3, AdminLooks
<1> QED
  BY <1>7, <1>8, <1>9, <1>10

\* A step of handler a that neither writes the row nor draws or mints anything:
\* it takes or lets go the lock, reads, or returns.
LEMMA HandlerStays ==
  ASSUME TypeOK, TypeOK', EditInv, NEW a \in Admins,
         \A b \in Admins \ {a} : adm'[b] = adm[b],
         UNCHANGED <<row, flow, call, stamp, ended>>,
         vendor'.minted = vendor.minted, vendor'.owner = vendor.owner,
         \/ adm'[a] = Rest
         \/ /\ adm'[a].auth \in {adm[a].auth, NoAuth, row.auth}
            /\ adm'[a].seen \in {adm[a].seen, row.ver}
            /\ adm'[a].stamp = adm[a].stamp
            /\ adm'[a].pc \in Stamped => adm[a].pc \in Stamped
            /\ adm'[a].pc \in SignIn => adm[a].pc \in SignIn /\ adm'[a].auth = adm[a].auth
            /\ adm'[a].pc \in {"patchLock", "patch"} => adm'[a].auth.kind # "tokens"
            /\ View(adm'[a], row)
  PROVE  EditInv'
<1> USE DEF EditInv
<1>1. \/ adm'[a] = Rest /\ adm'[a].auth = NoAuth /\ adm'[a].seen = 0 /\ adm'[a].stamp = 0
         /\ adm'[a].pc = "idle"
      \/ /\ adm'[a].auth \in {adm[a].auth, NoAuth, row.auth}
         /\ adm'[a].seen \in {adm[a].seen, row.ver}
         /\ adm'[a].stamp = adm[a].stamp
         /\ adm'[a].pc \in Stamped => adm[a].pc \in Stamped
         /\ adm'[a].pc \in SignIn => adm[a].pc \in SignIn /\ adm'[a].auth = adm[a].auth
         /\ adm'[a].pc \in {"patchLock", "patch"} => adm'[a].auth.kind # "tokens"
         /\ View(adm'[a], row)
  BY RestFields
<1>2. OwnerInv' /\ SwapInv'
  <2>1. Owned(NoAuth, vendor)
    BY OwnedPlain, PlainFields DEF OwnerInv
  <2>2. Owned(adm'[a].auth, vendor) /\ Owned(row'.auth, vendor)
    BY <1>1, <2>1 DEF OwnerInv
  <2> QED
    BY <2>2, AdminOwns
<1>3. EndedInv' /\ PendInv'
  <2>1. /\ adm'[a].pc \in SignIn => adm[a].pc \in SignIn /\ adm'[a].auth.grant = adm[a].auth.grant
        /\ adm'[a].pc \in {"patchLock", "patch"} => adm'[a].auth.kind # "tokens"
    BY <1>1 DEF SignIn
  <2> QED
    BY <2>1, AdminSettles
<1>4. StampInv' /\ ViewInv'
  <2>1. /\ adm'[a].seen \in Known \cup {0} /\ flow'.seen \in Known \cup {0}
        /\ adm'[a].stamp \in {adm[a].stamp, 0}
    BY <1>1 DEF Known
  <2>2. adm'[a].pc \in Stamped => adm[a].pc \in Stamped /\ adm'[a].stamp = adm[a].stamp
    BY <1>1 DEF Stamped
  <2>3. View(adm'[a], row)
    BY <1>1 DEF View, SignIn
  <2>4. FlowView(flow', row)
    BY DEF ViewInv
  <2> QED
    BY <2>1, <2>2, <2>3, <2>4, AdminLooks
<1> QED
  BY <1>2, <1>3, <1>4

\* A step of handler a that gives up the row's set and its version.
LEMMA HandlerClears ==
  ASSUME TypeOK, TypeOK', EditInv, NEW a \in Admins,
         \A b \in Admins \ {a} : adm'[b] = adm[b],
         UNCHANGED <<flow, call, stamp, vendor>>,
         adm[a].pc \in Stamped, row'.ver = adm[a].stamp, Owned(row'.auth, vendor),
         \/ row'.auth = row.auth /\ UNCHANGED ended
         \/ row'.auth.kind # "tokens" /\ ended' = ended \cup GrantOf(row.auth),
         adm'[a] \in {Rest, [Rest EXCEPT !.pc = "patchDrop"]}
  PROVE  EditInv'
<1> USE DEF EditInv
<1>1. /\ adm'[a].auth = NoAuth /\ adm'[a].seen = 0 /\ adm'[a].stamp = 0
      /\ adm'[a].pc \in {"idle", "patchDrop"}
  BY DEF Rest
<1>2. OwnerInv' /\ SwapInv'
  BY <1>1, AdminOwns, OwnedPlain, PlainFields DEF OwnerInv
<1>3. EndedInv' /\ PendInv'
  <2>1. adm'[a].pc \notin SignIn /\ adm'[a].pc \notin {"patchLock", "patch"}
    BY <1>1 DEF SignIn
  <2> QED
    BY <2>1, AdminSettles
<1>4. StampInv' /\ ViewInv'
  BY <1>1, AdminWrites
<1> QED
  BY <1>2, <1>3, <1>4

\* The exchange as oauthCallback runs it.
LEMMA CallbackExchangeStays ==
  ASSUME TypeOK, TypeOK', EditInv, NEW a \in Admins, CallbackExchange(a)
  PROVE  EditInv'
<1> DEFINE n == vendor.minted + 1
<1>0. /\ adm[a] \in Admin /\ adm[a].auth \in Blob /\ adm[a].pc = "exchange" /\ Rest \in Admin
      /\ UNCHANGED <<row, flow, call, stamp, ended>> /\ vendor \in Vendor
  BY ConstantTypes DEF TypeOK, Admin, CallbackExchange
<1>1. CASE AdminIdle(a) /\ UNCHANGED vendor
  <2>1. adm'[a] = Rest /\ \A b \in Admins \ {a} : adm'[b] = adm[b]
    BY <1>1 DEF AdminIdle, TypeOK
  <2> QED
    BY <1>0, <1>1, <2>1, HandlerStays
<1>2. CASE n <= MaxSerial /\ \E rt \in {0, n} :
               /\ vendor' = VendorMints(n, n, rt)
               /\ adm' = [adm EXCEPT ![a].pc = "connectLock",
                            ![a].auth = [adm[a].auth EXCEPT !.kind = "tokens", !.at = n, !.rt = rt, !.grant = n]]
  <2>1. PICK rt \in {0, n} :
               /\ vendor' = VendorMints(n, n, rt)
               /\ adm' = [adm EXCEPT ![a].pc = "connectLock",
                            ![a].auth = [adm[a].auth EXCEPT !.kind = "tokens", !.at = n, !.rt = rt, !.grant = n]]
    BY <1>2
  <2>2. vendor'.minted = n /\ vendor'.owner = [vendor.owner EXCEPT ![n] = n]
    BY <1>0, <2>1 DEF VendorMints, Vendor
  <2>3. /\ adm'[a].pc = "connectLock" /\ adm'[a].seen = adm[a].seen /\ adm'[a].stamp = adm[a].stamp
        /\ adm'[a].auth = [adm[a].auth EXCEPT !.kind = "tokens", !.at = n, !.rt = rt, !.grant = n]
        /\ \A b \in Admins \ {a} : adm'[b] = adm[b]
    BY <1>0, <2>1 DEF TypeOK, Admin
  <2>4. n \in Serial
    BY <1>2, BoundsAssumption DEF TypeOK, Vendor, Serial
  <2> HIDE DEF n
  <2>5. /\ adm'[a].auth.kind = "tokens" /\ adm'[a].auth.at = n /\ adm'[a].auth.rt = rt
        /\ adm'[a].auth.grant = n /\ adm'[a].auth.res = adm[a].auth.res
    <3> DEFINE s == adm'[a].auth
    <3>1. s = [adm[a].auth EXCEPT !.kind = "tokens", !.at = n, !.rt = rt, !.grant = n]
      BY <2>3
    <3>0. adm[a].auth \in Blob
      BY <1>0
    <3> HIDE DEF s
    <3>2. s.kind = "tokens" /\ s.at = n /\ s.rt = rt /\ s.grant = n /\ s.res = adm[a].auth.res
      BY ONLY <3>0, <3>1 DEF Blob
    <3> QED
      BY <3>2 DEF s
  <2>6. n = vendor.minted + 1
    BY DEF n
  <2> QED
    BY <1>0, <2>2, <2>3, <2>4, <2>5, <2>6, ExchangeStays
<1> QED
  BY <1>1, <1>2 DEF CallbackExchange

\* Storing the sign-in: its grant is not one that ended, nor the one it ends.
LEMMA CallbackConnectStays ==
  ASSUME TypeOK, TypeOK', EditInv, NEW a \in Admins, CallbackConnect(a)
  PROVE  EditInv'
<1>0. /\ UNCHANGED <<flow, call, stamp, vendor>> /\ adm[a].pc = "connect" /\ row \in Row
      /\ adm'[a] = Rest /\ \A b \in Admins \ {a} : adm'[b] = adm[b]
  BY DEF CallbackConnect, AdminIdle, TypeOK
<1>1. CASE UNCHANGED <<row, ended>>
  BY <1>0, <1>1, HandlerStays
<1>2. CASE /\ row' = [row EXCEPT !.auth = adm[a].auth, !.ver = adm[a].stamp]
           /\ ended' = ended \cup GrantOf(row.auth)
  <2>1. row'.auth = adm[a].auth /\ row'.ver = adm[a].stamp
    BY <1>0, <1>2 DEF Row
  <2>2. OwnerInv' /\ SwapInv'
    <3>1. Owned(row'.auth, vendor) /\ Owned(adm'[a].auth, vendor)
      BY <1>0, <2>1, OwnedPlain, PlainFields, RestFields DEF OwnerInv, EditInv
    <3> QED
      BY <1>0, <3>1, AdminOwns DEF EditInv
  <2>3. /\ adm[a].auth.grant \notin ended
        /\ row.auth.kind = "tokens" => row.auth.grant # adm[a].auth.grant
        /\ \A b \in Admins \ {a} : adm[b].pc \in SignIn => adm[b].auth.grant # adm[a].auth.grant
    BY <1>0 DEF EditInv, PendInv, SignIn
  <2>4. EndedInv'
    BY <1>0, <1>2, <2>1, <2>3 DEF EditInv, EndedInv, EndedGrantStaysEnded, GrantOf, OwnerInv, Owned
  <2>5. PendInv'
    <3>1. adm'[a].pc \notin SignIn /\ adm'[a].pc \notin {"patchLock", "patch"}
      BY <1>0, RestFields DEF SignIn
    <3>2. ASSUME NEW b \in Admins, adm'[b].pc \in SignIn
          PROVE  /\ adm'[b].auth.grant \notin ended'
                 /\ row'.auth.kind = "tokens" => row'.auth.grant # adm'[b].auth.grant
                 /\ \A d \in Admins \ {b} :
                       adm'[d].pc \in SignIn => adm'[d].auth.grant # adm'[b].auth.grant
      <4>1. b # a /\ adm'[b] = adm[b]
        BY <1>0, <3>1, <3>2
      <4>2. /\ adm[b].auth.grant \notin ended
            /\ row.auth.kind = "tokens" => row.auth.grant # adm[b].auth.grant
            /\ \A d \in Admins \ {b} : adm[d].pc \in SignIn => adm[d].auth.grant # adm[b].auth.grant
        BY <3>2, <4>1 DEF EditInv, PendInv
      <4>3. adm[b].auth.grant # adm[a].auth.grant
        BY <2>3, <3>2, <4>1
      <4> QED
        BY <1>0, <1>2, <2>1, <3>1, <4>1, <4>2, <4>3 DEF GrantOf
    <3> QED
      BY <1>0, <3>1, <3>2 DEF EditInv, PendInv
  <2>6. StampInv' /\ ViewInv'
    BY <1>0, <2>1, RestFields, AdminWrites DEF EditInv, Stamped, AdminPC
  <2> QED
    BY <2>2, <2>4, <2>5, <2>6 DEF EditInv
<1> QED
  BY <1>1, <1>2 DEF CallbackConnect

\* oauthStart, and oauthCallback up to the exchange.
LEMMA SignInStays ==
  ASSUME TypeOK, TypeOK', EditInv, NEW a \in Admins,
         StartRead(a) \/ StartPut(a) \/ CallbackTake(a)
  PROVE  EditInv'
<1>0. row \in Row /\ adm[a] \in Admin /\ Rest \in Admin /\ flow \in Flow
  BY ConstantTypes DEF TypeOK
<1>o. Owned(NoAuth, vendor) /\ Owned(row.auth, vendor) /\ Owned(adm[a].auth, vendor)
  BY OwnedPlain, PlainFields DEF OwnerInv, EditInv
<1>1. CASE StartRead(a)
  <2>1. /\ adm'[a].pc = "start" /\ adm'[a].auth = NoAuth /\ adm'[a].seen = row.ver
        /\ adm'[a].url = row.url /\ adm'[a].stamp = 0
        /\ \A b \in Admins \ {a} : adm'[b] = adm[b]
    BY <1>0, <1>1, RestFields DEF StartRead, TypeOK, Admin
  <2>2. UNCHANGED <<row, flow, call, stamp, ended, vendor>>
    BY <1>1 DEF StartRead
  <2>3. View(adm'[a], row)
    BY <2>1 DEF View, SignIn
  <2>4. OwnerInv' /\ SwapInv'
    BY <1>o, <2>1, <2>2, AdminOwns DEF EditInv
  <2>5. EndedInv' /\ PendInv'
    BY <2>1, <2>2, AdminSettles DEF EditInv, SignIn
  <2>6. StampInv' /\ ViewInv'
    <3>1. adm'[a].pc \notin Stamped /\ row.ver \in Known /\ flow.seen \in Known
      BY <2>1 DEF Stamped, Known
    <3> QED
      BY <2>1, <2>2, <2>3, <3>1, AdminLooks DEF EditInv, ViewInv
  <2> QED
    BY <2>4, <2>5, <2>6 DEF EditInv
<1>2. CASE StartPut(a)
  <2>1. adm'[a] = Rest /\ \A b \in Admins \ {a} : adm'[b] = adm[b]
    BY <1>2 DEF StartPut, AdminIdle, TypeOK
  <2>2. UNCHANGED <<row, call, stamp, ended, vendor>> /\ adm[a].pc = "start"
    BY <1>2 DEF StartPut
  <2>3. OwnerInv' /\ SwapInv'
    BY <1>o, <2>1, <2>2, RestFields, AdminOwns DEF EditInv
  <2>4. EndedInv' /\ PendInv'
    BY <2>1, <2>2, RestFields, AdminSettles DEF EditInv, SignIn
  <2>5. flow'.seen \in Known \cup {0} /\ FlowView(flow', row)
    <3>1. CASE flow' = [on |-> TRUE, seen |-> adm[a].seen, res |-> adm[a].url]
      <4>1. View(adm[a], row)
        BY DEF EditInv, ViewInv
      <4> QED
        BY <2>2, <3>1, <4>1 DEF Known, FlowView, View
    <3>2. CASE flow' \in {flow, NoFlow}
      BY <3>2, RestFields DEF Known, FlowView, EditInv, ViewInv
    <3> QED
      BY <1>2, <3>1, <3>2 DEF StartPut
  <2>6. View(adm'[a], row) /\ adm'[a].pc \notin Stamped
    BY <2>1, RestFields DEF View, SignIn, Stamped
  <2>7. StampInv' /\ ViewInv'
    BY <2>1, <2>2, <2>5, <2>6, RestFields, AdminLooks DEF EditInv
  <2> QED
    BY <2>3, <2>4, <2>7 DEF EditInv
<1>3. CASE CallbackTake(a)
  <2>0. UNCHANGED <<row, call, ended, vendor>> /\ flow' = NoFlow /\ flow.on
    BY <1>3 DEF CallbackTake
  <2>1. CASE UNCHANGED <<adm, stamp>>
    <3>1. KeepsGrant /\ vendor.minted <= vendor'.minted
      BY <2>0, BoundsAssumption DEF KeepsGrant, TypeOK, Vendor, Serial
    <3>2. OwnerInv' /\ SwapInv'
      BY <1>o, <2>0, <2>1, AdminOwns DEF EditInv
    <3> QED
      BY <2>0, <2>1, <3>1, <3>2, EditsWait
  <2>2. CASE /\ ConnectHits(flow.seen) /\ stamp' = stamp + 1
             /\ adm' = [adm EXCEPT ![a] = [Rest EXCEPT !.pc = "exchange",
                 !.seen = flow.seen, !.stamp = stamp + 1,
                 !.auth = [Plain("client", flow.res) EXCEPT !.exp = now + Life]]]
    <3> DEFINE s == [Plain("client", flow.res) EXCEPT !.exp = now + Life]
    <3>1. s.at = 0 /\ s.rt = 0 /\ s.grant = 0 /\ s.kind = "client" /\ s.res = flow.res
      BY DEF Plain
    <3>2. adm'[a] = [Rest EXCEPT !.pc = "exchange", !.seen = flow.seen, !.stamp = stamp + 1, !.auth = s]
      BY <1>0, <2>2 DEF TypeOK
    <3> HIDE DEF s
    <3>3. /\ adm'[a].pc = "exchange" /\ adm'[a].auth = s /\ adm'[a].seen = flow.seen
          /\ adm'[a].stamp = stamp + 1
      BY <1>0, <3>2 DEF Admin
    <3>4. \A b \in Admins \ {a} : adm'[b] = adm[b]
      BY <2>2 DEF TypeOK
    <3>5. OwnerInv' /\ SwapInv'
      <4>1. Owned(s, vendor)
        BY <3>1, OwnedPlain DEF OwnerInv, EditInv
      <4> QED
        BY <1>o, <2>0, <3>3, <3>4, <4>1, AdminOwns DEF EditInv
    <3>6. EndedInv' /\ PendInv'
      BY <2>0, <3>3, <3>4, AdminSettles DEF EditInv, SignIn
    <3>7. View(adm'[a], row)
      BY <2>0, <3>1, <3>3 DEF View, EditInv, ViewInv, FlowView
    <3>8. StampInv' /\ ViewInv'
      BY <2>0, <2>2, <3>3, <3>4, <3>7, AdminDraws DEF EditInv
    <3> QED
      BY <3>5, <3>6, <3>8 DEF EditInv
  <2> QED
    BY <1>3, <2>1, <2>2 DEF CallbackTake
<1> QED
  BY <1>1, <1>2, <1>3

\* Taking the lock, or giving up on it.
LEMMA LockStays ==
  ASSUME TypeOK, TypeOK', EditInv, NEW a \in Admins,
         CallbackLock(a) \/ PatchLock(a) \/ RevokeLock(a)
  PROVE  EditInv'
<1>1. PICK from, to : /\ AdminLock(a, from, to)
                      /\ <<from, to>> \in {<<"connectLock", "connect">>, <<"patchLock", "patch">>,
                                           <<"revokeLock", "revokeRead">>}
  BY DEF CallbackLock, PatchLock, RevokeLock
<1>2. UNCHANGED <<row, flow, call, stamp, ended, vendor>> /\ adm[a].pc = from
  BY <1>1 DEF AdminLock
<1>3. CASE AdminIdle(a)
  <2>1. adm'[a] = Rest /\ \A b \in Admins \ {a} : adm'[b] = adm[b]
    BY <1>3 DEF AdminIdle, TypeOK
  <2> QED
    BY <1>2, <2>1, HandlerStays
<1>4. CASE adm' = [adm EXCEPT ![a].pc = to]
  <2>1. /\ adm'[a].pc = to /\ adm'[a].auth = adm[a].auth /\ adm'[a].seen = adm[a].seen
        /\ adm'[a].stamp = adm[a].stamp
        /\ \A b \in Admins \ {a} : adm'[b] = adm[b]
    BY <1>4 DEF TypeOK, Admin
  <2>2. \/ from = "connectLock" /\ to = "connect"
        \/ from = "patchLock" /\ to = "patch"
        \/ from = "revokeLock" /\ to = "revokeRead"
    BY <1>1
  <2>3. /\ from \in Stamped /\ (to \in SignIn => from \in SignIn)
        /\ to \in {"patchLock", "patch"} => adm[a].auth.kind # "tokens"
    BY <1>2, <2>2 DEF Stamped, AdminPC, SignIn, EditInv, PendInv
  <2>4. View(adm'[a], row)
    <3>1. View(adm[a], row)
      BY DEF EditInv, ViewInv
    <3> QED
      BY <1>2, <2>1, <2>2, <3>1 DEF View, SignIn
  <2> QED
    BY <1>2, <2>1, <2>3, <2>4, HandlerStays
<1> QED
  BY <1>1, <1>3, <1>4 DEF AdminLock

\* What patchUpstream decides from the row it read: no grant, and a new stamp.
PatchOnly(k) == /\ k.pc \in {"patchLock", "patch"} /\ k.seen = 0 /\ k.stamp = stamp + 1
                /\ k.auth.at = 0 /\ k.auth.rt = 0 /\ k.auth.grant = 0 /\ k.auth.kind # "tokens"

\* The handler's own blob is empty, a client or a static credential.
LEMMA PatchedFields ==
  ASSUME NEW url \in Urls, NEW type \in Types, NEW cfg \in {"absent", "clear", "value"},
         NEW named \in BOOLEAN, NEW namesType \in BOOLEAN
  PROVE  PatchOnly(Patched(url, type, cfg, named, namesType))
  BY PlainFields DEF PatchOnly, Patched, Encrypted

\* patchUpstream and deleteUpstream.
LEMMA PatchStays ==
  ASSUME TypeOK, TypeOK', EditInv, NEW a \in Admins,
         PatchRead(a) \/ PatchWrite(a) \/ PatchDropFlow(a) \/ DeleteUpstream(a)
  PROVE  EditInv'
<1>0. row \in Row /\ adm[a] \in Admin /\ Rest \in Admin
  BY ConstantTypes DEF TypeOK
<1>o. Owned(NoAuth, vendor) /\ Owned(row.auth, vendor) /\ Owned(adm[a].auth, vendor)
  BY OwnedPlain, PlainFields DEF OwnerInv, EditInv
<1>1. CASE PatchRead(a)
  <2>0. UNCHANGED <<row, flow, call, ended, vendor>> /\ stamp' = stamp + 1
    BY <1>1 DEF PatchRead
  <2>1. \E k : PatchOnly(k) /\ adm' = [adm EXCEPT ![a] = k]
    BY <1>1, PatchedFields, Zenon DEF PatchRead
  <2>2. PatchOnly(adm'[a]) /\ \A b \in Admins \ {a} : adm'[b] = adm[b]
    BY <2>1 DEF TypeOK
  <2>3. /\ adm'[a].pc \in {"patchLock", "patch"} /\ adm'[a].seen = 0 /\ adm'[a].stamp = stamp + 1
        /\ adm'[a].auth.at = 0 /\ adm'[a].auth.rt = 0 /\ adm'[a].auth.grant = 0
        /\ adm'[a].auth.kind # "tokens"
    BY <2>2 DEF PatchOnly
  <2>4. OwnerInv' /\ SwapInv'
    <3>1. Owned(adm'[a].auth, vendor)
      BY <2>3, OwnedPlain DEF EditInv, OwnerInv
    <3> QED
      BY <1>o, <2>0, <2>2, <3>1, AdminOwns DEF EditInv
  <2>5. EndedInv' /\ PendInv'
    BY <2>0, <2>2, <2>3, AdminSettles DEF EditInv, SignIn
  <2>6. View(adm'[a], row)
    BY <2>3 DEF View, SignIn
  <2>7. StampInv' /\ ViewInv'
    BY <2>0, <2>2, <2>3, <2>6, AdminDraws DEF EditInv
  <2> QED
    BY <2>4, <2>5, <2>7 DEF EditInv
<1>2. CASE PatchWrite(a)
  <2>0. UNCHANGED <<flow, call, stamp, vendor>> /\ adm[a].pc = "patch"
    BY <1>2 DEF PatchWrite
  <2>1. CASE AdminIdle(a) /\ UNCHANGED <<row, ended>>
    <3>1. adm'[a] = Rest /\ \A b \in Admins \ {a} : adm'[b] = adm[b]
      BY <2>1 DEF AdminIdle, TypeOK
    <3> QED
      BY <2>0, <2>1, <3>1, HandlerStays
  <2>2. CASE /\ row' = [row EXCEPT !.url = adm[a].url, !.type = adm[a].type, !.ver = adm[a].stamp,
                                   !.auth = IF adm[a].write THEN adm[a].auth ELSE @]
             /\ ended' = ended \cup (IF adm[a].write THEN GrantOf(row.auth) ELSE {})
             /\ AdminIdle(a) \/ adm' = [adm EXCEPT ![a] = [Rest EXCEPT !.pc = "patchDrop"]]
    <3>1. /\ row'.ver = adm[a].stamp
          /\ row'.auth = IF adm[a].write THEN adm[a].auth ELSE row.auth
      BY <1>0, <2>2 DEF Row
    <3>2. adm[a].auth.kind # "tokens" /\ adm[a].pc \in Stamped
      BY <2>0 DEF EditInv, PendInv, Stamped, AdminPC
    <3>3. \/ row'.auth = row.auth /\ UNCHANGED ended
          \/ row'.auth.kind # "tokens" /\ ended' = ended \cup GrantOf(row.auth)
      BY <2>2, <3>1, <3>2
    <3>4. /\ adm'[a] \in {Rest, [Rest EXCEPT !.pc = "patchDrop"]}
          /\ \A b \in Admins \ {a} : adm'[b] = adm[b]
      BY <2>2 DEF AdminIdle, TypeOK
    <3>5. Owned(row'.auth, vendor)
      BY <1>o, <3>1
    <3> QED
      BY <2>0, <3>1, <3>2, <3>3, <3>4, <3>5, HandlerClears
  <2> QED
    BY <1>2, <2>1, <2>2 DEF PatchWrite
<1>3. CASE PatchDropFlow(a)
  <2>1. /\ adm'[a] = Rest /\ \A b \in Admins \ {a} : adm'[b] = adm[b]
        /\ UNCHANGED <<row, call, stamp, ended, vendor>> /\ flow' \in {flow, NoFlow}
    BY <1>3 DEF PatchDropFlow, AdminIdle, TypeOK
  <2>2. KeepsGrant /\ vendor.minted <= vendor'.minted
    BY <2>1, BoundsAssumption DEF KeepsGrant, TypeOK, Vendor, Serial
  <2>3. OwnerInv' /\ SwapInv'
    BY <1>o, <2>1, RestFields, AdminOwns DEF EditInv
  <2> QED
    BY <2>1, <2>2, <2>3, EditsWait
<1>4. CASE DeleteUpstream(a)
  <2>0. UNCHANGED <<flow, call, adm, stamp, vendor>> /\ ended' = ended \cup GrantOf(row.auth)
    BY <1>4 DEF DeleteUpstream
  <2>1. row'.auth = NoAuth /\ row'.live = FALSE /\ row'.ver = row.ver /\ row'.url = row.url
    BY <1>0, <1>4 DEF DeleteUpstream, Row
  <2>2. OwnerInv' /\ SwapInv'
    BY <1>o, <2>0, <2>1, AdminOwns DEF EditInv
  <2>3. EndedInv' /\ PendInv'
    <3>1. row'.auth.kind # "tokens"
      BY <2>1, PlainFields
    <3>2. adm'[a].pc \in {"patchLock", "patch"} => adm'[a].auth.kind # "tokens"
      BY <2>0 DEF EditInv, PendInv
    <3> QED
      BY <2>0, <3>1, <3>2, AdminSettles DEF EditInv
  <2>4. StampInv' /\ ViewInv'
    BY <2>0, <2>1, AdminLooks DEF EditInv, ViewInv, Known
  <2> QED
    BY <2>2, <2>3, <2>4 DEF EditInv
<1> QED
  BY <1>1, <1>2, <1>3, <1>4

\* oauthRevoke.
LEMMA RevokeStays ==
  ASSUME TypeOK, TypeOK', EditInv, NEW a \in Admins,
         \/ RevokeRead(a) \/ RevokeReread(a) \/ RevokeVendor(a) \/ RevokeWrite(a)
         \/ RevokeAgain(a) \/ RevokeWriteAgain(a)
  PROVE  EditInv'
<1>0. row \in Row /\ adm[a] \in Admin /\ Rest \in Admin /\ vendor \in Vendor
  BY ConstantTypes DEF TypeOK
<1>o. Owned(NoAuth, vendor) /\ Owned(row.auth, vendor) /\ Owned(adm[a].auth, vendor)
  BY OwnedPlain, PlainFields DEF OwnerInv, EditInv
<1>v. View(adm[a], row)
  BY DEF EditInv, ViewInv
<1>i. AdminIdle(a) => adm'[a] = Rest /\ \A b \in Admins \ {a} : adm'[b] = adm[b]
  BY DEF AdminIdle, TypeOK
<1>1. CASE RevokeRead(a)
  <2>0. UNCHANGED <<row, flow, call, ended, vendor>> /\ stamp' = stamp + 1
    BY <1>1 DEF RevokeRead
  <2>1. /\ adm'[a].pc = "revokeLock" /\ adm'[a].auth = NoAuth /\ adm'[a].seen = 0
        /\ adm'[a].stamp = stamp + 1
        /\ \A b \in Admins \ {a} : adm'[b] = adm[b]
    BY <1>0, <1>1, RestFields DEF RevokeRead, TypeOK, Admin
  <2>2. OwnerInv' /\ SwapInv'
    BY <1>o, <2>0, <2>1, AdminOwns DEF EditInv
  <2>3. EndedInv' /\ PendInv'
    BY <2>0, <2>1, AdminSettles DEF EditInv, SignIn
  <2>4. View(adm'[a], row)
    BY <2>1 DEF View, SignIn
  <2>5. StampInv' /\ ViewInv'
    BY <2>0, <2>1, <2>4, AdminDraws DEF EditInv
  <2> QED
    BY <2>2, <2>3, <2>5 DEF EditInv
<1>2. CASE RevokeReread(a)
  <2>0. UNCHANGED <<row, flow, call, stamp, ended, vendor>> /\ adm[a].pc = "revokeRead"
    BY <1>2 DEF RevokeReread
  <2>1. CASE adm' = [adm EXCEPT ![a].pc = "revokeVendor", ![a].seen = row.ver, ![a].auth = row.auth]
    <3>1. /\ adm'[a].pc = "revokeVendor" /\ adm'[a].auth = row.auth /\ adm'[a].seen = row.ver
          /\ adm'[a].stamp = adm[a].stamp
          /\ \A b \in Admins \ {a} : adm'[b] = adm[b]
      BY <1>0, <2>1 DEF TypeOK, Admin
    <3>2. View(adm'[a], row)
      BY <3>1 DEF View, SignIn
    <3>3. adm[a].pc \in Stamped /\ adm'[a].pc \notin SignIn /\ adm'[a].pc \notin {"patchLock", "patch"}
      BY <2>0, <3>1 DEF Stamped, AdminPC, SignIn
    <3> QED
      BY <2>0, <3>1, <3>2, <3>3, HandlerStays
  <2> QED
    BY <1>2, <1>i, <2>0, <2>1, HandlerStays DEF RevokeReread
<1>3. CASE RevokeVendor(a)
  <2>0. UNCHANGED <<row, flow, call, stamp, ended>> /\ adm[a].pc = "revokeVendor"
    BY <1>3 DEF RevokeVendor
  <2>1. vendor'.minted = vendor.minted /\ vendor'.owner = vendor.owner
    BY <1>0, <1>3 DEF RevokeVendor, Vendor
  <2>2. /\ adm'[a].pc = "revoke" /\ adm'[a].auth = adm[a].auth /\ adm'[a].seen = adm[a].seen
        /\ adm'[a].stamp = adm[a].stamp
        /\ \A b \in Admins \ {a} : adm'[b] = adm[b]
    BY <1>0, <1>3 DEF RevokeVendor, TypeOK, Admin
  <2>3. View(adm'[a], row)
    BY <1>v, <2>0, <2>2 DEF View, SignIn
  <2>4. adm[a].pc \in Stamped /\ adm'[a].pc \notin SignIn /\ adm'[a].pc \notin {"patchLock", "patch"}
    BY <2>0, <2>2 DEF Stamped, AdminPC, SignIn
  <2> QED
    BY <2>0, <2>1, <2>2, <2>3, <2>4, HandlerStays
<1>d. ASSUME Disconnect(a), AdminIdle(a), adm[a].pc \in {"revoke", "revoke2"},
             UNCHANGED <<flow, call, stamp, vendor>>
      PROVE  EditInv'
  <2>1. /\ row'.auth = NoAuth /\ row'.ver = adm[a].stamp /\ ended' = ended \cup GrantOf(row.auth)
        /\ row'.auth.kind # "tokens"
    BY <1>0, <1>d, PlainFields DEF Disconnect, Row
  <2>2. adm[a].pc \in Stamped
    BY <1>d DEF Stamped, AdminPC
  <2> QED
    BY <1>d, <1>i, <1>o, <2>1, <2>2, HandlerClears
<1>4. CASE RevokeWrite(a)
  <2>0. UNCHANGED <<flow, call, stamp, vendor>> /\ adm[a].pc = "revoke"
    BY <1>4 DEF RevokeWrite
  <2>1. CASE adm' = [adm EXCEPT ![a].pc = "revokeAgain"] /\ UNCHANGED <<row, ended>>
    <3>1. /\ adm'[a].pc = "revokeAgain" /\ adm'[a].auth = adm[a].auth /\ adm'[a].seen = adm[a].seen
          /\ adm'[a].stamp = adm[a].stamp
          /\ \A b \in Admins \ {a} : adm'[b] = adm[b]
      BY <1>0, <2>1 DEF TypeOK, Admin
    <3>2. View(adm'[a], row)
      BY <3>1 DEF View, SignIn
    <3>3. adm[a].pc \in Stamped /\ adm'[a].pc \notin SignIn /\ adm'[a].pc \notin {"patchLock", "patch"}
      BY <2>0, <3>1 DEF Stamped, AdminPC, SignIn
    <3> QED
      BY <2>0, <2>1, <3>1, <3>2, <3>3, HandlerStays
  <2>2. CASE AdminIdle(a) /\ UNCHANGED <<row, ended>>
    BY <1>i, <2>0, <2>2, HandlerStays
  <2> QED
    BY <1>4, <1>d, <2>0, <2>1, <2>2 DEF RevokeWrite
<1>5. CASE RevokeAgain(a)
  <2>0. UNCHANGED <<row, flow, call, stamp, ended, vendor>> /\ adm[a].pc = "revokeAgain"
    BY <1>5 DEF RevokeAgain
  <2>1. CASE /\ StillRevoked(a)
             /\ adm' = [adm EXCEPT ![a].pc = "revoke2", ![a].seen = row.ver]
    <3>1. /\ adm'[a].pc = "revoke2" /\ adm'[a].auth = adm[a].auth /\ adm'[a].seen = row.ver
          /\ adm'[a].stamp = adm[a].stamp
          /\ \A b \in Admins \ {a} : adm'[b] = adm[b]
      BY <1>0, <2>1 DEF TypeOK, Admin
    <3>2. row.auth.grant = adm[a].auth.grant
      BY <1>o, <2>1 DEF StillRevoked, Owned
    <3>3. View(adm'[a], row)
      BY <3>1, <3>2 DEF View, SignIn
    <3>4. adm[a].pc \in Stamped /\ adm'[a].pc \notin SignIn /\ adm'[a].pc \notin {"patchLock", "patch"}
      BY <2>0, <3>1 DEF Stamped, AdminPC, SignIn
    <3> QED
      BY <2>0, <3>1, <3>3, <3>4, HandlerStays
  <2> QED
    BY <1>5, <1>i, <2>0, <2>1, HandlerStays DEF RevokeAgain
<1>6. CASE RevokeWriteAgain(a)
  <2>0. UNCHANGED <<flow, call, stamp, vendor>> /\ adm[a].pc = "revoke2" /\ AdminIdle(a)
    BY <1>6 DEF RevokeWriteAgain
  <2>1. Disconnect(a) \/ UNCHANGED <<row, ended>>
    BY <1>6 DEF RevokeWriteAgain
  <2> QED
    BY <1>d, <1>i, <2>0, <2>1, HandlerStays
<1> QED
  BY <1>1, <1>2, <1>3, <1>4, <1>5, <1>6

\* EditInv is inductive.
LEMMA EditStep == TypeOK /\ TypeOK' /\ EditInv /\ [Next]_vars => EditInv'
<1> SUFFICES ASSUME TypeOK, TypeOK', EditInv, [Next]_vars PROVE EditInv'
  OBVIOUS
<1>1. ASSUME NEW c \in Callers, CallerRead(c) \/ CallerStep(c)
      PROVE  EditInv'
  <2>1. OwnerInv' /\ SwapInv' /\ KeepsGrant
    BY <1>1, CallerStays DEF EditInv
  <2>2. UNCHANGED <<adm, flow, stamp, ended>>
    BY <1>1 DEF CallerRead, CallerStep, PresentOpen, PresentLock, PresentGiveUp, PresentReread,
         VendorRenews, VendorUnavailable, VendorRejects, PresentDrop, PresentSwap, PresentAgain,
         PresentSwapAgain, CallerForward
  <2>3. vendor'.minted \in {vendor.minted, vendor.minted + 1}
    <3>1. CASE VendorRenews(c)
      BY <3>1, RenewOwns DEF EditInv
    <3>2. CASE VendorRejects(c)
      BY <3>2 DEF VendorRejects, TypeOK, Vendor
    <3>3. CASE UNCHANGED vendor
      BY <3>3
    <3> QED
      BY <1>1, <3>1, <3>2, <3>3
         DEF CallerRead, CallerStep, PresentOpen, PresentLock, PresentGiveUp, PresentReread,
             VendorUnavailable, PresentDrop, PresentSwap, PresentAgain, PresentSwapAgain, CallerForward
  <2>4. vendor.minted <= vendor'.minted
    <3>1. vendor.minted \in Int
      BY BoundsAssumption DEF TypeOK, Vendor, Serial
    <3> QED
      BY <2>3, <3>1
  <2> QED
    BY <2>1, <2>2, <2>4, EditsWait
<1>2. ASSUME NEW a \in Admins, AdminBegin(a) \/ AdminStep(a)
      PROVE  EditInv'
  BY <1>2, SignInStays, CallbackExchangeStays, CallbackConnectStays, LockStays, PatchStays, RevokeStays
     DEF AdminBegin, AdminStep
<1>3. CASE FlowExpires \/ Rekey \/ Tick \/ Restart
  BY <1>3, WorldStays
<1>4. CASE UNCHANGED vars
  <2>1. /\ KeepsGrant /\ UNCHANGED <<row, flow, call, adm, stamp, ended, vendor>>
        /\ vendor.minted <= vendor'.minted
    BY <1>4, BoundsAssumption DEF vars, KeepsGrant, TypeOK, Vendor, Serial
  <2>2. OwnerInv' /\ SwapInv'
    BY <2>1 DEF EditInv, OwnerInv, SwapInv
  <2> QED
    BY <2>1, <2>2, EditsWait
<1> QED
  BY <1>1, <1>2, <1>3, <1>4 DEF Next

\* EditInv holds of every behaviour.
LEMMA EditInvAlways == Spec => [](TypeOK /\ EditInv)
<1>1. TypeOK /\ EditInv /\ [Next]_vars => (TypeOK /\ EditInv)'
  BY TypeStep, EditStep
<1> QED
  BY <1>1, TypeInit, EditInit, PTL DEF Spec

\* A grant the operator replaced, cleared or disconnected never comes back to
\* the row, whatever refresh or sign-in was in flight (SwapUpstreamAuth,
\* ConnectUpstreamAuth).
THEOREM EndedGrantNeverReturns == Spec => []EndedGrantStaysEnded
<1>1. EditInv => EndedGrantStaysEnded
  BY DEF EditInv, EndedInv
<1> QED
  BY <1>1, EditInvAlways, PTL

\* A sign-in is stored only under the url it was started for, whatever was
\* edited on this or on another replica while the browser was away.
THEOREM SignInKeepsItsUrl == Spec => ConnectBindsToUrl
<1> DEFINE Bound == (/\ row'.auth # row.auth
                     /\ row'.auth.kind = "tokens"
                     /\ row'.ver # row.ver) => /\ row'.type = "oauth"
                                               /\ row'.auth.res = row'.url
<1>1. TypeOK /\ EditInv /\ TypeOK' /\ [Next]_vars => [Bound]_vars
  <2> SUFFICES ASSUME TypeOK, EditInv, TypeOK', Next, row'.auth # row.auth,
                      row'.auth.kind = "tokens", row'.ver # row.ver
               PROVE  row'.type = "oauth" /\ row'.auth.res = row'.url
    OBVIOUS
  <2>0. row \in Row
    BY DEF TypeOK
  <2>1. ASSUME NEW c \in Callers, CallerRead(c) \/ CallerStep(c)
        PROVE  FALSE
    BY <2>1, CallerStays DEF EditInv, KeepsGrant
  <2>2. ASSUME NEW a \in Admins, CallbackConnect(a)
        PROVE  row'.type = "oauth" /\ row'.auth.res = row'.url
    <3>1. /\ ConnectHits(adm[a].seen) /\ adm[a].pc = "connect"
          /\ row' = [row EXCEPT !.auth = adm[a].auth, !.ver = adm[a].stamp]
      BY <2>2 DEF CallbackConnect
    <3>2. adm[a].auth.res = row.url
      BY <3>1 DEF ConnectHits, EditInv, ViewInv, View, SignIn
    <3> QED
      BY <2>0, <3>1, <3>2 DEF ConnectHits, Row
  <2>3. ASSUME NEW a \in Admins, PatchWrite(a)
        PROVE  FALSE
    <3>1. /\ row' = [row EXCEPT !.url = adm[a].url, !.type = adm[a].type, !.ver = adm[a].stamp,
                                !.auth = IF adm[a].write THEN adm[a].auth ELSE @]
          /\ adm[a].pc = "patch"
      BY <2>3 DEF PatchWrite
    <3>2. adm[a].auth.kind # "tokens"
      BY <3>1 DEF EditInv, PendInv
    <3> QED
      BY <2>0, <3>1, <3>2 DEF Row
  <2>4. ASSUME NEW a \in Admins, Disconnect(a) \/ DeleteUpstream(a)
        PROVE  FALSE
    BY <2>0, <2>4, PlainFields DEF Disconnect, DeleteUpstream, Row
  <2>5. CASE Rekey \/ Restart
    BY <2>0, <2>5 DEF Rekey, Restart, Row
  <2>6. ASSUME NEW a \in Admins, AdminBegin(a) \/ AdminStep(a)
        PROVE  row'.type = "oauth" /\ row'.auth.res = row'.url
    <3>1. CASE UNCHANGED row
      BY <3>1
    <3> QED
      BY <2>2, <2>3, <2>4, <2>6, <3>1
         DEF AdminBegin, AdminStep, StartRead, CallbackTake, PatchRead, RevokeRead, StartPut,
             CallbackExchange, CallbackLock, PatchLock, RevokeLock, AdminLock, PatchDropFlow,
             RevokeReread, RevokeVendor, RevokeWrite, RevokeAgain, RevokeWriteAgain
  <2> QED
    BY <2>1, <2>5, <2>6 DEF Next, FlowExpires, Tick
<1> QED
  BY <1>1, EditInvAlways, TypeCorrect, PTL DEF ConnectBindsToUrl, Spec

\* A disconnect empties the row only of the grant it sent to the vendor, even
\* when another replica edited the row in between (oauthRevoke).
THEOREM DisconnectIsExact == Spec => DisconnectHitsItsGrant
<1> DEFINE Own(a) == (/\ adm[a].pc \in {"revoke", "revoke2"} /\ adm'[a].pc = "idle"
                      /\ row'.auth.kind = "empty" /\ row.auth.kind # "empty" /\ row.live)
                     => row.auth.grant = adm[a].auth.grant
<1>1. TypeOK /\ EditInv /\ TypeOK' /\ [Next]_vars => [\A a \in Admins : Own(a)]_vars
  <2> SUFFICES ASSUME TypeOK, EditInv, TypeOK', Next, NEW a \in Admins,
                      adm[a].pc \in {"revoke", "revoke2"}, adm'[a].pc = "idle",
                      row'.auth.kind = "empty", row.auth.kind # "empty", row.live
               PROVE  row.auth.grant = adm[a].auth.grant
    OBVIOUS
  <2>1. ASSUME NEW c \in Callers, CallerRead(c) \/ CallerStep(c)
        PROVE  FALSE
    BY <2>1, CallerStays DEF EditInv, KeepsGrant
  <2>2. CASE UNCHANGED row
    BY <2>2
  <2>3. CASE Disconnect(a)
    BY <2>3 DEF Disconnect, ConnectHits, EditInv, ViewInv, View
  <2>4. CASE Rekey \/ Restart
    <3>1. row \in Row /\ row.auth \in Blob
      BY DEF TypeOK, Row
    <3> QED
      BY <2>4, <3>1 DEF Rekey, Restart, Row, Blob
  <2>5. ASSUME NEW b \in Admins, AdminBegin(b) \/ AdminStep(b), row' # row
        PROVE  b = a /\ Disconnect(a)
    <3>1. adm' # adm
      OBVIOUS
    <3>2. \A d \in Admins \ {b} : adm'[d] = adm[d]
      BY <2>5, <3>1 DEF AdminBegin, AdminStep, StartRead, CallbackTake, PatchRead, RevokeRead,
           DeleteUpstream, StartPut, CallbackExchange, CallbackLock, PatchLock, RevokeLock, AdminLock,
           CallbackConnect, PatchWrite, PatchDropFlow, AdminIdle, TypeOK,
           RevokeReread, RevokeVendor, RevokeWrite, RevokeAgain, RevokeWriteAgain
    <3>3. b = a
      BY <3>2
    <3>4. CASE RevokeWrite(a) \/ RevokeWriteAgain(a)
      BY <2>5, <3>3, <3>4 DEF RevokeWrite, RevokeWriteAgain
    <3> QED
      BY <2>5, <3>1, <3>3, <3>4
         DEF AdminBegin, AdminStep, StartRead, CallbackTake, PatchRead, RevokeRead, DeleteUpstream,
             StartPut, CallbackExchange, CallbackLock, PatchLock, RevokeLock, AdminLock,
             CallbackConnect, PatchWrite, PatchDropFlow, RevokeReread, RevokeVendor, RevokeAgain
  <2> QED
    BY <2>1, <2>2, <2>3, <2>4, <2>5 DEF Next, FlowExpires, Tick
<1> QED
  BY <1>1, EditInvAlways, TypeCorrect, PTL DEF DisconnectHitsItsGrant, Spec
=============================================================================
