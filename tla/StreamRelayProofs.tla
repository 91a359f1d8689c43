------------------------- MODULE StreamRelayProofs -------------------------
(***************************************************************************)
(* Proofs about StreamRelay: what a cut does to the client's connection,   *)
(* what the relay leaves behind, and whether the end it records is true.   *)
(***************************************************************************)
EXTENDS StreamRelay, TLAPS

Leaving == {"exit", "timers", "record", "returned"}

\* The deferred exit, step by step: nothing the callbacks hold or arm survives
\* the step of it that ends them.
ExitOrder ==
    /\ pc \in {"timers", "record", "returned"} <=> done
    /\ done => ~Held
    /\ pc \in {"record", "returned"} => armed = {}

\* Where a cancellation comes from: a callback that runs, which for the stop
\* signal means a shutdown, or the client, until the exit cancels by itself.
CauseTrue ==
    /\ Held => Cancelled
    /\ clientCtx => "left" \in faults
    /\ cause = "canceled" /\ pc \notin {"record", "returned"} => clientCtx
    /\ cause = "stopped" => stopping
    /\ watch["stop"] # "off" => stopping

\* A write's deadline is past before its time only after a cut.
DeadlineTrue ==
    pc \in {"check", "write"} /\ deadline = "past" => Cancelled \/ "slow" \in faults

\* The relay leaves with the end "upstream" only after the EOF.
EofTrue ==
    /\ last => "eof" \in faults
    /\ pc \in Leaving /\ end = "upstream" => "eof" \in faults

RelayInv == /\ TypeOK /\ ExitOrder /\ CauseTrue /\ DeadlineTrue /\ EofTrue
            /\ CutReachesWrite /\ EndIsTrue

\* The relay starts with nothing decided and nothing cut.
LEMMA RelayInit == Init => RelayInv
  BY DEF Init, RelayInv, TypeOK, ExitOrder, CauseTrue, DeadlineTrue, EofTrue, CutReachesWrite,
         EndIsTrue, RelayPC, Ends, Causes, WatchPC, Watchers, Leaving, Held, Cancelled

\* The three callbacks: arming, cancelling and moving the deadline.
LEMMA RelayCallback ==
  ASSUME RelayInv, NEW w \in Watchers, Fire(w) \/ Callback(w)
  PROVE  RelayInv'
<1> USE DEF RelayInv
<1>1. CASE Fire(w)
  <2>1. TypeOK' /\ (Held' <=> Held)
    BY <1>1 DEF TypeOK, Fire, relayVars, Held, WatchPC, Watchers
  <2> QED
    BY <1>1, <2>1 DEF Fire, relayVars, ExitOrder, CauseTrue, DeadlineTrue, EofTrue, CutReachesWrite,
       EndIsTrue, Cancelled, TypeOK
<1>2. CASE CutCancel(w)
  <2>1. TypeOK'
    BY <1>2 DEF TypeOK, CutCancel, relayVars, WatchPC, Watchers, CauseOf, Causes
  <2>2. ~Held /\ (Held' <=> ~done) /\ Cancelled' = (Cancelled \/ ~done)
    BY <1>2 DEF TypeOK, CutCancel, Held, Watchers, Cancelled, CauseOf
  <2>3. CauseTrue'
    BY <1>2, <2>2 DEF CutCancel, relayVars, CauseTrue, CauseOf, Watchers, TypeOK, Cancelled, ExitOrder
  <2> QED
    BY <1>2, <2>1, <2>2, <2>3 DEF CutCancel, relayVars, ExitOrder, DeadlineTrue, EofTrue,
       CutReachesWrite, EndIsTrue
<1>3. CASE CutDeadline(w)
  <2>1. TypeOK' /\ Held /\ (Held' => Held)
    BY <1>3 DEF TypeOK, CutDeadline, relayVars, Held, WatchPC, Watchers
  <2> QED
    BY <1>3, <2>1 DEF CutDeadline, relayVars, ExitOrder, CauseTrue, DeadlineTrue, EofTrue,
       CutReachesWrite, EndIsTrue, Cancelled, TypeOK
<1> QED
  BY <1>1, <1>2, <1>3 DEF Callback

\* The re-check's own steps, outside a cut.
LEMMA RelayRecheck ==
  ASSUME RelayInv, Recheck
  PROVE  RelayInv'
<1> USE DEF RelayInv
<1>1. /\ UNCHANGED <<relayVars, pc, cause, clientCtx, stopping, done, deadline, faults>>
      /\ armed' \in {armed, armed \cup {"recheck"}} /\ (done => armed' = armed)
      /\ \E to \in WatchPC \ {"deadline"} : watch' = [watch EXCEPT !["recheck"] = to]
      /\ watch["recheck"] # "deadline"
  BY DEF Recheck, RecheckLook, RecheckRead, RecheckAgain, WatchPC
<1>2. TypeOK' /\ (Held' <=> Held) /\ watch'["stop"] = watch["stop"]
  BY <1>1 DEF TypeOK, relayVars, Held, Watchers
<1> QED
  BY <1>1, <1>2 DEF relayVars, ExitOrder, CauseTrue, DeadlineTrue, EofTrue, CutReachesWrite,
     EndIsTrue, Cancelled, TypeOK

\* What has met a set still meets it when it grows.
LEMMA Grown ==
  ASSUME NEW S, NEW x, NEW T, S \cap T # {}
  PROVE  (S \cup {x}) \cap T # {}
<1> PICK y \in S \cap T : TRUE
  OBVIOUS
<1> y \in (S \cup {x}) \cap T
  OBVIOUS
<1> QED
  OBVIOUS

\* The relay's reads and what it makes of them.
LEMMA RelayRead ==
  ASSUME RelayInv, Read \/ Feed \/ Reset
  PROVE  RelayInv'
<1> USE DEF RelayInv, relayVars, TypeOK, RelayPC, Ends, Causes, ExitOrder, CauseTrue, DeadlineTrue,
        EofTrue, CutReachesWrite, EndIsTrue, Leaving, Held, Cancelled, Leave, EndByCause
<1>1. CASE ReadBytes
  BY <1>1 DEF ReadBytes
<1>2. CASE ReadEOF
  <2>1. faults \cap {"left", "slow"} # {} => faults' \cap {"left", "slow"} # {}
    BY <1>2, Grown DEF ReadEOF
  <2>2. TypeOK'
    <3>1. pc' \in {"exit", "stop"} /\ last' \in BOOLEAN /\ end' \in Ends
      BY <1>2 DEF ReadEOF
    <3>2. faults' \subseteq {"eof", "left", "slow", "broke"}
      BY <1>2 DEF ReadEOF
    <3> QED
      BY <1>2, <3>1, <3>2 DEF ReadEOF
  <2>3. EndIsTrue' /\ EofTrue'
    BY <1>2, <2>1 DEF ReadEOF
  <2>4. ExitOrder' /\ CauseTrue' /\ DeadlineTrue' /\ CutReachesWrite'
    BY <1>2 DEF ReadEOF
  <2> QED
    BY <2>2, <2>3, <2>4
<1>3. CASE ReadCancelled
  BY <1>3 DEF ReadCancelled
<1>4. CASE ReadBreaks
  BY <1>4 DEF ReadBreaks
<1>5. CASE Feed
  BY <1>5 DEF Feed
<1>6. CASE Reset
  BY <1>6 DEF Reset, Watchers
<1> QED
  BY <1>1, <1>2, <1>3, <1>4, <1>5, <1>6 DEF Read

\* send, and the write it ends in.
LEMMA RelaySend ==
  ASSUME RelayInv, Send \/ Write
  PROVE  RelayInv'
<1> USE DEF RelayInv, relayVars, TypeOK, RelayPC, Ends, Causes, ExitOrder, CauseTrue, DeadlineTrue,
        EofTrue, CutReachesWrite, EndIsTrue, Leaving, Held, Cancelled, Leave, EndByCause
<1>1. CASE SendStop
  BY <1>1 DEF SendStop
<1>2. CASE SendDeadline
  BY <1>2 DEF SendDeadline
<1>3. CASE SendCheck
  BY <1>3 DEF SendCheck
<1>4. CASE Written
  BY <1>4 DEF Written
<1>5. CASE WriteFails
  BY <1>5 DEF WriteFails
<1> QED
  BY <1>1, <1>2, <1>3, <1>4, <1>5 DEF Send, Write

\* The deferred exit.
LEMMA RelayExit ==
  ASSUME RelayInv, Exit
  PROVE  RelayInv'
<1> USE DEF RelayInv, relayVars, TypeOK, RelayPC, Ends, Causes, ExitOrder, CauseTrue, DeadlineTrue,
        EofTrue, CutReachesWrite, EndIsTrue, Leaving, Held, Cancelled
<1>1. CASE ExitMark
  BY <1>1 DEF ExitMark
<1>2. CASE ExitTimers
  BY <1>2 DEF ExitTimers
<1>3. CASE ExitRecord
  BY <1>3 DEF ExitRecord, Verdicts
<1> QED
  BY <1>1, <1>2, <1>3 DEF Exit

\* The client, the clock and the shutdown.
LEMMA RelayOutside ==
  ASSUME RelayInv, Outside
  PROVE  RelayInv'
<1> USE DEF RelayInv, relayVars, TypeOK, RelayPC, Ends, Causes, ExitOrder, CauseTrue, DeadlineTrue,
        EofTrue, CutReachesWrite, EndIsTrue, Leaving, Held, Cancelled
<1>1. CASE ClientLeaves
  BY <1>1 DEF ClientLeaves
<1>2. CASE ClientNoticed
  BY <1>2 DEF ClientNoticed
<1>3. CASE DeadlinePasses
  BY <1>3 DEF DeadlinePasses
<1>4. CASE StopStreams
  BY <1>4 DEF StopStreams
<1> QED
  BY <1>1, <1>2, <1>3, <1>4 DEF Outside

\* Every step of relayStream, its callbacks and the outside keeps the invariant.
LEMMA RelayInvAlways == Spec => []RelayInv
<1>1. RelayInv /\ [Next]_vars => RelayInv'
  <2> SUFFICES ASSUME RelayInv, [Next]_vars PROVE RelayInv'
    OBVIOUS
  <2>1. CASE UNCHANGED vars
    BY <2>1 DEF vars, relayVars, RelayInv, TypeOK, ExitOrder, CauseTrue, DeadlineTrue, EofTrue,
                CutReachesWrite, EndIsTrue, Held, Cancelled
  <2> QED
    BY <2>1, RelayCallback, RelayRecheck, RelayRead, RelaySend, RelayExit, RelayOutside DEF Next
<1> QED
  BY <1>1, RelayInit, PTL DEF Spec

----------------------------------------------------------------------------
\* Every variable keeps its type, and the audit row is there exactly once the
\* relay has returned (relayStream's deferred finish).
THEOREM RelayTypeCorrect == Spec => []TypeOK
<1>1. RelayInv => TypeOK
  BY DEF RelayInv
<1> QED
  BY <1>1, RelayInvAlways, PTL

\* A complete cut reaches a write in flight, although send sets the same
\* deadline without the mutex: it tests the context after it has set it.
THEOREM CutsReachWrites == Spec => []CutReachesWrite
<1>1. RelayInv => CutReachesWrite
  BY DEF RelayInv
<1> QED
  BY <1>1, RelayInvAlways, PTL

\* When relayStream has returned, no callback is armed, nor about to move the
\* deadline of a connection that serves the next request: the exit sets done
\* under the mutex before it stops the timers.
THEOREM RelayLeavesNothing == Spec => []NothingOutlives
<1>1. RelayInv => NothingOutlives
  BY DEF RelayInv, ExitOrder, NothingOutlives
<1> QED
  BY <1>1, RelayInvAlways, PTL

\* The end the row is judged by is what happened, and a stream the proxy cut is
\* never put down to the other side (endByCause).
THEOREM RecordedEndIsTrue == Spec => []EndIsTrue
<1>1. RelayInv => EndIsTrue
  BY DEF RelayInv
<1> QED
  BY <1>1, RelayInvAlways, PTL
============================================================================
