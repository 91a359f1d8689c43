----------------------------- MODULE StreamRelay -----------------------------
(***************************************************************************)
(* Handler.relayStream (internal/proxy/stream.go): one goroutine relays an *)
(* upstream's event stream to the client, while three callbacks on other   *)
(* goroutines may cut it: the idle timer, the stop signal of a shutdown    *)
(* and the re-check of the key and the upstream. A cut cancels the         *)
(* upstream request and moves the client connection's write deadline to    *)
(* now, under a mutex; the relay's own send sets the same deadline and     *)
(* takes no mutex.                                                         *)
(*                                                                         *)
(* One stream: streams share nothing but the stop signal. The mutex is     *)
(* held over two steps only by a cut, so its holder is the watcher at      *)
(* "deadline". What the re-check reads is module StreamRecheck; here its   *)
(* outcome is free.                                                        *)
(***************************************************************************)
EXTENDS Naturals

VARIABLES
    pc,         \* the relay goroutine
    last,       \* its send follows the upstream's EOF
    end,        \* why the stream stopped, as relayStream decides
    row,        \* the status of the audit row, once it is written
    listen,     \* the request is a subscriptions/listen
    answered,   \* the capture holds the answer to the request
    cause,      \* the cause ctx was cancelled with
    clientCtx,  \* r.Context() is cancelled
    stopping,   \* StopStreams has run
    done,       \* the flag the callbacks test
    watch,      \* per watcher: its callback
    armed,      \* the timers running, and the stop registration
    deadline,   \* the client connection's write deadline
    faults      \* what really happened outside the proxy

vars == <<pc, last, end, row, listen, answered, cause, clientCtx, stopping, done,
          watch, armed, deadline, faults>>
relayVars == <<last, end, row, listen, answered>>

Watchers == {"idle", "stop", "recheck"}
WatchPC == {"off", "look", "reading", "again", "cut", "deadline"}
RelayPC == {"read", "feed", "stop", "deadline", "check", "write", "reset",
            "exit", "timers", "record", "returned"}
Ends == {"upstream", "client", "idle", "stopped", "revoked", "read_error", "redact"}
Causes == {"none", "idle", "stopped", "revoked", "canceled"}

\* Every variable keeps its type, and the row is written exactly when the relay
\* returns.
TypeOK ==
    /\ pc \in RelayPC
    /\ last \in BOOLEAN /\ listen \in BOOLEAN /\ answered \in BOOLEAN
    /\ end \in Ends
    /\ row \in {"none", "success", "error"} /\ (row = "none" <=> pc # "returned")
    /\ cause \in Causes
    /\ clientCtx \in BOOLEAN /\ stopping \in BOOLEAN /\ done \in BOOLEAN
    /\ watch \in [Watchers -> WatchPC]
    /\ armed \subseteq Watchers
    /\ deadline \in {"none", "future", "past"}
    /\ faults \subseteq {"eof", "left", "slow", "broke"}

\* The headers are sent, the timers armed and the stop signal watched.
Init ==
    /\ pc = "read" /\ last = FALSE /\ end = "upstream" /\ row = "none"
    /\ listen \in BOOLEAN /\ answered = FALSE
    /\ cause = "none" /\ clientCtx = FALSE
    /\ stopping \in BOOLEAN
    /\ done = FALSE
    /\ watch = [w \in Watchers |-> "off"]
    /\ armed = Watchers
    /\ deadline = "none"
    /\ faults = {}

Held == \E w \in Watchers : watch[w] = "deadline"
Cancelled == cause # "none"

-----------------------------------------------------------------------------
(* The callbacks. *)

CauseOf(w) == CASE w = "idle" -> "idle" [] w = "stop" -> "stopped" [] w = "recheck" -> "revoked"

\* A timer runs out, or the stop signal comes. A second run of a callback is
\* not started while one is going on: the first has cancelled already.
Fire(w) ==
    /\ w \in armed /\ watch[w] = "off"
    /\ w = "stop" => stopping
    /\ armed' = armed \ {w}
    /\ watch' = [watch EXCEPT ![w] = IF w = "recheck" THEN "look" ELSE "cut"]
    /\ UNCHANGED <<relayVars, pc, cause, clientCtx, stopping, done, deadline, faults>>

\* The first guard of the re-check, and its store reads, outside the mutex.
RecheckLook ==
    /\ watch["recheck"] = "look" /\ ~Held
    /\ watch' = [watch EXCEPT !["recheck"] = IF done THEN "off" ELSE "reading"]
    /\ UNCHANGED <<relayVars, pc, cause, clientCtx, stopping, done, armed, deadline, faults>>

RecheckRead ==
    /\ watch["recheck"] = "reading"
    /\ \E next \in {"cut", "again"} : watch' = [watch EXCEPT !["recheck"] = next]
    /\ UNCHANGED <<relayVars, pc, cause, clientCtx, stopping, done, armed, deadline, faults>>

RecheckAgain ==
    /\ watch["recheck"] = "again" /\ ~Held
    /\ watch' = [watch EXCEPT !["recheck"] = "off"]
    /\ armed' = IF done THEN armed ELSE armed \cup {"recheck"}
    /\ UNCHANGED <<relayVars, pc, cause, clientCtx, stopping, done, deadline, faults>>

\* Mutant: a cut moves the deadline and leaves the upstream request running.
CutCancelNot(w) ==
    /\ watch[w] = "cut" /\ ~Held
    /\ watch' = [watch EXCEPT ![w] = IF done THEN "off" ELSE "deadline"]
    /\ UNCHANGED <<relayVars, pc, cause, clientCtx, stopping, done, armed, deadline, faults>>

\* cut, first half: the mutex, the test of done, cancel(cause). The first
\* cause a context is cancelled with stays.
CutCancel(w) ==
    /\ watch[w] = "cut" /\ ~Held
    /\ watch' = [watch EXCEPT ![w] = IF done THEN "off" ELSE "deadline"]
    /\ cause' = IF done \/ Cancelled THEN cause ELSE CauseOf(w)
    /\ UNCHANGED <<relayVars, pc, clientCtx, stopping, done, armed, deadline, faults>>

\* cut, second half: SetWriteDeadline(now), and the mutex is released.
CutDeadline(w) ==
    /\ watch[w] = "deadline"
    /\ watch' = [watch EXCEPT ![w] = "off"]
    /\ deadline' = "past"
    /\ UNCHANGED <<relayVars, pc, cause, clientCtx, stopping, done, armed, faults>>

-----------------------------------------------------------------------------
(* The relay. *)

\* Mutant: the fallback is taken whenever the client is still there.
EndByCauseFallback(fallback) == IF clientCtx THEN "client" ELSE fallback

EndByCause(fallback) ==
    IF cause \in {"idle", "stopped", "revoked"} THEN cause
    ELSE IF clientCtx THEN "client"
    ELSE fallback

Leave(why) == pc' = "exit" /\ end' = why

\* resp.Body.Read: bytes, EOF, or an error. A cancelled request's body may
\* still have bytes in its buffer.
ReadBytes ==
    /\ pc = "read"
    /\ pc' = "feed"
    /\ UNCHANGED <<relayVars, cause, clientCtx, stopping, done, watch, armed, deadline, faults>>

ReadEOF ==
    /\ pc = "read"
    /\ faults' = faults \cup {"eof"}
    /\ \/ Leave("upstream") /\ UNCHANGED last
       \/ Leave("redact") /\ UNCHANGED last
       \/ pc' = "stop" /\ last' = TRUE /\ UNCHANGED end
    /\ UNCHANGED <<row, listen, answered, cause, clientCtx, stopping, done, watch, armed, deadline>>

ReadCancelled ==
    /\ pc = "read" /\ Cancelled
    /\ Leave(EndByCause("read_error"))
    /\ UNCHANGED <<last, row, listen, answered, cause, clientCtx, stopping, done, watch, armed, deadline, faults>>

ReadBreaks ==
    /\ pc = "read"
    /\ faults' = faults \cup {"broke"}
    /\ Leave(EndByCause("read_error"))
    /\ UNCHANGED <<last, row, listen, answered, cause, clientCtx, stopping, done, watch, armed, deadline>>

\* capture.Write, hold.feed: bytes to send, bytes held, or an event too large
\* to check.
Feed ==
    /\ pc = "feed"
    /\ answered' \in BOOLEAN
    /\ \/ pc' \in {"stop", "reset"} /\ UNCHANGED end
       \/ Leave("redact")
    /\ UNCHANGED <<last, row, listen, cause, clientCtx, stopping, done, watch, armed, deadline, faults>>

\* Mutant: the idle timer a send stopped is not started again.
ResetNot ==
    /\ pc = "reset"
    /\ pc' = "read"
    /\ UNCHANGED <<relayVars, cause, clientCtx, stopping, done, watch, armed, deadline, faults>>

\* idleT.Reset.
Reset ==
    /\ pc = "reset"
    /\ pc' = "read"
    /\ armed' = armed \cup {"idle"}
    /\ UNCHANGED <<relayVars, cause, clientCtx, stopping, done, watch, deadline, faults>>

\* send: idleT.Stop, SetWriteDeadline(now + idle), the test of ctx, Write and
\* Flush.
SendStop ==
    /\ pc = "stop"
    /\ pc' = "deadline"
    /\ armed' = armed \ {"idle"}
    /\ UNCHANGED <<relayVars, cause, clientCtx, stopping, done, watch, deadline, faults>>

SendDeadline ==
    /\ pc = "deadline"
    /\ pc' = "check"
    /\ deadline' = "future"
    /\ UNCHANGED <<relayVars, cause, clientCtx, stopping, done, watch, armed, faults>>

\* Mutant: the context is not tested after the deadline was set.
SendCheckNot ==
    /\ pc = "check"
    /\ pc' = "write"
    /\ UNCHANGED <<relayVars, cause, clientCtx, stopping, done, watch, armed, deadline, faults>>

SendCheck ==
    /\ pc = "check"
    /\ IF Cancelled THEN Leave(EndByCause("client")) ELSE pc' = "write" /\ UNCHANGED end
    /\ UNCHANGED <<last, row, listen, answered, cause, clientCtx, stopping, done, watch, armed, deadline, faults>>

Written ==
    /\ pc = "write" /\ deadline = "future"
    /\ IF last THEN Leave("upstream") ELSE pc' = "reset" /\ UNCHANGED end
    /\ UNCHANGED <<last, row, listen, answered, cause, clientCtx, stopping, done, watch, armed, deadline, faults>>

WriteFails ==
    /\ pc = "write" /\ (deadline = "past" \/ "left" \in faults)
    /\ Leave(EndByCause("client"))
    /\ UNCHANGED <<last, row, listen, answered, cause, clientCtx, stopping, done, watch, armed, deadline, faults>>

\* Mutant: done is set under no mutex.
ExitMarkUnlocked ==
    /\ pc = "exit"
    /\ pc' = "timers"
    /\ done' = TRUE
    /\ UNCHANGED <<relayVars, cause, clientCtx, stopping, watch, armed, deadline, faults>>

\* The deferred exit, on every way out: done, under the mutex.
ExitMark ==
    /\ pc = "exit" /\ ~Held
    /\ pc' = "timers"
    /\ done' = TRUE
    /\ UNCHANGED <<relayVars, cause, clientCtx, stopping, watch, armed, deadline, faults>>

\* The timers and the stop registration go, the body is closed, cancel(nil).
ExitTimers ==
    /\ pc = "timers"
    /\ pc' = "record"
    /\ armed' = {}
    /\ cause' = IF Cancelled THEN cause ELSE "canceled"
    /\ UNCHANGED <<relayVars, clientCtx, stopping, done, watch, deadline, faults>>

\* streamVerdict. The answer's own document decides when there is one; an
\* event the judge dropped as too large stands for it at the upstream's EOF.
Verdicts ==
    IF answered THEN {"success", "error"}
    ELSE IF end \in {"read_error", "revoked", "redact"} THEN {"error"}
    ELSE IF listen THEN {"success"}
    ELSE IF end = "upstream" THEN {"success", "error"}
    ELSE {"error"}

\* finish, and relayStream returns or aborts.
ExitRecord ==
    /\ pc = "record"
    /\ pc' = "returned"
    /\ row' \in Verdicts
    /\ UNCHANGED <<last, end, listen, answered, cause, clientCtx, stopping, done, watch, armed, deadline, faults>>

-----------------------------------------------------------------------------
(* Outside. *)

\* The client goes; net/http notices and cancels r.Context(), and ctx with it.
ClientLeaves ==
    /\ "left" \notin faults
    /\ faults' = faults \cup {"left"}
    /\ UNCHANGED <<relayVars, pc, cause, clientCtx, stopping, done, watch, armed, deadline>>

ClientNoticed ==
    /\ "left" \in faults /\ ~clientCtx /\ pc # "returned"
    /\ clientCtx' = TRUE
    /\ cause' = IF Cancelled THEN cause ELSE "canceled"
    /\ UNCHANGED <<relayVars, pc, stopping, done, watch, armed, deadline, faults>>

\* The client does not read for the whole bound of one write.
DeadlinePasses ==
    /\ pc = "write" /\ deadline = "future"
    /\ deadline' = "past"
    /\ faults' = faults \cup {"slow"}
    /\ UNCHANGED <<relayVars, pc, cause, clientCtx, stopping, done, watch, armed>>

StopStreams ==
    /\ ~stopping
    /\ stopping' = TRUE
    /\ UNCHANGED <<relayVars, pc, cause, clientCtx, done, watch, armed, deadline, faults>>

-----------------------------------------------------------------------------
Callback(w) == CutCancel(w) \/ CutDeadline(w)
Recheck == RecheckLook \/ RecheckRead \/ RecheckAgain
Read == ReadBytes \/ ReadEOF \/ ReadCancelled \/ ReadBreaks
Send == SendStop \/ SendDeadline \/ SendCheck
Write == Written \/ WriteFails
Exit == ExitMark \/ ExitTimers \/ ExitRecord
Outside == ClientLeaves \/ ClientNoticed \/ DeadlinePasses \/ StopStreams

Next ==
    \/ \E w \in Watchers : Fire(w) \/ Callback(w)
    \/ Recheck
    \/ Read \/ Feed \/ Reset \/ Send \/ Write \/ Exit
    \/ Outside

Spec == Init /\ [][Next]_vars

\* A goroutine that can run does, an armed timer runs out, a write ends by its
\* deadline, and the body of a cancelled request fails once its buffer is out.
\* Nothing is assumed of the upstream or of the client.
Fairness ==
    /\ \A w \in Watchers : WF_vars(Fire(w)) /\ WF_vars(Callback(w))
    /\ WF_vars(Recheck)
    /\ WF_vars(Feed) /\ WF_vars(Reset) /\ WF_vars(Send) /\ WF_vars(Exit)
    /\ WF_vars(WriteFails) /\ WF_vars(DeadlinePasses)
    /\ SF_vars(ReadCancelled)

LiveSpec == Spec /\ Fairness

-----------------------------------------------------------------------------
(* Properties. *)

\* A cut that is complete reaches a write in flight: the write's deadline is
\* past, so it cannot wait out the idle bound on a client that stopped reading.
\* send sets its deadline and then tests ctx; cut cancels and then sets its own.
CutReachesWrite ==
    pc = "write" /\ cause \in {"idle", "stopped", "revoked"} /\ ~Held => deadline = "past"

\* Once the relay has returned its connection may serve the key's next request:
\* no callback is about to move that connection's deadline, none is armed to
\* run, and the re-check does not schedule itself again.
NothingOutlives == pc = "returned" => armed = {} /\ ~Held

\* The end the row and the log are judged by is what happened: "upstream" only
\* after its EOF, "client" only if the client left or did not read for the whole
\* bound, "read_error" only if the upstream connection failed, "stopped" only at
\* a shutdown. A write or a read that fails because the proxy cut the stream is
\* never put down to the other side. And on each way out, the panics included,
\* the row is written.
EndIsTrue ==
    /\ pc = "returned" => row # "none"
    /\ done /\ end = "upstream" => "eof" \in faults
    /\ end = "client" => faults \cap {"left", "slow"} # {}
    /\ end = "read_error" => "broke" \in faults
    /\ end = "stopped" => stopping

\* A shutdown ends the stream, whatever the upstream and the client do, so that
\* Server.Shutdown gets its idle connection and the row is written.
ShutdownEnds == stopping ~> pc = "returned"

\* A stream that never receives again ends: the idle bound is armed whenever the
\* relay waits for the upstream, and a client that does not read is ended by its
\* write's deadline.
FlowsOrEnds == []<>(pc = "feed") \/ <>(pc = "returned")
=============================================================================
