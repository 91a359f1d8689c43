------------------------------ MODULE AuditLog ------------------------------
(***************************************************************************)
(* audit.Logger (internal/audit/audit.go): proxied requests hand rows to   *)
(* Record, one goroutine (loop) inserts them, and Close ends both at       *)
(* shutdown (the deferred auditor.Close of cmd/server/main.go), while      *)
(* requests the shutdown did not wait for may still call Record.           *)
(*                                                                         *)
(* l.mu is a sync.RWMutex: a Close that waits for it blocks new readers,   *)
(* and it is granted once no reader is left.                               *)
(***************************************************************************)
EXTENDS Naturals, Sequences

CONSTANTS
    Rows,       \* audit rows, one per request that records
    Closers,    \* callers of Close
    NoRow,      \* loop has no row in hand
    Cap         \* capacity of ch

ASSUME CapAssumption == Cap \in Nat \ {0}
ASSUME NoRowAssumption == NoRow \notin Rows

VARIABLES
    rec,        \* per row: the call of Record
    enq,        \* per row: the goroutine Record falls back to
    queue,      \* ch
    closing,    \* the channel closing is closed
    closed,     \* l.closed, set together with close(l.ch)
    closer,     \* per closer: the call of Close
    writing,    \* the row loop is inserting
    done,       \* the channel done is closed: loop has returned
    stored,     \* rows in the store
    lost        \* rows a log line reported: dropped, or the insert failed

vars == <<rec, enq, queue, closing, closed, closer, writing, done, stored, lost>>

RecPC == {"idle", "start", "send", "returned"}
EnqPC == {"none", "start", "send", "gone"}
CloserPC == {"idle", "lock", "drain", "returned"}

\* Every variable keeps its type, and the channel never holds more than Cap.
TypeOK ==
    /\ rec \in [Rows -> RecPC]
    /\ enq \in [Rows -> EnqPC]
    /\ queue \in Seq(Rows) /\ Len(queue) <= Cap
    /\ closing \in BOOLEAN /\ closed \in BOOLEAN /\ done \in BOOLEAN
    /\ closer \in [Closers -> CloserPC]
    /\ writing \in Rows \cup {NoRow}
    /\ stored \subseteq Rows
    /\ lost \subseteq Rows

Init ==
    /\ rec = [r \in Rows |-> "idle"]
    /\ enq = [r \in Rows |-> "none"]
    /\ queue = <<>>
    /\ closing = FALSE /\ closed = FALSE /\ done = FALSE
    /\ closer = [k \in Closers |-> "idle"]
    /\ writing = NoRow
    /\ stored = {}
    /\ lost = {}

\* The holders of l.mu.RLock, and whether a new one gets it.
Readers == {r \in Rows : rec[r] = "send" \/ enq[r] = "send"}
RLockFree == \A k \in Closers : closer[k] # "lock"

Elements(q) == {q[i] : i \in 1..Len(q)}
Queued == Elements(queue)

-----------------------------------------------------------------------------
(* Record and enqueue. *)

Call(r) ==
    /\ rec[r] = "idle"
    /\ rec' = [rec EXCEPT ![r] = "start"]
    /\ UNCHANGED <<enq, queue, closing, closed, closer, writing, done, stored, lost>>

\* RLock, and the test of l.closed.
RecordLock(r) ==
    /\ rec[r] = "start"
    /\ RLockFree
    /\ IF closed THEN rec' = [rec EXCEPT ![r] = "returned"] /\ lost' = lost \cup {r}
                 ELSE rec' = [rec EXCEPT ![r] = "send"] /\ UNCHANGED lost
    /\ UNCHANGED <<enq, queue, closing, closed, closer, writing, done, stored>>

\* Mutant: Record itself waits for room.
RecordSendBlocking(r) ==
    /\ rec[r] = "send"
    /\ Len(queue) < Cap
    /\ queue' = Append(queue, r)
    /\ rec' = [rec EXCEPT ![r] = "returned"]
    /\ UNCHANGED <<enq, closing, closed, closer, writing, done, stored, lost>>

\* The send that does not block, or a goroutine that may; RUnlock.
RecordSend(r) ==
    /\ rec[r] = "send"
    /\ rec' = [rec EXCEPT ![r] = "returned"]
    /\ \/ Len(queue) < Cap /\ queue' = Append(queue, r) /\ UNCHANGED enq
       \/ Len(queue) >= Cap /\ enq' = [enq EXCEPT ![r] = "start"] /\ UNCHANGED queue
    /\ UNCHANGED <<closing, closed, closer, writing, done, stored, lost>>

EnqueueLock(r) ==
    /\ enq[r] = "start"
    /\ RLockFree
    /\ IF closed THEN enq' = [enq EXCEPT ![r] = "gone"] /\ lost' = lost \cup {r}
                 ELSE enq' = [enq EXCEPT ![r] = "send"] /\ UNCHANGED lost
    /\ UNCHANGED <<rec, queue, closing, closed, closer, writing, done, stored>>

\* Mutants: a parked send that does not watch closing, and one that falls
\* through to the line that reports the row.
EnqueueSendDeaf(r) ==
    /\ enq[r] = "send"
    /\ Len(queue) < Cap
    /\ queue' = Append(queue, r)
    /\ enq' = [enq EXCEPT ![r] = "gone"]
    /\ UNCHANGED <<rec, closing, closed, closer, writing, done, stored, lost>>

EnqueueSendBoth(r) ==
    /\ enq[r] = "send"
    /\ \/ Len(queue) < Cap /\ queue' = Append(queue, r)
       \/ closing /\ UNCHANGED queue
    /\ lost' = lost \cup {r}
    /\ enq' = [enq EXCEPT ![r] = "gone"]
    /\ UNCHANGED <<rec, closing, closed, closer, writing, done, stored>>

\* The select: room in ch, or closing; RUnlock.
EnqueueSend(r) ==
    /\ enq[r] = "send"
    /\ \/ Len(queue) < Cap /\ queue' = Append(queue, r) /\ UNCHANGED lost
       \/ closing /\ lost' = lost \cup {r} /\ UNCHANGED queue
    /\ enq' = [enq EXCEPT ![r] = "gone"]
    /\ UNCHANGED <<rec, closing, closed, closer, writing, done, stored>>

-----------------------------------------------------------------------------
(* loop. *)

LoopTake ==
    /\ ~done /\ writing = NoRow
    /\ queue # <<>>
    /\ writing' = Head(queue)
    /\ queue' = Tail(queue)
    /\ UNCHANGED <<rec, enq, closing, closed, closer, done, stored, lost>>

\* InsertAuditLog, or the line that says it failed; a deadline or a broken
\* connection can report as failed a row that the store did take.
LoopInsert ==
    /\ writing # NoRow
    /\ \/ stored' = stored \cup {writing} /\ UNCHANGED lost
       \/ lost' = lost \cup {writing} /\ UNCHANGED stored
       \/ stored' = stored \cup {writing} /\ lost' = lost \cup {writing}
    /\ writing' = NoRow
    /\ UNCHANGED <<rec, enq, queue, closing, closed, closer, done>>

\* Mutant: loop leaves as soon as the logger is closed.
LoopExitEarly ==
    /\ ~done /\ writing = NoRow
    /\ closed
    /\ done' = TRUE
    /\ UNCHANGED <<rec, enq, queue, closing, closed, closer, writing, stored, lost>>

\* range over a channel ends when it is closed and empty.
LoopExit ==
    /\ ~done /\ writing = NoRow
    /\ closed /\ queue = <<>>
    /\ done' = TRUE
    /\ UNCHANGED <<rec, enq, queue, closing, closed, closer, writing, stored, lost>>

-----------------------------------------------------------------------------
(* Close. *)

\* closeOnce, then the wait for the write lock.
CloseSignal(k) ==
    /\ closer[k] = "idle"
    /\ closing' = TRUE
    /\ closer' = [closer EXCEPT ![k] = "lock"]
    /\ UNCHANGED <<rec, enq, queue, closed, writing, done, stored, lost>>

\* Mutant: the channel is closed under no lock.
CloseChannelUnlocked(k) ==
    /\ closer[k] = "lock"
    /\ closed' = TRUE
    /\ closer' = [closer EXCEPT ![k] = "drain"]
    /\ UNCHANGED <<rec, enq, queue, closing, writing, done, stored, lost>>

\* Lock, the flag and the channel (once), Unlock.
CloseChannel(k) ==
    /\ closer[k] = "lock"
    /\ Readers = {}
    /\ closed' = TRUE
    /\ closer' = [closer EXCEPT ![k] = "drain"]
    /\ UNCHANGED <<rec, enq, queue, closing, writing, done, stored, lost>>

\* done, or drainTimeout.
CloseReturn(k) ==
    /\ closer[k] = "drain"
    /\ closer' = [closer EXCEPT ![k] = "returned"]
    /\ UNCHANGED <<rec, enq, queue, closing, closed, writing, done, stored, lost>>

-----------------------------------------------------------------------------
RowStep(r) == RecordLock(r) \/ RecordSend(r) \/ EnqueueLock(r) \/ EnqueueSend(r)
CloseStep(k) == CloseChannel(k) \/ CloseReturn(k)
Loop == LoopTake \/ LoopInsert \/ LoopExit

Next ==
    \/ \E r \in Rows : Call(r) \/ RowStep(r)
    \/ \E k \in Closers : CloseSignal(k) \/ CloseStep(k)
    \/ Loop

Spec == Init /\ [][Next]_vars

\* Goroutines that can run do. Nothing is assumed of loop: the store may hang.
Fairness == /\ \A r \in Rows : WF_vars(RowStep(r))
            /\ \A k \in Closers : WF_vars(CloseStep(k))

LiveSpec == Spec /\ Fairness

-----------------------------------------------------------------------------
(* Properties. *)

\* No send meets a closed channel, which would panic in a request or in a
\* goroutine nobody recovers: Close closes ch only under the write lock, and
\* every send is made under the read lock, after the test of l.closed.
NoSendOnClosed == closed => Readers = {}

\* A row Record has returned for is never just gone: it is queued, in loop's
\* hands or a goroutine's, stored, or reported in the log; and once loop has
\* returned the queue holds nothing back (Close: "drains what has been queued").
Accounted ==
    \A r \in Rows : rec[r] = "returned" =>
        \/ r \in stored \cup lost
        \/ enq[r] \in {"start", "send"}
        \/ ~done /\ r \in Queued \cup {writing}

\* The logger implements RowFate.
FateOf(r) ==
    IF r \in stored \cap lost THEN "doubted"
    ELSE IF r \in stored THEN "stored"
    ELSE IF r \in lost THEN "lost"
    ELSE IF rec[r] # "idle" THEN "held" ELSE "new"

Promise == INSTANCE RowFate WITH fate <- [r \in Rows |-> FateOf(r)]
KeepsPromise == Promise!Spec

\* Close returns whatever the store does: a send parked on a full queue holds
\* the read lock Close waits for, and gives way (drainTimeout bounds the rest).
CloseReturns == \A k \in Closers : closer[k] = "lock" ~> closer[k] = "returned"

\* Record never waits for the store, a full queue and a Close in progress
\* included: a request is not held up by its own audit row.
RecordReturns == \A r \in Rows : rec[r] = "start" ~> rec[r] = "returned"

\* While the store answers, every recorded row ends stored or reported.
RowSettles ==
    WF_vars(Loop) => \A r \in Rows : rec[r] = "returned" ~> r \in stored \cup lost
=============================================================================
