--------------------------- MODULE AuditLogProofs ---------------------------
(***************************************************************************)
(* For any number of rows and closers and any queue capacity: the logger   *)
(* never sends on a closed channel, accounts for every row, and implements *)
(* RowFate.                                                                *)
(***************************************************************************)
EXTENDS AuditLog, TLAPS

\* A row is in one place at a time. Rows still on their way through Record or
\* enqueue are nowhere else, the queue holds no row twice, and an end is final.
OnePlace ==
    /\ \A r \in Rows : rec[r] # "returned" =>
         r \notin Queued \cup {writing} \cup stored \cup lost /\ enq[r] = "none"
    /\ \A r \in Rows : enq[r] \in {"start", "send"} =>
         r \notin Queued \cup {writing} \cup stored \cup lost
    /\ Queued \cap ({writing} \cup stored \cup lost) = {}
    /\ writing \notin stored \cup lost
    /\ \A i, j \in 1..Len(queue) : queue[i] = queue[j] => i = j

\* Once loop has returned nothing is left to take, and nothing can be added.
LoopDone == done => closed /\ queue = <<>> /\ writing = NoRow

IInv == TypeOK /\ NoSendOnClosed /\ Accounted /\ OnePlace /\ LoopDone

-----------------------------------------------------------------------------
(* The queue as a sequence. *)

\* A send on the channel: its length, what it holds, and that a new row keeps
\* it free of duplicates.
LEMMA AppendFacts ==
    ASSUME NEW q \in Seq(Rows), NEW r \in Rows
    PROVE  /\ Append(q, r) \in Seq(Rows)
           /\ Len(Append(q, r)) = Len(q) + 1
           /\ Elements(Append(q, r)) = Elements(q) \cup {r}
           /\ (/\ r \notin Elements(q)
               /\ \A i, j \in 1..Len(q) : q[i] = q[j] => i = j)
              => \A i, j \in 1..(Len(q) + 1) : Append(q, r)[i] = Append(q, r)[j] => i = j
<1>1. /\ Append(q, r) \in Seq(Rows) /\ Len(Append(q, r)) = Len(q) + 1 /\ Len(q) \in Nat
      /\ Append(q, r)[Len(q) + 1] = r
      /\ \A i \in 1..Len(q) : Append(q, r)[i] = q[i]
  OBVIOUS
<1>2. 1..(Len(q) + 1) = 1..Len(q) \cup {Len(q) + 1}
  BY <1>1
<1>3. Elements(Append(q, r)) = Elements(q) \cup {r}
  BY <1>1, <1>2 DEF Elements
<1>4. ASSUME r \notin Elements(q), \A i, j \in 1..Len(q) : q[i] = q[j] => i = j,
             NEW i \in 1..(Len(q) + 1), NEW j \in 1..(Len(q) + 1),
             Append(q, r)[i] = Append(q, r)[j]
      PROVE  i = j
  BY <1>1, <1>2, <1>4 DEF Elements
<1>5. QED
  BY <1>1, <1>3, <1>4

\* A receive from the channel: what loop takes and what stays.
LEMMA TailFacts ==
    ASSUME NEW q \in Seq(Rows), q # <<>>
    PROVE  /\ Head(q) \in Rows
           /\ Tail(q) \in Seq(Rows)
           /\ Len(Tail(q)) = Len(q) - 1 /\ Len(Tail(q)) \in Nat
           /\ Elements(q) = {Head(q)} \cup Elements(Tail(q))
           /\ (\A i, j \in 1..Len(q) : q[i] = q[j] => i = j)
              => /\ Head(q) \notin Elements(Tail(q))
                 /\ \A i, j \in 1..(Len(q) - 1) : Tail(q)[i] = Tail(q)[j] => i = j
<1>1. /\ Head(q) = q[1] /\ Head(q) \in Rows /\ Tail(q) \in Seq(Rows)
      /\ Len(Tail(q)) = Len(q) - 1 /\ Len(q) \in Nat /\ Len(q) # 0
      /\ \A i \in 1..(Len(q) - 1) : Tail(q)[i] = q[i + 1]
  OBVIOUS
<1>2. 1 \in 1..Len(q) /\ \A i \in 1..(Len(q) - 1) : i + 1 \in 1..Len(q) /\ i + 1 # 1
  BY <1>1
<1>3. Elements(q) = {Head(q)} \cup Elements(Tail(q))
  <2>1. Elements(q) \subseteq {Head(q)} \cup Elements(Tail(q))
    <3>1. SUFFICES ASSUME NEW k \in 1..Len(q) PROVE q[k] \in {q[1]} \cup Elements(Tail(q))
      BY <1>1 DEF Elements
    <3>2. CASE k = 1
      BY <3>2
    <3>3. CASE k # 1
      <4>1. k - 1 \in 1..(Len(q) - 1) /\ Tail(q)[k - 1] = q[k]
        BY <1>1, <3>3
      <4>2. QED
        BY <1>1, <4>1 DEF Elements
    <3>4. QED
      BY <3>2, <3>3
  <2>2. {Head(q)} \cup Elements(Tail(q)) \subseteq Elements(q)
    BY <1>1, <1>2 DEF Elements
  <2>3. QED
    BY <2>1, <2>2
<1>4. ASSUME \A i, j \in 1..Len(q) : q[i] = q[j] => i = j
      PROVE  /\ Head(q) \notin Elements(Tail(q))
             /\ \A i, j \in 1..(Len(q) - 1) : Tail(q)[i] = Tail(q)[j] => i = j
  <2>1. Head(q) \notin Elements(Tail(q))
    BY <1>1, <1>2, <1>4 DEF Elements
  <2>2. \A i, j \in 1..(Len(q) - 1) : Tail(q)[i] = Tail(q)[j] => i = j
    <3>1. SUFFICES ASSUME NEW i \in 1..(Len(q) - 1), NEW j \in 1..(Len(q) - 1), Tail(q)[i] = Tail(q)[j]
                   PROVE  i = j
      OBVIOUS
    <3>2. i + 1 = j + 1
      BY <1>1, <1>2, <1>4, <3>1
    <3>3. QED
      BY <3>2
  <2>3. QED
    BY <2>1, <2>2
<1>5. QED
  BY <1>1, <1>3, <1>4


-----------------------------------------------------------------------------
(* The inductive invariant. *)

\* A new logger satisfies the invariant.
LEMMA InitInv == Init => IInv
<1>1. SUFFICES ASSUME Init PROVE IInv
  OBVIOUS
<1>2. queue = <<>> /\ <<>> \in Seq(Rows) /\ Len(<<>>) = 0
  BY <1>1 DEF Init
<1>3. Queued = {}
  BY <1>2 DEF Queued, Elements
<1>4. TypeOK
  <2>1. queue \in Seq(Rows) /\ Len(queue) <= Cap
    BY <1>2, CapAssumption
  <2>2. closing \in BOOLEAN /\ closed \in BOOLEAN /\ done \in BOOLEAN
    BY <1>1 DEF Init
  <2>3. QED
    BY <1>1, <2>1, <2>2 DEF Init, TypeOK, RecPC, EnqPC, CloserPC
<1>5. NoSendOnClosed /\ Accounted /\ LoopDone
  BY <1>1 DEF Init, NoSendOnClosed, Accounted, LoopDone
<1>6. OnePlace
  BY <1>1, <1>2, <1>3, NoRowAssumption DEF Init, OnePlace
<1>7. QED
  BY <1>4, <1>5, <1>6 DEF IInv

\* A row that goes from a goroutine's hands into the queue: Record's send and
\* the parked one share this.
LEMMA SendInv ==
    ASSUME IInv, NEW r \in Rows, rec[r] = "send" \/ enq[r] = "send",
           Len(queue) < Cap, queue' = Append(queue, r),
           rec' \in [Rows -> RecPC], enq' \in [Rows -> EnqPC],
           \A s \in Rows \ {r} : rec'[s] = rec[s] /\ enq'[s] = enq[s],
           rec'[r] = "returned", enq'[r] \in {"none", "gone"},
           UNCHANGED <<closing, closed, closer, writing, done, stored, lost>>
    PROVE  IInv'
<1> USE DEF IInv
<1>1. ~closed /\ ~done
  BY DEF NoSendOnClosed, Readers, LoopDone
<1>2. queue \in Seq(Rows)
  BY DEF TypeOK
<1>3. /\ queue' \in Seq(Rows) /\ Len(queue') = Len(queue) + 1 /\ Queued' = Queued \cup {r}
  BY <1>2, AppendFacts DEF Queued
<1>4. r \notin Queued \cup {writing} \cup stored \cup lost
  BY DEF OnePlace
<1>5. \A i, j \in 1..Len(queue') : queue'[i] = queue'[j] => i = j
  BY <1>2, <1>3, <1>4, AppendFacts DEF OnePlace, Queued
<1>6. TypeOK'
  <2>1. Len(queue') <= Cap
    BY <1>2, <1>3, CapAssumption
  <2>2. QED
    BY <1>3, <2>1 DEF TypeOK
<1>7. NoSendOnClosed' /\ LoopDone'
  BY <1>1 DEF NoSendOnClosed, LoopDone
<1>8. Accounted'
  BY <1>1, <1>3 DEF Accounted
<1>9. OnePlace'
  BY <1>3, <1>4, <1>5 DEF OnePlace
<1>10. QED
  BY <1>6, <1>7, <1>8, <1>9

\* A row a goroutine gives up, with the line that says so.
LEMMA DropInv ==
    ASSUME IInv, NEW r \in Rows, rec[r] = "start" \/ enq[r] \in {"start", "send"},
           lost' = lost \cup {r},
           rec' \in [Rows -> RecPC], enq' \in [Rows -> EnqPC],
           \A s \in Rows \ {r} : rec'[s] = rec[s] /\ enq'[s] = enq[s],
           rec'[r] = "returned", enq'[r] \in {"none", "gone"},
           UNCHANGED <<queue, closing, closed, closer, writing, done, stored>>
    PROVE  IInv'
<1> USE DEF IInv
<1>1. Queued' = Queued
  BY DEF Queued
<1>2. r \notin Queued \cup {writing} \cup stored \cup lost
  BY DEF OnePlace
<1>3. TypeOK' /\ LoopDone'
  BY DEF TypeOK, LoopDone
<1>4. NoSendOnClosed'
  BY DEF NoSendOnClosed, Readers
<1>5. Accounted'
  BY <1>1 DEF Accounted
<1>6. OnePlace'
  BY <1>1, <1>2 DEF OnePlace
<1>7. QED
  BY <1>3, <1>4, <1>5, <1>6

\* Every step of Record, enqueue, loop and Close keeps the invariant.
LEMMA NextInv == IInv /\ [Next]_vars => IInv'
<1> USE DEF IInv
<1>0. SUFFICES ASSUME IInv, [Next]_vars PROVE IInv'
  OBVIOUS
<1>1. ASSUME NEW r \in Rows, Call(r) PROVE IInv'
  <2>1. Queued' = Queued
    BY <1>1 DEF Call, Queued
  <2>2. TypeOK' /\ LoopDone' /\ NoSendOnClosed'
    BY <1>0, <1>1 DEF Call, TypeOK, RecPC, LoopDone, NoSendOnClosed, Readers
  <2>3. Accounted' /\ OnePlace'
    BY <1>0, <1>1, <2>1 DEF Call, TypeOK, Accounted, OnePlace
  <2>4. QED
    BY <2>2, <2>3
<1>2. ASSUME NEW r \in Rows, RecordLock(r) PROVE IInv'
  <2>1. CASE closed
    <3>1. rec' \in [Rows -> RecPC] /\ enq' \in [Rows -> EnqPC] /\ enq'[r] = "none"
      BY <1>0, <1>2, <2>1 DEF RecordLock, TypeOK, RecPC, OnePlace
    <3>2. QED
      BY <1>0, <1>2, <2>1, <3>1, DropInv DEF RecordLock, TypeOK
  <2>2. CASE ~closed
    <3>1. Queued' = Queued
      BY <1>2 DEF RecordLock, Queued
    <3>2. TypeOK' /\ LoopDone' /\ NoSendOnClosed'
      BY <1>0, <1>2, <2>2 DEF RecordLock, TypeOK, RecPC, LoopDone, NoSendOnClosed
    <3>3. Accounted' /\ OnePlace'
      BY <1>0, <1>2, <2>2, <3>1 DEF RecordLock, TypeOK, Accounted, OnePlace
    <3>4. QED
      BY <3>2, <3>3
  <2>3. QED
    BY <2>1, <2>2
<1>3. ASSUME NEW r \in Rows, RecordSend(r) PROVE IInv'
  <2>1. rec' \in [Rows -> RecPC] /\ rec'[r] = "returned" /\ enq[r] = "none"
    BY <1>0, <1>3 DEF RecordSend, TypeOK, RecPC, OnePlace
  <2>2. CASE Len(queue) < Cap /\ queue' = Append(queue, r) /\ UNCHANGED enq
    BY <1>0, <1>3, <2>1, <2>2, SendInv DEF RecordSend, TypeOK
  <2>3. CASE enq' = [enq EXCEPT ![r] = "start"] /\ UNCHANGED queue
    <3>1. Queued' = Queued
      BY <2>3 DEF Queued
    <3>2. TypeOK' /\ LoopDone'
      BY <1>0, <1>3, <2>1, <2>3 DEF RecordSend, TypeOK, EnqPC, LoopDone
    <3>3. NoSendOnClosed'
      BY <1>0, <1>3, <2>1, <2>3 DEF RecordSend, TypeOK, NoSendOnClosed, Readers
    <3>4. Accounted' /\ OnePlace'
      BY <1>0, <1>3, <2>1, <2>3, <3>1 DEF RecordSend, TypeOK, Accounted, OnePlace
    <3>5. QED
      BY <3>2, <3>3, <3>4
  <2>4. QED
    BY <1>3, <2>2, <2>3 DEF RecordSend
<1>4. ASSUME NEW r \in Rows, EnqueueLock(r) PROVE IInv'
  <2>1. rec[r] = "returned"
    BY <1>0, <1>4 DEF EnqueueLock, OnePlace
  <2>2. CASE closed
    <3>1. enq' \in [Rows -> EnqPC] /\ enq'[r] = "gone"
      BY <1>0, <1>4, <2>2 DEF EnqueueLock, TypeOK, EnqPC
    <3>2. QED
      BY <1>0, <1>4, <2>1, <2>2, <3>1, DropInv DEF EnqueueLock, TypeOK
  <2>3. CASE ~closed
    <3>1. Queued' = Queued
      BY <1>4 DEF EnqueueLock, Queued
    <3>2. TypeOK' /\ LoopDone' /\ NoSendOnClosed'
      BY <1>0, <1>4, <2>3 DEF EnqueueLock, TypeOK, EnqPC, LoopDone, NoSendOnClosed
    <3>3. Accounted' /\ OnePlace'
      BY <1>0, <1>4, <2>1, <2>3, <3>1 DEF EnqueueLock, TypeOK, Accounted, OnePlace
    <3>4. QED
      BY <3>2, <3>3
  <2>4. QED
    BY <2>2, <2>3
<1>5. ASSUME NEW r \in Rows, EnqueueSend(r) PROVE IInv'
  <2>1. /\ enq' \in [Rows -> EnqPC] /\ enq'[r] = "gone" /\ rec[r] = "returned"
        /\ \A s \in Rows \ {r} : enq'[s] = enq[s]
    BY <1>0, <1>5 DEF EnqueueSend, TypeOK, EnqPC, OnePlace
  <2>2. CASE Len(queue) < Cap /\ queue' = Append(queue, r) /\ UNCHANGED lost
    BY <1>0, <1>5, <2>1, <2>2, SendInv DEF EnqueueSend, TypeOK
  <2>3. CASE lost' = lost \cup {r} /\ UNCHANGED queue
    BY <1>0, <1>5, <2>1, <2>3, DropInv DEF EnqueueSend, TypeOK
  <2>4. QED
    BY <1>5, <2>2, <2>3 DEF EnqueueSend
<1>6. CASE LoopTake
  <2>1. queue \in Seq(Rows) /\ queue # <<>>
    BY <1>0, <1>6 DEF LoopTake, TypeOK
  <2>2. /\ writing' \in Rows /\ queue' \in Seq(Rows)
        /\ Len(queue') = Len(queue) - 1 /\ Len(queue') \in Nat
        /\ Queued = {writing'} \cup Queued'
    BY <1>6, <2>1, TailFacts DEF LoopTake, Queued
  <2>3. /\ writing' \notin Queued'
        /\ \A i, j \in 1..Len(queue') : queue'[i] = queue'[j] => i = j
    BY <1>0, <1>6, <2>1, <2>2, TailFacts DEF LoopTake, Queued, OnePlace
  <2>4. TypeOK'
    <3>1. Len(queue') <= Cap
      BY <1>0, <2>1, <2>2, CapAssumption DEF TypeOK
    <3>2. QED
      BY <1>0, <1>6, <2>2, <3>1 DEF LoopTake, TypeOK
  <2>5. NoSendOnClosed' /\ LoopDone'
    BY <1>0, <1>6 DEF LoopTake, NoSendOnClosed, Readers, LoopDone
  <2>6. Accounted'
    BY <1>0, <1>6, <2>2, NoRowAssumption DEF LoopTake, Accounted
  <2>7. OnePlace'
    BY <1>0, <1>6, <2>2, <2>3 DEF LoopTake, OnePlace
  <2>8. QED
    BY <2>4, <2>5, <2>6, <2>7
<1>7. CASE LoopInsert
  <2>1. Queued' = Queued /\ writing \in Rows /\ NoRow \notin Rows /\ Queued \subseteq Rows
    BY <1>0, <1>7, NoRowAssumption DEF LoopInsert, Queued, Elements, TypeOK
  <2>2. TypeOK' /\ NoSendOnClosed' /\ LoopDone'
    BY <1>0, <1>7, <2>1 DEF LoopInsert, TypeOK, NoSendOnClosed, Readers, LoopDone
  <2>3. Accounted' /\ OnePlace'
    BY <1>0, <1>7, <2>1 DEF LoopInsert, Accounted, OnePlace, TypeOK
  <2>4. QED
    BY <2>2, <2>3
<1>8. CASE LoopExit
  <2>1. Queued' = Queued /\ Queued = {} /\ NoRow \notin Rows
    BY <1>8, NoRowAssumption DEF LoopExit, Queued, Elements
  <2>2. TypeOK' /\ NoSendOnClosed' /\ LoopDone'
    BY <1>0, <1>8 DEF LoopExit, TypeOK, NoSendOnClosed, Readers, LoopDone
  <2>3. Accounted' /\ OnePlace'
    BY <1>0, <1>8, <2>1 DEF LoopExit, Accounted, OnePlace
  <2>4. QED
    BY <2>2, <2>3
<1>9. ASSUME NEW k \in Closers, CloseSignal(k) \/ CloseReturn(k) PROVE IInv'
  <2>1. Queued' = Queued
    BY <1>9 DEF CloseSignal, CloseReturn, Queued
  <2>2. TypeOK'
    <3>1. closing' \in BOOLEAN
      BY <1>0, <1>9 DEF CloseSignal, CloseReturn, TypeOK
    <3>2. closer' \in [Closers -> CloserPC]
      BY <1>0, <1>9 DEF CloseSignal, CloseReturn, TypeOK, CloserPC
    <3>3. QED
      BY <1>0, <1>9, <3>1, <3>2 DEF CloseSignal, CloseReturn, TypeOK
  <2>3. NoSendOnClosed' /\ LoopDone'
    BY <1>0, <1>9 DEF CloseSignal, CloseReturn, NoSendOnClosed, Readers, LoopDone
  <2>4. Accounted' /\ OnePlace'
    BY <1>0, <1>9, <2>1 DEF CloseSignal, CloseReturn, Accounted, OnePlace
  <2>5. QED
    BY <2>2, <2>3, <2>4
<1>10. ASSUME NEW k \in Closers, CloseChannel(k) PROVE IInv'
  <2>1. Queued' = Queued
    BY <1>10 DEF CloseChannel, Queued
  <2>2. TypeOK' /\ NoSendOnClosed' /\ LoopDone'
    BY <1>0, <1>10 DEF CloseChannel, TypeOK, CloserPC, NoSendOnClosed, Readers, LoopDone
  <2>3. Accounted' /\ OnePlace'
    BY <1>0, <1>10, <2>1 DEF CloseChannel, Accounted, OnePlace
  <2>4. QED
    BY <2>2, <2>3
<1>11. CASE UNCHANGED vars
  <2>1. Queued' = Queued
    BY <1>11 DEF vars, Queued
  <2>2. QED
    BY <1>0, <1>11, <2>1
       DEF vars, TypeOK, NoSendOnClosed, Readers, LoopDone, Accounted, OnePlace
<1>12. QED
  BY <1>0, <1>1, <1>2, <1>3, <1>4, <1>5, <1>6, <1>7, <1>8, <1>9, <1>10, <1>11
     DEF Next, RowStep, CloseStep, Loop

\* No request and no goroutine ever sends on the closed channel (Close takes
\* l.mu exclusively, every send takes it shared).
THEOREM ClosedChannelSafe == Spec => []NoSendOnClosed
<1>1. IInv => NoSendOnClosed
  BY DEF IInv
<1>2. QED
  BY InitInv, NextInv, <1>1, PTL DEF Spec

\* No row Record returned for is ever just gone (loop drains, dropped reports).
THEOREM EveryRowAccounted == Spec => []Accounted
<1>1. IInv => Accounted
  BY DEF IInv
<1>2. QED
  BY InitInv, NextInv, <1>1, PTL DEF Spec


-----------------------------------------------------------------------------
(* The refinement. *)

\* A step of the logger accepts one row or gives it its end, or leaves every
\* row's fate as it is.
LEMMA FateStep == IInv /\ [Next]_vars => [Promise!Next]_([r \in Rows |-> FateOf(r)])
<1> DEFINE fate == [r \in Rows |-> FateOf(r)]
<1>0. SUFFICES ASSUME IInv, [Next]_vars
               PROVE  Promise!Next \/ \A r \in Rows : FateOf(r)' = FateOf(r)
  OBVIOUS
<1>1. ASSUME NEW r \in Rows, Call(r) PROVE Promise!Next
  <2>1. FateOf(r) = "new" /\ FateOf(r)' = "held"
    BY <1>0, <1>1 DEF Call, FateOf, IInv, OnePlace, TypeOK
  <2>2. \A s \in Rows \ {r} : FateOf(s)' = FateOf(s)
    BY <1>0, <1>1 DEF Call, FateOf, IInv, TypeOK
  <2>3. Promise!Accept(r)
    BY <2>1, <2>2 DEF Promise!Accept
  <2>4. QED
    BY <2>3 DEF Promise!Next
<1>2. ASSUME NEW r \in Rows, lost' = lost \cup {r}, r \notin stored \cup lost,
             stored' = stored, rec[r] # "idle",
             \A s \in Rows \ {r} : rec'[s] = rec[s]
      PROVE  Promise!Next
  <2>1. FateOf(r) = "held" /\ FateOf(r)' = "lost"
    BY <1>2 DEF FateOf
  <2>2. \A s \in Rows \ {r} : FateOf(s)' = FateOf(s)
    BY <1>2 DEF FateOf
  <2>3. Promise!Lose(r)
    BY <2>1, <2>2 DEF Promise!Lose
  <2>4. QED
    BY <2>3 DEF Promise!Next
<1>3. ASSUME NEW r \in Rows, stored' = stored \cup {r}, r \notin stored \cup lost,
             lost' = lost, rec[r] # "idle", rec' = rec
      PROVE  Promise!Next
  <2>1. FateOf(r) = "held" /\ FateOf(r)' = "stored"
    BY <1>3 DEF FateOf
  <2>2. \A s \in Rows \ {r} : FateOf(s)' = FateOf(s)
    BY <1>3 DEF FateOf
  <2>3. Promise!Store(r)
    BY <2>1, <2>2 DEF Promise!Store
  <2>4. QED
    BY <2>3 DEF Promise!Next
<1>10. ASSUME NEW r \in Rows, stored' = stored \cup {r}, r \notin stored \cup lost,
             lost' = lost \cup {r}, rec[r] # "idle", rec' = rec
      PROVE  Promise!Next
  <2>1. FateOf(r) = "held" /\ FateOf(r)' = "doubted"
    BY <1>10 DEF FateOf
  <2>2. \A s \in Rows \ {r} : FateOf(s)' = FateOf(s)
    BY <1>10 DEF FateOf
  <2>3. Promise!Doubt(r)
    BY <2>1, <2>2 DEF Promise!Doubt
  <2>4. QED
    BY <2>3 DEF Promise!Next
<1>4. ASSUME stored' = stored, lost' = lost,
             \A s \in Rows : rec'[s] = rec[s] \/ (rec[s] # "idle" /\ rec'[s] # "idle")
      PROVE  \A s \in Rows : FateOf(s)' = FateOf(s)
  BY <1>4 DEF FateOf
<1>5. ASSUME NEW r \in Rows, RecordLock(r) \/ RecordSend(r) \/ EnqueueLock(r) \/ EnqueueSend(r)
      PROVE  Promise!Next \/ \A s \in Rows : FateOf(s)' = FateOf(s)
  <2>1. rec[r] # "idle" /\ r \notin stored \cup lost
    BY <1>0, <1>5
       DEF RecordLock, RecordSend, EnqueueLock, EnqueueSend, IInv, OnePlace
  <2>2. /\ stored' = stored
        /\ \A s \in Rows \ {r} : rec'[s] = rec[s]
        /\ rec'[r] # "idle"
    BY <1>0, <1>5, <2>1
       DEF RecordLock, RecordSend, EnqueueLock, EnqueueSend, IInv, TypeOK
  <2>3. lost' = lost \cup {r} \/ lost' = lost
    BY <1>5 DEF RecordLock, RecordSend, EnqueueLock, EnqueueSend
  <2>4. QED
    BY <1>2, <1>4, <2>1, <2>2, <2>3
<1>6. CASE LoopInsert
  <2>1. writing \in Rows /\ writing \notin stored \cup lost /\ rec[writing] # "idle"
    BY <1>0, <1>6 DEF LoopInsert, IInv, OnePlace, TypeOK
  <2>2. QED
    BY <1>2, <1>3, <1>6, <1>10, <2>1 DEF LoopInsert
<1>7. CASE LoopTake \/ LoopExit \/ UNCHANGED vars
  BY <1>4, <1>7 DEF LoopTake, LoopExit, vars
<1>8. ASSUME NEW k \in Closers, CloseSignal(k) \/ CloseChannel(k) \/ CloseReturn(k)
      PROVE  \A s \in Rows : FateOf(s)' = FateOf(s)
  BY <1>4, <1>8 DEF CloseSignal, CloseChannel, CloseReturn
<1>9. QED
  BY <1>0, <1>1, <1>5, <1>6, <1>7, <1>8 DEF Next, RowStep, CloseStep, Loop

\* The logger implements RowFate: each row is accepted once and ends once, stored
\* or reported lost, or both by one insert that failed late; no end is undone.
THEOREM LoggerKeepsPromise == Spec => KeepsPromise
<1>1. Init => Promise!Init
  BY DEF Init, FateOf, Promise!Init
<1>2. QED
  BY InitInv, NextInv, FateStep, <1>1, PTL DEF Spec, KeepsPromise, Promise!Spec
=============================================================================
