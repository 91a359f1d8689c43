------------------------------ MODULE RowFate -------------------------------
(***************************************************************************)
(* What the audit logger promises for each row handed to Record: it ends   *)
(* once, in the store or in a log line that says it was lost.  Both happen *)
(* in one case only: the insert's answer fails after the store took the    *)
(* row, and loop reports a row that is there.  No end is undone, and a row *)
(* reported as dropped is never stored after all (internal/audit/audit.go).*)
(***************************************************************************)
CONSTANT Rows

VARIABLE fate

Fates == {"new", "held", "stored", "lost", "doubted"}

TypeOK == fate \in [Rows -> Fates]

Init == fate = [r \in Rows |-> "new"]

Accept(r) == fate[r] = "new" /\ fate' = [fate EXCEPT ![r] = "held"]
Store(r)  == fate[r] = "held" /\ fate' = [fate EXCEPT ![r] = "stored"]
Lose(r)   == fate[r] = "held" /\ fate' = [fate EXCEPT ![r] = "lost"]

Doubt(r)  == fate[r] = "held" /\ fate' = [fate EXCEPT ![r] = "doubted"]

Next == \E r \in Rows : Accept(r) \/ Store(r) \/ Lose(r) \/ Doubt(r)

Spec == Init /\ [][Next]_fate
=============================================================================
