----------------------------- MODULE MCLogsPage -----------------------------
(* The Logs page on a small log: values for the constants of LogsPage.     *)
EXTENDS LogsPage, SequencesExt

\* The anchor matters: measured a tick later, the preset leaves out row 3.
MCPERIODS == [p \in {"7d"} |-> 1]

\* A call with no tool and, after it, one with a tool.
MCCallOf == [r \in Row |->
    [key |-> "k",
     method |-> "call",
     tool |-> IF r = 3 THEN "" ELSE "t"]]

MCNewestFirst == [S \in SUBSET Row |-> SetToSortSeq(S, LAMBDA a, b : a > b)]
============================================================================
