------------------------------ MODULE MCIntake ------------------------------
(* Two repositories; the first holds a feature of two stacked tickets, the *)
(* second a ticket of another feature.                                     *)
EXTENDS Intake

MCHomeOf == [t1 |-> "r", t2 |-> "r", t3 |-> "q"]

MCIssue(f, blockers) == [labels |-> {f}, open |-> TRUE, blockedBy |-> blockers]

MCIssues == [t1 |-> MCIssue("A", {}), t2 |-> MCIssue("A", {"t1"}), t3 |-> MCIssue("B", {})]

MCClash == {{<<<<"r", "t1">>, 2>>, <<<<"r", "t2">>, 1>>}, {<<<<"r", "t1">>, 1>>, <<<<"r", "t2">>, 2>>}}
=============================================================================
