----------------------------- MODULE MCRunLoop -----------------------------
(* Instances of RunLoop for TLC: one repository with stacking on, tickets  *)
(* numbered from 1, each with a branch of its own.                         *)
EXTENDS RunLoop

OneTicket  == {1}
TwoTickets == 1..2

MCRepo      == [t \in Tickets |-> "app"]
MCBranch    == [t \in Tickets |-> IF t = 1 THEN "cc-1" ELSE "cc-2"]
MCNumber    == [t \in Tickets |-> t]
MCStacking  == {"app"}
NoBlockers  == [t \in Tickets |-> {}]
ChainOfTwo  == [t \in Tickets |-> IF t = 2 THEN {1} ELSE {}]
NoFaults    == {}
=============================================================================
