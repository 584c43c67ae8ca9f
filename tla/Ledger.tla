------------------------------- MODULE Ledger -------------------------------
(***************************************************************************)
(* What the runs table promises its readers, stated without the loop that  *)
(* writes it: rows are only ever appended; a row is reserved, then gets a  *)
(* process, then one outcome, and never changes again; and a row that no   *)
(* user verb asked for is the first of its ticket.                         *)
(***************************************************************************)
EXTENDS Naturals, Sequences

CONSTANT Tickets

VARIABLE rows

Origin == {"launch", "verb"}
Ended  == {"push", "failed", "asked", "continued"}
Row    == [ticket : Tickets, origin : Origin,
           state : {"reserved", "running", "cut_failed"} \cup Ended]

RowsOf(t) == {r \in DOMAIN rows : rows[r].ticket = t}

Init == rows = <<>>

(* A new row: reserved, or ended at once because no worktree could be cut. *)
Open(t, origin, state) ==
    /\ state \in {"reserved", "cut_failed"}
    /\ origin = "launch" => RowsOf(t) = {}
    /\ rows' = Append(rows, [ticket |-> t, origin |-> origin, state |-> state])

Attach(r) ==
    /\ rows[r].state = "reserved"
    /\ rows' = [rows EXCEPT ![r].state = "running"]

(* A run ends with an outcome; one whose process never started has failed. *)
Close(r, outcome) ==
    /\ \/ rows[r].state = "running" /\ outcome \in Ended
       \/ rows[r].state = "reserved" /\ outcome = "failed"
    /\ rows' = [rows EXCEPT ![r].state = outcome]

Next ==
    \/ \E t \in Tickets, origin \in Origin, state \in {"reserved", "cut_failed"} : Open(t, origin, state)
    \/ \E r \in DOMAIN rows : Attach(r) \/ \E outcome \in Ended : Close(r, outcome)

Spec == Init /\ [][Next]_rows
=============================================================================
