-------------------------------- MODULE Pass --------------------------------
(***************************************************************************)
(* What one pass of a multi-step workflow promises, whoever computes it:   *)
(* the forward steps in order, command steps left out when the repository  *)
(* has no verify command, a failed step repaired by the fix step and then  *)
(* done again itself, and an owner's message that ends the pass for good.  *)
(* The code keeps no such machine: Workflow.Next reads the run history.    *)
(***************************************************************************)
EXTENDS Naturals, Sequences

CONSTANTS
    Order,     \* the names of the forward steps
    Commands,  \* those that are the repository's verify command
    FixStep    \* the name of the step that repairs a failed one

VARIABLES
    at,      \* the step of the latest run, "message" for a follow-up
    state,   \* its state: running or how it ended
    origin   \* the forward step the pass is at, which a fix repairs

vars == <<at, state, origin>>

Started == {"running", "failed"}

Init == at = "none" /\ state = "none" /\ origin = "none"

(* A launch or a re-run: the first step, or the first that is no command.  *)
Begin ==
    /\ state # "running"
    /\ \E i \in 1..Len(Order) :
          /\ \A j \in 1..(i - 1) : Order[j] \in Commands
          /\ at' = Order[i]
    /\ origin' = at'
    /\ state' \in Started \cup {"cut_failed"}

Finish ==
    /\ state = "running"
    /\ state' \in {"passed", "failed", "asked", "continued", "push"}
    /\ UNCHANGED <<at, origin>>

(* Only a passed step leads to a later one. *)
Forward ==
    /\ state = "passed" /\ at = origin
    /\ \E i, k \in 1..Len(Order) :
          /\ Order[i] = at /\ i < k
          /\ \A j \in (i + 1)..(k - 1) : Order[j] \in Commands
          /\ at' = Order[k]
    /\ origin' = at'
    /\ state' \in Started

Repair ==
    /\ state = "failed" /\ at = origin /\ at # Order[Len(Order)]
    /\ at' = FixStep
    /\ state' \in Started
    /\ UNCHANGED origin

(* A repaired step is done again before anything later. *)
Redo ==
    /\ state = "passed" /\ at = FixStep
    /\ at' = origin
    /\ state' \in Started
    /\ UNCHANGED origin

Message ==
    /\ state \notin {"none", "running"}
    /\ at' = "message" /\ origin' = "message"
    /\ state' \in Started

Next == Begin \/ Finish \/ Forward \/ Repair \/ Redo \/ Message

Spec == Init /\ [][Next]_vars
=============================================================================
