------------------------------ MODULE Verdict ------------------------------
(***************************************************************************)
(* The check verdict of internal/plan/verdict: a repository's predicate    *)
(* over the check rollup of a pull request, resolved in three values and   *)
(* read together with the head, the base and the time since the push.      *)
(*                                                                         *)
(* A predicate is a sequence of nodes [op, kids, name]; node 1 is the      *)
(* root and kids holds the indices of a node's operands, all larger than   *)
(* its own.  The names of the red leaves, shown in the reason, are left    *)
(* out.                                                                    *)
(***************************************************************************)
EXTENDS Integers, Sequences

(* GitHub's rollup repeats a name when a check is run again: a completed    *)
(* run wins over one in progress, then the later start wins.               *)
Completed(row) == row.status = "COMPLETED"

Better(row, other) ==
    IF Completed(row) # Completed(other) THEN Completed(row) ELSE row.started > other.started

Normalise(rollup) ==
    [name \in {row.name : row \in rollup} |->
        LET named == {row \in rollup : row.name = name}
        IN  CHOOSE row \in named : \A other \in named \ {row} : Better(row, other)]

(* A check as the plan reads it. *)
ToVerdictCheckState(check) ==
    IF check.status # "COMPLETED" THEN "pending"
    ELSE CASE check.conclusion = "SUCCESS" -> "success"
           [] check.conclusion = "SKIPPED" -> "skipped"
           [] OTHER                        -> "failure"

VerdictChecks(rollup) == [name \in DOMAIN rollup |-> ToVerdictCheckState(rollup[name])]

-----------------------------------------------------------------------------
AllOf(states) ==
    IF "red" \in states THEN "red" ELSE IF "pending" \in states THEN "pending" ELSE "green"

AnyOf(states) ==
    IF "green" \in states THEN "green" ELSE IF "pending" \in states THEN "pending" ELSE "red"

Not(state) == CASE state = "green" -> "red" [] state = "red" -> "green" [] state = "pending" -> "pending"

(* A name with no rollup entry reads as the zero CheckState. *)
RequireConclusion(in, name, want) ==
    LET got == IF name \in DOMAIN in.checks THEN in.checks[name] ELSE "pending"
    IN  IF got = want THEN "green" ELSE IF got = "pending" THEN "pending" ELSE "red"

AbsentOK(in, name) ==
    IF name \in DOMAIN in.checks
    THEN CASE in.checks[name] \in {"success", "skipped"} -> "green"
           [] in.checks[name] = "pending"                -> "pending"
           [] in.checks[name] = "failure"                -> "red"
    ELSE IF in.waited THEN "green" ELSE "pending"

Author(in, name) == IF in.author = name THEN "green" ELSE "red"

Leaf(node, in) ==
    CASE node.op = "success"   -> RequireConclusion(in, node.name, "success")
      [] node.op = "skipped"   -> RequireConclusion(in, node.name, "skipped")
      [] node.op = "absent_ok" -> AbsentOK(in, node.name)
      [] node.op = "author"    -> Author(in, node.name)
      [] OTHER                 -> "pending"

Resolve(pred, in) ==
    LET state[n \in 1..Len(pred)] ==
            LET kids == {state[k] : k \in {k \in pred[n].kids : k > n}}
            IN  CASE pred[n].op = "all_of" -> AllOf(kids)
                  [] pred[n].op = "any_of" -> AnyOf(kids)
                  [] pred[n].op = "not"    -> Not(CHOOSE s \in kids : TRUE)
                  [] OTHER                 -> Leaf(pred[n], in)
    IN  state[1]

-----------------------------------------------------------------------------
(* evaluate: the predicate's value as a verdict; waiting is bounded by     *)
(* BoundedWait of successful ticks.                                        *)
EvaluateOnce(pred, in) ==
    CASE Resolve(pred, in) = "red"     -> "ci_failed"
      [] Resolve(pred, in) = "green"   -> IF in.configOK THEN "review_me" ELSE "checking"
      [] Resolve(pred, in) = "pending" -> IF in.waited THEN "needs_you" ELSE "checking"

ForcedGreen(checks, name) ==
    [n \in DOMAIN checks \cup {name} |-> IF n = name THEN "success" ELSE checks[n]]

NoChecks == [n \in {} |-> "pending"]

(* Faulty variant of Evaluate: the rollup of any head counts. *)
EvaluateAnyHead(pred, in) ==
    LET once == EvaluateOnce(pred, in)
    IN  IF in.stacked /\ ~in.baseMatch THEN "base_moved" ELSE once

(* Evaluate: a moved base first, then the predicate over the checks of the *)
(* pushed head, then the compat check taken out of a red answer.           *)
Evaluate(pred, in) ==
    LET seen   == [in EXCEPT !.checks = IF in.headMatch THEN @ ELSE NoChecks]
        once   == EvaluateOnce(pred, seen)
        forced == EvaluateOnce(pred, [seen EXCEPT !.checks = ForcedGreen(@, in.compat)])
    IN  IF in.stacked /\ ~in.baseMatch THEN "base_moved"
        ELSE IF once \notin {"needs_you", "ci_failed"} \/ in.compat = "" THEN once
        ELSE CASE forced = "review_me" -> "waiting_on_producer_deploy"
               [] forced = "checking"  -> "checking"
               [] OTHER                -> once
=============================================================================
