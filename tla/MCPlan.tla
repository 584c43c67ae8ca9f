------------------------------- MODULE MCPlan -------------------------------
(***************************************************************************)
(* The planning rules of Plan while pull requests are opened, merged,      *)
(* closed and reopened and peers start or stop conflicting: four tickets   *)
(* of one stacking repository and one of a repository without stacking.    *)
(* URL order and issue-number order differ.                                *)
(***************************************************************************)
EXTENDS Plan

CONSTANT Contested  \* the tickets whose branches may touch the same lines

VARIABLES pr, conflicts

MCTickets   == 1..5
MCRepo      == [t \in Tickets |-> IF t = 4 THEN "api" ELSE "app"]
MCBranch    == [t \in Tickets |-> CASE t = 1 -> "cc-10" [] t = 2 -> "cc-9" [] t = 3 -> "cc-12"
                                    [] t = 4 -> "cc-7" [] t = 5 -> "cc-15"]
MCNumber    == [t \in Tickets |-> CASE t = 1 -> 10 [] t = 2 -> 9 [] t = 3 -> 12 [] t = 4 -> 7 [] t = 5 -> 15]
MCBlockedBy == [t \in Tickets |-> CASE t = 3 -> {1, 2} [] t = 5 -> {1, 4} [] OTHER -> {}]
MCStacking  == {"app"}

(* Pairs a merge of both could conflict on: branches of one repository. *)
PeerPairs == {p \in SUBSET Tickets : Cardinality(p) = 2 /\ \A t, u \in p : Repo[t] = Repo[u]}

Ordered(ps) == {p \in Tickets \X Tickets : {p[1], p[2]} \in ps /\ p[1] # p[2]}

Init ==
    /\ pr = [t \in Tickets |-> "absent"]
    /\ conflicts = {}

Open(t)   == pr[t] \in {"absent", "closed"} /\ pr' = [pr EXCEPT ![t] = "open"] /\ UNCHANGED conflicts
Merge(t)  == pr[t] = "open" /\ pr' = [pr EXCEPT ![t] = "merged"] /\ UNCHANGED conflicts
Close(t)  == pr[t] = "open" /\ pr' = [pr EXCEPT ![t] = "closed"] /\ UNCHANGED conflicts
Conflict(ps) == conflicts' = Ordered(ps) /\ UNCHANGED pr

Next ==
    \/ \E t \in Tickets : Open(t) \/ Merge(t) \/ Close(t)
    \/ \E ps \in SUBSET {p \in PeerPairs : p \subseteq Contested} : Conflict(ps)

Spec == Init /\ [][Next]_<<pr, conflicts>>

Prs == PrsByBranch(pr)

(* The candidates the peer rule lets through are the branch-order-first    *)
(* maximal set without a conflict: no two of them conflict, and each one   *)
(* held back conflicts with an earlier one that goes through.              *)
PeerHoldIsFirstFit ==
    LET cand == PeerCandidates(Prs)
        free == {t \in cand : ~PeerHeld(conflicts, Prs)[t]}
    IN  /\ \A t, u \in free : <<t, u>> \notin conflicts
        /\ \A t \in cand \ free : \E u \in free : Number[u] < Number[t] /\ <<t, u>> \in conflicts

(* Progress never takes an unlock back: unless some pull request is closed,*)
(* a ticket that could start can still start.                              *)
UnlockSurvivesProgress ==
    [][\A t \in Tickets :
         Unlocked(t, Prs).unlocked /\ (\A u \in Tickets : pr'[u] = "closed" => pr[u] = "closed")
            => Unlocked(t, Prs').unlocked]_<<pr, conflicts>>

(* A ticket is cut on another branch only while that branch's own pull     *)
(* request is open and the ticket waits on nothing else in its repository, *)
(* and a tracked cross-repository blocker neither locks it nor becomes its *)
(* base.                                                                   *)
StackedOnOpenBlocker ==
    \A t \in Tickets : LET unlock == Unlocked(t, Prs) IN
        /\ unlock.unlocked /\ unlock.base # DefaultBaseBranch =>
              \E b \in BlockedBy[t] :
                 /\ Repo[b] = Repo[t] /\ Branch[b] = unlock.base /\ pr[b] = "open"
                 /\ \A c \in BlockedBy[t] \ {b} : Repo[c] # Repo[t]
        /\ (\A b \in BlockedBy[t] : b \in Tickets /\ Repo[b] # Repo[t]) => unlock.unlocked

(* A draft that was allowed out of draft is not pulled back by another     *)
(* ticket: merged is final, so with its own checks green the gate stays    *)
(* open.                                                                   *)
DraftGateStaysOpen ==
    [][\A t \in Tickets : ~DraftGate(t, Prs, TRUE) => ~DraftGate(t, Prs', TRUE)]_<<pr, conflicts>>
=============================================================================
