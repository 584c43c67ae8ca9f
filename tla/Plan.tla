------------------------------- MODULE Plan -------------------------------
(***************************************************************************)
(* The pure planning rules of internal/plan: which ticket may start, from  *)
(* which base, which open pull request waits for a conflicting peer, which *)
(* draft may be undrafted and which eligible tickets a tick launches.      *)
(*                                                                         *)
(* A ticket is a number, its place among the rows of PlanInput, which are  *)
(* ordered by URL; Number[t] is the issue number in its branch name        *)
(* cc-<number>-<slug>, the order compareByRef sorts by.  Reasons and       *)
(* labels are left out.                                                    *)
(***************************************************************************)
EXTENDS Integers, FiniteSets

CONSTANTS
    Tickets,    \* the tracked tickets
    Repo,       \* Repo[t]: the repository t belongs to
    Branch,     \* Branch[t]: the name of t's branch
    Number,     \* Number[t]: the issue number in that name
    BlockedBy,  \* BlockedBy[t]: the tickets t is blocked by, tracked or not
    Stacking    \* the repositories whose settings turn stacking on

ASSUME TicketsAssumption ==
    /\ Tickets \subseteq Nat
    /\ IsFiniteSet(Tickets)
    /\ Number \in [Tickets -> Nat]
    /\ \A t \in Tickets : BlockedBy[t] \subseteq Nat

(* plan.PRState *)
PRState == {"absent", "open", "merged", "closed"}

(* plan.DefaultBaseBranch *)
DefaultBaseBranch == "main"

Branches == {Branch[t] : t \in Tickets}

-----------------------------------------------------------------------------
(* The map Derive hands to every rule below.  Observed pull requests are   *)
(* keyed by (repo, branch), this map by branch alone: of two tickets with  *)
(* one branch name the later row overwrites the earlier.                   *)
PrsByBranch(pr) ==
    [b \in Branches |->
        LET last == CHOOSE t \in Tickets :
                       /\ Branch[t] = b
                       /\ \A u \in Tickets : Branch[u] = b => u <= t
        IN  pr[last]]

SameRepoBlockers(t) == {b \in BlockedBy[t] \cap Tickets : Repo[b] = Repo[t]}

GatingBlockers(t) == {b \in BlockedBy[t] \cap Tickets : Repo[b] # Repo[t]}

Untracked(t) == BlockedBy[t] \ Tickets

Locked(blocking, closed) ==
    [unlocked |-> FALSE, base |-> "", blocking |-> blocking, blockerClosed |-> closed]

UnlockedOnto(base) ==
    [unlocked |-> TRUE, base |-> base, blocking |-> {}, blockerClosed |-> FALSE]

(* Faulty variants of UnlockedOnBlocker: a merged blocker's deleted branch *)
(* stays the base; only an open pull request unlocks; a blocker without a  *)
(* pull request unlocks.                                                   *)
UnlockedOnMergedBranch(b, prs, stacking) ==
    IF prs[Branch[b]] \in {"open", "merged"}
    THEN UnlockedOnto(IF stacking THEN Branch[b] ELSE DefaultBaseBranch)
    ELSE Locked({b}, prs[Branch[b]] = "closed")

UnlockedOnOpenOnly(b, prs, stacking) ==
    IF prs[Branch[b]] = "open"
    THEN UnlockedOnto(IF stacking THEN Branch[b] ELSE DefaultBaseBranch)
    ELSE Locked({b}, prs[Branch[b]] = "closed")

UnlockedOnAbsent(b, prs, stacking) ==
    IF prs[Branch[b]] = "closed" THEN Locked({b}, TRUE) ELSE UnlockedOnto(DefaultBaseBranch)

UnlockedOnBlocker(b, prs, stacking) ==
    CASE prs[Branch[b]] = "open"   -> UnlockedOnto(IF stacking THEN Branch[b] ELSE DefaultBaseBranch)
      [] prs[Branch[b]] = "merged" -> UnlockedOnto(DefaultBaseBranch)
      [] prs[Branch[b]] = "closed" -> Locked({b}, TRUE)
      [] prs[Branch[b]] = "absent" -> Locked({b}, FALSE)

UnlockedOnBlockers(blockers, prs) ==
    LET unresolved == {b \in blockers : prs[Branch[b]] # "merged"}
    IN  IF unresolved = {} THEN UnlockedOnto(DefaultBaseBranch) ELSE Locked(unresolved, FALSE)

(* Whether t's stacking blockers are satisfied, and the base it is cut on. *)
Unlocked(t, prs) ==
    LET blockers == SameRepoBlockers(t)
    IN  IF Untracked(t) # {} THEN Locked({}, FALSE)
        ELSE CASE Cardinality(blockers) = 0 -> UnlockedOnto(DefaultBaseBranch)
               [] Cardinality(blockers) = 1 ->
                     UnlockedOnBlocker(CHOOSE b \in blockers : TRUE, prs, Repo[t] \in Stacking)
               [] Cardinality(blockers) > 1 -> UnlockedOnBlockers(blockers, prs)

(* The base t would get if its single stacking blocker's branch is open.   *)
ProspectiveBase(t) ==
    LET blockers == SameRepoBlockers(t)
    IN  IF Cardinality(blockers) = 1 /\ Repo[t] \in Stacking
        THEN Branch[CHOOSE b \in blockers : TRUE]
        ELSE DefaultBaseBranch

(* Faulty variant of DraftGate: an open gating blocker is good enough. *)
DraftGateOnOpen(t, prs, green) ==
    \/ \E g \in GatingBlockers(t) : prs[Branch[g]] \in {"absent", "closed"}
    \/ ~green

(* A draft leaves draft only when every cross-repository blocker merged    *)
(* and the ticket's own verdict is green.                                  *)
DraftGate(t, prs, green) ==
    \/ \E g \in GatingBlockers(t) : prs[Branch[g]] # "merged"
    \/ ~green

-----------------------------------------------------------------------------
(* Open, main-based pull requests, the ones the peer rule arbitrates.      *)
PeerCandidates(prs) ==
    {t \in Tickets : prs[Branch[t]] = "open" /\ ProspectiveBase(t) = DefaultBaseBranch}

(* Faulty variant of PeerHeld: a peer that is itself held holds others. *)
HeldByAnyEarlierPeer(conflicts, prs) ==
    [n \in Tickets |-> /\ n \in PeerCandidates(prs)
                       /\ \E peer \in PeerCandidates(prs) :
                             Number[peer] < Number[n] /\ <<n, peer>> \in conflicts]

(* conflictingPeerHold visits the candidates in branch-number order; each  *)
(* waits for the first earlier one that conflicts with it and is not       *)
(* itself waiting.  conflicts holds the ordered pairs of                   *)
(* Observation.ConflictsWithPeer.                                          *)
PeerHeld(conflicts, prs) ==
    LET cand == PeerCandidates(prs)
        held[n \in Tickets] ==
            /\ n \in cand
            /\ \E peer \in cand :
                  /\ Number[peer] < Number[n]
                  /\ <<n, peer>> \in conflicts
                  /\ ~held[peer]
    IN  held

-----------------------------------------------------------------------------
(* Faulty variant of Eligible: earlier runs are not looked at. *)
EligibleAgain(c) ==
    c.inFlight \/ (c.unlocked /\ c.authorised /\ c.hashMatches /\ ~c.conflicted)

(* A launch candidate: [inFlight, unlocked, authorised, hashMatches,       *)
(* hasRun, conflicted], one per ticket.                                    *)
Eligible(c) ==
    \/ c.inFlight
    \/ /\ c.unlocked
       /\ c.authorised
       /\ c.hashMatches
       /\ ~c.hasRun
       /\ ~c.conflicted

(* The order in which LaunchPlan offers slots: workflows already under way *)
(* first, then new tickets, each in row order.                             *)
Before(cand, u, t) ==
    \/ cand[u].inFlight /\ ~cand[t].inFlight
    \/ cand[u].inFlight = cand[t].inFlight /\ u < t

(* Faulty variant of LaunchPlan: one ticket more than there are slots. *)
LaunchPlanOverfull(cand, running, maxAgents, spendPaused) ==
    LET eligible == {t \in Tickets : Eligible(cand[t])}
        free == maxAgents - running
    IN  IF spendPaused THEN {}
        ELSE {t \in eligible : Cardinality({u \in eligible : Before(cand, u, t)}) <= free}

(* The tickets LaunchPlan selects for maxAgents slots.                     *)
LaunchPlan(cand, running, maxAgents, spendPaused) ==
    LET eligible == {t \in Tickets : Eligible(cand[t])}
        free == maxAgents - running
    IN  IF spendPaused \/ free <= 0
        THEN {}
        ELSE {t \in eligible : Cardinality({u \in eligible : Before(cand, u, t)}) < free}
=============================================================================
