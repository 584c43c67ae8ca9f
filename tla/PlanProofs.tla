----------------------------- MODULE PlanProofs -----------------------------
(***************************************************************************)
(* The planning rules for any tickets, repositories and blockers, while    *)
(* pull requests open, merge, close and reopen and conflicts come and go.  *)
(***************************************************************************)
EXTENDS MCPlan, FiniteSetTheorems, WellFoundedInduction, TLAPS

-----------------------------------------------------------------------------
(* Numbers.                                                                *)

(* A set of naturals has a least element. *)
LEMMA LeastNatural ==
    ASSUME NEW S \in SUBSET Nat, S # {}
    PROVE  \E m \in S : \A k \in S : m <= k
<1>1. \E m \in S : \A k \in S : ~(<<k, m>> \in OpToRel(<, Nat))
  BY NatLessThanWellFounded, WFMin
<1>2. PICK m \in S : \A k \in S : ~(k < m)
  <2>1. \A k, m \in S : <<k, m>> \in OpToRel(<, Nat) <=> k < m
    BY DEF OpToRel
  <2> QED
    BY Zenon, <1>1, <2>1
<1> QED
  BY <1>2

(* A finite set of naturals has a greatest element. *)
LEMMA GreatestNatural ==
    ASSUME NEW S \in SUBSET Nat, IsFiniteSet(S), S # {}
    PROVE  \E m \in S : \A k \in S : k <= m
<1> DEFINE Topped(T) == \E m \in T : \A k \in T : k <= m
           Sizes == {n \in Nat : \E T \in SUBSET Nat :
                                    IsFiniteSet(T) /\ T # {} /\ Cardinality(T) = n /\ ~Topped(T)}
<1>1. Sizes = {}
  <2> SUFFICES ASSUME Sizes # {} PROVE FALSE
    OBVIOUS
  <2>1. PICK n \in Sizes : \A k \in Sizes : n <= k
    BY LeastNatural
  <2>2. PICK T \in SUBSET Nat : IsFiniteSet(T) /\ T # {} /\ Cardinality(T) = n /\ ~Topped(T)
    BY <2>1
  <2>3. PICK x \in T : TRUE
    BY <2>2
  <2>4. IsFiniteSet(T \ {x}) /\ Cardinality(T \ {x}) = n - 1 /\ n \in Nat
    BY <2>1, <2>2, <2>3, FS_RemoveElement
  <2>5. T \ {x} = {} => Topped(T)
    BY <2>2, <2>3
  <2>6. n - 1 \in Nat
    BY <2>4, FS_CardinalityType
  <2>7. n - 1 \notin Sizes
    BY <2>1, <2>4
  <2>8. Topped(T \ {x})
    BY <2>2, <2>4, <2>5, <2>6, <2>7
  <2>9. PICK m \in T \ {x} : \A k \in T \ {x} : k <= m
    BY <2>8
  <2>10. Topped(T)
    <3>1. CASE x <= m
      BY <2>2, <2>9, <3>1
    <3>2. CASE ~(x <= m)
      BY <2>2, <2>3, <2>9, <3>2
    <3> QED
      BY <3>1, <3>2
  <2> QED
    BY <2>2, <2>10
<1>2. Cardinality(S) \in Nat
  BY FS_CardinalityType
<1> QED
  BY <1>1, <1>2

-----------------------------------------------------------------------------
(* Pull requests by branch.                                                *)

PrOK == pr \in [Tickets -> PRState]

(* Every ticket keeps a pull request state. *)
LEMMA PrStates == Spec => []PrOK
<1>1. Init => PrOK
  BY DEF Init, PrOK, PRState
<1>2. PrOK /\ [Next]_<<pr, conflicts>> => PrOK'
  BY DEF PrOK, PRState, Next, Open, Merge, Close, Conflict
<1> QED
  BY <1>1, <1>2, PTL DEF Spec

(* The map by branch gives the pull request of some ticket of the branch,  *)
(* the same at any time.                                                   *)
LEMMA BranchOwner ==
    ASSUME NEW t \in Tickets
    PROVE  \E o \in Tickets : Branch[o] = Branch[t] /\ \A prs : PrsByBranch(prs)[Branch[t]] = prs[o]
<1> DEFINE Mine == {u \in Tickets : Branch[u] = Branch[t]}
           last == CHOOSE u \in Tickets : /\ Branch[u] = Branch[t]
                                          /\ \A w \in Tickets : Branch[w] = Branch[t] => w <= u
<1>1. \E m \in Mine : \A k \in Mine : k <= m
  <2>1. Mine \in SUBSET Nat /\ IsFiniteSet(Mine) /\ Mine # {}
    BY TicketsAssumption, FS_Subset
  <2> QED
    BY <2>1, GreatestNatural
<1>2. \E u \in Tickets : Branch[u] = Branch[t] /\ \A w \in Tickets : Branch[w] = Branch[t] => w <= u
  BY <1>1
<1>3. last \in Tickets /\ Branch[last] = Branch[t]
  BY <1>2
<1>4. Branch[t] \in Branches
  BY DEF Branches
<1>5. \A prs : PrsByBranch(prs)[Branch[t]] = prs[last]
  BY <1>4 DEF PrsByBranch
<1> QED
  BY <1>3, <1>5

-----------------------------------------------------------------------------
(* Unlocking.                                                              *)

(* When a ticket is unlocked, by the number of its blockers in its         *)
(* repository.                                                             *)
LEMMA UnlockCases ==
    ASSUME NEW t \in Tickets, NEW prs, \A b \in SameRepoBlockers(t) : prs[Branch[b]] \in PRState
    PROVE  /\ Unlocked(t, prs).unlocked <=>
                 /\ Untracked(t) = {}
                 /\ \/ \E b : SameRepoBlockers(t) = {b} /\ prs[Branch[b]] \in {"open", "merged"}
                    \/ \A b \in SameRepoBlockers(t) : prs[Branch[b]] = "merged"
           /\ Unlocked(t, prs).unlocked /\ Unlocked(t, prs).base # DefaultBaseBranch =>
                 \E b : SameRepoBlockers(t) = {b} /\ prs[Branch[b]] = "open" /\ Unlocked(t, prs).base = Branch[b]
<1> DEFINE blockers == SameRepoBlockers(t)
<1>1. IsFiniteSet(blockers) /\ Cardinality(blockers) \in Nat
  BY TicketsAssumption, FS_Subset, FS_CardinalityType DEF SameRepoBlockers
<1>2. /\ \A S, c : ~Locked(S, c).unlocked
      /\ \A base : UnlockedOnto(base).unlocked /\ UnlockedOnto(base).base = base
  BY DEF Locked, UnlockedOnto
<1>3. CASE Untracked(t) # {}
  BY <1>2, <1>3 DEF Unlocked
<1>4. CASE Untracked(t) = {} /\ Cardinality(blockers) = 0
  <2>1. blockers = {}
    BY <1>1, <1>4, FS_EmptySet
  <2>2. Unlocked(t, prs) = UnlockedOnto(DefaultBaseBranch)
    BY <1>4 DEF Unlocked
  <2> QED
    BY <1>2, <1>4, <2>1, <2>2
<1>5. CASE Untracked(t) = {} /\ Cardinality(blockers) = 1
  <2>1. PICK b : blockers = {b}
    BY <1>1, <1>5, FS_Singleton
  <2>2. Unlocked(t, prs) = UnlockedOnBlocker(CHOOSE y \in SameRepoBlockers(t) : TRUE, prs, Repo[t] \in Stacking)
    BY <1>5 DEF Unlocked
  <2>3. PICK x : x = CHOOSE y \in SameRepoBlockers(t) : TRUE
    OBVIOUS
  <2>4. x = b
    BY <2>1, <2>3
  <2>5. Unlocked(t, prs) = UnlockedOnBlocker(b, prs, Repo[t] \in Stacking)
    BY Zenon, <2>2, <2>3, <2>4
  <2>6. prs[Branch[b]] \in {"open", "merged", "closed", "absent"}
    BY <2>1 DEF PRState
  <2>7. CASE prs[Branch[b]] = "open"
    <3>1. Unlocked(t, prs) = UnlockedOnto(IF Repo[t] \in Stacking THEN Branch[b] ELSE DefaultBaseBranch)
      BY <2>5, <2>7 DEF UnlockedOnBlocker
    <3> QED
      BY <1>2, <1>5, <2>1, <2>7, <3>1
  <2>8. CASE prs[Branch[b]] = "merged"
    <3>1. Unlocked(t, prs) = UnlockedOnto(DefaultBaseBranch)
      BY <2>5, <2>8 DEF UnlockedOnBlocker
    <3> QED
      BY <1>2, <1>5, <2>1, <2>8, <3>1
  <2>9. CASE prs[Branch[b]] \in {"closed", "absent"}
    <3>1. ~Unlocked(t, prs).unlocked
      BY <1>2, <2>5, <2>9 DEF UnlockedOnBlocker
    <3> QED
      BY <2>1, <2>9, <3>1
  <2> QED
    BY <2>6, <2>7, <2>8, <2>9
<1>6. CASE Untracked(t) = {} /\ Cardinality(blockers) > 1
  <2>1. Unlocked(t, prs) = UnlockedOnBlockers(blockers, prs)
    BY <1>1, <1>6 DEF Unlocked
  <2>2. ~\E b : blockers = {b}
    BY <1>6, FS_Singleton
  <2>3. CASE \A b \in blockers : prs[Branch[b]] = "merged"
    <3>1. Unlocked(t, prs) = UnlockedOnto(DefaultBaseBranch)
      BY <2>1, <2>3 DEF UnlockedOnBlockers
    <3> QED
      BY <1>2, <1>6, <2>3, <3>1
  <2>4. CASE ~\A b \in blockers : prs[Branch[b]] = "merged"
    <3>1. ~Unlocked(t, prs).unlocked
      BY <1>2, <2>1, <2>4 DEF UnlockedOnBlockers
    <3> QED
      BY <2>2, <2>4, <3>1
  <2> QED
    BY <2>3, <2>4
<1> QED
  BY <1>1, <1>3, <1>4, <1>5, <1>6

(* A merged pull request stays merged, and an open one does not vanish. *)
LEMMA PrMovesOn ==
    ASSUME PrOK, [Next]_<<pr, conflicts>>
    PROVE  \A t \in Tickets : /\ pr'[t] \in PRState
                              /\ pr[t] = "merged" => pr'[t] = "merged"
                              /\ pr[t] = "open" => pr'[t] # "absent"
<1>1. CASE UNCHANGED <<pr, conflicts>>
  BY <1>1 DEF PrOK
<1>2. ASSUME NEW u \in Tickets, Open(u)
      PROVE  \A t \in Tickets : /\ pr'[t] \in PRState
                                /\ pr[t] = "merged" => pr'[t] = "merged"
                                /\ pr[t] = "open" => pr'[t] # "absent"
  BY <1>2 DEF PrOK, PRState, Open
<1>3. ASSUME NEW u \in Tickets, Merge(u)
      PROVE  \A t \in Tickets : /\ pr'[t] \in PRState
                                /\ pr[t] = "merged" => pr'[t] = "merged"
                                /\ pr[t] = "open" => pr'[t] # "absent"
  BY <1>3 DEF PrOK, PRState, Merge
<1>4. ASSUME NEW u \in Tickets, Close(u)
      PROVE  \A t \in Tickets : /\ pr'[t] \in PRState
                                /\ pr[t] = "merged" => pr'[t] = "merged"
                                /\ pr[t] = "open" => pr'[t] # "absent"
  BY <1>4 DEF PrOK, PRState, Close
<1>5. CASE pr' = pr
  BY <1>5 DEF PrOK
<1> QED
  BY <1>1, <1>2, <1>3, <1>4, <1>5 DEF Next, Conflict

(* The pull requests by branch of the next state, as a value of pr'. *)
LEMMA NextPrs == Prs' = PrsByBranch(pr')
  BY DEF Prs, PrsByBranch

(* Progress never takes an unlock back: while no pull request is closed a  *)
(* ticket that may start still may, whichever of its blockers' pull        *)
(* requests open or merge in which order, because merged is final and the  *)
(* map by branch always answers for the same ticket (derive.go:190).       *)
THEOREM UnlocksLast == Spec => UnlockSurvivesProgress
<1> DEFINE Step == \A t \in Tickets :
                      Unlocked(t, Prs).unlocked /\ (\A u \in Tickets : pr'[u] = "closed" => pr[u] = "closed")
                         => Unlocked(t, Prs').unlocked
<1>1. PrOK /\ [Next]_<<pr, conflicts>> => [Step]_<<pr, conflicts>>
  <2> SUFFICES ASSUME PrOK, [Next]_<<pr, conflicts>>, NEW t \in Tickets,
                      Unlocked(t, Prs).unlocked,
                      \A u \in Tickets : pr'[u] = "closed" => pr[u] = "closed"
               PROVE  Unlocked(t, Prs').unlocked
    OBVIOUS
  <2> DEFINE now == PrsByBranch(pr)
             then == PrsByBranch(pr')
  <2>1. \A u \in Tickets : /\ pr'[u] \in PRState
                           /\ pr[u] = "merged" => pr'[u] = "merged"
                           /\ pr[u] = "open" => pr'[u] # "absent"
    BY PrMovesOn
  <2>2. \A b \in Tickets : /\ now[Branch[b]] \in PRState
                           /\ then[Branch[b]] \in PRState
                           /\ now[Branch[b]] = "merged" => then[Branch[b]] = "merged"
                           /\ now[Branch[b]] = "open" => then[Branch[b]] \in {"open", "merged"}
    <3> SUFFICES ASSUME NEW b \in Tickets
                 PROVE  /\ now[Branch[b]] \in PRState
                        /\ then[Branch[b]] \in PRState
                        /\ now[Branch[b]] = "merged" => then[Branch[b]] = "merged"
                        /\ now[Branch[b]] = "open" => then[Branch[b]] \in {"open", "merged"}
      OBVIOUS
    <3>1. PICK o \in Tickets : \A prs : PrsByBranch(prs)[Branch[b]] = prs[o]
      BY BranchOwner
    <3>2. now[Branch[b]] = pr[o] /\ then[Branch[b]] = pr'[o]
      BY <3>1
    <3>3. pr[o] \in PRState
      BY DEF PrOK
    <3> HIDE DEF now, then
    <3> QED
      BY <2>1, <3>2, <3>3 DEF PRState
  <2>3. Prs = now /\ Prs' = then
    BY NextPrs DEF Prs
  <2>4. SameRepoBlockers(t) \subseteq Tickets
    BY DEF SameRepoBlockers
  <2> HIDE DEF now, then
  <2>5. Unlocked(t, now).unlocked
    BY <2>3
  <2>6. /\ Untracked(t) = {}
        /\ \/ \E b : SameRepoBlockers(t) = {b} /\ now[Branch[b]] \in {"open", "merged"}
           \/ \A b \in SameRepoBlockers(t) : now[Branch[b]] = "merged"
    BY <2>2, <2>4, <2>5, UnlockCases
  <2>7. \/ \E b : SameRepoBlockers(t) = {b} /\ then[Branch[b]] \in {"open", "merged"}
        \/ \A b \in SameRepoBlockers(t) : then[Branch[b]] = "merged"
    BY <2>2, <2>4, <2>6
  <2>8. Unlocked(t, then).unlocked
    BY <2>2, <2>4, <2>6, <2>7, UnlockCases
  <2> QED
    BY <2>3, <2>8
<1>2. [][Step]_<<pr, conflicts>> => UnlockSurvivesProgress
  BY PTL DEF UnlockSurvivesProgress
<1> HIDE DEF Step
<1> QED
  BY <1>1, <1>2, PrStates, PTL DEF Spec

(* A draft that was allowed out of draft is not pulled back by another     *)
(* ticket (draftgate.go): its cross-repository blockers have merged,       *)
(* and merged is final.                                                    *)
THEOREM DraftsStayOut == Spec => DraftGateStaysOpen
<1> DEFINE Step == \A t \in Tickets : ~DraftGate(t, Prs, TRUE) => ~DraftGate(t, Prs', TRUE)
<1>1. PrOK /\ [Next]_<<pr, conflicts>> => [Step]_<<pr, conflicts>>
  <2> SUFFICES ASSUME PrOK, [Next]_<<pr, conflicts>>, NEW t \in Tickets, ~DraftGate(t, Prs, TRUE)
               PROVE  ~DraftGate(t, Prs', TRUE)
    OBVIOUS
  <2>1. \A g \in GatingBlockers(t) : Prs[Branch[g]] = "merged"
    BY DEF DraftGate
  <2>2. ASSUME NEW g \in GatingBlockers(t) PROVE Prs'[Branch[g]] = "merged"
    <3>1. g \in Tickets
      BY DEF GatingBlockers
    <3>2. PICK o \in Tickets : \A prs : PrsByBranch(prs)[Branch[g]] = prs[o]
      BY <3>1, BranchOwner
    <3>3. Prs[Branch[g]] = pr[o] /\ Prs'[Branch[g]] = pr'[o]
      BY <3>2, NextPrs DEF Prs
    <3> QED
      BY <2>1, <3>3, PrMovesOn
  <2> QED
    BY <2>2 DEF DraftGate
<1>2. [][Step]_<<pr, conflicts>> => DraftGateStaysOpen
  BY PTL DEF DraftGateStaysOpen
<1> HIDE DEF Step
<1> QED
  BY <1>1, <1>2, PrStates, PTL DEF Spec

-----------------------------------------------------------------------------
(* Stacking.                                                               *)

(* No two tickets have one branch name. *)
OwnBranches == \A t, u \in Tickets : Branch[t] = Branch[u] => t = u

(* A ticket is cut on another branch only while that branch's own pull     *)
(* request is open and nothing else in its repository blocks it, and a     *)
(* tracked cross-repository blocker does not lock it (unlock.go).  Derive  *)
(* keys pull requests by branch name alone (derive.go:190), so this needs  *)
(* branch names of their own: two repositories with one issue number and   *)
(* slug read each other's pull request.                                    *)
THEOREM StacksOnOpenBlockers ==
    ASSUME OwnBranches
    PROVE  Spec => []StackedOnOpenBlocker
<1>1. PrOK => StackedOnOpenBlocker
  <2> SUFFICES ASSUME PrOK, NEW t \in Tickets
               PROVE  /\ Unlocked(t, Prs).unlocked /\ Unlocked(t, Prs).base # DefaultBaseBranch =>
                            \E b \in BlockedBy[t] :
                               /\ Repo[b] = Repo[t] /\ Branch[b] = Unlocked(t, Prs).base /\ pr[b] = "open"
                               /\ \A c \in BlockedBy[t] \ {b} : Repo[c] # Repo[t]
                      /\ (\A b \in BlockedBy[t] : b \in Tickets /\ Repo[b] # Repo[t]) => Unlocked(t, Prs).unlocked
    BY DEF StackedOnOpenBlocker
  <2>1. \A b \in Tickets : Prs[Branch[b]] = pr[b]
    <3> SUFFICES ASSUME NEW b \in Tickets PROVE Prs[Branch[b]] = pr[b]
      OBVIOUS
    <3>1. PICK o \in Tickets : Branch[o] = Branch[b] /\ \A prs : PrsByBranch(prs)[Branch[b]] = prs[o]
      BY BranchOwner
    <3>2. o = b
      BY <3>1 DEF OwnBranches
    <3> QED
      BY <3>1, <3>2 DEF Prs
  <2>2. SameRepoBlockers(t) \subseteq Tickets
    BY DEF SameRepoBlockers
  <2>3. \A b \in SameRepoBlockers(t) : Prs[Branch[b]] \in PRState
    BY <2>1, <2>2 DEF PrOK
  <2>4. ASSUME Unlocked(t, Prs).unlocked, Unlocked(t, Prs).base # DefaultBaseBranch
        PROVE  \E b \in BlockedBy[t] :
                  /\ Repo[b] = Repo[t] /\ Branch[b] = Unlocked(t, Prs).base /\ pr[b] = "open"
                  /\ \A c \in BlockedBy[t] \ {b} : Repo[c] # Repo[t]
    <3>1. PICK b : SameRepoBlockers(t) = {b} /\ Prs[Branch[b]] = "open" /\ Unlocked(t, Prs).base = Branch[b]
      BY <2>3, <2>4, UnlockCases
    <3>2. Untracked(t) = {}
      BY <2>3, <2>4, UnlockCases
    <3>3. BlockedBy[t] \subseteq Tickets
      BY <3>2 DEF Untracked
    <3>4. b \in BlockedBy[t] /\ Repo[b] = Repo[t] /\ \A c \in BlockedBy[t] \ {b} : Repo[c] # Repo[t]
      BY <3>1, <3>3 DEF SameRepoBlockers
    <3> QED
      BY <2>1, <2>2, <3>1, <3>4
  <2>5. ASSUME \A b \in BlockedBy[t] : b \in Tickets /\ Repo[b] # Repo[t]
        PROVE  Unlocked(t, Prs).unlocked
    <3>1. Untracked(t) = {} /\ SameRepoBlockers(t) = {}
      BY <2>5 DEF Untracked, SameRepoBlockers
    <3> QED
      BY <2>3, <3>1, UnlockCases
  <2> QED
    BY <2>4, <2>5
<1> QED
  BY <1>1, PrStates, PTL

-----------------------------------------------------------------------------
(* The peer rule.                                                          *)

(* The candidates that are held, as a set: visiting the candidates in      *)
(* branch-number order decides each of them.                               *)
LEMMA HeldSet ==
    ASSUME NEW cand \in SUBSET Tickets, NEW cs
    PROVE  \E H \in SUBSET Tickets :
              \A n \in Tickets : n \in H <=>
                 /\ n \in cand
                 /\ \E peer \in cand : Number[peer] < Number[n] /\ <<n, peer>> \in cs /\ peer \notin H
<1> DEFINE Below(k) == {n \in Tickets : Number[n] < k}
           Waits(n, H) == /\ n \in cand
                          /\ \E peer \in cand : Number[peer] < Number[n] /\ <<n, peer>> \in cs /\ peer \notin H
           Decides(k, H) == H \subseteq Below(k) /\ \A n \in Below(k) : n \in H <=> Waits(n, H)
           Undecided == {k \in Nat : ~\E H \in SUBSET Tickets : Decides(k, H)}
<1>0. \A n \in Tickets : Number[n] \in Nat
  BY TicketsAssumption
<1>1. Undecided = {}
  <2>0. \A k \in Nat : k \in Undecided <=> ~\E H \in SUBSET Tickets : Decides(k, H)
    OBVIOUS
  <2> SUFFICES ASSUME Undecided # {} PROVE FALSE
    OBVIOUS
  <2>1. PICK k \in Undecided : \A j \in Undecided : k <= j
    BY LeastNatural
  <2>2. Decides(0, {})
    <3>1. Below(0) = {}
      BY <1>0
    <3> QED
      BY <3>1
  <2>3. k # 0 /\ k \in Nat
    <3> HIDE DEF Decides
    <3> QED
      BY <2>1, <2>2
  <2>4. k - 1 \in Nat /\ k - 1 \notin Undecided
    <3> HIDE DEF Undecided
    <3> QED
      BY <2>1, <2>3
  <2>5. PICK H \in SUBSET Tickets : Decides(k - 1, H)
    <3> HIDE DEF Undecided, Decides
    <3> QED
      BY <2>0, <2>4
  <2> DEFINE G == {n \in Below(k) : Waits(n, H)}
  <2>6. \A n \in Below(k) : \A peer \in Tickets : Number[peer] < Number[n] => peer \in Below(k - 1) /\ peer \in Below(k)
    BY <1>0, <2>1
  <2>7. \A n \in Below(k - 1) : n \in G <=> n \in H
    <3>1. \A n \in Below(k - 1) : n \in Below(k)
      BY <1>0, <2>1
    <3> QED
      BY <2>5, <3>1
  <2>8. \A n \in Below(k) : Waits(n, G) <=> Waits(n, H)
    BY <2>6, <2>7
  <2>9. Decides(k, G) /\ G \in SUBSET Tickets
    BY <2>8
  <2> HIDE DEF Undecided, Decides, G
  <2> QED
    BY <2>0, <2>1, <2>3, <2>9
<1>2. \E k \in Nat : Below(k) = Tickets
  <2> DEFINE numbers == {Number[n] : n \in Tickets}
  <2>1. CASE Tickets = {}
    BY <2>1
  <2>2. CASE Tickets # {}
    <3>1. IsFiniteSet(numbers)
      <4>1. [n \in Tickets |-> Number[n]] \in Surjection(Tickets, numbers)
        BY DEF Surjection
      <4> QED
        BY <4>1, TicketsAssumption, FS_Surjection DEF ExistsSurjection
    <3>2. numbers \in SUBSET Nat /\ numbers # {}
      BY <1>0, <2>2
    <3>3. PICK m \in numbers : \A j \in numbers : j <= m
      BY <3>1, <3>2, GreatestNatural
    <3>4. \A n \in Tickets : Number[n] <= m
      BY <3>3
    <3>5. m \in Nat /\ \A n \in Tickets : Number[n] < m + 1
      BY <1>0, <3>2, <3>3, <3>4
    <3> QED
      BY <3>5
  <2> QED
    BY <2>1, <2>2
<1>3. PICK k \in Nat : Below(k) = Tickets
  BY <1>2
<1>4. PICK H \in SUBSET Tickets : Decides(k, H)
  BY <1>1
<1> QED
  BY <1>3, <1>4

(* The recursion of PeerHeld has a solution, so PeerHeld satisfies it. *)
LEMMA PeerHeldEquation ==
    ASSUME NEW cs, NEW prs
    PROVE  \A n \in Tickets : PeerHeld(cs, prs)[n] <=>
              /\ n \in PeerCandidates(prs)
              /\ \E peer \in PeerCandidates(prs) :
                    Number[peer] < Number[n] /\ <<n, peer>> \in cs /\ ~PeerHeld(cs, prs)[peer]
<1> DEFINE cand == PeerCandidates(prs)
           Holds(f) == f = [n \in Tickets |-> /\ n \in cand
                                              /\ \E peer \in cand : /\ Number[peer] < Number[n]
                                                                    /\ <<n, peer>> \in cs
                                                                    /\ ~f[peer]]
<1>1. cand \in SUBSET Tickets
  BY DEF PeerCandidates
<1>2. PICK H \in SUBSET Tickets :
         \A n \in Tickets : n \in H <=>
            /\ n \in cand
            /\ \E peer \in cand : Number[peer] < Number[n] /\ <<n, peer>> \in cs /\ peer \notin H
  BY <1>1, HeldSet
<1> DEFINE g == [n \in Tickets |-> n \in H]
<1>3. \A n \in Tickets : (n \in H) = ( /\ n \in cand
                                       /\ \E peer \in cand : /\ Number[peer] < Number[n]
                                                             /\ <<n, peer>> \in cs
                                                             /\ ~g[peer])
  <2>1. \A peer \in cand : g[peer] <=> peer \in H
    BY Zenon, <1>1
  <2> HIDE DEF g, cand
  <2> TAKE n \in Tickets
  <2>2. n \in H <=> /\ n \in cand
                    /\ \E peer \in cand : /\ Number[peer] < Number[n]
                                          /\ <<n, peer>> \in cs
                                          /\ ~g[peer]
    <3>1. \A peer \in cand : (Number[peer] < Number[n] /\ <<n, peer>> \in cs /\ peer \notin H)
                                <=> (Number[peer] < Number[n] /\ <<n, peer>> \in cs /\ ~g[peer])
      BY Zenon, <2>1
    <3> QED
      BY Zenon, <1>2, <3>1
  <2> DEFINE a == n \in H
             b == /\ n \in cand
                  /\ \E peer \in cand : /\ Number[peer] < Number[n]
                                        /\ <<n, peer>> \in cs
                                        /\ ~g[peer]
  <2>3. a \in BOOLEAN
    OBVIOUS
  <2>4. b \in BOOLEAN
    OBVIOUS
  <2>5. \A p, q \in BOOLEAN : (p <=> q) => p = q
    OBVIOUS
  <2>6. a <=> b
    BY Zenon, <2>2
  <2> HIDE DEF a, b
  <2>7. a = b
    BY Zenon, <2>3, <2>4, <2>5, <2>6
  <2> QED
    BY <2>7 DEF a, b
<1>4. Holds(g)
  BY Zenon, <1>3
<1>5. PeerHeld(cs, prs) = CHOOSE f : Holds(f)
  BY Zenon DEF PeerHeld
<1>6. Holds(PeerHeld(cs, prs))
  <2> HIDE DEF Holds
  <2> QED
    BY Zenon, <1>4, <1>5
<1> QED
  BY Zenon, <1>6

(* Two branches conflict with each other, inside one repository. *)
ConflictsMutual ==
    \A t, u \in Tickets : <<t, u>> \in conflicts =>
        <<u, t>> \in conflicts /\ Repo[t] = Repo[u] /\ t # u

(* Conflicts are recorded both ways and never across repositories. *)
LEMMA ConflictsAreMutual == Spec => []ConflictsMutual
<1>1. Init => ConflictsMutual
  BY DEF Init, ConflictsMutual
<1>2. ConflictsMutual /\ [Next]_<<pr, conflicts>> => ConflictsMutual'
  <2> SUFFICES ASSUME ConflictsMutual, [Next]_<<pr, conflicts>> PROVE ConflictsMutual'
    OBVIOUS
  <2>1. CASE conflicts' = conflicts
    BY <2>1 DEF ConflictsMutual
  <2>2. ASSUME NEW ps \in SUBSET PeerPairs, conflicts' = Ordered(ps) PROVE ConflictsMutual'
    <3> SUFFICES ASSUME NEW t \in Tickets, NEW u \in Tickets, <<t, u>> \in Ordered(ps)
                 PROVE  <<u, t>> \in Ordered(ps) /\ Repo[t] = Repo[u] /\ t # u
      BY <2>2 DEF ConflictsMutual
    <3>1. {t, u} \in ps /\ t # u
      BY DEF Ordered
    <3>2. {u, t} = {t, u}
      OBVIOUS
    <3>3. Repo[t] = Repo[u]
      BY <3>1 DEF PeerPairs
    <3> QED
      BY <3>1, <3>2, <3>3 DEF Ordered
  <2> QED
    BY <2>1, <2>2 DEF Next, Open, Merge, Close, Conflict
<1> QED
  BY <1>1, <1>2, PTL DEF Spec

(* The issue tracker numbers the issues of a repository once each. *)
OwnNumbers == \A t, u \in Tickets : Repo[t] = Repo[u] /\ Number[t] = Number[u] => t = u

(* The pull requests the peer rule lets through (conflictingPeerHold) are  *)
(* the branch-order-first maximal set without a conflict, whatever the     *)
(* conflicts: no two of them conflict, so merging them all is possible,    *)
(* and each one held back waits for an earlier one that does go through,   *)
(* so no two candidates wait for each other.                               *)
THEOREM PeersAreFirstFit ==
    ASSUME OwnNumbers
    PROVE  Spec => []PeerHoldIsFirstFit
<1>1. ConflictsMutual => PeerHoldIsFirstFit
  <2> SUFFICES ASSUME ConflictsMutual PROVE PeerHoldIsFirstFit
    OBVIOUS
  <2> DEFINE cand == PeerCandidates(Prs)
             Held(t) == PeerHeld(conflicts, Prs)[t]
             free == {t \in cand : ~Held(t)}
  <2>1. cand \subseteq Tickets
    BY DEF PeerCandidates
  <2>2. \A n \in Tickets : Held(n) <=>
           /\ n \in cand
           /\ \E peer \in cand : Number[peer] < Number[n] /\ <<n, peer>> \in conflicts /\ ~Held(peer)
    BY Zenon, PeerHeldEquation
  <2> HIDE DEF Held, cand
  <2>3. \A t, u \in free : <<t, u>> \notin conflicts
    <3> SUFFICES ASSUME NEW t \in free, NEW u \in free, <<t, u>> \in conflicts PROVE FALSE
      OBVIOUS
    <3>1. /\ t \in cand /\ u \in cand /\ t \in Tickets /\ u \in Tickets
          /\ ~Held(t) /\ ~Held(u)
      BY <2>1
    <3>2. <<u, t>> \in conflicts /\ Repo[t] = Repo[u] /\ t # u
      BY <3>1 DEF ConflictsMutual
    <3>3. Number[t] # Number[u]
      BY <3>1, <3>2 DEF OwnNumbers
    <3>4. Number[t] < Number[u] \/ Number[u] < Number[t]
      BY <3>1, <3>3, TicketsAssumption
    <3> QED
      BY Zenon, <2>2, <3>1, <3>2, <3>4
  <2>4. \A t \in cand \ free : \E u \in free : Number[u] < Number[t] /\ <<t, u>> \in conflicts
    <3> SUFFICES ASSUME NEW t \in cand, Held(t)
                 PROVE  \E u \in free : Number[u] < Number[t] /\ <<t, u>> \in conflicts
      BY Zenon
    <3> QED
      BY Zenon, <2>1, <2>2
  <2> QED
    BY Zenon, <2>3, <2>4 DEF PeerHoldIsFirstFit, Held, cand
<1> QED
  BY <1>1, ConflictsAreMutual, PTL
=============================================================================
