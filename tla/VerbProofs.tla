----------------------------- MODULE VerbProofs -----------------------------
(***************************************************************************)
(* The owner's clicks, for any number of tickets, clicks and faults: a     *)
(* launch has the owner's consent, a relaunch is paid for by a click, a    *)
(* ticket shown as resuming still has its message, and a stacked ticket is *)
(* launched after its blocker was pushed.                                  *)
(***************************************************************************)
EXTENDS RunLoopProofs

-----------------------------------------------------------------------------
(* The invariants.                                                         *)

(* The verb that asks for a run of this kind. *)
VerbOf(kind) == IF kind = "agent" THEN "re-run" ELSE "follow-up"

(* The list of each phase that applies verbs holds pending intents of its  *)
(* verbs, and what is being applied or spawned is on the list.             *)
ListInv ==
    /\ pc = "cancel" => todo \subseteq PendingIntents("cancel")
    /\ pc = "kill" => todo \subseteq PendingIntents("kill")
    /\ pc = "verbs" => todo \subseteq PendingIntents("re-run") \cup PendingIntents("follow-up")
    /\ due # 0 => due \in todo /\ sp.stage = "none"
    /\ sp.stage # "none" /\ sp.by # 0 =>
          /\ sp.by \in todo /\ intents[sp.by].ticket = sp.ticket
          /\ intents[sp.by].verb = VerbOf(sp.kind)

(* The runs a click started, and whether it has been acted on: it is       *)
(* consumed, about to be, or its row is reserved.                          *)
Started(i) == {r \in DOMAIN runs : runs[r].by = i}
Spent(i) == ~intents[i].pending \/ due = i \/ (sp.by = i /\ sp.stage \in {"spawn", "record"})

(* A run a verb asked for is that verb's, and a click that has not been    *)
(* acted on has started no more runs than there were faults.               *)
PaidInv ==
    /\ \A r \in DOMAIN runs : runs[r].by # 0 =>
          /\ runs[r].by \in DOMAIN intents /\ intents[runs[r].by].ticket = runs[r].ticket
          /\ intents[runs[r].by].verb = VerbOf(runs[r].kind)
    /\ \A i \in DOMAIN intents :
          /\ Cardinality(Started(i)) <= 1 + faults
          /\ ~Spent(i) => Cardinality(Started(i)) <= faults

(* The clicks of verb v on t that were applied, and the owner's last word: *)
(* a launch applied after every cancel applied.                            *)
Applied(v, t) ==
    {i \in DOMAIN intents : intents[i].verb = v /\ intents[i].ticket = t /\ ~intents[i].pending}
Consented(t) == \E i \in Applied("launch", t) : \A c \in Applied("cancel", t) : c < i

(* A launch that waits was clicked after every cancel that was applied or  *)
(* is being applied, so an active ticket has consent, loses its membership *)
(* before its cancel is consumed, and is active when it is launched.       *)
ConsentInv ==
    /\ \A i \in PendingIntents("launch"), c \in DOMAIN intents :
          intents[c].verb = "cancel" /\ (~intents[c].pending \/ (pc = "cancel" /\ c \in todo)) => c < i
    /\ \A t \in Tickets : membership[t] = "active" => Consented(t)
    /\ pc = "cancel" /\ due # 0 => membership[intents[due].ticket] # "active"
    /\ pc = "launching" => \A t \in todo : membership[t] = "active"

(* Every ticket of the repository has a branch of its own, as the issue    *)
(* number is part of the branch name (plan.BranchName).                    *)
OwnBranches == \A t, u \in Tickets : Branch[t] = Branch[u] => t = u

(* A run is disposed as pushed only with a commit to push. *)
CommitInv == \A r \in DOMAIN runs : runs[r].outcome = "push" => head[runs[r].ticket] # 0

(* A pull request, real, saved or observed, is of a branch that was pushed.*)
PrInv ==
    \A t \in Tickets :
        pr[t] # "absent" \/ saved.pr[t] # "absent" \/ obs.pr[t] # "absent" => pushed[t] # 0

(* What is being launched has only pushed blockers. *)
ListedInv == pc = "launching" => \A t \in todo : \A b \in SameRepoBlockers(t) : pushed[b] # 0

BlockerInv == CommitInv /\ PrInv /\ ListedInv /\ LaunchFollowsBlocker

(* When no fetch or gh read fails: worktrees that were observed, have had  *)
(* an agent or are about to have one are there; a run is continued only    *)
(* when it had an agent, in a worktree this tick observed.                 *)
WorktreeInv ==
    /\ \A t \in obs.wt \cup saved.wt : tree[t] = "worktree"
    /\ sp.stage \in {"insert", "spawn", "record"} => tree[sp.ticket] = "worktree"
    /\ \A r \in DOMAIN runs : runs[r].pgid => tree[runs[r].ticket] = "worktree"
    /\ \A r \in DOMAIN runs : runs[r].outcome = "continued" => runs[r].pgid
    /\ pc \in {"launch", "cancel", "kill", "reconcile"} =>
          \A r \in DOMAIN runs : runs[r].pgid => runs[r].ticket \in obs.wt
    /\ pc = "verbs" => \A r \in DOMAIN runs : runs[r].outcome = "continued" => runs[r].ticket \in obs.wt

(* The row a spawn reserved is the last one. *)
ReservedInv ==
    sp.stage \in {"spawn", "record"} => sp.run = Len(runs) /\ runs[sp.run].ticket = sp.ticket

(* A ticket whose latest run was continued has a message that waits and is *)
(* not the one being consumed.                                             *)
MessageInv ==
    \A t \in Tickets : HasRun(t) /\ Latest(t).outcome = "continued" =>
        \E i \in PendingIntents("follow-up") : intents[i].ticket = t /\ i # due

-----------------------------------------------------------------------------
(* The intents table.                                                      *)

(* An intent keeps its ticket and its verb, and once consumed stays so. *)
KeepsIntents ==
    /\ DOMAIN intents \subseteq DOMAIN intents'
    /\ \A i \in DOMAIN intents :
          /\ intents'[i].ticket = intents[i].ticket /\ intents'[i].verb = intents[i].verb
          /\ intents'[i].pending => intents[i].pending

(* A click adds a pending intent and touches no other. *)
LEMMA ClickAdds ==
    ASSUME TypeOK, NEW t \in Tickets, NEW v \in Verb, Click(t, v), NEW n, n = Len(intents) + 1
    PROVE  /\ Len(intents) \in Nat /\ DOMAIN intents = 1..Len(intents) /\ DOMAIN intents' = 1..n
           /\ n \notin DOMAIN intents /\ \A i \in DOMAIN intents' : i \in DOMAIN intents \/ i = n
           /\ \A i \in DOMAIN intents : intents'[i] = intents[i] /\ i < n
           /\ intents'[n].ticket = t /\ intents'[n].verb = v /\ intents'[n].pending
           /\ UNCHANGED <<membership, runs, saved, procVars, repoVars, tickVars, faults>>
<1> DEFINE new == [ticket |-> t, verb |-> v, pending |-> TRUE]
<1>1. intents \in Seq(Intent) /\ new \in Intent /\ intents' = Append(intents, new)
  BY DEF TypeOK, DbOK, Intent, Click, QueueIntent
<1>2. new.ticket = t /\ new.verb = v /\ new.pending
  OBVIOUS
<1> HIDE DEF new
<1>3. Len(intents) \in Nat /\ DOMAIN intents = 1..Len(intents)
  BY <1>1, LenProperties
<1>4. /\ DOMAIN intents' = 1..n /\ intents'[n] = new
      /\ \A i \in DOMAIN intents : intents'[i] = intents[i]
  BY <1>1, <1>3, AppendProperties
<1> QED
  BY <1>2, <1>3, <1>4 DEF Click

(* applyLaunchIntents consumes the pending launches and no other intent. *)
LEMMA LaunchesClaimed ==
    ASSUME TypeOK, ApplyLaunchIntents
    PROVE  /\ DOMAIN intents' = DOMAIN intents
           /\ \A i \in DOMAIN intents :
                 /\ intents'[i].ticket = intents[i].ticket /\ intents'[i].verb = intents[i].verb
                 /\ intents'[i].pending <=> intents[i].pending /\ intents[i].verb # "launch"
<1>1. intents' = [i \in DOMAIN intents |->
                     [intents[i] EXCEPT !.pending = @ /\ i \notin PendingIntents("launch")]]
  BY DEF ApplyLaunchIntents
<1>2. \A i \in DOMAIN intents : intents[i] \in Intent
  BY LenProperties DEF TypeOK, DbOK
<1>3. ASSUME NEW i \in DOMAIN intents
      PROVE  /\ intents'[i].ticket = intents[i].ticket /\ intents'[i].verb = intents[i].verb
             /\ intents'[i].pending <=> intents[i].pending /\ i \notin PendingIntents("launch")
  BY <1>1, <1>2 DEF Intent
<1>4. DOMAIN intents' = DOMAIN intents
  BY <1>1
<1> QED
  BY <1>3, <1>4 DEF PendingIntents

(* ConsumeVerbIntent consumes the intent that is due. *)
LEMMA DueConsumed ==
    ASSUME TypeOK, ConsumeVerbIntent
    PROVE  /\ DOMAIN intents' = DOMAIN intents /\ due \in DOMAIN intents
           /\ ~intents'[due].pending
           /\ intents'[due].ticket = intents[due].ticket /\ intents'[due].verb = intents[due].verb
           /\ \A i \in DOMAIN intents : i # due => intents'[i] = intents[i]
<1>1. due \in DOMAIN intents /\ intents[due] \in Intent
  BY LenProperties DEF ConsumeVerbIntent, TypeOK, TickOK, DbOK
<1>2. intents' = [intents EXCEPT ![due].pending = FALSE]
  BY DEF ConsumeVerbIntent
<1> QED
  BY <1>1, <1>2 DEF Intent

(* Nothing else writes the intents table. *)
LEMMA IntentSteps ==
    ASSUME [Next]_vars
    PROVE  \/ UNCHANGED intents
           \/ \E t \in Tickets, v \in Verb : Click(t, v)
           \/ ApplyLaunchIntents
           \/ ConsumeVerbIntent
<1>1. CASE Loop
  BY <1>1 DEF Loop, Observe, ApplyCancel, CancelsDone, ApplyKill, InterruptForFollowUps, ReconcileRun,
     SaveObservation, ReRunInWorktree, ReRunByCutting, FollowUpOne, PlanLaunches, LaunchEligible, Spawner,
     CutWorktree, CutFails, InsertRunSkeleton, Spawn, SpawnFails, RecordSpawn, EndTick, dbVars
<1>2. CASE Fault
  BY <1>2 DEF Fault, dbVars
<1>3. CASE Environment
  BY <1>3, Zenon DEF Environment, Commit, Exit, ReviewPR, dbVars
<1> QED
  BY <1>1, <1>2, <1>3 DEF Next, vars, dbVars

(* Every step keeps the intents it does not consume. *)
LEMMA IntentsKept == TypeOK /\ [Next]_vars => KeepsIntents
<1> SUFFICES ASSUME TypeOK, [Next]_vars PROVE KeepsIntents
  OBVIOUS
<1>1. ASSUME NEW t \in Tickets, NEW v \in Verb, Click(t, v)
      PROVE  KeepsIntents
  BY <1>1, ClickAdds DEF KeepsIntents
<1>2. CASE ApplyLaunchIntents
  BY <1>2, LaunchesClaimed DEF KeepsIntents
<1>3. CASE ConsumeVerbIntent
  BY <1>3, DueConsumed DEF KeepsIntents
<1>4. CASE UNCHANGED intents
  BY <1>4 DEF KeepsIntents
<1> QED
  BY <1>1, <1>2, <1>3, <1>4, IntentSteps

-----------------------------------------------------------------------------
(* The lists.                                                              *)

(* No list and no spawn at the start. *)
LEMMA ListInit == Init => ListInv
  BY DEF Init, ListInv, NoSpawn

(* A step within a phase that shortens its list at most, consumes nothing  *)
(* and has nothing due or spawning but what is on the list.                *)
LEMMA FrameList ==
    ASSUME ListInv, UNCHANGED intents, UNCHANGED pc, todo' \subseteq todo,
           due' # 0 => due' \in todo' /\ sp'.stage = "none",
           sp'.stage # "none" /\ sp'.by # 0 =>
              /\ sp'.by \in todo' /\ intents[sp'.by].ticket = sp'.ticket
              /\ intents[sp'.by].verb = VerbOf(sp'.kind)
    PROVE  ListInv'
<1>1. \A v : PendingIntents(v)' = PendingIntents(v)
  BY DEF PendingIntents
<1> QED
  BY <1>1 DEF ListInv

(* A step into a phase whose list is of no verb, or is made of the pending *)
(* intents of its verbs, with nothing due or spawning.                     *)
LEMMA PhaseList ==
    ASSUME UNCHANGED intents, due' = 0, sp'.stage = "none",
           pc' = "cancel" => todo' \subseteq PendingIntents("cancel"),
           pc' = "kill" => todo' \subseteq PendingIntents("kill"),
           pc' = "verbs" => todo' \subseteq PendingIntents("re-run") \cup PendingIntents("follow-up")
    PROVE  ListInv'
<1>1. \A v : PendingIntents(v)' = PendingIntents(v)
  BY DEF PendingIntents
<1> QED
  BY <1>1 DEF ListInv

(* The intent at the head of a list. *)
LEMMA HeadOfList ==
    ASSUME TypeOK, pc \in {"cancel", "kill", "verbs"}, todo # {}
    PROVE  Min(todo) \in todo /\ Min(todo) \in DOMAIN intents
  BY MinOfIntents DEF TypeOK, TodoOK

(* A spawn that goes on or returns. *)
LEMMA SpawnerList == TypeOK /\ LaunchInv /\ ListInv /\ Spawner => ListInv'
<1> SUFFICES ASSUME TypeOK, LaunchInv, ListInv, Spawner PROVE ListInv'
  OBVIOUS
<1>1. sp.stage # "none" /\ UNCHANGED <<pc, intents>>
  BY DEF Spawner, CutWorktree, CutFails, InsertRunSkeleton, Spawn, SpawnFails, RecordSpawn, dbVars
<1>2. due = 0
  BY <1>1 DEF ListInv
<1>3. CASE SpawnReturns
  <2>1. sp'.stage = "none"
    BY <1>3 DEF SpawnReturns, NoSpawn
  <2>2. CASE sp.by = 0
    BY <1>1, <1>2, <1>3, <2>1, <2>2, FrameList DEF SpawnReturns
  <2>3. CASE sp.by # 0
    <3>1. due' = sp.by /\ todo' = todo /\ sp.by \in todo
      BY <1>1, <1>3, <2>3 DEF SpawnReturns, ListInv
    <3> QED
      BY <1>1, <2>1, <3>1, FrameList
  <2> QED
    BY <2>2, <2>3
<1>4. CASE /\ UNCHANGED <<todo, due>>
           /\ sp'.ticket = sp.ticket /\ sp'.kind = sp.kind /\ sp'.by = sp.by
  BY <1>1, <1>2, <1>4, FrameList DEF ListInv
<1>5. CASE CutWorktree \/ InsertRunSkeleton \/ Spawn
  <2>1. /\ UNCHANGED <<todo, due>>
        /\ sp'.ticket = sp.ticket /\ sp'.kind = sp.kind /\ sp'.by = sp.by
    BY <1>5 DEF CutWorktree, InsertRunSkeleton, Spawn, TypeOK, SpawnOK
  <2> QED
    BY <1>4, <2>1
<1> QED
  BY <1>3, <1>5 DEF Spawner, CutFails, SpawnFails, RecordSpawn

(* A verb handler that spawns has found its intent on the list. *)
LEMMA VerbSpawns ==
    ASSUME TypeOK, ListInv, NEW kind \in {"agent", "follow_up"}, VerbReady(VerbOf(kind)),
           NEW stage, sp' = Spawning(stage, intents[NextVerbIntent].ticket, kind, NextVerbIntent),
           UNCHANGED <<intents, pc, todo, due>>
    PROVE  ListInv'
<1>1. NextVerbIntent \in todo /\ due = 0 /\ intents[NextVerbIntent].verb = VerbOf(kind)
  BY NextVerbIntentTypes DEF VerbReady
<1>2. sp'.ticket = intents[NextVerbIntent].ticket /\ sp'.kind = kind /\ sp'.by = NextVerbIntent
  BY DEF Spawning
<1> QED
  BY <1>1, <1>2, FrameList

(* Every step keeps the lists. *)
LEMMA ListStep == TypeOK /\ LaunchInv /\ ListInv /\ [Next]_vars => ListInv'
<1> SUFFICES ASSUME TypeOK, LaunchInv, ListInv, [Next]_vars PROVE ListInv'
  OBVIOUS
<1>1. CASE Observe \/ SaveObservation \/ CancelsDone \/ InterruptForFollowUps
  <2>1. due = 0 /\ sp.stage = "none"
    BY <1>1 DEF Observe, SaveObservation, CancelsDone, InterruptForFollowUps, LaunchInv
  <2> QED
    BY <1>1, <2>1, PhaseList
    DEF Observe, SaveObservation, CancelsDone, InterruptForFollowUps, dbVars, PendingIntents
<1>2. CASE ApplyLaunchIntents
  <2>1. due = 0 /\ sp.stage = "none" /\ UNCHANGED <<due, sp>> /\ pc' = "cancel" /\ todo' = PendingIntents("cancel")
    BY <1>2 DEF ApplyLaunchIntents, LaunchInv
  <2>2. PendingIntents("cancel") \subseteq PendingIntents("cancel")'
    BY <1>2, LaunchesClaimed DEF PendingIntents
  <2> QED
    BY <2>1, <2>2 DEF ListInv
<1>3. CASE ApplyCancel \/ ApplyKill
  <2>1. due' = Min(todo) /\ Min(todo) \in todo /\ UNCHANGED <<intents, pc, todo, sp>> /\ sp.stage = "none"
    BY <1>3, HeadOfList DEF ApplyCancel, ApplyKill, LaunchInv, dbVars
  <2> QED
    BY <2>1, FrameList
<1>4. ASSUME NEW r \in todo, ReconcileRun(r)
      PROVE  ListInv'
  <2>1. due = 0 /\ sp.stage = "none" /\ UNCHANGED <<intents, pc, due, sp>> /\ pc = "reconcile"
    BY <1>4 DEF ReconcileRun, LaunchInv
  <2> QED
    BY <2>1, PhaseList
<1>5. CASE ReRunInWorktree
  <2>1. VerbOf("agent") = "re-run"
    BY DEF VerbOf
  <2> QED
    BY <1>5, <2>1, VerbSpawns DEF ReRunInWorktree, dbVars
<1>6. CASE ReRunByCutting
  <2>1. CASE ResetTick
    BY <1>6, <2>1, PhaseList DEF ReRunByCutting, ResetTick, NoSpawn, dbVars
  <2>2. CASE /\ sp' = Spawning("cut", intents[NextVerbIntent].ticket, "agent", NextVerbIntent)
             /\ UNCHANGED <<pc, obs, todo, due, spawned, cancelled>>
    <3>1. VerbOf("agent") = "re-run"
      BY DEF VerbOf
    <3> QED
      BY <1>6, <2>2, <3>1, VerbSpawns DEF ReRunByCutting, dbVars
  <2> QED
    BY <1>6, <2>1, <2>2 DEF ReRunByCutting
<1>7. CASE FollowUpOne
  <2>1. /\ NextVerbIntent \in todo /\ due = 0 /\ sp.stage = "none" /\ VerbReady("follow-up")
        /\ UNCHANGED <<intents, pc>>
    BY <1>7, NextVerbIntentTypes DEF FollowUpOne, VerbReady, NoSpawn, dbVars
  <2>2. CASE todo' = todo \ {NextVerbIntent} /\ UNCHANGED <<due, sp>>
    BY <2>1, <2>2, FrameList
  <2>3. CASE due' = NextVerbIntent /\ UNCHANGED <<todo, sp>>
    BY <2>1, <2>3, FrameList
  <2>4. CASE /\ sp' = Spawning("insert", intents[NextVerbIntent].ticket, "follow_up", NextVerbIntent)
             /\ UNCHANGED <<todo, due>>
    <3>1. VerbOf("follow_up") = "follow-up"
      BY DEF VerbOf
    <3> QED
      BY <2>1, <2>4, <3>1, VerbSpawns
  <2> QED
    BY <1>7, <2>2, <2>3, <2>4 DEF FollowUpOne
<1>8. CASE ConsumeVerbIntent
  <2>1. /\ due # 0 /\ due' = 0 /\ todo' = todo \ {due} /\ UNCHANGED <<pc, sp>> /\ sp.stage = "none"
    BY <1>8 DEF ConsumeVerbIntent, ListInv
  <2>2. \A v : \A i \in PendingIntents(v) : i # due => i \in PendingIntents(v)'
    BY <1>8, DueConsumed DEF PendingIntents
  <2> QED
    BY <2>1, <2>2 DEF ListInv
<1>9. CASE PlanLaunches
  <2>1. due' = 0 /\ sp'.stage = "none" /\ pc' = "launching" /\ UNCHANGED intents
    BY <1>9 DEF PlanLaunches, NoSpawn, dbVars
  <2> QED
    BY <2>1, PhaseList
<1>10. CASE LaunchEligible
  <2>1. due = 0 /\ UNCHANGED <<intents, pc, todo, due>> /\ sp'.by = 0
    BY <1>10 DEF LaunchEligible, LaunchInv, Spawning, dbVars
  <2> QED
    BY <2>1, FrameList
<1>11. CASE Spawner
  BY <1>11, SpawnerList
<1>12. CASE EndTick \/ Fault
  BY <1>12, PhaseList DEF EndTick, Fault, ResetTick, NoSpawn, dbVars
<1>13. ASSUME NEW t \in Tickets, NEW v \in Verb, Click(t, v)
       PROVE  ListInv'
  <2>1. PICK n : n = Len(intents) + 1
    OBVIOUS
  <2>2. /\ DOMAIN intents \subseteq DOMAIN intents' /\ UNCHANGED tickVars
        /\ \A i \in DOMAIN intents : intents'[i] = intents[i]
    BY <1>13, <2>1, ClickAdds
  <2>3. \A w : PendingIntents(w) \subseteq PendingIntents(w)'
    BY <2>2 DEF PendingIntents
  <2>4. sp.stage # "none" /\ sp.by # 0 => sp.by \in DOMAIN intents
    BY DEF TypeOK, SpawnOK
  <2> QED
    BY <2>2, <2>3, <2>4 DEF ListInv, tickVars
<1>14. CASE Environment
  <2>1. UNCHANGED <<intents, tickVars>> \/ \E t \in Tickets, v \in Verb : Click(t, v)
    BY <1>14, Zenon DEF Environment, Commit, Exit, ReviewPR, dbVars
  <2>2. CASE UNCHANGED <<intents, tickVars>>
    BY <2>2, FrameList DEF tickVars, ListInv
  <2> QED
    BY <1>13, <2>1, <2>2
<1>15. CASE UNCHANGED vars
  BY <1>15, FrameList DEF vars, dbVars, tickVars, ListInv
<1> QED
  BY <1>1, <1>2, <1>3, <1>4, <1>5, <1>6, <1>7, <1>8, <1>9, <1>10, <1>11, <1>12, <1>14, <1>15 DEF Next, Loop

-----------------------------------------------------------------------------
(* A relaunch is paid for.                                                 *)

(* No run appears, and every run keeps its ticket, its kind and its click. *)
KeepsRuns ==
    /\ DOMAIN runs' = DOMAIN runs
    /\ \A r \in DOMAIN runs : /\ runs'[r].ticket = runs[r].ticket /\ runs'[r].by = runs[r].by
                              /\ runs'[r].kind = runs[r].kind

(* An update of one run keeps the columns that are never rewritten. *)
LEMMA UpdateKeepsRuns ==
    ASSUME DbOK, NEW r \in DOMAIN runs, NEW x,
           \/ runs' = [runs EXCEPT ![r].outcome = x]
           \/ runs' = [runs EXCEPT ![r].pgid = x]
    PROVE  KeepsRuns
<1>1. \A q \in DOMAIN runs : runs[q] \in Run
  BY RunRow
<1> QED
  BY <1>1 DEF KeepsRuns, Run

(* Only a spawn inserts a run. *)
LEMMA RunSteps ==
    ASSUME TypeOK, [Next]_vars
    PROVE  KeepsRuns \/ CutFails \/ InsertRunSkeleton
<1>1. UNCHANGED runs => KeepsRuns
  BY DEF KeepsRuns
<1>2. CASE Observe \/ ApplyLaunchIntents \/ ApplyCancel \/ CancelsDone \/ ApplyKill
           \/ InterruptForFollowUps \/ SaveObservation
  BY <1>1, <1>2
  DEF Observe, ApplyLaunchIntents, ApplyCancel, CancelsDone, ApplyKill, InterruptForFollowUps,
      SaveObservation, dbVars
<1>3. ASSUME NEW r \in todo, ReconcileRun(r)
      PROVE  KeepsRuns
  <2>1. r \in DOMAIN runs
    BY <1>3 DEF ReconcileRun, TypeOK, TodoOK
  <2>2. UNCHANGED runs \/ \E o : DisposeRun(r, o)
    BY <1>3, Zenon DEF ReconcileRun
  <2> QED
    BY <1>1, <2>1, <2>2, UpdateKeepsRuns DEF DisposeRun, RecordDisposition, TypeOK
<1>4. CASE ReRunInWorktree \/ ReRunByCutting \/ FollowUpOne \/ ConsumeVerbIntent
           \/ PlanLaunches \/ LaunchEligible \/ EndTick \/ Fault \/ CutWorktree \/ Spawn
  BY <1>1, <1>4
  DEF ReRunInWorktree, ReRunByCutting, FollowUpOne, ConsumeVerbIntent, PlanLaunches, LaunchEligible,
      EndTick, Fault, CutWorktree, Spawn, dbVars
<1>5. CASE SpawnFails \/ RecordSpawn
  BY <1>5, UpdateKeepsRuns DEF SpawnFails, RecordDisposition, RecordSpawn, TypeOK, SpawnOK
<1>6. CASE Environment
  <2>1. UNCHANGED runs
    BY <1>6, Zenon DEF Environment, Click, Commit, Exit, ReviewPR, dbVars
  <2> QED
    BY <1>1, <2>1
<1>7. CASE UNCHANGED vars
  BY <1>1, <1>7 DEF vars, dbVars
<1> QED
  BY <1>2, <1>3, <1>4, <1>5, <1>6, <1>7 DEF Next, Loop, Spawner

(* A click that has been acted on stays so, except across a fault, which   *)
(* is counted.                                                             *)
LEMMA SpentKept ==
    ASSUME TypeOK, TypeOK', LaunchInv, ListInv, [Next]_vars, NEW i \in DOMAIN intents, Spent(i)
    PROVE  Spent(i)' \/ Fault
<1>1. KeepsIntents /\ i # 0
  BY IntentsKept, LenProperties DEF TypeOK, DbOK
<1>2. CASE ~intents[i].pending
  BY <1>1, <1>2 DEF Spent, KeepsIntents
<1>3. CASE UNCHANGED <<due, sp>>
  BY <1>1, <1>3 DEF Spent, KeepsIntents
<1>4. CASE due = 0 /\ sp.stage = "none"
  BY <1>1, <1>2, <1>4 DEF Spent
<1>5. CASE Observe \/ ApplyLaunchIntents \/ CancelsDone \/ InterruptForFollowUps \/ SaveObservation
           \/ PlanLaunches
  BY <1>3, <1>5
  DEF Observe, ApplyLaunchIntents, CancelsDone, InterruptForFollowUps, SaveObservation, PlanLaunches
<1>6. CASE (\E r \in todo : ReconcileRun(r)) \/ Environment \/ UNCHANGED vars
  <2>1. UNCHANGED <<due, sp>>
    BY <1>6, Zenon DEF ReconcileRun, Environment, Click, Commit, Exit, ReviewPR, tickVars, vars
  <2> QED
    BY <1>3, <2>1
<1>7. CASE ApplyCancel \/ ApplyKill \/ ReRunInWorktree \/ ReRunByCutting \/ FollowUpOne
           \/ LaunchEligible \/ EndTick
  <2>1. due = 0 /\ sp.stage = "none"
    BY <1>7 DEF ApplyCancel, ApplyKill, ReRunInWorktree, ReRunByCutting, FollowUpOne, VerbReady,
       LaunchEligible, EndTick, NoSpawn, LaunchInv
  <2> QED
    BY <1>4, <2>1
<1>8. CASE ConsumeVerbIntent
  BY <1>3, <1>8, <1>2, DueConsumed DEF Spent, ConsumeVerbIntent
<1>9. CASE Spawner
  <2>1. due = 0 /\ sp.stage # "none"
    BY <1>9 DEF Spawner, CutWorktree, CutFails, InsertRunSkeleton, Spawn, SpawnFails, RecordSpawn, ListInv
  <2>2. CASE sp.by = i /\ sp.stage \in {"spawn", "record"}
    <3>1. Spawn \/ SpawnReturns
      BY <1>9, <2>2 DEF Spawner, CutWorktree, CutFails, InsertRunSkeleton, SpawnFails, RecordSpawn
    <3>2. CASE SpawnReturns
      BY <1>1, <2>2, <3>2 DEF SpawnReturns, Spent
    <3>3. CASE Spawn
      <4>1. sp'.stage = "record" /\ sp'.by = i
        BY <2>2, <3>3 DEF Spawn, TypeOK, SpawnOK
      <4> QED
        BY <4>1 DEF Spent
    <3> QED
      BY <3>1, <3>2, <3>3
  <2> QED
    BY <1>1, <1>2, <2>1, <2>2 DEF Spent
<1> QED
  BY <1>5, <1>6, <1>7, <1>8, <1>9 DEF Next, Loop

(* The runs table is finite. *)
LEMMA RunsFinite == TypeOK => IsFiniteSet(DOMAIN runs)
<1> SUFFICES ASSUME TypeOK PROVE IsFiniteSet(DOMAIN runs)
  OBVIOUS
<1>1. DOMAIN runs = 1..Len(runs) /\ Len(runs) \in Int
  BY LenProperties DEF TypeOK, DbOK
<1>2. IsFiniteSet(1..Len(runs))
  BY <1>1, FS_Interval
<1> QED
  BY <1>1, <1>2

(* Faults are counted, never forgotten. *)
LEMMA FaultsGrow == TypeOK /\ [Next]_vars => faults \in Nat /\ faults <= faults'
<1> SUFFICES ASSUME TypeOK, [Next]_vars PROVE faults \in Nat /\ faults <= faults'
  OBVIOUS
<1>1. faults \in Nat
  BY LoopAssumption DEF TypeOK
<1>2. CASE UNCHANGED faults
  BY <1>1, <1>2
<1>3. CASE faults' = faults + 1
  BY <1>1, <1>3
<1>4. CASE Observe
  <2>1. PICK misread \in SUBSET (PendingRuns \cap live), bad \in BOOLEAN :
             faults' = faults + (Cardinality(misread) + (IF bad THEN 1 ELSE 0))
    BY <1>4, Zenon DEF Observe
  <2>2. IsFiniteSet(misread)
    <3>1. IsFiniteSet(DOMAIN runs) /\ misread \subseteq DOMAIN runs
      BY RunsFinite DEF PendingRuns
    <3> QED
      BY <3>1, FS_Subset
  <2>3. Cardinality(misread) \in Nat
    BY <2>2, FS_CardinalityType
  <2> QED
    BY <1>1, <2>1, <2>3
<1>5. CASE Loop
  <2>1. CASE CutFails \/ SpawnFails
    BY <1>2, <1>3, <2>1 DEF CutFails, SpawnFails
  <2>2. CASE \E r \in todo : ReconcileRun(r)
    BY <1>2, <2>2 DEF ReconcileRun
  <2> QED
    BY <1>2, <1>4, <1>5, <2>1, <2>2 DEF Loop, ApplyLaunchIntents, ApplyCancel, CancelsDone, ApplyKill,
       InterruptForFollowUps, SaveObservation, ReRunInWorktree, ReRunByCutting, FollowUpOne,
       ConsumeVerbIntent, PlanLaunches, LaunchEligible, Spawner, CutWorktree, InsertRunSkeleton, Spawn,
       RecordSpawn, EndTick
<1>6. CASE Fault
  BY <1>3, <1>6 DEF Fault
<1>7. CASE Environment \/ UNCHANGED vars
  <2>1. UNCHANGED faults
    BY <1>7, Zenon DEF Environment, Click, Commit, Exit, ReviewPR, vars
  <2> QED
    BY <1>2, <2>1
<1> QED
  BY <1>5, <1>6, <1>7 DEF Next

(* The runs of a click are counted. *)
LEMMA StartedFinite ==
    ASSUME TypeOK, NEW i
    PROVE  IsFiniteSet(Started(i)) /\ Cardinality(Started(i)) \in Nat
<1>1. IsFiniteSet(DOMAIN runs) /\ Started(i) \subseteq DOMAIN runs
  BY RunsFinite DEF Started
<1>2. IsFiniteSet(Started(i))
  BY <1>1, FS_Subset
<1> QED
  BY <1>2, FS_CardinalityType

(* No run, no click, no fault. *)
LEMMA PaidInit == Init => PaidInv
  BY DEF Init, PaidInv

(* A step that inserts no run. *)
LEMMA FramePaid ==
    ASSUME TypeOK, TypeOK', LaunchInv, ListInv, PaidInv, [Next]_vars, KeepsRuns
    PROVE  PaidInv'
<1>1. KeepsIntents /\ faults \in Nat /\ faults' \in Nat /\ faults <= faults'
  BY IntentsKept, FaultsGrow, LoopAssumption DEF TypeOK
<1>2. ASSUME NEW r \in DOMAIN runs', runs'[r].by # 0
      PROVE  /\ runs'[r].by \in DOMAIN intents' /\ intents'[runs'[r].by].ticket = runs'[r].ticket
             /\ intents'[runs'[r].by].verb = VerbOf(runs'[r].kind)
  <2>1. /\ r \in DOMAIN runs /\ runs'[r].by = runs[r].by /\ runs'[r].ticket = runs[r].ticket
        /\ runs'[r].kind = runs[r].kind
    BY DEF KeepsRuns
  <2>2. /\ runs[r].by \in DOMAIN intents /\ intents[runs[r].by].ticket = runs[r].ticket
        /\ intents[runs[r].by].verb = VerbOf(runs[r].kind)
    BY <1>2, <2>1 DEF PaidInv
  <2> QED
    BY <1>1, <2>1, <2>2 DEF KeepsIntents
<1>3. ASSUME NEW i \in DOMAIN intents'
      PROVE  /\ Cardinality(Started(i)') <= 1 + faults'
             /\ ~Spent(i)' => Cardinality(Started(i)') <= faults'
  <2>1. Started(i)' = Started(i)
    BY DEF Started, KeepsRuns
  <2>2. Cardinality(Started(i)') = Cardinality(Started(i))
    BY <2>1, Zenon
  <2>3. CASE i \in DOMAIN intents
    <3>1. Cardinality(Started(i)) <= 1 + faults /\ (~Spent(i) => Cardinality(Started(i)) <= faults)
      BY <2>3 DEF PaidInv
    <3>2. Cardinality(Started(i)) \in Nat
      BY StartedFinite
    <3>3. Spent(i) => Spent(i)' \/ faults' = faults + 1
      BY <2>3, SpentKept DEF Fault
    <3> QED
      BY <1>1, <2>2, <3>1, <3>2, <3>3
  <2>4. CASE i \notin DOMAIN intents
    <3>1. i # 0
      BY LenProperties DEF TypeOK, DbOK
    <3>2. Started(i) = {}
      BY <2>4, <3>1 DEF Started, PaidInv
    <3>3. Cardinality(Started(i)') = 0
      BY <2>2, <3>2, FS_EmptySet, Zenon
    <3>4. \A k \in Nat : 0 <= 1 + k /\ 0 <= k
      OBVIOUS
    <3> QED
      BY <1>1, <3>3, <3>4, Zenon
  <2> QED
    BY <2>3, <2>4
<1>4. \A i \in DOMAIN intents' :
          /\ Cardinality(Started(i)') <= 1 + faults'
          /\ ~Spent(i)' => Cardinality(Started(i)') <= faults'
  BY <1>3
<1> QED
  BY <1>2, <1>4 DEF PaidInv

(* A new run is the first since a fault of the click it is for. *)
LEMMA InsertPaid ==
    ASSUME TypeOK, TypeOK', LaunchInv, ListInv, PaidInv, [Next]_vars, CutFails \/ InsertRunSkeleton
    PROVE  PaidInv'
<1>1. KeepsIntents /\ faults \in Nat /\ faults' \in Nat /\ faults <= faults'
  BY IntentsKept, FaultsGrow, LoopAssumption DEF TypeOK
<1>2. PICK n : n = Len(runs) + 1
  OBVIOUS
<1>3. sp.stage \in {"cut", "insert"} /\ \E outcome : runs' = Append(runs, NewRun(outcome))
  BY DEF CutFails, InsertRunSkeleton
<1>4. PICK outcome : runs' = Append(runs, NewRun(outcome))
  BY <1>3
<1>5. runs \in Seq(Run) /\ Len(runs) \in Nat /\ DOMAIN runs = 1..Len(runs)
  BY LenProperties DEF TypeOK, DbOK
<1>6. /\ DOMAIN runs' = DOMAIN runs \cup {n} /\ n \notin DOMAIN runs
      /\ \A r \in DOMAIN runs : runs'[r] = runs[r]
      /\ runs'[n].by = sp.by /\ runs'[n].ticket = sp.ticket /\ runs'[n].kind = sp.kind
  BY <1>2, <1>4, <1>5 DEF NewRun
<1>7. ASSUME NEW i, i = sp.by, i # 0
      PROVE  /\ i \in DOMAIN intents /\ intents[i].ticket = sp.ticket
             /\ intents[i].verb = VerbOf(sp.kind) /\ ~Spent(i) /\ Spent(i)'
  <2>1. i \in DOMAIN intents /\ pc = "verbs" /\ i \in todo
    BY <1>3, <1>7 DEF TypeOK, SpawnOK, LaunchInv, ListInv
  <2>2. intents[i].pending /\ due = 0
    BY <1>3, <1>7, <2>1 DEF ListInv, PendingIntents
  <2>3. ~Spent(i)
    BY <1>3, <1>7, <2>2 DEF Spent
  <2>4. Spent(i)'
    <3>1. CASE CutFails
      BY <1>7, <3>1 DEF CutFails, SpawnReturns, Spent
    <3>2. CASE InsertRunSkeleton
      <4>1. sp'.stage = "spawn" /\ sp'.by = sp.by
        BY <3>2 DEF InsertRunSkeleton, TypeOK, SpawnOK
      <4> QED
        BY <1>7, <4>1 DEF Spent
    <3> QED
      BY <3>1, <3>2
  <2> QED
    BY <1>3, <1>7, <2>1, <2>3, <2>4 DEF ListInv
<1>8. ASSUME NEW r \in DOMAIN runs', runs'[r].by # 0
      PROVE  /\ runs'[r].by \in DOMAIN intents' /\ intents'[runs'[r].by].ticket = runs'[r].ticket
             /\ intents'[runs'[r].by].verb = VerbOf(runs'[r].kind)
  <2>1. /\ runs'[r].by \in DOMAIN intents /\ intents[runs'[r].by].ticket = runs'[r].ticket
        /\ intents[runs'[r].by].verb = VerbOf(runs'[r].kind)
    BY <1>6, <1>7, <1>8 DEF PaidInv
  <2> QED
    BY <1>1, <2>1 DEF KeepsIntents
<1>9. ASSUME NEW i \in DOMAIN intents'
      PROVE  /\ Cardinality(Started(i)') <= 1 + faults'
             /\ ~Spent(i)' => Cardinality(Started(i)') <= faults'
  <2>1. i \in DOMAIN intents /\ i # 0
    BY LenProperties DEF CutFails, InsertRunSkeleton, TypeOK, DbOK
  <2>2. IsFiniteSet(Started(i)) /\ Cardinality(Started(i)) \in Nat
    BY StartedFinite
  <2>3. Cardinality(Started(i)) <= 1 + faults /\ (~Spent(i) => Cardinality(Started(i)) <= faults)
    BY <2>1 DEF PaidInv
  <2>4. CASE i = sp.by
    <3>1. Started(i)' = Started(i) \cup {n} /\ n \notin Started(i)
      BY <1>6, <2>4 DEF Started
    <3>2. Cardinality(Started(i) \cup {n}) = Cardinality(Started(i)) + 1
      BY <2>2, <3>1, FS_AddElement
    <3>3. Cardinality(Started(i)') = Cardinality(Started(i)) + 1
      BY <3>1, <3>2, Zenon
    <3>4. Spent(i)' /\ ~Spent(i)
      BY <1>7, <2>1, <2>4
    <3> QED
      BY <1>1, <2>2, <2>3, <3>3, <3>4
  <2>5. CASE i # sp.by
    <3>1. Started(i)' = Started(i)
      BY <1>6, <2>5 DEF Started
    <3>2. Cardinality(Started(i)') = Cardinality(Started(i))
      BY <3>1, Zenon
    <3>3. Spent(i) => Spent(i)' \/ faults' = faults + 1
      BY <2>1, SpentKept DEF Fault
    <3> QED
      BY <1>1, <2>2, <2>3, <3>2, <3>3
  <2> QED
    BY <2>4, <2>5
<1>10. \A i \in DOMAIN intents' :
          /\ Cardinality(Started(i)') <= 1 + faults'
          /\ ~Spent(i)' => Cardinality(Started(i)') <= faults'
  BY <1>9
<1> QED
  BY <1>8, <1>10 DEF PaidInv

(* The three invariants of the loop this module builds on. *)
LEMMA LoopInvariants == Spec => []TypeOK /\ []LaunchInv /\ []LedgerInv /\ []ListInv
<1>1. Spec => []TypeOK
  BY TypeCorrect
<1>2. Spec => []LaunchInv
  BY <1>1, LaunchInvInit, LaunchInvStep, PTL DEF Spec
<1>3. Spec => []LedgerInv
  BY <1>1, <1>2, LedgerInvInit, LedgerInvStep, PTL DEF Spec
<1>4. Spec => []ListInv
  BY <1>1, <1>2, ListInit, ListStep, PTL DEF Spec
<1> QED
  BY <1>1, <1>2, <1>3, <1>4, PTL

(* Every relaunch is a user verb on the same ticket, and one click starts  *)
(* one run plus at most one for each fault, for every number of tickets,   *)
(* clicks and faults of any kind.                                          *)
THEOREM RelaunchesArePaid == Spec => []RelaunchIsPaid
<1>1. TypeOK /\ LaunchInv /\ ListInv /\ PaidInv /\ [Next]_vars /\ TypeOK' => PaidInv'
  BY RunSteps, FramePaid, InsertPaid
<1>2. PaidInv => RelaunchIsPaid
  BY DEF PaidInv, RelaunchIsPaid, Started, VerbOf
<1> QED
  BY <1>1, <1>2, LoopInvariants, PaidInit, PTL DEF Spec

-----------------------------------------------------------------------------
(* A launch has consent.                                                   *)

(* No click, no membership at the start. *)
LEMMA ConsentInit == Init => ConsentInv
  BY DEF Init, ConsentInv, PendingIntents

(* A step that writes neither intents nor memberships and begins neither   *)
(* the cancels nor the launches.                                           *)
LEMMA FrameConsent ==
    ASSUME ConsentInv, UNCHANGED <<intents, membership>>,
           pc' = "cancel" => pc = "cancel" /\ todo' \subseteq todo /\ UNCHANGED due,
           pc' = "launching" => pc = "launching" /\ todo' \subseteq todo
    PROVE  ConsentInv'
<1>1. \A v : PendingIntents(v)' = PendingIntents(v)
  BY DEF PendingIntents
<1>2. \A t : Consented(t)' <=> Consented(t)
  BY DEF Consented, Applied
<1> QED
  BY <1>1, <1>2 DEF ConsentInv

(* A click is pending and the last one. *)
LEMMA ClickConsent ==
    ASSUME TypeOK, ConsentInv, NEW t \in Tickets, NEW v \in Verb, Click(t, v)
    PROVE  ConsentInv'
<1>1. PICK n : n = Len(intents) + 1
  OBVIOUS
<1>2. /\ Len(intents) \in Nat /\ DOMAIN intents = 1..Len(intents) /\ DOMAIN intents' = 1..n
      /\ n \notin DOMAIN intents /\ \A i \in DOMAIN intents' : i \in DOMAIN intents \/ i = n
      /\ \A i \in DOMAIN intents : intents'[i] = intents[i] /\ i < n
      /\ intents'[n].pending /\ UNCHANGED <<membership, pc, todo, due>>
  BY <1>1, ClickAdds DEF tickVars
<1>3. \A w, u : Applied(w, u)' = Applied(w, u)
  BY <1>1, <1>2 DEF Applied
<1>4. \A u : Consented(u)' <=> Consented(u)
  BY <1>3 DEF Consented
<1>5. pc = "cancel" => todo \subseteq DOMAIN intents
  BY DEF TypeOK, TodoOK
<1>6. ASSUME NEW i \in PendingIntents("launch")', NEW c \in DOMAIN intents', intents'[c].verb = "cancel",
             ~intents'[c].pending \/ (pc = "cancel" /\ c \in todo)
      PROVE  c < i
  <2>1. c \in DOMAIN intents /\ intents'[c] = intents[c]
    BY <1>2, <1>5, <1>6
  <2>2. CASE i = n
    BY <1>2, <2>1, <2>2
  <2>3. CASE i # n
    <3>1. i \in PendingIntents("launch")
      BY <1>2, <1>6, <2>3 DEF PendingIntents
    <3> QED
      BY <1>6, <2>1, <3>1 DEF ConsentInv
  <2> QED
    BY <2>2, <2>3
<1>7. pc = "cancel" /\ due # 0 => due \in DOMAIN intents
  BY DEF TypeOK, TickOK
<1> QED
  BY <1>2, <1>4, <1>6, <1>7 DEF ConsentInv

(* The pending launches were clicked after every cancel applied so far, so *)
(* activating them has consent.                                            *)
LEMMA ApplyLaunchConsent ==
    ASSUME TypeOK, LaunchInv, ConsentInv, ApplyLaunchIntents
    PROVE  ConsentInv'
<1>1. /\ DOMAIN intents' = DOMAIN intents
      /\ \A i \in DOMAIN intents :
            /\ intents'[i].ticket = intents[i].ticket /\ intents'[i].verb = intents[i].verb
            /\ intents'[i].pending <=> intents[i].pending /\ intents[i].verb # "launch"
  BY LaunchesClaimed
<1>2. PendingIntents("launch")' = {}
  BY <1>1 DEF PendingIntents
<1>3. \A t : /\ Applied("cancel", t)' = Applied("cancel", t)
             /\ Applied("launch", t) \subseteq Applied("launch", t)'
  BY <1>1 DEF Applied
<1>4. ASSUME NEW t \in Tickets, membership'[t] = "active"
      PROVE  Consented(t)'
  <2>1. CASE \E i \in PendingIntents("launch") : intents[i].ticket = t
    <3>1. PICK i \in PendingIntents("launch") : intents[i].ticket = t
      BY <2>1
    <3>2. i \in Applied("launch", t)'
      BY <1>1, <3>1 DEF Applied, PendingIntents
    <3>3. \A c \in Applied("cancel", t) : c < i
      BY <3>1 DEF ConsentInv, Applied
    <3> QED
      BY <1>3, <3>2, <3>3 DEF Consented
  <2>2. CASE ~\E i \in PendingIntents("launch") : intents[i].ticket = t
    <3>1. membership[t] = "active"
      BY <1>4, <2>2 DEF ApplyLaunchIntents
    <3>2. PICK i \in Applied("launch", t) : \A c \in Applied("cancel", t) : c < i
      BY <3>1 DEF ConsentInv, Consented
    <3> QED
      BY <1>3, <3>2 DEF Consented
  <2> QED
    BY <2>1, <2>2
<1>5. due' = 0 /\ pc' = "cancel"
  BY DEF ApplyLaunchIntents, LaunchInv
<1> QED
  BY <1>2, <1>4, <1>5 DEF ConsentInv

(* A consumed cancel was clicked before the launches that wait, and its    *)
(* ticket is no longer active.                                             *)
LEMMA ConsumeConsent ==
    ASSUME TypeOK, LaunchInv, ListInv, ConsentInv, ConsumeVerbIntent
    PROVE  ConsentInv'
<1>1. /\ DOMAIN intents' = DOMAIN intents /\ due \in DOMAIN intents
      /\ ~intents'[due].pending
      /\ intents'[due].ticket = intents[due].ticket /\ intents'[due].verb = intents[due].verb
      /\ \A i \in DOMAIN intents : i # due => intents'[i] = intents[i]
  BY DueConsumed
<1>2. /\ due # 0 /\ due' = 0 /\ todo' = todo \ {due} /\ UNCHANGED <<pc, membership>>
      /\ pc \in {"cancel", "kill", "verbs"} /\ due \in todo
  BY DEF ConsumeVerbIntent, LaunchInv, ListInv
<1>3. intents[due].verb # "launch" /\ (intents[due].verb = "cancel" => pc = "cancel")
  BY <1>2 DEF ListInv, PendingIntents
<1>4. PendingIntents("launch")' = PendingIntents("launch")
  BY <1>1, <1>3 DEF PendingIntents
<1>5. ASSUME NEW i \in PendingIntents("launch"), NEW c \in DOMAIN intents, intents'[c].verb = "cancel",
             ~intents'[c].pending \/ (pc = "cancel" /\ c \in todo')
      PROVE  c < i
  <2>1. intents[c].verb = "cancel" /\ (~intents[c].pending \/ (pc = "cancel" /\ c \in todo))
    BY <1>1, <1>2, <1>3, <1>5
  <2> QED
    BY <2>1 DEF ConsentInv
<1>6. ASSUME NEW t \in Tickets, membership[t] = "active"
      PROVE  Consented(t)'
  <2>1. Applied("launch", t)' = Applied("launch", t)
    BY <1>1, <1>3 DEF Applied
  <2>2. intents[due].verb = "cancel" => intents[due].ticket # t
    BY <1>2, <1>3, <1>6 DEF ConsentInv
  <2>3. Applied("cancel", t)' = Applied("cancel", t)
    BY <1>1, <2>2 DEF Applied
  <2>4. Consented(t)
    BY <1>6 DEF ConsentInv
  <2> QED
    BY <2>1, <2>3, <2>4 DEF Consented
<1> QED
  BY <1>1, <1>2, <1>4, <1>5, <1>6 DEF ConsentInv

(* A cancel deactivates its ticket before it is consumed. *)
LEMMA CancelConsent ==
    ASSUME TypeOK, ConsentInv, ApplyCancel
    PROVE  ConsentInv'
<1>1. Min(todo) \in DOMAIN intents
  BY HeadOfList DEF ApplyCancel
<1>2. intents[Min(todo)].ticket \in Tickets
  <2>1. \A i \in DOMAIN intents : intents[i] \in Intent
    BY LenProperties DEF TypeOK, DbOK
  <2> QED
    BY <1>1, <2>1 DEF Intent
<1>3. /\ membership'[intents[Min(todo)].ticket] # "active"
      /\ \A t \in Tickets : membership'[t] = "active" => membership[t] = "active"
  BY <1>2 DEF ApplyCancel, CancelLaunchesFor, TypeOK, DbOK
<1>4. UNCHANGED <<intents, pc, todo>> /\ pc = "cancel" /\ due' = Min(todo)
  BY DEF ApplyCancel
<1>5. \A v : PendingIntents(v)' = PendingIntents(v)
  BY <1>4 DEF PendingIntents
<1>6. \A t : Consented(t)' <=> Consented(t)
  BY <1>4 DEF Consented, Applied
<1> QED
  BY <1>3, <1>4, <1>5, <1>6 DEF ConsentInv

(* What LaunchAfter picks is authorised. *)
LEMMA LaunchAfterActive ==
    ASSUME NEW o, NEW paused, NEW t \in LaunchAfter(o, paused)
    PROVE  membership[t] = "active" /\ t \in Tickets /\ Unlocked(t, PrsByBranch(o.pr)).unlocked
<1> DEFINE cand == [u \in Tickets |-> Candidate(u, o)]
<1>1. t \in {u \in Tickets : Eligible(cand[u])}
  BY DEF LaunchAfter, LaunchPlan
<1>2. Eligible(Candidate(t, o))
  BY <1>1
<1> QED
  BY <1>1, <1>2 DEF Eligible, Candidate

(* Every step keeps consent. *)
LEMMA ConsentStep == TypeOK /\ LaunchInv /\ ListInv /\ ConsentInv /\ [Next]_vars => ConsentInv'
<1> SUFFICES ASSUME TypeOK, LaunchInv, ListInv, ConsentInv, [Next]_vars PROVE ConsentInv'
  OBVIOUS
<1>1. CASE Observe \/ CancelsDone \/ ApplyKill \/ InterruptForFollowUps \/ SaveObservation
           \/ (\E r \in todo : ReconcileRun(r))
  <2>1. /\ UNCHANGED <<intents, membership>> /\ pc' # "launching"
        /\ pc' # "cancel"
    BY <1>1, Zenon DEF Observe, CancelsDone, ApplyKill, InterruptForFollowUps, SaveObservation, ReconcileRun, dbVars
  <2> QED
    BY <2>1, FrameConsent
<1>2. CASE ReRunInWorktree \/ ReRunByCutting \/ FollowUpOne \/ EndTick \/ Fault
  BY <1>2, FrameConsent
  DEF ReRunInWorktree, ReRunByCutting, FollowUpOne, VerbReady, EndTick, Fault, ResetTick, dbVars
<1>3. CASE LaunchEligible \/ UNCHANGED vars
  BY <1>3, FrameConsent DEF LaunchEligible, vars, dbVars, tickVars
<1>4. CASE Spawner
  <2>1. sp.stage # "none" /\ UNCHANGED <<pc, intents, membership>>
    BY <1>4 DEF Spawner, CutWorktree, CutFails, InsertRunSkeleton, Spawn, SpawnFails, RecordSpawn, dbVars
  <2>2. pc # "cancel" /\ todo' \subseteq todo
    BY <1>4, <2>1 DEF Spawner, CutWorktree, CutFails, InsertRunSkeleton, Spawn, SpawnFails, RecordSpawn,
       SpawnReturns, LaunchInv
  <2> QED
    BY <2>1, <2>2, FrameConsent
<1>5. CASE PlanLaunches
  <2>1. UNCHANGED <<intents, membership>> /\ pc' = "launching"
    BY <1>5 DEF PlanLaunches, dbVars
  <2>2. PICK o, paused : todo' \subseteq LaunchAfter(o, paused)
    BY <1>5 DEF PlanLaunches
  <2>3. \A t \in todo' : membership[t] = "active"
    BY <2>2, LaunchAfterActive
  <2>4. PendingIntents("launch")' = PendingIntents("launch") /\ \A t : Consented(t)' <=> Consented(t)
    BY <2>1 DEF PendingIntents, Consented, Applied
  <2> QED
    BY <2>1, <2>3, <2>4 DEF ConsentInv
<1>6. CASE Environment
  <2>1. UNCHANGED <<intents, membership, pc, todo, due>> \/ \E t \in Tickets, v \in Verb : Click(t, v)
    BY <1>6, Zenon DEF Environment, Commit, Exit, ReviewPR, dbVars, tickVars
  <2> QED
    BY <2>1, FrameConsent, ClickConsent
<1> QED
  BY <1>1, <1>2, <1>3, <1>4, <1>5, <1>6, ApplyLaunchConsent, CancelConsent, ConsumeConsent DEF Next, Loop

(* A launch starts a run only on a ticket whose last applied word is a     *)
(* launch, whatever is clicked while the tick runs.                        *)
THEOREM LaunchesHaveConsent == Spec => LaunchHasConsent
<1> DEFINE Step == \A r \in NewRuns : runs'[r].by = 0 =>
         \E i \in DOMAIN intents :
            /\ intents[i].ticket = runs'[r].ticket /\ intents[i].verb = "launch" /\ ~intents[i].pending
            /\ \A c \in DOMAIN intents :
                  (intents[c].ticket = runs'[r].ticket /\ intents[c].verb = "cancel" /\ ~intents[c].pending)
                     => c < i
<1>1. TypeOK /\ LaunchInv /\ ConsentInv /\ [Next]_vars => [Step]_vars
  <2> SUFFICES ASSUME TypeOK, LaunchInv, ConsentInv, [Next]_vars, NEW r \in NewRuns, runs'[r].by = 0
               PROVE  Consented(runs'[r].ticket)
    BY DEF Consented, Applied
  <2>1. CutFails \/ InsertRunSkeleton
    BY RunSteps DEF NewRuns, KeepsRuns
  <2>2. PICK outcome : sp.stage \in {"cut", "insert"} /\ runs' = Append(runs, NewRun(outcome))
    BY <2>1 DEF CutFails, InsertRunSkeleton
  <2>3. runs'[r].ticket = sp.ticket /\ sp.by = 0
    <3>1. runs \in Seq(Run) /\ Len(runs) \in Nat /\ DOMAIN runs = 1..Len(runs)
      BY LenProperties DEF TypeOK, DbOK
    <3> QED
      BY <2>2, <3>1 DEF NewRuns, NewRun
  <2>4. pc = "launching" /\ sp.ticket \in todo /\ sp.ticket \in Tickets
    BY <2>2, <2>3 DEF LaunchInv, TypeOK, SpawnOK
  <2> QED
    BY <2>3, <2>4 DEF ConsentInv
<1>2. Spec => []ConsentInv
  BY LoopInvariants, ConsentInit, ConsentStep, PTL DEF Spec
<1>3. [][Step]_vars => LaunchHasConsent
  BY PTL DEF LaunchHasConsent
<1> HIDE DEF Step
<1> QED
  BY <1>1, <1>2, <1>3, LoopInvariants, PTL DEF Spec

-----------------------------------------------------------------------------
(* A launch follows its blockers.                                          *)

(* A bounded non-empty set of naturals has a greatest element, and Max     *)
(* finds it.                                                               *)
LEMMA MaxInSet ==
    ASSUME NEW n \in Nat, NEW S \in SUBSET (1..n), S # {}
    PROVE  Max(S) \in S /\ \A y \in S : y <= Max(S)
<1> DEFINE Down == {n - x : x \in S}
<1>0. \A x \in S : x \in Nat /\ n - x \in Nat
  OBVIOUS
<1>1. Down \subseteq Nat /\ Down # {}
  BY <1>0
<1>2. Min(Down) \in Down /\ \A y \in Down : Min(Down) <= y
  <2> HIDE DEF Down
  <2> QED
    BY <1>1, MinInSet
<1>3. PICK x \in S : Min(Down) = n - x
  BY <1>2
<1>4. ASSUME NEW y \in S
      PROVE  x >= y
  <2>1. n - x <= n - y
    BY <1>2, <1>3
  <2> QED
    BY <2>1
<1>5. Max(S) \in S /\ \A y \in S : Max(S) >= y
  BY <1>4 DEF Max
<1>6. Max(S) \in Nat /\ \A y \in S : y \in Nat
  BY <1>0, <1>5, Zenon
<1> QED
  BY <1>5, <1>6

(* The latest run of a ticket is a run of it, and none is later. *)
LEMMA LatestRun ==
    ASSUME TypeOK, NEW t, HasRun(t)
    PROVE  /\ Max(RunsOf(t)) \in DOMAIN runs /\ runs[Max(RunsOf(t))].ticket = t
           /\ \A q \in RunsOf(t) : q <= Max(RunsOf(t))
           /\ Latest(t) = runs[Max(RunsOf(t))]
<1>1. Len(runs) \in Nat /\ RunsOf(t) \subseteq 1..Len(runs) /\ RunsOf(t) # {}
  BY LenProperties DEF TypeOK, DbOK, RunsOf, HasRun
<1>2. Max(RunsOf(t)) \in RunsOf(t) /\ \A q \in RunsOf(t) : q <= Max(RunsOf(t))
  BY <1>1, MaxInSet
<1>3. Max(RunsOf(t)) \in DOMAIN runs /\ runs[Max(RunsOf(t))].ticket = t
  BY <1>2 DEF RunsOf
<1> QED
  BY <1>2, <1>3 DEF Latest

(* With a branch each, the pull request found by branch is the ticket's. *)
LEMMA PrOfBranch ==
    ASSUME OwnBranches, NEW t \in Tickets, NEW prs
    PROVE  PrsByBranch(prs)[Branch[t]] = prs[t]
<1> DEFINE last == CHOOSE u \in Tickets : /\ Branch[u] = Branch[t]
                                          /\ \A w \in Tickets : Branch[w] = Branch[t] => w <= u
<1>1. \E u \in Tickets : Branch[u] = Branch[t] /\ \A w \in Tickets : Branch[w] = Branch[t] => w <= u
  BY TicketsAssumption DEF OwnBranches
<1>2. last = t
  BY <1>1 DEF OwnBranches
<1>3. Branch[t] \in Branches
  BY DEF Branches
<1>4. PrsByBranch(prs)[Branch[t]] = prs[last]
  BY <1>3 DEF PrsByBranch
<1> QED
  BY <1>2, <1>4

(* Unlocked waits for every blocker of the repository to have an open or   *)
(* merged pull request.                                                    *)
LEMMA UnlockedBlockers ==
    ASSUME NEW t \in Tickets, NEW prs, Unlocked(t, prs).unlocked, NEW b \in SameRepoBlockers(t),
           prs[Branch[b]] \in PRState
    PROVE  prs[Branch[b]] \in {"open", "merged"}
<1> DEFINE blockers == SameRepoBlockers(t)
<1>1. IsFiniteSet(blockers)
  BY TicketsAssumption, FS_Subset DEF SameRepoBlockers
<1>2. \A S, c : ~Locked(S, c).unlocked
  BY DEF Locked
<1>3. Untracked(t) = {}
  BY <1>2 DEF Unlocked
<1>4. Cardinality(blockers) \in Nat /\ Cardinality(blockers) # 0
  BY <1>1, FS_CardinalityType, FS_EmptySet
<1>5. CASE Cardinality(blockers) = 1
  <2>1. \E only : blockers = {only}
    BY <1>1, <1>5, FS_Singleton
  <2>2. Unlocked(t, prs) = UnlockedOnBlocker(CHOOSE y \in SameRepoBlockers(t) : TRUE, prs, Repo[t] \in Stacking)
    BY <1>3, <1>5 DEF Unlocked
  <2>3. PICK x : x = CHOOSE y \in SameRepoBlockers(t) : TRUE
    OBVIOUS
  <2>4. x = b
    BY <2>1, <2>3
  <2>5. Unlocked(t, prs) = UnlockedOnBlocker(x, prs, Repo[t] \in Stacking)
    BY <2>2, <2>3, Zenon
  <2>6. prs[Branch[x]] \in {"closed", "absent"} => ~UnlockedOnBlocker(x, prs, Repo[t] \in Stacking).unlocked
    BY DEF UnlockedOnBlocker, Locked
  <2> QED
    BY <2>4, <2>5, <2>6 DEF PRState
<1>6. CASE Cardinality(blockers) > 1
  <2>1. Unlocked(t, prs) = UnlockedOnBlockers(blockers, prs)
    BY <1>3, <1>4, <1>6 DEF Unlocked
  <2> QED
    BY <1>2, <2>1 DEF UnlockedOnBlockers
<1> QED
  BY <1>4, <1>5, <1>6

(* No run, no pull request at the start. *)
LEMMA BlockerInit == Init => BlockerInv
  BY DEF Init, BlockerInv, CommitInv, PrInv, ListedInv, LaunchFollowsBlocker, NoObs

(* Commits are never taken back, so a run that had one to push still has.  *)
LEMMA CommitStep == TypeOK /\ CommitInv /\ [Next]_vars => CommitInv'
<1> SUFFICES ASSUME TypeOK, CommitInv, [Next]_vars PROVE CommitInv'
  OBVIOUS
<1>1. CASE UNCHANGED <<runs, head>>
  BY <1>1 DEF CommitInv
<1>2. \A q \in DOMAIN runs : runs[q] \in Run
  BY RunRow DEF TypeOK
<1>3. ASSUME NEW r \in todo, ReconcileRun(r)
      PROVE  CommitInv'
  <2>1. r \in DOMAIN runs /\ UNCHANGED head
    BY <1>3 DEF ReconcileRun, TypeOK, TodoOK, repoVars
  <2>2. UNCHANGED runs \/ \E o : DisposeRun(r, o)
    BY <1>3, Zenon DEF ReconcileRun
  <2>3. ASSUME NEW o, DisposeRun(r, o)
        PROVE  CommitInv'
    <3>1. OutcomeFor(r, o) = "push" => head[runs[r].ticket] > runs[r].baseline
      BY DEF OutcomeFor
    <3>2. runs[r].baseline \in Nat /\ head[runs[r].ticket] \in Nat
      BY <1>2, <2>1 DEF Run, TypeOK, RepoOK
    <3>3. OutcomeFor(r, o) = "push" => head[runs[r].ticket] # 0
      BY <3>1, <3>2
    <3>4. /\ DOMAIN runs' = DOMAIN runs /\ runs'[r].ticket = runs[r].ticket
          /\ runs'[r].outcome = OutcomeFor(r, o) /\ \A q \in DOMAIN runs \ {r} : runs'[q] = runs[q]
      BY <1>2, <2>1, <2>3 DEF DisposeRun, RecordDisposition, Run
    <3> QED
      BY <2>1, <3>3, <3>4 DEF CommitInv
  <2> QED
    BY <1>1, <2>1, <2>2, <2>3
<1>4. CASE CutFails \/ InsertRunSkeleton
  <2>1. PICK outcome \in {"none", "cut_failed"} : runs' = Append(runs, NewRun(outcome)) /\ UNCHANGED head
    BY <1>4 DEF CutFails, InsertRunSkeleton, repoVars
  <2>2. runs \in Seq(Run) /\ Len(runs) \in Nat /\ DOMAIN runs = 1..Len(runs)
    BY LenProperties DEF TypeOK, DbOK
  <2> QED
    BY <2>1, <2>2 DEF CommitInv, NewRun
<1>5. CASE SpawnFails \/ RecordSpawn
  <2>1. sp.run \in DOMAIN runs /\ UNCHANGED head
    BY <1>5 DEF SpawnFails, RecordSpawn, TypeOK, SpawnOK, repoVars
  <2>2. \/ runs' = [runs EXCEPT ![sp.run].outcome = "failed"]
        \/ runs' = [runs EXCEPT ![sp.run].pgid = TRUE]
    BY <1>5 DEF SpawnFails, RecordSpawn, RecordDisposition
  <2>3. \A q \in DOMAIN runs' :
           /\ q \in DOMAIN runs /\ runs'[q].ticket = runs[q].ticket
           /\ runs'[q].outcome = "push" => runs[q].outcome = "push"
    BY <1>2, <2>1, <2>2 DEF Run
  <2> QED
    BY <2>1, <2>3 DEF CommitInv
<1>6. CASE Environment
  <2>1. UNCHANGED runs /\ (UNCHANGED head \/ \E r \in live : Commit(r))
    BY <1>6, Zenon DEF Environment, Click, Exit, ReviewPR, dbVars, repoVars, Commit
  <2>2. ASSUME NEW r \in live, Commit(r)
        PROVE  \A t \in Tickets : head[t] # 0 => head'[t] # 0
    <3>1. runs[r].ticket \in Tickets /\ head \in [Tickets -> Nat]
      BY <1>2 DEF TypeOK, ProcOK, RepoOK, Run
    <3> QED
      BY <2>2, <3>1 DEF Commit
  <2>3. \A q \in DOMAIN runs : runs[q].ticket \in Tickets
    BY <1>2 DEF Run
  <2> QED
    BY <2>1, <2>2, <2>3 DEF CommitInv
<1> QED
  BY <1>1, <1>3, <1>4, <1>5, <1>6
  DEF Next, Loop, Fault, Observe, ApplyLaunchIntents, ApplyCancel, CancelsDone, ApplyKill,
      InterruptForFollowUps, SaveObservation, ReRunInWorktree, ReRunByCutting, FollowUpOne,
      ConsumeVerbIntent, PlanLaunches, LaunchEligible, Spawner, CutWorktree, Spawn, EndTick, vars, dbVars, repoVars

(* What pushPushable ships has a commit, and a pull request is opened only *)
(* for what it ships.                                                      *)
LEMMA PushBlocker ==
    ASSUME TypeOK, CommitInv, PlanLaunches
    PROVE  \A t \in Tickets : /\ pushed[t] # 0 => pushed'[t] # 0
                              /\ pr'[t] # "absent" => pr[t] # "absent" \/ pushed'[t] # 0
<1>1. PICK done \in SUBSET Pushable(MarkSpawnedAlive(obs)) :
         /\ pr' = [t \in Tickets |->
                      IF t \in done /\ MarkSpawnedAlive(obs).pr[t] # "open" THEN "open" ELSE pr[t]]
         /\ pushed' = [t \in Tickets |-> IF t \in done THEN head[t] ELSE pushed[t]]
  BY DEF PlanLaunches, PushPushable
<1>2. ASSUME NEW t \in done
      PROVE  head[t] # 0
  <2>1. HasRun(t) /\ Latest(t).outcome = "push"
    BY DEF Pushable
  <2> QED
    BY <2>1, LatestRun DEF CommitInv
<1> QED
  BY <1>1, <1>2

(* Nothing but pushPushable writes what was pushed, and a reviewer only    *)
(* closes or merges a pull request that is there.                          *)
LEMMA PushedStays ==
    ASSUME TypeOK, CommitInv, [Next]_vars
    PROVE  \A t \in Tickets : /\ pushed[t] # 0 => pushed'[t] # 0
                              /\ pr'[t] # "absent" => pr[t] # "absent" \/ pushed'[t] # 0
<1>1. CASE UNCHANGED <<pr, pushed>>
  BY <1>1
<1>2. CASE \E r \in todo : ReconcileRun(r)
  BY <1>1, <1>2 DEF ReconcileRun, repoVars
<1>3. CASE Environment
  <2>1. UNCHANGED <<pr, pushed>> \/ \E t \in Tickets : ReviewPR(t)
    BY <1>3, Zenon DEF Environment, Click, Commit, Exit, repoVars
  <2>2. ASSUME NEW t \in Tickets, ReviewPR(t)
        PROVE  UNCHANGED pushed /\ \A u \in Tickets : pr'[u] # "absent" => pr[u] # "absent"
    BY <2>2 DEF ReviewPR, TypeOK, RepoOK
  <2> QED
    BY <1>1, <2>1, <2>2
<1> QED
  BY <1>1, <1>2, <1>3, PushBlocker
  DEF Next, Loop, Fault, Observe, ApplyLaunchIntents, ApplyCancel, CancelsDone, ApplyKill,
      InterruptForFollowUps, SaveObservation, ReRunInWorktree, ReRunByCutting, FollowUpOne,
      ConsumeVerbIntent, LaunchEligible, Spawner, CutWorktree, CutFails, InsertRunSkeleton, Spawn,
      SpawnFails, RecordSpawn, EndTick, vars, repoVars

(* A pull request is observed where there is one or one was saved. *)
LEMMA ObservedPrs ==
    ASSUME TypeOK, [Next]_vars, NEW t \in Tickets
    PROVE  /\ obs'.pr[t] # "absent" => \/ obs.pr[t] # "absent"
                                       \/ saved.pr[t] # "absent" \/ pr[t] # "absent"
           /\ saved'.pr[t] # "absent" => saved.pr[t] # "absent" \/ obs.pr[t] # "absent"
<1>1. CASE UNCHANGED <<obs, saved>>
  BY <1>1
<1>2. CASE UNCHANGED saved /\ obs' = NoObs
  BY <1>2 DEF NoObs
<1>3. CASE UNCHANGED saved /\ obs'.pr = obs.pr
  BY <1>3
<1>4. CASE Observe
  <2>1. PICK bad \in BOOLEAN : obs'.pr = ReadRepo(bad).pr
    BY <1>4 DEF Observe
  <2>2. obs'.pr = saved.pr \/ obs'.pr = pr
    BY <2>1 DEF ReadRepo
  <2> QED
    BY <1>4, <2>2 DEF Observe, dbVars
<1>5. CASE SaveObservation
  BY <1>5 DEF SaveObservation
<1>6. ASSUME NEW r \in todo, ReconcileRun(r)
      PROVE  UNCHANGED saved /\ obs'.pr = obs.pr
  <2>1. obs \in Obs
    BY DEF TypeOK, TickOK
  <2> QED
    BY <1>6, <2>1 DEF ReconcileRun, Obs
<1>7. CASE PlanLaunches \/ RecordSpawn
  <2>1. obs \in Obs
    BY DEF TypeOK, TickOK
  <2>2. UNCHANGED saved /\ obs'.pr = obs.pr
    BY <1>7, <2>1 DEF PlanLaunches, RecordSpawn, MarkSpawnedAlive, dbVars, Obs
  <2> QED
    BY <1>3, <2>2
<1>8. CASE ReRunByCutting \/ EndTick \/ Fault
  BY <1>1, <1>2, <1>8 DEF ReRunByCutting, EndTick, Fault, ResetTick, dbVars
<1>9. CASE Environment \/ UNCHANGED vars
  <2>1. UNCHANGED <<obs, saved>>
    BY <1>9, Zenon DEF Environment, Click, Commit, Exit, ReviewPR, dbVars, tickVars, vars
  <2> QED
    BY <1>1, <2>1
<1> QED
  BY <1>1, <1>3, <1>4, <1>5, <1>6, <1>7, <1>8, <1>9
  DEF Next, Loop, ApplyLaunchIntents, ApplyCancel, CancelsDone, ApplyKill,
      InterruptForFollowUps, ReRunInWorktree, FollowUpOne, ConsumeVerbIntent, LaunchEligible, Spawner,
      CutWorktree, CutFails, InsertRunSkeleton, Spawn, SpawnFails, dbVars

(* A ticket is listed for launch when its blockers have pull requests. *)
LEMMA ListedStep ==
    ASSUME OwnBranches, TypeOK, LaunchInv, CommitInv, PrInv, ListedInv, [Next]_vars
    PROVE  ListedInv'
<1>1. \A t \in Tickets : pushed[t] # 0 => pushed'[t] # 0
  BY PushedStays
<1>2. \A t : SameRepoBlockers(t) \subseteq Tickets
  BY DEF SameRepoBlockers
<1>3. CASE pc' # "launching"
  BY <1>3 DEF ListedInv
<1>4. CASE pc = "launching" /\ todo' \subseteq todo
  BY <1>1, <1>2, <1>4 DEF ListedInv
<1>5. CASE PlanLaunches
  <2>1. PICK o, paused : o = MarkSpawnedAlive(obs) /\ todo' \subseteq LaunchAfter(o, paused)
    BY <1>5 DEF PlanLaunches
  <2>2. o.pr = obs.pr /\ obs.pr \in [Tickets -> PRState]
    BY <2>1 DEF MarkSpawnedAlive, TypeOK, TickOK, Obs
  <2>3. ASSUME NEW t \in todo', NEW b \in SameRepoBlockers(t)
        PROVE  pushed'[b] # 0
    <3>1. t \in Tickets /\ Unlocked(t, PrsByBranch(o.pr)).unlocked /\ b \in Tickets
      BY <1>2, <2>1, <2>3, LaunchAfterActive
    <3>2. PrsByBranch(o.pr)[Branch[b]] = o.pr[b]
      BY <3>1, PrOfBranch
    <3>3. PrsByBranch(o.pr)[Branch[b]] \in {"open", "merged"}
      BY <2>2, <3>1, <3>2, UnlockedBlockers
    <3>4. obs.pr[b] # "absent"
      BY <2>2, <3>2, <3>3
    <3> QED
      BY <1>1, <3>1, <3>4 DEF PrInv
  <2> QED
    BY <2>3 DEF ListedInv
<1>6. CASE LaunchEligible \/ UNCHANGED vars
  BY <1>3, <1>4, <1>6 DEF LaunchEligible, vars, tickVars
<1>7. CASE Spawner
  <2>1. UNCHANGED pc /\ todo' \subseteq todo
    BY <1>7 DEF Spawner, CutWorktree, CutFails, InsertRunSkeleton, Spawn, SpawnFails, RecordSpawn,
       SpawnReturns
  <2> QED
    BY <1>3, <1>4, <2>1
<1>8. CASE ConsumeVerbIntent
  BY <1>3, <1>8 DEF ConsumeVerbIntent, LaunchInv
<1>9. CASE Environment
  <2>1. UNCHANGED <<pc, todo>>
    BY <1>9, Zenon DEF Environment, Click, Commit, Exit, ReviewPR, tickVars
  <2> QED
    BY <1>3, <1>4, <2>1
<1>10. CASE \E r \in todo : ReconcileRun(r)
  BY <1>3, <1>10 DEF ReconcileRun
<1> QED
  BY <1>3, <1>5, <1>6, <1>7, <1>8, <1>9, <1>10
  DEF Next, Loop, Fault, Observe, ApplyLaunchIntents, ApplyCancel, CancelsDone, ApplyKill,
      InterruptForFollowUps, SaveObservation, ReRunInWorktree, ReRunByCutting, FollowUpOne, VerbReady,
      EndTick, ResetTick

(* A run that no verb asked for is of a listed ticket. *)
LEMMA FollowsStep ==
    ASSUME TypeOK, LaunchInv, CommitInv, ListedInv, LaunchFollowsBlocker, [Next]_vars
    PROVE  LaunchFollowsBlocker'
<1>1. \A t \in Tickets : pushed[t] # 0 => pushed'[t] # 0
  BY PushedStays
<1>2. \A t : SameRepoBlockers(t) \subseteq Tickets
  BY DEF SameRepoBlockers
<1>3. CASE KeepsRuns
  BY <1>1, <1>2, <1>3 DEF KeepsRuns, LaunchFollowsBlocker
<1>4. CASE CutFails \/ InsertRunSkeleton
  <2>1. PICK outcome : sp.stage \in {"cut", "insert"} /\ runs' = Append(runs, NewRun(outcome))
    BY <1>4 DEF CutFails, InsertRunSkeleton
  <2>2. runs \in Seq(Run) /\ Len(runs) \in Nat /\ DOMAIN runs = 1..Len(runs)
    BY LenProperties DEF TypeOK, DbOK
  <2>3. ASSUME NEW r \in DOMAIN runs', runs'[r].by = 0
        PROVE  \/ r \in DOMAIN runs /\ runs'[r] = runs[r]
               \/ runs'[r].ticket = sp.ticket /\ sp.by = 0
    BY <2>1, <2>2, <2>3 DEF NewRun
  <2>4. sp.by = 0 => \A b \in SameRepoBlockers(sp.ticket) : pushed[b] # 0
    BY <2>1 DEF LaunchInv, ListedInv
  <2> QED
    BY <1>1, <1>2, <2>3, <2>4 DEF LaunchFollowsBlocker
<1> QED
  BY <1>3, <1>4, RunSteps

(* A stacked ticket is launched only after its blockers were pushed, when  *)
(* every ticket has a branch of its own.                                   *)
THEOREM LaunchesFollowBlockers ==
    ASSUME OwnBranches
    PROVE  Spec => []LaunchFollowsBlocker
<1>1. TypeOK /\ LaunchInv /\ BlockerInv /\ [Next]_vars => BlockerInv'
  <2> SUFFICES ASSUME TypeOK, LaunchInv, BlockerInv, [Next]_vars PROVE BlockerInv'
    OBVIOUS
  <2>1. PrInv'
    BY PushedStays, ObservedPrs DEF BlockerInv, PrInv
  <2> QED
    BY <2>1, CommitStep, ListedStep, FollowsStep DEF BlockerInv
<1>2. BlockerInv => LaunchFollowsBlocker
  BY DEF BlockerInv
<1> QED
  BY <1>1, <1>2, BlockerInit, LoopInvariants, PTL DEF Spec

-----------------------------------------------------------------------------
(* A resuming ticket has its message.                                      *)

(* No worktree is lost: a re-run deletes only a branch without one. *)
LEMMA TreesStay ==
    ASSUME TypeOK, [Next]_vars, NEW t \in Tickets, tree[t] = "worktree"
    PROVE  tree'[t] = "worktree"
<1>1. tree \in [Tickets -> {"none", "branch", "worktree"}]
  BY DEF TypeOK, RepoOK
<1>2. CASE UNCHANGED tree
  BY <1>2
<1>3. CASE ReRunByCutting
  <2>1. \/ UNCHANGED tree
        \/ tree[intents[NextVerbIntent].ticket] # "worktree" /\ tree' = [tree EXCEPT ![intents[NextVerbIntent].ticket] = "none"]
    BY <1>3 DEF ReRunByCutting
  <2> QED
    BY <1>1, <2>1
<1>4. CASE CutWorktree \/ CutFails
  <2>1. UNCHANGED tree \/ (tree[sp.ticket] = "none" /\ \E x : tree' = [tree EXCEPT ![sp.ticket] = x])
    BY <1>4 DEF CutWorktree, CutFails
  <2> QED
    BY <1>1, <2>1
<1>5. CASE \E r \in todo : ReconcileRun(r)
  BY <1>5 DEF ReconcileRun, repoVars
<1>6. CASE Environment
  BY <1>6, Zenon DEF Environment, Click, Commit, Exit, ReviewPR, repoVars
<1> QED
  BY <1>2, <1>3, <1>4, <1>5, <1>6
  DEF Next, Loop, Fault, Observe, ApplyLaunchIntents, ApplyCancel, CancelsDone, ApplyKill,
      InterruptForFollowUps, SaveObservation, ReRunInWorktree, FollowUpOne, ConsumeVerbIntent, PlanLaunches,
      LaunchEligible, Spawner, InsertRunSkeleton, Spawn, SpawnFails, RecordSpawn, EndTick, vars, repoVars

(* No worktree, no run at the start. *)
LEMMA WorktreeInit == Init => WorktreeInv /\ ReservedInv /\ MessageInv
  BY DEF Init, WorktreeInv, ReservedInv, MessageInv, NoObs, NoSpawn, HasRun, RunsOf

(* A step that observes nothing new, spawns nothing and writes no run. *)
LEMMA FrameWorktree ==
    ASSUME TypeOK, TypeOK', WorktreeInv, [Next]_vars, UNCHANGED runs,
           obs'.wt \subseteq obs.wt, saved'.wt \subseteq saved.wt \cup obs.wt,
           sp'.stage \in {"insert", "spawn", "record"} => tree'[sp'.ticket] = "worktree",
           pc' \in {"launch", "cancel", "kill", "reconcile"} =>
              obs'.wt = obs.wt /\ pc \in {"launch", "cancel", "kill", "reconcile"},
           pc' = "verbs" => obs'.wt = obs.wt /\ pc \in {"verbs", "reconcile"}
    PROVE  WorktreeInv'
<1>1. \A t \in Tickets : tree[t] = "worktree" => tree'[t] = "worktree"
  BY TreesStay
<1>2. \A t \in obs'.wt \cup saved'.wt : t \in Tickets
  BY DEF TypeOK, TickOK, DbOK, Obs
<1>3. \A r \in DOMAIN runs : runs[r].ticket \in Tickets
  BY RunRow DEF TypeOK, Run
<1>4. pc' = "verbs" => \A r \in DOMAIN runs : runs[r].outcome = "continued" => runs[r].ticket \in obs.wt
  BY DEF WorktreeInv
<1>5. \A t \in obs'.wt \cup saved'.wt : tree'[t] = "worktree"
  BY <1>1, <1>2 DEF WorktreeInv
<1>6. \A r \in DOMAIN runs : runs[r].pgid => tree'[runs[r].ticket] = "worktree"
  BY <1>1, <1>3 DEF WorktreeInv
<1>7. pc' \in {"launch", "cancel", "kill", "reconcile"} =>
          \A r \in DOMAIN runs : runs[r].pgid => runs[r].ticket \in obs'.wt
  BY DEF WorktreeInv
<1> QED
  BY <1>4, <1>5, <1>6, <1>7 DEF WorktreeInv

(* observe lists every worktree, when its reads succeed. *)
LEMMA ObserveWorktree ==
    ASSUME "read" \notin FaultKinds, TypeOK, WorktreeInv, Observe
    PROVE  WorktreeInv'
<1>1. obs'.wt = {t \in Tickets : tree[t] = "worktree"}
  <2>1. PICK bad \in BOOLEAN : (bad => "read" \in FaultKinds) /\ obs'.wt = ReadRepo(bad).wt
    BY DEF Observe
  <2> QED
    BY <2>1 DEF ReadRepo
<1>2. UNCHANGED <<runs, saved, tree, sp>> /\ pc' = "launch"
  BY DEF Observe, dbVars, repoVars
<1>3. \A r \in DOMAIN runs : runs[r].ticket \in Tickets
  BY RunRow DEF TypeOK, Run
<1> QED
  BY <1>1, <1>2, <1>3 DEF WorktreeInv

(* A run that is disposed of had an agent, in an observed worktree. *)
LEMMA ReconcileWorktree ==
    ASSUME TypeOK, LaunchInv, LedgerInv, WorktreeInv, NEW r \in todo, ReconcileRun(r)
    PROVE  WorktreeInv'
<1>1. r \in DOMAIN runs /\ runs[r].pgid /\ pc = "reconcile" /\ sp.stage = "none"
  BY DEF ReconcileRun, LedgerInv, PendingRuns, LaunchInv
<1>2. UNCHANGED <<pc, saved, tree, sp>>
  BY DEF ReconcileRun, repoVars
<1>3. obs'.wt = obs.wt
  BY DEF ReconcileRun, TypeOK, TickOK, Obs
<1>4. UNCHANGED runs \/ \E o : DisposeRun(r, o)
  BY Zenon DEF ReconcileRun
<1>5. \A q \in DOMAIN runs : runs[q] \in Run
  BY RunRow DEF TypeOK
<1>6. DOMAIN runs' = DOMAIN runs
      /\ \A q \in DOMAIN runs : /\ runs'[q].ticket = runs[q].ticket /\ runs'[q].pgid = runs[q].pgid
                                /\ q # r => runs'[q].outcome = runs[q].outcome
  BY <1>1, <1>4, <1>5 DEF DisposeRun, RecordDisposition, Run
<1> QED
  BY <1>1, <1>2, <1>3, <1>6 DEF WorktreeInv

(* A new run is the last row, of the ticket being spawned and without an   *)
(* agent.                                                                  *)
LEMMA InsertedRun ==
    ASSUME TypeOK, NEW outcome, runs' = Append(runs, NewRun(outcome)), NEW n, n = Len(runs) + 1
    PROVE  /\ DOMAIN runs' = DOMAIN runs \cup {n} /\ n \notin DOMAIN runs /\ Len(runs') = n
           /\ \A r \in DOMAIN runs : runs'[r] = runs[r] /\ r < n
           /\ runs'[n].ticket = sp.ticket /\ ~runs'[n].pgid /\ runs'[n].outcome = outcome
           /\ runs'[n].by = sp.by
<1>1. runs \in Seq(Run) /\ Len(runs) \in Nat /\ DOMAIN runs = 1..Len(runs)
  BY LenProperties DEF TypeOK, DbOK
<1>2. /\ DOMAIN runs' = 1..n /\ Len(runs') = n /\ runs'[n] = NewRun(outcome)
      /\ \A r \in DOMAIN runs : runs'[r] = runs[r]
  BY <1>1
<1> QED
  BY <1>1, <1>2 DEF NewRun

(* A spawn that goes on keeps its worktree, and a recorded agent is in it. *)
LEMMA SpawnerWorktree ==
    ASSUME TypeOK, TypeOK', LaunchInv, WorktreeInv, ReservedInv, [Next]_vars, Spawner
    PROVE  WorktreeInv'
<1>1. /\ sp.stage # "none" /\ UNCHANGED <<pc, saved>> /\ sp.ticket \in Tickets
      /\ pc \in {"verbs", "launching"}
  BY DEF Spawner, CutWorktree, CutFails, InsertRunSkeleton, Spawn, SpawnFails, RecordSpawn, dbVars,
     LaunchInv, TypeOK, SpawnOK
<1>2. obs'.wt = obs.wt
  BY DEF Spawner, CutWorktree, CutFails, InsertRunSkeleton, Spawn, SpawnFails, RecordSpawn, TypeOK,
     TickOK, Obs
<1>3. \A t \in Tickets : tree[t] = "worktree" => tree'[t] = "worktree"
  BY TreesStay
<1>4. sp'.stage \in {"insert", "spawn", "record"} => tree'[sp'.ticket] = "worktree"
  <2>1. CASE CutWorktree
    BY <1>1, <2>1 DEF CutWorktree, TypeOK, SpawnOK, RepoOK
  <2>2. CASE InsertRunSkeleton \/ Spawn
    <3>1. sp'.ticket = sp.ticket /\ sp.stage \in {"insert", "spawn"}
      BY <2>2 DEF InsertRunSkeleton, Spawn, TypeOK, SpawnOK
    <3> QED
      BY <1>1, <1>3, <3>1 DEF WorktreeInv
  <2>3. CASE SpawnReturns
    BY <2>3 DEF SpawnReturns, NoSpawn
  <2> QED
    BY <2>1, <2>2, <2>3 DEF Spawner, CutFails, SpawnFails, RecordSpawn
<1>5. \A q \in DOMAIN runs : runs[q] \in Run
  BY RunRow DEF TypeOK
<1>6. \A r \in DOMAIN runs' :
         /\ runs'[r].outcome = "continued" => /\ r \in DOMAIN runs /\ runs[r].outcome = "continued"
                                              /\ runs'[r].ticket = runs[r].ticket /\ runs'[r].pgid = runs[r].pgid
         /\ runs'[r].pgid => \/ r \in DOMAIN runs /\ runs[r].pgid /\ runs'[r].ticket = runs[r].ticket
                             \/ runs'[r].ticket = sp.ticket /\ sp.stage = "record"
  <2>1. CASE UNCHANGED runs
    BY <2>1
  <2>2. CASE CutFails \/ InsertRunSkeleton
    <3>1. PICK outcome \in {"none", "cut_failed"} : runs' = Append(runs, NewRun(outcome))
      BY <2>2 DEF CutFails, InsertRunSkeleton
    <3>2. PICK n : n = Len(runs) + 1
      OBVIOUS
    <3> QED
      BY <3>1, <3>2, InsertedRun
  <2>3. CASE SpawnFails
    <3>1. sp.run \in DOMAIN runs /\ runs' = [runs EXCEPT ![sp.run].outcome = "failed"]
      BY <2>3 DEF SpawnFails, RecordDisposition, TypeOK, SpawnOK
    <3> QED
      BY <1>5, <3>1 DEF Run
  <2>4. CASE RecordSpawn
    <3>1. /\ sp.run \in DOMAIN runs /\ runs' = [runs EXCEPT ![sp.run].pgid = TRUE]
          /\ runs[sp.run].ticket = sp.ticket /\ sp.stage = "record"
      BY <2>4 DEF RecordSpawn, TypeOK, SpawnOK, ReservedInv
    <3>2. runs[sp.run].outcome # "continued" \/ runs[sp.run].pgid
      BY <3>1 DEF WorktreeInv
    <3>3. runs[sp.run] \in Run
      BY <1>5, <3>1
    <3> QED
      BY <1>5, <3>1, <3>2, <3>3 DEF Run
  <2> QED
    BY <2>1, <2>2, <2>3, <2>4 DEF Spawner, CutWorktree, Spawn, dbVars
<1>7. \A r \in DOMAIN runs : runs[r].ticket \in Tickets
  BY <1>5 DEF Run
<1>8. \A t \in obs'.wt \cup saved'.wt : tree'[t] = "worktree"
  <2>1. obs.wt \cup saved.wt \subseteq Tickets
    BY DEF TypeOK, TickOK, DbOK, Obs
  <2> QED
    BY <1>1, <1>2, <1>3, <2>1 DEF WorktreeInv
<1>9. \A r \in DOMAIN runs' : runs'[r].pgid => tree'[runs'[r].ticket] = "worktree"
  BY <1>1, <1>3, <1>6, <1>7 DEF WorktreeInv
<1>10. \A r \in DOMAIN runs' : runs'[r].outcome = "continued" => runs'[r].pgid
  BY <1>6 DEF WorktreeInv
<1>11. pc = "verbs" => \A r \in DOMAIN runs' : runs'[r].outcome = "continued" => runs'[r].ticket \in obs.wt
  BY <1>6 DEF WorktreeInv
<1> QED
  BY <1>1, <1>2, <1>4, <1>8, <1>9, <1>10, <1>11 DEF WorktreeInv

(* Every step keeps the worktrees, when no read fails. *)
LEMMA WorktreeStep ==
    ASSUME "read" \notin FaultKinds, TypeOK, TypeOK', LaunchInv, LedgerInv, WorktreeInv, ReservedInv,
           [Next]_vars
    PROVE  WorktreeInv'
<1>1. \A t \in Tickets : tree[t] = "worktree" => tree'[t] = "worktree"
  BY TreesStay
<1>2. sp.stage \in {"insert", "spawn", "record"} => tree'[sp.ticket] = "worktree"
  BY <1>1 DEF WorktreeInv, TypeOK, SpawnOK
<1>3. CASE /\ UNCHANGED <<runs, saved, obs, sp>>
           /\ pc' \in {"launch", "cancel", "kill", "reconcile"} => pc \in {"launch", "cancel", "kill", "reconcile"}
           /\ pc' = "verbs" => pc = "verbs"
  BY <1>2, <1>3, FrameWorktree
<1>4. CASE ApplyLaunchIntents \/ ApplyCancel \/ CancelsDone \/ ApplyKill \/ InterruptForFollowUps
  BY <1>3, <1>4
  DEF ApplyLaunchIntents, ApplyCancel, CancelsDone, ApplyKill, InterruptForFollowUps, dbVars
<1>5. CASE SaveObservation
  BY <1>2, <1>5, FrameWorktree DEF SaveObservation
<1>6. CASE ReRunInWorktree \/ FollowUpOne
  <2>1. UNCHANGED <<runs, saved, obs, pc>> /\ pc = "verbs"
    BY <1>6 DEF ReRunInWorktree, FollowUpOne, VerbReady, dbVars
  <2>2. sp'.stage \in {"insert", "spawn", "record"} => tree'[sp'.ticket] = "worktree"
    <3>1. \/ UNCHANGED sp
          \/ \E kind, i : sp' = Spawning("insert", intents[NextVerbIntent].ticket, kind, i)
                          /\ intents[NextVerbIntent].ticket \in obs.wt
      BY <1>6 DEF ReRunInWorktree, FollowUpOne
    <3>2. \A t \in obs.wt : t \in Tickets /\ tree[t] = "worktree"
      BY DEF WorktreeInv, TypeOK, TickOK, Obs
    <3> QED
      BY <1>1, <1>2, <3>1, <3>2 DEF Spawning
  <2> QED
    BY <2>1, <2>2, FrameWorktree
<1>7. CASE ReRunByCutting
  <2>1. CASE ResetTick
    BY <1>7, <2>1, FrameWorktree DEF ReRunByCutting, ResetTick, NoSpawn, NoObs, dbVars
  <2>2. CASE /\ sp' = Spawning("cut", intents[NextVerbIntent].ticket, "agent", NextVerbIntent)
             /\ UNCHANGED <<pc, obs>>
    BY <1>7, <2>2, FrameWorktree DEF ReRunByCutting, VerbReady, Spawning, dbVars
  <2> QED
    BY <1>7, <2>1, <2>2 DEF ReRunByCutting
<1>8. CASE PlanLaunches
  <2>1. UNCHANGED <<runs, saved, sp>> /\ pc' = "launching"
    BY <1>8 DEF PlanLaunches, dbVars
  <2>2. obs'.wt = obs.wt
    BY <1>8 DEF PlanLaunches, MarkSpawnedAlive, TypeOK, TickOK, Obs
  <2> QED
    BY <1>2, <2>1, <2>2, FrameWorktree
<1>9. CASE LaunchEligible
  BY <1>9, FrameWorktree DEF LaunchEligible, Spawning, dbVars
<1>10. CASE EndTick \/ Fault
  BY <1>10, FrameWorktree DEF EndTick, Fault, ResetTick, NoSpawn, NoObs, dbVars
<1>11. CASE ConsumeVerbIntent \/ UNCHANGED vars
  BY <1>3, <1>11 DEF ConsumeVerbIntent, vars, dbVars, tickVars
<1>12. CASE Environment
  <2>1. UNCHANGED <<runs, saved, obs, sp, pc>>
    BY <1>12, Zenon DEF Environment, Click, Commit, Exit, ReviewPR, dbVars, tickVars
  <2> QED
    BY <1>3, <2>1
<1> QED
  BY <1>4, <1>5, <1>6, <1>7, <1>8, <1>9, <1>10, <1>11, <1>12, ObserveWorktree, ReconcileWorktree,
     SpawnerWorktree DEF Next, Loop

(* Rows are reserved one at a time, and no other row appears meanwhile. *)
LEMMA ReservedStep == TypeOK /\ LaunchInv /\ ReservedInv /\ [Next]_vars => ReservedInv'
<1> SUFFICES ASSUME TypeOK, LaunchInv, ReservedInv, [Next]_vars PROVE ReservedInv'
  OBVIOUS
<1>1. CASE sp'.stage \notin {"spawn", "record"}
  BY <1>1 DEF ReservedInv
<1>2. CASE UNCHANGED <<sp, runs>>
  BY <1>2 DEF ReservedInv
<1>3. CASE InsertRunSkeleton
  <2>1. PICK n : n = Len(runs) + 1
    OBVIOUS
  <2>2. sp'.run = n /\ sp'.ticket = sp.ticket /\ runs' = Append(runs, NewRun("none"))
    BY <1>3, <2>1 DEF InsertRunSkeleton, TypeOK, SpawnOK
  <2>3. Len(runs') = n /\ runs'[n].ticket = sp.ticket
    BY <2>1, <2>2, InsertedRun
  <2> QED
    BY <2>2, <2>3 DEF ReservedInv
<1>4. CASE Spawn
  <2>1. sp'.run = sp.run /\ sp'.ticket = sp.ticket /\ UNCHANGED runs /\ sp.stage = "spawn"
    BY <1>4 DEF Spawn, TypeOK, SpawnOK, dbVars
  <2> QED
    BY <2>1 DEF ReservedInv
<1>5. CASE CutWorktree
  <2>1. sp'.stage = "insert"
    BY <1>5 DEF CutWorktree, TypeOK, SpawnOK
  <2> QED
    BY <1>1, <2>1
<1>6. CASE CutFails \/ SpawnFails \/ RecordSpawn
  BY <1>1, <1>6 DEF CutFails, SpawnFails, RecordSpawn, SpawnReturns, NoSpawn
<1>7. CASE \E r \in todo : ReconcileRun(r)
  BY <1>1, <1>7 DEF ReconcileRun, LaunchInv
<1>8. CASE ReRunInWorktree \/ ReRunByCutting \/ FollowUpOne \/ LaunchEligible \/ EndTick \/ Fault
  <2>1. sp'.stage \notin {"spawn", "record"}
    BY <1>8 DEF ReRunInWorktree, ReRunByCutting, FollowUpOne, VerbReady, LaunchEligible, EndTick, Fault,
       ResetTick, Spawning, NoSpawn
  <2> QED
    BY <1>1, <2>1
<1>9. CASE Environment \/ UNCHANGED vars
  <2>1. UNCHANGED <<sp, runs>>
    BY <1>9, Zenon DEF Environment, Click, Commit, Exit, ReviewPR, dbVars, tickVars, vars
  <2> QED
    BY <1>2, <2>1
<1> QED
  BY <1>2, <1>3, <1>4, <1>5, <1>6, <1>7, <1>8, <1>9
  DEF Next, Loop, Spawner, Observe, ApplyLaunchIntents, ApplyCancel, CancelsDone, ApplyKill,
      InterruptForFollowUps, SaveObservation, ConsumeVerbIntent, PlanLaunches, dbVars

(* With the same rows, a ticket has the same latest run. *)
LEMMA SameLatest ==
    ASSUME SameRows, NEW t
    PROVE  (HasRun(t)' <=> HasRun(t)) /\ Latest(t)' = runs'[Max(RunsOf(t))]
<1>1. RunsOf(t)' = RunsOf(t) /\ (HasRun(t)' <=> HasRun(t))
  BY SameRowsHasRun
<1>2. Latest(t)' = runs'[Max(RunsOf(t)')]
  BY DEF Latest
<1> QED
  BY <1>1, <1>2, Zenon

(* A step that continues no run and leaves the messages that wait. *)
LEMMA FrameMessage ==
    ASSUME TypeOK, MessageInv, SameRows,
           \A r \in DOMAIN runs : runs'[r].outcome = "continued" => runs[r].outcome = "continued",
           \A i \in PendingIntents("follow-up") :
              i # due /\ HasRun(intents[i].ticket) /\ Latest(intents[i].ticket).outcome = "continued" =>
                 /\ i \in PendingIntents("follow-up")' /\ intents'[i].ticket = intents[i].ticket
                 /\ i # due'
    PROVE  MessageInv'
<1> SUFFICES ASSUME NEW t \in Tickets, HasRun(t)', Latest(t)'.outcome = "continued"
             PROVE  \E i \in PendingIntents("follow-up")' : intents'[i].ticket = t /\ i # due'
  BY DEF MessageInv
<1>1. HasRun(t) /\ Latest(t)' = runs'[Max(RunsOf(t))]
  BY SameLatest
<1>2. Max(RunsOf(t)) \in DOMAIN runs /\ Latest(t) = runs[Max(RunsOf(t))]
  BY <1>1, LatestRun
<1>3. Latest(t).outcome = "continued"
  BY <1>1, <1>2
<1>4. PICK i \in PendingIntents("follow-up") : intents[i].ticket = t /\ i # due
  BY <1>1, <1>3 DEF MessageInv
<1> QED
  BY <1>1, <1>3, <1>4

(* A new run is the latest of its ticket, and of no other. *)
LEMMA InsertedLatest ==
    ASSUME TypeOK, NEW outcome, runs' = Append(runs, NewRun(outcome)), NEW t
    PROVE  /\ t = sp.ticket => Latest(t)'.outcome = outcome
           /\ t # sp.ticket => (HasRun(t)' <=> HasRun(t)) /\ (HasRun(t) => Latest(t)' = Latest(t))
<1>1. PICK n : n = Len(runs) + 1
  OBVIOUS
<1>2. /\ DOMAIN runs' = DOMAIN runs \cup {n} /\ n \notin DOMAIN runs
      /\ \A r \in DOMAIN runs : runs'[r] = runs[r] /\ r < n
      /\ runs'[n].ticket = sp.ticket /\ runs'[n].outcome = outcome
  BY <1>1, InsertedRun
<1>3. Latest(t)' = runs'[Max(RunsOf(t)')]
  BY DEF Latest
<1>4. CASE t = sp.ticket
  <2>1. n \in RunsOf(t)' /\ RunsOf(t)' \subseteq 1..n /\ n \in Nat
    BY <1>1, <1>2, <1>4, LenProperties DEF RunsOf, TypeOK, DbOK
  <2>2. \A S : S \subseteq 1..n /\ n \in S => Max(S) = n
    <3> SUFFICES ASSUME NEW S \in SUBSET (1..n), n \in S PROVE Max(S) = n
      OBVIOUS
    <3>1. Max(S) \in S /\ \A y \in S : y <= Max(S)
      BY <2>1, MaxInSet
    <3>2. Max(S) \in 1..n /\ n <= Max(S)
      BY <3>1
    <3> QED
      BY <2>1, <3>2
  <2>3. Max(RunsOf(t)') = n
    BY <2>1, <2>2, Zenon
  <2> QED
    BY <1>2, <1>3, <1>4, <2>3
<1>5. CASE t # sp.ticket
  <2>1. RunsOf(t)' = RunsOf(t)
    BY <1>2, <1>5 DEF RunsOf
  <2>2. HasRun(t)' <=> HasRun(t)
    BY <2>1 DEF HasRun
  <2>3. HasRun(t) => Max(RunsOf(t)) \in DOMAIN runs /\ Latest(t) = runs[Max(RunsOf(t))]
    BY LatestRun
  <2>4. Latest(t)' = runs'[Max(RunsOf(t))]
    BY <1>3, <2>1, Zenon
  <2> QED
    BY <1>2, <1>5, <2>2, <2>3, <2>4
<1> QED
  BY <1>4, <1>5

(* A message that waits is consumed only once it is acted on. *)
LEMMA FollowUpsWait ==
    ASSUME TypeOK, [Next]_vars, NEW i \in PendingIntents("follow-up"), i # due
    PROVE  i \in PendingIntents("follow-up")' /\ intents'[i].ticket = intents[i].ticket
<1>1. i \in DOMAIN intents /\ intents[i].pending /\ intents[i].verb = "follow-up"
  BY DEF PendingIntents
<1>2. ASSUME NEW t \in Tickets, NEW v \in Verb, Click(t, v)
      PROVE  i \in DOMAIN intents' /\ intents'[i] = intents[i]
  <2>1. PICK n : n = Len(intents) + 1
    OBVIOUS
  <2> QED
    BY <1>1, <1>2, <2>1, ClickAdds
<1>3. CASE ApplyLaunchIntents
  BY <1>1, <1>3, LaunchesClaimed DEF PendingIntents
<1>4. CASE ConsumeVerbIntent
  BY <1>1, <1>4, DueConsumed DEF PendingIntents
<1>5. CASE UNCHANGED intents
  BY <1>1, <1>5 DEF PendingIntents
<1> QED
  BY <1>1, <1>2, <1>3, <1>4, <1>5, IntentSteps DEF PendingIntents

(* A run is continued while a message for its ticket waits. *)
LEMMA ReconcileMessage ==
    ASSUME TypeOK, LaunchInv, MessageInv, [Next]_vars, NEW r \in todo, ReconcileRun(r)
    PROVE  MessageInv'
<1>1. /\ pc = "reconcile" /\ due = 0 /\ due' = 0 /\ UNCHANGED intents /\ r \in DOMAIN runs
      /\ DOMAIN intents = 1..Len(intents) /\ Len(intents) \in Nat
  BY LenProperties DEF ReconcileRun, LaunchInv, TypeOK, TodoOK, DbOK
<1>2. CASE UNCHANGED runs
  BY <1>1, <1>2, FrameMessage, UnchangedRows DEF PendingIntents
<1>3. ASSUME NEW o, DisposeRun(r, o)
      PROVE  MessageInv'
  <2>1. runs' = [runs EXCEPT ![r].outcome = OutcomeFor(r, o)]
    BY <1>3 DEF DisposeRun, RecordDisposition
  <2>2. SameRows
    BY <1>1, <2>1, UpdatedRows DEF TypeOK
  <2>3. /\ \A q \in DOMAIN runs \ {r} : runs'[q] = runs[q]
        /\ runs'[r].outcome = OutcomeFor(r, o)
    BY <1>1, <2>1, RunRow DEF TypeOK, Run
  <2>4. OutcomeFor(r, o) = "continued" => FollowUpQueued(runs[r].ticket)
    BY DEF OutcomeFor
  <2>5. SUFFICES ASSUME NEW t \in Tickets, HasRun(t)', Latest(t)'.outcome = "continued"
                 PROVE  \E i \in PendingIntents("follow-up")' : intents'[i].ticket = t /\ i # due'
    BY DEF MessageInv
  <2>6. HasRun(t) /\ Latest(t)' = runs'[Max(RunsOf(t))]
    BY <2>2, <2>5, SameLatest
  <2>7. /\ Max(RunsOf(t)) \in DOMAIN runs /\ Latest(t) = runs[Max(RunsOf(t))]
        /\ runs[Max(RunsOf(t))].ticket = t
    BY <2>6, LatestRun
  <2>8. PICK i \in PendingIntents("follow-up") : intents[i].ticket = t
    <3>1. CASE Max(RunsOf(t)) = r
      BY <2>3, <2>4, <2>5, <2>6, <2>7, <3>1 DEF FollowUpQueued
    <3>2. CASE Max(RunsOf(t)) # r
      BY <2>3, <2>5, <2>6, <2>7, <3>2 DEF MessageInv
    <3> QED
      BY <3>1, <3>2
  <2> QED
    BY <1>1, <2>8 DEF PendingIntents
<1> QED
  BY <1>2, <1>3, Zenon DEF ReconcileRun

(* The message a spawn was for is consumed when its ticket has a newer run.*)
LEMMA SpawnerMessage ==
    ASSUME TypeOK, LaunchInv, LedgerInv, ListInv, ReservedInv, MessageInv, [Next]_vars, Spawner
    PROVE  MessageInv'
<1>1. /\ sp.stage # "none" /\ due = 0 /\ sp.ticket \in Tickets /\ UNCHANGED intents
      /\ due' \in {0, sp.by} /\ (sp.by # 0 => intents[sp.by].ticket = sp.ticket)
  BY DEF Spawner, CutWorktree, CutFails, InsertRunSkeleton, Spawn, SpawnFails, RecordSpawn, SpawnReturns,
     ListInv, TypeOK, SpawnOK, dbVars
<1>2. \A i \in PendingIntents("follow-up") :
         /\ i # 0 /\ i \in PendingIntents("follow-up")' /\ intents'[i].ticket = intents[i].ticket
         /\ intents[i].ticket # sp.ticket => i # due'
  BY <1>1, LenProperties DEF PendingIntents, TypeOK, DbOK
<1>3. CASE CutWorktree \/ Spawn
  <2>1. UNCHANGED runs /\ due' = 0
    BY <1>1, <1>3 DEF CutWorktree, Spawn, dbVars
  <2> QED
    BY <1>2, <2>1, FrameMessage, UnchangedRows
<1>4. CASE CutFails \/ InsertRunSkeleton
  <2>1. PICK outcome \in {"none", "cut_failed"} : runs' = Append(runs, NewRun(outcome))
    BY <1>4 DEF CutFails, InsertRunSkeleton
  <2>2. SUFFICES ASSUME NEW t \in Tickets, HasRun(t)', Latest(t)'.outcome = "continued"
                 PROVE  \E i \in PendingIntents("follow-up")' : intents'[i].ticket = t /\ i # due'
    BY DEF MessageInv
  <2>3. t # sp.ticket /\ HasRun(t) /\ Latest(t).outcome = "continued"
    BY <2>1, <2>2, InsertedLatest
  <2>4. PICK i \in PendingIntents("follow-up") : intents[i].ticket = t
    BY <2>3 DEF MessageInv
  <2> QED
    BY <1>2, <2>3, <2>4
<1>5. CASE SpawnFails \/ RecordSpawn
  <2>1. /\ sp.run \in DOMAIN runs /\ runs[sp.run].outcome = "none" /\ sp.run = Len(runs)
        /\ runs[sp.run].ticket = sp.ticket
    BY <1>5 DEF SpawnFails, RecordSpawn, LedgerInv, ReservedInv, TypeOK, SpawnOK
  <2>2. \/ runs' = [runs EXCEPT ![sp.run].outcome = "failed"]
        \/ runs' = [runs EXCEPT ![sp.run].pgid = TRUE]
    BY <1>5 DEF SpawnFails, RecordSpawn, RecordDisposition
  <2>3. SameRows
    BY <2>1, <2>2, UpdatedRows DEF TypeOK
  <2>4. \A r \in DOMAIN runs : runs'[r].outcome = "continued" => runs[r].outcome = "continued"
    BY <2>1, <2>2, RunRow DEF TypeOK, Run
  <2>5. HasRun(sp.ticket) /\ Latest(sp.ticket).outcome # "continued"
    <3>1. sp.run \in RunsOf(sp.ticket)
      BY <2>1 DEF RunsOf
    <3>2. HasRun(sp.ticket)
      BY <3>1 DEF HasRun
    <3>3. /\ Max(RunsOf(sp.ticket)) \in DOMAIN runs /\ sp.run <= Max(RunsOf(sp.ticket))
          /\ Latest(sp.ticket) = runs[Max(RunsOf(sp.ticket))]
      BY <3>1, <3>2, LatestRun
    <3>4. Max(RunsOf(sp.ticket)) = sp.run
      BY <2>1, <3>3, LenProperties DEF TypeOK, DbOK
    <3> QED
      BY <2>1, <3>2, <3>3, <3>4
  <2> QED
    BY <1>2, <2>3, <2>4, <2>5, FrameMessage
<1> QED
  BY <1>3, <1>4, <1>5 DEF Spawner

(* Every step keeps the messages, when no read fails. *)
LEMMA MessageStep ==
    ASSUME TypeOK, LaunchInv, LedgerInv, ListInv, WorktreeInv, ReservedInv, MessageInv, [Next]_vars
    PROVE  MessageInv'
<1>1. \A i \in PendingIntents("follow-up") : i # due =>
         i \in PendingIntents("follow-up")' /\ intents'[i].ticket = intents[i].ticket
  BY FollowUpsWait
<1>2. \A i \in PendingIntents("follow-up") : i # 0
  BY LenProperties DEF PendingIntents, TypeOK, DbOK
<1>3. CASE UNCHANGED runs /\ due' \in {due, 0}
  BY <1>1, <1>2, <1>3, FrameMessage, UnchangedRows
<1>4. CASE ApplyCancel \/ ApplyKill
  <2>1. UNCHANGED runs /\ due' = Min(todo) /\ pc \in {"cancel", "kill"} /\ todo # {}
    BY <1>4 DEF ApplyCancel, ApplyKill, dbVars
  <2>2. due' \in todo
    BY <2>1, HeadOfList
  <2>3. \A i \in PendingIntents("follow-up") : i # due'
    BY <2>1, <2>2 DEF ListInv, PendingIntents
  <2> QED
    BY <1>1, <2>1, <2>3, FrameMessage, UnchangedRows
<1>5. CASE FollowUpOne
  <2>1. CASE due' = due
    BY <1>3, <1>5, <2>1 DEF FollowUpOne, dbVars
  <2>2. CASE due' = NextVerbIntent /\ intents[NextVerbIntent].ticket \notin obs.wt
    <3>1. UNCHANGED runs /\ pc = "verbs"
      BY <1>5 DEF FollowUpOne, VerbReady, dbVars
    <3>2. \A t : HasRun(t) /\ Latest(t).outcome = "continued" => t \in obs.wt
      BY <3>1, LatestRun DEF WorktreeInv
    <3>3. \A i \in PendingIntents("follow-up") :
             HasRun(intents[i].ticket) /\ Latest(intents[i].ticket).outcome = "continued" => i # due'
      BY <2>2, <3>2
    <3> QED
      BY <1>1, <3>1, <3>3, FrameMessage, UnchangedRows
  <2> QED
    BY <1>5, <2>1, <2>2 DEF FollowUpOne
<1>6. CASE Environment \/ UNCHANGED vars
  <2>1. UNCHANGED <<runs, due>>
    BY <1>6, Zenon DEF Environment, Click, Commit, Exit, ReviewPR, dbVars, tickVars, vars
  <2> QED
    BY <1>3, <2>1
<1>7. CASE ReRunByCutting \/ EndTick \/ Fault
  BY <1>3, <1>7 DEF ReRunByCutting, EndTick, Fault, ResetTick, dbVars
<1> QED
  BY <1>3, <1>4, <1>5, <1>6, <1>7, SpawnerMessage, ReconcileMessage
  DEF Next, Loop, Observe, ApplyLaunchIntents, CancelsDone, InterruptForFollowUps, SaveObservation,
      ReRunInWorktree, ConsumeVerbIntent, PlanLaunches, LaunchEligible, dbVars

(* A ticket shown as resuming with the owner's message still has that      *)
(* message, whatever crashes, fails or is clicked, as long as no fetch or  *)
(* gh read fails: a failed read carries a worktree list forward that may   *)
(* miss the worktree, and followUpOne then refuses the message.            *)
THEOREM ResumingHasMessage ==
    ASSUME "read" \notin FaultKinds
    PROVE  Spec => []ContinuedHasMessage
<1> DEFINE Inv == WorktreeInv /\ ReservedInv /\ MessageInv
<1>1. TypeOK /\ LaunchInv /\ LedgerInv /\ ListInv /\ Inv /\ [Next]_vars /\ TypeOK' => Inv'
  BY WorktreeStep, ReservedStep, MessageStep
<1>2. Inv => ContinuedHasMessage
  BY DEF MessageInv, ContinuedHasMessage, PendingIntents
<1>3. Init => Inv
  BY WorktreeInit
<1> HIDE DEF Inv
<1> QED
  BY <1>1, <1>2, <1>3, LoopInvariants, PTL DEF Spec

-----------------------------------------------------------------------------
(* Commits are not a failure.                                              *)

(* A recorded run gets its outcome from reconcileRuns, in no other way.    *)
LEMMA OutcomeSteps ==
    ASSUME TypeOK, LedgerInv, [Next]_vars, NEW r \in PendingRuns, runs'[r].outcome # "none"
    PROVE  r \in todo /\ ReconcileRun(r)
<1>1. r \in DOMAIN runs /\ runs[r].pgid /\ runs[r].outcome = "none"
  BY DEF PendingRuns
<1>2. \A q \in DOMAIN runs : runs[q] \in Run
  BY RunRow DEF TypeOK
<1>3. ~UNCHANGED runs
  BY <1>1
<1>4. ASSUME NEW q \in todo, ReconcileRun(q) PROVE q = r
  <2>1. UNCHANGED runs \/ \E o : DisposeRun(q, o)
    BY <1>4, Zenon DEF ReconcileRun
  <2>2. q \in DOMAIN runs
    BY <1>4 DEF ReconcileRun, TypeOK, TodoOK
  <2>3. PICK o : runs' = [runs EXCEPT ![q].outcome = o]
    BY <1>3, <2>1 DEF DisposeRun, RecordDisposition
  <2>4. q # r => runs'[r] = runs[r]
    BY <1>1, <2>2, <2>3
  <2> QED
    BY <1>1, <2>4
<1>5. ~CutFails /\ ~InsertRunSkeleton
  <2> SUFFICES ASSUME CutFails \/ InsertRunSkeleton PROVE FALSE
    OBVIOUS
  <2>1. PICK outcome : runs' = Append(runs, NewRun(outcome))
    BY DEF CutFails, InsertRunSkeleton
  <2>2. PICK n : n = Len(runs) + 1
    OBVIOUS
  <2>3. runs'[r] = runs[r]
    BY <1>1, <2>1, <2>2, InsertedRun
  <2> QED
    BY <1>1, <2>3
<1>6. ~SpawnFails /\ ~RecordSpawn
  <2> SUFFICES ASSUME SpawnFails \/ RecordSpawn PROVE FALSE
    OBVIOUS
  <2>1. sp.run \in DOMAIN runs /\ ~runs[sp.run].pgid
    BY DEF SpawnFails, RecordSpawn, TypeOK, SpawnOK, LedgerInv
  <2>2. PICK o : runs' = [runs EXCEPT ![sp.run].outcome = o] \/ runs' = [runs EXCEPT ![sp.run].pgid = o]
    BY DEF SpawnFails, RecordSpawn, RecordDisposition
  <2>3. sp.run # r
    BY <1>1, <2>1
  <2>4. runs'[r] = runs[r]
    BY <1>1, <2>1, <2>2, <2>3
  <2> QED
    BY <1>1, <2>4
<1>7. ~Environment /\ ~UNCHANGED vars
  BY <1>3, Zenon DEF Environment, Click, Commit, Exit, ReviewPR, dbVars, vars
<1> QED
  BY <1>3, <1>4, <1>5, <1>6, <1>7
  DEF Next, Loop, Fault, Observe, ApplyLaunchIntents, ApplyCancel, CancelsDone, ApplyKill,
      InterruptForFollowUps, SaveObservation, ReRunInWorktree, ReRunByCutting, FollowUpOne,
      ConsumeVerbIntent, PlanLaunches, LaunchEligible, Spawner, CutWorktree, Spawn, EndTick, dbVars

(* A run disposed of as failed left no commits: the tick has observed its  *)
(* worktree.                                                               *)
LEMMA FailedHasNoCommits ==
    ASSUME TypeOK, LedgerInv, WorktreeInv, NEW r \in todo, ReconcileRun(r),
           runs'[r].outcome = "failed", runs[r].outcome = "none"
    PROVE  head[runs[r].ticket] <= runs[r].baseline
<1>1. r \in DOMAIN runs /\ runs[r].pgid /\ pc = "reconcile"
  BY DEF ReconcileRun, LedgerInv, PendingRuns
<1>2. runs[r].ticket \in obs.wt
  BY <1>1 DEF WorktreeInv
<1>3. \E o : o.wt = obs.wt /\ DisposeRun(r, o)
  <2>1. obs \in Obs
    BY DEF TypeOK, TickOK
  <2>2. ASSUME NEW a PROVE [obs EXCEPT !.run[runs[r].ticket] = "dead", !.asked = a].wt = obs.wt
    BY <2>1 DEF Obs
  <2>3. ~UNCHANGED runs
    OBVIOUS
  <2>4. \/ DisposeRun(r, obs)
        \/ DisposeRun(r, [obs EXCEPT !.run[runs[r].ticket] = "dead",
                                     !.asked = IF r \in asked THEN @ \cup {r} ELSE @])
    BY <2>3, Zenon DEF ReconcileRun
  <2> QED
    BY <2>2, <2>4, Zenon
<1>4. PICK o : o.wt = obs.wt /\ DisposeRun(r, o)
  BY <1>3
<1>5. OutcomeFor(r, o) = "failed"
  <2>1. runs' = [runs EXCEPT ![r].outcome = OutcomeFor(r, o)]
    BY <1>4, Zenon DEF DisposeRun, RecordDisposition
  <2>2. runs[r] \in Run
    BY <1>1, RunRow DEF TypeOK
  <2>3. ASSUME NEW x, runs' = [runs EXCEPT ![r].outcome = x] PROVE runs'[r].outcome = x
    BY <1>1, <2>2, <2>3 DEF Run
  <2> QED
    BY <2>1, <2>3, Zenon
<1>6. ~(head[runs[r].ticket] > runs[r].baseline)
  BY <1>2, <1>4, <1>5 DEF OutcomeFor
<1>7. head[runs[r].ticket] \in Nat /\ runs[r].baseline \in Nat
  BY <1>1, RunRow DEF TypeOK, RepoOK, Run
<1> QED
  BY <1>6, <1>7

(* A run that left commits is never recorded as failed when it is disposed *)
(* of (outcomeFor), whatever crashes, fails or is clicked, as long as no   *)
(* fetch or gh read fails: a failed read carries a worktree list forward   *)
(* that may miss the worktree, which is the disagreement the artifacts run *)
(* shows.                                                                  *)
THEOREM DispositionFromCommits ==
    ASSUME "read" \notin FaultKinds
    PROVE  Spec => CommitsAreNotFailure
<1> DEFINE Inv == WorktreeInv /\ ReservedInv
           Step == \A r \in DOMAIN runs :
                     runs[r].pgid /\ runs[r].outcome = "none" /\ runs'[r].outcome = "failed"
                     => head[runs[r].ticket] <= runs[r].baseline
<1>1. TypeOK /\ LaunchInv /\ LedgerInv /\ Inv /\ [Next]_vars /\ TypeOK' => Inv'
  BY WorktreeStep, ReservedStep
<1>2. TypeOK /\ LedgerInv /\ Inv /\ [Next]_vars => [Step]_vars
  <2> SUFFICES ASSUME TypeOK, LedgerInv, WorktreeInv, [Next]_vars, NEW r \in DOMAIN runs,
                      runs[r].pgid, runs[r].outcome = "none", runs'[r].outcome = "failed"
               PROVE  head[runs[r].ticket] <= runs[r].baseline
    BY Zenon
  <2>1. r \in PendingRuns
    BY DEF PendingRuns
  <2>2. r \in todo /\ ReconcileRun(r)
    BY <2>1, OutcomeSteps
  <2> QED
    BY <2>2, FailedHasNoCommits
<1>3. Init => Inv
  BY WorktreeInit
<1>4. [][Step]_vars => CommitsAreNotFailure
  BY PTL DEF CommitsAreNotFailure
<1> HIDE DEF Inv, Step
<1> QED
  BY <1>1, <1>2, <1>3, <1>4, LoopInvariants, PTL DEF Spec
=============================================================================
