---------------------------- MODULE FleetProofs ----------------------------
(***************************************************************************)
(* The agents that run, for any number of tickets and clicks.              *)
(*                                                                         *)
(* One agent works in a worktree, and only a dead run is disposed of, when *)
(* the owner waits for a click to be applied before clicking the ticket    *)
(* again, no ticket is stacked on another, and nothing fails but tp and    *)
(* the spawn itself.  Each of the three is needed: a second click, a       *)
(* blocker closed under a running ticket, or a crash between the click's   *)
(* effect and its consumption starts a second agent.                       *)
(*                                                                         *)
(* A launch fits under max_agents, whatever fails and is clicked.          *)
(***************************************************************************)
EXTENDS VerbProofs

-----------------------------------------------------------------------------
(* The hypotheses and the invariants.                                      *)

(* The owner waits, no ticket is stacked, only external tools fail. *)
Calm ==
    /\ Patient
    /\ \A t \in Tickets : SameRepoBlockers(t) = {}
    /\ FaultKinds \subseteq {"tool"}

(* Every run of the ticket has its outcome. *)
Settled(t) == \A r \in DOMAIN runs : runs[r].ticket = t => runs[r].outcome # "none"

(* A ticket has at most one click that waits. *)
OneClick ==
    \A i, j \in DOMAIN intents :
        intents[i].pending /\ intents[j].pending /\ intents[i].ticket = intents[j].ticket => i = j

(* Only the latest run of a ticket may be without an outcome. *)
LatestOpen ==
    \A r, q \in DOMAIN runs : runs[r].ticket = runs[q].ticket /\ r < q => runs[r].outcome # "none"

(* A spawn begins on a settled ticket. *)
SpawnSettled == sp.stage \in {"cut", "insert"} => Settled(sp.ticket)

(* A re-run that waits is for a ticket that has run and is settled. *)
ReRunSettled ==
    \A i \in PendingIntents("re-run") :
        HasRun(intents[i].ticket) /\ (~Spent(i) => Settled(intents[i].ticket))

(* A run with neither process nor outcome is being spawned. *)
ReservedOnly ==
    \A r \in DOMAIN runs : runs[r].outcome = "none" /\ ~runs[r].pgid =>
        sp.stage \in {"spawn", "record"} /\ sp.run = r

SettledInv == LatestOpen /\ SpawnSettled /\ ReRunSettled /\ ReservedOnly

(* What the tick observed as dead is dead. *)
DeadSeen ==
    pc \in {"launch", "cancel", "kill", "reconcile"} =>
        \A r \in PendingRuns : obs.run[runs[r].ticket] = "dead" => r \notin live

(* What was visited and is still pending is alive. *)
VisitedAlive == pc = "reconcile" => \A r \in PendingRuns \ todo : obs.run[runs[r].ticket] = "alive"

(* A verb that finds its ticket not alive finds it settled. *)
VerbSettled ==
    pc = "verbs" => \A i \in todo : ~Spent(i) /\ obs.run[intents[i].ticket] # "alive" =>
        Settled(intents[i].ticket)

SeenInv == DeadSeen /\ VisitedAlive /\ VerbSettled

(* A live run has no outcome, and a row not yet spawned is not live. *)
LiveInv == NoLiveDisposed /\ (sp.stage = "spawn" => sp.run \notin live)

FleetInv == OneClick /\ SettledInv /\ SeenInv /\ LiveInv

-----------------------------------------------------------------------------
(* Runs and clicks.                                                        *)

(* No run, no click at the start. *)
LEMMA FleetInit == Init => FleetInv
  BY DEF Init, FleetInv, OneClick, SettledInv, LatestOpen, SpawnSettled, ReRunSettled, ReservedOnly, SeenInv,
     DeadSeen, VisitedAlive, VerbSettled, LiveInv, NoLiveDisposed,
     NoSpawn, PendingIntents, PendingRuns

(* When only tools fail, no tick is cut short. *)
LEMMA NoFaultSteps == Calm => ~Fault
  BY DEF Calm, Fault

(* An owner who waits clicks a ticket only once. *)
LEMMA OneClickStep == Calm /\ TypeOK /\ OneClick /\ [Next]_vars => OneClick'
<1> SUFFICES ASSUME Calm, TypeOK, OneClick, [Next]_vars PROVE OneClick'
  OBVIOUS
<1>1. ASSUME NEW t \in Tickets, NEW v \in Verb, Click(t, v)
      PROVE  OneClick'
  <2>1. PICK n : n = Len(intents) + 1
    OBVIOUS
  <2>2. /\ \A i \in DOMAIN intents' : i \in DOMAIN intents \/ i = n
        /\ \A i \in DOMAIN intents : intents'[i] = intents[i]
        /\ intents'[n].ticket = t
    BY <1>1, <2>1, ClickAdds
  <2>3. \A i \in DOMAIN intents : ~(intents[i].pending /\ intents[i].ticket = t)
    BY <1>1 DEF Click, Calm
  <2> QED
    BY <2>2, <2>3 DEF OneClick
<1>2. CASE DOMAIN intents' = DOMAIN intents
  BY <1>2, IntentsKept DEF KeepsIntents, OneClick
<1> QED
  BY <1>1, <1>2, IntentSteps, LaunchesClaimed, DueConsumed

(* Every run keeps its ticket, its process and its outcome. *)
LEMMA RunsKept ==
    ASSUME TypeOK, [Next]_vars, NEW r \in DOMAIN runs
    PROVE  /\ r \in DOMAIN runs' /\ runs'[r].ticket = runs[r].ticket
           /\ runs'[r].outcome = "none" => runs[r].outcome = "none"
           /\ runs[r].pgid => runs'[r].pgid
<1>1. CASE UNCHANGED runs
  BY <1>1
<1>2. \A q \in DOMAIN runs : runs[q] \in Run
  BY RunRow DEF TypeOK
<1>3. ASSUME NEW q \in todo, ReconcileRun(q)
      PROVE  /\ r \in DOMAIN runs' /\ runs'[r].ticket = runs[r].ticket
             /\ runs'[r].outcome = "none" => runs[r].outcome = "none"
             /\ runs[r].pgid => runs'[r].pgid
  <2>1. UNCHANGED runs \/ \E o : DisposeRun(q, o)
    BY <1>3, Zenon DEF ReconcileRun
  <2>2. q \in DOMAIN runs
    BY <1>3 DEF ReconcileRun, TypeOK, TodoOK
  <2>3. ASSUME NEW o, DisposeRun(q, o)
        PROVE  /\ r \in DOMAIN runs' /\ runs'[r].ticket = runs[r].ticket
               /\ runs'[r].outcome = "none" => runs[r].outcome = "none"
               /\ runs[r].pgid => runs'[r].pgid
    BY <1>2, <2>2, <2>3 DEF DisposeRun, RecordDisposition, Run
  <2> QED
    BY <2>1, <2>3
<1>4. CASE CutFails \/ InsertRunSkeleton
  <2>1. PICK outcome : runs' = Append(runs, NewRun(outcome))
    BY <1>4 DEF CutFails, InsertRunSkeleton
  <2>2. PICK n : n = Len(runs) + 1
    OBVIOUS
  <2> QED
    BY <2>1, <2>2, InsertedRun
<1>5. CASE SpawnFails \/ RecordSpawn
  <2>1. sp.run \in DOMAIN runs
    BY <1>5 DEF SpawnFails, RecordSpawn, TypeOK, SpawnOK
  <2>2. CASE SpawnFails
    BY <1>2, <2>1, <2>2 DEF SpawnFails, RecordDisposition, Run
  <2>3. CASE RecordSpawn
    BY <1>2, <2>1, <2>3 DEF RecordSpawn, Run
  <2> QED
    BY <1>5, <2>2, <2>3
<1>6. CASE Environment \/ UNCHANGED vars
  <2>1. UNCHANGED runs
    BY <1>6, Zenon DEF Environment, Click, Commit, Exit, ReviewPR, dbVars, vars
  <2> QED
    BY <1>1, <2>1
<1> QED
  BY <1>1, <1>3, <1>4, <1>5, <1>6
  DEF Next, Loop, Fault, Observe, ApplyLaunchIntents, ApplyCancel, CancelsDone, ApplyKill,
      InterruptForFollowUps, SaveObservation, ReRunInWorktree, ReRunByCutting, FollowUpOne,
      ConsumeVerbIntent, PlanLaunches, LaunchEligible, Spawner, CutWorktree, Spawn, EndTick, dbVars

(* Where no run is inserted, a settled ticket stays settled. *)
LEMMA SettledKept ==
    ASSUME TypeOK, [Next]_vars, NEW t, Settled(t), DOMAIN runs' = DOMAIN runs
    PROVE  Settled(t)'
  BY RunsKept DEF Settled

(* A new run unsettles no ticket but its own. *)
LEMMA SettledOther ==
    ASSUME TypeOK, NEW outcome, runs' = Append(runs, NewRun(outcome)), NEW t, Settled(t),
           t # sp.ticket \/ outcome # "none"
    PROVE  Settled(t)'
<1>1. PICK n : n = Len(runs) + 1
  OBVIOUS
<1>2. /\ DOMAIN runs' = DOMAIN runs \cup {n} /\ \A r \in DOMAIN runs : runs'[r] = runs[r]
      /\ runs'[n].ticket = sp.ticket /\ runs'[n].outcome = outcome
  BY <1>1, InsertedRun
<1> QED
  BY <1>2 DEF Settled

(* Without stacks no blocker is closed under a ticket. *)
LEMMA NothingGone ==
    ASSUME Calm, NEW t \in Tickets, NEW prs
    PROVE  ~Unlocked(t, prs).blockerClosed
<1>1. Cardinality(SameRepoBlockers(t)) = 0
  BY FS_EmptySet DEF Calm
<1>2. CASE Untracked(t) # {}
  BY <1>2 DEF Unlocked, Locked
<1>3. CASE Untracked(t) = {}
  <2>1. Unlocked(t, prs) = UnlockedOnto(DefaultBaseBranch)
    BY <1>1, <1>3 DEF Unlocked
  <2> QED
    BY <2>1 DEF UnlockedOnto
<1> QED
  BY <1>2, <1>3

(* A re-run is offered only on a ticket whose latest run has an outcome. *)
LEMMA ReRunOffered ==
    ASSUME Calm, TypeOK, NEW t \in Tickets, Offers(t, "re-run")
    PROVE  HasRun(t) /\ Latest(t).outcome # "none"
<1> SUFFICES ASSUME ~HasRun(t) \/ Latest(t).outcome = "none" PROVE FALSE
  OBVIOUS
<1>1. ~Unlocked(t, PrsByBranch(saved.pr)).blockerClosed
  BY NothingGone
<1>2. membership[t] \in {"none", "active", "cancelled"}
  BY DEF TypeOK, DbOK
<1>3. Status(t, saved) \in {"merged", "running", "cancelled", "queued", "ready", "blocked"}
  BY <1>1, <1>2 DEF Status
<1>4. \A s \in {"merged", "running", "cancelled", "queued", "ready", "blocked"} : "re-run" \notin Verbs(s)
  BY DEF Verbs
<1> QED
  BY <1>3, <1>4 DEF Offers

-----------------------------------------------------------------------------
(* Settled tickets.                                                        *)

(* A new run is the latest, and its ticket was settled. *)
LEMMA LatestOpenStep ==
    ASSUME TypeOK, LatestOpen, SpawnSettled, [Next]_vars
    PROVE  LatestOpen'
<1>1. CASE KeepsRuns
  <2>1. \A r \in DOMAIN runs' : /\ r \in DOMAIN runs /\ runs'[r].ticket = runs[r].ticket
                                /\ runs'[r].outcome = "none" => runs[r].outcome = "none"
    BY <1>1, RunsKept DEF KeepsRuns
  <2> QED
    BY <2>1 DEF LatestOpen
<1>2. CASE CutFails \/ InsertRunSkeleton
  <2>1. PICK outcome : runs' = Append(runs, NewRun(outcome)) /\ sp.stage \in {"cut", "insert"}
    BY <1>2 DEF CutFails, InsertRunSkeleton
  <2>2. PICK n : n = Len(runs) + 1
    OBVIOUS
  <2>3. /\ DOMAIN runs' = DOMAIN runs \cup {n} /\ \A r \in DOMAIN runs : runs'[r] = runs[r] /\ r < n
        /\ runs'[n].ticket = sp.ticket
    BY <2>1, <2>2, InsertedRun
  <2>4. DOMAIN runs \subseteq Nat /\ n \in Nat
    BY <2>2, LenProperties DEF TypeOK, DbOK
  <2>5. \A r \in DOMAIN runs : ~(n < r)
    BY <2>3, <2>4
  <2>6. Settled(sp.ticket)
    BY <2>1 DEF SpawnSettled
  <2>7. ~(n < n)
    BY <2>4
  <2> QED
    BY <2>3, <2>5, <2>6, <2>7 DEF LatestOpen, Settled
<1> QED
  BY <1>1, <1>2, RunSteps

(* A verb that is ready has not been acted on. *)
LEMMA ReadyUnspent ==
    ASSUME TypeOK, ListInv, NEW v, VerbReady(v)
    PROVE  /\ NextVerbIntent \in todo /\ ~Spent(NextVerbIntent) /\ NextVerbIntent \in PendingIntents(v)
           /\ pc = "verbs"
<1>1. NextVerbIntent \in todo /\ NextVerbIntent \in DOMAIN intents /\ NextVerbIntent # 0
  BY NextVerbIntentTypes
<1>2. pc = "verbs" /\ due = 0 /\ sp.stage = "none" /\ intents[NextVerbIntent].verb = v
  BY DEF VerbReady, NoSpawn
<1>3. intents[NextVerbIntent].pending
  BY <1>1, <1>2 DEF ListInv, PendingIntents
<1> QED
  BY <1>1, <1>2, <1>3 DEF Spent, PendingIntents

(* Re-runs, follow-ups and launches begin on settled tickets. *)
LEMMA SpawnSettledStep ==
    ASSUME Calm, TypeOK, LaunchInv, ListInv, SettledInv, SeenInv, [Next]_vars
    PROVE  SpawnSettled'
<1>1. CASE sp'.stage \notin {"cut", "insert"}
  BY <1>1 DEF SpawnSettled
<1>2. CASE UNCHANGED <<sp, runs>>
  BY <1>2 DEF SettledInv, SpawnSettled, Settled
<1>3. CASE UNCHANGED runs /\ Settled(sp'.ticket)
  BY <1>3 DEF SpawnSettled, Settled
<1>4. CASE CutWorktree
  <2>1. UNCHANGED runs /\ sp'.ticket = sp.ticket /\ sp.stage = "cut"
    BY <1>4 DEF CutWorktree, TypeOK, SpawnOK, dbVars
  <2> QED
    BY <1>3, <2>1 DEF SettledInv, SpawnSettled
<1>5. CASE ReRunInWorktree \/ ReRunByCutting
  <2>1. UNCHANGED runs /\ Settled(intents[NextVerbIntent].ticket)
    BY <1>5, ReadyUnspent DEF ReRunInWorktree, ReRunByCutting, dbVars, SettledInv, ReRunSettled
  <2>2. sp' = NoSpawn \/ \E stage, i : sp' = Spawning(stage, intents[NextVerbIntent].ticket, "agent", i)
    BY <1>5, Zenon DEF ReRunInWorktree, ReRunByCutting, ResetTick
  <2>3. sp'.stage \notin {"cut", "insert"} \/ sp'.ticket = intents[NextVerbIntent].ticket
    BY <2>2 DEF NoSpawn, Spawning
  <2> QED
    BY <1>1, <1>3, <2>1, <2>3
<1>6. CASE FollowUpOne
  <2>1. CASE UNCHANGED sp
    BY <1>2, <1>6, <2>1 DEF FollowUpOne, dbVars
  <2>2. CASE /\ obs.run[intents[NextVerbIntent].ticket] # "alive"
             /\ sp' = Spawning("insert", intents[NextVerbIntent].ticket, "follow_up", NextVerbIntent)
    <3>1. UNCHANGED runs /\ sp'.ticket = intents[NextVerbIntent].ticket
      BY <1>6, <2>2 DEF FollowUpOne, dbVars, Spawning
    <3>2. Settled(intents[NextVerbIntent].ticket)
      BY <1>6, <2>2, ReadyUnspent DEF FollowUpOne, SeenInv, VerbSettled
    <3> QED
      BY <1>3, <3>1, <3>2
  <2> QED
    BY <1>6, <2>1, <2>2 DEF FollowUpOne
<1>7. CASE LaunchEligible
  <2>1. UNCHANGED runs /\ sp'.ticket = Min(todo) /\ sp.stage = "none" /\ pc = "launching" /\ todo # {}
    BY <1>7 DEF LaunchEligible, Spawning, NoSpawn, dbVars
  <2>2. Min(todo) \in todo
    BY <2>1, MinInSet, TicketsAssumption DEF TypeOK, TodoOK
  <2>3. ~HasRun(Min(todo))
    BY <2>1, <2>2 DEF LaunchInv
  <2>4. Settled(Min(todo))
    BY <2>3 DEF Settled, HasRun, RunsOf
  <2> QED
    BY <1>3, <2>1, <2>4
<1>8. CASE CutFails \/ InsertRunSkeleton \/ Spawn \/ SpawnFails \/ RecordSpawn
  <2>1. CutFails \/ SpawnFails \/ RecordSpawn => sp' = NoSpawn
    BY DEF CutFails, SpawnFails, RecordSpawn, SpawnReturns
  <2>2. NoSpawn.stage = "none"
    BY DEF NoSpawn
  <2>3. InsertRunSkeleton => sp'.stage = "spawn"
    BY DEF InsertRunSkeleton, TypeOK, SpawnOK
  <2>4. Spawn => sp'.stage = "record"
    BY DEF Spawn, TypeOK, SpawnOK
  <2> QED
    BY <1>1, <1>8, <2>1, <2>2, <2>3, <2>4
<1>9. CASE \E r \in todo : ReconcileRun(r)
  BY <1>1, <1>9 DEF ReconcileRun, LaunchInv
<1>10. CASE Environment \/ UNCHANGED vars
  <2>1. UNCHANGED <<sp, runs>>
    BY <1>10, Zenon DEF Environment, Click, Commit, Exit, ReviewPR, dbVars, tickVars, vars
  <2> QED
    BY <1>2, <2>1
<1>11. CASE EndTick \/ Fault
  BY <1>1, <1>11 DEF EndTick, Fault, ResetTick, NoSpawn
<1> QED
  BY <1>2, <1>4, <1>5, <1>6, <1>7, <1>8, <1>9, <1>10, <1>11
  DEF Next, Loop, Spawner, Observe, ApplyLaunchIntents, ApplyCancel, CancelsDone, ApplyKill,
      InterruptForFollowUps, SaveObservation, ConsumeVerbIntent, PlanLaunches, dbVars

(* A settled ticket stays settled until the click that waits on it is      *)
(* spent: no other run is inserted for it.                                 *)
LEMMA SettledUntilSpent ==
    ASSUME Calm, TypeOK, LaunchInv, ListInv, OneClick, [Next]_vars,
           NEW i \in DOMAIN intents, intents[i].pending, ~Spent(i)',
           NEW t, t = intents[i].ticket, Settled(t),
           sp.stage = "insert" /\ sp.by = 0 => t # sp.ticket
    PROVE  Settled(t)'
<1>1. CASE KeepsRuns
  BY <1>1, SettledKept DEF KeepsRuns
<1>2. CASE CutFails
  <2>1. runs' = Append(runs, NewRun("cut_failed")) /\ "cut_failed" # "none"
    BY <1>2 DEF CutFails
  <2> QED
    BY <2>1, SettledOther
<1>3. CASE InsertRunSkeleton
  <2>1. runs' = Append(runs, NewRun("none")) /\ sp.stage = "insert"
    BY <1>3 DEF InsertRunSkeleton
  <2>2. ASSUME t = sp.ticket PROVE FALSE
    <3>1. sp.by \in DOMAIN intents /\ intents[sp.by].pending /\ intents[sp.by].ticket = t
      BY <2>1, <2>2 DEF ListInv, LaunchInv, PendingIntents
    <3>2. i = sp.by
      BY <3>1 DEF OneClick
    <3>3. sp'.by = i /\ sp'.stage = "spawn"
      BY <1>3, <3>2 DEF InsertRunSkeleton, TypeOK, SpawnOK
    <3> QED
      BY <3>3 DEF Spent
  <2> QED
    BY <2>1, <2>2, SettledOther
<1> QED
  BY <1>1, <1>2, <1>3, RunSteps

(* A re-run is offered on a settled ticket, which only its own run leaves. *)
LEMMA ReRunSettledStep ==
    ASSUME Calm, TypeOK, TypeOK', LaunchInv, ListInv, OneClick, SettledInv, [Next]_vars
    PROVE  ReRunSettled'
<1> SUFFICES ASSUME NEW i \in PendingIntents("re-run")'
             PROVE  HasRun(intents[i].ticket)' /\ (~Spent(i)' => Settled(intents[i].ticket)')
  BY DEF ReRunSettled
<1>1. i \in DOMAIN intents' /\ intents'[i].pending /\ intents'[i].verb = "re-run"
  BY DEF PendingIntents
<1>2. PICK t : t = intents'[i].ticket
  OBVIOUS
<1>3. (HasRun(t)' => HasRun(intents[i].ticket)') /\ (Settled(t)' => Settled(intents[i].ticket)')
  BY <1>2 DEF HasRun, RunsOf, Settled
<1>4. HasRun(t) => HasRun(t)'
  BY RunsKept DEF HasRun, RunsOf
<1>5. CASE i \in DOMAIN intents
  <2>1. i \in PendingIntents("re-run") /\ t = intents[i].ticket
    BY <1>1, <1>2, <1>5, IntentsKept DEF KeepsIntents, PendingIntents
  <2>2. HasRun(t) /\ (~Spent(i) => Settled(t))
    BY <2>1 DEF SettledInv, ReRunSettled
  <2>3. ASSUME ~Spent(i)' PROVE Settled(t)'
    <3>1. Settled(t)
      BY <1>5, <2>2, <2>3, SpentKept, NoFaultSteps
    <3>2. intents[i].pending /\ (sp.stage = "insert" /\ sp.by = 0 => t # sp.ticket)
      BY <2>1, <2>2 DEF PendingIntents, LaunchInv
    <3> QED
      BY <1>5, <2>1, <2>3, <3>1, <3>2, SettledUntilSpent
  <2> QED
    BY <1>3, <1>4, <2>2, <2>3
<1>6. CASE i \notin DOMAIN intents
  <2>1. PICK u \in Tickets, v \in Verb : Click(u, v)
    BY <1>1, <1>6, IntentSteps, LaunchesClaimed, DueConsumed
  <2>2. PICK n : n = Len(intents) + 1
    OBVIOUS
  <2>3. i = n /\ t = u /\ v = "re-run" /\ UNCHANGED runs
    BY <1>1, <1>2, <1>6, <2>1, <2>2, ClickAdds
  <2>4. HasRun(t) /\ Latest(t).outcome # "none"
    BY <2>1, <2>3, ReRunOffered DEF Click
  <2>5. PICK m : m = Max(RunsOf(t))
    OBVIOUS
  <2>6. m \in DOMAIN runs /\ runs[m].ticket = t /\ (\A q \in RunsOf(t) : q <= m) /\ runs[m].outcome # "none"
    BY <2>4, <2>5, LatestRun
  <2>7. DOMAIN runs \subseteq Nat
    BY LenProperties DEF TypeOK, DbOK
  <2>8. \A q \in DOMAIN runs : runs[q].ticket = t => q = m \/ q < m
    BY <2>6, <2>7 DEF RunsOf
  <2>9. Settled(t)
    BY <2>6, <2>8 DEF SettledInv, LatestOpen, Settled
  <2>10. Settled(t)'
    BY <2>3, <2>9 DEF Settled
  <2> QED
    BY <1>3, <1>4, <2>4, <2>10
<1> QED
  BY <1>5, <1>6

(* A row without a process is the one being spawned. *)
LEMMA ReservedOnlyStep ==
    ASSUME Calm, TypeOK, LaunchInv, SettledInv, [Next]_vars
    PROVE  ReservedOnly'
<1>1. ASSUME NEW r \in DOMAIN runs, runs'[r].outcome = "none", ~runs'[r].pgid
      PROVE  sp.stage \in {"spawn", "record"} /\ sp.run = r
  <2>1. runs[r].outcome = "none" /\ ~runs[r].pgid
    BY <1>1, RunsKept
  <2> QED
    BY <2>1 DEF SettledInv, ReservedOnly
<1>2. CASE sp.stage \in {"none", "cut"} /\ KeepsRuns
  BY <1>1, <1>2 DEF ReservedOnly, KeepsRuns
<1>3. CASE UNCHANGED <<sp, runs>>
  BY <1>3 DEF SettledInv, ReservedOnly
<1>4. CASE InsertRunSkeleton
  <2>1. PICK n : n = Len(runs) + 1
    OBVIOUS
  <2>2. DOMAIN runs' = DOMAIN runs \cup {n} /\ sp.stage = "insert"
    BY <1>4, <2>1, InsertedRun DEF InsertRunSkeleton
  <2>3. sp'.stage = "spawn" /\ sp'.run = n
    BY <1>4, <2>1 DEF InsertRunSkeleton, TypeOK, SpawnOK
  <2> QED
    BY <1>1, <2>2, <2>3 DEF ReservedOnly
<1>5. CASE CutFails
  <2>1. PICK n : n = Len(runs) + 1
    OBVIOUS
  <2>2. DOMAIN runs' = DOMAIN runs \cup {n} /\ sp.stage = "cut" /\ runs'[n].outcome = "cut_failed"
    BY <1>5, <2>1, InsertedRun DEF CutFails
  <2> QED
    BY <1>1, <2>2 DEF ReservedOnly
<1>6. CASE Spawn
  <2>1. UNCHANGED runs /\ sp'.stage = "record" /\ sp'.run = sp.run
    BY <1>6 DEF Spawn, TypeOK, SpawnOK, dbVars
  <2> QED
    BY <1>1, <2>1 DEF ReservedOnly
<1>7. CASE SpawnFails \/ RecordSpawn
  <2>1. sp.run \in DOMAIN runs /\ runs[sp.run] \in Run
    BY <1>7, RunRow DEF SpawnFails, RecordSpawn, TypeOK, SpawnOK
  <2>2. DOMAIN runs' = DOMAIN runs /\ (runs'[sp.run].outcome # "none" \/ runs'[sp.run].pgid)
    BY <1>7, <2>1 DEF SpawnFails, RecordDisposition, RecordSpawn, Run
  <2> QED
    BY <1>1, <2>2 DEF ReservedOnly
<1>8. CASE ReRunInWorktree \/ ReRunByCutting \/ LaunchEligible \/ CutWorktree \/ EndTick \/ FollowUpOne
  <2>1. sp.stage \in {"none", "cut"}
    BY <1>8 DEF ReRunInWorktree, ReRunByCutting, LaunchEligible, CutWorktree, EndTick,
       FollowUpOne, VerbReady, NoSpawn
  <2>2. UNCHANGED runs
    BY <1>8 DEF ReRunInWorktree, ReRunByCutting, LaunchEligible, CutWorktree, EndTick, FollowUpOne, dbVars
  <2> QED
    BY <1>2, <2>1, <2>2 DEF KeepsRuns
<1>10. CASE \E r \in todo : ReconcileRun(r)
  <2>1. pc = "reconcile"
    BY <1>10 DEF ReconcileRun
  <2>2. sp.stage = "none"
    BY <2>1 DEF LaunchInv
  <2>3. KeepsRuns
    BY <2>2, RunSteps DEF CutFails, InsertRunSkeleton
  <2> QED
    BY <1>2, <2>2, <2>3
<1>9. CASE Environment \/ UNCHANGED vars
  <2>1. UNCHANGED <<sp, runs>>
    BY <1>9, Zenon DEF Environment, Click, Commit, Exit, ReviewPR, dbVars, tickVars, vars
  <2> QED
    BY <1>3, <2>1
<1> QED
  BY <1>3, <1>4, <1>5, <1>6, <1>7, <1>8, <1>9, <1>10, NoFaultSteps
  DEF Next, Loop, Spawner, Observe, ApplyLaunchIntents, ApplyCancel, CancelsDone, ApplyKill,
      InterruptForFollowUps, SaveObservation, ConsumeVerbIntent, PlanLaunches, dbVars

-----------------------------------------------------------------------------
(* What the tick observed.                                                 *)

(* Only RecordSpawn makes a run pending. *)
LEMMA PendingSteps ==
    ASSUME TypeOK, [Next]_vars, ~RecordSpawn
    PROVE  PendingRuns' \subseteq PendingRuns
<1>1. CASE UNCHANGED runs
  BY <1>1 DEF PendingRuns
<1>2. \A q \in DOMAIN runs : runs[q] \in Run
  BY RunRow DEF TypeOK
<1>3. ASSUME NEW q \in DOMAIN runs, NEW o, runs' = [runs EXCEPT ![q].outcome = o]
      PROVE  PendingRuns' \subseteq PendingRuns
  <2>1. DOMAIN runs' = DOMAIN runs /\ \A r \in DOMAIN runs : runs'[r].pgid = runs[r].pgid
    BY <1>2, <1>3 DEF Run
  <2> QED
    BY <2>1, RunsKept DEF PendingRuns
<1>4. ASSUME NEW q \in todo, ReconcileRun(q)
      PROVE  PendingRuns' \subseteq PendingRuns
  <2>1. UNCHANGED runs \/ \E o : DisposeRun(q, o)
    BY <1>4, Zenon DEF ReconcileRun
  <2>2. q \in DOMAIN runs
    BY <1>4 DEF ReconcileRun, TypeOK, TodoOK
  <2> QED
    BY <1>1, <1>3, <2>1, <2>2 DEF DisposeRun, RecordDisposition
<1>5. CASE CutFails \/ InsertRunSkeleton
  <2>1. PICK outcome : runs' = Append(runs, NewRun(outcome))
    BY <1>5 DEF CutFails, InsertRunSkeleton
  <2>2. PICK n : n = Len(runs) + 1
    OBVIOUS
  <2>3. /\ DOMAIN runs' = DOMAIN runs \cup {n} /\ ~runs'[n].pgid
        /\ \A r \in DOMAIN runs : runs'[r] = runs[r]
    BY <2>1, <2>2, InsertedRun
  <2> QED
    BY <2>3 DEF PendingRuns
<1>6. CASE SpawnFails
  <2>1. sp.run \in DOMAIN runs
    BY <1>6 DEF SpawnFails, TypeOK, SpawnOK
  <2> QED
    BY <1>3, <1>6, <2>1 DEF SpawnFails, RecordDisposition
<1>7. CASE Environment \/ UNCHANGED vars
  <2>1. UNCHANGED runs
    BY <1>7, Zenon DEF Environment, Click, Commit, Exit, ReviewPR, dbVars, vars
  <2> QED
    BY <1>1, <2>1
<1> QED
  BY <1>1, <1>4, <1>5, <1>6, <1>7
  DEF Next, Loop, Fault, Observe, ApplyLaunchIntents, ApplyCancel, CancelsDone, ApplyKill,
      InterruptForFollowUps, SaveObservation, ReRunInWorktree, ReRunByCutting, FollowUpOne,
      ConsumeVerbIntent, PlanLaunches, LaunchEligible, Spawner, CutWorktree, Spawn, EndTick, dbVars

(* Only Spawn starts a process. *)
LEMMA LiveSteps ==
    ASSUME [Next]_vars, ~Spawn
    PROVE  live' \subseteq live
<1>1. CASE UNCHANGED live
  BY <1>1
<1>2. CASE Loop
  BY <1>1, <1>2
  DEF Loop, Observe, ApplyLaunchIntents, ApplyCancel, CancelsDone, ApplyKill, ReconcileRun,
      InterruptForFollowUps, SaveObservation, ReRunInWorktree, ReRunByCutting, FollowUpOne,
      ConsumeVerbIntent, PlanLaunches, LaunchEligible, Spawner, CutWorktree, CutFails, InsertRunSkeleton,
      SpawnFails, RecordSpawn, EndTick, procVars
<1>3. CASE Environment
  BY <1>3, Zenon DEF Environment, Click, Commit, Exit, ReviewPR, procVars
<1> QED
  BY <1>1, <1>2, <1>3 DEF Next, Fault, vars, procVars

(* A ticket has one pending run. *)
LEMMA OnePending ==
    ASSUME TypeOK, LatestOpen, NEW r \in PendingRuns, NEW q \in PendingRuns,
           runs[r].ticket = runs[q].ticket
    PROVE  r = q
<1>1. r \in DOMAIN runs /\ q \in DOMAIN runs /\ runs[r].outcome = "none" /\ runs[q].outcome = "none"
  BY DEF PendingRuns
<1>2. ~(r < q) /\ ~(q < r)
  BY <1>1 DEF LatestOpen
<1>3. r \in Nat /\ q \in Nat
  BY <1>1, LenProperties DEF TypeOK, DbOK
<1> QED
  BY <1>2, <1>3

(* A run that is disposed of has an outcome. *)
LEMMA DisposedDone ==
    ASSUME TypeOK, NEW r \in DOMAIN runs, NEW o, DisposeRun(r, o)
    PROVE  r \notin PendingRuns' /\ r \notin children \cap live
<1>1. OutcomeFor(r, o) # "none"
  BY DEF OutcomeFor
<1>2. runs[r] \in Run
  BY RunRow DEF TypeOK
<1> QED
  BY <1>1, <1>2 DEF DisposeRun, RecordDisposition, Reap, PendingRuns, Run

(* The observation of the ticket of the run that is visited. *)
LEMMA VisitSees ==
    ASSUME TypeOK, NEW r \in todo, ReconcileRun(r), NEW t \in Tickets
    PROVE  /\ t # runs[r].ticket => obs'.run[t] = obs.run[t]
           /\ UNCHANGED live /\ pc = "reconcile" /\ pc' = pc /\ todo' = todo \ {r}
           /\ \/ obs'.run[runs[r].ticket] = "alive"
              \/ /\ \E o : DisposeRun(r, o)
                 /\ obs.run[runs[r].ticket] = "dead" \/ r \notin live
<1>1. r \in DOMAIN runs /\ runs[r].ticket \in Tickets
  BY RunRow DEF ReconcileRun, TypeOK, TodoOK, Run
<1>2. obs \in Obs
  BY DEF TypeOK, TickOK
<1>3. obs.run \in [Tickets -> {"unseen", "alive", "dead"}]
  BY <1>2 DEF Obs
<1>4. PICK u \in Tickets : u = runs[r].ticket
  BY <1>1
<1>5. UNCHANGED live /\ pc = "reconcile" /\ pc' = pc /\ todo' = todo \ {r}
  BY DEF ReconcileRun
<1>6. CASE obs.run[u] = "alive" /\ UNCHANGED obs
  BY <1>4, <1>5, <1>6
<1>7. CASE obs' = [obs EXCEPT !.run[u] = "alive"]
  BY <1>2, <1>3, <1>4, <1>5, <1>7 DEF Obs
<1>8. CASE /\ r \notin live /\ \E o : DisposeRun(r, o)
           /\ obs' = [obs EXCEPT !.run[u] = "dead", !.asked = IF r \in asked THEN @ \cup {r} ELSE @]
  BY <1>2, <1>3, <1>4, <1>5, <1>8 DEF Obs
<1>9. CASE obs.run[u] = "dead" /\ UNCHANGED obs /\ \E o : DisposeRun(r, o)
  BY <1>4, <1>5, <1>9
<1> QED
  BY <1>4, <1>6, <1>7, <1>8, <1>9, Zenon DEF ReconcileRun

(* Before the verbs no spawn is in progress, and a step that neither       *)
(* observes nor visits leaves the observation alone.                       *)
LEMMA SeeingSteps ==
    ASSUME Calm, TypeOK, LaunchInv, [Next]_vars, pc' \in {"launch", "cancel", "kill", "reconcile"}
    PROVE  \/ Observe
           \/ \E r \in todo : ReconcileRun(r)
           \/ /\ pc \in {"launch", "cancel", "kill", "reconcile"} /\ UNCHANGED obs
              /\ ~RecordSpawn /\ ~Spawn
<1>1. CASE ApplyLaunchIntents \/ ApplyCancel \/ CancelsDone \/ ApplyKill \/ InterruptForFollowUps
  <2>1. pc \in {"launch", "cancel", "kill"} /\ UNCHANGED obs
    BY <1>1 DEF ApplyLaunchIntents, ApplyCancel, CancelsDone, ApplyKill, InterruptForFollowUps
  <2> QED
    BY <2>1 DEF LaunchInv, RecordSpawn, Spawn
<1>2. CASE ConsumeVerbIntent \/ Environment \/ UNCHANGED vars
  <2>1. UNCHANGED <<pc, obs>>
    BY <1>2, Zenon DEF ConsumeVerbIntent, Environment, Click, Commit, Exit, ReviewPR, tickVars, vars
  <2> QED
    BY <2>1 DEF LaunchInv, RecordSpawn, Spawn
<1>3. CASE SaveObservation \/ ReRunInWorktree \/ ReRunByCutting \/ FollowUpOne \/ PlanLaunches
           \/ LaunchEligible \/ EndTick
  BY <1>3 DEF SaveObservation, ReRunInWorktree, ReRunByCutting, FollowUpOne, VerbReady, PlanLaunches,
     LaunchEligible, EndTick, ResetTick
<1>4. CASE Spawner
  <2>1. UNCHANGED pc /\ sp.stage # "none"
    BY <1>4 DEF Spawner, CutWorktree, CutFails, InsertRunSkeleton, Spawn, SpawnFails, RecordSpawn
  <2> QED
    BY <2>1 DEF LaunchInv
<1> QED
  BY <1>1, <1>2, <1>3, <1>4, NoFaultSteps DEF Next, Loop

(* A run is of a ticket that exists. *)
LEMMA RunTicket ==
    ASSUME TypeOK, NEW r \in DOMAIN runs
    PROVE  runs[r].ticket \in Tickets
  BY RunRow DEF TypeOK, Run

(* No ps fails, and a ticket has one pending run to observe. *)
LEMMA ObserveSees ==
    ASSUME Calm, TypeOK, LatestOpen, Observe
    PROVE  DeadSeen'
<1>1. PICK misread \in SUBSET (PendingRuns \cap live), bad \in BOOLEAN,
           run \in [Tickets -> {"unseen", "alive", "dead"}] :
        /\ misread # {} => "ps" \in FaultKinds
        /\ \A t \in Tickets :
              run[t] \in IF PendingRuns \cap RunsOf(t) = {} THEN {"unseen"}
                         ELSE {Liveness(r, misread) : r \in PendingRuns \cap RunsOf(t)}
        /\ obs' = [run   |-> run,
                   wt    |-> ReadRepo(bad).wt,
                   pr    |-> ReadRepo(bad).pr,
                   asked |-> {r \in PendingRuns : Liveness(r, misread) = "dead" /\ r \in asked},
                   bad   |-> bad]
  BY Zenon DEF Observe
<1>5. obs'.run = run
  BY <1>1
<1>2. misread = {}
  BY <1>1 DEF Calm
<1>3. UNCHANGED <<runs, live>>
  BY DEF Observe, dbVars, procVars
<1>4. ASSUME NEW r \in PendingRuns, run[runs[r].ticket] = "dead"
      PROVE  r \notin live
  <2>1. PICK t \in Tickets : t = runs[r].ticket
    BY RunTicket DEF PendingRuns
  <2>2. r \in PendingRuns \cap RunsOf(t)
    BY <2>1 DEF PendingRuns, RunsOf
  <2>3. PICK q \in PendingRuns \cap RunsOf(t) : run[t] = Liveness(q, misread)
    BY <1>1, <2>2
  <2>4. q = r
    BY <2>1, <2>3, OnePending DEF RunsOf
  <2> QED
    BY <1>2, <1>4, <2>1, <2>3, <2>4 DEF Liveness
<1> QED
  BY <1>3, <1>4, <1>5 DEF DeadSeen, PendingRuns

(* The observation of a dead run is never overtaken by a process. *)
LEMMA DeadSeenStep ==
    ASSUME Calm, TypeOK, LaunchInv, LedgerInv, LatestOpen, DeadSeen, [Next]_vars
    PROVE  DeadSeen'
<1> SUFFICES ASSUME pc' \in {"launch", "cancel", "kill", "reconcile"}
             PROVE  DeadSeen'
  BY DEF DeadSeen
<1>1. CASE Observe
  BY <1>1, ObserveSees
<1>2. ASSUME NEW q \in todo, ReconcileRun(q)
      PROVE  DeadSeen'
  <2>1. pc = "reconcile" /\ UNCHANGED live /\ ~RecordSpawn
    BY <1>2 DEF ReconcileRun, LaunchInv, RecordSpawn
  <2>2. q \in PendingRuns /\ q \in DOMAIN runs
    BY <2>1 DEF LedgerInv, PendingRuns
  <2>3. ASSUME NEW r \in PendingRuns', obs'.run[runs'[r].ticket] = "dead"
        PROVE  r \notin live
    <3>1. r \in PendingRuns /\ r \in DOMAIN runs
      BY <2>1, PendingSteps DEF PendingRuns
    <3>2. PICK t \in Tickets : t = runs[r].ticket /\ t = runs'[r].ticket
      BY <3>1, RunsKept, RunTicket
    <3>3. CASE t # runs[q].ticket
      BY <1>2, <2>1, <2>3, <3>1, <3>2, <3>3, VisitSees DEF DeadSeen
    <3>4. CASE t = runs[q].ticket
      <4>1. r = q
        BY <2>2, <3>1, <3>2, <3>4, OnePending
      <4>2. ~(obs'.run[runs[q].ticket] = "alive")
        BY <2>3, <3>2, <3>4
      <4>3. \E o : DisposeRun(q, o)
        BY <1>2, <3>2, <4>2, VisitSees
      <4> QED
        BY <2>2, <2>3, <4>1, <4>3, DisposedDone
    <3> QED
      BY <3>3, <3>4
  <2> QED
    BY <2>1, <2>3 DEF DeadSeen
<1>3. CASE pc \in {"launch", "cancel", "kill", "reconcile"} /\ UNCHANGED obs /\ ~RecordSpawn /\ ~Spawn
  <2>1. live' \subseteq live /\ PendingRuns' \subseteq PendingRuns
    BY <1>3, LiveSteps, PendingSteps
  <2>2. \A r \in PendingRuns : runs'[r].ticket = runs[r].ticket
    BY RunsKept DEF PendingRuns
  <2> QED
    BY <1>3, <2>1, <2>2 DEF DeadSeen
<1> QED
  BY <1>1, <1>2, <1>3, SeeingSteps

(* A visit disposes of the run, or finds it alive. *)
LEMMA VisitedAliveStep ==
    ASSUME Calm, TypeOK, LaunchInv, LedgerInv, LatestOpen, VisitedAlive, [Next]_vars
    PROVE  VisitedAlive'
<1> SUFFICES ASSUME pc' = "reconcile"
             PROVE  VisitedAlive'
  BY DEF VisitedAlive
<1>1. ASSUME NEW q \in todo, ReconcileRun(q)
      PROVE  VisitedAlive'
  <2>1. pc = "reconcile" /\ todo' = todo \ {q} /\ ~RecordSpawn
    BY <1>1 DEF ReconcileRun, LaunchInv, RecordSpawn
  <2>2. q \in PendingRuns /\ q \in DOMAIN runs
    BY <2>1 DEF LedgerInv, PendingRuns
  <2>3. ASSUME NEW r \in PendingRuns', r \notin todo'
        PROVE  obs'.run[runs'[r].ticket] = "alive"
    <3>1. r \in PendingRuns /\ r \in DOMAIN runs
      BY <2>1, PendingSteps DEF PendingRuns
    <3>2. PICK t \in Tickets : t = runs[r].ticket /\ t = runs'[r].ticket
      BY <3>1, RunsKept, RunTicket
    <3>3. CASE r # q
      <4>1. t # runs[q].ticket
        BY <2>2, <3>1, <3>2, <3>3, OnePending
      <4>2. obs.run[t] = "alive"
        BY <2>1, <2>3, <3>1, <3>2, <3>3 DEF VisitedAlive
      <4> QED
        BY <1>1, <3>2, <4>1, <4>2, VisitSees
    <3>4. CASE r = q
      BY <1>1, <2>2, <2>3, <3>2, <3>4, VisitSees, DisposedDone
    <3> QED
      BY <3>3, <3>4
  <2> QED
    BY <2>3 DEF VisitedAlive
<1>2. CASE InterruptForFollowUps
  BY <1>2 DEF InterruptForFollowUps, VisitedAlive, PendingRuns, dbVars
<1>3. CASE ConsumeVerbIntent
  BY <1>3 DEF ConsumeVerbIntent, LaunchInv
<1>4. CASE Environment \/ UNCHANGED vars
  <2>1. UNCHANGED <<pc, obs, todo, runs>>
    BY <1>4, Zenon DEF Environment, Click, Commit, Exit, ReviewPR, tickVars, dbVars, vars
  <2> QED
    BY <2>1 DEF VisitedAlive, PendingRuns
<1>5. CASE Spawner
  <2>1. UNCHANGED pc /\ sp.stage # "none"
    BY <1>5 DEF Spawner, CutWorktree, CutFails, InsertRunSkeleton, Spawn, SpawnFails, RecordSpawn
  <2> QED
    BY <2>1 DEF LaunchInv
<1> QED
  BY <1>1, <1>2, <1>3, <1>4, <1>5, NoFaultSteps
  DEF Next, Loop, Observe, ApplyLaunchIntents, ApplyCancel, CancelsDone, ApplyKill, SaveObservation,
      ReRunInWorktree, ReRunByCutting, FollowUpOne, VerbReady, PlanLaunches, LaunchEligible, EndTick, ResetTick

(* A ticket on the verbs' list stays settled until its verb is spent. *)
LEMMA VerbSettledStep ==
    ASSUME Calm, TypeOK, TypeOK', LaunchInv, ListInv, OneClick, SettledInv, SeenInv, [Next]_vars
    PROVE  VerbSettled'
<1> SUFFICES ASSUME pc' = "verbs", NEW i \in todo', ~Spent(i)', obs'.run[intents'[i].ticket] # "alive"
             PROVE  Settled(intents[i].ticket)'
  BY DEF VerbSettled
<1>1. CASE SaveObservation
  <2>1. UNCHANGED <<runs, intents, obs>> /\ pc = "reconcile" /\ todo = {} /\ i \in DOMAIN intents
    BY <1>1 DEF SaveObservation, PendingIntents
  <2>2. PICK t : t = intents[i].ticket
    OBVIOUS
  <2>3. \A r \in PendingRuns : obs.run[runs[r].ticket] = "alive"
    BY <2>1 DEF SeenInv, VisitedAlive
  <2>4. \A r \in DOMAIN runs : runs[r].outcome = "none" => runs[r].pgid
    BY <2>1 DEF SettledInv, ReservedOnly, LaunchInv
  <2>5. Settled(t)
    BY <2>1, <2>2, <2>3, <2>4 DEF Settled, PendingRuns
  <2> QED
    BY <2>1, <2>2, <2>5 DEF Settled
<1>2. ASSUME pc = "verbs", todo' \subseteq todo, UNCHANGED obs \/ RecordSpawn
      PROVE  Settled(intents[i].ticket)'
  <2>1. i \in todo /\ i \in DOMAIN intents /\ intents[i].pending
    BY <1>2 DEF ListInv, PendingIntents
  <2>0. intents[i] \in Intent
    BY <2>1, LenProperties DEF TypeOK, DbOK
  <2>2. PICK t \in Tickets : t = intents[i].ticket
    BY <2>0 DEF Intent
  <2>3. intents'[i].ticket = t
    BY <2>1, <2>2, IntentsKept DEF KeepsIntents
  <2>4. obs.run[t] # "alive"
    <3>1. CASE UNCHANGED obs
      BY <2>3, <3>1
    <3>2. CASE RecordSpawn
      <4>1. sp.ticket \in Tickets /\ obs \in Obs
        BY <3>2 DEF RecordSpawn, TypeOK, SpawnOK, TickOK
      <4>2. obs.run \in [Tickets -> {"unseen", "alive", "dead"}]
        BY <4>1 DEF Obs
      <4>3. obs'.run[t] = obs.run[t] \/ obs'.run[t] = "alive"
        BY <3>2, <4>1, <4>2 DEF RecordSpawn, Obs
      <4> QED
        BY <2>3, <4>3
    <3> QED
      BY <1>2, <3>1, <3>2
  <2>5. ~Spent(i)
    BY <2>1, SpentKept, NoFaultSteps
  <2>6. Settled(t)
    BY <1>2, <2>1, <2>2, <2>4, <2>5 DEF SeenInv, VerbSettled
  <2>7. sp.stage = "insert" /\ sp.by = 0 => t # sp.ticket
    BY <1>2 DEF LaunchInv
  <2>8. Settled(t)'
    BY <2>1, <2>2, <2>6, <2>7, SettledUntilSpent
  <2> QED
    BY <2>3, <2>8 DEF Settled
<1>3. CASE ReRunInWorktree \/ ReRunByCutting \/ FollowUpOne
  <2>1. pc = "verbs" /\ todo' \subseteq todo /\ UNCHANGED obs
    BY <1>3 DEF ReRunInWorktree, ReRunByCutting, FollowUpOne, VerbReady, ResetTick
  <2> QED
    BY <1>2, <2>1
<1>4. CASE ConsumeVerbIntent \/ Environment \/ UNCHANGED vars
  <2>1. UNCHANGED <<pc, obs>> /\ todo' \subseteq todo
    <3>1. CASE ConsumeVerbIntent
      BY <3>1 DEF ConsumeVerbIntent
    <3>2. CASE Environment \/ UNCHANGED vars
      <4>1. UNCHANGED <<pc, obs, todo>>
        BY <3>2, Zenon DEF Environment, Click, Commit, Exit, ReviewPR, tickVars, vars
      <4> QED
        BY <4>1
    <3> QED
      BY <1>4, <3>1, <3>2
  <2> QED
    BY <1>2, <2>1
<1>5. CASE Spawner
  <2>1. UNCHANGED pc /\ todo' \subseteq todo /\ (UNCHANGED obs \/ RecordSpawn)
    BY <1>5 DEF Spawner, CutWorktree, CutFails, InsertRunSkeleton, Spawn, SpawnFails, RecordSpawn, SpawnReturns
  <2> QED
    BY <1>2, <2>1
<1> QED
  BY <1>1, <1>3, <1>4, <1>5, NoFaultSteps
  DEF Next, Loop, Observe, ApplyLaunchIntents, ApplyCancel, CancelsDone, ApplyKill, InterruptForFollowUps,
      ReconcileRun, PlanLaunches, LaunchEligible, EndTick, ResetTick

-----------------------------------------------------------------------------
(* Live runs.                                                              *)

(* A process is started for a reserved row, and only a dead run is         *)
(* disposed of.                                                            *)
LEMMA LiveStep ==
    ASSUME Calm, TypeOK, LaunchInv, LedgerInv, SettledInv, SeenInv, LiveInv, [Next]_vars
    PROVE  LiveInv'
<1>1. ASSUME NEW r \in DOMAIN runs, r \in live', r \in live, runs[r].outcome = runs'[r].outcome
      PROVE  runs'[r].outcome = "none"
  BY <1>1 DEF LiveInv, NoLiveDisposed
<1>2. live \subseteq DOMAIN runs
  BY DEF TypeOK, ProcOK
<1>3. CASE UNCHANGED <<runs, sp>>
  <2>1. CASE Spawn
    BY <1>3, <2>1 DEF Spawn, TypeOK, SpawnOK
  <2>2. CASE ~Spawn
    BY <1>3, <2>2, LiveSteps DEF LiveInv, NoLiveDisposed
  <2> QED
    BY <2>1, <2>2
<1>4. ASSUME NEW q \in todo, ReconcileRun(q)
      PROVE  LiveInv'
  <2>1. pc = "reconcile" /\ UNCHANGED <<live, sp>> /\ sp.stage = "none" /\ q \in PendingRuns
    BY <1>4 DEF ReconcileRun, LaunchInv, LedgerInv
  <2>2. q \in DOMAIN runs /\ runs[q].ticket \in Tickets
    BY <2>1, RunTicket DEF PendingRuns
  <2>3. UNCHANGED runs \/ \E o : DisposeRun(q, o)
    BY <1>4, Zenon DEF ReconcileRun
  <2>4. CASE UNCHANGED runs
    BY <1>3, <2>1, <2>4
  <2>5. ASSUME NEW o, DisposeRun(q, o), q \notin live
        PROVE  LiveInv'
    <3>1. \A r \in DOMAIN runs : r # q => runs'[r] = runs[r]
      BY <2>5 DEF DisposeRun, RecordDisposition
    <3> QED
      BY <1>1, <1>2, <2>1, <2>5, <3>1 DEF LiveInv, NoLiveDisposed
  <2>6. UNCHANGED runs \/ q \notin live
    <3>1. PICK t \in Tickets : t = runs[q].ticket
      BY <2>2
    <3>2. obs.run[t] = "dead" => q \notin live
      BY <2>1, <3>1 DEF SeenInv, DeadSeen
    <3> QED
      BY <1>4, <3>1, <3>2, Zenon DEF ReconcileRun
  <2> QED
    BY <2>3, <2>4, <2>5, <2>6
<1>5. CASE CutFails \/ InsertRunSkeleton
  <2>1. PICK outcome : runs' = Append(runs, NewRun(outcome)) /\ UNCHANGED live
    BY <1>5 DEF CutFails, InsertRunSkeleton, procVars
  <2>2. PICK n : n = Len(runs) + 1
    OBVIOUS
  <2>3. n \notin live /\ \A r \in DOMAIN runs : runs'[r] = runs[r]
    BY <1>2, <2>1, <2>2, InsertedRun
  <2>4. NoLiveDisposed'
    BY <1>2, <2>1, <2>3 DEF LiveInv, NoLiveDisposed
  <2>5. sp'.stage = "none" \/ sp'.run = n
    <3>1. CutFails => sp'.stage = "none"
      BY DEF CutFails, SpawnReturns, NoSpawn
    <3>2. InsertRunSkeleton => sp'.run = n
      BY <2>2 DEF InsertRunSkeleton, TypeOK, SpawnOK
    <3> QED
      BY <1>5, <3>1, <3>2
  <2> QED
    BY <2>1, <2>3, <2>4, <2>5 DEF LiveInv
<1>6. CASE Spawn
  <2>1. live' = live \cup {sp.run} /\ UNCHANGED runs /\ runs[sp.run].outcome = "none"
    BY <1>6 DEF Spawn, dbVars, LedgerInv
  <2>2. sp'.stage = "record"
    BY <1>6 DEF Spawn, TypeOK, SpawnOK
  <2> QED
    BY <2>1, <2>2 DEF LiveInv, NoLiveDisposed
<1>7. CASE SpawnFails \/ RecordSpawn
  <2>1. sp'.stage = "none" /\ UNCHANGED live
    BY <1>7 DEF SpawnFails, RecordSpawn, SpawnReturns, NoSpawn, procVars
  <2>2. CASE SpawnFails
    <3>1. sp.run \notin live /\ \A r \in DOMAIN runs : r # sp.run => runs'[r] = runs[r]
      BY <2>2 DEF SpawnFails, RecordDisposition, LiveInv
    <3> QED
      BY <1>2, <2>1, <3>1 DEF LiveInv, NoLiveDisposed
  <2>3. CASE RecordSpawn
    <3>1. \A r \in DOMAIN runs : runs'[r].outcome = runs[r].outcome
      <4>1. \A r \in DOMAIN runs : runs[r] \in Run
        BY RunRow DEF TypeOK
      <4> QED
        BY <2>3, <4>1 DEF RecordSpawn, Run
    <3> QED
      BY <1>2, <2>1, <3>1 DEF LiveInv, NoLiveDisposed
  <2> QED
    BY <1>7, <2>2, <2>3
<1>8. CASE CutWorktree \/ ReRunInWorktree \/ ReRunByCutting \/ FollowUpOne \/ LaunchEligible \/ EndTick
  <2>1. UNCHANGED <<runs, live>>
    BY <1>8 DEF CutWorktree, ReRunInWorktree, ReRunByCutting, FollowUpOne, LaunchEligible, EndTick, dbVars, procVars
  <2>2. sp'.stage # "spawn" \/ UNCHANGED sp
    <3>1. CutWorktree => sp'.stage = "insert"
      BY DEF CutWorktree, TypeOK, SpawnOK
    <3>2. \A stage, t, kind, i : Spawning(stage, t, kind, i).stage = stage
      BY DEF Spawning
    <3>3. NoSpawn.stage = "none"
      BY DEF NoSpawn
    <3>4. ReRunInWorktree \/ ReRunByCutting \/ FollowUpOne \/ LaunchEligible \/ EndTick =>
             \/ UNCHANGED sp \/ sp' = NoSpawn
             \/ \E stage \in {"cut", "insert"} : \E t, kind, i : sp' = Spawning(stage, t, kind, i)
      BY DEF ReRunInWorktree, ReRunByCutting, FollowUpOne, LaunchEligible, EndTick, ResetTick
    <3> QED
      BY <1>8, <3>1, <3>2, <3>3, <3>4
  <2> QED
    BY <2>1, <2>2 DEF LiveInv, NoLiveDisposed
<1>9. CASE Environment \/ UNCHANGED vars
  <2>1. UNCHANGED <<sp, runs>>
    BY <1>9, Zenon DEF Environment, Click, Commit, Exit, ReviewPR, dbVars, tickVars, vars
  <2> QED
    BY <1>3, <2>1
<1> QED
  BY <1>3, <1>4, <1>5, <1>6, <1>7, <1>8, <1>9, NoFaultSteps
  DEF Next, Loop, Spawner, Observe, ApplyLaunchIntents, ApplyCancel, CancelsDone, ApplyKill,
      InterruptForFollowUps, SaveObservation, ConsumeVerbIntent, PlanLaunches, dbVars

(* No two live runs are of the same ticket: both are without an outcome. *)
LEMMA LiveAlone == TypeOK /\ LatestOpen /\ NoLiveDisposed => OneAgentPerWorktree
<1> SUFFICES ASSUME TypeOK, LatestOpen, NoLiveDisposed,
                    NEW r \in live, NEW q \in live, runs[r].ticket = runs[q].ticket
             PROVE  r = q
  BY DEF OneAgentPerWorktree
<1>1. r \in DOMAIN runs /\ q \in DOMAIN runs
  BY DEF TypeOK, ProcOK
<1>2. ~(r < q) /\ ~(q < r)
  BY <1>1 DEF LatestOpen, NoLiveDisposed
<1>3. r \in Nat /\ q \in Nat
  BY <1>1, LenProperties DEF TypeOK, DbOK
<1> QED
  BY <1>2, <1>3

(* The whole invariant is kept. *)
LEMMA FleetStep ==
    ASSUME Calm, TypeOK, TypeOK', LaunchInv, LedgerInv, ListInv, FleetInv, [Next]_vars
    PROVE  FleetInv'
<1>1. OneClick /\ SettledInv /\ SeenInv /\ LiveInv
  BY DEF FleetInv
<1>2. LatestOpen /\ SpawnSettled /\ DeadSeen /\ VisitedAlive
  BY <1>1 DEF SettledInv, SeenInv
<1>3. OneClick'
  BY <1>1, OneClickStep
<1>4. SettledInv'
  BY <1>1, <1>2, LatestOpenStep, SpawnSettledStep, ReRunSettledStep, ReservedOnlyStep DEF SettledInv
<1>5. SeenInv'
  BY <1>1, <1>2, DeadSeenStep, VisitedAliveStep, VerbSettledStep DEF SeenInv
<1>6. LiveInv'
  BY <1>1, LiveStep
<1> QED
  BY <1>3, <1>4, <1>5, <1>6 DEF FleetInv

(* The invariant holds throughout. *)
LEMMA FleetKept ==
    ASSUME Calm
    PROVE  Spec => []FleetInv
<1>1. TypeOK /\ TypeOK' /\ LaunchInv /\ LedgerInv /\ ListInv /\ FleetInv /\ [Next]_vars => FleetInv'
  BY FleetStep
<1> QED
  BY <1>1, FleetInit, LoopInvariants, PTL DEF Spec

(* At most one agent works in a ticket's worktree (spawnRun), for a        *)
(* patient owner, without stacked tickets, when only tools fail.           *)
THEOREM OneAgentWorks ==
    ASSUME Calm
    PROVE  Spec => []OneAgentPerWorktree
<1>1. TypeOK /\ FleetInv => OneAgentPerWorktree
  BY LiveAlone DEF FleetInv, SettledInv, LiveInv
<1> QED
  BY <1>1, FleetKept, LoopInvariants, PTL

(* Under the same hypotheses only a dead run is disposed of                *)
(* (reconcileRuns).                                                        *)
THEOREM OnlyDeadDisposed ==
    ASSUME Calm
    PROVE  Spec => []NoLiveDisposed
<1>1. FleetInv => NoLiveDisposed
  BY DEF FleetInv, LiveInv
<1> QED
  BY <1>1, FleetKept, PTL

-----------------------------------------------------------------------------
(* The cap.  No hypotheses: whatever fails and is clicked.                 *)

(* What precedes a ticket in LaunchPlan's order, among E. *)
Ahead(cand, E, t) == {u \in E : Before(cand, u, t)}

(* LaunchPlan's order is total and strict, so the later of two tickets has *)
(* more ahead of it.                                                       *)
LEMMA AheadGrows ==
    ASSUME NEW E \in SUBSET Tickets, NEW cand, \A t \in Tickets : cand[t].inFlight \in BOOLEAN,
           NEW u \in E, NEW t \in E, Before(cand, u, t)
    PROVE  Cardinality(Ahead(cand, E, u)) < Cardinality(Ahead(cand, E, t))
<1>1. IsFiniteSet(E) /\ E \subseteq Nat
  BY TicketsAssumption, FS_Subset
<1>2. IsFiniteSet(Ahead(cand, E, u)) /\ IsFiniteSet(Ahead(cand, E, t))
  <2>1. Ahead(cand, E, u) \in SUBSET E /\ Ahead(cand, E, t) \in SUBSET E
    BY DEF Ahead
  <2> QED
    BY <1>1, <2>1, FS_Subset
<1>3. \A v \in E : Before(cand, v, u) => Before(cand, v, t)
  BY <1>1 DEF Before
<1>4. ~Before(cand, u, u)
  BY <1>1 DEF Before
<1>5. Ahead(cand, E, u) \in SUBSET Ahead(cand, E, t) /\ Ahead(cand, E, u) # Ahead(cand, E, t)
  BY <1>3, <1>4 DEF Ahead
<1>6. /\ Cardinality(Ahead(cand, E, u)) <= Cardinality(Ahead(cand, E, t))
      /\ Cardinality(Ahead(cand, E, u)) # Cardinality(Ahead(cand, E, t))
  BY <1>2, <1>5, FS_Subset
<1>7. Cardinality(Ahead(cand, E, u)) \in Nat /\ Cardinality(Ahead(cand, E, t)) \in Nat
  BY <1>2, FS_CardinalityType
<1> QED
  BY <1>6, <1>7

(* LaunchPlan selects no more tickets than there are free slots: each has  *)
(* its own number of tickets ahead of it, below the number of slots.       *)
LEMMA PlanFits ==
    ASSUME NEW cand, \A t \in Tickets : cand[t].inFlight \in BOOLEAN,
           NEW running \in Nat, NEW maxAgents \in Nat, NEW paused,
           NEW P, P = LaunchPlan(cand, running, maxAgents, paused), P # {}
    PROVE  IsFiniteSet(P) /\ running + Cardinality(P) <= maxAgents
<1> DEFINE E == {t \in Tickets : Eligible(cand[t])}
           free == maxAgents - running
<1>1. /\ free \in Nat /\ 0 < free
      /\ P = {t \in E : Cardinality({u \in E : Before(cand, u, t)}) < free}
  <2>1. ~(paused \/ free <= 0)
    BY DEF LaunchPlan
  <2> QED
    BY <2>1 DEF LaunchPlan
<1>2. E \in SUBSET Tickets /\ P \in SUBSET E
  BY <1>1
<1>3. P = {t \in E : Cardinality(Ahead(cand, E, t)) < free}
  BY <1>1 DEF Ahead
<1>4. running + free = maxAgents
  OBVIOUS
<1> HIDE DEF E, free
<1>5. IsFiniteSet(E) /\ E \subseteq Nat
  BY <1>2, TicketsAssumption, FS_Subset
<1>6. IsFiniteSet(P)
  BY <1>2, <1>5, FS_Subset
<1>7. IsFiniteSet(0..(free - 1)) /\ Cardinality(0..(free - 1)) = free
  BY <1>1, FS_Interval
<1> DEFINE f == [t \in P |-> Cardinality(Ahead(cand, E, t))]
<1>8. f \in [P -> 0..(free - 1)]
  <2> SUFFICES ASSUME NEW t \in P PROVE Cardinality(Ahead(cand, E, t)) \in 0..(free - 1)
    OBVIOUS
  <2>1. Ahead(cand, E, t) \in SUBSET E
    BY DEF Ahead
  <2>2. Cardinality(Ahead(cand, E, t)) \in Nat
    BY <1>5, <2>1, FS_Subset, FS_CardinalityType
  <2> QED
    BY <1>1, <1>3, <2>2
<1>9. ASSUME NEW u \in P, NEW t \in P, u # t
      PROVE  f[u] # f[t]
  <2>1. cand[u].inFlight \in BOOLEAN /\ cand[t].inFlight \in BOOLEAN /\ u \in Nat /\ t \in Nat
    BY <1>2, <1>5
  <2>2. Before(cand, u, t) \/ Before(cand, t, u)
    <3>1. u < t \/ t < u
      BY <1>9, <2>1
    <3> QED
      BY <2>1, <3>1 DEF Before
  <2>3. \A x \in E : Cardinality(Ahead(cand, E, x)) \in Nat
    <3>1. \A x \in E : Ahead(cand, E, x) \in SUBSET E
      BY DEF Ahead
    <3> QED
      BY <1>5, <3>1, FS_Subset, FS_CardinalityType
  <2>4. \/ Cardinality(Ahead(cand, E, u)) < Cardinality(Ahead(cand, E, t))
        \/ Cardinality(Ahead(cand, E, t)) < Cardinality(Ahead(cand, E, u))
    BY <1>2, <2>2, AheadGrows
  <2> QED
    BY <1>2, <2>3, <2>4
<1> HIDE DEF f
<1>10. ~(Cardinality(0..(free - 1)) < Cardinality(P))
  <2>1. PICK T : T = 0..(free - 1)
    OBVIOUS
  <2>2. IsFiniteSet(T) /\ f \in [P -> T]
    BY <1>7, <1>8, <2>1, Zenon
  <2>3. ASSUME Cardinality(T) < Cardinality(P)
        PROVE  \E x, y \in P : x # y /\ f[x] = f[y]
    BY <1>6, <2>2, <2>3, FS_PigeonHole
  <2> QED
    BY <1>9, <2>1, <2>3, Zenon
<1>11. Cardinality(P) \in Nat
  BY <1>6, FS_CardinalityType
<1> QED
  BY <1>1, <1>4, <1>6, <1>7, <1>10, <1>11

(* While it launches, the tick has room for every ticket still listed. *)
CapInv ==
    pc = "launching" /\ todo # {} => Cardinality(RunningTickets \cup todo) <= MaxAgents

(* PlanLaunches counts the running tickets. *)
LEMMA PlanCap == TypeOK /\ PlanLaunches => CapInv'
<1> SUFFICES ASSUME TypeOK, PlanLaunches, todo' # {}
             PROVE  Cardinality(RunningTickets' \cup todo') <= MaxAgents
  BY DEF CapInv
<1>1. PICK o, paused : todo' \subseteq LaunchAfter(o, paused)
  BY Zenon DEF PlanLaunches
<1>2. RunningTickets' = RunningTickets
  BY DEF PlanLaunches, dbVars, RunningTickets, HasRun, RunsOf, Latest
<1>3. PICK P : P = LaunchAfter(o, paused)
  OBVIOUS
<1>4. IsFiniteSet(RunningTickets) /\ Cardinality(RunningTickets) \in Nat
  <2>1. RunningTickets \in SUBSET Tickets
    BY DEF RunningTickets
  <2> QED
    BY <2>1, TicketsAssumption, FS_Subset, FS_CardinalityType
<1>5. Len(spawned) \in Nat /\ MaxAgents \in Nat
  BY LoopAssumption, LenProperties DEF TypeOK, TickOK
<1>6. IsFiniteSet(P) /\ Cardinality(RunningTickets) + Len(spawned) + Cardinality(P) <= MaxAgents
  <2>1. PICK cand : cand = [t \in Tickets |-> Candidate(t, o)]
    OBVIOUS
  <2>2. \A t \in Tickets : cand[t].inFlight \in BOOLEAN
    BY <2>1 DEF Candidate
  <2>3. PICK running \in Nat : running = Cardinality(RunningTickets) + Len(spawned)
    BY <1>4, <1>5
  <2>4. P = LaunchPlan(cand, running, MaxAgents, paused) /\ P # {}
    BY <1>1, <1>3, <2>1, <2>3 DEF LaunchAfter
  <2> QED
    BY <1>5, <2>2, <2>3, <2>4, PlanFits
<1>7. IsFiniteSet(todo') /\ Cardinality(todo') <= Cardinality(P)
  <2>1. todo' \in SUBSET P
    BY <1>1, <1>3
  <2> QED
    BY <1>6, <2>1, FS_Subset
<1>8. Cardinality(RunningTickets \cup todo') <= Cardinality(RunningTickets) + Cardinality(todo')
  <2>1. IsFiniteSet(RunningTickets \cap todo')
    <3>1. RunningTickets \cap todo' \in SUBSET RunningTickets
      OBVIOUS
    <3> QED
      BY <1>4, <3>1, FS_Subset
  <2>2. Cardinality(RunningTickets \cap todo') \in Nat /\ Cardinality(todo') \in Nat
    BY <1>7, <2>1, FS_CardinalityType
  <2>3. Cardinality(RunningTickets \cup todo') =
           Cardinality(RunningTickets) + Cardinality(todo') - Cardinality(RunningTickets \cap todo')
    BY <1>4, <1>7, FS_Union
  <2> QED
    BY <1>4, <2>2, <2>3
<1>9. /\ Cardinality(P) \in Nat /\ Cardinality(todo') \in Nat
      /\ Cardinality(RunningTickets \cup todo') \in Nat
  BY <1>4, <1>6, <1>7, FS_Union, FS_CardinalityType
<1>10. Cardinality(RunningTickets \cup todo') <= MaxAgents
  BY <1>4, <1>5, <1>6, <1>7, <1>8, <1>9
<1> QED
  BY <1>2, <1>10, Zenon

(* While the tick launches, only a listed ticket begins to run. *)
LEMMA ListedRun ==
    ASSUME TypeOK, LaunchInv, LedgerInv, ReservedInv, [Next]_vars, pc = "launching"
    PROVE  RunningTickets' \subseteq RunningTickets \cup todo
<1>1. CASE UNCHANGED runs
  BY <1>1 DEF RunningTickets, HasRun, RunsOf, Latest
<1>2. CASE CutFails \/ InsertRunSkeleton
  <2>1. PICK outcome : runs' = Append(runs, NewRun(outcome)) /\ sp.stage # "none"
    BY <1>2 DEF CutFails, InsertRunSkeleton
  <2>2. sp.ticket \in todo
    BY <2>1 DEF LaunchInv
  <2>3. ASSUME NEW t \in RunningTickets', t # sp.ticket
        PROVE  t \in RunningTickets
    <3>1. t \in Tickets /\ HasRun(t)' /\ Latest(t)'.pgid /\ Latest(t)'.outcome = "none"
      BY <2>3 DEF RunningTickets
    <3>2. HasRun(t) /\ Latest(t)' = Latest(t)
      BY <2>1, <2>3, <3>1, InsertedLatest
    <3> QED
      BY <3>1, <3>2 DEF RunningTickets
  <2> QED
    BY <2>2, <2>3
<1>3. CASE SpawnFails \/ RecordSpawn
  <2>1. sp.run \in DOMAIN runs /\ sp.stage \in {"spawn", "record"}
    BY <1>3 DEF SpawnFails, RecordSpawn, TypeOK, SpawnOK
  <2>2. sp.ticket \in todo /\ runs[sp.run].ticket = sp.ticket
    BY <2>1 DEF LaunchInv, ReservedInv
  <2>3. SameRows
    BY <1>3, <2>1, UpdatedRows DEF SpawnFails, RecordDisposition, RecordSpawn, TypeOK
  <2>4. \A r \in DOMAIN runs : r # sp.run => runs'[r] = runs[r]
    BY <1>3 DEF SpawnFails, RecordDisposition, RecordSpawn
  <2>5. ASSUME NEW t \in RunningTickets', t # sp.ticket
        PROVE  t \in RunningTickets
    <3>1. t \in Tickets /\ HasRun(t)' /\ Latest(t)'.pgid /\ Latest(t)'.outcome = "none"
      BY <2>5 DEF RunningTickets
    <3>2. HasRun(t) /\ Latest(t)' = runs'[Max(RunsOf(t))]
      BY <2>3, <3>1, SameLatest
    <3>3. Max(RunsOf(t)) \in DOMAIN runs /\ runs[Max(RunsOf(t))].ticket = t /\ Latest(t) = runs[Max(RunsOf(t))]
      BY <3>2, LatestRun
    <3>4. Latest(t)' = Latest(t)
      BY <2>2, <2>4, <2>5, <3>2, <3>3
    <3> QED
      BY <3>1, <3>2, <3>4 DEF RunningTickets
  <2> QED
    BY <2>2, <2>5
<1>4. CASE Environment \/ UNCHANGED vars
  <2>1. UNCHANGED runs
    BY <1>4, Zenon DEF Environment, Click, Commit, Exit, ReviewPR, dbVars, vars
  <2> QED
    BY <1>1, <2>1
<1>5. CASE \E r \in todo : ReconcileRun(r)
  BY <1>5 DEF ReconcileRun
<1> QED
  BY <1>1, <1>2, <1>3, <1>4, <1>5
  DEF Next, Loop, Fault, Observe, ApplyLaunchIntents, ApplyCancel, CancelsDone, ApplyKill,
      InterruptForFollowUps, SaveObservation, ReRunInWorktree, ReRunByCutting, FollowUpOne,
      ConsumeVerbIntent, PlanLaunches, LaunchEligible, Spawner, CutWorktree, Spawn, EndTick, dbVars

(* Fewer tickets, fewer running. *)
LEMMA FewerRun ==
    ASSUME TypeOK, pc = "launching", NEW S, S \subseteq RunningTickets \cup todo
    PROVE  Cardinality(S) <= Cardinality(RunningTickets \cup todo)
           /\ Cardinality(S) \in Nat /\ Cardinality(RunningTickets \cup todo) \in Nat
<1>1. RunningTickets \cup todo \in SUBSET Tickets
  BY DEF RunningTickets, TypeOK, TodoOK
<1>2. IsFiniteSet(RunningTickets \cup todo)
  BY <1>1, TicketsAssumption, FS_Subset
<1>3. S \in SUBSET (RunningTickets \cup todo)
  OBVIOUS
<1> QED
  BY <1>2, <1>3, FS_Subset, FS_CardinalityType

(* The list shrinks while the tick launches. *)
LEMMA CapStep ==
    ASSUME TypeOK, LaunchInv, LedgerInv, ReservedInv, CapInv, [Next]_vars
    PROVE  CapInv'
<1>1. CASE pc' # "launching"
  BY <1>1 DEF CapInv
<1>2. CASE PlanLaunches
  BY <1>2, PlanCap
<1>3. ASSUME pc = "launching", todo' \subseteq todo
      PROVE  CapInv'
  <2> SUFFICES ASSUME todo' # {}
               PROVE  Cardinality(RunningTickets' \cup todo') <= MaxAgents
    BY DEF CapInv
  <2>1. Cardinality(RunningTickets \cup todo) <= MaxAgents
    BY <1>3 DEF CapInv
  <2>2. PICK S : S = RunningTickets' \cup todo'
    OBVIOUS
  <2>3. S \subseteq RunningTickets \cup todo
    BY <1>3, <2>2, ListedRun
  <2>4. Cardinality(S) <= MaxAgents
    BY <1>3, <2>1, <2>3, FewerRun, LoopAssumption
  <2> QED
    BY <2>2, <2>4, Zenon
<1>4. CASE Environment \/ UNCHANGED vars
  <2>1. UNCHANGED <<pc, todo>>
    BY <1>4, Zenon DEF Environment, Click, Commit, Exit, ReviewPR, tickVars, vars
  <2> QED
    BY <1>1, <1>3, <2>1
<1>5. CASE Spawner \/ ConsumeVerbIntent \/ LaunchEligible
  <2>1. UNCHANGED pc /\ todo' \subseteq todo
    BY <1>5 DEF Spawner, CutWorktree, CutFails, InsertRunSkeleton, Spawn, SpawnFails, RecordSpawn, SpawnReturns,
       ConsumeVerbIntent, LaunchEligible
  <2> QED
    BY <1>1, <1>3, <2>1
<1> QED
  BY <1>1, <1>2, <1>4, <1>5
  DEF Next, Loop, Fault, Observe, ApplyLaunchIntents, ApplyCancel, CancelsDone, ApplyKill, ReconcileRun,
      InterruptForFollowUps, SaveObservation, ReRunInWorktree, ReRunByCutting, FollowUpOne, VerbReady, EndTick,
      ResetTick

(* A launch fits under max_agents (launchEligible): when it has recorded a *)
(* process, no more than MaxAgents tickets have a recorded running one,    *)
(* whatever fails and is clicked.                                          *)
THEOREM LaunchesFit == Spec => LaunchFitsUnderCap
<1> DEFINE Step == sp.stage = "record" /\ sp.by = 0 /\ sp' = NoSpawn /\ faults' = faults
                      => Cardinality(RunningTickets') <= MaxAgents
<1>1. TypeOK /\ LaunchInv /\ LedgerInv /\ ReservedInv /\ CapInv /\ [Next]_vars => [Step]_vars
  <2> SUFFICES ASSUME TypeOK, LaunchInv, LedgerInv, ReservedInv, CapInv, [Next]_vars,
                      sp.stage = "record", sp.by = 0
               PROVE  Cardinality(RunningTickets') <= MaxAgents
    OBVIOUS
  <2>1. pc = "launching" /\ sp.ticket \in todo
    BY DEF LaunchInv
  <2>2. Cardinality(RunningTickets \cup todo) <= MaxAgents
    BY <2>1 DEF CapInv
  <2>3. PICK S : S = RunningTickets'
    OBVIOUS
  <2>4. S \subseteq RunningTickets \cup todo
    BY <2>1, <2>3, ListedRun
  <2>5. Cardinality(S) <= MaxAgents
    BY <2>1, <2>2, <2>4, FewerRun, LoopAssumption
  <2> QED
    BY <2>3, <2>5, Zenon
<1>2. Init => ReservedInv /\ CapInv
  BY DEF Init, ReservedInv, CapInv, NoSpawn
<1>3. Spec => []ReservedInv
  BY <1>2, LoopInvariants, ReservedStep, PTL DEF Spec
<1>4. TypeOK /\ LaunchInv /\ LedgerInv /\ ReservedInv /\ CapInv /\ [Next]_vars => CapInv'
  BY CapStep
<1>5. Spec => []CapInv
  BY <1>2, <1>3, <1>4, LoopInvariants, PTL DEF Spec
<1>6. [][Step]_vars => LaunchFitsUnderCap
  BY PTL DEF LaunchFitsUnderCap
<1> HIDE DEF Step
<1> QED
  BY <1>1, <1>3, <1>5, <1>6, LoopInvariants, PTL DEF Spec

-----------------------------------------------------------------------------
(* Every running agent is on record.                                       *)

(* Nothing but the recording itself, or a fault, comes between a spawn and *)
(* its record.                                                             *)
LEMMA RecordingStays ==
    ASSUME LaunchInv, [Next]_vars, sp.stage = "record", ~Fault, ~RecordSpawn
    PROVE  sp' = sp
<1>1. pc \in {"verbs", "launching"} /\ sp # NoSpawn
  BY DEF LaunchInv, NoSpawn
<1>2. /\ ~Observe /\ ~ApplyLaunchIntents /\ ~ApplyCancel /\ ~CancelsDone /\ ~ApplyKill
      /\ ~InterruptForFollowUps /\ ~SaveObservation /\ ~\E r \in todo : ReconcileRun(r)
  BY <1>1, Zenon
  DEF Observe, ApplyLaunchIntents, ApplyCancel, CancelsDone, ApplyKill, InterruptForFollowUps,
      SaveObservation, ReconcileRun
<1>3. ~ReRunInWorktree /\ ~ReRunByCutting /\ ~FollowUpOne /\ ~PlanLaunches /\ ~LaunchEligible /\ ~EndTick
  BY <1>1, Zenon
  DEF ReRunInWorktree, ReRunByCutting, FollowUpOne, VerbReady, PlanLaunches, LaunchEligible, EndTick
<1>4. ~CutWorktree /\ ~CutFails /\ ~InsertRunSkeleton /\ ~Spawn /\ ~SpawnFails
  BY DEF CutWorktree, CutFails, InsertRunSkeleton, Spawn, SpawnFails
<1>5. CASE ConsumeVerbIntent
  BY <1>5 DEF ConsumeVerbIntent
<1>6. CASE Environment \/ UNCHANGED vars
  BY <1>6, Zenon DEF Environment, Click, Commit, Exit, ReviewPR, tickVars, vars
<1> QED
  BY <1>2, <1>3, <1>4, <1>5, <1>6, Zenon DEF Next, Loop, Spawner

(* Without a fault, a running agent is on record or is being recorded. *)
LEMMA RecordedStep ==
    ASSUME TypeOK, LaunchInv, FleetRecorded, [Next]_vars, ~Fault
    PROVE  FleetRecorded'
<1> SUFFICES ASSUME NEW r \in live' PROVE runs'[r].pgid \/ (sp'.stage = "record" /\ sp'.run = r)
  BY DEF FleetRecorded
<1>1. CASE Spawn /\ r \notin live
  <2>1. live' = live \cup {sp.run} /\ sp' = [sp EXCEPT !.stage = "record"]
    BY <1>1 DEF Spawn
  <2> QED
    BY <1>1, <2>1 DEF TypeOK, SpawnOK
<1>2. CASE r \in live
  <2>1. r \in DOMAIN runs
    BY <1>2 DEF TypeOK, ProcOK
  <2>2. CASE runs[r].pgid
    BY <2>1, <2>2, RunsKept
  <2>3. CASE sp.stage = "record" /\ sp.run = r
    <3>1. CASE RecordSpawn
      <4>1. runs' = [runs EXCEPT ![r].pgid = TRUE]
        BY <2>3, <3>1 DEF RecordSpawn
      <4>2. runs[r] \in Run
        BY <2>1, RunRow DEF TypeOK
      <4> QED
        BY <2>1, <4>1, <4>2 DEF Run
    <3>2. CASE ~RecordSpawn
      BY <2>3, <3>2, RecordingStays
    <3> QED
      BY <3>1, <3>2
  <2> QED
    BY <1>2, <2>2, <2>3 DEF FleetRecorded
<1> QED
  BY <1>1, <1>2, LiveSteps

(* Every running agent is in the runs table with its process group         *)
(* (RecordSpawn), whatever is clicked and whichever tool, ps or read       *)
(* fails, as long as the daemon neither crashes nor has a store call fail: *)
(* those two, between the spawn and its record, are how an agent gets lost.*)
THEOREM AgentsAreRecorded ==
    ASSUME {"crash", "error"} \cap FaultKinds = {}
    PROVE  Spec => []FleetRecorded
<1>1. ~Fault
  BY DEF Fault
<1>2. TypeOK /\ LaunchInv /\ FleetRecorded /\ [Next]_vars => FleetRecorded'
  BY <1>1, RecordedStep
<1>3. Init => FleetRecorded
  BY DEF Init, FleetRecorded
<1> QED
  BY <1>2, <1>3, LoopInvariants, PTL DEF Spec
=============================================================================
