------------------------------ MODULE RunLoop ------------------------------
(***************************************************************************)
(* The reconcile loop of internal/loop and the runs it owns: one tick is   *)
(* observe, absorb, derive, act (RunOnce), interleaved with the agents the *)
(* loop spawned, the operator's clicks, pull requests being merged or      *)
(* closed, and the faults the code meets (crash and restart, a failing     *)
(* store or git call, a failing tp or spawn, a failing ps, a failing fetch *)
(* or gh read).                                                            *)
(*                                                                         *)
(* Scope: one repository, tickets of the single-step workflow v0, launches *)
(* of one ticket each.  Refresh, retarget, draft gate, verdicts, worktree  *)
(* removal, import and repository tracking have no action here.            *)
(***************************************************************************)
EXTENDS Plan, Sequences, FiniteSetsExt

CONSTANTS
    MaxAgents,   \* config max_agents
    MaxClicks,   \* bound: verbs the operator clicks
    MaxCommits,  \* bound: commits on one branch
    MaxFaults,   \* bound: faults of the kinds in FaultKinds
    FaultKinds,  \* which faults happen: "crash", "error", "tool", "ps", "read"
    Patient      \* TRUE: no click on a ticket that has a pending intent

ASSUME LoopAssumption ==
    /\ {MaxAgents, MaxClicks, MaxCommits, MaxFaults} \subseteq Nat
    /\ FaultKinds \subseteq {"crash", "error", "tool", "ps", "read"}
    /\ Patient \in BOOLEAN
    /\ 0 \notin Tickets

VARIABLES
    \* Postgres: what survives a crash of the daemon
    intents,     \* the intents table, indexed by id
    membership,  \* per ticket, what its launches add up to
    runs,        \* the runs table, indexed by id
    saved,       \* the observation SaveObservation stored, which the page reads
    \* the world outside the daemon
    live,        \* runs whose process is running
    doomed,      \* running processes that have been signalled
    children,    \* processes this daemon instance spawned and has not reaped
    asked,       \* runs whose agent wrote a question file
    head,        \* per ticket, the commits on its branch
    tree,        \* per ticket: no branch, a branch, or a branch with a worktree
    pr,          \* per ticket, its pull request
    pushed,      \* per ticket, the tip RecordPush stored
    \* the tick in progress
    pc,          \* the phase of RunOnce
    obs,         \* tick.obs
    todo,        \* what the phase's loop has still to visit
    due,         \* the intent whose effect is done and is to be consumed, or 0
    sp,          \* the cutAndSpawn or spawnRun in progress
    spawned,     \* tick.spawned
    cancelled,   \* tick.cancelled
    \* history
    faults       \* faults so far

dbVars    == <<intents, membership, runs, saved>>
procVars  == <<live, doomed, children, asked>>
repoVars  == <<head, tree, pr, pushed>>
tickVars  == <<pc, obs, todo, due, sp, spawned, cancelled>>
vars      == <<dbVars, procVars, repoVars, tickVars, faults>>

Verb    == {"launch", "cancel", "kill", "re-run", "follow-up"}
Outcome == {"none", "push", "failed", "cut_failed", "asked", "continued"}
Intent  == [ticket : Tickets, verb : Verb, pending : BOOLEAN]
Run     == [ticket : Tickets, kind : {"agent", "follow_up"}, baseline : Nat,
            pgid : BOOLEAN, outcome : Outcome, by : Nat]
Phase   == {"idle", "launch", "cancel", "kill", "reconcile", "verbs", "launching"}
Stage   == {"none", "cut", "insert", "spawn", "record"}
Obs     == [run : [Tickets -> {"unseen", "alive", "dead"}], wt : SUBSET Tickets,
            pr : [Tickets -> PRState], asked : SUBSET Nat, bad : BOOLEAN]

NoObs   == [run |-> [t \in Tickets |-> "unseen"], wt |-> {},
            pr |-> [t \in Tickets |-> "absent"], asked |-> {}, bad |-> FALSE]
NoSpawn == [stage |-> "none", ticket |-> 0, kind |-> "agent", by |-> 0, run |-> 0]

-----------------------------------------------------------------------------
(* Reads of the store.                                                     *)

RunsOf(t) == {r \in DOMAIN runs : runs[r].ticket = t}
HasRun(t) == RunsOf(t) # {}

(* LatestRunsByTicket: the highest run id of the ticket. *)
Latest(t) == runs[Max(RunsOf(t))]

(* Faulty variants of PendingRuns: runs without a recorded process are     *)
(* listed too; the runs a follow-up started are left out.                  *)
PendingUnspawnedRuns == {r \in DOMAIN runs : runs[r].outcome = "none"}
PendingAgentRuns == {r \in DOMAIN runs : runs[r].pgid /\ runs[r].outcome = "none" /\ runs[r].kind = "agent"}

(* PendingRunsAwaitingDisposition: a process was recorded, no outcome yet. *)
PendingRuns == {r \in DOMAIN runs : runs[r].pgid /\ runs[r].outcome = "none"}

PendingIntents(v) == {i \in DOMAIN intents : intents[i].pending /\ intents[i].verb = v}

(* Faulty variant of FollowUpQueued: a consumed message still counts. *)
FollowUpEverQueued(t) ==
    \E i \in DOMAIN intents : intents[i].verb = "follow-up" /\ intents[i].ticket = t

FollowUpQueued(t) == \E i \in PendingIntents("follow-up") : intents[i].ticket = t

-----------------------------------------------------------------------------
(* Derive: the state of a row and the verbs it offers.                     *)

StatusFromPush(t, o) ==
    CASE o.pr[t] = "closed" -> "pr_closed_unmerged"
      [] o.pr[t] = "open"   -> "checking"
      [] OTHER              -> "push_pending"

StatusFromRun(t, o) ==
    CASE Latest(t).outcome = "push"       -> StatusFromPush(t, o)
      [] Latest(t).outcome = "asked"      -> "awaiting_input"
      [] Latest(t).outcome = "continued"  -> "queued"
      [] Latest(t).outcome = "cut_failed" -> "cut_failed"
      [] Latest(t).outcome = "failed"     -> "failed"

Status(t, o) ==
    LET unlock == Unlocked(t, PrsByBranch(o.pr))
    IN  CASE HasRun(t) /\ unlock.blockerClosed -> "base_gone"
          [] HasRun(t) /\ ~unlock.blockerClosed /\ o.pr[t] = "merged" -> "merged"
          [] HasRun(t) /\ ~unlock.blockerClosed /\ o.pr[t] # "merged" /\ o.run[t] = "alive" -> "running"
          [] HasRun(t) /\ ~unlock.blockerClosed /\ o.pr[t] # "merged" /\ o.run[t] # "alive"
             /\ Latest(t).outcome # "none" -> StatusFromRun(t, o)
          [] OTHER ->
             CASE membership[t] = "cancelled" -> "cancelled"
               [] membership[t] = "active"    -> "queued"
               [] membership[t] = "none"      -> IF unlock.unlocked THEN "ready" ELSE "blocked"

(* stateInfo, for the verbs modelled here. *)
Verbs(s) ==
    CASE s = "queued"  -> {"cancel"}
      [] s = "running" -> {"kill", "follow-up"}
      [] s \in {"blocked", "ready", "cancelled"} -> {"launch"}
      [] s \in {"push_pending", "merged"} -> {}
      [] s \in {"failed", "cut_failed", "checking", "pr_closed_unmerged", "base_gone", "awaiting_input"}
           -> {"re-run", "follow-up"}

-----------------------------------------------------------------------------
Init ==
    /\ intents = <<>> /\ runs = <<>>
    /\ membership = [t \in Tickets |-> "none"]
    /\ saved = NoObs
    /\ live = {} /\ doomed = {} /\ children = {} /\ asked = {}
    /\ head = [t \in Tickets |-> 0]
    /\ tree = [t \in Tickets |-> "none"]
    /\ pr = [t \in Tickets |-> "absent"]
    /\ pushed = [t \in Tickets |-> 0]
    /\ pc = "idle" /\ obs = NoObs /\ todo = {} /\ due = 0
    /\ sp = NoSpawn /\ spawned = <<>> /\ cancelled = {}
    /\ faults = 0

-----------------------------------------------------------------------------
(* The operator.  handleVerb checks the state derived from the last saved  *)
(* observation; handleLaunch checks no state.  Neither looks at intents    *)
(* that are still pending.                                                 *)
Offers(t, v) == v \in Verbs(Status(t, saved))

QueueIntent(t, v) == intents' = Append(intents, [ticket |-> t, verb |-> v, pending |-> TRUE])

Click(t, v) ==
    /\ Len(intents) < MaxClicks
    /\ v # "launch" => Offers(t, v)
    /\ Patient => \A i \in DOMAIN intents : ~(intents[i].pending /\ intents[i].ticket = t)
    /\ QueueIntent(t, v)
    /\ UNCHANGED <<membership, runs, saved, procVars, repoVars, tickVars, faults>>

-----------------------------------------------------------------------------
(* Observe and absorb.                                                     *)

(* Liveness: ps failing reads as a dead process. *)
Liveness(r, misread) == IF r \in live \ misread THEN "alive" ELSE "dead"

(* NewObserver: a failing fetch or gh read carries the saved facts forward.*)
ReadRepo(bad) ==
    IF bad THEN [wt |-> saved.wt, pr |-> saved.pr]
    ELSE [wt |-> {t \in Tickets : tree[t] = "worktree"}, pr |-> pr]

(* observe and observeRuns.  The rows of PendingRuns come in no order and  *)
(* obs.Runs has one entry per ticket, so of several pending runs of one    *)
(* ticket any may be the one that is kept.                                 *)
Observe ==
    /\ pc = "idle"
    /\ \E misread \in SUBSET (PendingRuns \cap live), bad \in BOOLEAN,
          run \in [Tickets -> {"unseen", "alive", "dead"}] :
         LET of(t) == PendingRuns \cap RunsOf(t)
             cost  == Cardinality(misread) + (IF bad THEN 1 ELSE 0)
         IN  /\ misread # {} => "ps" \in FaultKinds
             /\ bad => "read" \in FaultKinds
             /\ faults + cost <= MaxFaults
             /\ faults' = faults + cost
             /\ \A t \in Tickets :
                   run[t] \in IF of(t) = {} THEN {"unseen"} ELSE {Liveness(r, misread) : r \in of(t)}
             /\ obs' = [run   |-> run,
                        wt    |-> ReadRepo(bad).wt,
                        pr    |-> ReadRepo(bad).pr,
                        asked |-> {r \in PendingRuns : Liveness(r, misread) = "dead" /\ r \in asked},
                        bad   |-> bad]
    /\ pc' = "launch"
    /\ UNCHANGED <<dbVars, procVars, repoVars, todo, due, sp, spawned, cancelled>>

(* Claims every pending launch intent and activates its launch in one      *)
(* transaction; applyCancelIntents then lists the pending cancels.         *)
ApplyLaunchIntents ==
    LET claimed == PendingIntents("launch")
    IN  /\ pc = "launch"
        /\ intents' = [i \in DOMAIN intents |->
                          [intents[i] EXCEPT !.pending = @ /\ i \notin claimed]]
        /\ membership' = [t \in Tickets |->
                             IF \E i \in claimed : intents[i].ticket = t
                             THEN "active" ELSE membership[t]]
        /\ todo' = PendingIntents("cancel")
        /\ pc' = "cancel"
        /\ UNCHANGED <<runs, saved, procVars, repoVars, obs, due, sp, spawned, cancelled, faults>>

(* Faulty variant of ConsumeVerbIntent: consumed_at is not written. *)
SkipConsumption ==
    /\ due # 0
    /\ todo' = todo \ {due}
    /\ due' = 0
    /\ UNCHANGED <<dbVars, procVars, repoVars, pc, obs, sp, spawned, cancelled, faults>>

(* The second half of consumeEach: the effect is done, the intent is not   *)
(* yet consumed.  Every crash between the two repeats the effect.          *)
ConsumeVerbIntent ==
    /\ due # 0
    /\ intents' = [intents EXCEPT ![due].pending = FALSE]
    /\ todo' = todo \ {due}
    /\ due' = 0
    /\ UNCHANGED <<membership, runs, saved, procVars, repoVars, pc, obs, sp, spawned, cancelled, faults>>

(* Faulty variant of ApplyCancel: the launch stays active. *)
CancelKeepsLaunch ==
    /\ pc = "cancel" /\ due = 0 /\ todo # {}
    /\ due' = Min(todo)
    /\ UNCHANGED <<dbVars, procVars, repoVars, pc, obs, todo, sp, spawned, cancelled, faults>>

CancelLaunchesFor(t) ==
    membership' = [membership EXCEPT ![t] = IF @ = "active" THEN "cancelled" ELSE @]

ApplyCancel ==
    /\ pc = "cancel" /\ due = 0 /\ todo # {}
    /\ CancelLaunchesFor(intents[Min(todo)].ticket)
    /\ due' = Min(todo)
    /\ UNCHANGED <<intents, runs, saved, procVars, repoVars, pc, obs, todo, sp, spawned, cancelled, faults>>

CancelsDone ==
    /\ pc = "cancel" /\ due = 0 /\ todo = {}
    /\ pc' = "kill"
    /\ todo' = PendingIntents("kill")
    /\ UNCHANGED <<dbVars, procVars, repoVars, obs, due, sp, spawned, cancelled, faults>>

(* cancelRun signals the process group of each run in rs: SIGTERM, then    *)
(* SIGKILL.  Death follows at some later moment.                           *)
CancelRuns(rs) ==
    /\ doomed' = doomed \cup (rs \cap live)
    /\ cancelled' = cancelled \cup rs

(* The run a kill or a follow-up interrupts: the latest one of the ticket, *)
(* if it is pending.                                                       *)
Interruptible(t) == {r \in PendingRuns : HasRun(t) /\ r = Max(RunsOf(t))}

ApplyKill ==
    /\ pc = "kill" /\ due = 0 /\ todo # {}
    /\ CancelRuns(Interruptible(intents[Min(todo)].ticket))
    /\ due' = Min(todo)
    /\ UNCHANGED <<dbVars, live, children, asked, repoVars, pc, obs, todo, sp, spawned, faults>>

(* Faulty variant of InterruptForFollowUps: no run is interrupted. *)
LeaveRunsForFollowUps ==
    /\ pc = "kill" /\ due = 0 /\ todo = {}
    /\ pc' = "reconcile"
    /\ todo' = PendingRuns
    /\ UNCHANGED <<dbVars, procVars, repoVars, obs, due, sp, spawned, cancelled, faults>>

InterruptForFollowUps ==
    /\ pc = "kill" /\ due = 0 /\ todo = {}
    /\ CancelRuns(UNION {Interruptible(intents[i].ticket) : i \in PendingIntents("follow-up")})
    /\ pc' = "reconcile"
    /\ todo' = PendingRuns
    /\ UNCHANGED <<dbVars, live, children, asked, repoVars, obs, due, sp, spawned, faults>>

(* outcomeFor, for a single-step workflow: a queued follow-up, then a      *)
(* question, then commits after the run's baseline in the worktree the     *)
(* tick observed.  Without one the code falls back on the tip of the       *)
(* branch at origin, which exists only once a tick that observed the       *)
(* worktree has pushed it, so here that is no commits.                     *)
OutcomeFor(r, o) ==
    LET t == runs[r].ticket
    IN  CASE FollowUpQueued(t) -> "continued"
          [] ~FollowUpQueued(t) /\ r \in o.asked -> "asked"
          [] ~FollowUpQueued(t) /\ r \notin o.asked ->
                IF t \in o.wt /\ head[t] > runs[r].baseline THEN "push" ELSE "failed"

(* Reap waits for a process that is this daemon's child: it does not       *)
(* return before such a process has exited.                                *)
Reap(r) ==
    /\ r \notin children \cap live
    /\ children' = children \ {r}

(* Only a row without an outcome is updated. *)
RecordDisposition(r, outcome) ==
    /\ runs[r].outcome = "none"
    /\ runs' = [runs EXCEPT ![r].outcome = outcome]

DisposeRun(r, o) == Reap(r) /\ RecordDisposition(r, OutcomeFor(r, o))

(* Faulty variant of ReconcileRun: a signalled run counts as ended. *)
ReconcileWithoutRecheck(r) ==
    LET t == runs[r].ticket
    IN  /\ pc = "reconcile" /\ r \in todo
        /\ runs' = IF obs.run[t] = "alive" /\ r \notin cancelled THEN runs
                   ELSE [runs EXCEPT ![r].outcome = OutcomeFor(r, obs)]
        /\ todo' = todo \ {r}
        /\ UNCHANGED <<intents, membership, saved, procVars, repoVars,
                       pc, obs, due, sp, spawned, cancelled, faults>>

(* Visits run r.  The ticket's entry in obs.Runs decides, unless the run   *)
(* was cancelled in this tick: then liveness is read again.                *)
ReconcileRun(r) ==
    LET t       == runs[r].ticket
        recheck == obs.run[t] = "unseen" \/ (obs.run[t] = "alive" /\ r \in cancelled)
        died    == [obs EXCEPT !.run[t] = "dead",
                               !.asked = IF r \in asked THEN @ \cup {r} ELSE @]
    IN  /\ pc = "reconcile" /\ r \in todo
        /\ \/ /\ obs.run[t] = "alive" /\ ~recheck
              /\ UNCHANGED <<obs, children, runs>>
           \/ /\ recheck /\ r \in live
              /\ obs' = [obs EXCEPT !.run[t] = "alive"]
              /\ UNCHANGED <<children, runs>>
           \/ /\ recheck /\ r \notin live
              /\ obs' = died
              /\ DisposeRun(r, died)
           \/ /\ obs.run[t] = "dead"
              /\ UNCHANGED obs
              /\ DisposeRun(r, obs)
        /\ todo' = todo \ {r}
        /\ UNCHANGED <<intents, membership, saved, live, doomed, asked, repoVars,
                       pc, due, sp, spawned, cancelled, faults>>

(* SaveObservation, then derive: the snapshot act works from lists the     *)
(* intents pending now.  act filters the entries of a repository whose     *)
(* read failed, not its intents.                                           *)
SaveObservation ==
    /\ pc = "reconcile" /\ todo = {}
    /\ saved' = obs
    /\ todo' = PendingIntents("re-run") \cup PendingIntents("follow-up")
    /\ pc' = "verbs"
    /\ UNCHANGED <<intents, membership, runs, procVars, repoVars, obs, due, sp, spawned, cancelled, faults>>

-----------------------------------------------------------------------------
(* Act.                                                                    *)

(* Faulty variant of ResetTick: the next tick starts with this one's list. *)
KeepTodo ==
    /\ pc' = "idle" /\ obs' = NoObs /\ UNCHANGED todo /\ due' = 0
    /\ sp' = NoSpawn /\ spawned' = <<>> /\ cancelled' = {}

ResetTick ==
    /\ pc' = "idle" /\ obs' = NoObs /\ todo' = {} /\ due' = 0
    /\ sp' = NoSpawn /\ spawned' = <<>> /\ cancelled' = {}

Spawning(stage, t, kind, by) ==
    [stage |-> stage, ticket |-> t, kind |-> kind, by |-> by, run |-> 0]

(* applyReRunIntents runs over its intents before applyFollowUpIntents     *)
(* starts, each in id order.                                               *)
NextVerbIntent ==
    LET reruns == {i \in todo : intents[i].verb = "re-run"}
    IN  IF reruns # {} THEN Min(reruns) ELSE Min(todo)

VerbReady(v) ==
    /\ pc = "verbs" /\ due = 0 /\ sp = NoSpawn /\ todo # {}
    /\ intents[NextVerbIntent].verb = v

(* reRunOne in the worktree the tick observed. *)
ReRunInWorktree ==
    LET t == intents[NextVerbIntent].ticket
    IN  /\ VerbReady("re-run")
        /\ t \in obs.wt
        /\ sp' = Spawning("insert", t, "agent", NextVerbIntent)
        /\ UNCHANGED <<dbVars, procVars, repoVars, pc, obs, todo, due, spawned, cancelled, faults>>

(* reRunOne when the tick observed no worktree: the stale branch goes and  *)
(* the worktree is cut again.  git refuses to delete a branch that is      *)
(* checked out, and that error ends the tick.                              *)
ReRunByCutting ==
    LET t == intents[NextVerbIntent].ticket
    IN  /\ VerbReady("re-run")
        /\ t \notin obs.wt
        /\ \/ /\ tree[t] # "worktree"
              /\ tree' = [tree EXCEPT ![t] = "none"]
              /\ sp' = Spawning("cut", t, "agent", NextVerbIntent)
              /\ UNCHANGED <<pc, obs, todo, due, spawned, cancelled>>
           \/ /\ tree[t] = "worktree"
              /\ ResetTick
              /\ UNCHANGED tree
        /\ UNCHANGED <<dbVars, procVars, head, pr, pushed, faults>>

(* Faulty variant of FollowUpOne: a live run is not waited for. *)
FollowUpWithoutWaiting ==
    LET i == NextVerbIntent
        t == intents[i].ticket
    IN  /\ VerbReady("follow-up")
        /\ IF t \in obs.wt
           THEN sp' = Spawning("insert", t, "follow_up", i) /\ UNCHANGED due
           ELSE due' = i /\ UNCHANGED sp
        /\ UNCHANGED <<dbVars, procVars, repoVars, pc, obs, todo, spawned, cancelled, faults>>

(* followUpOne: it waits for a live run, is refused without a worktree,    *)
(* and otherwise spawns.                                                   *)
FollowUpOne ==
    LET i == NextVerbIntent
        t == intents[i].ticket
    IN  /\ VerbReady("follow-up")
        /\ \/ /\ obs.run[t] = "alive"
              /\ todo' = todo \ {i}
              /\ UNCHANGED <<due, sp>>
           \/ /\ obs.run[t] # "alive" /\ t \notin obs.wt
              /\ due' = i
              /\ UNCHANGED <<todo, sp>>
           \/ /\ obs.run[t] # "alive" /\ t \in obs.wt
              /\ sp' = Spawning("insert", t, "follow_up", i)
              /\ UNCHANGED <<todo, due>>
        /\ UNCHANGED <<dbVars, procVars, repoVars, pc, obs, spawned, cancelled, faults>>

(* The handler that asked for the spawn returns: a verb's intent is to be  *)
(* consumed, a launch is off the list.                                     *)
SpawnReturns ==
    /\ sp' = NoSpawn
    /\ IF sp.by = 0
       THEN todo' = todo \ {sp.ticket} /\ UNCHANGED due
       ELSE due' = sp.by /\ UNCHANGED todo

NewRun(outcome) ==
    [ticket |-> sp.ticket, kind |-> sp.kind, baseline |-> head[sp.ticket],
     pgid |-> FALSE, outcome |-> outcome, by |-> sp.by]

ToolFails == "tool" \in FaultKinds /\ faults < MaxFaults

(* tp new: it refuses a branch that exists. *)
CutWorktree ==
    /\ sp.stage = "cut"
    /\ tree[sp.ticket] = "none"
    /\ tree' = [tree EXCEPT ![sp.ticket] = "worktree"]
    /\ sp' = [sp EXCEPT !.stage = "insert"]
    /\ UNCHANGED <<dbVars, procVars, head, pr, pushed, pc, obs, todo, due, spawned, cancelled, faults>>

CutFails ==
    /\ sp.stage = "cut"
    /\ \/ tree[sp.ticket] # "none" /\ UNCHANGED <<tree, faults>>
       \/ /\ ToolFails /\ faults' = faults + 1
          /\ tree[sp.ticket] = "none"
          /\ \E left \in {"none", "branch"} : tree' = [tree EXCEPT ![sp.ticket] = left]
    /\ runs' = Append(runs, NewRun("cut_failed"))
    /\ SpawnReturns
    /\ UNCHANGED <<intents, membership, saved, procVars, head, pr, pushed, pc, obs, spawned, cancelled>>

(* The baseline is read and the skeleton row reserves the run's id. *)
InsertRunSkeleton ==
    /\ sp.stage = "insert"
    /\ runs' = Append(runs, NewRun("none"))
    /\ sp' = [sp EXCEPT !.stage = "spawn", !.run = Len(runs) + 1]
    /\ UNCHANGED <<intents, membership, saved, procVars, repoVars, pc, obs, todo, due, spawned, cancelled, faults>>

Spawn ==
    /\ sp.stage = "spawn"
    /\ live' = live \cup {sp.run}
    /\ children' = children \cup {sp.run}
    /\ sp' = [sp EXCEPT !.stage = "record"]
    /\ UNCHANGED <<dbVars, doomed, asked, repoVars, pc, obs, todo, due, spawned, cancelled, faults>>

SpawnFails ==
    /\ sp.stage = "spawn"
    /\ ToolFails /\ faults' = faults + 1
    /\ RecordDisposition(sp.run, "failed")
    /\ SpawnReturns
    /\ UNCHANGED <<intents, membership, saved, procVars, repoVars, pc, obs, spawned, cancelled>>

(* RecordSpawn.  followUpOne then marks the ticket alive in the tick's     *)
(* observation; a re-run is marked only when every verb is done.           *)
RecordSpawn ==
    /\ sp.stage = "record"
    /\ runs' = [runs EXCEPT ![sp.run].pgid = TRUE]
    /\ spawned' = Append(spawned, sp.ticket)
    /\ obs' = IF sp.kind = "follow_up" THEN [obs EXCEPT !.run[sp.ticket] = "alive"] ELSE obs
    /\ SpawnReturns
    /\ UNCHANGED <<intents, membership, saved, procVars, repoVars, pc, cancelled, faults>>

(* A launch candidate of the ticket under observation o.  Tickets are not  *)
(* edited and no base conflicts here; a v0 workflow with a run is never in *)
(* flight.                                                                 *)
Candidate(t, o) ==
    [inFlight    |-> FALSE,
     unlocked    |-> Unlocked(t, PrsByBranch(o.pr)).unlocked,
     authorised  |-> membership[t] = "active",
     hashMatches |-> TRUE,
     hasRun      |-> HasRun(t),
     conflicted  |-> FALSE]

(* Snapshot.running: tickets whose latest run has a process and no outcome.*)
RunningTickets == {t \in Tickets : HasRun(t) /\ Latest(t).pgid /\ Latest(t).outcome = "none"}

LaunchAfter(o, paused) ==
    LaunchPlan([t \in Tickets |-> Candidate(t, o)],
               Cardinality(RunningTickets) + Len(spawned), MaxAgents, paused)

(* Pushable, without the latched push and refresh facts.                   *)
Pushable(o) ==
    {t \in Tickets : /\ HasRun(t) /\ Latest(t).outcome = "push"
                     /\ o.run[t] # "alive"
                     /\ Unlocked(t, PrsByBranch(o.pr)).unlocked
                     /\ head[t] # pushed[t]}

(* pushPushable ships the tickets in done; the other pushes were refused   *)
(* or failed.  A repository whose read failed is skipped.                  *)
PushPushable(o) ==
    \E done \in SUBSET (IF o.bad THEN {} ELSE Pushable(o)) :
        /\ pr' = [t \in Tickets |-> IF t \in done /\ o.pr[t] # "open" THEN "open" ELSE pr[t]]
        /\ pushed' = [t \in Tickets |-> IF t \in done THEN head[t] ELSE pushed[t]]

MarkSpawnedAlive(o) ==
    [o EXCEPT !.run = [t \in Tickets |->
        IF \E k \in DOMAIN spawned : spawned[k] = t THEN "alive" ELSE @[t]]]

(* markSpawnedAlive, the second derive, pushPushable, and the list         *)
(* launchEligible will visit.  That derive is not filtered by Skipping.    *)
PlanLaunches ==
    LET o == MarkSpawnedAlive(obs)
    IN  /\ pc = "verbs" /\ due = 0 /\ sp = NoSpawn /\ todo = {}
        /\ obs' = o
        /\ PushPushable(o)
        /\ \E paused \in BOOLEAN :
              todo' = {t \in LaunchAfter(o, paused) : \A k \in DOMAIN spawned : spawned[k] # t}
        /\ pc' = "launching"
        /\ UNCHANGED <<dbVars, procVars, head, tree, due, sp, spawned, cancelled, faults>>

LaunchEligible ==
    /\ pc = "launching" /\ sp = NoSpawn /\ todo # {}
    /\ sp' = Spawning("cut", Min(todo), "agent", 0)
    /\ UNCHANGED <<dbVars, procVars, repoVars, pc, obs, todo, due, spawned, cancelled, faults>>

EndTick ==
    /\ pc = "launching" /\ sp = NoSpawn /\ todo = {}
    /\ ResetTick
    /\ UNCHANGED <<dbVars, procVars, repoVars, faults>>

-----------------------------------------------------------------------------
(* Faults between any two steps: the daemon crashes and restarts, which    *)
(* leaves its processes running but no longer its children; or a store or  *)
(* git call fails, which ends the tick (failTick).                         *)
Fault ==
    /\ faults < MaxFaults /\ faults' = faults + 1
    /\ \/ "crash" \in FaultKinds /\ children' = {}
       \/ "error" \in FaultKinds /\ pc # "idle" /\ UNCHANGED children
    /\ ResetTick
    /\ UNCHANGED <<dbVars, live, doomed, asked, repoVars>>

-----------------------------------------------------------------------------
(* The agents and the pull requests.                                       *)

Commit(r) ==
    LET t == runs[r].ticket
    IN  /\ r \in live /\ head[t] < MaxCommits
        /\ head' = [head EXCEPT ![t] = @ + 1]
        /\ UNCHANGED <<dbVars, procVars, tree, pr, pushed, tickVars, faults>>

(* A process ends, having written a question file or not. *)
Exit(r) ==
    /\ r \in live
    /\ live' = live \ {r} /\ doomed' = doomed \ {r}
    /\ asked' \in {asked, asked \cup {r}}
    /\ UNCHANGED <<dbVars, children, repoVars, tickVars, faults>>

Die(r) == r \in doomed /\ Exit(r)

ReviewPR(t) ==
    /\ pr[t] = "open"
    /\ \E s \in {"merged", "closed"} : pr' = [pr EXCEPT ![t] = s]
    /\ UNCHANGED <<dbVars, procVars, head, tree, pushed, tickVars, faults>>

-----------------------------------------------------------------------------
Spawner == CutWorktree \/ CutFails \/ InsertRunSkeleton \/ Spawn \/ SpawnFails \/ RecordSpawn

Loop ==
    \/ Observe \/ ApplyLaunchIntents \/ ApplyCancel \/ CancelsDone \/ ApplyKill
    \/ InterruptForFollowUps \/ (\E r \in todo : ReconcileRun(r)) \/ SaveObservation
    \/ ReRunInWorktree \/ ReRunByCutting \/ FollowUpOne \/ ConsumeVerbIntent
    \/ PlanLaunches \/ LaunchEligible \/ Spawner \/ EndTick

Environment ==
    \/ \E t \in Tickets, v \in Verb : Click(t, v)
    \/ \E r \in live : Commit(r) \/ Exit(r)
    \/ \E t \in Tickets : ReviewPR(t)

Next == Loop \/ Fault \/ Environment

Spec == Init /\ [][Next]_vars

(* Run calls RunOnce again and again, so a step the loop can take is taken;*)
(* a signalled process group dies.  Agents need not finish.                *)
Fairness == WF_vars(Loop) /\ WF_vars(\E r \in doomed : Die(r))

FairSpec == Spec /\ Fairness

-----------------------------------------------------------------------------
DbOK ==
    /\ intents \in Seq(Intent)
    /\ membership \in [Tickets -> {"none", "active", "cancelled"}]
    /\ runs \in Seq(Run)
    /\ saved \in Obs

ProcOK ==
    /\ live \subseteq DOMAIN runs /\ doomed \subseteq live
    /\ children \subseteq DOMAIN runs /\ asked \subseteq DOMAIN runs

RepoOK ==
    /\ head \in [Tickets -> Nat]
    /\ tree \in [Tickets -> {"none", "branch", "worktree"}]
    /\ pr \in [Tickets -> PRState]
    /\ pushed \in [Tickets -> Nat]

SpawnOK ==
    /\ sp \in [stage : Stage, ticket : Tickets \cup {0}, kind : {"agent", "follow_up"},
               by : DOMAIN intents \cup {0}, run : DOMAIN runs \cup {0}]
    /\ sp.stage # "none" => sp.ticket \in Tickets
    /\ sp.stage \in {"spawn", "record"} => sp.run \in DOMAIN runs

TodoOK ==
    /\ pc \in {"cancel", "kill", "verbs"} => todo \subseteq DOMAIN intents
    /\ pc = "reconcile" => todo \subseteq DOMAIN runs
    /\ pc = "launching" => todo \subseteq Tickets
    /\ pc \in {"idle", "launch"} => todo = {}

TickOK ==
    /\ pc \in Phase
    /\ obs \in Obs
    /\ due \in DOMAIN intents \cup {0}
    /\ spawned \in Seq(Tickets)
    /\ cancelled \subseteq DOMAIN runs

(* Types: every table, map and list of the tick holds what its column or   *)
(* Go type allows, each phase's list names rows that exist, and the spawn  *)
(* in progress names a ticket and, once reserved, a row.                   *)
TypeOK ==
    /\ DbOK /\ ProcOK /\ RepoOK /\ SpawnOK /\ TodoOK /\ TickOK
    /\ faults \in 0..MaxFaults

(* The tick never launches the same ticket twice, whatever crashes, fails  *)
(* or is clicked: the run launchEligible starts is the first of its ticket.*)
LaunchOnce ==
    \A r \in DOMAIN runs : runs[r].by = 0 =>
        \A q \in RunsOf(runs[r].ticket) : r <= q

(* Why it holds: a spawn without a click happens only while the tick is    *)
(* launching, for the ticket at the head of its list, and every ticket on  *)
(* that list has no run until its own spawn reserves one.                  *)
LaunchInv ==
    /\ LaunchOnce
    /\ sp.stage # "none" => pc = (IF sp.by = 0 THEN "launching" ELSE "verbs")
    /\ sp.stage # "none" /\ sp.by = 0 => sp.ticket \in todo
    /\ pc = "launching" =>
          \A t \in todo : HasRun(t) => sp.stage \in {"spawn", "record"} /\ sp.ticket = t
    /\ due # 0 => pc \in {"cancel", "kill", "verbs"}

(* Why the runs table is a ledger: the row of the spawn in progress is     *)
(* still reserved, and what reconcileRuns has yet to visit is still        *)
(* pending.                                                                *)
LedgerInv ==
    /\ sp.stage \in {"spawn", "record"} => runs[sp.run].outcome = "none" /\ ~runs[sp.run].pgid
    /\ pc = "reconcile" => todo \subseteq PendingRuns

(* Every relaunch is a user verb: any other run was started by a re-run or *)
(* follow-up clicked on the same ticket, and one click starts one run,     *)
(* plus at most one more for each fault that kept it from being consumed.  *)
RelaunchIsPaid ==
    /\ \A r \in DOMAIN runs : runs[r].by # 0 =>
          /\ intents[runs[r].by].ticket = runs[r].ticket
          /\ intents[runs[r].by].verb = (IF runs[r].kind = "agent" THEN "re-run" ELSE "follow-up")
    /\ \A i \in DOMAIN intents :
          Cardinality({r \in DOMAIN runs : runs[r].by = i}) <= 1 + faults

(* A ticket shown as "resuming with your message" still has the message: a *)
(* run disposed as continued is either superseded or its follow-up intent  *)
(* is pending.                                                             *)
ContinuedHasMessage ==
    \A t \in Tickets : HasRun(t) /\ Latest(t).outcome = "continued" =>
        \E i \in DOMAIN intents :
            intents[i].pending /\ intents[i].verb = "follow-up" /\ intents[i].ticket = t

(* At most one agent works in a ticket's worktree. *)
OneAgentPerWorktree ==
    \A r, q \in live : runs[r].ticket = runs[q].ticket => r = q

(* A run with an outcome has no running process: only a dead run is        *)
(* disposed of.                                                            *)
NoLiveDisposed ==
    \A r \in live : runs[r].outcome = "none"

(* Every running agent is in the runs table with its process group, so a   *)
(* restarted daemon finds it again.                                        *)
FleetRecorded ==
    \A r \in live : runs[r].pgid \/ (sp.stage = "record" /\ sp.run = r)

-----------------------------------------------------------------------------
(* The runs table as the ledger its readers rely on.                       *)
RowOf(run) ==
    [ticket |-> run.ticket,
     origin |-> IF run.by = 0 THEN "launch" ELSE "verb",
     state  |-> IF run.outcome # "none" THEN run.outcome
                ELSE IF run.pgid THEN "running" ELSE "reserved"]

Rows == [r \in DOMAIN runs |-> RowOf(runs[r])]

RunLedger == INSTANCE Ledger WITH rows <- Rows

(* The loop implements the ledger: across crashes, errors and clicks no    *)
(* row is rewritten once it has an outcome, skips being reserved, or is    *)
(* opened by a launch on a ticket that has a row.                          *)
RunsFormALedger == RunLedger!Spec

NewRuns == {r \in DOMAIN runs' : r \notin DOMAIN runs}

(* A launch fits under max_agents: when launchEligible has recorded a      *)
(* process, no more than MaxAgents tickets have a recorded running one.    *)
LaunchFitsUnderCap ==
    [][sp.stage = "record" /\ sp.by = 0 /\ sp' = NoSpawn /\ faults' = faults
         => Cardinality(RunningTickets') <= MaxAgents]_vars

(* Consent: a launch starts a run only on a ticket whose last applied word *)
(* is a launch: some applied launch click is later than every applied      *)
(* cancel click.                                                           *)
LaunchHasConsent ==
    [][\A r \in NewRuns : runs'[r].by = 0 =>
         \E i \in DOMAIN intents :
            /\ intents[i].ticket = runs'[r].ticket /\ intents[i].verb = "launch" /\ ~intents[i].pending
            /\ \A c \in DOMAIN intents :
                  (intents[c].ticket = runs'[r].ticket /\ intents[c].verb = "cancel" /\ ~intents[c].pending)
                     => c < i]_vars

(* A stacked ticket is launched only after its blocker's branch was        *)
(* pushed, though the tick that launches it saw only the pull request.     *)
LaunchFollowsBlocker ==
    \A r \in DOMAIN runs : runs[r].by = 0 =>
        \A b \in SameRepoBlockers(runs[r].ticket) : pushed[b] # 0

(* A disposition comes from the commits after the run's baseline: a run    *)
(* that left commits is not recorded as failed when it is disposed of.     *)
CommitsAreNotFailure ==
    [][\A r \in DOMAIN runs :
         runs[r].pgid /\ runs[r].outcome = "none" /\ runs'[r].outcome = "failed"
         => head[runs[r].ticket] <= runs[r].baseline]_vars

(* A tick whose fetch or gh read failed starts no run. *)
FailedReadLaunchesNothing ==
    [][NewRuns # {} => ~obs.bad]_vars

(* Every clicked verb is eventually applied. *)
IntentsDrain ==
    \A i \in 1..MaxClicks :
        (i \in DOMAIN intents /\ intents[i].pending) ~> (i \in DOMAIN intents /\ ~intents[i].pending)

(* A recorded run whose process has ended is eventually disposed of. *)
DeadRunsSettle ==
    \A r \in 1..(Cardinality(Tickets) + MaxClicks) :
        (r \in DOMAIN runs /\ runs[r].pgid /\ r \notin live) ~> (r \in DOMAIN runs /\ runs[r].outcome # "none")
=============================================================================
