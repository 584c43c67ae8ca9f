# command-center in TLA+

command-center keeps a fleet of coding agents working through the tickets of
tracked GitHub repositories. A single daemon (`cc`) ticks: it observes git,
GitHub and its agents' processes, derives from that and from Postgres what state
every ticket is in, and acts (spawns, interrupts and disposes of agents, pushes
branches, opens pull requests). The operator clicks verbs on a web page; a click
only queues an *intent*, which a later tick applies.

These modules model the tick, the planning rules it relies on, and what surrounds
them: multi-step workflows, publishing, agent logs and spending, repository
tracking and imports. Everything is translated from the source under `src/internal`; `PROJECT.json` gives, for each
definition, the lines it stands for.

| module | what it is |
| --- | --- |
| `Plan` | the pure planning rules: unlocking, bases, peer conflicts, draft gate, launch plan |
| `MCPlan` | an instance of `Plan` whose pull requests and conflicts change |
| `RunLoop` | one tick of the reconcile loop, step by step, with agents, operator, reviewers and faults |
| `Ledger` | what the runs table promises its readers, without the loop |
| `MCRunLoop` | instances of `RunLoop` for TLC |
| `Workflow` | one ticket under the workflow v1: steps, fixes, handoffs, owner's verbs, restarts |
| `Pass` | what a pass of a workflow promises, as a machine that remembers where it is |
| `Verdict` | the check verdict: rollup, predicate in three values, bounded wait |
| `Publish` | pushing, refreshing, retargeting, verifying and removing one stacked ticket |
| `AgentLog` | reading an agent's log: events, live tail, phases, lines of a page |
| `Spend` | rate-limit readings, intervals between them, pruning, the pause |
| `Telemetry`, `MCTelemetry` | agents writing logs, the loop and a browser reading them; its instance |
| `Intake`, `MCIntake` | tracking repositories, importing and editing tickets, observing; its instance |
| `PlanProofs` | theorems about the planning rules |
| `RunLoopProofs`, `VerbProofs`, `FleetProofs` | theorems about the loop: types, launches and the ledger; what a click may do and how a run is judged; who works where, and the cap |
| `WorkflowProofs`, `PublishProofs`, `IntakeProofs` | theorems about workflows, publishing (with lemmas about `Verdict`), tracking and imports |
| `TelemetryProofs` | theorems about the log stream and the spending gauge (with lemmas about `AgentLog` and `Spend`) |

## 1. Inventory

**Planning rules** (`plan/plan.go`, `derive.go`, `launch.go`, `draftgate.go`,
`preview.go`). No state. `Unlocked` decides whether a ticket may start and from
which base: no blocker in its repository, one (stack on its open branch, or main
when it merged), or several (all merged). `conflictingPeerHold` orders open pull
requests that conflict. `DraftGate` waits for blockers in other repositories.
`LaunchPlan` fills the free slots. *Hard:* visiting order, several kinds of
blocker, facts that change from tick to tick. *Correct when* an unlocked ticket
stays unlocked as others progress, stacking has exactly one open blocker, the
peer rule lets a maximal set through.

**Status and offered verbs** (`plan/plan.go` `Status`, `plan/state.go`,
`plan/gates.go`). No state: the label of a row and the verbs it offers, from the
latest run, the pull request, liveness and launches.

**Reconcile loop** (`loop/loop.go`, `verbs.go`, `push.go`, `observe.go`). State:
the tick's observation, the runs it cancelled, the tickets it spawned.
`RunOnce` is observe → absorb (launch, cancel and kill intents, interrupts for
follow-ups, disposing of dead runs, saving the observation) → derive → act
(re-run, follow-up, abort, retarget, refresh, push, draft gate, launch). Any
failing store or git call ends the tick. *Hard:* everything between two calls: a
crash, an agent exiting, a click; facts read at the start and used at the end.
*Correct when* a ticket is launched once, with consent, under the cap; a verb is
applied once per click; only dead runs get outcomes; nothing waits for ever.

**Runs table** (`store/runs.go`). One row per run: reserved as a skeleton, given
a process group, then an outcome. *Correct when* it is a ledger: no row is
rewritten after its outcome.

**Intents and launches** (`store/launch.go`, `store/runs.go`). Queued clicks,
claimed in one transaction (launch) or consumed after their effect (the rest);
launches group tickets and carry consent and a prompt hash.

**Agent processes** (`adapter/runner`). Spawned in their own process group,
they survive the daemon; liveness is read with `ps`, cancel is SIGTERM then
SIGKILL, `Reap` waits for own children.

**Worktrees and branches** (`adapter/tp`, `adapter/git`). `tp new` cuts a
worktree and refuses an existing branch; git refuses to delete a checked-out one.

**Multi-step workflows** (`plan/workflow.go`, `loop/steps.go`,
`config/workflow.go`). State: the runs table and one handoff file per run; there
is no record of where a pass is. `Workflow.Next` reads the run history and says
which step runs next, that the pass is done, or that it is parked for the owner.
Steps are judged by exit code, commits or last message; a failed step gets a fix
step and is then done again, a bounded number of times. *Hard:* the history mixes
passes, messages and re-runs; the forward steps depend on a setting that may
change during a pass; a restart may bring another definition of the workflow.
*Correct when* the loop starts what a machine that remembered would start,
nothing is published unreviewed, and every pass comes to rest.

**Publishing** (`loop/push.go`, `loop/refresh.go`, `plan/push.go`,
`plan/gates.go`, `store/pushes.go`, `store/refresh.go`).
State: the row of the last push, and events after it from which latched facts are
read (push refused or failed, refresh refused or conflicted, verification failed,
restacked). A branch whose base moved is merged with it, one whose base merged is
retargeted and rebased past the squashed commits, then verified and pushed, with
a lease when it was restacked. *Hard:* reviewers, the blocker's owner and GitHub
act between the fetch, the reading of pull requests and the push. *Correct when*
nobody's commits are lost, every move of a base is answered, and finished work
does not sit unpushed in a state that claims to need nobody.

**Check verdict** (`plan/verdict`, `plan/transition.go`, the rollup of
`adapter/gh`). A predicate over check runs with a bounded wait and suppression of
a compatibility check. *Correct when* green means this head.

**Worktree removal** (`loop/verbs.go`, `plan/gates.go`, `store/removal.go`):
abort and remove. *Correct when* nothing is deleted that exists nowhere else.

**Repository tracking** (`loop/repocheck.go`, `store/repos.go`,
`plan/repostate.go`): track, clone, vet, ready or refused. *Correct when* a
refusal is lifted by its own cause only.

**Import and feature closure** (`store/store.go`, `store/feature_closure.go`,
`ticket.go`, `ticket_edit.go`, `adapter/tracker`): tickets of a feature are
upserted, dropped ones withdrawn, blockers repaired; an import or edit is refused
when a ticket would wait for one of another feature. *Hard:* it is checked against
an observation that may be old, and applied ticks after the click.

**Observation** (`loop/observe.go`, `plan/observation.go`): what a tick reads of
each repository; a failed read carries the last facts forward, and conflicts
between peers are cached by their tips.

**Agent logs** (`plan/agentlog`, `web/view`): stream-json lines to events, events
to phases and lines of a page. **Log stream** (`web/logstream.go`): the page shows
what it read and a stream of server-sent events the rest; the browser reconnects
with the id of the last event. *Correct when* each event arrives at most once, in
order, and the stream ends when the run has.

**Spend and utilisation** (`plan/spend`, `store/intervals.go`): readings found in
the logs of finished runs, the intervals between them weighed by what the
transcripts report, and a pause of new launches. *Correct when* intervals are
disjoint, each weighs of a transcript its requests or its total, and the gauge
never falls back.

**Graph helpers** (`plan/stack.go`, `plan/dependents.go`): stack depth, waves,
dependents. **Projects** (`store/projects.go`): names for groups of repositories.
**Web** (`web/server.go`): the handlers that queue intents, rendering. **Startup
and lock** (`app`): a flock keeps the daemon single. **Configuration, demo**:
parsing and fixtures.

Interactions: the web handlers and the loop share only Postgres (intents one
way, the saved observation the other); the loop and its agents share processes,
worktrees and question files; the loop and GitHub share pull requests, which
reviewers merge, close and push to at any time; the browser and the loop share
the agents' log files and the runs table.

`PROJECT.json` lists every component with its status and, under `hazards`, the
places where this code is hard to test.

## 2. How the modules correspond to the code

### Plan

Operators keep the Go names: `Unlocked`, `UnlockedOnBlocker`,
`ProspectiveBase`, `GatingBlockers`, `DraftGate`, `PeerHeld`
(`conflictingPeerHold`), `Eligible`, `LaunchPlan`. A ticket is a number, its
position among the rows `PlanInput` loads in URL order; `Number` is the issue
number in its branch, the order of `compareByRef`, which differs from row order
in `MCPlan`. `PrsByBranch` keeps the code's key, the branch name alone. `Contested`
are the tickets whose branches may touch the same lines; the proofs leave it free.

### RunLoop

Variables fall into four groups: what Postgres holds (`intents`, `membership`,
`runs`, `saved`), the world (`live`, `doomed`, `children`, `asked`, `head`,
`tree`, `pr`, `pushed`), the tick in memory (`pc`, `obs`, `todo`, `due`, `sp`,
`spawned`, `cancelled`), and the count of `faults`. A crash keeps the first two
groups and resets the third.

| action | code |
| --- | --- |
| `Observe` | `observe`, `observeRuns`; `ps` may misread a live run, a fetch or `gh` read may fail and carry facts forward |
| `ApplyLaunchIntents` | the claiming transaction |
| `ApplyCancel`, `ApplyKill` + `ConsumeVerbIntent` | `consumeEach`: effect, then consumption, as two steps |
| `InterruptForFollowUps` | `interruptForFollowUps` |
| `ReconcileRun` | `reconcileRuns` for one run: recheck, `Reap`, `outcomeFor`, `RecordDisposition` |
| `SaveObservation` | `SaveObservation` and the first derive |
| `ReRunInWorktree`, `ReRunByCutting` | `reRunOne` |
| `FollowUpOne` | `followUpOne` |
| `CutWorktree`, `CutFails`, `InsertRunSkeleton`, `Spawn`, `SpawnFails`, `RecordSpawn` | `cutAndSpawn` and `spawnRun`, one step per call that leaves a trace |
| `PlanLaunches`, `LaunchEligible`, `EndTick` | `markSpawnedAlive`, second derive, `pushPushable`, `launchEligible` |
| `Fault` | a crash and restart, or a call whose error ends the tick |
| `Click`, `Commit`, `Exit`, `ReviewPR` | operator, agents, reviewers |

Steps are as fine as their effects on state somebody else reads. Coarser than
the code are `Observe` (one read of a world that may change during it; what it
read is stale in every later step of the tick all the same) and the pushes of one
tick, which are one step; a push that is refused or fails is the same as one that
has not happened.

Definitions marked *Faulty variant* are not used by any specification. Each is a
plausible slip in the definition after it, kept to show that the properties
notice it.

### Ledger and the refinement

`Ledger` has one variable, the rows. `Rows` maps each run to its ticket, whether
a launch or a verb asked for it, and its state (reserved, running, or its
outcome). `RunsFormALedger` says `RunLoop` implements `Ledger` under that
mapping.

### Workflow and Pass

`Workflow` follows one ticket. `NextOf`, `AfterForward`, `AfterFix` and
`FromLatest` are the functions of `plan/workflow.go`; `OutcomeFor`,
`StepOutcome`, `WriteHandoff` judge a finished run; `Launch`, `AdvancePass`,
`ReRunOne`, `FollowUpOne`, `PushTip` are what the tick does with the answer. A row
carries the workflow's name and the build that wrote it, which stands for the
hash: a restart as a new build makes `Known` false for rows of v1. `proc` holds
the evidence a process leaves: exit code, last message, commits, a question. After
a restart the process is no child any more and its exit code reads as -1
(`ExitCode`).

Interleavings inside a tick are `RunLoop`'s subject; here each call of the loop is
one action. `seen`, `tip` and `said` of a row are history the properties read: the
handoffs its prompt had, the tip it ended on, what its agent said last.

`Pass` is the abstract specification: three variables, the step of the latest
run, its state and the step being repaired. `PassFollowsSteps` says that
`Workflow` implements it, with the three read off the rows.

### Publish and Verdict

A commit is a patch and a copy number; a tip is the set of commits it reaches, so
an ancestor is a subset, a merge a union, a rebase new copies without the patches
already there, and a squash merge copies on main. `track` is what the last fetch
saw, `objects` what is in the checkout. `push` and `log` are the row of the last
push and the events after it, and `ListPushFacts`, `RefreshFacts` and
`RestackedSinceLastPush` read them as the queries do.

| action | code |
| --- | --- |
| `Fetch`, `Observe` | the fetch, then the reading of pull requests, worktrees and processes, disposing, counting the wait |
| `FollowUpAndAbort` | `applyFollowUpIntents`, `applyAbortIntents` |
| `Retarget` | `retargetMerged`, its refresh included |
| `Refresh` | `applyRefreshIntents` and `refreshOne`: fast-forward, merge or rebase, verify, latch |
| `RetryPush`, `PushPushable` | `pushOne` from the first and from the second derive |
| `CheckRemoval`, `RemoveWorktree`, `Withdraw` | `removeWorktreeOne`: refusals, `tp remove`, closing the issue |
| `MainMoves`, `BlockerMoves`, `BlockerMerges`, `BlockerCloses`, `TicketMerges`, `ReviewerPushes`, `CiReports`, `CiReruns` | GitHub and its users |
| `AgentCommits`, `AgentEnds`, `OwnerResolves`, `Click` | agent and owner |

The world moves only where a later step of the tick can tell the difference; the
comment on `Acting` says where. `Status` and `Verbs` are those of the plan for the
states a stacked ticket with one blocker reaches.
`PushPushable` needs the branch to exist: one whose worktree this tick removed has
no diff, and the error ends the tick (`push.go:60`).

`Verdict` resolves a predicate given as a sequence of nodes with a recursive
function, then applies the head, the base and the wait as `Evaluate` does.

### AgentLog, Spend and Telemetry

`AgentLog` and `Spend` are pure: `Feed` is the live tail, `Parse` the whole log,
`BuildLogDetail` the page, `Intervals` the interval computation. Texts and token
counts are left out, a block being a tool name, a call id and whether it failed.
`Telemetry` composes them: two agents write scripted logs line by line, the loop
disposes of a run in the code's order (metrics, readings, intervals, event; a
crash may fall between), and a browser opens a page and follows a stream. A line
has a size in bytes, because the stream resumes at byte offsets and, when a
follow-up starts, at an offset that came from another file. `LogLine` is what a
line may hold; `Only` and `Fold`, the loops of the parsers, are recursive functions
so that they can be proved about.

`LoadRequests` reads every transcript, of agents still running too. As
`ParseTranscriptUsage` does, it takes the requests of a transcript one by one until
there is a result, and from then on only the total of the last result, at the time
of the last dated line before it (`LastDated`, which also dates a reading). The code
reads the CLI's own transcripts; the model lets a run's transcript hold the lines of
its log. So a weight is exact only for transcripts that have not settled:
`IntervalsDisjoint` says of each transcript that an interval weighs either all its
requests made within it or no more than its total. TLC reaches, in the plan with
`Resumed`, a request weighed alone in one interval and again, in the total, in a
later one. ADR 0010 wants requests weighed one by one "because interval samples cut
through runs"; that is what the code does for transcripts without a result line.

A stream is cut short by `Drop`, after which the browser reconnects, or by
`FollowFails`, when the log or the store cannot be read: the browser is sent an error
and the end, and stays away.

### Intake

The steps of one tick before and around the observation: `ApplyTrackIntent`,
`ValidateRepo`, `ImportFeature`, `ApplyEditTicketIntent`, `Observe`,
`RecordRepoStates`, `SaveObservation`, then the two actions of `act` that matter
here (`CutWorktree`, `RemoveTicket`). A read that fails carries facts forward
(`Observe`), leaves a repository cloning (`ValidateRepo`), or ends the tick
(`FailTick`). Clicks, tracker edits and pushes fall between any two steps.

## 3. Runs

| run | instance | shows |
| --- | --- | --- |
| `plan_rules` | five tickets, two repositories, all pull-request states, all conflicts among three contested peers | `PeerHoldIsFirstFit`, `StackedOnOpenBlocker`, `UnlockSurvivesProgress`, `DraftGateStaysOpen` |
| `runloop_patient` | one ticket, three clicks, one commit, no faults, an operator who waits for a click to be applied | `OneAgentPerWorktree`, `NoLiveDisposed`; under fairness `IntentsDrain`, `DeadRunsSettle` |
| `runloop_faults` | one ticket, any three clicks, one crash, failing call or failing tool at any step | `TypeOK`, `LaunchOnce`, `RelaunchIsPaid`, `ContinuedHasMessage`, `LaunchHasConsent`, `RunsFormALedger` |
| `runloop_fleet` | two tickets, the second stacked on the first, one slot, three clicks, one commit each | `LaunchFollowsBlocker`, `LaunchFitsUnderCap` |
| `workflow` | one ticket of v1, one fix round, two commits, one verb, one restart, changed setting or failing tool, with and without a verify command | `FinishedPassWasReviewed`, `LaterStepsGiveUp`, `FixIsTold`, the refinement `PassFollowsSteps`; under fairness `PassSettles` |
| `publish` | one stacked ticket, any two events by others besides merges and checks, one clashing and one denied patch | `ReviewerWorkKept`, `GreenMeansThisHead`, `OwnWorkKept`, `RemovalLosesNothing`; under fairness `MergedBaseIsLeft`, `WorkShips`, `BaseMoveIsAnswered` |
| `telemetry` | two runs, seven logs, a follow-up or a second ticket, one crash, broken connection or failed read | `ShownOnceInOrder`, `EndShowsTheLog`, `IntervalsDisjoint`, `GaugeMovesForward`; under fairness `StreamEnds` |
| `intake` | two repositories, a feature of two stacked tickets and one ticket of another, three events | `ClosureKept`, `ReadyWasVetted`, `PeerConflictsFresh`; under fairness `ReposSettle`, `RequestsAnswered` |

**Bounds.** Three clicks are a launch and two verbs, the least with which two
verbs meet on one run (kill and follow-up, re-run and re-run, cancel and
launch). One fault can fall between any two steps. One commit decides between
pushed and failed. Two tickets and one slot are the least with which a launch
can be over the cap or ahead of its blocker. In `plan_rules` three mutually
comparable peers are the least with which a held peer could hold another, and
ticket 5 has a blocker of each kind.

In `workflow` one verb and one change can meet at any place of a pass; with two
commits a step can be repaired once and the repaired work differ from the first. In
`publish` (`MaxEvents`, each kind of event at most once) two events are what a
race needs, a reviewer's push and a moved base, say; merges, closing, check
results and the agent's end are not counted. `m2` clashes with the ticket's work,
`p` is on a denied path. In `telemetry` the seven scripts hold a failing command
answered together with another call, a skill with a commit and last words,
readings before any dated line, one after a window was reset, and a result followed
by more work and a reading; `ReadingRetention` and `IntervalRetention` are
shorter than the two logs, so that pruning meets a window with no newer reading.
In `intake` three events are what a violation of closure or of the peer cache
takes (an edit, a relabelling or merge, and a failed read); `MaxTip` lets a branch
move once.

**`Patient`.** With `Patient`, no verb is clicked on a ticket that has a pending
intent. The page does not enforce this. It is assumed exactly where the code
needs it: without it `OneAgentPerWorktree` is violated, which is the
finding of `verbs_idempotent`. `runloop_faults` does not assume it.

**Fairness.** Weak fairness of `Loop`: `Run` calls `RunOnce` for as long as the
daemon runs, and every step of a tick is a call that returns. Weak fairness of
`Die` for signalled processes: `Cancel` follows SIGTERM by SIGKILL. Agents are
not assumed to finish, operators to click, or reviewers to review, so
`IntentsDrain` holds even with an agent that would run for ever: the follow-up
interrupts it.

`Workflow` also assumes that a process ends (`max_turns` caps an agent, a verify
command is one that terminates) and, with weak fairness of the loop, that a free
slot comes. `Publish` and `Intake` assume only that the loop ticks: reviewers,
CI and the owner may do nothing more. In `Telemetry` agents exit, the loop ticks,
the handler loops as long as its connection stands and a browser reconnects, as
`EventSource` does until it is sent the end; faults are bounded, so from some point
on nothing breaks.
`MergedBaseIsLeft` exempts a behaviour in which a tool failed, and says why: a
failed edit of a pull request is not repeated when the same tick refreshes and
pushes the branch, because the row then says main.

`workflow` switches deadlock checking off: a ticket at rest, with the bounds on
clicks and changes used up, has nothing left to do.

### Runs that end in a violation

Each states a sentence of `docs/designs/command-centre-design.md` and shows a
behaviour of the code that contradicts it.

- `verbs_idempotent`: queueing intents is said to make "every verb idempotent".
  `handleVerb` ignores queued intents and `reRunOne` does not ask whether the
  ticket has a live run: two re-run clicks before a tick start two agents in one
  worktree.
- `restart_carries_on`: a restart is said to find every run again. A crash
  between `Spawn` and `RecordSpawn` leaves a process that no table names.
- `disposition_from_artifacts`: dispositions are said to come from commits after
  the baseline. They are counted in the worktree the tick observed; if reads fail
  until the run is over, a freshly cut worktree is in no observation and a run
  that committed is recorded as failed.
- `failed_read_launches`: a tick with a failed read is said to launch nothing.
  `act` derives again before pushing and launching; the pushes skip the
  repositories whose read failed, `launchEligible` does not.

## 4. Proofs

Every safety property that a passing run checks is a theorem, except two instance
bounds in `Publish`'s `TypeOK` and one half of `Telemetry`'s `EndShowsTheLog` (both
below); so is the refinement of `Ledger` by `RunLoop` and of `Pass` by `Workflow`.
They hold for any values of the constants that satisfy the module's named assumption
(`TicketsAssumption`, `LoopAssumption`, `WorkflowAssumption`, `PublishAssumption`,
`IntakeAssumption`, `TelemetryAssumption`), which TLC evaluates on every run, and
under the hypotheses a theorem states in its `ASSUME`. Each argument is an inductive invariant, which TLC
checked on an instance before it was proved; each proof has one lemma or step per
action.

**`PlanProofs`.** Pull requests and conflicts are the only state, so the proofs are
about the operators. `UnlockCases` says when a ticket is unlocked by the number of
its blockers; `BranchOwner` says that the map by branch answers for one and the
same ticket at any time; `PeerHeldEquation` says that the recursion of
`conflictingPeerHold` has a solution, by taking the least bound on branch numbers
without one. From these:

- `UnlocksLast`, `DraftsStayOut`: merged is final, so no other ticket's progress
  relocks a ticket or pulls a draft back, even when branch names are shared.
- `StacksOnOpenBlockers`: needs `OwnBranches` (no two tickets share a branch name),
  because Derive keys pull requests by branch alone (`derive.go:190`).
- `PeersAreFirstFit`: needs `OwnNumbers` (issue numbers are unique in a
  repository), and that conflicts are recorded both ways, which is an invariant.

**`RunLoopProofs`.**

- `TypeCorrect`: `TypeOK` is inductive. It says not only what type each variable
  has but which table each phase's list indexes and that the spawn in progress
  names rows that exist.
- `LaunchedOnce`: `LaunchOnce` alone does not say that the ticket being cut has no
  run. `LaunchInv` adds that a spawn nobody clicked happens only while the tick
  is launching, for a ticket still on its list, and that a ticket on the list gets
  a run only from its own spawn. A crash empties the list; a re-run cannot break
  it because verbs are done before the list is made.
- `LoopKeepsLedger`: the refinement. `LedgerInv` adds that the row of the spawn in
  progress is still reserved and what `reconcileRuns` has yet to visit is pending,
  so attaching and closing find the row in the state the ledger asks for.

**`VerbProofs`.**

- `RelaunchesArePaid`: by `PaidInv` the rows a click started are of its ticket and
  verb, at most one while it still waits plus one for each fault so far: a fault
  between the effect of a click and its consumption repeats the effect.
- `LaunchesHaveConsent`: by `ConsentInv` an active membership is consented to, only
  active members are on the list being launched, and a launch click that still
  waits is later than every cancel already applied.
- `LaunchesFollowBlockers`: by `BlockerInv` a pull request, real, saved or observed,
  is of a pushed branch, and what is being launched has only pushed blockers; with
  `OwnBranches` as above.
- `ResumingHasMessage`: by `MessageInv` a ticket whose latest run was continued has
  a message that waits and is not the one being consumed; `WorktreeInv` and
  `ReservedInv` say that the worktree that run needs is there. The
  hypothesis that no read of git or GitHub fails (`"read" \notin FaultKinds`) is
  needed: with two failed reads and a follow-up, TLC finds a resuming ticket whose
  message is lost (with one it does not).
- `DispositionFromCommits`: the sentence that `disposition_from_artifacts` shows
  violated holds wherever no read fails (the same hypothesis), whatever crashes
  and is clicked: then a run about to be disposed of is in a worktree the tick
  observed, and the commits counted there are those after the baseline.

**`FleetProofs`.**

- `OneAgentWorks`, `OnlyDeadDisposed`: `FleetInv` says that a ticket has at most
  one click waiting and that only its latest run may be without an outcome, that a
  spawn finds the ticket's runs settled, and that what the tick saw dead is dead. The hypothesis `Calm` asks for `Patient` clicks,
  no blockers in the ticket's own repository and no faults but failing tools. Each
  part is needed: impatient clicks are the finding of `verbs_idempotent`; a
  stacked ticket whose base went away is offered a re-run while its agent is alive;
  and a crash between a verb's effect and its consumption repeats the verb.
- `LaunchesFit`, without hypotheses: by `CapInv` the running tickets and those still
  on the list fit under the cap together; `PlanFits` is the counting lemma about
  `LaunchPlan` it starts from.
- `AgentsAreRecorded`: the counterpart of `restart_carries_on`. The hypothesis is that
  no crash and no failing call ends a tick; reads and tools may fail. So only a tick
  that ends early can lose an agent, and the trace of that run shows where: between
  `Spawn` and `RecordSpawn`.

**`WorkflowProofs`.** `WorkflowInv` joins `TypeOK`, `HistoryInv` (a run that begins
no pass follows its predecessor as the workflow says), `TipInv` (which tip was
reviewed), `HandoffInv` (what a failed run of this build said is in a handoff) and
`RoundsInv` (since `read` began there are at most `MaxFixRounds` fixes). From it `HistoryWellTyped`, `FinishedIsReviewed`, `FixRoundsBounded`,
`FixesAreTold`, and **`HistoryIsEnough`**: that deriving the next step from the
history implements `Pass`. Its hard part is `FromLatestIs`: the suffix of the
history the code picks is the pass that the last fresh run opened.

**`PublishProofs`.** `KeptInv` says where the patches are. `BaseInv` relates the
bases to what the last fetch saw of them and `RowInv` the row of the last push to a
base that still has its commits; by `WorkInv` the branch, an unfinished merge or
rebase, and what the tick read of the branch keep the patches of the last push, but
for those of a merged base; by `PublishedInv` whatever was reviewed, fetched,
recorded as pushed or read of the pull request is published. So neither a
fast-forward, which needs the remote tip below the branch, nor a forced push, whose
lease names the last pushed tip, loses what GitHub has. From it
`ReviewsAreKept` and the action properties `OwnWorkSurvives` and
`RemovalsLoseNothing`. `ReviewedHeadIsGreen` adds `GreenInv`: green checks are about
a head CI reported green, on the pull request and in the tick's copy of it, with
lemmas on what the predicate of `Verdict` resolves to. `RowsAreWhole` is `TypeOK`
without its instance bounds: by `FilledInv` and `TipsInv` every tip that may be pushed
or recorded has commits, so a push row is whole or absent, and by `WholeInv` the row
has a state the page knows whatever the tick read; `Status` is a chain of early
returns, and the lemma `StateKnown` goes through it.

**`IntakeProofs`.** `IntakeInv` has the tables' types; `VettedInv`: a repository that
is ready, or refused only for its settings file, was vetted since it was last
tracked; `ObservedInv`: every peer verdict, saved or being made, is about the tips it
was taken at. From it `OnlyVettedReposReady`, `SavedConflictsFresh` and the action
property `ImportsKeepClosure`, which needs that an import replaces exactly the
feature it was checked for.

**`TelemetryProofs`.** The operators of the model are recursive functions over logs.
What they compute cannot be had by an induction schema, so two lemmas about functions
stand in for it: `Recursion` (a bounded recursion whose steps stay in a set has a
solution) and `BoundedInduction` (its values stay in a set that its steps keep).
They give the types of what `Feed`, `Only`, `Concat` and `Intervals` return, and
`TallyOK`, the invariant of the loop of `Intervals`.

- `StreamedOnceInOrder`: by `StreamInv` the offsets of a log grow with its lines; all
  that the browser has of the newest log ends at or before its last id, and all that
  it has of the log being streamed at or before the stream's offset; neither is before
  the end of the page. So the next line comes after everything shown, also when
  the offset came from another file and falls inside a line.
- `StreamMissesNothing`: a stream that nothing cut short, without a follow-up since
  the page, ends only when the browser has every event of every line after the page.
  By `TailInv` the stream is always at the end of a line n, its live tail is the one
  that read the lines from the page to n (`TailAt`), every shown event of those lines
  was delivered, and it takes the run for ended only if it is. A run that has ended
  writes no more (`EndedStays`), and the stream closes only in a round that began after
  that and found nothing unread.
- `IntervalsNeverOverlap`: by `MeterInv` every interval, stored or about to be, ends by
  a reading of its window that is still kept. New intervals start at such a reading
  or later, so they follow the old ones, and a request still to be made is dated after all
  of them (`RequestsKept`). What a new interval weighs of a transcript is what
  `ParseTranscriptUsage` yields then, its requests or one total (`WeighsLoaded`). Later
  lines add no request to a recorded interval, and a result keeps its date
  (`SettledKept`), so one of the two stays true (`WeighsKept`).
- `GaugeNeverGoesBack`: storing readings and pruning both leave a reading at least
  as new in every window that had one.

**Only model-checked.**

- All liveness properties: fairness and `ENABLED` are beyond the prover.
- Two conjuncts of `Publish`'s `TypeOK`, the bounds of the instance (the length of the
  log, the numbers of copies), which depend on `MaxEvents`.
- `EndShowsTheLog` as a whole. What interleavings could spoil is
  `StreamMissesNothing`; what is left is that the live tail followed by replacing
  lines shows what `Parse` and `BuildLogDetail` show of the whole log, an equality of
  two recursive functions of the log, which takes an induction over data. It is stated
  for the unfiltered page. With the filter "fails" TLC finds the two different:
  a reloaded page keeps the last words at its foot whatever the filter
  (`FinalAnswer`), the stream filters them.

## 5. Plan

Done: all modules, and the theorems above. No module declares a RECURSIVE operator.
Left:

1. The theorems of `FleetProofs` under crashes: after a crash the effect of a verb may
   be repeated, so `OneAgentPerWorktree` needs a weaker form that says when.
2. `Publish`: a bound on `Len(log)` in terms of `MaxEvents`, for any `MaxEvents`.
3. `RunLoop` with several repositories, to state what a branch name shared by two of
   them does to the loop (`Plan` has it for the rules).

## 6. Not modelled

`RunLoop` has one repository, tickets of the single-step workflow v0 and launches
of one ticket each; a launch of several tickets is several rows of one group,
which only the page reads together. In its `Status` the labels that need latched
push or refresh facts are absent: they are `Publish`'s. `spend.Paused` is a free
choice in `PlanLaunches`; `Telemetry` has the pause itself. `Publish` has one
ticket with one blocker in its repository; the draft gate is `Plan`'s, its call
to GitHub is not an action. Prompts, prompt hashes and the choice of model are
left out. Transition events (`transition.go`) only tell the owner what changed and
are left out, and so are projects, which group repositories on the page and guard
nothing, and the graph helpers, pure functions that only the board's layout uses.
The parsing of single log lines and of GitHub's JSON is modelled by what it
yields; the shape of the JSON is not. Rendering, settings and config parsing, and
the demo have no state that a model would say more about than their tests do. That
the daemon is alone is taken from its flock.
