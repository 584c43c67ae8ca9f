------------------------------ MODULE Workflow ------------------------------
(***************************************************************************)
(* One ticket under the multi-step workflow v1: the loop starts a process  *)
(* per step, judges it by the evidence it left (exit code, commits, last   *)
(* message), and derives the next step from the run history alone          *)
(* (plan.Workflow.Next), while the owner kills, cancels, re-runs and sends *)
(* messages, the repository gains or loses its verify command, and the     *)
(* daemon restarts, possibly as a build with an edited v1.                 *)
(*                                                                         *)
(* The tick's own interleavings are RunLoop's subject: here disposing of a *)
(* run, applying one verb, pushing and starting one step are each one      *)
(* action, and the owner waits for a click to be applied before the next.  *)
(***************************************************************************)
EXTENDS Integers, Sequences, FiniteSetsExt

CONSTANTS
    MaxFixRounds,  \* Workflow.MaxFixRounds of v1
    MaxCommits,    \* bound: commits on the branch
    MaxClicks,     \* bound: verbs the owner clicks
    MaxChanges     \* bound: changed settings, restarts and failing tools

ASSUME WorkflowAssumption == {MaxFixRounds, MaxCommits, MaxClicks, MaxChanges} \subseteq Nat

VARIABLES
    \* Postgres and the runs directory
    runs,        \* the ticket's rows of the runs table, in id order
    authorised,  \* its launch is active
    pending,     \* the verb whose intent is not consumed, or "none"
    handoff,     \* the runs with a handoff file
    pushed,      \* the last push: its tip, and the run whose handoff is the body
    \* the world
    head,        \* commits on the branch
    cut,         \* a worktree exists
    proc,        \* the process of the latest run and what it left behind
    verify,      \* the repository has a verify command
    build,       \* the build of the daemon: an edited v1 has another hash
    \* history
    clicks, changes

storeVars == <<runs, authorised, pending, handoff, pushed>>
vars == <<storeVars, head, cut, proc, verify, build, clicks, changes>>

NoBase   == -1
NoProc   == [alive |-> FALSE, child |-> FALSE, exit |-> 0, message |-> "none", asked |-> FALSE]
Outcomes == {"none", "push", "failed", "cut_failed", "asked", "continued", "passed"}

Latest == runs[Len(runs)]

-----------------------------------------------------------------------------
(* The built-in workflows: what a step is judged by, and whether its tools *)
(* let it commit or ask.                                                   *)
Step(name) == [name |-> name, command |-> FALSE, writes |-> FALSE, onFail |-> FALSE, edits |-> FALSE]

V0 == [name |-> "v0", rounds |-> 0, steps |-> <<[Step("implement") EXCEPT !.edits = TRUE]>>]

V1 == [name |-> "v1", rounds |-> MaxFixRounds,
       steps |-> << [Step("setup") EXCEPT !.command = TRUE],
                    [Step("read") EXCEPT !.writes = TRUE],
                    [Step("implement") EXCEPT !.edits = TRUE],
                    [Step("check") EXCEPT !.command = TRUE],
                    [Step("review") EXCEPT !.writes = TRUE],
                    [Step("fix") EXCEPT !.onFail = TRUE, !.edits = TRUE],
                    [Step("pr") EXCEPT !.writes = TRUE] >>]

ByName(w) == IF w = "v0" THEN V0 ELSE V1

StepNames == {V1.steps[i].name : i \in DOMAIN V1.steps}

(* workflowByHash: v0 is the same in every build, an edited v1 is not. *)
Known(row) == row.wf = "v0" \/ row.build = build

StepOf(row) ==
    LET steps == ByName(row.wf).steps
    IN  steps[CHOOSE i \in DOMAIN steps : steps[i].name = row.step]

FinalStep(w, step) == w.steps[Len(w.steps)].name = step.name

-----------------------------------------------------------------------------
(* plan.Workflow: the next step, from the run history alone.               *)

(* The forward steps, by their place in the workflow. *)
ForwardSteps(w) ==
    {i \in DOMAIN w.steps : ~w.steps[i].onFail /\ (w.steps[i].command => verify)}

FixName(w) ==
    LET fix == {i \in DOMAIN w.steps : w.steps[i].onFail}
    IN  IF fix = {} THEN "no_fix_step" ELSE w.steps[Max(fix)].name

First(w) == w.steps[Min(ForwardSteps(w))]

Named(w, name) == {i \in ForwardSteps(w) : w.steps[i].name = name}

RunsOf == [name \in StepNames |-> {r \in DOMAIN runs : runs[r].step = name}]

(* The runs from the latest one of the pass's first step on, all of them   *)
(* if there is none.                                                       *)
FromLatest(first) ==
    IF RunsOf[first] = {} THEN DOMAIN runs ELSE Max(RunsOf[first])..Len(runs)

Starts(step, round) == [kind |-> "run", step |-> step, round |-> round]
Waits == [kind |-> "run", step |-> "none", round |-> 0]
Done  == [kind |-> "done", step |-> "none", round |-> 0]
Park  == [kind |-> "park", step |-> "none", round |-> 0]

Rerun(w, name, round) == IF Named(w, name) # {} THEN Starts(name, round) ELSE Park

(* Faulty variant of AfterForward: one fix round too many. *)
AfterForwardRepairs(w, last, rounds) ==
    LET at    == Min(Named(w, last.step))
        later == {i \in ForwardSteps(w) : i > at}
    IN  IF Named(w, last.step) = {} THEN Park
        ELSE IF later = {} THEN IF last.outcome = "push" THEN Done ELSE Park
        ELSE CASE last.outcome = "passed" -> Starts(w.steps[Min(later)].name, rounds)
               [] last.outcome = "failed" ->
                     IF rounds <= w.rounds THEN Starts(FixName(w), rounds + 1) ELSE Park
               [] OTHER -> Park

AfterForward(w, last, rounds) ==
    LET at    == Min(Named(w, last.step))
        later == {i \in ForwardSteps(w) : i > at}
    IN  IF Named(w, last.step) = {} THEN Park
        ELSE IF later = {} THEN IF last.outcome = "push" THEN Done ELSE Park
        ELSE CASE last.outcome = "passed" -> Starts(w.steps[Min(later)].name, rounds)
               [] last.outcome = "failed" ->
                     IF FixName(w) \in StepNames /\ rounds < w.rounds
                     THEN Starts(FixName(w), rounds + 1) ELSE Park
               [] OTHER -> Park

(* Faulty variant of AfterFix: a fix leads on to the step after the one    *)
(* that failed.                                                            *)
AfterFixGoesOn(w, last, failed, rounds) ==
    IF last.outcome = "passed" THEN AfterForward(w, [last EXCEPT !.step = failed], rounds) ELSE Park

AfterFix(w, last, failed, rounds) ==
    IF last.outcome = "passed" THEN Rerun(w, failed, rounds) ELSE Park

NextOf(w) ==
    LET pass    == FromLatest(First(w).name)
        fixes   == {r \in pass : runs[r].step = FixName(w)}
        failed  == IF pass = fixes THEN "none" ELSE runs[Max(pass \ fixes)].step
    IN  IF ForwardSteps(w) = {} THEN Done
        ELSE IF pass = {} THEN Starts(First(w).name, 0)
        ELSE IF \E r \in pass : runs[r].outcome = "none" THEN Waits
        ELSE IF Latest.step = FixName(w) THEN AfterFix(w, Latest, failed, Cardinality(fixes))
        ELSE AfterForward(w, Latest, Cardinality(fixes))

(* Rules.nextFor: by the workflow of the latest run. *)
NextFor ==
    IF runs = <<>> THEN NextOf(V1)
    ELSE IF Known(Latest) THEN NextOf(ByName(Latest.wf)) ELSE Park

(* Faulty variant of InFlight: a cancelled launch stops between steps. *)
InFlightIfAuthorised(next) == authorised /\ runs # <<>> /\ next.kind = "run" /\ next.step # "none"

InFlight(next) == runs # <<>> /\ next.kind = "run" /\ next.step # "none"

-----------------------------------------------------------------------------
(* Judging a run that has ended.                                           *)

StepOutcome(step, exit, commits, message) ==
    IF CASE step.command -> exit = 0
         [] ~step.command /\ step.writes -> message = "text"
         [] ~step.command /\ ~step.writes -> commits > 0
    THEN "passed" ELSE "failed"

CommitsSinceBaseline(base) == IF base = NoBase THEN 0 ELSE head - base

Disposition(base) == IF CommitsSinceBaseline(base) > 0 THEN "push" ELSE "failed"

PassBaseline(w) == runs[Min(FromLatest(First(w).name))].base

(* The exit code Reap returns, -1 for a process that is not this daemon's  *)
(* child.                                                                  *)
ExitCode == IF proc.child THEN proc.exit ELSE -1

OutcomeFor(r) ==
    LET row  == runs[r]
        w    == ByName(row.wf)
        step == StepOf(row)
    IN  CASE row.kind # "command" /\ pending = "follow-up" -> "continued"
          [] row.kind # "command" /\ pending # "follow-up" /\ proc.asked -> "asked"
          [] OTHER ->
             CASE ~Known(row) \/ Len(w.steps) = 1 -> Disposition(row.base)
               [] Known(row) /\ Len(w.steps) > 1 /\ ~FinalStep(w, step) ->
                     StepOutcome(step, ExitCode, CommitsSinceBaseline(row.base), proc.message)
               [] Known(row) /\ Len(w.steps) > 1 /\ FinalStep(w, step) -> Disposition(PassBaseline(w))

(* Faulty variant of WriteHandoff: only a passed step hands over. *)
WriteHandoffOfPassed(r, outcome) ==
    IF Known(runs[r]) /\ StepOf(runs[r]).writes /\ proc.message # "none" /\ outcome # "failed"
    THEN handoff \cup {r} ELSE handoff

(* A step that writes leaves its last message, a failed command the tail   *)
(* of its log.                                                             *)
WriteHandoff(r, outcome) ==
    IF /\ Known(runs[r])
       /\ \/ StepOf(runs[r]).writes /\ proc.message # "none"
          \/ StepOf(runs[r]).command /\ outcome = "failed"
    THEN handoff \cup {r} ELSE handoff

(* reconcileRuns finds the latest run dead. *)
DisposeRun ==
    LET r == Len(runs)
    IN  /\ runs # <<>> /\ runs[r].outcome = "none" /\ ~proc.alive
        /\ \E outcome \in {OutcomeFor(r)} :
              /\ runs' = [runs EXCEPT ![r].outcome = outcome, ![r].tip = head,
                                      ![r].said = IF runs[r].kind = "command" THEN "output" ELSE proc.message]
              /\ handoff' = WriteHandoff(r, outcome)
        /\ proc' = NoProc
        /\ UNCHANGED <<authorised, pending, pushed, head, cut, verify, build, clicks, changes>>

-----------------------------------------------------------------------------
(* Starting a step.  A tool that fails counts as a change.                 *)

(* Faulty variant of Settled: a message does not wait for the run to end. *)
NeverWaits == runs # <<>>

Settled == runs = <<>> \/ Latest.outcome # "none"

NewRow(w, name, kind, fresh, seen, base) ==
    [wf |-> w.name, build |-> build, step |-> name, kind |-> kind, fresh |-> fresh,
     seen |-> seen, base |-> base, tip |-> head, said |-> "none", outcome |-> "none"]

(* spawnRun: a process, or a row that failed at once. *)
SpawnRun(row) ==
    \/ /\ runs' = Append(runs, row)
       /\ proc' = [NoProc EXCEPT !.alive = TRUE, !.child = TRUE]
       /\ UNCHANGED changes
    \/ /\ changes < MaxChanges /\ changes' = changes + 1
       /\ runs' = Append(runs, [row EXCEPT !.outcome = "failed"])
       /\ UNCHANGED proc

KindOf(step) == IF step.command THEN "command" ELSE "agent"

(* startOf and the first step's run, in the worktree if there is one, else *)
(* in one cut for it.                                                      *)
StartPass ==
    LET row == NewRow(V1, First(V1).name, KindOf(First(V1)), TRUE, {}, head)
    IN  \/ SpawnRun(row) /\ cut' = TRUE
        \/ /\ ~cut /\ UNCHANGED <<cut, proc>>
           /\ changes < MaxChanges /\ changes' = changes + 1
           /\ runs' = Append(runs, [row EXCEPT !.base = NoBase, !.outcome = "cut_failed"])

Launch ==
    /\ authorised /\ runs = <<>>
    /\ StartPass
    /\ UNCHANGED <<authorised, pending, handoff, pushed, head, verify, build, clicks>>

(* launchEligible continues a pass before it starts new tickets.  The      *)
(* prompt holds the handoffs of the pass.                                  *)
AdvancePass ==
    \E next \in {NextFor} :
        LET w    == ByName(Latest.wf)
            step == StepOf([wf |-> w.name, step |-> next.step])
            seen == handoff \cap FromLatest(First(w).name)
        IN  /\ InFlight(next)
            /\ SpawnRun(NewRow(w, step.name, KindOf(step), FALSE, seen, head))
            /\ UNCHANGED <<authorised, pending, handoff, pushed, head, cut, verify, build, clicks>>

(* Pushable and pushOne: the latest run ended push and its tip is new.     *)
Pushable == runs # <<>> /\ Latest.outcome = "push" /\ pushed.tip # head

PrBody == IF Len(runs) \in handoff THEN Len(runs) ELSE 0

PushTip ==
    /\ Pushable
    /\ pushed' = [tip |-> head, body |-> PrBody]
    /\ UNCHANGED <<runs, authorised, pending, handoff, head, cut, proc, verify, build, clicks, changes>>

-----------------------------------------------------------------------------
(* The owner.                                                              *)

StatusFromNext ==
    CASE NextFor.kind = "park" -> "failed"
      [] NextFor.kind = "run" /\ NextFor.step # "none" -> "queued"
      [] OTHER -> IF Latest.outcome = "passed" THEN "queued" ELSE "failed"

Status ==
    IF runs = <<>> THEN IF authorised THEN "queued" ELSE "ready"
    ELSE LET o == Latest.outcome
         IN  IF proc.alive THEN "running"
             ELSE CASE o \in {"none", "continued"} -> "queued"
               [] o = "push" -> IF pushed.tip = head THEN "checking" ELSE "push_pending"
               [] o = "asked" -> "awaiting_input"
               [] o = "cut_failed" -> "cut_failed"
               [] o \in {"passed", "failed"} ->
                     IF Latest.wf = "v0" THEN "failed" ELSE StatusFromNext

Offers(v) ==
    CASE Status = "queued"  -> v = "cancel"
      [] Status = "running" -> v \in {"kill", "follow-up"}
      [] Status \in {"ready", "push_pending"} -> FALSE
      [] OTHER -> v \in {"re-run", "follow-up"}

Click(v) ==
    /\ clicks < MaxClicks /\ pending = "none" /\ Offers(v)
    /\ pending' = v /\ clicks' = clicks + 1
    /\ UNCHANGED <<runs, authorised, handoff, pushed, head, cut, proc, verify, build, changes>>

ApplyCancel ==
    /\ pending = "cancel"
    /\ authorised' = FALSE /\ pending' = "none"
    /\ UNCHANGED <<runs, handoff, pushed, head, cut, proc, verify, build, clicks, changes>>

(* A signalled process ends without a clean exit. *)
Killed == [proc EXCEPT !.alive = FALSE, !.exit = 1]

ApplyKill ==
    /\ pending = "kill" /\ pending' = "none"
    /\ proc' = IF proc.alive THEN Killed ELSE proc
    /\ UNCHANGED <<runs, authorised, handoff, pushed, head, cut, verify, build, clicks, changes>>

(* A message interrupts an agent, never a command. *)
InterruptForFollowUps ==
    /\ pending = "follow-up" /\ proc.alive /\ Latest.kind # "command"
    /\ proc' = Killed
    /\ UNCHANGED <<storeVars, head, cut, verify, build, clicks, changes>>

ReRunOne ==
    /\ pending = "re-run" /\ Settled /\ pending' = "none"
    /\ StartPass
    /\ UNCHANGED <<authorised, handoff, pushed, head, verify, build, clicks>>

(* followUpOne: the run is v0's, whatever workflow the ticket was in; with *)
(* no worktree the message is refused.                                     *)
FollowUpOne ==
    /\ pending = "follow-up" /\ Settled /\ pending' = "none"
    /\ IF cut
       THEN SpawnRun(NewRow(V0, "implement", "follow_up", FALSE, {}, head))
       ELSE UNCHANGED <<runs, proc, changes>>
    /\ UNCHANGED <<authorised, handoff, pushed, head, cut, verify, build, clicks>>

-----------------------------------------------------------------------------
(* The processes, the settings and the daemon.                             *)

(* Bound: one commit per run, MaxCommits in all. *)
Commit ==
    /\ proc.alive /\ StepOf(Latest).edits
    /\ head = Latest.base /\ head < MaxCommits
    /\ head' = head + 1
    /\ UNCHANGED <<storeVars, cut, proc, verify, build, clicks, changes>>

(* A command ends with an exit code, an agent with a last message, which   *)
(* counts for a step that writes; one that may write files may have asked. *)
Exit ==
    /\ proc.alive
    /\ \E exit \in {0, 1}, message \in {"none", "text", "findings"}, asked \in BOOLEAN :
          /\ ~StepOf(Latest).writes => message = "none"
          /\ Latest.kind # "command" => exit = 0
          /\ asked => Latest.step = "implement"
          /\ proc' = [proc EXCEPT !.alive = FALSE, !.exit = exit, !.message = message, !.asked = asked]
    /\ UNCHANGED <<storeVars, head, cut, verify, build, clicks, changes>>

ChangeVerify ==
    /\ changes < MaxChanges /\ changes' = changes + 1
    /\ verify' = ~verify
    /\ UNCHANGED <<storeVars, head, cut, proc, build, clicks>>

(* A restart leaves the process running but no child; a new build knows    *)
(* v1 by another hash.                                                     *)
Restart ==
    /\ changes < MaxChanges /\ changes' = changes + 1
    /\ proc' = [proc EXCEPT !.child = FALSE]
    /\ build' \in {build, build + 1}
    /\ UNCHANGED <<storeVars, head, cut, verify, clicks>>

-----------------------------------------------------------------------------
Init ==
    /\ runs = <<>> /\ authorised = TRUE /\ pending = "none" /\ handoff = {}
    /\ pushed = [tip |-> 0, body |-> 0]
    /\ head = 0 /\ cut = FALSE /\ proc = NoProc
    /\ verify \in BOOLEAN /\ build = 0
    /\ clicks = 0 /\ changes = 0

Loop ==
    \/ DisposeRun \/ Launch \/ AdvancePass \/ PushTip
    \/ ApplyCancel \/ ApplyKill \/ InterruptForFollowUps \/ ReRunOne \/ FollowUpOne

Next ==
    \/ Loop \/ Commit \/ Exit \/ ChangeVerify \/ Restart
    \/ \E v \in {"cancel", "kill", "re-run", "follow-up"} : Click(v)

Spec == Init /\ [][Next]_vars

(* The loop ticks for ever, the spend pause ends and a slot comes free, and*)
(* a process ends (max_turns caps agents, a verify command terminates).    *)
Fairness == WF_vars(Loop) /\ WF_vars(Exit)

FairSpec == Spec /\ Fairness

-----------------------------------------------------------------------------
Row == [wf : {"v0", "v1"}, build : Nat, step : StepNames, kind : {"agent", "command", "follow_up"},
        fresh : BOOLEAN, seen : SUBSET DOMAIN runs, base : Nat \cup {NoBase}, tip : Nat,
        said : {"none", "text", "findings", "output"}, outcome : Outcomes]

(* Types: every row, file and process record holds what its column or Go   *)
(* type allows; a running process belongs to the last row, which has no    *)
(* outcome, and no earlier row is without one.                             *)
TypeOK ==
    /\ runs \in Seq(Row)
    /\ authorised \in BOOLEAN /\ verify \in BOOLEAN /\ cut \in BOOLEAN
    /\ pending \in {"none", "cancel", "kill", "re-run", "follow-up"}
    /\ handoff \subseteq DOMAIN runs
    /\ pushed \in [tip : 0..head, body : DOMAIN runs \cup {0}]
    /\ proc \in [alive : BOOLEAN, child : BOOLEAN, exit : {0, 1},
                 message : {"none", "text", "findings"}, asked : BOOLEAN]
    /\ head \in 0..MaxCommits /\ build \in 0..MaxChanges
    /\ clicks \in 0..MaxClicks /\ changes \in 0..MaxChanges
    /\ \A r \in DOMAIN runs : r < Len(runs) => runs[r].outcome # "none"
    /\ proc.alive => cut /\ runs # <<>> /\ Latest.outcome = "none"

(* The runs of the pass r belongs to, up to r: from the last launch or     *)
(* re-run on, which is not how the code finds them.                        *)
PassTo(r) ==
    LET begun == {q \in 1..r : runs[q].fresh}
    IN  IF begun = {} THEN 1..r ELSE Max(begun)..r

(* Nothing is published as a finished pass unless the review step of that  *)
(* very pass passed on that very tip, whatever was fixed, killed, re-run   *)
(* or reconfigured on the way.                                             *)
FinishedPassWasReviewed ==
    \A r \in DOMAIN runs : runs[r].step = "pr" /\ runs[r].outcome = "push" /\ runs[r].build = build =>
        \E q \in PassTo(r) : /\ runs[q].step = "review" /\ runs[q].outcome = "passed"
                             /\ runs[q].tip = runs[r].tip

(* A step after read gives up: since read last ran there are at most       *)
(* MaxFixRounds fix runs, though the verify command comes and goes and the *)
(* count is taken over whatever the history shows as the pass.             *)
LaterStepsGiveUp ==
    \A r \in DOMAIN runs :
        LET read == {q \in PassTo(r) : runs[q].step = "read"}
        IN  read # {} => Cardinality({q \in Max(read)..r : runs[q].step = "fix"}) <= MaxFixRounds

(* A fix that follows a review with findings, or a command that ran and    *)
(* failed, has that step's handoff in its prompt.                          *)
FixIsTold ==
    \A r \in DOMAIN runs : (runs[r].step = "fix" /\ runs[r - 1].said \in {"findings", "output"})
        => r - 1 \in runs[r].seen

(* The machine that Pass describes, read off the rows. *)
PassMachine ==
    INSTANCE Pass WITH
        Order    <- <<"setup", "read", "implement", "check", "review", "pr">>,
        Commands <- {"setup", "check"},
        FixStep  <- "fix",
        at       <- IF runs = <<>> THEN "none" ELSE IF Latest.wf = "v0" THEN "message" ELSE Latest.step,
        state    <- CASE runs = <<>> -> "none"
                      [] runs # <<>> /\ Latest.outcome = "none" -> "running"
                      [] OTHER -> Latest.outcome,
        origin   <- IF runs = <<>> THEN "none"
                    ELSE IF Latest.wf = "v0" THEN "message"
                    ELSE runs[Max({r \in DOMAIN runs : runs[r].step # "fix"})].step

(* Reading the history is as good as keeping a machine: every run the loop *)
(* starts is the one a pass that remembers where it is would start, and a  *)
(* pass that was left for a message is never resumed.                      *)
PassFollowsSteps == PassMachine!Spec

(* A launched ticket comes to rest: published, parked, or waiting for the  *)
(* owner.                                                                  *)
AtRest == pending = "none" /\ Status \in {"ready", "failed", "cut_failed", "awaiting_input", "checking"}

PassSettles == <>[]AtRest
=============================================================================
