--------------------------- MODULE WorkflowProofs ---------------------------
(***************************************************************************)
(* What Workflow promises of every history, for any number of fix rounds,  *)
(* commits, clicks and changes.  The argument rests on one fact about the  *)
(* run history (HistoryInv): a run that begins no pass follows its         *)
(* predecessor as a pass that remembers where it is would have it follow.  *)
(***************************************************************************)
EXTENDS Workflow, FiniteSetTheorems, WellFoundedInduction, SequenceTheorems, TLAPS

-----------------------------------------------------------------------------
(* Sets of numbers.                                                        *)

(* A set of numbers that is not empty has a least one. *)
LEMMA LeastNumber ==
    ASSUME NEW S \in SUBSET Nat, S # {}
    PROVE  Min(S) \in S /\ \A y \in S : Min(S) <= y
<1> DEFINE R == {p \in Nat \X Nat : p[1] < p[2]}
<1>1. IsWellFoundedOn(R, Nat)
  BY NatLessThanWellFounded, Zenon DEF OpToRel
<1>2. \E x \in S : \A y \in S : ~(<<y, x>> \in R)
  <2> HIDE DEF R
  <2> QED BY <1>1, WFMin
<1>3. \A x, y \in Nat : y < x => <<y, x>> \in R
  OBVIOUS
<1>4. PICK x \in S : \A y \in S : ~(<<y, x>> \in R)
  BY <1>2
<1>5. ASSUME NEW y \in S, y < x
      PROVE  FALSE
  BY <1>3, <1>4, <1>5, Zenon
<1>6. \A y \in S : x <= y
  BY <1>5
<1> QED
  BY <1>6 DEF Min

(* A bounded one has a greatest. *)
LEMMA GreatestNumber ==
    ASSUME NEW n \in Nat, NEW S \in SUBSET (1..n), S # {}
    PROVE  Max(S) \in S /\ \A y \in S : Max(S) >= y
<1> DEFINE T == {n - x : x \in S}
<1>0. \A x \in S : n - x \in Nat
  OBVIOUS
<1>1. T \in SUBSET Nat /\ T # {}
  BY <1>0
<1>2. PICK x \in S : n - x = Min(T)
  BY <1>1, LeastNumber
<1>3. \A y \in S : n - y \in T
  OBVIOUS
<1>4. \A y \in S : x >= y
  <2> HIDE DEF T
  <2> QED
    BY <1>1, <1>2, <1>3, LeastNumber
<1> QED
  BY <1>4 DEF Max

-----------------------------------------------------------------------------
(* The workflows.                                                          *)

Order == <<"setup", "read", "implement", "check", "review", "pr">>

Names == {"setup", "read", "implement", "check", "review", "fix", "pr"}

(* The steps of v1 one by one. *)
LEMMA V1Steps ==
    /\ DOMAIN V1.steps = 1..7 /\ V1.name = "v1" /\ V1.rounds = MaxFixRounds /\ Len(V1.steps) = 7
    /\ V1.steps[1].name = "setup" /\ V1.steps[2].name = "read" /\ V1.steps[3].name = "implement"
    /\ V1.steps[4].name = "check" /\ V1.steps[5].name = "review" /\ V1.steps[6].name = "fix"
    /\ V1.steps[7].name = "pr"
    /\ \A i \in 1..7 : /\ V1.steps[i].command <=> (i \in {1, 4})
                       /\ V1.steps[i].writes <=> (i \in {2, 5, 7})
                       /\ V1.steps[i].onFail <=> (i = 6)
                       /\ V1.steps[i].edits <=> (i \in {3, 6})
<1> DEFINE s == V1.steps
<1>1. /\ s = << [Step("setup") EXCEPT !.command = TRUE],
                [Step("read") EXCEPT !.writes = TRUE],
                [Step("implement") EXCEPT !.edits = TRUE],
                [Step("check") EXCEPT !.command = TRUE],
                [Step("review") EXCEPT !.writes = TRUE],
                [Step("fix") EXCEPT !.onFail = TRUE, !.edits = TRUE],
                [Step("pr") EXCEPT !.writes = TRUE] >>
      /\ V1.name = "v1" /\ V1.rounds = MaxFixRounds
  BY DEF V1
<1> HIDE DEF s
<1>2. DOMAIN s = 1..7 /\ Len(s) = 7
  BY <1>1
<1>3. s[1].name = "setup" /\ s[1].command /\ ~s[1].writes /\ ~s[1].onFail /\ ~s[1].edits
  BY <1>1 DEF Step
<1>4. s[2].name = "read" /\ ~s[2].command /\ s[2].writes /\ ~s[2].onFail /\ ~s[2].edits
  BY <1>1 DEF Step
<1>5. s[3].name = "implement" /\ ~s[3].command /\ ~s[3].writes /\ ~s[3].onFail /\ s[3].edits
  BY <1>1 DEF Step
<1>6. s[4].name = "check" /\ s[4].command /\ ~s[4].writes /\ ~s[4].onFail /\ ~s[4].edits
  BY <1>1 DEF Step
<1>7. s[5].name = "review" /\ ~s[5].command /\ s[5].writes /\ ~s[5].onFail /\ ~s[5].edits
  BY <1>1 DEF Step
<1>8. s[6].name = "fix" /\ ~s[6].command /\ ~s[6].writes /\ s[6].onFail /\ s[6].edits
  BY <1>1 DEF Step
<1>9. s[7].name = "pr" /\ ~s[7].command /\ s[7].writes /\ ~s[7].onFail /\ ~s[7].edits
  BY <1>1 DEF Step
<1> QED
  BY <1>1, <1>2, <1>3, <1>4, <1>5, <1>6, <1>7, <1>8, <1>9 DEF s

(* v0 has one step. *)
LEMMA V0Steps ==
    /\ DOMAIN V0.steps = {1} /\ Len(V0.steps) = 1 /\ V0.name = "v0"
    /\ V0.steps[1].name = "implement" /\ V0.steps[1].edits
    /\ ~V0.steps[1].command /\ ~V0.steps[1].writes /\ ~V0.steps[1].onFail
<1> DEFINE s == V0.steps
<1>1. s = <<[Step("implement") EXCEPT !.edits = TRUE]>> /\ V0.name = "v0"
  BY DEF V0
<1> HIDE DEF s
<1>2. DOMAIN s = 1..1 /\ Len(s) = 1
  BY <1>1
<1>3. s[1].name = "implement" /\ s[1].edits /\ ~s[1].command /\ ~s[1].writes /\ ~s[1].onFail
  BY <1>1 DEF Step
<1> QED
  BY <1>1, <1>2, <1>3 DEF s

(* The names of v1's steps. *)
LEMMA StepNamesAre == StepNames = Names
  BY V1Steps DEF StepNames, Names

(* A step of v1 by its name. *)
LEMMA StepOfV1 ==
    ASSUME NEW row, row.wf = "v1", row.step \in Names
    PROVE  /\ StepOf(row).name = row.step
           /\ StepOf(row).command <=> row.step \in {"setup", "check"}
           /\ StepOf(row).writes  <=> row.step \in {"read", "review", "pr"}
           /\ StepOf(row).edits   <=> row.step \in {"implement", "fix"}
<1>1. \E i \in 1..7 : V1.steps[i].name = row.step
  BY V1Steps DEF Names
<1>2. PICK i \in 1..7 : V1.steps[i].name = row.step /\ StepOf(row) = V1.steps[i]
  BY <1>1, V1Steps DEF StepOf, ByName
<1> QED
  BY <1>2, V1Steps

(* The step of v0 by its name. *)
LEMMA StepOfV0 ==
    ASSUME NEW row, row.wf = "v0", row.step = "implement"
    PROVE  StepOf(row).name = "implement" /\ ~StepOf(row).command /\ ~StepOf(row).writes
  BY V0Steps DEF StepOf, ByName

(* The forward steps, with and without a verify command. *)
LEMMA ForwardStepsAre ==
    /\ verify => ForwardSteps(V1) = {1, 2, 3, 4, 5, 7}
    /\ ~verify => ForwardSteps(V1) = {2, 3, 5, 7}
    /\ ForwardSteps(V0) = {1}
  BY V1Steps, V0Steps DEF ForwardSteps

(* The step that repairs. *)
LEMMA FixNames == FixName(V1) = "fix" /\ FixName(V0) = "no_fix_step"
<1>1. {i \in DOMAIN V1.steps : V1.steps[i].onFail} = {6}
  BY V1Steps
<1>2. Max({6}) = 6
  BY GreatestNumber, {6} \in SUBSET (1..6)
<1>3. {i \in DOMAIN V0.steps : V0.steps[i].onFail} = {}
  BY V0Steps
<1>4. FixName(V1) = V1.steps[6].name
  BY <1>1, <1>2 DEF FixName
<1>5. FixName(V0) = "no_fix_step"
  BY <1>3 DEF FixName
<1> QED
  BY <1>4, <1>5, V1Steps

(* The step a pass begins with. *)
LEMMA FirstSteps ==
    /\ First(V1).name = IF verify THEN "setup" ELSE "read"
    /\ First(V1).command <=> verify
    /\ First(V0).name = "implement"
<1>1. verify => Min(ForwardSteps(V1)) = 1
  BY ForwardStepsAre, LeastNumber
<1>2. ~verify => Min(ForwardSteps(V1)) = 2
  BY ForwardStepsAre, LeastNumber
<1>3. Min(ForwardSteps(V0)) = 1
  BY ForwardStepsAre, LeastNumber
<1> QED
  BY <1>1, <1>2, <1>3, V1Steps, V0Steps DEF First

-----------------------------------------------------------------------------
(* The invariant.                                                          *)

(* The step after a forward step that passed; check is left out of a pass  *)
(* without a verify command.                                               *)
Successors ==
    {<<"setup", "read">>, <<"read", "implement">>, <<"implement", "check">>, <<"implement", "review">>,
     <<"check", "review">>, <<"review", "pr">>}

(* Run r goes on with the pass of run r - 1: to the next step when that    *)
(* one passed, to the fix step when it failed, and from a fix back to the  *)
(* step before it.                                                         *)
Follows(r) ==
    /\ r > 1 /\ runs[r - 1].wf = "v1"
    /\ \/ <<runs[r - 1].step, runs[r].step>> \in Successors /\ runs[r - 1].outcome = "passed"
       \/ /\ runs[r].step = "fix" /\ runs[r - 1].step \in Names \ {"fix", "pr"}
          /\ runs[r - 1].outcome = "failed"
       \/ /\ r > 2 /\ runs[r].step = runs[r - 2].step /\ runs[r].step # "fix"
          /\ runs[r - 1].step = "fix" /\ runs[r - 1].outcome = "passed"

(* What is so of every run: a message is v0's, a pass begins with its      *)
(* first step, and any other run follows the one before it.                *)
RunInv(r) ==
    /\ runs[r].build <= build
    /\ runs[r].wf = "v0" => runs[r].step = "implement" /\ runs[r].kind = "follow_up" /\ ~runs[r].fresh
    /\ runs[r].wf = "v1" => /\ runs[r].kind = "command" <=> runs[r].step \in {"setup", "check"}
                            /\ ~runs[r].fresh => Follows(r)
    /\ runs[r].fresh => runs[r].step \in {"setup", "read"}

HistoryInv ==
    /\ build <= changes
    /\ cut => runs # <<>>
    /\ runs # <<>> => cut \/ Latest.outcome = "cut_failed"
    /\ \A r \in DOMAIN runs : RunInv(r)

(* A settled ticket's branch is where its last run left it, and the pr     *)
(* step leaves it where the review saw it.                                 *)
TipInv ==
    /\ runs # <<>> /\ Latest.outcome # "none" => Latest.tip = head
    /\ \A r \in DOMAIN runs : runs[r].step = "pr" =>
          runs[r - 1].tip = IF runs[r].outcome = "none" THEN head ELSE runs[r].tip

(* A process that said something had a step that writes, and what a failed *)
(* run of this build said is handed over.                                  *)
HandoffInv ==
    /\ proc.message # "none" =>
          /\ runs # <<>> /\ Latest.outcome = "none" /\ ~proc.alive
          /\ Latest.wf = "v1" /\ Latest.step \in {"read", "review", "pr"}
    /\ \A r \in DOMAIN runs :
          runs[r].outcome = "failed" /\ runs[r].build = build /\ runs[r].said \in {"findings", "output"}
          => r \in handoff
    /\ FixIsTold

(* The fix runs from run q to run r. *)
FixesFrom(q, r) == {k \in q..r : runs[k].step = "fix"}

(* Within a pass setup does not come after read, and from a read on, until *)
(* the next one or the next pass, the fix runs are within the rounds.      *)
RoundsInv ==
    /\ \A q, r \in DOMAIN runs : q < r /\ runs[q].step = "read" /\ runs[r].step = "setup" =>
          \E k \in (q + 1)..r : runs[k].fresh
    /\ \A q, r \in DOMAIN runs :
          (/\ q <= r /\ runs[q].step = "read"
           /\ \A k \in (q + 1)..r : ~runs[k].fresh /\ runs[k].step # "read")
          => Cardinality(FixesFrom(q, r)) <= MaxFixRounds

-----------------------------------------------------------------------------
(* What Next answers.                                                      *)

(* The four answers. *)
LEMMA Answers ==
    /\ Park.kind = "park" /\ Done.kind = "done" /\ Waits.step = "none"
    /\ \A step, round : Starts(step, round).kind = "run" /\ Starts(step, round).step = step
  BY DEF Park, Done, Waits, Starts

(* v0 has nothing to start after its one step. *)
LEMMA AfterForwardV0 ==
    ASSUME NEW last, NEW rounds
    PROVE  AfterForward(V0, last, rounds).kind # "run"
<1>1. Named(V0, last.step) # {} => Named(V0, last.step) = {1}
  BY ForwardStepsAre DEF Named
<1>2. Min({1}) = 1
  BY LeastNumber
<1>3. {i \in ForwardSteps(V0) : i > 1} = {}
  BY ForwardStepsAre
<1>4. AfterForward(V0, last, rounds) \in {Park, Done}
  BY <1>1, <1>2, <1>3 DEF AfterForward
<1> QED
  BY <1>4, Answers

(* v1 goes on to the next forward step, or to the fix step while rounds    *)
(* are left.                                                               *)
LEMMA AfterForwardV1 ==
    ASSUME NEW last, NEW rounds, AfterForward(V1, last, rounds).kind = "run"
    PROVE  LET step == AfterForward(V1, last, rounds).step
           IN  \/ <<last.step, step>> \in Successors /\ last.outcome = "passed"
               \/ /\ step = "fix" /\ last.step \in Names \ {"fix", "pr"}
                  /\ last.outcome = "failed" /\ rounds < MaxFixRounds
<1> DEFINE at    == Min(Named(V1, last.step))
           later == {i \in ForwardSteps(V1) : i > at}
           next  == Min(later)
           step  == AfterForward(V1, last, rounds).step
<1>1. Named(V1, last.step) # {} /\ later # {}
  BY Answers DEF AfterForward
<1>2. \/ last.outcome = "passed" /\ step = V1.steps[next].name
      \/ last.outcome = "failed" /\ rounds < MaxFixRounds /\ step = "fix"
  <2>1. \/ /\ last.outcome = "passed"
           /\ AfterForward(V1, last, rounds) = Starts(V1.steps[next].name, rounds)
        \/ /\ last.outcome = "failed" /\ rounds < V1.rounds
           /\ AfterForward(V1, last, rounds) = Starts(FixName(V1), rounds + 1)
        \/ AfterForward(V1, last, rounds) = Park
    BY <1>1 DEF AfterForward
  <2>2. V1.rounds = MaxFixRounds
    BY V1Steps
  <2> HIDE DEF at, later, next
  <2> QED
    BY <2>1, <2>2, FixNames DEF Starts, Park
<1>3. ForwardSteps(V1) \in SUBSET Nat
  BY ForwardStepsAre
<1>4. at \in ForwardSteps(V1) /\ V1.steps[at].name = last.step
  BY <1>1, <1>3, LeastNumber DEF Named
<1>5. next \in ForwardSteps(V1) /\ next > at /\ \A i \in ForwardSteps(V1) : i > at => next <= i
  BY <1>1, <1>3, LeastNumber
<1> HIDE DEF at, next, later, step
<1>6. last.step \in Names \ {"fix", "pr"}
  BY <1>4, <1>5, ForwardStepsAre, V1Steps DEF Names
<1>7. <<last.step, V1.steps[next].name>> \in Successors
  BY <1>4, <1>5, ForwardStepsAre, V1Steps DEF Successors
<1> QED
  BY <1>2, <1>6, <1>7 DEF step

(* The rows are a sequence; the last of a history is one of them. *)
LEMMA RunsAre ==
    ASSUME TypeOK
    PROVE  /\ Len(runs) \in Nat /\ DOMAIN runs = 1..Len(runs)
           /\ \A r \in DOMAIN runs : runs[r] \in Row
           /\ runs # <<>> => Len(runs) \in DOMAIN runs /\ Latest \in Row
<1>1. runs \in Seq(Row)
  BY DEF TypeOK
<1>2. Len(runs) \in Nat /\ DOMAIN runs = 1..Len(runs) /\ \A r \in DOMAIN runs : runs[r] \in Row
  BY <1>1, LenProperties, ElementOfSeq
<1>3. runs # <<>> => Len(runs) > 0
  BY <1>1, <1>2, EmptySeq
<1> QED
  BY <1>2, <1>3 DEF Latest

(* What fromLatest keeps is the end of the history, the last run included. *)
LEMMA FromLatestIs ==
    ASSUME TypeOK, runs # <<>>, NEW first \in StepNames
    PROVE  \E m \in DOMAIN runs :
              /\ FromLatest(first) = m..Len(runs)
              /\ \/ m = 1 /\ \A r \in DOMAIN runs : runs[r].step # first
                 \/ runs[m].step = first /\ \A r \in DOMAIN runs : runs[r].step = first => r <= m
<1>1. Len(runs) \in Nat /\ DOMAIN runs = 1..Len(runs) /\ 1 \in DOMAIN runs
  BY RunsAre
<1>2. RunsOf[first] = {r \in DOMAIN runs : runs[r].step = first}
  BY DEF RunsOf
<1>3. CASE RunsOf[first] = {}
  BY <1>1, <1>2, <1>3 DEF FromLatest
<1>4. CASE RunsOf[first] # {}
  <2>1. RunsOf[first] \in SUBSET (1..Len(runs))
    BY <1>1, <1>2
  <2>2. Max(RunsOf[first]) \in RunsOf[first] /\ \A r \in RunsOf[first] : Max(RunsOf[first]) >= r
    BY <1>1, <1>4, <2>1, GreatestNumber
  <2>3. FromLatest(first) = Max(RunsOf[first])..Len(runs)
    BY <1>4 DEF FromLatest
  <2> QED
    BY <1>1, <1>2, <2>2, <2>3
<1> QED
  BY <1>3, <1>4

(* The fix runs that count against the rounds. *)
Fixes == {r \in FromLatest(First(V1).name) : runs[r].step = "fix"}

(* Whatever plan.Workflow.Next starts goes on with the pass of the latest  *)
(* run, which is a settled run of this build's v1.                         *)
LEMMA NextStarts ==
    ASSUME TypeOK, InFlight(NextFor)
    PROVE  /\ runs # <<>> /\ Latest.wf = "v1" /\ Latest.build = build /\ Latest.outcome # "none"
           /\ NextFor.step \in Names
           /\ \/ <<Latest.step, NextFor.step>> \in Successors /\ Latest.outcome = "passed"
              \/ /\ NextFor.step = "fix" /\ Latest.step \in Names \ {"fix", "pr"}
                 /\ Latest.outcome = "failed" /\ Cardinality(Fixes) < MaxFixRounds
              \/ /\ Latest.step = "fix" /\ Latest.outcome = "passed"
                 /\ \E q \in DOMAIN runs : /\ NextFor.step = runs[q].step /\ runs[q].step # "fix"
                                           /\ \A k \in (q + 1)..Len(runs) : runs[k].step = "fix"
<1> DEFINE w      == ByName(Latest.wf)
           pass   == FromLatest(First(w).name)
           fixes  == {r \in pass : runs[r].step = FixName(w)}
           failed == IF pass = fixes THEN "none" ELSE runs[Max(pass \ fixes)].step
<1>1. runs # <<>> /\ Known(Latest) /\ NextFor = NextOf(w) /\ NextFor.kind = "run" /\ NextFor.step # "none"
  BY Answers DEF InFlight, NextFor
<1>2. w \in {V0, V1} /\ ForwardSteps(w) # {} /\ First(w).name \in StepNames
  BY ForwardStepsAre, FirstSteps, StepNamesAre DEF ByName, Names
<1>3. PICK m \in DOMAIN runs : pass = m..Len(runs)
  BY <1>1, <1>2, FromLatestIs
<1>4. /\ Len(runs) \in Nat /\ DOMAIN runs = 1..Len(runs) /\ Len(runs) \in pass
      /\ Latest \in Row
  BY <1>1, <1>3, RunsAre
<1>5. /\ Latest.outcome # "none"
      /\ \/ Latest.step = FixName(w) /\ NextFor = AfterFix(w, Latest, failed, Cardinality(fixes))
         \/ Latest.step # FixName(w) /\ NextFor = AfterForward(w, Latest, Cardinality(fixes))
  <2>1. ~(\E r \in pass : runs[r].outcome = "none")
    BY <1>1, <1>2, <1>4, Answers DEF NextOf
  <2>2. NextFor = IF Latest.step = FixName(w) THEN AfterFix(w, Latest, failed, Cardinality(fixes))
                  ELSE AfterForward(w, Latest, Cardinality(fixes))
    BY <1>1, <1>2, <1>4, <2>1 DEF NextOf
  <2> QED
    BY <1>4, <2>1, <2>2 DEF Latest
<1>6. Latest.step \in Names /\ Latest.wf \in {"v0", "v1"}
  BY <1>4, StepNamesAre DEF Row
<1>7. w = V1 /\ Latest.wf = "v1" /\ Latest.build = build
  <2>1. w # V0
    BY <1>1, <1>5, <1>6, FixNames, AfterForwardV0 DEF Names
  <2> QED
    BY <1>1, <1>2, <1>6, <2>1 DEF ByName, Known
<1>8. fixes = Fixes
  BY <1>7, FixNames DEF Fixes
<1>9. CASE Latest.step # "fix"
  <2>1. NextFor = AfterForward(V1, Latest, Cardinality(Fixes))
    BY <1>5, <1>7, <1>8, <1>9, FixNames
  <2>2. \/ <<Latest.step, NextFor.step>> \in Successors /\ Latest.outcome = "passed"
        \/ /\ NextFor.step = "fix" /\ Latest.step \in Names \ {"fix", "pr"}
           /\ Latest.outcome = "failed" /\ Cardinality(Fixes) < MaxFixRounds
    BY <1>1, <2>1, AfterForwardV1
  <2>3. NextFor.step \in Names
    BY <2>2 DEF Successors, Names
  <2> QED
    BY <1>1, <1>5, <1>7, <2>2, <2>3
<1>10. CASE Latest.step = "fix"
  <2>1. NextFor = AfterFix(V1, Latest, failed, Cardinality(fixes))
    BY <1>5, <1>7, <1>10, FixNames
  <2>2. Latest.outcome = "passed" /\ NextFor = Rerun(V1, failed, Cardinality(fixes))
    BY <1>1, <2>1, Answers DEF AfterFix
  <2>3. Named(V1, failed) # {} /\ NextFor.step = failed
    <3>1. NextFor.kind = "run"
      BY <1>1
    <3> HIDE DEF failed, fixes
    <3> QED
      BY <2>2, <3>1, Answers DEF Rerun
  <2>4. failed \in Names \ {"fix"}
    <3>1. PICK i \in ForwardSteps(V1) : V1.steps[i].name = failed
      BY <2>3 DEF Named
    <3> HIDE DEF failed
    <3> QED
      BY <3>1, ForwardStepsAre, V1Steps DEF Names
  <2>5. pass # fixes
    BY <2>4 DEF Names
  <2>6. pass \ fixes # {} /\ pass \ fixes \in SUBSET (1..Len(runs))
    BY <1>3, <1>4, <2>5
  <2> DEFINE q == Max(pass \ fixes)
  <2>7. q \in pass \ fixes /\ \A k \in pass \ fixes : q >= k
    BY <1>4, <2>6, GreatestNumber
  <2>8. failed = runs[q].step
    BY <2>5
  <2>9. \A k \in pass \ fixes : runs[k].step # "fix"
    BY <1>7, FixNames
  <2>10. \A k \in pass : k \notin fixes => k \in pass \ fixes
    OBVIOUS
  <2>11. \A k \in fixes : runs[k].step = "fix"
    BY <1>7, FixNames
  <2> HIDE DEF q, failed, fixes
  <2>12. q \in DOMAIN runs /\ \A k \in (q + 1)..Len(runs) : runs[k].step = "fix"
    BY <1>3, <1>4, <2>7, <2>10, <2>11
  <2> QED
    BY <1>1, <1>5, <1>7, <1>10, <2>2, <2>3, <2>4, <2>7, <2>8, <2>9, <2>12
<1> QED
  BY <1>9, <1>10

-----------------------------------------------------------------------------
(* What the steps do to the history: some start a run, one settles the     *)
(* latest, the others leave the rows alone.                                *)

(* A row for a run that starts now, beginning a pass or not. *)
NewRowOK(row, w, name, kind, seen) ==
    /\ row \in Row
    /\ row.wf = w.name /\ row.step = name /\ row.kind = kind /\ row.seen = seen
    /\ row.build = build /\ row.tip = head /\ row.said = "none" /\ row.outcome = "none"

(* A row that startStep writes is one. *)
LEMMA NewRowIs ==
    ASSUME TypeOK, NEW w \in {V0, V1}, NEW name \in Names, NEW kind \in {"agent", "command", "follow_up"},
           NEW seen \in SUBSET DOMAIN runs
    PROVE  /\ NewRowOK(NewRow(w, name, kind, TRUE, seen, head), w, name, kind, seen)
           /\ NewRowOK(NewRow(w, name, kind, FALSE, seen, head), w, name, kind, seen)
           /\ NewRow(w, name, kind, TRUE, seen, head).fresh
           /\ ~NewRow(w, name, kind, FALSE, seen, head).fresh
<1>1. head \in Nat /\ build \in Nat /\ w.name \in {"v0", "v1"} /\ name \in StepNames
  <2>1. head \in Nat /\ build \in Nat
    BY DEF TypeOK
  <2>2. w.name \in {"v0", "v1"}
    BY V0Steps, V1Steps
  <2>3. name \in StepNames
    BY StepNamesAre
  <2> QED
    BY <2>1, <2>2, <2>3
<1>2. head \in Nat \cup {NoBase} /\ "none" \in Outcomes
  BY <1>1 DEF Outcomes
<1> HIDE DEF Row
<1>3. NewRow(w, name, kind, TRUE, seen, head) \in Row /\ NewRow(w, name, kind, FALSE, seen, head) \in Row
  BY <1>1, <1>2 DEF NewRow, Row
<1> QED
  BY <1>3 DEF NewRow, NewRowOK

(* The same row for a run that failed at once. *)
SameRun(new, row) ==
    /\ new.wf = row.wf /\ new.build = row.build /\ new.step = row.step /\ new.kind = row.kind
    /\ new.fresh = row.fresh /\ new.seen = row.seen /\ new.tip = row.tip /\ new.said = row.said

(* A row that failed at once, or for want of a worktree, is otherwise the   *)
(* row of the run.                                                         *)
LEMMA FailedRow ==
    ASSUME NEW row \in Row
    PROVE  /\ LET new == [row EXCEPT !.outcome = "failed"]
              IN  new \in Row /\ SameRun(new, row) /\ new.outcome = "failed"
           /\ LET new == [row EXCEPT !.base = NoBase, !.outcome = "cut_failed"]
              IN  new \in Row /\ SameRun(new, row) /\ new.outcome = "cut_failed"
<1>1. LET new == [row EXCEPT !.outcome = "failed"]
      IN  new \in Row /\ SameRun(new, row) /\ new.outcome = "failed"
  BY DEF Row, SameRun, Outcomes
<1>2. LET new == [row EXCEPT !.base = NoBase, !.outcome = "cut_failed"]
      IN  new \in Row /\ SameRun(new, row) /\ new.outcome = "cut_failed"
  BY DEF Row, SameRun, Outcomes
<1> QED
  BY <1>1, <1>2

(* The run new starts: as a process, or failed at once. *)
Starting(new) ==
    /\ runs' = Append(runs, new)
    /\ new.build = build /\ new.tip = head /\ new.said = "none"
    /\ \/ new.outcome = "none" /\ proc' = [NoProc EXCEPT !.alive = TRUE, !.child = TRUE]
       \/ new.outcome \in {"failed", "cut_failed"} /\ UNCHANGED proc
    /\ cut' \/ new.outcome = "cut_failed"
    /\ cut' \in BOOLEAN /\ changes' \in {changes, changes + 1} \cap (0..MaxChanges)
    /\ pending' \in {pending, "none"}
    /\ UNCHANGED <<authorised, handoff, pushed, head, verify, build, clicks>>

Begins(new) ==
    /\ new.wf = "v1" /\ new.fresh /\ new.step = First(V1).name /\ new.kind = KindOf(First(V1))

GoesOn(new) ==
    /\ InFlight(NextFor)
    /\ new.wf = "v1" /\ ~new.fresh /\ new.step = NextFor.step /\ new.outcome # "cut_failed"
    /\ new.kind = KindOf(StepOf([wf |-> "v1", step |-> NextFor.step]))
    /\ new.seen = handoff \cap FromLatest(First(V1).name)

Speaks(new) ==
    /\ runs # <<>> /\ new.outcome # "cut_failed"
    /\ new.wf = "v0" /\ ~new.fresh /\ new.step = "implement" /\ new.kind = "follow_up"

Settles ==
    LET r == Len(runs)
    IN  /\ runs # <<>> /\ runs[r].outcome = "none" /\ ~proc.alive
        /\ runs' = [runs EXCEPT ![r].outcome = OutcomeFor(r), ![r].tip = head,
                                ![r].said = IF runs[r].kind = "command" THEN "output" ELSE proc.message]
        /\ handoff' = WriteHandoff(r, OutcomeFor(r)) /\ proc' = NoProc
        /\ UNCHANGED <<authorised, pending, pushed, head, cut, verify, build, clicks, changes>>

(* spawnRun leaves one new row, of a process or of a failure. *)
LEMMA SpawnStarts ==
    ASSUME TypeOK, NEW row \in Row, row.outcome = "none", SpawnRun(row)
    PROVE  \E new \in Row :
              /\ runs' = Append(runs, new) /\ SameRun(new, row) /\ changes' \in {changes, changes + 1} \cap (0..MaxChanges)
              /\ \/ new.outcome = "none" /\ proc' = [NoProc EXCEPT !.alive = TRUE, !.child = TRUE]
                 \/ new.outcome = "failed" /\ UNCHANGED proc
<1>1. CASE runs' = Append(runs, row) /\ proc' = [NoProc EXCEPT !.alive = TRUE, !.child = TRUE] /\ UNCHANGED changes
  BY <1>1 DEF SameRun, TypeOK
<1>2. CASE /\ changes < MaxChanges /\ changes' = changes + 1
           /\ runs' = Append(runs, [row EXCEPT !.outcome = "failed"])
           /\ UNCHANGED proc
  <2>1. changes' \in 0..MaxChanges
    BY <1>2, WorkflowAssumption DEF TypeOK
  <2> QED
    BY <1>2, <2>1, FailedRow
<1> QED
  BY <1>1, <1>2 DEF SpawnRun

(* Launches and re-runs begin a pass. *)
LEMMA StartPassBegins ==
    ASSUME TypeOK, StartPass, pending' \in {pending, "none"},
           UNCHANGED <<authorised, handoff, pushed, head, verify, build, clicks>>
    PROVE  \E new \in Row : Starting(new) /\ Begins(new)
<1> DEFINE row == NewRow(V1, First(V1).name, KindOf(First(V1)), TRUE, {}, head)
<1>1. First(V1).name \in Names /\ KindOf(First(V1)) \in {"agent", "command", "follow_up"}
  BY FirstSteps DEF Names, KindOf
<1>2. /\ row \in Row /\ row.wf = "v1" /\ row.step = First(V1).name /\ row.kind = KindOf(First(V1))
      /\ row.fresh /\ row.build = build /\ row.tip = head /\ row.said = "none" /\ row.outcome = "none"
  <2>1. {} \in SUBSET DOMAIN runs /\ V1 \in {V0, V1}
    OBVIOUS
  <2>2. NewRowOK(row, V1, First(V1).name, KindOf(First(V1)), {}) /\ row.fresh
    BY <1>1, <2>1, NewRowIs
  <2> QED
    BY <2>2, V1Steps DEF NewRowOK
<1>3. \/ SpawnRun(row) /\ cut' = TRUE
      \/ /\ UNCHANGED <<cut, proc>> /\ changes < MaxChanges /\ changes' = changes + 1
         /\ runs' = Append(runs, [row EXCEPT !.base = NoBase, !.outcome = "cut_failed"])
  BY DEF StartPass
<1> HIDE DEF row
<1>4. CASE SpawnRun(row) /\ cut' = TRUE
  <2>1. PICK new \in Row :
           /\ runs' = Append(runs, new) /\ SameRun(new, row) /\ changes' \in {changes, changes + 1} \cap (0..MaxChanges)
           /\ \/ new.outcome = "none" /\ proc' = [NoProc EXCEPT !.alive = TRUE, !.child = TRUE]
              \/ new.outcome = "failed" /\ UNCHANGED proc
    BY <1>2, <1>4, SpawnStarts
  <2>2. Begins(new)
    BY <1>2, <2>1 DEF Begins, SameRun
  <2>3. Starting(new)
    BY <1>2, <1>4, <2>1 DEF Starting, SameRun
  <2> QED
    BY <2>2, <2>3
<1>5. CASE /\ UNCHANGED <<cut, proc>> /\ changes < MaxChanges /\ changes' = changes + 1
           /\ runs' = Append(runs, [row EXCEPT !.base = NoBase, !.outcome = "cut_failed"])
  <2>1. changes' \in 0..MaxChanges /\ cut' \in BOOLEAN
    BY <1>5, WorkflowAssumption DEF TypeOK
  <2> DEFINE new == [row EXCEPT !.base = NoBase, !.outcome = "cut_failed"]
  <2>2. new \in Row /\ SameRun(new, row) /\ new.outcome = "cut_failed"
    BY <1>2, FailedRow
  <2> HIDE DEF new
  <2>3. Starting(new) /\ Begins(new)
    BY <1>2, <1>5, <2>1, <2>2 DEF Starting, Begins, SameRun, new
  <2> QED
    BY <2>2, <2>3
<1> QED
  BY <1>3, <1>4, <1>5

(* A run that continues a pass. *)
LEMMA AdvancePassGoesOn ==
    ASSUME TypeOK, HistoryInv, AdvancePass
    PROVE  \E new \in Row : Starting(new) /\ GoesOn(new)
<1> DEFINE next == NextFor
           step == StepOf([wf |-> "v1", step |-> next.step])
           seen == handoff \cap FromLatest(First(V1).name)
           row  == NewRow(V1, step.name, KindOf(step), FALSE, seen, head)
<1>1. InFlight(next)
  BY DEF AdvancePass
<1>2. runs # <<>> /\ Latest.wf = "v1" /\ next.step \in Names /\ cut
  BY <1>1, NextStarts DEF HistoryInv
<1>3. step.name = next.step /\ KindOf(step) \in {"agent", "command", "follow_up"}
  BY <1>2, StepOfV1 DEF KindOf
<1>4. /\ SpawnRun(row)
      /\ UNCHANGED <<authorised, pending, handoff, pushed, head, cut, verify, build, clicks>>
  BY <1>2, V1Steps DEF AdvancePass, ByName
<1>5. seen \in SUBSET DOMAIN runs
  BY DEF TypeOK
<1> HIDE DEF seen, step
<1>6. /\ row \in Row /\ row.wf = "v1" /\ row.step = next.step /\ row.kind = KindOf(step)
      /\ ~row.fresh /\ row.seen = seen
      /\ row.build = build /\ row.tip = head /\ row.said = "none" /\ row.outcome = "none"
  <2>1. V1 \in {V0, V1}
    OBVIOUS
  <2>2. NewRowOK(row, V1, next.step, KindOf(step), seen) /\ ~row.fresh
    BY <1>2, <1>3, <1>5, <2>1, NewRowIs
  <2> QED
    BY <2>2, V1Steps DEF NewRowOK
<1> HIDE DEF row, next
<1>7. PICK new \in Row :
         /\ runs' = Append(runs, new) /\ SameRun(new, row) /\ changes' \in {changes, changes + 1} \cap (0..MaxChanges)
         /\ \/ new.outcome = "none" /\ proc' = [NoProc EXCEPT !.alive = TRUE, !.child = TRUE]
            \/ new.outcome = "failed" /\ UNCHANGED proc
  BY <1>4, <1>6, SpawnStarts
<1>8. GoesOn(new)
  BY <1>1, <1>6, <1>7 DEF GoesOn, SameRun, next, step, seen
<1>9. cut' /\ cut' \in BOOLEAN /\ pending' \in {pending, "none"}
  BY <1>2, <1>4 DEF TypeOK
<1>10. Starting(new)
  BY <1>4, <1>6, <1>7, <1>9 DEF Starting, SameRun
<1> QED
  BY <1>8, <1>10

(* A message to a ticket with a worktree. *)
LEMMA FollowUpSpeaks ==
    ASSUME TypeOK, HistoryInv, FollowUpOne, cut
    PROVE  \E new \in Row : Starting(new) /\ Speaks(new)
<1> DEFINE row == NewRow(V0, "implement", "follow_up", FALSE, {}, head)
<1>1. {} \in SUBSET DOMAIN runs /\ V0 \in {V0, V1} /\ "implement" \in Names
  BY DEF Names
<1>2. NewRowOK(row, V0, "implement", "follow_up", {}) /\ ~row.fresh
  BY <1>1, NewRowIs
<1>3. /\ row \in Row /\ row.wf = "v0" /\ row.step = "implement" /\ row.kind = "follow_up" /\ ~row.fresh
      /\ row.build = build /\ row.tip = head /\ row.said = "none" /\ row.outcome = "none"
  BY <1>2, V0Steps DEF NewRowOK
<1>4. /\ SpawnRun(row) /\ pending' = "none"
      /\ UNCHANGED <<authorised, handoff, pushed, head, cut, verify, build, clicks>>
  BY DEF FollowUpOne
<1> HIDE DEF row
<1>5. PICK new \in Row :
         /\ runs' = Append(runs, new) /\ SameRun(new, row) /\ changes' \in {changes, changes + 1} \cap (0..MaxChanges)
         /\ \/ new.outcome = "none" /\ proc' = [NoProc EXCEPT !.alive = TRUE, !.child = TRUE]
            \/ new.outcome = "failed" /\ UNCHANGED proc
  BY <1>3, <1>4, SpawnStarts
<1>6. Speaks(new)
  BY <1>3, <1>5 DEF Speaks, SameRun, HistoryInv
<1>7. cut' /\ cut' \in BOOLEAN
  BY <1>4 DEF TypeOK
<1>8. Starting(new)
  BY <1>3, <1>4, <1>5, <1>7 DEF Starting, SameRun
<1> QED
  BY <1>6, <1>8

(* How a run can end. *)
LEMMA OutcomeIs ==
    ASSUME NEW r
    PROVE  OutcomeFor(r) \in {"passed", "failed", "asked", "continued", "push"}
<1>1. \A step, exit, commits, message : StepOutcome(step, exit, commits, message) \in {"passed", "failed"}
  BY DEF StepOutcome
<1>2. \A base : Disposition(base) \in {"push", "failed"}
  BY DEF Disposition
<1>3. \A w : Len(ByName(w).steps) \in {1, 7}
  BY V0Steps, V1Steps DEF ByName
<1> DEFINE row    == runs[r]
           w      == ByName(row.wf)
           steps  == Len(w.steps)
           single == Disposition(row.base)
           middle == StepOutcome(StepOf(row), ExitCode, CommitsSinceBaseline(row.base), proc.message)
           last   == Disposition(PassBaseline(w))
           judged == CASE ~Known(row) \/ steps = 1 -> single
                       [] Known(row) /\ steps > 1 /\ ~FinalStep(w, StepOf(row)) -> middle
                       [] Known(row) /\ steps > 1 /\ FinalStep(w, StepOf(row)) -> last
<1>4. single \in {"push", "failed"} /\ middle \in {"passed", "failed"} /\ last \in {"push", "failed"}
  BY <1>1, <1>2
<1>5. steps \in {1, 7}
  BY <1>3
<1>6. judged \in {"passed", "failed", "push"}
  <2> HIDE DEF single, middle, last, steps, w, row
  <2>1. CASE ~Known(row) \/ steps = 1
    BY <1>4, <1>5, <2>1
  <2>2. CASE Known(row) /\ steps = 7 /\ ~FinalStep(w, StepOf(row))
    BY <1>4, <2>2
  <2>3. CASE Known(row) /\ steps = 7 /\ FinalStep(w, StepOf(row))
    BY <1>4, <2>3
  <2> QED
    BY <1>5, <2>1, <2>2, <2>3
<1>7. \/ OutcomeFor(r) = judged
      \/ OutcomeFor(r) = "continued"
      \/ OutcomeFor(r) = "asked"
  BY Zenon DEF OutcomeFor
<1> HIDE DEF judged
<1> QED
  BY <1>6, <1>7

(* The steps that write no row. *)
QuietStep ==
    \/ PushTip \/ ApplyCancel \/ ApplyKill \/ InterruptForFollowUps \/ (FollowUpOne /\ ~cut)
    \/ Commit \/ Exit \/ ChangeVerify \/ Restart
    \/ \E v \in {"cancel", "kill", "re-run", "follow-up"} : Click(v)
    \/ UNCHANGED vars

(* At most the process, its commit or the daemon's build changes. *)
Quiet ==
    /\ UNCHANGED <<runs, handoff, cut>>
    /\ \/ UNCHANGED <<build, changes>>
       \/ changes' = changes + 1 /\ build' \in {build, build + 1}
    /\ proc'.alive => proc.alive
    /\ \/ UNCHANGED head
       \/ proc.alive /\ StepOf(Latest).edits
    /\ \/ proc'.message = proc.message
       \/ proc.alive /\ ~proc'.alive /\ (StepOf(Latest).writes \/ proc'.message = "none")

(* The steps that write no row are quiet. *)
LEMMA QuietSteps ==
    ASSUME TypeOK, QuietStep
    PROVE  Quiet
<1>1. CASE ApplyKill \/ InterruptForFollowUps
  <2>1. proc' \in {proc, Killed} /\ UNCHANGED <<runs, handoff, cut, head, build, changes>>
    BY <1>1 DEF ApplyKill, InterruptForFollowUps, storeVars
  <2>2. Killed.message = proc.message /\ ~Killed.alive
    BY DEF Killed, TypeOK
  <2> QED
    BY <2>1, <2>2 DEF Quiet
<1>2. CASE Exit
  <2>1. PICK exit \in {0, 1}, message \in {"none", "text", "findings"}, asked \in BOOLEAN :
           /\ ~StepOf(Latest).writes => message = "none"
           /\ proc' = [proc EXCEPT !.alive = FALSE, !.exit = exit, !.message = message, !.asked = asked]
    BY <1>2 DEF Exit
  <2>2. ~proc'.alive /\ proc'.message = message
    BY <2>1 DEF TypeOK
  <2>3. proc.alive /\ UNCHANGED <<runs, handoff, cut, head, build, changes>>
    BY <1>2 DEF Exit, storeVars
  <2> QED
    BY <2>1, <2>2, <2>3 DEF Quiet
<1>3. CASE Restart
  <2>1. proc'.alive = proc.alive /\ proc'.message = proc.message
    BY <1>3 DEF Restart, TypeOK
  <2> QED
    BY <1>3, <2>1 DEF Restart, Quiet, storeVars
<1>4. CASE Commit \/ ChangeVerify
  BY <1>4 DEF Commit, ChangeVerify, Quiet, storeVars
<1>5. CASE UNCHANGED <<runs, handoff, cut, proc, head, build, changes>>
  BY <1>5 DEF Quiet
<1> QED
  BY <1>1, <1>2, <1>3, <1>4, <1>5 DEF QuietStep, PushTip, ApplyCancel, FollowUpOne, Click, vars, storeVars

(* Every step starts a run of a settled ticket, settles one, or is quiet.  *)
LEMMA StepKinds ==
    ASSUME TypeOK, HistoryInv, [Next]_vars
    PROVE  \/ Settled /\ \E new \in Row : Starting(new) /\ (Begins(new) \/ GoesOn(new) \/ Speaks(new))
           \/ Settles
           \/ QuietStep
<1>1. CASE Launch
  BY <1>1, StartPassBegins DEF Launch, Settled
<1>2. CASE ReRunOne
  BY <1>2, StartPassBegins DEF ReRunOne
<1>3. CASE AdvancePass
  <2>1. InFlight(NextFor)
    BY <1>3 DEF AdvancePass
  <2>2. Settled
    BY <2>1, NextStarts DEF Settled
  <2> QED
    BY <1>3, <2>2, AdvancePassGoesOn
<1>4. CASE FollowUpOne /\ cut
  BY <1>4, FollowUpSpeaks DEF FollowUpOne
<1>5. CASE DisposeRun
  BY <1>5 DEF DisposeRun, Settles
<1> QED
  BY <1>1, <1>2, <1>3, <1>4, <1>5 DEF Next, Loop, QuietStep

(* A run that starts is the last of the history, which keeps its rows. *)
LEMMA Appended ==
    ASSUME TypeOK, NEW new \in Row, Starting(new)
    PROVE  /\ Len(runs') = Len(runs) + 1 /\ Len(runs) \in Nat
           /\ DOMAIN runs = 1..Len(runs) /\ DOMAIN runs' = 1..(Len(runs) + 1)
           /\ runs' # <<>> /\ Latest' = new /\ runs'[Len(runs) + 1] = new
           /\ \A r \in DOMAIN runs : runs'[r] = runs[r]
           /\ \A r \in DOMAIN runs' : r \in DOMAIN runs \/ r = Len(runs) + 1
<1>1. runs \in Seq(Row) /\ runs' = Append(runs, new)
  BY DEF TypeOK, Starting
<1>2. Len(runs) \in Nat /\ DOMAIN runs = 1..Len(runs)
  BY RunsAre
<1>3. /\ Len(runs') = Len(runs) + 1 /\ DOMAIN runs' = 1..(Len(runs) + 1)
      /\ runs'[Len(runs) + 1] = new /\ \A r \in 1..Len(runs) : runs'[r] = runs[r]
      /\ runs' # <<>>
  BY <1>1, <1>2, AppendProperties
<1>4. Latest' = new
  BY <1>3 DEF Latest
<1> QED
  BY <1>2, <1>3, <1>4

(* A run that settles keeps its place and what it was started with. *)
LEMMA Settled1 ==
    ASSUME TypeOK, Settles
    PROVE  /\ Len(runs') = Len(runs) /\ Len(runs) \in Nat /\ Len(runs) \in DOMAIN runs
           /\ DOMAIN runs = 1..Len(runs) /\ DOMAIN runs' = DOMAIN runs /\ runs' # <<>>
           /\ Latest = runs[Len(runs)] /\ Latest' = runs'[Len(runs)]
           /\ \A r \in DOMAIN runs : r # Len(runs) => runs'[r] = runs[r]
           /\ \A r \in DOMAIN runs :
                 /\ runs'[r].wf = runs[r].wf /\ runs'[r].build = runs[r].build /\ runs'[r].step = runs[r].step
                 /\ runs'[r].kind = runs[r].kind /\ runs'[r].fresh = runs[r].fresh /\ runs'[r].seen = runs[r].seen
                 /\ runs'[r].base = runs[r].base
           /\ Latest' \in Row /\ Latest'.tip = head /\ Latest'.outcome = OutcomeFor(Len(runs))
           /\ Latest'.said = IF Latest.kind = "command" THEN "output" ELSE proc.message
           /\ runs' \in Seq(Row)
<1> DEFINE L == Len(runs)
           said == IF runs[L].kind = "command" THEN "output" ELSE proc.message
           outcome == OutcomeFor(L)
           new  == [runs[L] EXCEPT !.outcome = outcome, !.tip = head, !.said = said]
<1>1. runs # <<>> /\ L \in Nat /\ L \in DOMAIN runs /\ DOMAIN runs = 1..L /\ runs[L] \in Row /\ runs \in Seq(Row)
  BY RunsAre DEF Settles, TypeOK
<1>2. outcome \in Outcomes /\ said \in {"none", "text", "findings", "output"} /\ head \in Nat
  BY OutcomeIs, WorkflowAssumption DEF Outcomes, TypeOK
<1>3. runs' = [runs EXCEPT ![L] = new]
  BY DEF Settles
<1> HIDE DEF said, outcome
<1>4. /\ new \in Row /\ new.wf = runs[L].wf /\ new.build = runs[L].build /\ new.step = runs[L].step
      /\ new.kind = runs[L].kind /\ new.fresh = runs[L].fresh /\ new.seen = runs[L].seen
      /\ new.base = runs[L].base /\ new.tip = head /\ new.outcome = outcome /\ new.said = said
  BY <1>1, <1>2 DEF Row
<1> HIDE DEF new
<1>5. runs' \in Seq(Row) /\ Len(runs') = L /\ DOMAIN runs' = DOMAIN runs
  BY <1>1, <1>3, <1>4, ExceptSeq
<1>6. runs'[L] = new /\ \A r \in DOMAIN runs : r # L => runs'[r] = runs[r]
  BY <1>1, <1>3
<1>7. Latest = runs[L] /\ Latest' = new
  BY <1>5, <1>6 DEF Latest
<1>8. runs' # <<>>
  BY <1>1, <1>5
<1>9. \A r \in DOMAIN runs :
         /\ runs'[r].wf = runs[r].wf /\ runs'[r].build = runs[r].build /\ runs'[r].step = runs[r].step
         /\ runs'[r].kind = runs[r].kind /\ runs'[r].fresh = runs[r].fresh /\ runs'[r].seen = runs[r].seen
         /\ runs'[r].base = runs[r].base
  BY <1>4, <1>6
<1>10. said = IF Latest.kind = "command" THEN "output" ELSE proc.message
  BY <1>7 DEF said
<1> QED
  BY <1>1, <1>4, <1>5, <1>6, <1>7, <1>8, <1>9, <1>10 DEF outcome

-----------------------------------------------------------------------------
(* Types.                                                                  *)

(* The records a process goes through. *)
Process ==
    [alive : BOOLEAN, child : BOOLEAN, exit : {0, 1}, message : {"none", "text", "findings"}, asked : BOOLEAN]

(* No process, and one that has just started. *)
LEMMA Processes ==
    /\ NoProc \in Process /\ ~NoProc.alive /\ NoProc.message = "none"
    /\ LET new == [NoProc EXCEPT !.alive = TRUE, !.child = TRUE]
       IN  new \in Process /\ new.alive /\ new.message = "none"
  BY DEF NoProc, Process

(* Whatever starts or settles a run keeps the columns well typed. *)
LEMMA TypeStart ==
    ASSUME TypeOK, Settled, NEW new \in Row, Starting(new)
    PROVE  TypeOK'
<1>1. /\ Len(runs') = Len(runs) + 1 /\ Len(runs) \in Nat
      /\ DOMAIN runs = 1..Len(runs) /\ DOMAIN runs' = 1..(Len(runs) + 1)
      /\ runs' # <<>> /\ Latest' = new
      /\ \A r \in DOMAIN runs : runs'[r] = runs[r]
  BY Appended
<1>2. Row \subseteq Row'
  BY <1>1 DEF Row
<1>3. runs' \in Seq(Row')
  <2>1. runs \in Seq(Row') /\ new \in Row'
    BY <1>2 DEF TypeOK
  <2> QED
    BY <2>1, AppendProperties DEF Starting
<1>4. \A r \in DOMAIN runs' : r < Len(runs') => runs'[r].outcome # "none"
  <2>1. \A r \in DOMAIN runs : runs[r].outcome # "none"
    BY <1>1 DEF TypeOK, Settled, Latest
  <2> QED
    BY <1>1, <2>1
<1>5. ~proc.alive
  BY DEF TypeOK, Settled
<1>6. proc' \in Process /\ (proc'.alive => cut' /\ runs' # <<>> /\ Latest'.outcome = "none")
  BY <1>1, <1>5, Processes DEF Starting, TypeOK, Process
<1>7. pushed \in [tip : 0..head, body : DOMAIN runs' \cup {0}]
  BY <1>1 DEF TypeOK
<1>8. handoff \subseteq DOMAIN runs'
  BY <1>1 DEF TypeOK
<1>9. pending' \in {"none", "cancel", "kill", "re-run", "follow-up"}
  BY DEF Starting, TypeOK
<1> QED
  BY <1>3, <1>4, <1>6, <1>7, <1>8, <1>9 DEF TypeOK, Starting, Process

(* Whoever disposes of a run records an outcome and ends the process. *)
LEMMA TypeSettle ==
    ASSUME TypeOK, Settles
    PROVE  TypeOK'
<1>1. /\ Len(runs') = Len(runs) /\ Len(runs) \in Nat /\ Len(runs) \in DOMAIN runs
      /\ DOMAIN runs' = DOMAIN runs /\ runs' \in Seq(Row)
      /\ \A r \in DOMAIN runs : r # Len(runs) => runs'[r] = runs[r]
  BY Settled1
<1>2. Row' = Row
  BY <1>1 DEF Row
<1>3. \A r \in DOMAIN runs' : r < Len(runs') => runs'[r].outcome # "none"
  BY <1>1 DEF TypeOK
<1>4. handoff' \subseteq DOMAIN runs'
  BY <1>1 DEF Settles, WriteHandoff, TypeOK
<1>5. proc' \in Process /\ ~proc'.alive
  BY Processes DEF Settles
<1>6. runs' \in Seq(Row')
  BY <1>1, <1>2
<1>7. UNCHANGED <<authorised, pending, pushed, head, cut, verify, build, clicks, changes>>
  BY DEF Settles
<1> QED
  BY <1>1, <1>3, <1>4, <1>5, <1>6, <1>7 DEF TypeOK, Process

(* The steps that write no row. *)
LEMMA TypeQuiet ==
    ASSUME TypeOK, HistoryInv, QuietStep
    PROVE  TypeOK'
<1>1. Quiet /\ MaxCommits \in Nat /\ MaxClicks \in Nat /\ MaxChanges \in Nat
  BY QuietSteps, WorkflowAssumption
<1>2. Row' = Row /\ Latest' = Latest /\ runs' \in Seq(Row') /\ UNCHANGED <<runs, handoff, cut>>
  BY <1>1 DEF Quiet, Row, Latest, TypeOK
<1>3. proc' \in Process /\ (proc'.alive => proc.alive)
  <2>1. proc \in Process
    BY DEF TypeOK, Process
  <2>2. CASE ApplyKill \/ InterruptForFollowUps
    <3>1. Killed \in Process
      BY <2>1 DEF Killed, Process
    <3> QED
      BY <1>1, <2>1, <2>2, <3>1 DEF ApplyKill, InterruptForFollowUps, Quiet
  <2>3. CASE Exit
    <3>1. PICK exit \in {0, 1}, message \in {"none", "text", "findings"}, asked \in BOOLEAN :
             proc' = [proc EXCEPT !.alive = FALSE, !.exit = exit, !.message = message, !.asked = asked]
      BY <2>3 DEF Exit
    <3> QED
      BY <1>1, <2>1, <3>1 DEF Process, Quiet
  <2>4. CASE Restart
    BY <1>1, <2>1, <2>4 DEF Restart, Process, Quiet
  <2>5. CASE UNCHANGED proc
    BY <2>1, <2>5
  <2> QED
    BY <2>2, <2>3, <2>4, <2>5
    DEF QuietStep, PushTip, ApplyCancel, FollowUpOne, Commit, ChangeVerify, Click, vars
<1>4. head' \in Nat /\ head <= head' /\ head' <= MaxCommits /\ pushed' \in [tip : 0..head', body : DOMAIN runs \cup {0}]
  <2>1. CASE Commit
    BY <1>1, <2>1 DEF Commit, TypeOK, storeVars
  <2>2. CASE PushTip
    <3>1. PrBody \in DOMAIN runs \cup {0}
      BY DEF PrBody, TypeOK
    <3> QED
      BY <1>1, <2>2, <3>1 DEF PushTip, TypeOK
  <2>3. CASE UNCHANGED <<head, pushed>>
    BY <1>1, <2>3 DEF TypeOK
  <2> QED
    BY <2>1, <2>2, <2>3
    DEF QuietStep, ApplyCancel, ApplyKill, InterruptForFollowUps, FollowUpOne, Exit, ChangeVerify, Restart,
        Click, vars, storeVars
<1>5. build' \in 0..MaxChanges /\ changes' \in 0..MaxChanges
  <2>1. CASE ChangeVerify \/ Restart
    <3>1. changes \in Nat /\ build \in Nat /\ changes < MaxChanges /\ changes' = changes + 1 /\ build' \in {build, build + 1}
      BY <2>1 DEF ChangeVerify, Restart, TypeOK
    <3> QED
      BY <1>1, <3>1 DEF HistoryInv
  <2>2. CASE UNCHANGED <<build, changes>>
    BY <2>2 DEF TypeOK
  <2> QED
    BY <2>1, <2>2
    DEF QuietStep, PushTip, ApplyCancel, ApplyKill, InterruptForFollowUps, FollowUpOne, Commit, Exit, Click, vars
<1>6. /\ authorised' \in BOOLEAN /\ verify' \in BOOLEAN /\ clicks' \in 0..MaxClicks
      /\ pending' \in {"none", "cancel", "kill", "re-run", "follow-up"}
  <2>1. ASSUME NEW v \in {"cancel", "kill", "re-run", "follow-up"}, Click(v)
        PROVE  clicks' \in 0..MaxClicks /\ pending' = v /\ UNCHANGED <<authorised, verify>>
    BY <1>1, <2>1 DEF Click, TypeOK
  <2> QED
    BY <2>1 DEF QuietStep, PushTip, ApplyCancel, ApplyKill, InterruptForFollowUps, FollowUpOne, Commit, Exit,
       ChangeVerify, Restart, vars, storeVars, TypeOK
<1>7. proc.alive => cut /\ runs # <<>> /\ Latest.outcome = "none"
  BY DEF TypeOK
<1>8. \A r \in DOMAIN runs : r < Len(runs) => runs[r].outcome # "none"
  BY DEF TypeOK
<1>9. handoff' \subseteq DOMAIN runs' /\ cut' \in BOOLEAN
  BY <1>2 DEF TypeOK
<1> QED
  BY <1>1, <1>2, <1>3, <1>4, <1>5, <1>6, <1>7, <1>8, <1>9 DEF TypeOK, Process

(* Every step keeps the types. *)
LEMMA TypeStep == TypeOK /\ HistoryInv /\ [Next]_vars => TypeOK'
  BY StepKinds, TypeStart, TypeSettle, TypeQuiet

(* The empty history. *)
LEMMA TypeInit == Init => TypeOK
<1> SUFFICES ASSUME Init PROVE TypeOK
  OBVIOUS
<1>1. runs \in Seq(Row) /\ DOMAIN runs = {}
  BY EmptySeq DEF Init
<1>2. proc \in Process /\ ~proc.alive
  BY Processes DEF Init
<1>3. pushed \in [tip : 0..head, body : DOMAIN runs \cup {0}]
  BY DEF Init
<1>4. /\ head \in 0..MaxCommits /\ build \in 0..MaxChanges
      /\ clicks \in 0..MaxClicks /\ changes \in 0..MaxChanges
  BY WorkflowAssumption DEF Init
<1>5. authorised \in BOOLEAN /\ verify \in BOOLEAN /\ cut \in BOOLEAN /\ pending = "none" /\ handoff = {}
  BY DEF Init
<1> QED
  BY <1>1, <1>2, <1>3, <1>4, <1>5 DEF TypeOK, Process

-----------------------------------------------------------------------------
(* The history.                                                            *)

(* The empty history has no run that breaks a rule. *)
LEMMA HistoryInit == Init => HistoryInv
<1>1. DOMAIN <<>> = {}
  OBVIOUS
<1> QED
  BY <1>1 DEF Init, HistoryInv

(* What starts a run keeps the runs before it. *)
LEMMA OldRuns ==
    ASSUME TypeOK, HistoryInv, NEW new \in Row, Starting(new), NEW r \in DOMAIN runs
    PROVE  RunInv(r)'
<1>1. /\ DOMAIN runs = 1..Len(runs) /\ Len(runs) \in Nat
      /\ \A q \in DOMAIN runs : runs'[q] = runs[q]
  BY Appended
<1>2. runs'[r] = runs[r] /\ (r > 1 => runs'[r - 1] = runs[r - 1]) /\ (r > 2 => runs'[r - 2] = runs[r - 2])
  BY <1>1
<1>3. RunInv(r) /\ build' = build
  BY DEF HistoryInv, Starting
<1>4. Follows(r) => Follows(r)'
  BY <1>2 DEF Follows
<1> QED
  BY <1>2, <1>3, <1>4 DEF RunInv

(* A fix repairs the run before it. *)
LEMMA FixFollows ==
    ASSUME TypeOK, HistoryInv, NEW r \in DOMAIN runs, runs[r].step = "fix"
    PROVE  /\ r > 1 /\ r - 1 \in DOMAIN runs /\ runs[r].wf = "v1" /\ ~runs[r].fresh
           /\ runs[r - 1].wf = "v1" /\ runs[r - 1].step \in Names \ {"fix", "pr"}
           /\ runs[r - 1].outcome = "failed"
<1>1. runs[r].wf \in {"v0", "v1"} /\ DOMAIN runs = 1..Len(runs) /\ Len(runs) \in Nat
  BY RunsAre DEF Row
<1>2. runs[r].wf = "v1" /\ ~runs[r].fresh /\ Follows(r)
  BY <1>1 DEF HistoryInv, RunInv
<1> QED
  BY <1>1, <1>2 DEF Follows, Successors

(* A run that goes on with a pass follows the one before it. *)
LEMMA GoesOnFollows ==
    ASSUME TypeOK, HistoryInv, NEW new \in Row, Starting(new), GoesOn(new), NEW n, n = Len(runs) + 1
    PROVE  Follows(n)'
<1> DEFINE L == Len(runs)
<1>1. /\ runs # <<>> /\ Latest.wf = "v1" /\ NextFor.step = new.step
      /\ \/ <<Latest.step, new.step>> \in Successors /\ Latest.outcome = "passed"
         \/ /\ new.step = "fix" /\ Latest.step \in Names \ {"fix", "pr"} /\ Latest.outcome = "failed"
         \/ /\ Latest.step = "fix" /\ Latest.outcome = "passed"
            /\ \E q \in DOMAIN runs : /\ new.step = runs[q].step /\ runs[q].step # "fix"
                                      /\ \A k \in (q + 1)..L : runs[k].step = "fix"
  BY NextStarts DEF GoesOn
<1>2. /\ Len(runs') = L + 1 /\ L \in Nat /\ DOMAIN runs = 1..L /\ runs'[L + 1] = new
      /\ \A q \in DOMAIN runs : runs'[q] = runs[q]
  BY Appended
<1>3. L \in DOMAIN runs /\ Latest = runs[L] /\ runs'[L] = Latest
  BY <1>1, <1>2, RunsAre DEF Latest
<1>4. CASE /\ Latest.step = "fix" /\ Latest.outcome = "passed"
           /\ \E q \in DOMAIN runs : /\ new.step = runs[q].step /\ runs[q].step # "fix"
                                     /\ \A k \in (q + 1)..L : runs[k].step = "fix"
  <2>1. PICK q \in DOMAIN runs : /\ new.step = runs[q].step /\ runs[q].step # "fix"
                                 /\ \A k \in (q + 1)..L : runs[k].step = "fix"
    BY <1>4
  <2>2. L > 1 /\ L - 1 \in DOMAIN runs /\ runs[L - 1].step # "fix"
    BY <1>3, <1>4, FixFollows
  <2>3. q = L - 1
    <3>1. q \in 1..L /\ L \in Nat /\ q # L
      BY <1>2, <1>3, <1>4, <2>1
    <3>2. L - 1 \notin (q + 1)..L
      BY <2>1, <2>2
    <3> QED
      BY <3>1, <3>2
  <2>4. runs'[L - 1] = runs[L - 1]
    BY <1>2, <2>2
  <2> QED
    <3>1. n > 2 /\ n - 1 = L /\ n - 2 = L - 1
      BY <1>2, <2>2
    <3>2. runs'[n].step = runs'[n - 2].step /\ runs'[n].step # "fix" /\ runs'[n - 1] = Latest
      BY <1>2, <1>3, <2>1, <2>3, <2>4, <3>1
    <3> QED
      BY <1>1, <1>4, <3>1, <3>2 DEF Follows
<1>5. CASE \/ <<Latest.step, new.step>> \in Successors /\ Latest.outcome = "passed"
           \/ new.step = "fix" /\ Latest.step \in Names \ {"fix", "pr"} /\ Latest.outcome = "failed"
  BY <1>1, <1>2, <1>3, <1>5 DEF Follows
<1> QED
  BY <1>1, <1>4, <1>5

(* A run that starts finds its place in the history. *)
LEMMA HistoryStart ==
    ASSUME TypeOK, HistoryInv, NEW new \in Row, Starting(new), Begins(new) \/ GoesOn(new) \/ Speaks(new)
    PROVE  HistoryInv'
<1>0. PICK n : n = Len(runs) + 1
  OBVIOUS
<1>1. /\ runs' # <<>> /\ Latest' = new /\ runs'[n] = new
      /\ \A r \in DOMAIN runs' : r \in DOMAIN runs \/ r = n
  BY <1>0, Appended
<1>2. build' <= changes' /\ new.build <= build' /\ build' = build
  BY WorkflowAssumption DEF HistoryInv, Starting, TypeOK
<1>3. RunInv(n)'
  <2>1. CASE Begins(new)
    <3>1. new.step \in {"setup", "read"} /\ (new.kind = "command" <=> new.step = "setup")
      BY <2>1, FirstSteps DEF Begins, KindOf
    <3> QED
      BY <1>1, <1>2, <2>1, <3>1 DEF Begins, RunInv
  <2>2. CASE GoesOn(new)
    <3>1. NextFor.step \in Names
      BY <2>2, NextStarts DEF GoesOn
    <3>2. new.kind = "command" <=> new.step \in {"setup", "check"}
      BY <2>2, <3>1, StepOfV1 DEF GoesOn, KindOf
    <3> QED
      BY <1>0, <1>1, <1>2, <2>2, <3>2, GoesOnFollows DEF GoesOn, RunInv
  <2>3. CASE Speaks(new)
    BY <1>1, <1>2, <2>3 DEF Speaks, RunInv
  <2> QED
    BY <2>1, <2>2, <2>3
<1>4. cut' \/ Latest'.outcome = "cut_failed"
  BY <1>1 DEF Starting, Begins, GoesOn, Speaks, HistoryInv
<1> QED
  BY <1>1, <1>2, <1>3, <1>4, OldRuns DEF HistoryInv

(* Settling a run changes nothing that later runs were started by. *)
LEMMA HistorySettle ==
    ASSUME TypeOK, HistoryInv, Settles
    PROVE  HistoryInv'
<1>1. /\ Len(runs') = Len(runs) /\ Len(runs) \in Nat
      /\ DOMAIN runs = 1..Len(runs) /\ DOMAIN runs' = DOMAIN runs /\ runs' # <<>>
      /\ Latest = runs[Len(runs)]
      /\ \A r \in DOMAIN runs : r # Len(runs) => runs'[r] = runs[r]
      /\ \A r \in DOMAIN runs :
            /\ runs'[r].wf = runs[r].wf /\ runs'[r].build = runs[r].build /\ runs'[r].step = runs[r].step
            /\ runs'[r].kind = runs[r].kind /\ runs'[r].fresh = runs[r].fresh
  BY Settled1
<1>2. UNCHANGED <<build, changes, cut>> /\ cut /\ runs # <<>> /\ Latest.outcome = "none"
  BY <1>1 DEF Settles, HistoryInv
<1>3. ASSUME NEW r \in DOMAIN runs
      PROVE  RunInv(r)'
  <2>1. (r > 1 => runs'[r - 1] = runs[r - 1]) /\ (r > 2 => runs'[r - 2] = runs[r - 2])
    BY <1>1
  <2>2. Follows(r) => Follows(r)'
    BY <1>1, <2>1 DEF Follows
  <2>3. RunInv(r)
    BY DEF HistoryInv
  <2> QED
    BY <1>1, <1>2, <2>2, <2>3 DEF RunInv
<1> QED
  BY <1>1, <1>2, <1>3 DEF HistoryInv

(* A quiet step leaves the history alone, in whatever build. *)
LEMMA HistoryQuiet ==
    ASSUME TypeOK, HistoryInv, Quiet
    PROVE  HistoryInv'
<1>1. UNCHANGED <<runs, cut, Latest>>
  BY DEF Quiet, Latest
<1>2. build \in Nat /\ changes \in Nat /\ build <= build' /\ build' <= changes' /\ build' \in Nat
  BY WorkflowAssumption DEF Quiet, HistoryInv, TypeOK
<1>3. ASSUME NEW r \in DOMAIN runs
      PROVE  RunInv(r)'
  <2>1. Follows(r) => Follows(r)'
    BY <1>1 DEF Follows
  <2>2. runs[r].build \in Nat /\ RunInv(r)
    BY RunsAre DEF Row, HistoryInv
  <2> QED
    BY <1>1, <1>2, <2>1, <2>2 DEF RunInv
<1> QED
  BY <1>1, <1>2, <1>3 DEF HistoryInv

(* Every run follows the one before it, or begins a pass. *)
LEMMA HistoryStep == TypeOK /\ HistoryInv /\ [Next]_vars => HistoryInv'
  BY StepKinds, HistoryStart, HistorySettle, HistoryQuiet, QuietSteps

-----------------------------------------------------------------------------
(* Tips and handoffs.                                                      *)

(* The empty history has no tips. *)
LEMMA TipInit == Init => TipInv
<1>1. DOMAIN <<>> = {}
  OBVIOUS
<1> QED
  BY <1>1 DEF Init, TipInv

(* The pr step is started where the review left the branch, and edits      *)
(* nothing.                                                                *)
LEMMA TipStep == TypeOK /\ HistoryInv /\ TipInv /\ [Next]_vars => TipInv'
<1> SUFFICES ASSUME TypeOK, HistoryInv, TipInv, [Next]_vars PROVE TipInv'
  OBVIOUS
<1>1. Len(runs) \in Nat /\ DOMAIN runs = 1..Len(runs)
  BY RunsAre
<1>2. ASSUME NEW r \in DOMAIN runs, runs[r].step = "pr"
      PROVE  r > 1 /\ r - 1 \in DOMAIN runs /\ runs[r].wf = "v1"
  <2>1. runs[r].wf \in {"v0", "v1"} /\ RunInv(r)
    BY RunsAre DEF Row, HistoryInv
  <2> QED
    BY <1>1, <1>2, <2>1 DEF RunInv, Follows
<1>3. ASSUME Settled, NEW new \in Row, Starting(new), Begins(new) \/ GoesOn(new) \/ Speaks(new)
      PROVE  TipInv'
  <2>1. PICK n : n = Len(runs) + 1
    OBVIOUS
  <2>2. /\ Latest' = new /\ runs'[n] = new /\ \A r \in DOMAIN runs : runs'[r] = runs[r]
        /\ \A r \in DOMAIN runs' : r \in DOMAIN runs \/ r = n
    BY <1>3, <2>1, Appended
  <2>3. new.tip = head /\ head' = head
    BY <1>3 DEF Starting
  <2>4. new.step = "pr" => runs # <<>>
    BY <1>3, FirstSteps DEF Begins, GoesOn, InFlight, Speaks
  <2>5. new.step = "pr" => runs'[n - 1].tip = head
    BY <1>1, <1>3, <2>1, <2>2, <2>4, RunsAre DEF Settled, TipInv, Latest
  <2>6. \A r \in DOMAIN runs : runs[r].outcome # "none"
    BY <1>1, <1>3 DEF TypeOK, Settled, Latest
  <2>7. ASSUME NEW r \in DOMAIN runs, runs[r].step = "pr"
        PROVE  runs'[r - 1].tip = runs'[r].tip /\ runs'[r].outcome # "none"
    BY <1>2, <2>2, <2>6, <2>7 DEF TipInv
  <2> QED
    BY <2>2, <2>3, <2>5, <2>7 DEF TipInv
<1>4. CASE Settles
  <2>1. /\ DOMAIN runs' = DOMAIN runs /\ Latest' = runs'[Len(runs)] /\ Latest'.tip = head
        /\ Latest'.outcome # "none"
        /\ \A r \in DOMAIN runs : r # Len(runs) => runs'[r] = runs[r]
        /\ \A r \in DOMAIN runs : runs'[r].step = runs[r].step
    BY <1>4, Settled1, OutcomeIs
  <2>2. head' = head /\ runs[Len(runs)].outcome = "none"
    BY <1>4 DEF Settles
  <2>3. ASSUME NEW r \in DOMAIN runs, runs[r].step = "pr"
        PROVE  runs'[r - 1].tip = runs'[r].tip /\ runs'[r].outcome # "none"
    <3>1. runs'[r - 1] = runs[r - 1]
      BY <1>1, <1>2, <2>1, <2>3
    <3>2. CASE r = Len(runs)
      BY <2>1, <2>2, <2>3, <3>1, <3>2 DEF TipInv
    <3>3. CASE r # Len(runs)
      BY <1>1, <2>1, <2>3, <3>1, <3>3 DEF TipInv, TypeOK
    <3> QED
      BY <3>2, <3>3
  <2> QED
    BY <2>1, <2>2, <2>3 DEF TipInv
<1>5. CASE Quiet
  <2>1. UNCHANGED <<runs, Latest>>
    BY <1>5 DEF Quiet, Latest
  <2>2. CASE UNCHANGED head
    BY <2>1, <2>2 DEF TipInv
  <2>3. CASE proc.alive /\ StepOf(Latest).edits
    <3>1. Latest.outcome = "none" /\ runs # <<>> /\ Len(runs) \in DOMAIN runs /\ Latest = runs[Len(runs)]
      BY <2>3, RunsAre DEF TypeOK, Latest
    <3>2. Latest.step # "pr"
      BY <1>2, <2>3, <3>1, StepOfV1 DEF Names
    <3>3. \A r \in DOMAIN runs : runs[r].step = "pr" => runs[r].outcome # "none"
      BY <1>1, <3>1, <3>2 DEF TypeOK
    <3> QED
      BY <2>1, <3>1, <3>3 DEF TipInv
  <2> QED
    BY <1>5, <2>2, <2>3 DEF Quiet
<1> QED
  BY <1>3, <1>4, <1>5, StepKinds, QuietSteps

(* No handoffs yet. *)
LEMMA HandoffInit == Init => HandoffInv
<1>1. DOMAIN <<>> = {}
  OBVIOUS
<1> QED
  BY <1>1, Processes DEF Init, HandoffInv, FixIsTold

(* A fix is started by a failed run of this build, whose words are handed  *)
(* over, and its prompt holds every handoff from the first step on.        *)
LEMMA HandoffStart ==
    ASSUME TypeOK, HistoryInv, HandoffInv, Settled, NEW new \in Row, Starting(new),
           Begins(new) \/ GoesOn(new) \/ Speaks(new)
    PROVE  HandoffInv'
<1>1. PICK n : n = Len(runs) + 1
  OBVIOUS
<1>2. /\ Len(runs) \in Nat /\ DOMAIN runs = 1..Len(runs)
      /\ runs'[n] = new /\ \A r \in DOMAIN runs : runs'[r] = runs[r]
      /\ \A r \in DOMAIN runs' : r \in DOMAIN runs \/ r = n
  BY <1>1, Appended
<1>3. new.said = "none" /\ UNCHANGED <<handoff, build>>
  BY DEF Starting
<1>4. proc'.message = "none"
  BY Processes DEF Starting, HandoffInv, Settled
<1>5. ASSUME new.step = "fix", runs'[n - 1].said \in {"findings", "output"}
      PROVE  n - 1 \in new.seen
  <2>1. GoesOn(new)
    BY <1>5, FirstSteps DEF Begins, Speaks
  <2>2. /\ runs # <<>> /\ Latest.wf = "v1" /\ Latest.build = build /\ Latest.outcome # "none"
        /\ \/ <<Latest.step, new.step>> \in Successors
           \/ Latest.outcome = "failed"
           \/ Latest.step = "fix" /\ \E q \in DOMAIN runs : new.step = runs[q].step /\ runs[q].step # "fix"
    BY <2>1, NextStarts DEF GoesOn
  <2>3. Latest.outcome = "failed"
    BY <1>5, <2>2 DEF Successors
  <2>4. Len(runs) \in DOMAIN runs /\ Latest = runs[Len(runs)] /\ n - 1 = Len(runs)
    BY <1>1, <1>2, <2>2, RunsAre DEF Latest
  <2>5. n - 1 \in handoff
    BY <1>2, <1>5, <2>2, <2>3, <2>4 DEF HandoffInv
  <2>6. First(V1).name \in StepNames
    BY FirstSteps, StepNamesAre DEF Names
  <2>7. Len(runs) \in FromLatest(First(V1).name)
    BY <1>2, <2>2, <2>6, FromLatestIs
  <2> QED
    BY <2>1, <2>4, <2>5, <2>7 DEF GoesOn
<1>6. ASSUME NEW r \in DOMAIN runs, runs'[r].step = "fix", runs'[r - 1].said \in {"findings", "output"}
      PROVE  r - 1 \in runs'[r].seen
  <2>1. r - 1 \in DOMAIN runs /\ runs[r].step = "fix"
    BY <1>2, <1>6, FixFollows
  <2> QED
    BY <1>2, <1>6, <2>1 DEF HandoffInv, FixIsTold
<1>7. FixIsTold'
  BY <1>2, <1>5, <1>6 DEF FixIsTold
<1> QED
  BY <1>2, <1>3, <1>4, <1>7 DEF HandoffInv

(* A failed run that said something leaves it as its handoff. *)
LEMMA HandoffSettle ==
    ASSUME TypeOK, HistoryInv, HandoffInv, Settles
    PROVE  HandoffInv'
<1> DEFINE L == Len(runs)
<1>1. /\ L \in DOMAIN runs /\ DOMAIN runs = 1..L /\ L \in Nat /\ DOMAIN runs' = DOMAIN runs
      /\ Latest = runs[L] /\ Latest' = runs'[L]
      /\ \A r \in DOMAIN runs : r # L => runs'[r] = runs[r]
      /\ \A r \in DOMAIN runs : /\ runs'[r].step = runs[r].step /\ runs'[r].seen = runs[r].seen
                                /\ runs'[r].build = runs[r].build
      /\ Latest'.outcome = OutcomeFor(L)
      /\ Latest'.said = IF Latest.kind = "command" THEN "output" ELSE proc.message
  BY Settled1
<1>2. proc'.message = "none" /\ build' = build /\ handoff' = WriteHandoff(L, OutcomeFor(L))
  BY Processes DEF Settles
<1>3. ASSUME runs'[L].outcome = "failed", runs'[L].build = build, runs'[L].said \in {"findings", "output"}
      PROVE  L \in handoff'
  <2>1. Known(runs[L]) /\ OutcomeFor(L) = "failed"
    BY <1>1, <1>3 DEF Known
  <2>2. RunInv(L) /\ runs[L].wf \in {"v0", "v1"} /\ runs[L].step \in Names
    BY <1>1, RunsAre, StepNamesAre DEF HistoryInv, Row
  <2>3. CASE runs[L].kind = "command"
    <3>1. runs[L].wf = "v1" /\ runs[L].step \in {"setup", "check"}
      BY <2>2, <2>3 DEF RunInv
    <3>2. StepOf(runs[L]).command
      BY <2>2, <3>1, StepOfV1
    <3> QED
      BY <1>2, <2>1, <3>2 DEF WriteHandoff
  <2>4. CASE runs[L].kind # "command"
    <3>1. proc.message # "none"
      BY <1>1, <1>3, <2>4
    <3>2. runs[L].wf = "v1" /\ runs[L].step \in {"read", "review", "pr"}
      BY <1>1, <3>1 DEF HandoffInv
    <3>3. StepOf(runs[L]).writes
      BY <2>2, <3>2, StepOfV1
    <3> QED
      BY <1>2, <2>1, <3>1, <3>3 DEF WriteHandoff
  <2> QED
    BY <2>3, <2>4
<1>4. handoff \subseteq handoff'
  BY <1>2 DEF WriteHandoff
<1>5. ASSUME NEW r \in DOMAIN runs, runs'[r].step = "fix", runs'[r - 1].said \in {"findings", "output"}
      PROVE  r - 1 \in runs'[r].seen
  <2>1. r - 1 \in DOMAIN runs /\ runs[r].step = "fix" /\ runs'[r - 1] = runs[r - 1]
    BY <1>1, <1>5, FixFollows
  <2> QED
    BY <1>1, <1>5, <2>1 DEF HandoffInv, FixIsTold
<1>6. FixIsTold'
  BY <1>1, <1>5 DEF FixIsTold
<1>7. ASSUME NEW r \in DOMAIN runs, r # L, runs'[r].outcome = "failed", runs'[r].build = build,
             runs'[r].said \in {"findings", "output"}
      PROVE  r \in handoff'
  BY <1>1, <1>4, <1>7 DEF HandoffInv
<1> QED
  BY <1>1, <1>2, <1>3, <1>6, <1>7 DEF HandoffInv

(* Between a run's end and its outcome only a step that writes has a       *)
(* message; another build has no runs of its own yet.                      *)
LEMMA HandoffQuiet ==
    ASSUME TypeOK, HistoryInv, HandoffInv, Quiet
    PROVE  HandoffInv'
<1>1. UNCHANGED <<runs, handoff, Latest>>
  BY DEF Quiet, Latest
<1>2. ASSUME proc'.message # "none"
      PROVE  /\ runs # <<>> /\ Latest.outcome = "none" /\ ~proc'.alive
             /\ Latest.wf = "v1" /\ Latest.step \in {"read", "review", "pr"}
  <2>1. CASE proc'.message = proc.message
    BY <1>2, <2>1 DEF Quiet, HandoffInv
  <2>2. CASE proc.alive /\ ~proc'.alive /\ StepOf(Latest).writes
    <3>1. runs # <<>> /\ Latest.outcome = "none"
      BY <2>2 DEF TypeOK
    <3>2. Len(runs) \in DOMAIN runs /\ Latest = runs[Len(runs)]
      BY <3>1, RunsAre DEF Latest
    <3>3. RunInv(Len(runs)) /\ Latest.wf \in {"v0", "v1"} /\ Latest.step \in Names
      BY <3>2, RunsAre, StepNamesAre DEF HistoryInv, Row
    <3>4. Latest.wf = "v1"
      BY <2>2, <3>2, <3>3, StepOfV0 DEF RunInv
    <3> QED
      BY <2>2, <3>1, <3>3, <3>4, StepOfV1
  <2> QED
    BY <1>2, <2>1, <2>2 DEF Quiet
<1>3. ASSUME NEW r \in DOMAIN runs, runs[r].outcome = "failed", runs[r].build = build',
             runs[r].said \in {"findings", "output"}
      PROVE  r \in handoff
  <2>1. runs[r].build <= build /\ build \in Nat /\ build' \in {build, build + 1}
    BY WorkflowAssumption DEF HistoryInv, RunInv, TypeOK, Quiet
  <2> QED
    BY <1>3, <2>1 DEF HandoffInv
<1>4. FixIsTold'
  BY <1>1 DEF HandoffInv, FixIsTold
<1> QED
  BY <1>1, <1>2, <1>3, <1>4 DEF HandoffInv

(* What a failed run said reaches the fix that follows it. *)
LEMMA HandoffStep == TypeOK /\ HistoryInv /\ HandoffInv /\ [Next]_vars => HandoffInv'
  BY StepKinds, HandoffStart, HandoffSettle, HandoffQuiet, QuietSteps

-----------------------------------------------------------------------------
(* Fix rounds.                                                             *)

(* No rounds yet. *)
LEMMA RoundsInit == Init => RoundsInv
<1>1. DOMAIN <<>> = {}
  OBVIOUS
<1> QED
  BY <1>1 DEF Init, RoundsInv

(* The fix runs the code counts include those since read last ran: setup   *)
(* cannot have come between within the pass.                               *)
LEMMA FixesCounted ==
    ASSUME TypeOK, RoundsInv, runs # <<>>, NEW q \in DOMAIN runs, runs[q].step = "read",
           \A k \in (q + 1)..Len(runs) : ~runs[k].fresh /\ runs[k].step # "read"
    PROVE  FixesFrom(q, Len(runs)) \subseteq Fixes /\ IsFiniteSet(Fixes)
<1> DEFINE L == Len(runs)
           first == First(V1).name
<1>1. L \in Nat /\ DOMAIN runs = 1..L
  BY RunsAre
<1>2. first \in {"setup", "read"} /\ first \in StepNames
  BY FirstSteps, StepNamesAre DEF Names
<1>3. PICK m \in DOMAIN runs :
         /\ FromLatest(first) = m..L
         /\ \/ m = 1 /\ \A r \in DOMAIN runs : runs[r].step # first
            \/ runs[m].step = first /\ \A r \in DOMAIN runs : runs[r].step = first => r <= m
  BY <1>2, FromLatestIs
<1> HIDE DEF first
<1>4. m <= q
  <2>1. CASE m = 1
    BY <1>1, <2>1
  <2>2. CASE runs[m].step = first /\ first = "read"
    BY <1>1, <2>2
  <2>3. CASE runs[m].step = first /\ first = "setup"
    <3>1. ASSUME q < m
          PROVE  FALSE
      <4>1. PICK k \in (q + 1)..m : runs[k].fresh
        BY <2>3, <3>1 DEF RoundsInv
      <4> QED
        BY <1>1, <4>1
    <3> QED
      BY <1>1, <3>1
  <2> QED
    BY <1>2, <1>3, <2>1, <2>2, <2>3
<1>5. Fixes = {r \in m..L : runs[r].step = "fix"}
  BY <1>3 DEF Fixes, first
<1>6. IsFiniteSet(m..L)
  BY <1>1, FS_Interval
<1>7. IsFiniteSet(Fixes)
  BY <1>5, <1>6, FS_Subset
<1>8. q..L \subseteq m..L
  BY <1>1, <1>4
<1> QED
  BY <1>5, <1>7, <1>8 DEF FixesFrom

(* A fix run is started only while rounds are left. *)
LEMMA RoundsStart ==
    ASSUME TypeOK, HistoryInv, RoundsInv, NEW new \in Row, Starting(new),
           Begins(new) \/ GoesOn(new) \/ Speaks(new)
    PROVE  RoundsInv'
<1> DEFINE L == Len(runs)
<1>1. PICK n : n = L + 1
  OBVIOUS
<1>2. /\ L \in Nat /\ DOMAIN runs = 1..L /\ runs'[n] = new /\ \A r \in DOMAIN runs : runs'[r] = runs[r]
      /\ DOMAIN runs' = 1..n
      /\ \A r \in DOMAIN runs' : r \in DOMAIN runs \/ r = n
  BY <1>1, Appended
<1>3. new.fresh => new.step # "fix"
  BY FirstSteps DEF Begins, GoesOn, Speaks
<1>4. ASSUME NEW q \in DOMAIN runs', NEW r \in DOMAIN runs',
             q < r, runs'[q].step = "read", runs'[r].step = "setup"
      PROVE  \E k \in (q + 1)..r : runs'[k].fresh
  <2>0. q \in DOMAIN runs /\ runs[q].step = "read"
    BY <1>1, <1>2, <1>4
  <2>1. CASE r \in DOMAIN runs
    <3>1. PICK k \in (q + 1)..r : runs[k].fresh
      BY <1>2, <1>4, <2>0, <2>1 DEF RoundsInv
    <3> QED
      BY <1>2, <2>0, <2>1, <3>1
  <2>2. CASE r = n /\ new.fresh
    BY <1>1, <1>2, <1>4, <2>2
  <2>3. CASE r = n /\ ~new.fresh
    <3>1. GoesOn(new) /\ new.step = "setup"
      BY <1>2, <1>4, <2>3 DEF Begins, Speaks
    <3>2. Follows(n)'
      BY <1>1, <3>1, GoesOnFollows
    <3>3. n > 2 /\ runs'[n - 2].step = "setup" /\ runs'[n - 1].step = "fix"
      BY <1>2, <3>1, <3>2 DEF Follows, Successors
    <3>4. n - 2 \in DOMAIN runs /\ n - 1 \in DOMAIN runs
      BY <1>1, <1>2, <3>3
    <3>5. runs[n - 2].step = "setup" /\ q < n - 2
      BY <1>1, <1>2, <2>0, <3>3, <3>4
    <3>6. PICK k \in (q + 1)..(n - 2) : runs[k].fresh
      BY <2>0, <3>4, <3>5 DEF RoundsInv
    <3>7. k \in DOMAIN runs /\ k \in (q + 1)..r
      BY <1>1, <1>2, <2>0, <2>3, <3>6
    <3> QED
      BY <1>2, <3>6, <3>7
  <2> QED
    BY <1>2, <2>1, <2>2, <2>3
<1>5. ASSUME NEW q \in DOMAIN runs', NEW r \in DOMAIN runs', q <= r, runs'[q].step = "read",
             \A k \in (q + 1)..r : ~runs'[k].fresh /\ runs'[k].step # "read"
      PROVE  Cardinality({k \in q..r : runs'[k].step = "fix"}) <= MaxFixRounds
  <2>1. CASE r \in DOMAIN runs
    <3>1. q \in DOMAIN runs /\ \A k \in q..r : runs'[k] = runs[k]
      BY <1>2, <1>5, <2>1
    <3>2. {k \in q..r : runs'[k].step = "fix"} = FixesFrom(q, r)
      BY <3>1 DEF FixesFrom
    <3>3. \A k \in (q + 1)..r : ~runs[k].fresh /\ runs[k].step # "read"
      BY <1>2, <1>5, <2>1, <3>1
    <3>4. runs[q].step = "read"
      BY <1>2, <1>5, <3>1
    <3> QED
      BY <1>5, <2>1, <3>1, <3>2, <3>3, <3>4 DEF RoundsInv
  <2>2. CASE r = n /\ q = n
    <3>1. {k \in q..r : runs'[k].step = "fix"} = {}
      BY <1>1, <1>2, <1>5, <2>2
    <3> QED
      BY <3>1, FS_EmptySet, WorkflowAssumption
  <2>3. CASE r = n /\ q # n
    <3>1. q \in DOMAIN runs /\ q \in 1..L /\ runs[q].step = "read" /\ L \in DOMAIN runs
      BY <1>1, <1>2, <1>5, <2>3
    <3>2. \A k \in q..L : k \in DOMAIN runs /\ runs'[k] = runs[k]
      BY <1>2, <3>1
    <3>3. \A k \in (q + 1)..L : ~runs[k].fresh /\ runs[k].step # "read"
      BY <1>1, <1>2, <1>5, <2>3, <3>1, <3>2
    <3>4. Cardinality(FixesFrom(q, L)) <= MaxFixRounds
      BY <1>2, <3>1, <3>3 DEF RoundsInv
    <3>5. CASE new.step # "fix"
      <4>1. {k \in q..r : runs'[k].step = "fix"} = FixesFrom(q, L)
        BY <1>1, <1>2, <2>3, <3>1, <3>2, <3>5 DEF FixesFrom
      <4> QED
        BY <3>4, <4>1
    <3>6. CASE new.step = "fix"
      <4>1. GoesOn(new)
        BY <3>6, FirstSteps DEF Begins, Speaks
      <4>2. Cardinality(Fixes) < MaxFixRounds
        <5>1. InFlight(NextFor) /\ NextFor.step = "fix"
          BY <3>6, <4>1 DEF GoesOn
        <5> QED
          BY <5>1, NextStarts DEF Successors
      <4>3. runs # <<>>
        BY <4>1, NextStarts DEF GoesOn
      <4>4. FixesFrom(q, L) \subseteq Fixes /\ IsFiniteSet(Fixes)
        BY <3>1, <3>3, <4>3, FixesCounted
      <4>5. /\ IsFiniteSet(FixesFrom(q, L)) /\ Cardinality(FixesFrom(q, L)) <= Cardinality(Fixes)
        BY <4>4, FS_Subset
      <4>6. n \notin FixesFrom(q, L)
        BY <1>1, <1>2, <3>1 DEF FixesFrom
      <4>7. {k \in q..r : runs'[k].step = "fix"} = FixesFrom(q, L) \cup {n}
        BY <1>1, <1>2, <2>3, <3>1, <3>2, <3>6 DEF FixesFrom
      <4>8. Cardinality(FixesFrom(q, L) \cup {n}) = Cardinality(FixesFrom(q, L)) + 1
        BY <4>5, <4>6, FS_AddElement
      <4>9. Cardinality(FixesFrom(q, L)) \in Nat /\ Cardinality(Fixes) \in Nat /\ MaxFixRounds \in Nat
        BY <4>4, <4>5, FS_CardinalityType, WorkflowAssumption
      <4>10. Cardinality(FixesFrom(q, L)) + 1 <= MaxFixRounds
        BY <4>2, <4>5, <4>9
      <4>11. Cardinality(FixesFrom(q, L) \cup {n}) <= MaxFixRounds
        BY <4>8, <4>10
      <4> QED
        BY <4>7, <4>11, Zenon
    <3> QED
      BY <3>5, <3>6
  <2> QED
    BY <1>2, <2>1, <2>2, <2>3
<1> QED
  BY <1>4, <1>5 DEF RoundsInv, FixesFrom

(* The other steps change neither a run's step nor where a pass begins. *)
LEMMA RoundsKept ==
    ASSUME TypeOK, RoundsInv, DOMAIN runs' = DOMAIN runs,
           \A r \in DOMAIN runs : runs'[r].step = runs[r].step /\ (runs'[r].fresh <=> runs[r].fresh)
    PROVE  RoundsInv'
<1>1. Len(runs) \in Nat /\ DOMAIN runs = 1..Len(runs)
  BY RunsAre
<1>2. \A q, r \in DOMAIN runs : \A k \in q..r : k \in DOMAIN runs
  BY <1>1
<1>3. \A q, r \in DOMAIN runs : {k \in q..r : runs'[k].step = "fix"} = FixesFrom(q, r)
  BY <1>2 DEF FixesFrom
<1>4. \A q, r \in DOMAIN runs : \A k \in (q + 1)..r : k \in DOMAIN runs
  BY <1>1
<1>5. ASSUME NEW q \in DOMAIN runs, NEW r \in DOMAIN runs, q < r, runs'[q].step = "read", runs'[r].step = "setup"
      PROVE  \E k \in (q + 1)..r : runs'[k].fresh
  BY <1>4, <1>5 DEF RoundsInv
<1>6. ASSUME NEW q \in DOMAIN runs, NEW r \in DOMAIN runs, q <= r, runs'[q].step = "read",
             \A k \in (q + 1)..r : ~runs'[k].fresh /\ runs'[k].step # "read"
      PROVE  Cardinality({k \in q..r : runs'[k].step = "fix"}) <= MaxFixRounds
  <2>1. \A k \in (q + 1)..r : ~runs[k].fresh /\ runs[k].step # "read"
    BY <1>4, <1>6
  <2>2. Cardinality(FixesFrom(q, r)) <= MaxFixRounds
    BY <1>6, <2>1 DEF RoundsInv
  <2> QED
    BY <1>3, <2>2, Zenon
<1> QED
  BY <1>5, <1>6 DEF RoundsInv, FixesFrom

(* The rounds are kept. *)
LEMMA RoundsStep == TypeOK /\ HistoryInv /\ RoundsInv /\ [Next]_vars => RoundsInv'
<1> SUFFICES ASSUME TypeOK, HistoryInv, RoundsInv, [Next]_vars PROVE RoundsInv'
  OBVIOUS
<1>1. CASE Settles
  <2>1. /\ DOMAIN runs' = DOMAIN runs
        /\ \A r \in DOMAIN runs : runs'[r].step = runs[r].step /\ runs'[r].fresh = runs[r].fresh
    BY <1>1, Settled1
  <2> QED
    BY <2>1, RoundsKept
<1>2. CASE Quiet
  <2>1. runs' = runs
    BY <1>2 DEF Quiet
  <2> QED
    BY <2>1, RoundsKept
<1> QED
  BY <1>1, <1>2, StepKinds, RoundsStart, QuietSteps

(* A pass, up to one of its runs, is an interval of the history that       *)
(* begins where the last fresh run is, or with the history.                *)
LEMMA PassToIs ==
    ASSUME TypeOK, NEW r \in DOMAIN runs
    PROVE  \E b \in 1..r : /\ PassTo(r) = b..r /\ (b = 1 \/ runs[b].fresh)
                           /\ \A k \in (b + 1)..r : ~runs[k].fresh
<1> DEFINE begun == {q \in 1..r : runs[q].fresh}
<1>1. Len(runs) \in Nat /\ DOMAIN runs = 1..Len(runs) /\ r \in Nat /\ r >= 1
  BY RunsAre
<1>2. CASE begun = {}
  <2>1. PassTo(r) = 1..r
    BY <1>2 DEF PassTo
  <2>2. \A k \in 1..r : ~runs[k].fresh
    BY <1>2
  <2> QED
    BY <1>1, <2>1, <2>2
<1>3. CASE begun # {}
  <2>1. begun \in SUBSET (1..r)
    OBVIOUS
  <2>2. Max(begun) \in begun /\ \A k \in begun : Max(begun) >= k
    BY <1>1, <1>3, <2>1, GreatestNumber
  <2>3. PassTo(r) = Max(begun)..r
    BY <1>3 DEF PassTo
  <2>4. \A k \in 1..r : runs[k].fresh => k \in begun
    OBVIOUS
  <2> DEFINE b == Max(begun)
  <2>5. b \in 1..r /\ runs[b].fresh
    BY <2>1, <2>2
  <2> HIDE DEF begun, b
  <2>6. \A k \in (b + 1)..r : ~runs[k].fresh
    BY <1>1, <2>2, <2>4, <2>5 DEF b
  <2> QED
    BY <2>3, <2>5, <2>6 DEF b
<1> QED
  BY <1>2, <1>3

(* What the invariant says of a pass is what LaterStepsGiveUp says. *)
LEMMA RoundsGiveUp == TypeOK /\ RoundsInv => LaterStepsGiveUp
<1> SUFFICES ASSUME TypeOK, RoundsInv, NEW r \in DOMAIN runs,
                    {q \in PassTo(r) : runs[q].step = "read"} # {}
             PROVE  Cardinality({q \in Max({q \in PassTo(r) : runs[q].step = "read"})..r :
                                    runs[q].step = "fix"}) <= MaxFixRounds
  BY DEF LaterStepsGiveUp
<1> DEFINE read == {q \in PassTo(r) : runs[q].step = "read"}
           last == Max(read)
<1>1. Len(runs) \in Nat /\ DOMAIN runs = 1..Len(runs) /\ r \in Nat
  BY RunsAre
<1>2. PICK b \in 1..r : PassTo(r) = b..r /\ \A k \in (b + 1)..r : ~runs[k].fresh
  BY <1>1, PassToIs
<1>3. read \in SUBSET (1..r)
  BY <1>1, <1>2
<1>4. last \in read /\ \A q \in read : last >= q
  BY <1>1, <1>3, GreatestNumber
<1>5. last \in DOMAIN runs /\ last <= r /\ runs[last].step = "read" /\ b <= last /\ last \in Nat
  BY <1>1, <1>2, <1>4
<1>6. \A k \in PassTo(r) : runs[k].step = "read" => k \in read
  OBVIOUS
<1> HIDE DEF read, last
<1>7. \A k \in (last + 1)..r : ~runs[k].fresh /\ runs[k].step # "read"
  BY <1>1, <1>2, <1>4, <1>5, <1>6
<1>8. Cardinality(FixesFrom(last, r)) <= MaxFixRounds
  BY <1>5, <1>7 DEF RoundsInv
<1> QED
  BY <1>8 DEF FixesFrom, last, read

-----------------------------------------------------------------------------
(* The review.                                                             *)

(* A pr run follows a review that passed, in the same pass. *)
LEMMA PrIsReviewed == TypeOK /\ HistoryInv /\ TipInv => FinishedPassWasReviewed
<1> SUFFICES ASSUME TypeOK, HistoryInv, TipInv, NEW r \in DOMAIN runs,
                    runs[r].step = "pr", runs[r].outcome = "push"
             PROVE  \E q \in PassTo(r) : /\ runs[q].step = "review" /\ runs[q].outcome = "passed"
                                         /\ runs[q].tip = runs[r].tip
  BY DEF FinishedPassWasReviewed
<1>1. Len(runs) \in Nat /\ DOMAIN runs = 1..Len(runs) /\ runs[r].wf \in {"v0", "v1"}
  BY RunsAre DEF Row
<1>2. ~runs[r].fresh /\ Follows(r)
  BY <1>1 DEF HistoryInv, RunInv
<1>3. r > 1 /\ r - 1 \in DOMAIN runs
  BY <1>1, <1>2 DEF Follows
<1>4. ASSUME runs[r - 1].step = "fix", r > 2, runs[r].step = runs[r - 2].step
      PROVE  FALSE
  <2>1. runs[(r - 1) - 1].step # "pr"
    BY <1>3, <1>4, FixFollows
  <2> QED
    BY <1>1, <1>4, <2>1
<1>5. runs[r - 1].step = "review" /\ runs[r - 1].outcome = "passed"
  BY <1>2, <1>4 DEF Follows, Successors
<1>6. runs[r - 1].tip = runs[r].tip
  BY DEF TipInv
<1>7. PICK b \in 1..r : PassTo(r) = b..r /\ (b = 1 \/ runs[b].fresh)
  BY PassToIs
<1>8. r - 1 \in PassTo(r)
  BY <1>1, <1>2, <1>3, <1>7
<1> QED
  BY <1>5, <1>6, <1>8

-----------------------------------------------------------------------------
(* The theorems.                                                           *)

WorkflowInv == TypeOK /\ HistoryInv /\ TipInv /\ HandoffInv /\ RoundsInv

(* The invariant is inductive. *)
LEMMA WorkflowInvariant == Spec => []WorkflowInv
<1>1. Init => WorkflowInv
  BY TypeInit, HistoryInit, TipInit, HandoffInit, RoundsInit DEF WorkflowInv
<1>2. WorkflowInv /\ [Next]_vars => WorkflowInv'
  BY TypeStep, HistoryStep, TipStep, HandoffStep, RoundsStep DEF WorkflowInv
<1> QED
  BY <1>1, <1>2, PTL DEF Spec

(* Every row the loop writes and every process record it keeps is well     *)
(* typed, and only the last run of a ticket can be without an outcome or   *)
(* have a process.                                                         *)
THEOREM HistoryWellTyped == Spec => []TypeOK
  BY WorkflowInvariant, PTL DEF WorkflowInv

(* Whatever is fixed, killed, re-run or reconfigured on the way, a pass    *)
(* that ends published was reviewed, in that pass and on that tip.         *)
THEOREM FinishedIsReviewed == Spec => []FinishedPassWasReviewed
<1>1. WorkflowInv => FinishedPassWasReviewed
  BY PrIsReviewed DEF WorkflowInv
<1> QED
  BY <1>1, WorkflowInvariant, PTL

(* However often the verify command comes and goes, plan.Workflow.Next     *)
(* starts at most MaxFixRounds fixes since read last ran.                  *)
THEOREM FixRoundsBounded == Spec => []LaterStepsGiveUp
<1>1. WorkflowInv => LaterStepsGiveUp
  BY RoundsGiveUp DEF WorkflowInv
<1> QED
  BY <1>1, WorkflowInvariant, PTL

(* The prompt of a fix holds what the failed step before it said. *)
THEOREM FixesAreTold == Spec => []FixIsTold
<1>1. WorkflowInv => FixIsTold
  BY DEF WorkflowInv, HandoffInv
<1> QED
  BY <1>1, WorkflowInvariant, PTL

-----------------------------------------------------------------------------
(* The pass a memory would keep.                                           *)

(* PassMachine's three variables. *)
PassAt == IF runs = <<>> THEN "none" ELSE IF Latest.wf = "v0" THEN "message" ELSE Latest.step

PassState ==
    CASE runs = <<>> -> "none"
      [] runs # <<>> /\ Latest.outcome = "none" -> "running"
      [] OTHER -> Latest.outcome

PassOrigin ==
    IF runs = <<>> THEN "none"
    ELSE IF Latest.wf = "v0" THEN "message"
    ELSE runs[Max({r \in DOMAIN runs : runs[r].step # "fix"})].step

PassVars == <<PassAt, PassState, PassOrigin>>

(* PassMachine's actions in these variables. *)
LEMMA PassActions ==
    /\ PassMachine!Init <=> PassAt = "none" /\ PassState = "none" /\ PassOrigin = "none"
    /\ PassMachine!Begin <=>
          /\ PassState # "running"
          /\ \E i \in 1..Len(Order) : (\A j \in 1..(i - 1) : Order[j] \in {"setup", "check"}) /\ PassAt' = Order[i]
          /\ PassOrigin' = PassAt' /\ PassState' \in {"running", "failed"} \cup {"cut_failed"}
    /\ PassMachine!Finish <=>
          /\ PassState = "running" /\ PassState' \in {"passed", "failed", "asked", "continued", "push"}
          /\ PassAt' = PassAt /\ PassOrigin' = PassOrigin
    /\ PassMachine!Forward <=>
          /\ PassState = "passed" /\ PassAt = PassOrigin
          /\ \E i, k \in 1..Len(Order) :
                /\ Order[i] = PassAt /\ i < k
                /\ \A j \in (i + 1)..(k - 1) : Order[j] \in {"setup", "check"}
                /\ PassAt' = Order[k]
          /\ PassOrigin' = PassAt' /\ PassState' \in {"running", "failed"}
    /\ PassMachine!Repair <=>
          /\ PassState = "failed" /\ PassAt = PassOrigin /\ PassAt # Order[Len(Order)]
          /\ PassAt' = "fix" /\ PassState' \in {"running", "failed"} /\ PassOrigin' = PassOrigin
    /\ PassMachine!Redo <=>
          /\ PassState = "passed" /\ PassAt = "fix"
          /\ PassAt' = PassOrigin /\ PassState' \in {"running", "failed"} /\ PassOrigin' = PassOrigin
    /\ PassMachine!Message <=>
          /\ PassState \notin {"none", "running"}
          /\ PassAt' = "message" /\ PassOrigin' = "message" /\ PassState' \in {"running", "failed"}
    /\ PassMachine!vars = PassVars
  BY Zenon DEF PassMachine!Init, PassMachine!Begin, PassMachine!Finish, PassMachine!Forward, PassMachine!Repair,
     PassMachine!Redo, PassMachine!Message, PassMachine!Started, PassMachine!vars,
     PassAt, PassState, PassOrigin, PassVars, Order

(* The forward step of a history whose latest run is not a message. *)
LEMMA OriginIs ==
    ASSUME TypeOK, runs # <<>>, Latest.wf = "v1", NEW q \in DOMAIN runs, runs[q].step # "fix",
           \A k \in (q + 1)..Len(runs) : runs[k].step = "fix"
    PROVE  PassOrigin = runs[q].step
<1> DEFINE S == {r \in DOMAIN runs : runs[r].step # "fix"}
<1>1. Len(runs) \in Nat /\ DOMAIN runs = 1..Len(runs)
  BY RunsAre
<1>2. S \in SUBSET (1..Len(runs)) /\ q \in S
  BY <1>1
<1>3. Max(S) \in S /\ \A y \in S : Max(S) >= y
  BY <1>1, <1>2, GreatestNumber
<1>4. Max(S) = q
  <2>1. Max(S) \in 1..Len(runs) /\ runs[Max(S)].step # "fix" /\ Max(S) >= q
    BY <1>1, <1>2, <1>3
  <2> DEFINE m == Max(S)
  <2> HIDE DEF S, m
  <2>2. m \in 1..Len(runs) /\ runs[m].step # "fix" /\ m >= q
    BY <2>1 DEF m
  <2>3. m = q
    BY <1>1, <2>2
  <2> QED
    BY <2>3 DEF m
<1> QED
  BY <1>4 DEF PassOrigin

(* A run that starts takes the machine to its step. *)
LEMMA PassStarts ==
    ASSUME TypeOK, TypeOK', NEW new \in Row, Starting(new)
    PROVE  /\ PassAt' = IF new.wf = "v0" THEN "message" ELSE new.step
           /\ PassState' = IF new.outcome = "none" THEN "running" ELSE new.outcome
           /\ new.outcome \in {"none", "failed", "cut_failed"}
           /\ new.wf = "v0" => PassOrigin' = "message"
           /\ new.wf = "v1" /\ new.step # "fix" => PassOrigin' = new.step
           /\ new.wf = "v1" /\ new.step = "fix" /\ runs # <<>> /\ Latest.step # "fix"
              => PassOrigin' = Latest.step
<1> DEFINE L == Len(runs)
<1>1. /\ Len(runs') = L + 1 /\ L \in Nat /\ DOMAIN runs = 1..L /\ DOMAIN runs' = 1..(L + 1)
      /\ runs' # <<>> /\ Latest' = new /\ runs'[L + 1] = new /\ \A r \in DOMAIN runs : runs'[r] = runs[r]
  BY Appended
<1>2. PassAt' = IF new.wf = "v0" THEN "message" ELSE new.step
  BY <1>1 DEF PassAt
<1>3. new.outcome \in {"none", "failed", "cut_failed"}
  BY DEF Starting
<1>4. PassState' = IF new.outcome = "none" THEN "running" ELSE new.outcome
  BY <1>1 DEF PassState
<1>5. new.wf = "v0" => PassOrigin' = "message"
  BY <1>1 DEF PassOrigin
<1>6. ASSUME new.wf = "v1", NEW q \in 1..(L + 1), runs'[q].step # "fix",
             \A k \in (q + 1)..(L + 1) : runs'[k].step = "fix"
      PROVE  PassOrigin' = runs'[q].step
  <2> DEFINE S == {r \in DOMAIN runs' : runs'[r].step # "fix"}
             m == Max(S)
  <2>1. S \in SUBSET (1..(L + 1)) /\ q \in S /\ L + 1 \in Nat
    BY <1>1, <1>6
  <2>2. m \in S /\ \A y \in S : m >= y
    BY <2>1, GreatestNumber
  <2>3. m \in 1..(L + 1) /\ runs'[m].step # "fix" /\ m >= q
    BY <1>1, <2>1, <2>2
  <2>4. PassOrigin' = runs'[m].step
    BY <1>1, <1>6 DEF PassOrigin
  <2> HIDE DEF S, m
  <2>5. m = q
    BY <1>1, <1>6, <2>3
  <2> QED
    BY <2>4, <2>5
<1>7. new.wf = "v1" /\ new.step # "fix" => PassOrigin' = new.step
  <2>1. L + 1 \in 1..(L + 1) /\ \A k \in ((L + 1) + 1)..(L + 1) : runs'[k].step = "fix"
    BY <1>1
  <2> QED
    BY <1>1, <1>6, <2>1
<1>8. new.wf = "v1" /\ new.step = "fix" /\ runs # <<>> /\ Latest.step # "fix" => PassOrigin' = Latest.step
  <2> SUFFICES ASSUME new.wf = "v1", new.step = "fix", runs # <<>>, Latest.step # "fix"
               PROVE  PassOrigin' = Latest.step
    OBVIOUS
  <2>1. L \in 1..(L + 1) /\ L \in DOMAIN runs /\ runs'[L] = Latest
    BY <1>1, RunsAre DEF Latest
  <2>2. \A k \in (L + 1)..(L + 1) : runs'[k].step = "fix"
    BY <1>1
  <2> QED
    BY <1>6, <2>1, <2>2
<1> QED
  BY <1>2, <1>3, <1>4, <1>5, <1>7, <1>8

(* The next step of a pass, in the order of the forward steps. *)
LEMMA SuccessorsOrdered ==
    ASSUME NEW a, NEW b, <<a, b>> \in Successors
    PROVE  /\ a # "fix" /\ b # "fix"
           /\ \E i, k \in 1..Len(Order) :
                 /\ Order[i] = a /\ i < k /\ \A j \in (i + 1)..(k - 1) : Order[j] \in {"setup", "check"}
                 /\ b = Order[k]
<1>1. /\ Len(Order) = 6 /\ Order[1] = "setup" /\ Order[2] = "read" /\ Order[3] = "implement"
      /\ Order[4] = "check" /\ Order[5] = "review" /\ Order[6] = "pr"
  BY DEF Order
<1>2. \E i \in 1..6, k \in 1..6 : Order[i] = a /\ Order[k] = b /\ (k = i + 1 \/ (i = 3 /\ k = 5))
  <2>1. CASE a = "setup" /\ b = "read"
    BY <1>1, <2>1
  <2>2. CASE a = "read" /\ b = "implement"
    BY <1>1, <2>2
  <2>3. CASE a = "implement" /\ b = "check"
    BY <1>1, <2>3
  <2>4. CASE a = "implement" /\ b = "review"
    BY <1>1, <2>4
  <2>5. CASE a = "check" /\ b = "review"
    BY <1>1, <2>5
  <2>6. CASE a = "review" /\ b = "pr"
    BY <1>1, <2>6
  <2> QED
    BY <2>1, <2>2, <2>3, <2>4, <2>5, <2>6 DEF Successors
<1>3. a # "fix" /\ b # "fix"
  BY DEF Successors
<1> QED
  BY <1>1, <1>2, <1>3

(* Every step of the loop is a step of the pass or leaves it where it is. *)
LEMMA PassStep ==
    ASSUME TypeOK, TypeOK', HistoryInv, [Next]_vars
    PROVE  PassMachine!Next \/ UNCHANGED PassVars
<1>1. CASE Settles
  <2>1. /\ Len(runs') = Len(runs) /\ Len(runs) \in Nat /\ Len(runs) \in DOMAIN runs
        /\ DOMAIN runs = 1..Len(runs) /\ DOMAIN runs' = DOMAIN runs /\ runs' # <<>>
        /\ Latest = runs[Len(runs)] /\ Latest' = runs'[Len(runs)]
        /\ \A r \in DOMAIN runs : runs'[r].wf = runs[r].wf /\ runs'[r].step = runs[r].step
        /\ Latest'.outcome = OutcomeFor(Len(runs))
    BY <1>1, Settled1
  <2>2. runs # <<>> /\ Latest.outcome = "none"
    BY <1>1, <2>1 DEF Settles
  <2>3. OutcomeFor(Len(runs)) \in {"passed", "failed", "asked", "continued", "push"}
    BY OutcomeIs
  <2>4. PassState = "running" /\ PassState' \in {"passed", "failed", "asked", "continued", "push"}
    BY <2>1, <2>2, <2>3 DEF PassState
  <2>5. PassAt' = PassAt
    BY <2>1, <2>2 DEF PassAt
  <2>6. PassOrigin' = PassOrigin
    <3> DEFINE S == {r \in DOMAIN runs : runs[r].step # "fix"}
    <3>1. {r \in DOMAIN runs' : runs'[r].step # "fix"} = S
      BY <2>1
    <3>2. PassOrigin' = IF Latest.wf = "v0" THEN "message" ELSE runs'[Max(S)].step
      BY <2>1, <3>1 DEF PassOrigin
    <3>3. ASSUME Latest.wf = "v1"
          PROVE  Max(S) \in DOMAIN runs
      <4>1. S # {}
        <5>1. Latest.step # "fix" \/ (runs[Len(runs) - 1].step # "fix" /\ Len(runs) - 1 \in DOMAIN runs)
          BY <2>1, FixFollows
        <5> QED
          BY <2>1, <5>1
      <4>2. S \in SUBSET (1..Len(runs))
        BY <2>1
      <4> QED
        BY <2>1, <4>1, <4>2, GreatestNumber
    <3>4. Latest.wf \in {"v0", "v1"}
      BY <2>2, RunsAre DEF Row
    <3> QED
      BY <2>1, <2>2, <3>2, <3>3, <3>4 DEF PassOrigin
  <2> QED
    BY <2>4, <2>5, <2>6, PassActions DEF PassMachine!Next
<1>2. CASE Quiet
  <2>1. runs' = runs /\ Latest' = Latest
    BY <1>2 DEF Quiet, Latest
  <2> QED
    BY <2>1 DEF PassVars, PassAt, PassState, PassOrigin
<1>3. ASSUME Settled, NEW new \in Row, Starting(new), Begins(new) \/ GoesOn(new) \/ Speaks(new)
      PROVE  PassMachine!Next
  <2>1. /\ PassAt' = IF new.wf = "v0" THEN "message" ELSE new.step
        /\ PassState' = IF new.outcome = "none" THEN "running" ELSE new.outcome
        /\ new.outcome \in {"none", "failed", "cut_failed"}
        /\ new.wf = "v0" => PassOrigin' = "message"
        /\ new.wf = "v1" /\ new.step # "fix" => PassOrigin' = new.step
        /\ new.wf = "v1" /\ new.step = "fix" /\ runs # <<>> /\ Latest.step # "fix"
           => PassOrigin' = Latest.step
    BY <1>3, PassStarts
  <2>2. runs # <<>> => PassState = Latest.outcome /\ Latest.outcome \in Outcomes \ {"none"}
    BY <1>3, RunsAre DEF Settled, PassState, Row
  <2>3. runs = <<>> => PassState = "none"
    BY DEF PassState
  <2>4. CASE Begins(new)
    <3>1. PassState # "running"
      BY <2>2, <2>3 DEF Outcomes
    <3>2. new.step \in {"setup", "read"} /\ new.wf = "v1"
      BY <2>4, FirstSteps DEF Begins
    <3>3. \E i \in 1..Len(Order) : (\A j \in 1..(i - 1) : Order[j] \in {"setup", "check"}) /\ new.step = Order[i]
      <4>1. Len(Order) = 6 /\ Order[1] = "setup" /\ Order[2] = "read"
        BY DEF Order
      <4>2. CASE new.step = "setup"
        BY <4>1, <4>2
      <4>3. CASE new.step = "read"
        BY <4>1, <4>3
      <4> QED
        BY <3>2, <4>2, <4>3
    <3>4. PassState' \in {"running", "failed"} \cup {"cut_failed"}
      BY <2>1
    <3>5. PassAt' = new.step /\ PassOrigin' = new.step
      BY <2>1, <3>2
    <3>6. PassMachine!Begin
      BY <3>1, <3>3, <3>4, <3>5, PassActions
    <3> QED
      BY <3>6 DEF PassMachine!Next
  <2>5. CASE GoesOn(new)
    <3>1. /\ runs # <<>> /\ Latest.wf = "v1" /\ Latest.outcome # "none"
          /\ \/ <<Latest.step, new.step>> \in Successors /\ Latest.outcome = "passed"
             \/ /\ new.step = "fix" /\ Latest.step \in Names \ {"fix", "pr"} /\ Latest.outcome = "failed"
             \/ /\ Latest.step = "fix" /\ Latest.outcome = "passed"
                /\ \E q \in DOMAIN runs : /\ new.step = runs[q].step /\ runs[q].step # "fix"
                                          /\ \A k \in (q + 1)..Len(runs) : runs[k].step = "fix"
      BY <2>5, NextStarts DEF GoesOn
    <3>2. PassState' \in {"running", "failed"} /\ PassAt' = new.step /\ PassState = Latest.outcome /\ new.wf = "v1"
      BY <2>1, <2>2, <2>5, <3>1 DEF GoesOn
    <3>3. PassAt = Latest.step
      BY <3>1 DEF PassAt
    <3>4. Latest.step # "fix" => PassOrigin = Latest.step
      <4>1. Len(runs) \in DOMAIN runs /\ Latest = runs[Len(runs)] /\ Len(runs) \in Nat
        BY <3>1, RunsAre DEF Latest
      <4>2. \A k \in (Len(runs) + 1)..Len(runs) : runs[k].step = "fix"
        BY <4>1
      <4> QED
        BY <3>1, <4>1, <4>2, OriginIs
    <3>5. CASE <<Latest.step, new.step>> \in Successors /\ Latest.outcome = "passed"
      <4>1. /\ Latest.step # "fix" /\ new.step # "fix"
            /\ \E i, k \in 1..Len(Order) :
                  /\ Order[i] = Latest.step /\ i < k /\ \A j \in (i + 1)..(k - 1) : Order[j] \in {"setup", "check"}
                  /\ new.step = Order[k]
        BY <3>5, SuccessorsOrdered
      <4>2. PassAt = PassOrigin /\ PassOrigin' = PassAt'
        BY <2>1, <3>2, <3>3, <3>4, <4>1
      <4>3. PassMachine!Forward
        BY <3>2, <3>3, <3>5, <4>1, <4>2, PassActions
      <4> QED
        BY <4>3 DEF PassMachine!Next
    <3>6. CASE new.step = "fix" /\ Latest.step \in Names \ {"fix", "pr"} /\ Latest.outcome = "failed"
      <4>1. Order[Len(Order)] = "pr"
        BY DEF Order
      <4>2. PassAt = PassOrigin /\ PassOrigin' = PassOrigin /\ PassAt # "pr"
        BY <2>1, <3>1, <3>2, <3>3, <3>4, <3>6
      <4>3. PassMachine!Repair
        BY <3>2, <3>6, <4>1, <4>2, PassActions
      <4> QED
        BY <4>3 DEF PassMachine!Next
    <3>7. CASE /\ Latest.step = "fix" /\ Latest.outcome = "passed"
               /\ \E q \in DOMAIN runs : /\ new.step = runs[q].step /\ runs[q].step # "fix"
                                         /\ \A k \in (q + 1)..Len(runs) : runs[k].step = "fix"
      <4>1. PassOrigin = new.step /\ new.step # "fix"
        BY <3>1, <3>7, OriginIs
      <4>2. PassOrigin' = PassOrigin
        BY <2>1, <3>2, <4>1
      <4>3. PassMachine!Redo
        BY <3>2, <3>3, <3>7, <4>1, <4>2, PassActions
      <4> QED
        BY <4>3 DEF PassMachine!Next
    <3> QED
      BY <3>1, <3>5, <3>6, <3>7
  <2>6. CASE Speaks(new)
    <3>1. PassState \notin {"none", "running"}
      BY <2>2, <2>6 DEF Speaks, Outcomes
    <3>2. PassAt' = "message" /\ PassOrigin' = "message" /\ PassState' \in {"running", "failed"}
      BY <2>1, <2>6 DEF Speaks
    <3>3. PassMachine!Message
      BY <3>1, <3>2, PassActions
    <3> QED
      BY <3>3 DEF PassMachine!Next
  <2> QED
    BY <1>3, <2>4, <2>5, <2>6
<1> QED
  BY <1>1, <1>2, <1>3, StepKinds, QuietSteps

(* Reading the run history, as plan.Workflow.Next does, implements the     *)
(* machine that remembers where the pass is.                               *)
THEOREM HistoryIsEnough == Spec => PassFollowsSteps
<1>1. Init => PassMachine!Init
  BY PassActions DEF Init, PassAt, PassState, PassOrigin
<1>2. TypeOK /\ TypeOK' /\ HistoryInv /\ [Next]_vars => [PassMachine!Next]_(PassMachine!vars)
  BY PassStep, Zenon DEF PassMachine!vars, PassVars, PassAt, PassState, PassOrigin
<1>3. Spec => [](TypeOK /\ HistoryInv)
  BY WorkflowInvariant, PTL DEF WorkflowInv
<1> QED
  BY <1>1, <1>2, <1>3, PTL DEF Spec, PassFollowsSteps, PassMachine!Spec
=============================================================================
