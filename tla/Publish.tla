------------------------------ MODULE Publish ------------------------------
(***************************************************************************)
(* Publishing one ticket that is stacked on a blocker: pushing its branch, *)
(* opening and re-pointing its pull request, carrying it forward when its  *)
(* base moves or merges, verifying, aborting, retrying and at last         *)
(* removing the worktree.  Agents, reviewers, the blocker's owner, CI and  *)
(* GitHub work at the same time, between any two steps of a tick.          *)
(*                                                                         *)
(* A commit is a pair <<patch, copy>>: rebasing makes a new copy, and a    *)
(* squash merge puts copies of a branch's patches on main.  A tip is the   *)
(* set of the commits it reaches, so the ancestors of a tip are its        *)
(* subsets and merging is union; a deleted ref is the empty set.           *)
(***************************************************************************)
EXTENDS Integers, Sequences, FiniteSets, Functions, Verdict

CONSTANTS
    Protected,    \* patches that touch a path the push policy denies
    MainPatches, BlockerPatches, \* what others may add to main and to the blocker
    Clashing,     \* the patches of these that conflict with the ticket's work
    WaitTicks,    \* BoundedWait in ticks
    MaxEvents     \* bound: events (see used), of each kind at most one

ASSUME PublishAssumption == {WaitTicks, MaxEvents} \subseteq Nat

VARIABLES
    \* GitHub
    remote,    \* the tips of main, of the blocker's branch b and of the ticket's branch t
    blocker,   \* the blocker's pull request
    pr,        \* the ticket's pull request
    \* the checkout
    track,     \* the remote-tracking refs
    objects,   \* the commits fetched so far
    local,     \* the local branch
    worktree,  \* "present" or "gone"
    mid,       \* an unfinished merge or rebase, and the tip it would produce
    \* the ticket's latest run
    run,       \* its process, outcome, baseline and whether it left a question
    \* Postgres
    push,      \* the latest row of pushes
    log,       \* the events since that row that a fact is read from
    ticks,     \* checking_ticks of the ticket
    intents,   \* the verbs whose intents are pending
    tracked,   \* the ticket is not withdrawn
    \* the tick
    phase,     \* the step to do next
    obs,       \* the observation
    snap,      \* what Derive read from the store
    \* the world
    used,      \* the events that happened: "main", "blocker" (their branches grow), "review",
               \* "work" (someone commits to the branch), "rerun" (of the check), a verb clicked, "fail" (of a tool)
    greens,    \* history: CI reported green on the last pushed tip or the latest head
    reviewed   \* history: patches a reviewer pushed

github  == <<remote, blocker, pr>>
work    == <<local, worktree, mid>>
store   == <<push, log, ticks, intents, tracked>>
tick    == <<phase, obs, snap>>
history == <<greens, reviewed>>
vars    == <<github, track, objects, work, run, store, tick, used, history>>

Patches(tip) == {c[1] : c \in tip}

Squashed == 9

NoPush == [tip |-> {}, base |-> "", baseSHA |-> {}]
NoMid  == [kind |-> "none", result |-> {}]

(* The repositories' predicate: one required check.                        *)
Predicate == <<[op |-> "success", kids |-> {}, name |-> "ci"]>>

-----------------------------------------------------------------------------
(* git *)
Ancestor(commit, ref) == commit \subseteq ref

(* git merge of ref conflicts on a patch the branch does not have yet.     *)
Conflicts(ref, tip) == \E c \in ref \ tip : c[1] \in Clashing /\ ~(tip \subseteq ref)

(* git rebase --onto onto upstream: commits outside upstream are copied    *)
(* unless their patch is already in upstream or in onto.                   *)
Rebase(tip, onto, upstream) ==
    onto \cup {<<c[1], c[2] + 1>> :
                  c \in {c \in tip \ upstream : c[1] \notin Patches(upstream) \cup Patches(onto)}}

(* git push: a plain push must be a fast-forward of the remote branch.     *)
PushAccepted(tip) == Ancestor(remote.t, tip)

(* Faulty variant of LeaseHolds: whatever the remote branch holds.         *)
ForceHolds(expected) == TRUE

(* git push --force-with-lease=<branch>:<expected>                         *)
LeaseHolds(expected) == remote.t = expected

-----------------------------------------------------------------------------
(* What the store reads back: rows of events later than the last push.     *)
LatestOf(kinds) ==
    LET at == {i \in DOMAIN log : log[i].kind \in kinds}
    IN  IF at = {} THEN [kind |-> "none"] ELSE log[CHOOSE i \in at : \A j \in at : j <= i]

ListPushFacts == LatestOf({"push_refused", "push_failed"})

PushFacts == ListPushFacts.kind

ListLatestRefreshOutcomes ==
    LatestOf({"refresh_refused", "refresh_conflicted", "verification_failed", "refreshed", "restacked"})

RestackedSinceLastPush == \E i \in DOMAIN log : log[i].kind = "restacked"

RefreshFacts ==
    LET o == ListLatestRefreshOutcomes
    IN  [tried |-> o.kind # "none", refused |-> o.kind = "refresh_refused",
         verificationFailed |-> o.kind = "verification_failed", conflicted |-> o.kind = "refresh_conflicted",
         at |-> IF o.kind = "refresh_conflicted" THEN o.at ELSE <<{}, {}>>]

Event(kind) == [kind |-> kind]

Spend(what) == what \notin used /\ Cardinality(used) < MaxEvents /\ used' = used \cup {what}
Fail == Spend("fail")

(* Ticks, not time, bound the wait for checks.                             *)
IncrementCheckingTicks == ticks' = IF ticks < WaitTicks THEN ticks + 1 ELSE ticks
ResetCheckingTicks     == ticks' = 0
CheckingFor(count)     == [waited |-> count >= WaitTicks]

(* RecordPush: facts are read from events after the row, and the wait for  *)
(* checks starts again.                                                    *)
RecordPush(row) == push' = row /\ log' = <<>> /\ ResetCheckingTicks

Record(kind) == log' = Append(log, Event(kind)) /\ UNCHANGED <<push, ticks>>

-----------------------------------------------------------------------------
(* plan.Unlocked for the ticket's one blocker, in a stacking repository.   *)
Unlock(o) ==
    CASE o.blocker.state = "open"   -> [unlocked |-> TRUE, base |-> "b"]
      [] o.blocker.state = "merged" -> [unlocked |-> TRUE, base |-> "main"]
      [] o.blocker.state = "closed" -> [unlocked |-> FALSE, base |-> ""]

HoldsWorktree(s, o) == ~o.alive /\ s.outcome = "asked"

(* What Derive reads from the store for this ticket.                       *)
Snapshot ==
    [outcome |-> run.outcome, push |-> push, restacked |-> RestackedSinceLastPush,
     pushFact |-> PushFacts, refresh |-> RefreshFacts, waited |-> CheckingFor(ticks).waited,
     intents |-> intents]

(* ApplyVerdict, for a ticket with a recorded push.                        *)
ApplyVerdict(s, o) ==
    Evaluate(Predicate,
       [checks |-> VerdictChecks(o.pr.checks),
        headMatch |-> s.push.tip # {} /\ o.pr.head = s.push.tip,
        stacked |-> s.push.base # "", baseMatch |-> o.tips[s.push.base] = s.push.baseSHA,
        configOK |-> TRUE, waited |-> s.waited, author |-> "", compat |-> ""])

StateOfVerdict(kind) == IF kind = "none" THEN "checking" ELSE kind

(* Rules.runFor: what the row is told of the run, its push and its request. *)
RunFor(s, o) ==
    [outcome |-> s.outcome, alive |-> o.alive, pr |-> o.pr.state,
     pushRefused |-> s.pushFact = "push_refused", pushFailed |-> s.pushFact = "push_failed",
     refreshRefused |-> s.refresh.refused, verificationFailed |-> s.refresh.verificationFailed,
     midMerge |-> o.mid, conflictsWithMain |-> o.conflictsWithMain,
     verdict |-> IF o.pr.state = "open" /\ s.pushFact = "none" /\ s.push # NoPush
                 THEN ApplyVerdict(s, o) ELSE "none"]

StatusFromPush(f) ==
    CASE f.pr = "closed" -> "pr_closed_unmerged"
      [] OTHER -> IF f.midMerge           THEN "refresh_conflicted"
           ELSE IF f.conflictsWithMain    THEN "conflicts_with_main"
           ELSE IF f.verificationFailed   THEN "verification_failed"
           ELSE IF f.pushRefused          THEN "needs_you"
           ELSE IF f.pushFailed           THEN "push_failed"
           ELSE IF f.refreshRefused       THEN "needs_you"
           ELSE IF f.pr = "open"          THEN StateOfVerdict(f.verdict)
           ELSE "push_pending"

Status(s, o) ==
    LET f == RunFor(s, o)
    IN  IF o.blocker.state = "closed" THEN "base_gone"
        ELSE IF f.pr = "merged" THEN "merged"
        ELSE IF f.alive THEN "running"
        ELSE CASE f.outcome = "none"   -> "queued"
               [] f.outcome = "asked"  -> "awaiting_input"
               [] f.outcome = "failed" -> "failed"
               [] f.outcome = "push"   -> StatusFromPush(f)

(* stateInfo's verbs, for the verbs modelled here; a follow-up that        *)
(* interrupts a running agent is RunLoop's subject.                        *)
Verbs(state) ==
    CASE state \in {"failed", "checking", "needs_you", "awaiting_input", "ci_failed"} -> {"follow-up"}
      [] state \in {"push_failed", "verification_failed"}   -> {"retry-push", "follow-up"}
      [] state = "base_moved"                               -> {"refresh", "follow-up"}
      [] state = "conflicts_with_main"                      -> {"refresh"}
      [] state = "refresh_conflicted"                       -> {"abort"}
      [] state \in {"pr_closed_unmerged", "base_gone"}      -> {"follow-up", "remove-worktree"}
      [] state = "merged"                                   -> {"remove-worktree"}
      [] OTHER                                              -> {}

-----------------------------------------------------------------------------
(* The tick: fetch, the rest of the observation, then the steps of act.    *)
Decode(request) == [request EXCEPT !.checks = Normalise(@)]

Fetch ==
    /\ phase = "idle"
    /\ track' = remote
    /\ objects' = objects \cup UNION {remote[r] : r \in DOMAIN remote}
    /\ phase' = IF tracked THEN "observe" ELSE "idle"
    /\ UNCHANGED <<github, work, run, store, obs, snap, used, history>>

(* A dead run is judged by its question, then by commits after its baseline.*)
Disposed ==
    IF run.alive \/ run.outcome # "none" THEN run
    ELSE [run EXCEPT !.outcome = IF run.asked THEN "asked"
                                 ELSE IF local = run.baseline THEN "failed" ELSE "push"]

(* observeRepo after the fetch, observeRuns, absorb and the first derive.  *)
(* The steps of verbs nobody asked for do nothing and are passed over.     *)
Observe ==
    /\ phase = "observe"
    /\ obs' = [tips |-> track, blocker |-> blocker, pr |-> Decode(pr), worktree |-> worktree = "present",
               local |-> local, mid |-> mid # NoMid, alive |-> run.alive,
               conflictsWithMain |-> track.t # {} /\ Conflicts(track.main, track.t),
               spawned |-> FALSE, aborted |-> FALSE]
    /\ run' = Disposed
    /\ IncrementCheckingTicks
    /\ snap' = [Snapshot EXCEPT !.outcome = Disposed.outcome, !.waited = CheckingFor(ticks').waited]
    /\ phase' = IF intents \cap {"follow-up", "abort"} = {} THEN "retarget" ELSE "verbs"
    /\ UNCHANGED <<github, track, objects, work, push, log, intents, tracked, used, history>>

(* idleWorktreeFor: the process may have been started earlier in the tick. *)
IdleWorktree == obs.worktree /\ ~obs.alive /\ ~obs.spawned

(* The snapshot ends with its tick. *)
NoSnapshot == [intents |-> {}]
EndTick == snap' = IF phase' = "idle" THEN NoSnapshot ELSE snap

Asks(verb) == verb \in snap.intents

(* applyFollowUpIntents and applyAbortIntents. *)
FollowUpAndAbort ==
    /\ phase = "verbs"
    /\ LET speaks == Asks("follow-up") /\ IdleWorktree
           aborts == Asks("abort") /\ IdleWorktree /\ ~speaks /\ mid # NoMid
       IN  /\ run' = IF speaks
                     THEN [alive |-> TRUE, outcome |-> "none", baseline |-> local, asked |-> FALSE]
                     ELSE run
           /\ mid' = IF aborts THEN NoMid ELSE mid
           /\ obs' = [obs EXCEPT !.spawned = speaks, !.aborted = aborts]
           /\ intents' = intents \ (snap.intents \cap
                                      IF obs.alive THEN {"abort"} ELSE {"follow-up", "abort"})
    /\ phase' = "retarget"
    /\ UNCHANGED <<github, track, objects, local, worktree, push, log, ticks, tracked, snap, used, history>>

(* Faulty variant of RestackBoundary: the tip pushed instead of its base. *)
RestackBoundaryPushed(row) == row.tip

(* restackBoundary: where the copies of the base's commits end.            *)
RestackBoundary(row) ==
    IF row.base = "b" /\ obs.blocker.state = "merged" THEN obs.blocker.head ELSE row.baseSHA

RefusesFF == mid # NoMid \/ track.t = {} \/ ~(Ancestor(track.t, local) \/ Ancestor(local, track.t))

(* refreshOne on top of the events log0: fast-forward to origin/t, then    *)
(* merge the base, or rebase past a base that is gone from its history,    *)
(* then verify.                                                            *)
RefreshOne(row, requested, log0, next) ==
    LET unlock   == Unlock(obs)
        refused  == IF requested THEN Append(log0, Event("refresh_refused")) ELSE log0
        tip      == IF Ancestor(local, track.t) THEN track.t ELSE local
        ref      == track[unlock.base]
        boundary == RestackBoundary(row)
        kept     == boundary = {} \/ Ancestor(boundary, ref)
        kind     == IF kept THEN "refreshed" ELSE "restacked"
        result   == IF kept THEN tip \cup ref ELSE Rebase(tip, ref, boundary)
    IN  IF HoldsWorktree(snap, obs) \/ ~IdleWorktree \/ (obs.mid /\ ~obs.aborted)
        THEN log' = refused /\ phase' = next /\ UNCHANGED <<local, mid, used>>
        ELSE IF RefusesFF
        THEN log' = Append(log0, Event("refresh_refused")) /\ phase' = next /\ UNCHANGED <<local, mid, used>>
        ELSE IF ~unlock.unlocked
        THEN local' = tip /\ log' = refused /\ phase' = next /\ UNCHANGED <<mid, used>>
        ELSE IF ~(boundary \subseteq objects)
        THEN local' = tip /\ log' = log0 /\ phase' = "idle" /\ UNCHANGED <<mid, used>>
        ELSE IF Conflicts(ref, tip)
        THEN /\ local' = tip
             /\ mid' = [kind |-> kind, result |-> result]
             /\ log' = (IF kept THEN log0 ELSE Append(log0, Event("restacked")))
                          \o <<[kind |-> "refresh_conflicted", at |-> <<obs.tips.t, ref>>]>>
             /\ phase' = next
             /\ UNCHANGED used
        ELSE /\ local' = result
             /\ phase' = next
             /\ UNCHANGED mid
             /\ \/ log' = Append(log0, Event(kind)) /\ UNCHANGED used
                \/ /\ Fail
                   /\ log' = log0 \o <<Event(kind), Event("verification_failed")>>

(* Faulty variant of Retargets: only while the base still has a tip. *)
RetargetsLiveBase ==
    /\ ~HoldsWorktree(snap, obs)
    /\ snap.push.base = "b" /\ obs.tips.b # {}
    /\ obs.pr.state = "open"
    /\ obs.blocker.state = "merged"

(* retargetMerged: the pull request of a branch whose base merged is       *)
(* pointed at main, and the branch is carried forward with the old row.    *)
Retargets ==
    /\ ~HoldsWorktree(snap, obs)
    /\ snap.push.base = "b"
    /\ obs.pr.state = "open"
    /\ obs.blocker.state = "merged"

Retarget ==
    /\ phase = "retarget"
    /\ IF ~Retargets
       THEN phase' = "refresh" /\ UNCHANGED <<pr, local, mid, push, log, ticks, used>>
       ELSE \/ Fail /\ phase' = "refresh" /\ UNCHANGED <<pr, local, mid, push, log, ticks>>
            \/ /\ pr' = [pr EXCEPT !.base = "main"]
               /\ push' = [snap.push EXCEPT !.base = "main"]
               /\ ticks' = 0
               /\ RefreshOne(snap.push, FALSE, <<>>, "refresh")
    /\ UNCHANGED <<remote, blocker, track, objects, worktree, run, intents, tracked, obs, history>>
    /\ EndTick

(* Faulty variants of AutoRefreshable: only branches based on main; again  *)
(* on every tick.                                                          *)
AutoRefreshableOnMain ==
    /\ snap.outcome = "push" /\ obs.pr.state = "open" /\ snap.push.base = "main"
    /\ obs.tips.main # snap.push.baseSHA /\ ~snap.refresh.tried

AutoRefreshableAlways ==
    /\ snap.outcome = "push" /\ obs.pr.state = "open" /\ snap.push # NoPush
    /\ obs.tips[snap.push.base] # snap.push.baseSHA

(* autoRefreshable: an open pull request whose base is not where the last  *)
(* push saw it, tried once, and again only when a conflict's tips changed. *)
AutoRefreshable ==
    LET baseTip == obs.tips[snap.push.base]
    IN  /\ snap.outcome = "push"
        /\ obs.pr.state = "open"
        /\ snap.push # NoPush
        /\ baseTip # snap.push.baseSHA
        /\ \/ ~snap.refresh.tried
           \/ snap.refresh.conflicted /\ snap.refresh.at # <<obs.tips.t, baseTip>>

AfterRefresh ==
    IF Asks("retry-push") THEN "retry" ELSE IF Asks("remove-worktree") THEN "remove" ELSE "push"

(* applyRefreshIntents, then rereadLocalTips. *)
Refresh ==
    /\ phase = "refresh"
    /\ IF Asks("refresh") \/ AutoRefreshable
       THEN RefreshOne(snap.push, Asks("refresh"), log, AfterRefresh)
       ELSE phase' = AfterRefresh /\ UNCHANGED <<local, mid, log, used>>
    /\ intents' = IF phase' # "idle" THEN intents \ (snap.intents \cap {"refresh"}) ELSE intents
    /\ obs' = [obs EXCEPT !.local = local']
    /\ UNCHANGED <<github, track, objects, worktree, run, push, ticks, tracked, history>>
    /\ EndTick

(* Patches of the branch outside the base that the push policy denies; a   *)
(* later patch may undo the change.                                        *)
PushRefused(base) ==
    "undo" \notin Patches(local) /\ Patches(local \ track[base]) \cap Protected # {}

(* pushBranch: plain, or leased on the last pushed tip when cc restacked a *)
(* branch that no longer descends from it.                                 *)
PushBranch(s) ==
    IF ~s.restacked \/ s.push.tip = {} \/ Ancestor(s.push.tip, local)
    THEN PushAccepted(local)
    ELSE LeaseHolds(s.push.tip)

(* A branch update as GitHub shows it on an open pull request. *)
Shown(request, tip) ==
    IF request.state = "open" /\ request.head # tip
    THEN [request EXCEPT !.head = tip, !.checks = {}]
    ELSE request

(* pushOne with the snapshot s. *)
PushOne(s) ==
    LET base == Unlock(obs).base
        row  == [tip |-> obs.local, base |-> base, baseSHA |-> track[base]]
        opened == [state |-> "open", head |-> local, base |-> base, checks |-> {}]
    IN  IF PushRefused(base)
        THEN Record("push_refused") /\ UNCHANGED <<remote, track, pr, used>>
        ELSE \/ /\ Fail \/ (~PushBranch(s) /\ UNCHANGED used)
                /\ Record("push_failed")
                /\ UNCHANGED <<remote, track, pr>>
             \/ /\ PushBranch(s)
                /\ remote' = [remote EXCEPT !.t = local]
                /\ track' = [track EXCEPT !.t = local]
                /\ IF obs.pr.state = "open"
                   THEN pr' = Shown(pr, local) /\ RecordPush(row) /\ UNCHANGED used
                   ELSE \/ pr.state # "open" /\ pr' = opened /\ RecordPush(row) /\ UNCHANGED used
                        \/ /\ Fail \/ (pr.state = "open" /\ UNCHANGED used)
                           /\ pr' = Shown(pr, local)
                           /\ Record("push_failed")

(* Snapshot.Push: unlocked, with a local tip. *)
CanPush == Unlock(obs).unlocked /\ obs.worktree

(* applyRetryPushIntents: no gate but CanPush, and the first snapshot. *)
RetryPush ==
    /\ phase = "retry"
    /\ IF Asks("retry-push") /\ CanPush
       THEN PushOne(snap)
       ELSE UNCHANGED <<remote, track, pr, push, log, ticks, used>>
    /\ intents' = intents \ (snap.intents \cap {"retry-push"})
    /\ phase' = "remove"
    /\ UNCHANGED <<blocker, objects, work, run, tracked, obs, snap, history>>

(* removalFor and removeWorktreeOne up to the call of tp: what the removal *)
(* may rest on.  tp itself refuses commits its remote-tracking ref lacks.  *)
RemovalRefused ==
    \/ HoldsWorktree(snap, obs)
    \/ obs.pr.state # "merged" /\ obs.blocker.state # "closed"

ProvenTips == {snap.push.tip} \cup (IF obs.pr.state = "merged" THEN {obs.pr.head} ELSE {})

(* Faulty variant of RemovalState: any branch without an origin ref.       *)
RemovalStateUnproven == IF track.t # {} THEN "removable_by_merged" ELSE "removable_by_force"

RemovalState ==
    IF track.t # {} THEN "removable_by_merged"
    ELSE IF local \in ProvenTips THEN "removable_by_force" ELSE "not_removable"

CheckRemoval ==
    /\ phase = "remove"
    /\ phase' = IF ~Asks("remove-worktree") \/ RemovalRefused THEN "push"
                ELSE IF ~obs.worktree THEN "close-issue"
                ELSE IF mid # NoMid THEN "push"
                ELSE IF RemovalState = "not_removable" THEN "push" ELSE RemovalState
    /\ intents' = IF phase' = "push" THEN intents \ (snap.intents \cap {"remove-worktree"}) ELSE intents
    /\ UNCHANGED <<github, track, objects, work, run, push, log, ticks, tracked, obs, snap, used, history>>

(* tp remove --merged, or tp remove --force. *)
RemoveWorktree ==
    /\ phase \in {"removable_by_merged", "removable_by_force"}
    /\ IF phase = "removable_by_merged" /\ ~Ancestor(local, track.t)
       THEN /\ phase' = "push"
            /\ intents' = intents \ (snap.intents \cap {"remove-worktree"})
            /\ UNCHANGED <<worktree, local>>
       ELSE phase' = "close-issue" /\ worktree' = "gone" /\ local' = {} /\ UNCHANGED intents
    /\ UNCHANGED <<github, track, objects, mid, run, push, log, ticks, tracked, obs, snap, used, history>>

(* CloseIssue, then WithdrawTicket. *)
Withdraw ==
    /\ phase = "close-issue"
    /\ \/ Fail /\ UNCHANGED tracked
       \/ tracked' = FALSE /\ UNCHANGED used
    /\ intents' = intents \ (snap.intents \cap {"remove-worktree"})
    /\ phase' = IF tracked' THEN "push" ELSE "idle"
    /\ UNCHANGED <<github, track, objects, work, run, push, log, ticks, obs, history>>
    /\ EndTick

(* Faulty variant of Pushable: a branch that was pushed before is not      *)
(* pushed again.                                                           *)
PushableOnce(s) ==
    /\ s.outcome = "push" /\ ~obs.alive /\ ~obs.spawned
    /\ s.pushFact = "none" /\ ~s.refresh.verificationFailed
    /\ CanPush
    /\ s.push = NoPush

Pushable(s) ==
    /\ s.outcome = "push" /\ ~obs.alive /\ ~obs.spawned
    /\ s.pushFact = "none" /\ ~s.refresh.verificationFailed
    /\ CanPush
    /\ s.push.tip # obs.local

(* The second derive and pushPushable.  A branch removed in this tick has  *)
(* no diff, and that error ends the tick.                                  *)
PushPushable ==
    /\ phase = "push"
    /\ \E s \in {Snapshot} :
          IF Pushable(s) /\ worktree = "present" THEN PushOne(s) ELSE UNCHANGED <<remote, track, pr, push, log, ticks, used>>
    /\ phase' = "idle"
    /\ UNCHANGED <<blocker, objects, work, run, intents, tracked, obs, history>>
    /\ EndTick

Tick ==
    \/ Fetch \/ Observe \/ FollowUpAndAbort \/ Retarget \/ Refresh \/ RetryPush
    \/ CheckRemoval \/ RemoveWorktree \/ Withdraw \/ PushPushable

-----------------------------------------------------------------------------
(* Everyone else. *)
Others == <<track, objects, push, log, ticks, tracked, tick>>

(* handleVerb: the state the page shows offers the verb. *)
Click(verb) ==
    /\ tracked
    /\ verb \in Verbs(Status(Snapshot, obs))
    /\ verb \notin intents
    /\ Spend(verb)
    /\ intents' = intents \cup {verb}
    /\ UNCHANGED <<github, work, run, Others, history>>

MainMoves ==
    /\ Spend("main")
    /\ \E patch \in MainPatches : remote' = [remote EXCEPT !.main = @ \cup {<<patch, 0>>}]
    /\ UNCHANGED <<blocker, pr, work, run, intents, Others, history>>

BlockerMoves ==
    /\ blocker.state = "open"
    /\ Spend("blocker")
    /\ \E patch \in BlockerPatches : remote' = [remote EXCEPT !.b = @ \cup {<<patch, 0>>}]
    /\ blocker' = [blocker EXCEPT !.head = remote'.b]
    /\ UNCHANGED <<pr, work, run, intents, Others, history>>

SquashInto(main, tip) == main \cup {<<p, Squashed>> : p \in Patches(tip) \ Patches(main)}

(* GitHub deletes the branch of a merged pull request. *)
BlockerMerges ==
    /\ blocker.state = "open"
    /\ blocker' = [blocker EXCEPT !.state = "merged"]
    /\ remote' = [remote EXCEPT !.main = SquashInto(@, remote.b), !.b = {}]
    /\ UNCHANGED <<pr, work, run, intents, used, Others, history>>

BlockerCloses ==
    /\ blocker.state = "open"
    /\ blocker' = [blocker EXCEPT !.state = "closed"]
    /\ UNCHANGED <<remote, pr, work, run, intents, used, Others, history>>

TicketMerges ==
    /\ pr.state = "open" /\ pr.base = "main"
    /\ pr' = [pr EXCEPT !.state = "merged"]
    /\ remote' = [remote EXCEPT !.main = SquashInto(@, remote.t), !.t = {}]
    /\ UNCHANGED <<blocker, work, run, intents, used, Others, history>>

ReviewerPushes ==
    /\ pr.state = "open"
    /\ Spend("review")
    /\ remote' = [remote EXCEPT !.t = @ \cup {<<"r1", 0>>}]
    /\ pr' = Shown(pr, remote'.t)
    /\ reviewed' = reviewed \cup {"r1"}
    /\ UNCHANGED <<blocker, work, run, intents, Others, greens>>

(* The check runs once per head, and again when someone asks for it.       *)
Check(started, status, conclusion) ==
    [name |-> "ci", started |-> started, status |-> status, conclusion |-> conclusion]

CiReruns ==
    /\ pr.state = "open" /\ Cardinality(pr.checks) = 1
    /\ Spend("rerun")
    /\ pr' = [pr EXCEPT !.checks = @ \cup {Check(2, "IN_PROGRESS", "")}]
    /\ UNCHANGED <<remote, blocker, work, run, intents, Others, history>>

CiReports(conclusion) ==
    /\ pr.state = "open"
    /\ \/ /\ pr.checks = {}
          /\ pr' = [pr EXCEPT !.checks = {Check(1, "COMPLETED", conclusion)}]
       \/ \E row \in pr.checks :
             /\ ~Completed(row)
             /\ pr' = [pr EXCEPT !.checks = (@ \ {row}) \cup {Check(row.started, "COMPLETED", conclusion)}]
    /\ greens' = (greens \cap {push.tip}) \cup {h \in {pr.head} : conclusion = "SUCCESS"}
    /\ UNCHANGED <<remote, blocker, work, run, intents, used, Others, reviewed>>

AgentCommits ==
    /\ run.alive /\ worktree = "present" /\ mid = NoMid
    /\ Spend("work")
    /\ \E patch \in {"t2", "undo"} : local' = local \cup {<<patch, 0>>}
    /\ UNCHANGED <<github, worktree, mid, run, intents, Others, history>>

AgentEnds(asked) ==
    /\ run.alive
    /\ run' = [run EXCEPT !.alive = FALSE, !.asked = asked]
    /\ UNCHANGED <<github, work, intents, used, Others, history>>

OwnerResolves ==
    /\ mid # NoMid
    /\ local' = mid.result
    /\ mid' = NoMid
    /\ UNCHANGED <<github, worktree, run, intents, used, Others, history>>

(* The others move when the tick can tell: GitHub also between the fetch   *)
(* and the reading of pull requests and before a push or a removal, agents *)
(* before a push or a removal.  Any other order of their moves and the     *)
(* tick's steps gives the same states at these points.                     *)
Acting == {"retry", "removable_by_merged", "removable_by_force", "push"}

World ==
    /\ tracked
    /\ \/ /\ phase = "idle"
          /\ \/ \E verb \in {"follow-up", "retry-push", "refresh", "abort", "remove-worktree"} : Click(verb)
             \/ \E conclusion \in {"SUCCESS", "FAILURE"} : CiReports(conclusion)
             \/ CiReruns
             \/ MainMoves
             \/ BlockerCloses
       \/ phase \in {"idle", "observe"} /\ (BlockerMoves \/ BlockerMerges)
       \/ phase \in {"idle", "observe"} \cup Acting /\ (TicketMerges \/ ReviewerPushes)
       \/ phase \in {"idle"} \cup Acting /\ (AgentCommits \/ \E asked \in BOOLEAN : AgentEnds(asked))
       \/ OwnerResolves

NoPR == [state |-> "absent", head |-> {}, base |-> "", checks |-> {}]

(* The ticket was cut on the blocker's branch; its run ended with commits. *)
Init ==
    LET main == {<<"m0", 0>>}
        b    == main \cup {<<"b1", 0>>}
    IN  /\ remote = [main |-> main, b |-> b, t |-> {}]
        /\ track = remote /\ objects = b
        /\ blocker = [state |-> "open", head |-> b]
        /\ pr = NoPR
        /\ \E patch \in {"t1"} \cup Protected : local = b \cup {<<patch, 0>>}
        /\ worktree = "present" /\ mid = NoMid
        /\ run = [alive |-> FALSE, outcome |-> "push", baseline |-> b, asked |-> FALSE]
        /\ push = NoPush /\ log = <<>> /\ ticks = 0 /\ intents = {} /\ tracked = TRUE
        /\ phase = "idle"
        /\ obs = [tips |-> remote, blocker |-> blocker, pr |-> Decode(pr), worktree |-> TRUE, local |-> local,
                  mid |-> FALSE, alive |-> FALSE, conflictsWithMain |-> FALSE,
                  spawned |-> FALSE, aborted |-> FALSE]
        /\ snap = NoSnapshot
        /\ used = {}
        /\ greens = {} /\ reviewed = {}

Next == Tick \/ World

Spec == Init /\ [][Next]_vars
FairSpec == Spec /\ WF_vars(Tick)

-----------------------------------------------------------------------------
State == Status(Snapshot, obs)

Phases == {"idle", "observe", "verbs", "retarget", "refresh", "retry", "remove",
           "removable_by_merged", "removable_by_force", "close-issue", "push"}

(* The states a row of this ticket may show. *)
RowStates ==
    {"queued", "running", "failed", "awaiting_input", "push_pending", "checking", "needs_you",
     "push_failed", "review_me", "merged", "base_gone", "base_moved", "ci_failed",
     "refresh_conflicted", "conflicts_with_main", "verification_failed"}

(* A push row is whole, and whatever the tick read, the row has a state.   *)
RowsWhole ==
    /\ phase \in Phases
    /\ push.base \in {"", "main", "b"} /\ (push.tip = {} <=> push = NoPush)
    /\ State \in RowStates

(* Types: rows are whole, a commit of the branch was fetched or made here, *)
(* and the events kept for one row do not pile up tick after tick.         *)
TypeOK ==
    /\ RowsWhole
    /\ local \subseteq objects \cup (Patches(local) \X (0..2))
    /\ Len(log) <= 5

(* What a reviewer pushed to the ticket's branch is never lost: no forced  *)
(* push of a restacked branch overwrites it (pushBranch, PushRestacked).   *)
ReviewerWorkKept == reviewed \subseteq Patches(remote.t) \cup Patches(remote.main)

OthersPatches == {"m0", "b1"} \cup MainPatches \cup BlockerPatches

(* Carrying the branch forward, restacking it past a squashed base and     *)
(* aborting keep every patch of the branch outside its bases (advanceOnto).*)
OwnWorkKept ==
    [][worktree' = "present" => Patches(local) \ OthersPatches \subseteq Patches(local')]_vars

(* A row that asks for review has green checks on the very tip cc pushed,  *)
(* never on an earlier head (ApplyVerdict, Evaluate).                      *)
GreenMeansThisHead == State = "review_me" => push.tip \in greens

OnMergedBase == blocker.state = "merged" /\ pr.state = "open" /\ pr.base = "b" /\ push # NoPush

(* A pull request whose base merged ends up on main (Retargets), unless    *)
(* its agent waits for an answer, the request itself is done or a tool     *)
(* failed: a failed edit is not made up for when the same tick refreshes   *)
(* and pushes the branch, for the new row says main.                       *)
MergedBaseIsLeft ==
    OnMergedBase ~> (~OnMergedBase \/ run.outcome = "asked" \/ ~tracked \/ "fail" \in used)

(* Work of a finished run never sits unpushed in a state that claims to    *)
(* need nobody (Pushable, stateInfo's unattended states).                  *)
Unshipped ==
    /\ tracked /\ run.outcome = "push" /\ local # remote.t
    /\ State \in {"push_pending", "checking", "base_moved"}
WorkShips == Unshipped ~> ~Unshipped

(* A moved base is answered: the branch is carried forward and pushed, or  *)
(* the row says what stopped it; only an aborted conflict waits for the    *)
(* next move of either side (autoRefreshable).                             *)
BaseMoveUnanswered == tracked /\ State = "base_moved" /\ ~RefreshFacts.conflicted
BaseMoveIsAnswered == BaseMoveUnanswered ~> ~BaseMoveUnanswered

(* Removing a worktree loses no commit that is nowhere else, short of one  *)
(* made after the observation (removeWorktreeOne, RemovalStateFor).        *)
RemovalLosesNothing ==
    [][worktree = "present" /\ worktree' = "gone" /\ local = obs.local =>
         Patches(local) \subseteq Patches(remote.t) \cup Patches(remote.main)]_vars
=============================================================================
