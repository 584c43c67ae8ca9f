------------------------------- MODULE Intake -------------------------------
(***************************************************************************)
(* What the daemon works on: the repositories it tracks, the tickets it    *)
(* imports from their trackers, and what a tick observes of them.  A tick  *)
(* applies the Track clicks, vets the repositories being cloned, applies   *)
(* the imports and the edits, observes, records repository states, saves   *)
(* the observation and acts.  Web handlers, GitHub and the trackers work   *)
(* between any two of these steps, and any read of a tick may fail.        *)
(*                                                                         *)
(* A ref <<repo, branch>> is a BranchRef; the tip of a branch is a number, *)
(* 0 when the branch is not on origin.                                     *)
(***************************************************************************)
EXTENDS Naturals, Sequences, FiniteSets

CONSTANTS
    Repos, Features,
    Urls,       \* the issues
    HomeOf,     \* the repository of each issue
    Spare,      \* a branch name that no title gives
    Issues,     \* the issues at the start
    Known,      \* the repositories tracked at the start
    Clash,      \* the pairs {<<ref, tip>>, <<ref, tip>>} that do not merge
    MaxTip,     \* bound: pushes to a branch
    MaxEvents   \* bound: events (see used), of each kind at most one

\* An issue that was imported carries the label of its feature.
ASSUME IntakeAssumption ==
    /\ HomeOf \in [Urls -> Repos]
    /\ Issues \in [Urls -> [labels : SUBSET Features, open : BOOLEAN, blockedBy : SUBSET Urls]]
    /\ \A t \in Urls : HomeOf[t] \in Known => Issues[t].labels # {}
    /\ "none" \notin Features
    /\ {MaxTip, MaxEvents} \subseteq Nat

VARIABLES
    \* GitHub
    github,    \* per repository its merge policy and its settings file on main
    issues,    \* per issue its labels, whether it is open and what blocks it
    merged,    \* the refs whose pull request is merged
    tips,      \* the branches on origin
    \* the disk
    checkout,  \* the settings file as last fetched, "none" without a checkout
    trees,     \* the refs with a worktree
    \* Postgres
    repos, tickets, intents,
    refusals,  \* the features with an import_refused event
    saved,     \* the last observation
    \* the tick
    phase,
    left,      \* how many of the intents the step read are to do
    todo,      \* the repositories still to vet
    obs,       \* what this tick observed
    \* bookkeeping
    used,      \* the events so far: a change of GitHub (named by what it becomes), "label", "link",
               \* "close", "push", "merge", a click, "cut", "remove", "fail" (of a read or a step)
    vetted     \* history: repositories GitHub's settings were found good for since Track

world == <<github, issues, merged, tips>>
disk  == <<checkout, trees>>
store == <<repos, tickets, intents, refusals, saved>>
tick  == <<phase, left, todo, obs>>
vars  == <<world, disk, store, tick, used, vetted>>

(***************************************************************************)
(* Rows                                                                    *)
(***************************************************************************)
Branches == Urls \cup {Spare}
Refs     == Repos \X Branches

Policies == {"squash", "merges", "master"}  \* also rebase merges; a default branch other than main
Files    == {"good", "bad"}                  \* command-center.toml on main: reads or not (absent reads)
Verbs    == {"track", "import", "edit"}
Phases   == {"track", "validate", "import", "edit", "observe", "states", "save", "act"}

NoRepo   == [phase |-> "untracked", kind |-> "none", remote |-> FALSE]
NoTicket == [feature |-> "none", branch |-> Spare, blockedBy |-> {}, withdrawn |-> FALSE]

HasRow(ts, t)  == ts[t].feature # "none"
Active(ts)     == {t \in Urls : HasRow(ts, t) /\ ~ts[t].withdrawn}
InFeature(ts, f) == {t \in Active(ts) : ts[t].feature = f}
RefOf(ts, t)   == <<HomeOf[t], ts[t].branch>>

(***************************************************************************)
(* Tracking a repository                                                   *)
(***************************************************************************)
RepoRefusal(policy) ==
    CASE policy = "merges" -> "merge_settings"
      [] policy = "master" -> "default_branch"
      [] OTHER             -> "none"

Refuse(repo, kind) == [repo EXCEPT !.phase = "refused", !.kind = kind]

Cloning(repo) == [repo EXCEPT !.phase = "cloning", !.kind = "none", !.remote = TRUE]

Ready(repo) == [repo EXCEPT !.phase = "ready", !.kind = "none"]

\* Faulty variant of NextRepoStatus: any refusal is lifted by a clean settings file.
NextRepoStatusLenient(repo, settings) ==
    IF repo.phase \in {"untracked", "cloning"} THEN repo
    ELSE CASE settings = "bad" -> Refuse(repo, "settings_parse")
           [] settings = "good" /\ repo.phase = "refused" -> Ready(repo)
           [] OTHER -> repo

\* Faulty variant of NextRepoStatus: no refusal is lifted.
NextRepoStatusSticky(repo, settings) ==
    IF repo.phase = "ready" /\ settings = "bad" THEN Refuse(repo, "settings_parse") ELSE repo

NextRepoStatus(repo, settings) ==
    IF \/ repo.phase \in {"untracked", "cloning"}
       \/ repo.phase = "refused" /\ repo.kind # "settings_parse"
    THEN repo
    ELSE CASE settings = "bad" -> Refuse(repo, "settings_parse")
           [] settings = "good" /\ repo.phase = "refused" -> Ready(repo)
           [] OTHER -> repo

(***************************************************************************)
(* Importing a feature, and editing a ticket                               *)
(***************************************************************************)
\* The open issues with the label, in a ready repository whose remote is known.
Tickets(f) ==
    {t \in Urls : /\ repos[HomeOf[t]].phase = "ready" /\ repos[HomeOf[t]].remote
                  /\ issues[t].open /\ f \in issues[t].labels}

\* Closed blockers are left out of what the tracker reports.
OpenBlockers(t) == {b \in issues[t].blockedBy : issues[b].open}

IsMerged(ts, t) == HasRow(ts, t) /\ RefOf(ts, t) \in saved.merged

\* Faulty variant of ClosedUnderBlockedBy: a blocker that was never imported is let through.
ClosedUnderBlockedByKnown(f, some, ts) ==
    \A t \in some : \A b \in ts[t].blockedBy :
       ~HasRow(ts, b) \/ ts[b].feature = f \/ IsMerged(ts, b)

ClosedUnderBlockedBy(f, some, ts) ==
    \A t \in some : \A b \in ts[t].blockedBy : ts[b].feature = f \/ IsMerged(ts, b)

RepairBlockedBy(ts, gone) ==
    [t \in Urls |-> IF t \in Active(ts) THEN [ts[t] EXCEPT !.blockedBy = @ \ gone] ELSE ts[t]]

\* A known ticket keeps its branch and blockers; a withdrawn one is back.
Upsert(f, found) ==
    [t \in Urls |->
       IF t \notin found THEN tickets[t]
       ELSE IF HasRow(tickets, t) THEN [tickets[t] EXCEPT !.feature = f, !.withdrawn = FALSE]
       ELSE [feature |-> f, branch |-> t, blockedBy |-> OpenBlockers(t), withdrawn |-> FALSE]]

FeatureConflict(f, found) == \E t \in found \cap Active(tickets) : tickets[t].feature # f

WithoutDropped(f, found, ts) ==
    LET kept == [t \in Urls |-> [ts[t] EXCEPT !.withdrawn = @ \/ t \in InFeature(ts, f) \ found]]
        gone == {t \in Urls : kept[t].withdrawn /\ IsMerged(kept, t)}
    IN RepairBlockedBy(kept, gone)

\* What ImportTickets leaves in the table, or the reason it refuses.
ImportTickets(f) ==
    LET found == Tickets(f)
        ts    == Upsert(f, found)
    IN IF FeatureConflict(f, found) \/ ~ClosedUnderBlockedBy(f, found, ts)
       THEN [refused |-> TRUE, tickets |-> tickets]
       ELSE [refused |-> FALSE, tickets |-> WithoutDropped(f, found, ts)]

\* A ticket withdrawn since the click is edited unchecked.
EditTicket(e) ==
    LET t  == e.url
        ts == [tickets EXCEPT ![t].branch = e.branch, ![t].blockedBy = e.blockedBy]
        intended == [tickets EXCEPT ![t].blockedBy = e.blockedBy]
        f  == tickets[t].feature
    IN IF t \in Active(tickets) /\ ~ClosedUnderBlockedBy(f, InFeature(tickets, f), intended)
       THEN [refused |-> TRUE, tickets |-> tickets]
       ELSE [refused |-> FALSE, tickets |-> ts]

WithdrawTicket(t, isMerged) ==
    LET ts == [tickets EXCEPT ![t].withdrawn = TRUE]
    IN IF isMerged THEN RepairBlockedBy(ts, {t}) ELSE ts

(***************************************************************************)
(* The observation                                                         *)
(***************************************************************************)
NoObservation ==
    [settings |-> [r \in Repos |-> "none"], errors |-> {}, merged |-> {}, trees |-> {},
     tips |-> [ref \in Refs |-> 0], peers |-> {}]

ObservableRepos ==
    {r \in Repos : repos[r].phase \notin {"untracked", "cloning"} /\ checkout[r] # "none"}

BranchesFor(r) == {RefOf(tickets, t) : t \in {u \in Active(tickets) : HomeOf[u] = r}}

Clashes(a, i, b, j) == {<<a, i>>, <<b, j>>} \in Clash

Peer(a, b, clash) == [pair |-> {a, b}, clash |-> clash]

\* Faulty variant of CachedPeerConflict: one tip at which it was read is enough.
CachedPeerConflictHalf(a, b) ==
    IF saved.tips[a] # tips[a] /\ saved.tips[b] # tips[b] THEN {}
    ELSE {p \in saved.peers : p.pair = {a, b}}

CachedPeerConflict(a, b) ==
    IF saved.tips[a] # tips[a] \/ saved.tips[b] # tips[b] THEN {}
    ELSE {p \in saved.peers : p.pair = {a, b}}

RecordPeerConflict(a, b) ==
    LET cached == CachedPeerConflict(a, b)
    IN IF cached # {} THEN cached ELSE {Peer(a, b, Clashes(a, tips[a], b, tips[b]))}

PeerConflicts(r) ==
    LET here == {ref \in BranchesFor(r) : tips[ref] # 0}
    IN UNION {RecordPeerConflict(a, b) : a \in here, b \in here}

InRepo(refs, r) == {ref \in refs : ref[1] = r}

ObserveRepo(r) ==
    [settings |-> github[r].file,
     merged   |-> merged \cap BranchesFor(r),
     trees    |-> InRepo(trees, r),
     tips     |-> [ref \in Refs |-> IF ref \in BranchesFor(r) THEN tips[ref] ELSE 0],
     peers    |-> {p \in PeerConflicts(r) : Cardinality(p.pair) = 2}]

CarryForward(r) ==
    [settings |-> saved.settings[r],
     merged   |-> InRepo(saved.merged, r),
     trees    |-> InRepo(saved.trees, r),
     tips     |-> [ref \in Refs |-> IF ref[1] = r THEN saved.tips[ref] ELSE 0],
     peers    |-> {p \in saved.peers : \A ref \in p.pair : ref[1] = r}]

\* The reads of the repositories put together; one that failed keeps what was saved of it.
MergeObservation(part, failed) ==
    [settings |-> [r \in Repos |-> IF r \in DOMAIN part THEN part[r].settings ELSE "none"],
     errors   |-> failed,
     merged   |-> UNION {part[r].merged : r \in DOMAIN part},
     trees    |-> UNION {part[r].trees : r \in DOMAIN part},
     tips     |-> [ref \in Refs |-> IF ref[1] \in DOMAIN part THEN part[ref[1]].tips[ref] ELSE 0],
     peers    |-> UNION {part[r].peers : r \in DOMAIN part}]

SkippedRepos ==
    {r \in Repos : repos[r].phase # "ready"} \cup obs.errors
       \cup {r \in Repos : obs.settings[r] = "bad"}

(***************************************************************************)
(* At the start the repositories of Known are tracked, their issues        *)
(* imported, pushed and observed; the others are not tracked.              *)
(***************************************************************************)
Here == {t \in Urls : HomeOf[t] \in Known}

Pushed == {<<HomeOf[t], t>> : t \in Here}

Init ==
    /\ github = [r \in Repos |-> [policy |-> "squash", file |-> "good"]]
    /\ issues = Issues
    /\ repos = [r \in Repos |-> IF r \in Known THEN Ready(Cloning(NoRepo)) ELSE NoRepo]
    /\ checkout = [r \in Repos |-> IF r \in Known THEN "good" ELSE "none"]
    /\ tickets = [t \in Urls |->
          IF t \notin Here THEN NoTicket
          ELSE [feature |-> CHOOSE f \in Issues[t].labels : TRUE, branch |-> t,
                blockedBy |-> Issues[t].blockedBy, withdrawn |-> FALSE]]
    /\ tips = [ref \in Refs |-> IF ref \in Pushed THEN 1 ELSE 0]
    /\ saved = [NoObservation EXCEPT
          !.settings = checkout, !.tips = tips,
          !.peers = {Peer(p[1], p[2], Clashes(p[1], 1, p[2], 1)) :
                        p \in {q \in Pushed \X Pushed : q[1] # q[2] /\ q[1][1] = q[2][1]}}]
    /\ vetted = Known
    /\ merged = {} /\ trees = {} /\ refusals = {} /\ used = {}
    /\ intents = [v \in Verbs |-> <<>>]
    /\ phase = "track" /\ left = 0 /\ todo = {}
    /\ obs = NoObservation

(***************************************************************************)
(* Events outside the tick                                                 *)
(***************************************************************************)
Event(e) == e \notin used /\ Cardinality(used) < MaxEvents /\ used' = used \cup {e}

ChangeGithub(r) ==
    /\ \E policy \in Policies, file \in Files :
          /\ Event(IF policy = "squash" THEN file ELSE policy)
          /\ [policy |-> policy, file |-> file] # github[r]
          /\ policy # "squash" => file = "good"  \* bound: one thing wrong at a time
          /\ github' = [github EXCEPT ![r] = [policy |-> policy, file |-> file]]
    /\ UNCHANGED <<issues, merged, tips, disk, store, tick, vetted>>

ChangeIssue(t) ==
    /\ \/ /\ Event("label")
          /\ \E f \in Features : issues' = [issues EXCEPT ![t].labels =
                                               IF f \in @ THEN @ \ {f} ELSE @ \cup {f}]
       \/ /\ Event("link")
          /\ \E b \in Urls \ ({t} \cup issues[t].blockedBy) :
                issues' = [issues EXCEPT ![t].blockedBy = @ \cup {b}]
       \/ /\ Event("close")
          /\ issues' = [issues EXCEPT ![t].open = FALSE]
    /\ UNCHANGED <<github, merged, tips, disk, store, tick, vetted>>

\* A branch of a ticket gets a commit, or its pull request is merged.
ChangeBranch(t) ==
    /\ t \in Active(tickets)
    /\ LET ref == RefOf(tickets, t)
       IN \/ /\ Event("push") /\ tips[ref] < MaxTip
             /\ tips' = [tips EXCEPT ![ref] = @ + 1] /\ UNCHANGED merged
          \/ /\ Event("merge") /\ tips[ref] > 0 /\ ref \notin merged
             /\ merged' = merged \cup {ref} /\ UNCHANGED tips
    /\ UNCHANGED <<github, issues, disk, store, tick, vetted>>

Queue(verb, intent) ==
    /\ intents' = [intents EXCEPT ![verb] = Append(@, intent)]
    /\ UNCHANGED <<world, disk, repos, tickets, refusals, saved, tick, vetted>>

TrackPending(r) == \E i \in DOMAIN intents["track"] : intents["track"][i] = r

HandleTrack(r) == Event("track") /\ ~TrackPending(r) /\ Queue("track", r)

HandleImportFeature(f) == Event(f) /\ Queue("import", f)

QueueEditTicketIntent(t, branch, blockedBy) ==
    Queue("edit", [url |-> t, branch |-> branch, blockedBy |-> blockedBy])

\* Against the worktrees of the last observation, which may be out of date.
HandleTicket(t) ==
    /\ Event("edit")
    /\ t \in Active(tickets)
    /\ \E branch \in {tickets[t].branch, Spare}, blockedBy \in {{b} : b \in Urls \ {t}} \cup {{}} :
          /\ (branch = tickets[t].branch) # (blockedBy = tickets[t].blockedBy)
          /\ branch # tickets[t].branch => RefOf(tickets, t) \notin saved.trees
          /\ QueueEditTicketIntent(t, branch, blockedBy)

(***************************************************************************)
(* The tick                                                                *)
(***************************************************************************)
\* What a step has to do: the intents pending, or the repositories cloning, when it starts.
Goto(p) ==
    /\ phase' = p
    /\ left' = IF p \in Verbs THEN Len(intents[p]) ELSE 0
    /\ todo' = IF p = "validate" THEN {r \in Repos : repos[r].phase = "cloning"} ELSE {}

NextPhase == [track |-> "validate", validate |-> "import", import |-> "edit", edit |-> "observe"]

StepDone ==
    /\ phase \in DOMAIN NextPhase
    /\ left = 0 /\ todo = {}
    /\ Goto(NextPhase[phase])
    /\ UNCHANGED <<world, disk, store, obs, used, vetted>>

Consume(verb) ==
    /\ intents' = [intents EXCEPT ![verb] = Tail(@)]
    /\ left' = left - 1
    /\ UNCHANGED todo

Take(verb) == phase = verb /\ left > 0

Upserted(r, repo) == repos' = [repos EXCEPT ![r] = repo] /\ vetted' = vetted \ {r}

ApplyTrackIntent ==
    /\ Take("track")
    /\ LET r == Head(intents["track"]) IN
          \/ /\ repos[r].phase = "ready"
             /\ UNCHANGED <<repos, used, vetted>>
          \/ /\ repos[r].phase # "ready"
             /\ Upserted(r, Cloning(repos[r]))
             /\ UNCHANGED used
          \/ /\ repos[r].phase # "ready" /\ ~repos[r].remote
             /\ Event("fail")  \* the remote is not found out
             /\ Upserted(r, Refuse(repos[r], "clone"))
    /\ Consume("track")
    /\ UNCHANGED <<world, disk, tickets, refusals, saved, phase, obs>>

\* One repository being cloned: GitHub's settings, then the clone, then the settings file.
ValidateRepo(r) ==
    /\ phase = "validate" /\ r \in todo
    /\ todo' = todo \ {r}
    /\ LET refusal == RepoRefusal(github[r].policy) IN
          \/ /\ Event("fail")  \* GitHub does not answer: it stays cloning
             /\ UNCHANGED <<repos, checkout, vetted>>
          \/ /\ refusal # "none"
             /\ repos' = [repos EXCEPT ![r] = Refuse(@, refusal)]
             /\ UNCHANGED <<checkout, used, vetted>>
          \/ /\ refusal = "none"
             /\ Event("fail")  \* it cannot be cloned or fetched
             /\ repos' = [repos EXCEPT ![r] = Refuse(@, "clone")]
             /\ UNCHANGED <<checkout, vetted>>
          \/ /\ refusal = "none"
             /\ checkout' = [checkout EXCEPT ![r] = github[r].file]
             /\ repos' = [repos EXCEPT ![r] =
                             IF github[r].file = "bad" THEN Refuse(@, "settings_parse") ELSE Ready(@)]
             /\ vetted' = vetted \cup {r}
             /\ UNCHANGED used
    /\ UNCHANGED <<world, trees, tickets, intents, refusals, saved, phase, left, obs>>

\* A step that fails ends the tick; its intent stays pending.
FailTick ==
    /\ Event("fail")
    /\ \/ Take("import") /\ \E r \in Repos : repos[r].phase = "ready"
       \/ Take("edit")
       \/ phase \in {"states", "save", "act"}  \* or the daemon is restarted
    /\ Goto("track")
    /\ obs' = NoObservation
    /\ UNCHANGED <<world, disk, store, vetted>>

\* Faulty variant of Answer: a refused request stays pending.
AnswerUnlessRefused(verb, outcome, f) ==
    /\ tickets' = outcome.tickets
    /\ refusals' = IF outcome.refused THEN refusals \cup {f} ELSE refusals
    /\ IF outcome.refused THEN UNCHANGED intents /\ Goto("track")
                          ELSE Consume(verb) /\ UNCHANGED phase

Answer(verb, outcome, f) ==
    /\ tickets' = outcome.tickets
    /\ refusals' = IF outcome.refused THEN refusals \cup {f} ELSE refusals
    /\ Consume(verb)
    /\ UNCHANGED phase

ImportFeature ==
    /\ Take("import")
    /\ LET f == Head(intents["import"]) IN Answer("import", ImportTickets(f), f)
    /\ UNCHANGED <<world, disk, repos, saved, obs, used, vetted>>

ApplyEditTicketIntent ==
    /\ Take("edit")
    /\ LET e == Head(intents["edit"]) IN Answer("edit", EditTicket(e), tickets[e.url].feature)
    /\ UNCHANGED <<world, disk, repos, saved, obs, used, vetted>>

Observe ==
    /\ phase = "observe"
    /\ \E failed \in SUBSET ObservableRepos :
          /\ IF failed = {} THEN UNCHANGED used ELSE Event("fail") /\ Cardinality(failed) = 1
          /\ \E part \in {[r \in ObservableRepos |->
                            IF r \in failed THEN CarryForward(r) ELSE ObserveRepo(r)]} :
                obs' = MergeObservation(part, failed)
          /\ checkout' = [r \in Repos |-> IF r \in ObservableRepos \ failed
                                          THEN github[r].file ELSE checkout[r]]
    /\ Goto("states")
    /\ UNCHANGED <<world, trees, store, vetted>>

RecordRepoStates ==
    /\ phase = "states"
    /\ repos' = [r \in Repos |-> NextRepoStatus(repos[r], obs.settings[r])]
    /\ Goto("save")
    /\ UNCHANGED <<world, disk, tickets, intents, refusals, saved, obs, used, vetted>>

SaveObservation ==
    /\ phase = "save"
    /\ saved' = obs
    /\ Goto("act")
    /\ UNCHANGED <<world, disk, repos, tickets, intents, refusals, obs, used, vetted>>

Acts(t) == phase = "act" /\ t \in Active(tickets) /\ HomeOf[t] \notin SkippedRepos

\* A launch cuts the worktree.
CutWorktree(t) ==
    /\ Acts(t) /\ RefOf(tickets, t) \notin trees
    /\ Event("cut")
    /\ trees' = trees \cup {RefOf(tickets, t)}
    /\ UNCHANGED <<world, checkout, store, tick, vetted>>

\* The owner has the worktree removed: the issue is closed, then the ticket withdrawn.
RemoveTicket(t) ==
    /\ Acts(t) /\ RefOf(tickets, t) \in obs.trees
    /\ Event("remove")
    /\ trees' = trees \ {RefOf(tickets, t)}
    /\ issues' = [issues EXCEPT ![t].open = FALSE]
    /\ tickets' = WithdrawTicket(t, RefOf(tickets, t) \in obs.merged)
    /\ UNCHANGED <<github, merged, tips, checkout, repos, intents, refusals, saved, tick, vetted>>

EndTick ==
    /\ phase = "act"
    /\ Goto("track")
    /\ obs' = NoObservation
    /\ UNCHANGED <<world, disk, store, used, vetted>>

Tick ==
    \/ StepDone \/ ApplyTrackIntent \/ ImportFeature \/ ApplyEditTicketIntent
    \/ Observe \/ RecordRepoStates \/ SaveObservation \/ EndTick
    \/ \E r \in Repos : ValidateRepo(r)

Outside ==
    \/ FailTick
    \/ \E r \in Repos : ChangeGithub(r) \/ HandleTrack(r)
    \/ \E t \in Urls : \/ ChangeIssue(t) \/ ChangeBranch(t) \/ HandleTicket(t)
                       \/ CutWorktree(t) \/ RemoveTicket(t)
    \/ \E f \in Features : HandleImportFeature(f)

Next == Tick \/ Outside

Spec == Init /\ [][Next]_vars

(***************************************************************************)
(* The loop ticks for ever; nothing outside it has to happen.              *)
(***************************************************************************)
FairSpec == Spec /\ WF_vars(Tick)

(***************************************************************************)
(* Properties                                                              *)
(***************************************************************************)
\* An import or an edit never gives an active ticket a blocker that is unknown, or that is
\* unmerged and of another feature (ClosedUnderBlockedBy), whatever was withdrawn, relabelled
\* or edited since the click and however old the observation it is checked against.
ClosureKept ==
    [][\A t \in Active(tickets') :
         LET same == t \in Active(tickets) /\ tickets[t].feature = tickets'[t].feature
             new  == tickets'[t].blockedBy \ (IF same THEN tickets[t].blockedBy ELSE {})
         IN \A b \in new :
              /\ HasRow(tickets', b)
              /\ \/ tickets'[b].feature = tickets'[t].feature
                 \/ RefOf(tickets', b) \in merged]_vars

\* A ready repository passed RepoRefusal since it was last tracked: one refused for its merge
\* policy, its default branch or its clone is not let back in by a readable settings file.
ReadyWasVetted == \A r \in Repos : repos[r].phase = "ready" => r \in vetted

\* A saved verdict on whether two branches conflict is the one for the tips saved with it, through
\* the cache of the last observation and the facts carried forward for an unreadable repository.
PeerConflictsFresh ==
    \A p \in saved.peers : \E a, b \in Refs :
       p.pair = {a, b} /\ p.clash = Clashes(a, saved.tips[a], b, saved.tips[b])

\* When reads stop failing, a repository being cloned is vetted, and one refused for its settings
\* file is let back in once the file is mended.
ReposSettle ==
    /\ (\E r \in Repos : repos[r].phase = "cloning") ~> (\A r \in Repos : repos[r].phase # "cloning")
    /\ LET Mended(r) == repos[r].kind = "settings_parse" /\ github[r].file = "good"
       IN (\E r \in Repos : Mended(r)) ~> (\A r \in Repos : ~Mended(r))

\* When reads stop failing, every click is answered: no refused import or edit stays in the queue
\* and holds up the ones behind it.
RequestsAnswered == (\E v \in Verbs : intents[v] # <<>>) ~> (\A v \in Verbs : intents[v] = <<>>)
=============================================================================
