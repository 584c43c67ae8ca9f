---------------------------- MODULE IntakeProofs ----------------------------
(***************************************************************************)
(* What Intake promises of repositories, tickets and the saved             *)
(* observation, for any repositories, issues, features, branches, clashes  *)
(* and bounds.  Each invariant is strengthened by what the steps before it *)
(* rely on: a settings refusal was vetted as well, the fresh observation   *)
(* is as true as the saved one, and a queued edit blocks no ticket by      *)
(* itself.                                                                 *)
(***************************************************************************)
EXTENDS Intake, SequenceTheorems, TLAPS

RepoRow ==
    [phase  : {"untracked", "cloning", "ready", "refused"},
     kind   : {"none", "merge_settings", "default_branch", "clone", "settings_parse"},
     remote : BOOLEAN]

TicketRow ==
    [feature : Features \cup {"none"}, branch : Branches, blockedBy : SUBSET Urls, withdrawn : BOOLEAN]

Issue == [labels : SUBSET Features, open : BOOLEAN, blockedBy : SUBSET Urls]

(* What HandleTicket may queue: no ticket is to wait for itself. *)
Edit ==
    {e \in [url : Urls, branch : Branches, blockedBy : SUBSET Urls] : e.url \notin e.blockedBy}

(* Vetting: a repository that is ready, or only refused for its settings   *)
(* file, passed RepoRefusal since it was last tracked.                     *)
VettedInv ==
    /\ repos \in [Repos -> RepoRow]
    /\ \A r \in Repos : repos[r].phase = "ready" \/ repos[r].kind = "settings_parse" => r \in vetted

(* Tables and queues hold what their columns allow. *)
TablesInv ==
    /\ issues \in [Urls -> Issue]
    /\ tickets \in [Urls -> TicketRow]

QueueInv ==
    /\ DOMAIN intents = Verbs
    /\ intents["track"] \in Seq(Repos)
    /\ intents["import"] \in Seq(Features)
    /\ intents["edit"] \in Seq(Edit)

(* A step has no more to do than its queue holds. *)
PhaseInv ==
    /\ phase \in Phases
    /\ left \in Nat
    /\ phase \in Verbs => left <= Len(intents[phase])

(* A conflict recorded in o is the one of the tips recorded in o. *)
FreshPeers(o) ==
    \A p \in o.peers : \E a, b \in Refs :
       p.pair = {a, b} /\ p.clash = Clashes(a, o.tips[a], b, o.tips[b])

(* What an observation says of merges and conflicts is so. *)
ObservedInv ==
    /\ saved.merged \subseteq merged /\ obs.merged \subseteq merged
    /\ FreshPeers(saved) /\ FreshPeers(obs)

-----------------------------------------------------------------------------
(* Repositories.                                                           *)

(* The rows the steps of tracking write. *)
LEMMA RepoRows ==
    ASSUME NEW repo \in RepoRow
    PROVE  /\ Ready(repo) \in RepoRow /\ Ready(repo).kind = "none"
           /\ Cloning(repo) \in RepoRow /\ Cloning(repo).kind = "none" /\ Cloning(repo).phase = "cloning"
           /\ \A kind \in {"merge_settings", "default_branch", "clone", "settings_parse"} :
                 /\ Refuse(repo, kind) \in RepoRow
                 /\ Refuse(repo, kind).kind = kind /\ Refuse(repo, kind).phase = "refused"
  BY DEF Ready, Cloning, Refuse, RepoRow

(* NextRepoStatus lifts no refusal but that for the settings file. *)
LEMMA NextRepoStatusVetted ==
    ASSUME NEW repo \in RepoRow, NEW settings
    PROVE  /\ NextRepoStatus(repo, settings) \in RepoRow
           /\ \/ NextRepoStatus(repo, settings).phase = "ready"
              \/ NextRepoStatus(repo, settings).kind = "settings_parse"
              => repo.phase = "ready" \/ repo.kind = "settings_parse"
<1>1. \/ NextRepoStatus(repo, settings) = repo
      \/ /\ repo.phase \notin {"untracked", "cloning"}
         /\ repo.phase = "refused" => repo.kind = "settings_parse"
         /\ NextRepoStatus(repo, settings) \in {Ready(repo), Refuse(repo, "settings_parse")}
  BY DEF NextRepoStatus
<1>2. repo.phase \in {"untracked", "cloning", "ready", "refused"}
  BY DEF RepoRow
<1> QED
  BY <1>1, <1>2, RepoRows

(* The repositories of Known are tracked and vetted at the start. *)
LEMMA VettedInit == Init => VettedInv
<1> SUFFICES ASSUME Init PROVE VettedInv
  OBVIOUS
<1>1. NoRepo \in RepoRow /\ NoRepo.kind = "none" /\ NoRepo.phase = "untracked"
  BY DEF NoRepo, RepoRow
<1>2. Ready(Cloning(NoRepo)) \in RepoRow /\ Ready(Cloning(NoRepo)).kind = "none"
  BY <1>1, RepoRows
<1>3. repos = [r \in Repos |-> IF r \in Known THEN Ready(Cloning(NoRepo)) ELSE NoRepo] /\ vetted = Known
  BY DEF Init
<1> QED
  BY <1>1, <1>2, <1>3 DEF VettedInv

(* A Track click takes the repository back to being cloned or refuses it. *)
LEMMA VettedTrack ==
    ASSUME VettedInv, ApplyTrackIntent, Head(intents["track"]) \in Repos
    PROVE  VettedInv'
<1> DEFINE r == Head(intents["track"])
<1>1. repos[r] \in RepoRow
  BY DEF VettedInv
<1>2. CASE UNCHANGED <<repos, vetted>>
  BY <1>2 DEF VettedInv
<1>3. ASSUME NEW repo \in RepoRow, Upserted(r, repo), repo.phase # "ready", repo.kind # "settings_parse"
      PROVE  VettedInv'
  BY <1>3 DEF VettedInv, Upserted
<1>4. UNCHANGED <<repos, vetted>> \/ Upserted(r, Cloning(repos[r])) \/ Upserted(r, Refuse(repos[r], "clone"))
  BY DEF ApplyTrackIntent
<1> QED
  BY <1>1, <1>2, <1>3, <1>4, RepoRows

(* A repository leaves cloning vetted, or refused for another reason. *)
LEMMA VettedValidate ==
    ASSUME VettedInv, NEW r \in Repos, ValidateRepo(r)
    PROVE  VettedInv'
<1>1. RepoRefusal(github[r].policy) \in {"none", "merge_settings", "default_branch"}
  BY DEF RepoRefusal
<1>2. repos[r] \in RepoRow
  BY DEF VettedInv
<1>3. \/ UNCHANGED <<repos, vetted>>
      \/ \E kind \in {"merge_settings", "default_branch", "clone"} :
            repos' = [repos EXCEPT ![r] = Refuse(repos[r], kind)] /\ UNCHANGED vetted
      \/ /\ \E repo \in {Refuse(repos[r], "settings_parse"), Ready(repos[r])} :
               repos' = [repos EXCEPT ![r] = repo]
         /\ vetted' = vetted \cup {r}
  BY <1>1 DEF ValidateRepo
<1> QED
  BY <1>2, <1>3, RepoRows DEF VettedInv

(* Every step of the tick and of the world keeps vetting. *)
LEMMA VettedStep == VettedInv /\ QueueInv /\ PhaseInv /\ [Next]_vars => VettedInv'
<1> SUFFICES ASSUME VettedInv, QueueInv, PhaseInv, [Next]_vars PROVE VettedInv'
  OBVIOUS
<1>1. CASE ApplyTrackIntent
  <2>1. intents["track"] # <<>>
    BY <1>1 DEF ApplyTrackIntent, Take, PhaseInv, Verbs
  <2>2. Head(intents["track"]) \in Repos
    BY <2>1, HeadTailProperties DEF QueueInv
  <2> QED
    BY <1>1, <2>2, VettedTrack
<1>2. ASSUME NEW r \in Repos, ValidateRepo(r)
      PROVE  VettedInv'
  BY <1>2, VettedValidate
<1>3. CASE RecordRepoStates
  <2>1. repos' = [r \in Repos |-> NextRepoStatus(repos[r], obs.settings[r])] /\ UNCHANGED vetted
    BY <1>3 DEF RecordRepoStates
  <2>2. \A r \in Repos : repos[r] \in RepoRow
    BY DEF VettedInv
  <2> QED
    BY <2>1, <2>2, NextRepoStatusVetted DEF VettedInv
<1>4. CASE UNCHANGED <<repos, vetted>>
  BY <1>4 DEF VettedInv
<1> QED
  BY <1>1, <1>2, <1>3, <1>4
  DEF Next, Tick, Outside, StepDone, ImportFeature, ApplyEditTicketIntent, Observe, SaveObservation, EndTick,
      FailTick, ChangeGithub, ChangeIssue, ChangeBranch, HandleTrack, HandleTicket, HandleImportFeature,
      QueueEditTicketIntent, Queue, CutWorktree, RemoveTicket, vars, store

-----------------------------------------------------------------------------
(* Queues and phases.                                                      *)

(* The queues are empty and the tick at its first step. *)
LEMMA QueueInit == Init => QueueInv /\ PhaseInv
  BY EmptySeq DEF Init, QueueInv, PhaseInv, Verbs, Phases

(* A click is queued behind the others. *)
LEMMA QueueGrows ==
    ASSUME QueueInv, PhaseInv, NEW verb \in Verbs, NEW intent, Queue(verb, intent),
           verb = "track" => intent \in Repos,
           verb = "import" => intent \in Features,
           verb = "edit" => intent \in Edit
    PROVE  QueueInv' /\ PhaseInv'
<1>1. intents' = [intents EXCEPT ![verb] = Append(@, intent)] /\ UNCHANGED <<phase, left>>
  BY DEF Queue, tick
<1>2. \A S : \A s \in Seq(S) : intent \in S => Append(s, intent) \in Seq(S) /\ Len(Append(s, intent)) = Len(s) + 1
  BY AppendProperties
<1>3. QueueInv'
  BY <1>1, <1>2 DEF QueueInv, Verbs
<1>4. \A v \in Verbs : Len(intents[v]) \in Nat /\ Len(intents'[v]) \in Nat /\ Len(intents[v]) <= Len(intents'[v])
  <2>1. \A v \in Verbs : Len(intents[v]) \in Nat /\ Len(intents'[v]) \in Nat
    BY <1>3, LenProperties DEF QueueInv, Verbs
  <2>2. Len(Append(intents[verb], intent)) = Len(intents[verb]) + 1
    BY <1>2 DEF QueueInv, Verbs
  <2> QED
    BY <1>1, <2>1, <2>2 DEF QueueInv
<1>5. PhaseInv'
  BY <1>1, <1>4 DEF PhaseInv
<1> QED
  BY <1>3, <1>5

(* A step answers the first request of its queue. *)
LEMMA QueueShrinks ==
    ASSUME QueueInv, PhaseInv, NEW verb \in Verbs, Take(verb), Consume(verb), UNCHANGED phase
    PROVE  QueueInv' /\ PhaseInv'
<1>1. phase = verb /\ left > 0 /\ left <= Len(intents[verb]) /\ left \in Nat
  BY DEF Take, PhaseInv
<1>2. intents' = [intents EXCEPT ![verb] = Tail(@)] /\ left' = left - 1
  BY DEF Consume
<1>3. intents[verb] # <<>>
  BY <1>1
<1>4. \A S : \A s \in Seq(S) : s # <<>> => Tail(s) \in Seq(S) /\ Len(Tail(s)) = Len(s) - 1 /\ Len(s) \in Nat
  BY HeadTailProperties, LenProperties
<1>5. QueueInv'
  BY <1>2, <1>3, <1>4 DEF QueueInv, Verbs
<1>6. Len(intents'[verb]) = Len(intents[verb]) - 1 /\ Len(intents[verb]) \in Nat
  BY <1>2, <1>3, <1>4 DEF QueueInv, Verbs
<1>7. PhaseInv'
  BY <1>1, <1>2, <1>6 DEF PhaseInv
<1> QED
  BY <1>5, <1>7

(* A step starts with what its queue holds. *)
LEMMA GotoPhase ==
    ASSUME QueueInv, NEW p \in Phases, Goto(p), UNCHANGED intents
    PROVE  QueueInv' /\ PhaseInv'
<1>1. \A v \in Verbs : Len(intents[v]) \in Nat
  BY LenProperties DEF QueueInv, Verbs
<1>2. phase' = p /\ left' = IF p \in Verbs THEN Len(intents[p]) ELSE 0
  BY DEF Goto
<1> QED
  BY <1>1, <1>2 DEF QueueInv, PhaseInv

(* What the handlers queue is well formed, and a step reads no further     *)
(* than its queue.                                                         *)
LEMMA QueueStep == TablesInv /\ QueueInv /\ PhaseInv /\ [Next]_vars => QueueInv' /\ PhaseInv'
<1> SUFFICES ASSUME TablesInv, QueueInv, PhaseInv, [Next]_vars PROVE QueueInv' /\ PhaseInv'
  OBVIOUS
<1>1. ASSUME NEW r \in Repos, HandleTrack(r)
      PROVE  QueueInv' /\ PhaseInv'
  BY <1>1, QueueGrows DEF HandleTrack, Verbs
<1>2. ASSUME NEW f \in Features, HandleImportFeature(f)
      PROVE  QueueInv' /\ PhaseInv'
  BY <1>2, QueueGrows DEF HandleImportFeature, Verbs
<1>3. ASSUME NEW t \in Urls, HandleTicket(t)
      PROVE  QueueInv' /\ PhaseInv'
  <2>1. PICK branch \in {tickets[t].branch, Spare}, blockedBy \in {{b} : b \in Urls \ {t}} \cup {{}} :
           QueueEditTicketIntent(t, branch, blockedBy)
    BY <1>3 DEF HandleTicket
  <2>2. branch \in Branches
    BY DEF TablesInv, TicketRow, Branches
  <2>3. blockedBy \in SUBSET Urls /\ t \notin blockedBy
    OBVIOUS
  <2>4. [url |-> t, branch |-> branch, blockedBy |-> blockedBy] \in Edit
    BY <2>2, <2>3 DEF Edit
  <2> QED
    BY <2>1, <2>4, QueueGrows DEF QueueEditTicketIntent, Verbs
<1>4. CASE ApplyTrackIntent
  BY <1>4, QueueShrinks DEF ApplyTrackIntent, Verbs
<1>5. CASE ImportFeature
  BY <1>5, QueueShrinks DEF ImportFeature, Answer, Verbs
<1>6. CASE ApplyEditTicketIntent
  BY <1>6, QueueShrinks DEF ApplyEditTicketIntent, Answer, Verbs
<1>7. CASE StepDone
  <2>1. NextPhase[phase] \in Phases
    BY <1>7 DEF StepDone, NextPhase, Phases
  <2> QED
    BY <1>7, <2>1, GotoPhase DEF StepDone, store
<1>8. CASE FailTick \/ Observe \/ RecordRepoStates \/ SaveObservation \/ EndTick
  BY <1>8, GotoPhase DEF FailTick, Observe, RecordRepoStates, SaveObservation, EndTick, store, Phases
<1>9. CASE UNCHANGED <<intents, phase, left>>
  BY <1>9 DEF QueueInv, PhaseInv
<1> QED
  BY <1>1, <1>2, <1>3, <1>4, <1>5, <1>6, <1>7, <1>8, <1>9
  DEF Next, Tick, Outside, ValidateRepo, ChangeGithub, ChangeIssue, ChangeBranch, CutWorktree, RemoveTicket,
      vars, store, tick

-----------------------------------------------------------------------------
(* Tickets: what the store's operations write, row by row.                 *)

(* RepairBlockedBy only takes blockers from active tickets. *)
LEMMA RepairRow ==
    ASSUME NEW ts \in [Urls -> TicketRow], NEW gone, NEW t \in Urls
    PROVE  LET row == RepairBlockedBy(ts, gone)[t]
           IN /\ row \in TicketRow
              /\ row.feature = ts[t].feature /\ row.branch = ts[t].branch /\ row.withdrawn = ts[t].withdrawn
              /\ row.blockedBy \subseteq ts[t].blockedBy
<1>1. \/ RepairBlockedBy(ts, gone)[t] = ts[t]
      \/ RepairBlockedBy(ts, gone)[t] = [ts[t] EXCEPT !.blockedBy = @ \ gone]
  BY DEF RepairBlockedBy
<1>2. ts[t] \in TicketRow
  OBVIOUS
<1> QED
  BY <1>1, <1>2 DEF TicketRow

(* An import gives what it found the feature, and a new ticket its blockers. *)
LEMMA UpsertRow ==
    ASSUME TablesInv, NEW f \in Features, NEW found, NEW t \in Urls
    PROVE  LET row == Upsert(f, found)[t]
           IN /\ row \in TicketRow
              /\ t \notin found => row = tickets[t]
              /\ t \in found => row.feature = f
<1>1. tickets[t] \in TicketRow /\ issues[t] \in Issue
  BY DEF TablesInv
<1>2. OpenBlockers(t) \subseteq Urls
  BY <1>1 DEF OpenBlockers, Issue
<1>3. CASE t \notin found
  BY <1>1, <1>3 DEF Upsert
<1>4. CASE t \in found /\ HasRow(tickets, t)
  <2>1. Upsert(f, found)[t] = [tickets[t] EXCEPT !.feature = f, !.withdrawn = FALSE]
    BY <1>4 DEF Upsert
  <2> QED
    BY <1>1, <1>4, <2>1 DEF TicketRow
<1>5. CASE t \in found /\ ~HasRow(tickets, t)
  <2>1. Upsert(f, found)[t] = [feature |-> f, branch |-> t, blockedBy |-> OpenBlockers(t), withdrawn |-> FALSE]
    BY <1>5 DEF Upsert
  <2> QED
    BY <1>2, <1>5, <2>1 DEF TicketRow, Branches
<1> QED
  BY <1>3, <1>4, <1>5

(* Dropping what the tracker no longer lists withdraws tickets and takes   *)
(* blockers; it gives none.                                                *)
LEMMA DroppedRow ==
    ASSUME NEW f, NEW found, NEW ts \in [Urls -> TicketRow], NEW t \in Urls
    PROVE  LET row == WithoutDropped(f, found, ts)[t]
           IN /\ row \in TicketRow
              /\ row.feature = ts[t].feature /\ row.branch = ts[t].branch
              /\ ts[t].withdrawn => row.withdrawn
              /\ row.blockedBy \subseteq ts[t].blockedBy
<1> DEFINE kept == [u \in Urls |-> [ts[u] EXCEPT !.withdrawn = @ \/ u \in InFeature(ts, f) \ found]]
           gone == {u \in Urls : kept[u].withdrawn /\ IsMerged(kept, u)}
<1>1. \A u \in Urls : /\ kept[u] \in TicketRow
                      /\ kept[u].feature = ts[u].feature /\ kept[u].branch = ts[u].branch
                      /\ kept[u].blockedBy = ts[u].blockedBy
                      /\ ts[u].withdrawn => kept[u].withdrawn
  <2> TAKE u \in Urls
  <2>1. ts[u] \in TicketRow
    OBVIOUS
  <2>2. kept[u] = [ts[u] EXCEPT !.withdrawn = @ \/ u \in InFeature(ts, f) \ found]
    OBVIOUS
  <2> HIDE DEF kept
  <2> QED
    BY <2>1, <2>2 DEF TicketRow
<1>2. kept \in [Urls -> TicketRow]
  BY <1>1
<1>3. WithoutDropped(f, found, ts) = RepairBlockedBy(kept, gone)
  BY DEF WithoutDropped
<1> HIDE DEF kept, gone
<1> QED
  BY <1>1, <1>2, <1>3, RepairRow

(* An edit writes the branch and the blockers of its ticket. *)
LEMMA EditRow ==
    ASSUME NEW ts \in [Urls -> TicketRow], NEW e \in Edit
    PROVE  LET edited == [ts EXCEPT ![e.url].branch = e.branch, ![e.url].blockedBy = e.blockedBy]
           IN /\ edited \in [Urls -> TicketRow]
              /\ \A t \in Urls : t # e.url => edited[t] = ts[t]
              /\ edited[e.url].feature = ts[e.url].feature /\ edited[e.url].withdrawn = ts[e.url].withdrawn
              /\ edited[e.url].blockedBy = e.blockedBy
<1>1. e.url \in Urls /\ e.branch \in Branches /\ e.blockedBy \in SUBSET Urls /\ ts[e.url] \in TicketRow
  BY DEF Edit
<1> QED
  BY <1>1 DEF TicketRow

(* Withdrawing a ticket makes none active, and gives no blocker. *)
LEMMA WithdrawRow ==
    ASSUME TablesInv, NEW u \in Urls, NEW isMerged, NEW t \in Urls
    PROVE  LET row == WithdrawTicket(u, isMerged)[t]
           IN /\ row \in TicketRow
              /\ row.feature = tickets[t].feature /\ row.branch = tickets[t].branch
              /\ tickets[t].withdrawn => row.withdrawn
              /\ row.blockedBy \subseteq tickets[t].blockedBy
<1> DEFINE ts == [tickets EXCEPT ![u].withdrawn = TRUE]
<1>1. ts \in [Urls -> TicketRow]
  <2>1. tickets[u] \in TicketRow
    BY DEF TablesInv
  <2>2. [tickets[u] EXCEPT !.withdrawn = TRUE] \in TicketRow
    BY <2>1 DEF TicketRow
  <2> QED
    BY <2>2 DEF TablesInv
<1>2. /\ ts[t].feature = tickets[t].feature /\ ts[t].branch = tickets[t].branch
      /\ tickets[t].withdrawn => ts[t].withdrawn
      /\ ts[t].blockedBy = tickets[t].blockedBy
  BY DEF TablesInv, TicketRow
<1>3. WithdrawTicket(u, isMerged) \in {ts, RepairBlockedBy(ts, {u})}
  BY DEF WithdrawTicket
<1> HIDE DEF ts
<1> QED
  BY <1>1, <1>2, <1>3, RepairRow

(* At the start the issues of the tracked repositories are imported. *)
LEMMA TablesInit == Init => TablesInv
<1> SUFFICES ASSUME Init PROVE TablesInv
  OBVIOUS
<1>1. issues \in [Urls -> Issue]
  BY IntakeAssumption DEF Init, Issue
<1>2. NoTicket \in TicketRow
  BY DEF NoTicket, TicketRow, Branches
<1>3. ASSUME NEW t \in Here
      PROVE  [feature |-> CHOOSE f \in Issues[t].labels : TRUE, branch |-> t,
              blockedBy |-> Issues[t].blockedBy, withdrawn |-> FALSE] \in TicketRow
  <2>1. t \in Urls /\ Issues[t].labels \subseteq Features /\ Issues[t].labels # {} /\ Issues[t].blockedBy \subseteq Urls
    BY IntakeAssumption DEF Here
  <2>2. (CHOOSE f \in Issues[t].labels : TRUE) \in Features
    BY <2>1
  <2> QED
    BY <2>1, <2>2 DEF TicketRow, Branches
<1>4. tickets = [t \in Urls |->
          IF t \notin Here THEN NoTicket
          ELSE [feature |-> CHOOSE f \in Issues[t].labels : TRUE, branch |-> t,
                blockedBy |-> Issues[t].blockedBy, withdrawn |-> FALSE]]
  BY DEF Init
<1>5. tickets \in [Urls -> TicketRow]
  BY <1>2, <1>3, <1>4
<1> QED
  BY <1>1, <1>5 DEF TablesInv

(* What an import leaves in the table, when it does not refuse. *)
LEMMA ImportLeaves ==
    ASSUME TablesInv, NEW f \in Features
    PROVE  LET found == Tickets(f)
               ts    == Upsert(f, found)
           IN /\ ts \in [Urls -> TicketRow]
              /\ ImportTickets(f).tickets \in [Urls -> TicketRow]
              /\ \/ ImportTickets(f).tickets = tickets
                 \/ /\ ClosedUnderBlockedBy(f, found, ts)
                    /\ ImportTickets(f).tickets = WithoutDropped(f, found, ts)
<1> DEFINE found == Tickets(f)
           ts    == Upsert(f, found)
<1>1. ts \in [Urls -> TicketRow]
  <2>1. \A t \in Urls : ts[t] \in TicketRow
    BY UpsertRow
  <2>2. ts = [t \in Urls |-> ts[t]]
    BY DEF Upsert
  <2> QED
    BY <2>1, <2>2
<1>2. WithoutDropped(f, found, ts) \in [Urls -> TicketRow]
  <2>1. \A t \in Urls : WithoutDropped(f, found, ts)[t] \in TicketRow
    BY <1>1, DroppedRow
  <2>2. WithoutDropped(f, found, ts) = [t \in Urls |-> WithoutDropped(f, found, ts)[t]]
    BY DEF WithoutDropped, RepairBlockedBy
  <2> QED
    BY <2>1, <2>2
<1>3. \/ ImportTickets(f).tickets = tickets
      \/ /\ ClosedUnderBlockedBy(f, found, ts)
         /\ ImportTickets(f).tickets = WithoutDropped(f, found, ts)
  BY DEF ImportTickets
<1> QED
  BY <1>1, <1>2, <1>3 DEF TablesInv

(* A step of the tick that imports or edits finds a well formed request. *)
LEMMA HeadOfQueue ==
    ASSUME QueueInv, PhaseInv
    PROVE  /\ Take("import") => Head(intents["import"]) \in Features
           /\ Take("edit") => Head(intents["edit"]) \in Edit
<1>1. \A v \in {"import", "edit"} : Take(v) => intents[v] # <<>>
  BY DEF Take, PhaseInv, Verbs
<1> QED
  BY <1>1, HeadTailProperties DEF QueueInv

(* The tables stay well formed. *)
LEMMA TablesStep == TablesInv /\ QueueInv /\ PhaseInv /\ [Next]_vars => TablesInv'
<1> SUFFICES ASSUME TablesInv, QueueInv, PhaseInv, [Next]_vars PROVE TablesInv'
  OBVIOUS
<1>1. CASE ImportFeature
  <2> DEFINE f == Head(intents["import"])
  <2>1. f \in Features /\ tickets' = ImportTickets(f).tickets /\ UNCHANGED issues
    BY <1>1, HeadOfQueue DEF ImportFeature, Answer, world
  <2> QED
    BY <2>1, ImportLeaves DEF TablesInv
<1>2. CASE ApplyEditTicketIntent
  <2> DEFINE e == Head(intents["edit"])
             edited == [tickets EXCEPT ![e.url].branch = e.branch, ![e.url].blockedBy = e.blockedBy]
  <2>1. e \in Edit /\ tickets' = EditTicket(e).tickets /\ UNCHANGED issues
    BY <1>2, HeadOfQueue DEF ApplyEditTicketIntent, Answer, world
  <2>2. EditTicket(e).tickets \in {tickets, edited}
    BY DEF EditTicket
  <2>3. edited \in [Urls -> TicketRow]
    BY <2>1, EditRow DEF TablesInv
  <2> QED
    BY <2>1, <2>2, <2>3 DEF TablesInv
<1>3. ASSUME NEW t \in Urls, RemoveTicket(t)
      PROVE  TablesInv'
  <2> DEFINE isMerged == RefOf(tickets, t) \in obs.merged
  <2>1. tickets' = WithdrawTicket(t, isMerged) /\ issues' = [issues EXCEPT ![t].open = FALSE]
    BY <1>3 DEF RemoveTicket
  <2> HIDE DEF isMerged
  <2>2. \A u \in Urls : WithdrawTicket(t, isMerged)[u] \in TicketRow
    BY WithdrawRow
  <2>3. WithdrawTicket(t, isMerged) = [u \in Urls |-> WithdrawTicket(t, isMerged)[u]]
    BY DEF WithdrawTicket, RepairBlockedBy, TablesInv
  <2>4. [issues[t] EXCEPT !.open = FALSE] \in Issue
    <3>1. issues[t] \in Issue
      BY DEF TablesInv
    <3> QED
      BY <3>1 DEF Issue
  <2> QED
    BY <2>1, <2>2, <2>3, <2>4 DEF TablesInv
<1>4. ASSUME NEW t \in Urls, ChangeIssue(t)
      PROVE  TablesInv'
  <2>1. issues[t] \in Issue /\ UNCHANGED tickets
    BY <1>4 DEF TablesInv, ChangeIssue, store
  <2>2. PICK issue \in Issue : issues' = [issues EXCEPT ![t] = issue]
    <3>1. ASSUME NEW f \in Features,
                 issues' = [issues EXCEPT ![t].labels = IF f \in @ THEN @ \ {f} ELSE @ \cup {f}]
          PROVE  \E issue \in Issue : issues' = [issues EXCEPT ![t] = issue]
      BY <2>1, <3>1 DEF Issue
    <3>2. ASSUME NEW b \in Urls, issues' = [issues EXCEPT ![t].blockedBy = @ \cup {b}]
          PROVE  \E issue \in Issue : issues' = [issues EXCEPT ![t] = issue]
      BY <2>1, <3>2 DEF Issue
    <3>3. ASSUME issues' = [issues EXCEPT ![t].open = FALSE]
          PROVE  \E issue \in Issue : issues' = [issues EXCEPT ![t] = issue]
      BY <2>1, <3>3 DEF Issue
    <3> QED
      BY <1>4, <3>1, <3>2, <3>3 DEF ChangeIssue
  <2> QED
    BY <2>1, <2>2 DEF TablesInv
<1>5. CASE UNCHANGED <<issues, tickets>>
  BY <1>5 DEF TablesInv
<1> QED
  BY <1>1, <1>2, <1>3, <1>4, <1>5
  DEF Next, Tick, Outside, StepDone, ApplyTrackIntent, ValidateRepo, Observe, RecordRepoStates, SaveObservation,
      EndTick, FailTick, ChangeGithub, ChangeBranch, HandleTrack, HandleTicket, HandleImportFeature,
      QueueEditTicketIntent, Queue, CutWorktree, vars, store, world

-----------------------------------------------------------------------------
(* The observation.                                                        *)

(* The refs of a repository's tickets are refs of that repository. *)
LEMMA BranchRefs ==
    ASSUME TablesInv, NEW r \in Repos, NEW ref \in BranchesFor(r)
    PROVE  ref \in Refs /\ ref[1] = r
<1>1. PICK t \in Urls : HomeOf[t] = r /\ ref = <<HomeOf[t], tickets[t].branch>>
  BY DEF BranchesFor, Active, RefOf
<1>2. tickets[t].branch \in Branches
  BY DEF TablesInv, TicketRow
<1> QED
  BY <1>1, <1>2 DEF Refs

(* Two branches clash whichever is named first. *)
LEMMA ClashesSymmetric ==
    ASSUME NEW a, NEW b, NEW c, NEW d, NEW tip, {a, b} = {c, d}
    PROVE  Clashes(a, tip[a], b, tip[b]) = Clashes(c, tip[c], d, tip[d])
<1>1. (a = c /\ b = d) \/ (a = d /\ b = c)
  OBVIOUS
<1>2. {<<a, tip[a]>>, <<b, tip[b]>>} = {<<c, tip[c]>>, <<d, tip[d]>>}
  BY <1>1
<1> QED
  BY <1>2 DEF Clashes

(* Every conflict of o is between branches of r, and that of o's tips. *)
FreshIn(o, r) ==
    \A p \in o.peers : \E a, b \in Refs :
       a[1] = r /\ b[1] = r /\ p.pair = {a, b} /\ p.clash = Clashes(a, o.tips[a], b, o.tips[b])

(* The cache answers only for the tips it was read at. *)
LEMMA RecordPeerFresh ==
    ASSUME FreshPeers(saved), NEW a, NEW b, NEW p \in RecordPeerConflict(a, b)
    PROVE  p.pair = {a, b} /\ p.clash = Clashes(a, tips[a], b, tips[b])
<1>1. CASE p \in CachedPeerConflict(a, b)
  <2>1. saved.tips[a] = tips[a] /\ saved.tips[b] = tips[b] /\ p \in saved.peers /\ p.pair = {a, b}
    BY <1>1 DEF CachedPeerConflict
  <2>2. PICK c, d \in Refs : p.pair = {c, d} /\ p.clash = Clashes(c, saved.tips[c], d, saved.tips[d])
    BY <2>1 DEF FreshPeers
  <2>3. Clashes(a, saved.tips[a], b, saved.tips[b]) = Clashes(c, saved.tips[c], d, saved.tips[d])
    BY <2>1, <2>2, ClashesSymmetric
  <2> QED
    BY <2>1, <2>2, <2>3
<1>2. CASE p \notin CachedPeerConflict(a, b)
  <2>1. p = Peer(a, b, Clashes(a, tips[a], b, tips[b]))
    BY <1>2 DEF RecordPeerConflict
  <2> QED
    BY <2>1 DEF Peer
<1> QED
  BY <1>1, <1>2

(* A repository that was read: its conflicts are those of its tips. *)
LEMMA ObserveRepoFresh ==
    ASSUME TablesInv, ObservedInv, NEW r \in Repos
    PROVE  FreshIn(ObserveRepo(r), r) /\ ObserveRepo(r).merged \subseteq merged
<1>1. ObserveRepo(r).merged \subseteq merged
  BY DEF ObserveRepo
<1>2. ASSUME NEW p \in ObserveRepo(r).peers
      PROVE  \E a, b \in Refs :
                /\ a[1] = r /\ b[1] = r /\ p.pair = {a, b}
                /\ p.clash = Clashes(a, ObserveRepo(r).tips[a], b, ObserveRepo(r).tips[b])
  <2>1. p \in PeerConflicts(r)
    BY <1>2 DEF ObserveRepo
  <2>2. PICK a \in BranchesFor(r), b \in BranchesFor(r) : p \in RecordPeerConflict(a, b)
    BY <2>1 DEF PeerConflicts
  <2>3. a \in Refs /\ b \in Refs /\ a[1] = r /\ b[1] = r
    BY BranchRefs
  <2>4. ObserveRepo(r).tips[a] = tips[a] /\ ObserveRepo(r).tips[b] = tips[b]
    BY <2>3 DEF ObserveRepo
  <2>5. p.pair = {a, b} /\ p.clash = Clashes(a, tips[a], b, tips[b])
    BY <2>2, RecordPeerFresh DEF ObservedInv
  <2> QED
    BY <2>3, <2>4, <2>5
<1> QED
  BY <1>1, <1>2 DEF FreshIn

(* A repository that could not be read keeps conflicts and tips together. *)
LEMMA CarryForwardFresh ==
    ASSUME ObservedInv, NEW r \in Repos
    PROVE  FreshIn(CarryForward(r), r) /\ CarryForward(r).merged \subseteq merged
<1>1. CarryForward(r).merged \subseteq merged
  BY DEF CarryForward, InRepo, ObservedInv
<1>2. ASSUME NEW p \in CarryForward(r).peers
      PROVE  \E a, b \in Refs :
                /\ a[1] = r /\ b[1] = r /\ p.pair = {a, b}
                /\ p.clash = Clashes(a, CarryForward(r).tips[a], b, CarryForward(r).tips[b])
  <2>1. p \in saved.peers /\ \A ref \in p.pair : ref[1] = r
    BY <1>2 DEF CarryForward
  <2>2. PICK a, b \in Refs : p.pair = {a, b} /\ p.clash = Clashes(a, saved.tips[a], b, saved.tips[b])
    BY <2>1 DEF ObservedInv, FreshPeers
  <2>3. a[1] = r /\ b[1] = r
    BY <2>1, <2>2
  <2>4. CarryForward(r).tips[a] = saved.tips[a] /\ CarryForward(r).tips[b] = saved.tips[b]
    BY <2>3 DEF CarryForward
  <2> QED
    BY <2>2, <2>3, <2>4
<1> QED
  BY <1>1, <1>2 DEF FreshIn

(* Put together, the conflicts of each repository stay those of its tips. *)
LEMMA MergeFresh ==
    ASSUME NEW R \in SUBSET Repos, NEW part, DOMAIN part = R, NEW failed,
           \A r \in R : FreshIn(part[r], r) /\ part[r].merged \subseteq merged
    PROVE  /\ FreshPeers(MergeObservation(part, failed))
           /\ MergeObservation(part, failed).merged \subseteq merged
<1> DEFINE o == MergeObservation(part, failed)
<1>1. o.merged \subseteq merged
  BY DEF MergeObservation
<1>2. ASSUME NEW p \in o.peers
      PROVE  \E a, b \in Refs : p.pair = {a, b} /\ p.clash = Clashes(a, o.tips[a], b, o.tips[b])
  <2>1. PICK r \in R : p \in part[r].peers
    BY <1>2 DEF MergeObservation
  <2>2. PICK a, b \in Refs : /\ a[1] = r /\ b[1] = r /\ p.pair = {a, b}
                             /\ p.clash = Clashes(a, part[r].tips[a], b, part[r].tips[b])
    BY <2>1 DEF FreshIn
  <2>3. o.tips[a] = part[r].tips[a] /\ o.tips[b] = part[r].tips[b]
    BY <2>2 DEF MergeObservation
  <2> QED
    BY <2>2, <2>3
<1> QED
  BY <1>1, <1>2 DEF FreshPeers

(* An empty observation claims nothing. *)
LEMMA NoObservationFresh == FreshPeers(NoObservation) /\ NoObservation.merged = {}
  BY DEF FreshPeers, NoObservation

(* What is saved at the start is what was pushed. *)
LEMMA ObservedInit == Init => ObservedInv
<1> SUFFICES ASSUME Init PROVE ObservedInv
  OBVIOUS
<1>1. obs = NoObservation /\ saved.merged = {}
  BY DEF Init, NoObservation
<1>2. ASSUME NEW p \in saved.peers
      PROVE  \E a, b \in Refs : p.pair = {a, b} /\ p.clash = Clashes(a, saved.tips[a], b, saved.tips[b])
  <2>1. saved.tips = tips /\ tips = [ref \in Refs |-> IF ref \in Pushed THEN 1 ELSE 0]
    BY DEF Init, NoObservation
  <2>2. PICK q \in Pushed \X Pushed : p = Peer(q[1], q[2], Clashes(q[1], 1, q[2], 1))
    BY <1>2 DEF Init, NoObservation
  <2>3. Pushed \subseteq Refs
    BY IntakeAssumption DEF Pushed, Here, Refs, Branches
  <2>4. q[1] \in Refs /\ q[2] \in Refs /\ saved.tips[q[1]] = 1 /\ saved.tips[q[2]] = 1
    BY <2>1, <2>3
  <2>5. p.pair = {q[1], q[2]} /\ p.clash = Clashes(q[1], 1, q[2], 1)
    BY <2>2 DEF Peer
  <2> QED
    BY <2>4, <2>5
<1> QED
  BY <1>1, <1>2, NoObservationFresh DEF ObservedInv, FreshPeers

(* Merges are never undone, and a tick saves what it observed. *)
LEMMA ObservedStep == TablesInv /\ ObservedInv /\ [Next]_vars => ObservedInv'
<1> SUFFICES ASSUME TablesInv, ObservedInv, [Next]_vars PROVE ObservedInv'
  OBVIOUS
<1>1. CASE Observe
  <2>1. PICK failed \in SUBSET ObservableRepos :
           obs' = MergeObservation([r \in ObservableRepos |->
                                      IF r \in failed THEN CarryForward(r) ELSE ObserveRepo(r)], failed)
    BY <1>1 DEF Observe
  <2> DEFINE part == [r \in ObservableRepos |-> IF r \in failed THEN CarryForward(r) ELSE ObserveRepo(r)]
  <2>2. ObservableRepos \in SUBSET Repos
    BY DEF ObservableRepos
  <2>3. \A r \in ObservableRepos : part[r] \in {CarryForward(r), ObserveRepo(r)}
    OBVIOUS
  <2>4. \A r \in ObservableRepos : FreshIn(part[r], r) /\ part[r].merged \subseteq merged
    BY <2>2, <2>3, ObserveRepoFresh, CarryForwardFresh
  <2>5. DOMAIN part = ObservableRepos
    OBVIOUS
  <2>6. UNCHANGED <<saved, merged>>
    BY <1>1 DEF Observe, world, store
  <2>7. FreshPeers(obs') /\ obs'.merged \subseteq merged
    <3> HIDE DEF part
    <3> QED
      BY <2>1, <2>2, <2>4, <2>5, MergeFresh DEF part
  <2> QED
    BY <2>6, <2>7 DEF ObservedInv, FreshPeers
<1>2. CASE saved' \in {saved, obs} /\ obs' \in {obs, NoObservation} /\ merged \subseteq merged'
  BY <1>2, NoObservationFresh DEF ObservedInv, FreshPeers
<1> QED
  BY <1>1, <1>2
  DEF Next, Tick, Outside, StepDone, ApplyTrackIntent, ValidateRepo, ImportFeature, ApplyEditTicketIntent,
      RecordRepoStates, SaveObservation, EndTick, FailTick, ChangeGithub, ChangeIssue, ChangeBranch, HandleTrack,
      HandleTicket, HandleImportFeature, QueueEditTicketIntent, Queue, CutWorktree, RemoveTicket, vars, store,
      world, tick

-----------------------------------------------------------------------------
(* The feature closure.                                                    *)

(* What ClosureKept says of one step. *)
KeepsClosure ==
    \A t \in Active(tickets') :
       LET same == t \in Active(tickets) /\ tickets[t].feature = tickets'[t].feature
           new  == tickets'[t].blockedBy \ (IF same THEN tickets[t].blockedBy ELSE {})
       IN \A b \in new :
            /\ HasRow(tickets', b)
            /\ \/ tickets'[b].feature = tickets'[t].feature
               \/ RefOf(tickets', b) \in merged

(* A step that makes no ticket active, moves none to another feature and   *)
(* gives none a blocker keeps the closure.                                 *)
LEMMA NoNewBlocker ==
    ASSUME \A t \in Active(tickets') :
              /\ t \in Active(tickets) /\ tickets'[t].feature = tickets[t].feature
              /\ tickets'[t].blockedBy \subseteq tickets[t].blockedBy
    PROVE  KeepsClosure
  BY DEF KeepsClosure

(* An import checks every blocker of what it found before it writes it. *)
LEMMA ImportKeepsClosure ==
    ASSUME TablesInv, ObservedInv, NEW f \in Features, tickets' = ImportTickets(f).tickets
    PROVE  KeepsClosure
<1> DEFINE found == Tickets(f)
           ts    == Upsert(f, found)
<1>1. CASE tickets' = tickets
  BY <1>1, NoNewBlocker
<1>2. CASE ClosedUnderBlockedBy(f, found, ts) /\ tickets' = WithoutDropped(f, found, ts)
  <2>1. ts \in [Urls -> TicketRow]
    BY ImportLeaves
  <2>2. \A t \in Urls :
           /\ tickets'[t].feature = ts[t].feature /\ tickets'[t].branch = ts[t].branch
           /\ ts[t].withdrawn => tickets'[t].withdrawn
           /\ tickets'[t].blockedBy \subseteq ts[t].blockedBy
    BY <1>2, <2>1, DroppedRow
  <2>3. \A t \in Urls : /\ t \notin found => ts[t] = tickets[t]
                        /\ t \in found => ts[t].feature = f
    BY UpsertRow
  <2>4. \A t \in Urls : ts[t].blockedBy \subseteq Urls
    BY <2>1 DEF TicketRow
  <2> HIDE DEF found, ts
  <2> SUFFICES ASSUME NEW t \in Active(tickets'),
                      NEW b \in tickets'[t].blockedBy,
                      ~(/\ t \in Active(tickets) /\ tickets[t].feature = tickets'[t].feature
                        /\ b \in tickets[t].blockedBy)
               PROVE  /\ HasRow(tickets', b)
                      /\ \/ tickets'[b].feature = tickets'[t].feature
                         \/ RefOf(tickets', b) \in merged
    BY DEF KeepsClosure
  <2>5. t \in Urls /\ b \in ts[t].blockedBy /\ b \in Urls
    BY <2>2, <2>4 DEF Active
  <2>6. t \in found
    BY <2>2, <2>3, <2>5 DEF Active, HasRow
  <2>7. ts[b].feature = f \/ IsMerged(ts, b)
    BY <1>2, <2>5, <2>6 DEF ClosedUnderBlockedBy
  <2>8. f # "none"
    BY IntakeAssumption
  <2> QED
    BY <2>2, <2>3, <2>5, <2>6, <2>7, <2>8 DEF IsMerged, HasRow, RefOf, ObservedInv
<1> QED
  BY <1>1, <1>2, ImportLeaves

(* An edit of an active ticket checks the blockers it writes. *)
LEMMA EditKeepsClosure ==
    ASSUME TablesInv, ObservedInv, NEW e \in Edit, tickets' = EditTicket(e).tickets
    PROVE  KeepsClosure
<1> DEFINE t  == e.url
           ts == [tickets EXCEPT ![t].branch = e.branch, ![t].blockedBy = e.blockedBy]
           intended == [tickets EXCEPT ![t].blockedBy = e.blockedBy]
           f  == tickets[t].feature
<1>1. CASE tickets' = tickets
  BY <1>1, NoNewBlocker
<1>2. CASE /\ tickets' = ts
           /\ t \in Active(tickets) => ClosedUnderBlockedBy(f, InFeature(tickets, f), intended)
  <2>1. /\ \A u \in Urls : u # t => tickets'[u] = tickets[u]
        /\ tickets'[t].feature = f /\ tickets'[t].withdrawn = tickets[t].withdrawn
        /\ tickets'[t].blockedBy = e.blockedBy
    <3>1. tickets \in [Urls -> TicketRow]
      BY DEF TablesInv
    <3>2. /\ \A u \in Urls : u # t => ts[u] = tickets[u]
          /\ ts[t].feature = f /\ ts[t].withdrawn = tickets[t].withdrawn
          /\ ts[t].blockedBy = e.blockedBy
      <4>1. t \in Urls
        BY DEF Edit
      <4>2. tickets[t] \in TicketRow
        BY <3>1, <4>1
      <4>3. /\ \A u \in Urls : u # t => ts[u] = tickets[u]
            /\ ts[t] = [tickets[t] EXCEPT !.branch = e.branch, !.blockedBy = e.blockedBy]
        BY <3>1, <4>1
      <4> HIDE DEF ts, t
      <4> QED
        BY <4>2, <4>3 DEF f, TicketRow
    <3> QED
      BY <1>2, <3>2
  <2>2. t \in Urls /\ t \notin e.blockedBy /\ e.blockedBy \subseteq Urls
    BY DEF Edit
  <2>3. /\ intended[t].blockedBy = e.blockedBy
        /\ \A u \in Urls : u # t => intended[u] = tickets[u]
    BY <2>2 DEF TablesInv, TicketRow
  <2> HIDE DEF ts, intended
  <2> SUFFICES ASSUME NEW u \in Active(tickets'),
                      NEW b \in tickets'[u].blockedBy,
                      ~(/\ u \in Active(tickets) /\ tickets[u].feature = tickets'[u].feature
                        /\ b \in tickets[u].blockedBy)
               PROVE  /\ HasRow(tickets', b)
                      /\ \/ tickets'[b].feature = tickets'[u].feature
                         \/ RefOf(tickets', b) \in merged
    BY DEF KeepsClosure
  <2>4. u = t /\ t \in Active(tickets)
    BY <2>1, <2>2 DEF Active, HasRow
  <2>5. b \in e.blockedBy /\ b \in Urls /\ b # t
    BY <2>1, <2>2, <2>4
  <2>6. t \in InFeature(tickets, f) /\ f # "none"
    BY <2>4 DEF InFeature, Active, HasRow
  <2>7. intended[b].feature = f \/ IsMerged(intended, b)
    BY <1>2, <2>3, <2>4, <2>5, <2>6 DEF ClosedUnderBlockedBy
  <2>8. intended[b] = tickets'[b]
    BY <2>1, <2>3, <2>5
  <2> QED
    BY <2>1, <2>4, <2>6, <2>7, <2>8 DEF IsMerged, HasRow, RefOf, ObservedInv
<1> QED
  BY <1>1, <1>2 DEF EditTicket

(* No step gives a ticket a blocker that was not checked. *)
LEMMA ClosureStep == TablesInv /\ QueueInv /\ PhaseInv /\ ObservedInv /\ [Next]_vars => KeepsClosure
<1> SUFFICES ASSUME TablesInv, QueueInv, PhaseInv, ObservedInv, [Next]_vars PROVE KeepsClosure
  OBVIOUS
<1>1. CASE ImportFeature
  BY <1>1, HeadOfQueue, ImportKeepsClosure DEF ImportFeature, Answer
<1>2. CASE ApplyEditTicketIntent
  BY <1>2, HeadOfQueue, EditKeepsClosure DEF ApplyEditTicketIntent, Answer
<1>3. ASSUME NEW t \in Urls, RemoveTicket(t)
      PROVE  KeepsClosure
  <2> DEFINE isMerged == RefOf(tickets, t) \in obs.merged
  <2>1. tickets' = WithdrawTicket(t, isMerged)
    BY <1>3 DEF RemoveTicket
  <2> HIDE DEF isMerged
  <2>2. \A u \in Urls : /\ tickets'[u].feature = tickets[u].feature
                        /\ tickets[u].withdrawn => tickets'[u].withdrawn
                        /\ tickets'[u].blockedBy \subseteq tickets[u].blockedBy
    BY <2>1, WithdrawRow
  <2> QED
    BY <2>2, NoNewBlocker DEF Active, HasRow
<1>4. CASE UNCHANGED tickets
  BY <1>4, NoNewBlocker
<1> QED
  BY <1>1, <1>2, <1>3, <1>4
  DEF Next, Tick, Outside, StepDone, ApplyTrackIntent, ValidateRepo, Observe, RecordRepoStates, SaveObservation,
      EndTick, FailTick, ChangeGithub, ChangeIssue, ChangeBranch, HandleTrack, HandleTicket, HandleImportFeature,
      QueueEditTicketIntent, Queue, CutWorktree, vars, store

-----------------------------------------------------------------------------
(* What the specification promises.                                        *)

(* The inductive invariant. *)
IntakeInv == TablesInv /\ QueueInv /\ PhaseInv /\ VettedInv /\ ObservedInv

(* IntakeInv holds in every state: the argument behind the theorems. *)
LEMMA IntakeInvariant == Spec => []IntakeInv
<1>1. Init => IntakeInv
  BY TablesInit, QueueInit, VettedInit, ObservedInit DEF IntakeInv
<1>2. IntakeInv /\ [Next]_vars => IntakeInv'
  BY TablesStep, QueueStep, VettedStep, ObservedStep DEF IntakeInv
<1> QED
  BY <1>1, <1>2, PTL DEF Spec

(* A ready repository passed GitHub's checks since it was last tracked,    *)
(* whatever refused it and lifted the refusal since (NextRepoStatus).      *)
THEOREM OnlyVettedReposReady == Spec => []ReadyWasVetted
<1>1. IntakeInv => ReadyWasVetted
  BY DEF IntakeInv, VettedInv, ReadyWasVetted
<1> QED
  BY <1>1, IntakeInvariant, PTL

(* A saved conflict between two branches is that of the tips saved with    *)
(* it, through CachedPeerConflict and CarryForward.                        *)
THEOREM SavedConflictsFresh == Spec => []PeerConflictsFresh
<1>1. IntakeInv => PeerConflictsFresh
  BY DEF IntakeInv, ObservedInv, FreshPeers, PeerConflictsFresh
<1> QED
  BY <1>1, IntakeInvariant, PTL

(* Imports and edits give an active ticket only blockers that are known    *)
(* and of its feature or merged (ClosedUnderBlockedBy).                    *)
THEOREM ImportsKeepClosure == Spec => ClosureKept
<1>1. IntakeInv /\ [Next]_vars => [KeepsClosure]_vars
  BY ClosureStep DEF IntakeInv
<1>2. Spec => [][KeepsClosure]_vars
  BY <1>1, IntakeInvariant, PTL DEF Spec
<1> QED
  BY <1>2 DEF ClosureKept, KeepsClosure
=============================================================================
