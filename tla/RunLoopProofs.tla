--------------------------- MODULE RunLoopProofs ---------------------------
(***************************************************************************)
(* RunLoop is type correct, for every set of tickets and every bound.      *)
(* TypeOK is inductive as it stands: beyond the types of the variables it  *)
(* says which table the list of each phase is about and that the spawn in  *)
(* progress names rows that exist, which is what the steps that follow an  *)
(* id into a table need.  One lemma per action; the Frame lemmas cover     *)
(* what an action leaves alone.                                            *)
(*                                                                         *)
(* The tick launches a ticket at most once.  LaunchOnce is not inductive:  *)
(* nothing in it says that the ticket being cut has no run.  LaunchInv, of *)
(* RunLoop, adds where the ticket came from: it is at the head of the list *)
(* PlanLaunches made of tickets without a run, and no other spawn runs     *)
(* meanwhile.                                                              *)
(*                                                                         *)
(* The loop implements Ledger: seen through Rows, every step of RunLoop    *)
(* leaves the runs table alone, opens one row, attaches a process to a     *)
(* reserved one or closes one.                                             *)
(***************************************************************************)
EXTENDS RunLoop, FiniteSetTheorems, WellFoundedInduction, SequenceTheorems, TLAPS

(* A non-empty set of naturals has a least element, and Min finds it. *)
LEMMA MinInSet ==
    ASSUME NEW S \in SUBSET Nat, S # {}
    PROVE  Min(S) \in S /\ \A y \in S : Min(S) <= y
<1> DEFINE R == {p \in Nat \X Nat : p[1] < p[2]}
<1>1. IsWellFoundedOn(R, Nat)
  BY NatLessThanWellFounded, Zenon DEF OpToRel
<1>2. \E x \in S : \A y \in S : ~(<<y, x>> \in R)
  <2> HIDE DEF R
  <2> QED BY <1>1, WFMin
<1>3. \A x, y \in Nat : y < x => <<y, x>> \in R
  OBVIOUS
<1>4. PICK x \in S : \A y \in S : ~(<<y, x>> \in R)
  BY <1>2
<1>5. ASSUME NEW y \in S, y < x
      PROVE  FALSE
  BY <1>3, <1>4, <1>5, Zenon
<1>6. \A y \in S : x <= y
  BY <1>5
<1> QED
  BY <1>6 DEF Min

(* A function on the domain of a sequence with values in T is a sequence.  *)
LEMMA SameDomainIsSeq ==
    ASSUME NEW S, NEW T, NEW s \in Seq(S), NEW f \in [DOMAIN s -> T]
    PROVE  f \in Seq(T) /\ Len(f) = Len(s)
<1>1. DOMAIN s = 1..Len(s) /\ Len(s) \in Nat
  BY LenProperties
<1>2. f \in Seq(T)
  BY <1>1, SeqDef
<1> QED
  BY <1>1, <1>2, LenProperties


(* Appending to a table keeps its rows, in its domain and in their place.  *)
LEMMA AppendRow ==
    ASSUME NEW S, NEW s \in Seq(S), NEW e \in S
    PROVE  /\ Append(s, e) \in Seq(S)
           /\ Len(s) + 1 \in DOMAIN Append(s, e)
           /\ DOMAIN Append(s, e) = DOMAIN s \cup {Len(s) + 1}
           /\ \A i \in DOMAIN s : Append(s, e)[i] = s[i]
           /\ Append(s, e)[Len(s) + 1] = e
  BY AppendProperties, LenProperties

-----------------------------------------------------------------------------
(* An empty database and an idle loop are well typed. *)
LEMMA TypeInit == Init => TypeOK
  BY EmptySeq, TicketsAssumption, LoopAssumption
  DEF Init, TypeOK, DbOK, ProcOK, RepoOK, SpawnOK, TodoOK, TickOK, NoObs, NoSpawn, Obs, PRState, Phase, Stage

(* The tables only grow, so what names a row of them keeps naming one.     *)
TablesGrow == DOMAIN intents \subseteq DOMAIN intents' /\ DOMAIN runs \subseteq DOMAIN runs'

(* A step that writes no table keeps the tables well typed. *)
LEMMA FrameDb == DbOK /\ UNCHANGED dbVars => DbOK' /\ TablesGrow
  BY DEF DbOK, dbVars, TablesGrow

(* A step that starts, stops and signals nothing keeps the process sets. *)
LEMMA FrameProc == ProcOK /\ UNCHANGED procVars /\ TablesGrow => ProcOK'
  BY DEF ProcOK, procVars, TablesGrow

(* A step that leaves branches and pull requests alone keeps their types. *)
LEMMA FrameRepo == RepoOK /\ UNCHANGED repoVars => RepoOK'
  BY DEF RepoOK, repoVars

(* The spawn in progress still names rows of tables that have grown. *)
LEMMA FrameSpawn == SpawnOK /\ UNCHANGED sp /\ TablesGrow => SpawnOK'
<1> SUFFICES ASSUME SpawnOK, UNCHANGED sp, TablesGrow PROVE SpawnOK'
  OBVIOUS
<1>1. DOMAIN intents \cup {0} \subseteq DOMAIN intents' \cup {0}
  BY DEF TablesGrow
<1>2. DOMAIN runs \cup {0} \subseteq DOMAIN runs' \cup {0}
  BY DEF TablesGrow
<1>3. sp' \in [stage : Stage, ticket : Tickets \cup {0}, kind : {"agent", "follow_up"},
               by : DOMAIN intents' \cup {0}, run : DOMAIN runs' \cup {0}]
  BY <1>1, <1>2 DEF SpawnOK
<1> QED
  BY <1>3 DEF SpawnOK, TablesGrow

(* A phase's list may shrink within the phase. *)
LEMMA FrameTodo == TodoOK /\ UNCHANGED pc /\ todo' \subseteq todo /\ TablesGrow => TodoOK'
  BY DEF TodoOK, TablesGrow

(* The observation and the lists of the tick stay typed when kept. *)
LEMMA FrameTick ==
    TickOK /\ UNCHANGED <<pc, obs, due, spawned, cancelled>> /\ TablesGrow => TickOK'
  BY DEF TickOK, TablesGrow

(* A tick that ends, by itself or by a fault, leaves nothing behind. *)
LEMMA ResetTypes == ResetTick => SpawnOK' /\ TodoOK' /\ TickOK'
<1> SUFFICES ASSUME ResetTick PROVE SpawnOK' /\ TodoOK' /\ TickOK'
  OBVIOUS
<1>1. SpawnOK'
  BY DEF ResetTick, SpawnOK, NoSpawn, Stage
<1>2. TodoOK'
  BY DEF ResetTick, TodoOK
<1>3. TickOK'
  BY EmptySeq DEF ResetTick, TickOK, NoObs, Obs, PRState, Phase
<1> QED
  BY <1>1, <1>2, <1>3

(* The first intent of a list of intents is one of its rows. *)
LEMMA MinOfIntents ==
    ASSUME DbOK, NEW S \in SUBSET DOMAIN intents, S # {}
    PROVE  Min(S) \in S /\ Min(S) \in Nat
<1>1. DOMAIN intents \subseteq Nat
  BY LenProperties DEF DbOK
<1> QED
  BY <1>1, MinInSet

(* Whatever is misread, what observe builds is an observation. *)
LEMMA ObserveTypes == TypeOK /\ Observe => TypeOK'
<1> SUFFICES ASSUME TypeOK, Observe PROVE TypeOK'
  OBVIOUS
<1>1. PICK misread \in SUBSET (PendingRuns \cap live), bad \in BOOLEAN,
           run \in [Tickets -> {"unseen", "alive", "dead"}] :
         LET cost == Cardinality(misread) + (IF bad THEN 1 ELSE 0)
         IN  /\ faults + cost <= MaxFaults
             /\ faults' = faults + cost
             /\ obs' = [run   |-> run,
                        wt    |-> ReadRepo(bad).wt,
                        pr    |-> ReadRepo(bad).pr,
                        asked |-> {r \in PendingRuns : Liveness(r, misread) = "dead" /\ r \in asked},
                        bad   |-> bad]
  BY Zenon DEF Observe
<1>2. PendingRuns \subseteq DOMAIN runs /\ DOMAIN runs = 1..Len(runs) /\ Len(runs) \in Nat
  BY LenProperties DEF PendingRuns, TypeOK, DbOK
<1>3. Cardinality(misread) \in Nat
  <2>1. IsFiniteSet(1..Len(runs))
    BY <1>2, FS_Interval
  <2>2. misread \in SUBSET (1..Len(runs))
    BY <1>2
  <2>3. IsFiniteSet(misread)
    BY <2>1, <2>2, FS_Subset
  <2> QED
    BY <2>3, FS_CardinalityType
<1>4. faults' \in 0..MaxFaults
  BY <1>1, <1>3, LoopAssumption DEF TypeOK
<1>5. obs' \in Obs
  <2>1. saved.wt \in SUBSET Tickets /\ saved.pr \in [Tickets -> PRState]
    BY DEF TypeOK, DbOK, Obs
  <2>2. pr \in [Tickets -> PRState]
    BY DEF TypeOK, RepoOK
  <2>3. PendingRuns \subseteq Nat
    BY <1>2
  <2>4. ReadRepo(bad).wt \in SUBSET Tickets /\ ReadRepo(bad).pr \in [Tickets -> PRState]
    BY <2>1, <2>2 DEF ReadRepo
  <2> QED
    BY <1>1, <2>3, <2>4 DEF Obs
<1>6. DbOK' /\ TablesGrow /\ RepoOK' /\ SpawnOK'
  BY FrameDb, FrameRepo, FrameSpawn DEF Observe, TypeOK
<1>7. ProcOK'
  BY <1>6, FrameProc DEF Observe, TypeOK
<1>8. TodoOK' /\ TickOK'
  BY <1>5, <1>6 DEF Observe, TypeOK, TodoOK, TickOK, Phase, TablesGrow
<1> QED
  BY <1>4, <1>6, <1>7, <1>8 DEF TypeOK

(* What a transaction over the intents table leaves is an intents table. *)
LEMMA IntentsTypes ==
    ASSUME DbOK, NEW f \in [DOMAIN intents -> Intent]
    PROVE  f \in Seq(Intent) /\ DOMAIN f = DOMAIN intents
  BY SameDomainIsSeq DEF DbOK

(* Claiming every pending launch keeps the types. *)
LEMMA ApplyLaunchIntentsTypes == TypeOK /\ ApplyLaunchIntents => TypeOK'
<1> SUFFICES ASSUME TypeOK, ApplyLaunchIntents PROVE TypeOK'
  OBVIOUS
<1>1. intents' \in [DOMAIN intents -> Intent]
  <2> SUFFICES ASSUME NEW i \in DOMAIN intents
               PROVE  [intents[i] EXCEPT !.pending = @ /\ i \notin PendingIntents("launch")] \in Intent
    BY Zenon DEF ApplyLaunchIntents
  <2>1. intents[i] \in Intent
    BY LenProperties DEF TypeOK, DbOK
  <2>2. (intents[i].pending /\ i \notin PendingIntents("launch")) \in BOOLEAN
    OBVIOUS
  <2> QED
    BY <2>1, <2>2 DEF Intent
<1>2. intents' \in Seq(Intent) /\ DOMAIN intents' = DOMAIN intents
  BY <1>1, IntentsTypes DEF TypeOK
<1>3. membership' \in [Tickets -> {"none", "active", "cancelled"}]
  BY DEF ApplyLaunchIntents, TypeOK, DbOK
<1>4. DbOK' /\ TablesGrow
  BY <1>2, <1>3 DEF ApplyLaunchIntents, TypeOK, DbOK, TablesGrow
<1>5. ProcOK' /\ RepoOK' /\ SpawnOK'
  BY <1>4, FrameProc, FrameRepo, FrameSpawn DEF ApplyLaunchIntents, TypeOK
<1>6. TodoOK' /\ TickOK'
  BY <1>4 DEF ApplyLaunchIntents, PendingIntents, TypeOK, TodoOK, TickOK, Phase, TablesGrow
<1> QED
  BY <1>4, <1>5, <1>6 DEF ApplyLaunchIntents, TypeOK

(* Cancelling the launches of one ticket keeps the types. *)
LEMMA ApplyCancelTypes == TypeOK /\ ApplyCancel => TypeOK'
<1> SUFFICES ASSUME TypeOK, ApplyCancel PROVE TypeOK'
  OBVIOUS
<1>1. Min(todo) \in DOMAIN intents
  BY MinOfIntents DEF ApplyCancel, TypeOK, TodoOK
<1>2. DbOK' /\ TablesGrow
  BY DEF ApplyCancel, CancelLaunchesFor, TypeOK, DbOK, TablesGrow
<1>3. ProcOK' /\ RepoOK' /\ SpawnOK'
  BY <1>2, FrameProc, FrameRepo, FrameSpawn DEF ApplyCancel, TypeOK
<1>4. TodoOK' /\ TickOK'
  BY <1>1, <1>2, FrameTodo DEF ApplyCancel, TypeOK, TickOK, TablesGrow
<1> QED
  BY <1>2, <1>3, <1>4 DEF ApplyCancel, TypeOK

(* The kills listed next are rows of the intents table. *)
LEMMA CancelsDoneTypes == TypeOK /\ CancelsDone => TypeOK'
<1> SUFFICES ASSUME TypeOK, CancelsDone PROVE TypeOK'
  OBVIOUS
<1>1. DbOK' /\ TablesGrow
  BY FrameDb DEF CancelsDone, TypeOK
<1>2. ProcOK' /\ RepoOK' /\ SpawnOK'
  BY <1>1, FrameProc, FrameRepo, FrameSpawn DEF CancelsDone, TypeOK
<1>3. TodoOK' /\ TickOK'
  BY <1>1 DEF CancelsDone, PendingIntents, TypeOK, TodoOK, TickOK, Phase, TablesGrow
<1> QED
  BY <1>1, <1>2, <1>3 DEF CancelsDone, TypeOK

(* A signalled run is a live one; a cancelled run is a row. *)
LEMMA CancelRunsTypes ==
    ASSUME ProcOK, TickOK, NEW rs \in SUBSET DOMAIN runs, CancelRuns(rs),
           UNCHANGED <<runs, live, children, asked>>
    PROVE  ProcOK' /\ cancelled' \subseteq DOMAIN runs'
  BY DEF ProcOK, TickOK, CancelRuns

(* Signalling the run of a kill keeps the types. *)
LEMMA ApplyKillTypes == TypeOK /\ ApplyKill => TypeOK'
<1> SUFFICES ASSUME TypeOK, ApplyKill PROVE TypeOK'
  OBVIOUS
<1>1. Min(todo) \in DOMAIN intents
  BY MinOfIntents DEF ApplyKill, TypeOK, TodoOK
<1>2. DbOK' /\ TablesGrow
  BY FrameDb DEF ApplyKill, TypeOK
<1>3. Interruptible(intents[Min(todo)].ticket) \subseteq DOMAIN runs
  BY DEF Interruptible, PendingRuns
<1>4. ProcOK' /\ cancelled' \subseteq DOMAIN runs'
  BY <1>3, CancelRunsTypes DEF ApplyKill, TypeOK, dbVars
<1>5. RepoOK' /\ SpawnOK' /\ TodoOK'
  BY <1>2, FrameRepo, FrameSpawn, FrameTodo DEF ApplyKill, TypeOK
<1>6. TickOK'
  BY <1>1, <1>2, <1>4 DEF ApplyKill, TypeOK, TickOK, TablesGrow
<1> QED
  BY <1>2, <1>4, <1>5, <1>6 DEF ApplyKill, TypeOK

(* Signalling for follow-ups and listing the pending runs keeps the types. *)
LEMMA InterruptForFollowUpsTypes == TypeOK /\ InterruptForFollowUps => TypeOK'
<1> SUFFICES ASSUME TypeOK, InterruptForFollowUps PROVE TypeOK'
  OBVIOUS
<1>1. DbOK' /\ TablesGrow
  BY FrameDb DEF InterruptForFollowUps, TypeOK
<1>2. UNION {Interruptible(intents[i].ticket) : i \in PendingIntents("follow-up")} \subseteq DOMAIN runs
  BY DEF Interruptible, PendingRuns
<1>3. ProcOK' /\ cancelled' \subseteq DOMAIN runs'
  BY <1>2, CancelRunsTypes DEF InterruptForFollowUps, TypeOK, dbVars
<1>4. RepoOK' /\ SpawnOK'
  BY <1>1, FrameRepo, FrameSpawn DEF InterruptForFollowUps, TypeOK
<1>5. TodoOK'
  BY <1>1 DEF InterruptForFollowUps, TypeOK, TodoOK, PendingRuns, TablesGrow
<1>6. TickOK'
  BY <1>1, <1>3 DEF InterruptForFollowUps, TypeOK, TickOK, Phase, TablesGrow
<1> QED
  BY <1>1, <1>3, <1>4, <1>5, <1>6 DEF InterruptForFollowUps, TypeOK

(* Writing one column of one run leaves a runs table of the same length. *)
LEMMA UpdateRun ==
    ASSUME DbOK, NEW r \in DOMAIN runs, NEW row \in Run
    PROVE  /\ [runs EXCEPT ![r] = row] \in Seq(Run)
           /\ DOMAIN [runs EXCEPT ![r] = row] = DOMAIN runs
<1>1. DOMAIN runs = 1..Len(runs) /\ runs \in Seq(Run)
  BY LenProperties DEF DbOK
<1> QED
  BY <1>1, ExceptSeq

(* Every id of the runs table has a well-typed run. *)
LEMMA RunRow ==
    ASSUME DbOK, NEW r \in DOMAIN runs
    PROVE  runs[r] \in Run
  BY LenProperties DEF DbOK

(* outcomeFor returns an outcome, whatever was observed. *)
LEMMA OutcomeForTypes ==
    ASSUME NEW r, NEW o
    PROVE  OutcomeFor(r, o) \in Outcome
  BY DEF OutcomeFor, Outcome

(* Disposing of a run writes a well-typed row. *)
LEMMA DisposeRunTypes ==
    ASSUME DbOK, ProcOK, NEW r \in DOMAIN runs, NEW o, DisposeRun(r, o),
           UNCHANGED <<intents, membership, saved, live, doomed, asked>>
    PROVE  DbOK' /\ ProcOK' /\ TablesGrow
<1>1. [runs[r] EXCEPT !.outcome = OutcomeFor(r, o)] \in Run
  BY RunRow, OutcomeForTypes DEF Run
<1>2. runs' = [runs EXCEPT ![r] = [runs[r] EXCEPT !.outcome = OutcomeFor(r, o)]]
  BY DEF DisposeRun, RecordDisposition
<1>3. runs' \in Seq(Run) /\ DOMAIN runs' = DOMAIN runs
  BY <1>1, <1>2, UpdateRun
<1> QED
  BY <1>3 DEF DisposeRun, Reap, DbOK, ProcOK, TablesGrow

(* Visiting a run, disposed of or not, keeps the types. *)
LEMMA ReconcileRunTypes ==
    ASSUME TypeOK, NEW r \in todo, ReconcileRun(r)
    PROVE  TypeOK'
<1> DEFINE t == runs[r].ticket
           died == [obs EXCEPT !.run[t] = "dead", !.asked = IF r \in asked THEN @ \cup {r} ELSE @]
<1>1. r \in DOMAIN runs /\ r \in Nat /\ t \in Tickets
  BY RunRow, LenProperties DEF ReconcileRun, TypeOK, TodoOK, DbOK, Run
<1>2. /\ obs \in Obs
      /\ [obs EXCEPT !.run[t] = "alive"] \in Obs
      /\ died \in Obs
  <2>1. obs \in Obs
    BY DEF TypeOK, TickOK
  <2>2. obs.asked \cup {r} \in SUBSET Nat
    BY <1>1, <2>1 DEF Obs
  <2>3. [obs EXCEPT !.run[t] = "alive"] \in Obs
    BY <1>1, <2>1 DEF Obs
  <2>4. CASE r \in asked
    BY <1>1, <2>1, <2>2, <2>4 DEF Obs
  <2>5. CASE r \notin asked
    BY <1>1, <2>1, <2>5 DEF Obs
  <2> QED
    BY <2>1, <2>3, <2>4, <2>5
<1>3. obs' \in Obs
  BY <1>2, Zenon DEF ReconcileRun
<1>4. DbOK' /\ ProcOK' /\ TablesGrow
  <2>1. CASE UNCHANGED <<children, runs>>
    BY <2>1, FrameDb, FrameProc DEF ReconcileRun, TypeOK, dbVars, procVars
  <2>2. CASE \E o : DisposeRun(r, o)
    BY <1>1, <2>2, DisposeRunTypes DEF ReconcileRun, TypeOK
  <2> QED
    BY <2>1, <2>2, Zenon DEF ReconcileRun
<1>5. RepoOK' /\ SpawnOK' /\ TodoOK'
  BY <1>4, FrameRepo, FrameSpawn, FrameTodo DEF ReconcileRun, TypeOK
<1>6. TickOK'
  BY <1>3, <1>4 DEF ReconcileRun, TypeOK, TickOK, TablesGrow
<1> QED
  BY <1>4, <1>5, <1>6 DEF ReconcileRun, TypeOK

(* Saving the observation and listing the verbs keeps the types. *)
LEMMA SaveObservationTypes == TypeOK /\ SaveObservation => TypeOK'
<1> SUFFICES ASSUME TypeOK, SaveObservation PROVE TypeOK'
  OBVIOUS
<1>1. DbOK' /\ TablesGrow
  BY DEF SaveObservation, TypeOK, DbOK, TickOK, TablesGrow
<1>2. ProcOK' /\ RepoOK' /\ SpawnOK'
  BY <1>1, FrameProc, FrameRepo, FrameSpawn DEF SaveObservation, TypeOK
<1>3. TodoOK' /\ TickOK'
  BY <1>1 DEF SaveObservation, PendingIntents, TypeOK, TodoOK, TickOK, Phase, TablesGrow
<1> QED
  BY <1>1, <1>2, <1>3 DEF SaveObservation, TypeOK

(* The verb intent that is next is a pending row on a tracked ticket. *)
LEMMA NextVerbIntentTypes ==
    ASSUME TypeOK, NEW v, VerbReady(v)
    PROVE  /\ NextVerbIntent \in todo
           /\ NextVerbIntent \in DOMAIN intents
           /\ intents[NextVerbIntent].ticket \in Tickets
           /\ NextVerbIntent # 0
<1>1. todo \subseteq DOMAIN intents /\ todo # {}
  BY DEF VerbReady, TypeOK, TodoOK
<1>2. NextVerbIntent \in todo
  <2> DEFINE reruns == {i \in todo : intents[i].verb = "re-run"}
  <2>1. reruns # {} => Min(reruns) \in todo
    BY <1>1, MinOfIntents DEF TypeOK
  <2>2. Min(todo) \in todo
    BY <1>1, MinOfIntents DEF TypeOK
  <2> QED
    BY <2>1, <2>2 DEF NextVerbIntent
<1>3. intents[NextVerbIntent] \in Intent /\ NextVerbIntent \in 1..Len(intents)
  BY <1>1, <1>2, LenProperties DEF TypeOK, DbOK
<1>4. NextVerbIntent # 0
  BY <1>3, LenProperties DEF TypeOK, DbOK
<1> QED
  BY <1>1, <1>2, <1>3, <1>4 DEF Intent

(* A spawn that begins names a ticket, an intent or none, and no row yet. *)
LEMMA SpawningTypes ==
    ASSUME TypeOK, NEW t \in Tickets, NEW stage \in {"cut", "insert"},
           NEW kind \in {"agent", "follow_up"}, NEW by \in DOMAIN intents \cup {0},
           sp' = Spawning(stage, t, kind, by), UNCHANGED dbVars
    PROVE  SpawnOK'
  BY DEF Spawning, SpawnOK, Stage, dbVars

(* A re-run in its worktree keeps the types. *)
LEMMA ReRunInWorktreeTypes == TypeOK /\ ReRunInWorktree => TypeOK'
<1> SUFFICES ASSUME TypeOK, ReRunInWorktree PROVE TypeOK'
  OBVIOUS
<1>1. DbOK' /\ TablesGrow
  BY FrameDb DEF ReRunInWorktree, TypeOK
<1>2. SpawnOK'
  BY NextVerbIntentTypes, SpawningTypes DEF ReRunInWorktree
<1>3. ProcOK' /\ RepoOK' /\ TodoOK' /\ TickOK'
  BY <1>1, FrameProc, FrameRepo, FrameTodo, FrameTick DEF ReRunInWorktree, TypeOK
<1> QED
  BY <1>1, <1>2, <1>3 DEF ReRunInWorktree, TypeOK

(* A re-run that recuts, or ends the tick, keeps the types. *)
LEMMA ReRunByCuttingTypes == TypeOK /\ ReRunByCutting => TypeOK'
<1> SUFFICES ASSUME TypeOK, ReRunByCutting PROVE TypeOK'
  OBVIOUS
<1>1. DbOK' /\ TablesGrow
  BY FrameDb DEF ReRunByCutting, TypeOK
<1>2. ProcOK' /\ RepoOK'
  BY <1>1, FrameProc DEF ReRunByCutting, TypeOK, RepoOK
<1>3. CASE ResetTick
  BY <1>1, <1>2, <1>3, ResetTypes DEF ReRunByCutting, TypeOK
<1>4. CASE /\ sp' = Spawning("cut", intents[NextVerbIntent].ticket, "agent", NextVerbIntent)
           /\ UNCHANGED <<pc, obs, todo, due, spawned, cancelled>>
  <2>1. SpawnOK'
    BY <1>4, NextVerbIntentTypes, SpawningTypes DEF ReRunByCutting
  <2>2. TodoOK' /\ TickOK'
    BY <1>1, <1>4, FrameTodo, FrameTick DEF TypeOK
  <2> QED
    BY <1>1, <1>2, <2>1, <2>2 DEF ReRunByCutting, TypeOK
<1> QED
  BY <1>3, <1>4 DEF ReRunByCutting

(* A follow-up that waits, is refused or spawns keeps the types. *)
LEMMA FollowUpOneTypes == TypeOK /\ FollowUpOne => TypeOK'
<1> SUFFICES ASSUME TypeOK, FollowUpOne PROVE TypeOK'
  OBVIOUS
<1>1. DbOK' /\ TablesGrow
  BY FrameDb DEF FollowUpOne, TypeOK
<1>2. ProcOK' /\ RepoOK' /\ TodoOK'
  BY <1>1, FrameProc, FrameRepo, FrameTodo DEF FollowUpOne, TypeOK
<1>3. SpawnOK'
  <2>1. CASE UNCHANGED sp
    BY <1>1, <2>1, FrameSpawn DEF TypeOK
  <2>2. CASE sp' = Spawning("insert", intents[NextVerbIntent].ticket, "follow_up", NextVerbIntent)
    BY <2>2, NextVerbIntentTypes, SpawningTypes DEF FollowUpOne
  <2> QED
    BY <2>1, <2>2 DEF FollowUpOne
<1>4. due' \in DOMAIN intents' \cup {0}
  BY <1>1, NextVerbIntentTypes DEF FollowUpOne, TypeOK, TickOK, TablesGrow
<1>5. TickOK'
  BY <1>1, <1>4 DEF FollowUpOne, TypeOK, TickOK, TablesGrow
<1> QED
  BY <1>1, <1>2, <1>3, <1>5 DEF FollowUpOne, TypeOK

(* Consuming an intent keeps its row and the types. *)
LEMMA ConsumeVerbIntentTypes == TypeOK /\ ConsumeVerbIntent => TypeOK'
<1> SUFFICES ASSUME TypeOK, ConsumeVerbIntent PROVE TypeOK'
  OBVIOUS
<1>1. due \in DOMAIN intents /\ intents[due] \in Intent
  BY LenProperties DEF ConsumeVerbIntent, TypeOK, TickOK, DbOK
<1>2. [intents[due] EXCEPT !.pending = FALSE] \in Intent
  BY <1>1 DEF Intent
<1>3. intents' \in [DOMAIN intents -> Intent]
  BY <1>1, <1>2, LenProperties DEF ConsumeVerbIntent, TypeOK, DbOK
<1>4. intents' \in Seq(Intent) /\ DOMAIN intents' = DOMAIN intents
  BY <1>3, IntentsTypes DEF TypeOK
<1>5. DbOK' /\ TablesGrow
  BY <1>4 DEF ConsumeVerbIntent, TypeOK, DbOK, TablesGrow
<1>6. ProcOK' /\ RepoOK' /\ SpawnOK' /\ TodoOK'
  BY <1>5, FrameProc, FrameRepo, FrameSpawn, FrameTodo DEF ConsumeVerbIntent, TypeOK
<1>7. TickOK'
  BY <1>5 DEF ConsumeVerbIntent, TypeOK, TickOK, TablesGrow
<1> QED
  BY <1>5, <1>6, <1>7 DEF ConsumeVerbIntent, TypeOK

(* The handler that asked for a spawn gets a valid list and intent back. *)
LEMMA SpawnReturnsTypes ==
    ASSUME TypeOK, TablesGrow, SpawnReturns, UNCHANGED pc
    PROVE  SpawnOK' /\ TodoOK' /\ due' \in DOMAIN intents' \cup {0}
<1>1. SpawnOK'
  BY DEF SpawnReturns, SpawnOK, NoSpawn, Stage
<1>2. TodoOK'
  BY FrameTodo DEF SpawnReturns, TypeOK
<1>3. due' \in DOMAIN intents' \cup {0}
  BY DEF SpawnReturns, TypeOK, SpawnOK, TickOK, TablesGrow
<1> QED
  BY <1>1, <1>2, <1>3

(* The row InsertRunSkeleton or RecordCutFailed inserts is well typed. *)
LEMMA NewRunRow ==
    ASSUME TypeOK, sp.stage # "none", NEW outcome \in Outcome
    PROVE  NewRun(outcome) \in Run
<1>1. sp.ticket \in Tickets /\ sp.kind \in {"agent", "follow_up"} /\ sp.by \in DOMAIN intents \cup {0}
  BY DEF TypeOK, SpawnOK
<1>2. sp.by \in Nat
  BY <1>1, LenProperties DEF TypeOK, DbOK
<1>3. head[sp.ticket] \in Nat
  BY <1>1 DEF TypeOK, RepoOK
<1> QED
  BY <1>1, <1>2, <1>3 DEF NewRun, Run

(* Inserting a run extends the runs table by one well-typed row. *)
LEMMA NewRunTypes ==
    ASSUME TypeOK, sp.stage # "none", NEW outcome \in Outcome, runs' = Append(runs, NewRun(outcome)),
           UNCHANGED <<intents, membership, saved>>
    PROVE  DbOK' /\ TablesGrow /\ Len(runs) + 1 \in DOMAIN runs'
<1>1. NewRun(outcome) \in Run
  BY NewRunRow
<1> QED
  BY <1>1, AppendRow DEF TypeOK, DbOK, TablesGrow

(* tp new succeeding keeps the types. *)
LEMMA CutWorktreeTypes == TypeOK /\ CutWorktree => TypeOK'
<1> SUFFICES ASSUME TypeOK, CutWorktree PROVE TypeOK'
  OBVIOUS
<1>1. DbOK' /\ TablesGrow
  BY FrameDb DEF CutWorktree, TypeOK
<1>2. RepoOK'
  BY DEF CutWorktree, TypeOK, RepoOK
<1>3. SpawnOK'
  BY DEF CutWorktree, TypeOK, SpawnOK, Stage, dbVars
<1>4. ProcOK' /\ TodoOK' /\ TickOK'
  BY <1>1, FrameProc, FrameTodo, FrameTick DEF CutWorktree, TypeOK
<1> QED
  BY <1>1, <1>2, <1>3, <1>4 DEF CutWorktree, TypeOK

(* tp new failing, with its cut_failed row, keeps the types. *)
LEMMA CutFailsTypes == TypeOK /\ CutFails => TypeOK'
<1> SUFFICES ASSUME TypeOK, CutFails PROVE TypeOK'
  OBVIOUS
<1>1. DbOK' /\ TablesGrow
  BY NewRunTypes DEF CutFails, Outcome
<1>2. SpawnOK' /\ TodoOK' /\ due' \in DOMAIN intents' \cup {0}
  BY <1>1, SpawnReturnsTypes DEF CutFails
<1>3. RepoOK'
  BY DEF CutFails, TypeOK, RepoOK
<1>4. ProcOK'
  BY <1>1, FrameProc DEF CutFails, TypeOK
<1>5. TickOK'
  BY <1>1, <1>2 DEF CutFails, TypeOK, TickOK, TablesGrow
<1>6. faults' \in 0..MaxFaults
  BY LoopAssumption DEF CutFails, ToolFails, TypeOK
<1> QED
  BY <1>1, <1>2, <1>3, <1>4, <1>5, <1>6 DEF TypeOK

(* The spawn in progress names the row just reserved. *)
LEMMA InsertRunSkeletonTypes == TypeOK /\ InsertRunSkeleton => TypeOK'
<1> SUFFICES ASSUME TypeOK, InsertRunSkeleton PROVE TypeOK'
  OBVIOUS
<1>1. DbOK' /\ TablesGrow /\ Len(runs) + 1 \in DOMAIN runs'
  BY NewRunTypes DEF InsertRunSkeleton, Outcome
<1>2. SpawnOK'
  BY <1>1 DEF InsertRunSkeleton, TypeOK, SpawnOK, Stage
<1>3. ProcOK' /\ RepoOK' /\ TodoOK' /\ TickOK'
  BY <1>1, FrameProc, FrameRepo, FrameTodo, FrameTick DEF InsertRunSkeleton, TypeOK
<1> QED
  BY <1>1, <1>2, <1>3 DEF InsertRunSkeleton, TypeOK

(* The process started belongs to the reserved row. *)
LEMMA SpawnTypes == TypeOK /\ Spawn => TypeOK'
<1> SUFFICES ASSUME TypeOK, Spawn PROVE TypeOK'
  OBVIOUS
<1>1. DbOK' /\ TablesGrow
  BY FrameDb DEF Spawn, TypeOK
<1>2. SpawnOK' /\ ProcOK'
  BY DEF Spawn, TypeOK, SpawnOK, ProcOK, Stage, dbVars
<1>3. RepoOK' /\ TodoOK' /\ TickOK'
  BY <1>1, FrameRepo, FrameTodo, FrameTick DEF Spawn, TypeOK
<1> QED
  BY <1>1, <1>2, <1>3 DEF Spawn, TypeOK

(* A failed spawn disposes of the reserved row and keeps the types. *)
LEMMA SpawnFailsTypes == TypeOK /\ SpawnFails => TypeOK'
<1> SUFFICES ASSUME TypeOK, SpawnFails PROVE TypeOK'
  OBVIOUS
<1>1. sp.run \in DOMAIN runs /\ [runs[sp.run] EXCEPT !.outcome = "failed"] \in Run
  BY RunRow DEF SpawnFails, TypeOK, SpawnOK, Run, Outcome
<1>2. runs' \in Seq(Run) /\ DOMAIN runs' = DOMAIN runs
  BY <1>1, UpdateRun DEF SpawnFails, RecordDisposition, TypeOK
<1>3. DbOK' /\ TablesGrow
  BY <1>2 DEF SpawnFails, TypeOK, DbOK, TablesGrow
<1>4. SpawnOK' /\ TodoOK' /\ due' \in DOMAIN intents' \cup {0}
  BY <1>3, SpawnReturnsTypes DEF SpawnFails
<1>5. ProcOK' /\ RepoOK'
  BY <1>3, FrameProc, FrameRepo DEF SpawnFails, TypeOK
<1>6. TickOK'
  BY <1>3, <1>4 DEF SpawnFails, TypeOK, TickOK, TablesGrow
<1>7. faults' \in 0..MaxFaults
  BY LoopAssumption DEF SpawnFails, ToolFails, TypeOK
<1> QED
  BY <1>3, <1>4, <1>5, <1>6, <1>7 DEF TypeOK

(* Recording the process group keeps the types. *)
LEMMA RecordSpawnTypes == TypeOK /\ RecordSpawn => TypeOK'
<1> SUFFICES ASSUME TypeOK, RecordSpawn PROVE TypeOK'
  OBVIOUS
<1>1. sp.run \in DOMAIN runs /\ [runs[sp.run] EXCEPT !.pgid = TRUE] \in Run /\ sp.ticket \in Tickets
  BY RunRow DEF RecordSpawn, TypeOK, SpawnOK, Run
<1>2. runs' \in Seq(Run) /\ DOMAIN runs' = DOMAIN runs
  BY <1>1, UpdateRun DEF RecordSpawn, TypeOK
<1>3. DbOK' /\ TablesGrow
  BY <1>2 DEF RecordSpawn, TypeOK, DbOK, TablesGrow
<1>4. SpawnOK' /\ TodoOK' /\ due' \in DOMAIN intents' \cup {0}
  BY <1>3, SpawnReturnsTypes DEF RecordSpawn
<1>5. ProcOK' /\ RepoOK'
  BY <1>3, FrameProc, FrameRepo DEF RecordSpawn, TypeOK
<1>6. obs' \in Obs
  BY <1>1 DEF RecordSpawn, TypeOK, TickOK, Obs
<1>7. spawned' \in Seq(Tickets)
  BY <1>1, AppendProperties DEF RecordSpawn, TypeOK, TickOK
<1>8. TickOK'
  BY <1>3, <1>4, <1>6, <1>7 DEF RecordSpawn, TypeOK, TickOK, TablesGrow
<1> QED
  BY <1>3, <1>4, <1>5, <1>8 DEF RecordSpawn, TypeOK

(* Whatever the observation, slots and spend pause, what LaunchAfter picks *)
(* is tracked and, as no v0 workflow with a run is in flight, has no run.  *)
LEMMA LaunchAfterNew ==
    ASSUME NEW o, NEW paused, NEW t \in LaunchAfter(o, paused)
    PROVE  t \in Tickets /\ ~HasRun(t)
<1> DEFINE cand == [u \in Tickets |-> Candidate(u, o)]
<1>1. t \in {u \in Tickets : Eligible(cand[u])}
  BY DEF LaunchAfter, LaunchPlan
<1>2. Eligible(Candidate(t, o))
  BY <1>1
<1> QED
  BY <1>1, <1>2 DEF Eligible, Candidate

(* Pushing and planning the launches keeps the types. *)
LEMMA PlanLaunchesTypes == TypeOK /\ PlanLaunches => TypeOK'
<1> SUFFICES ASSUME TypeOK, PlanLaunches PROVE TypeOK'
  OBVIOUS
<1> DEFINE o == MarkSpawnedAlive(obs)
<1>1. DbOK' /\ TablesGrow
  BY FrameDb DEF PlanLaunches, TypeOK
<1>2. obs' \in Obs
  <2>1. obs' = o
    BY DEF PlanLaunches
  <2>2. obs.run \in [Tickets -> {"unseen", "alive", "dead"}] /\ obs \in Obs
    BY DEF TypeOK, TickOK, Obs
  <2> QED
    BY <2>1, <2>2 DEF Obs, MarkSpawnedAlive
<1>3. PushPushable(o)
  BY DEF PlanLaunches
<1>4. RepoOK'
  <2> HIDE DEF o
  <2>1. PICK done : /\ pr' = [t \in Tickets |-> IF t \in done /\ o.pr[t] # "open" THEN "open" ELSE pr[t]]
                    /\ pushed' = [t \in Tickets |-> IF t \in done THEN head[t] ELSE pushed[t]]
    BY <1>3 DEF PushPushable
  <2> QED
    BY <2>1 DEF PlanLaunches, TypeOK, RepoOK, PRState
<1>5. todo' \subseteq Tickets
  <2>1. PICK paused \in BOOLEAN : todo' \subseteq LaunchAfter(o, paused)
    BY DEF PlanLaunches
  <2> HIDE DEF o
  <2> QED
    BY <2>1, LaunchAfterNew
<1>6. ProcOK' /\ SpawnOK'
  BY <1>1, FrameProc, FrameSpawn DEF PlanLaunches, TypeOK
<1>7. TodoOK' /\ TickOK'
  <2>1. pc' = "launching" /\ UNCHANGED <<due, spawned, cancelled>>
    BY DEF PlanLaunches
  <2> QED
    BY <1>1, <1>2, <1>5, <2>1 DEF TypeOK, TodoOK, TickOK, Phase, TablesGrow
<1> QED
  BY <1>1, <1>4, <1>6, <1>7 DEF PlanLaunches, TypeOK

(* Beginning the next launch keeps the types. *)
LEMMA LaunchEligibleTypes == TypeOK /\ LaunchEligible => TypeOK'
<1> SUFFICES ASSUME TypeOK, LaunchEligible PROVE TypeOK'
  OBVIOUS
<1>1. DbOK' /\ TablesGrow
  BY FrameDb DEF LaunchEligible, TypeOK
<1>2. Min(todo) \in Tickets
  BY MinInSet, TicketsAssumption DEF LaunchEligible, TypeOK, TodoOK
<1>3. SpawnOK'
  BY <1>2, SpawningTypes DEF LaunchEligible
<1>4. ProcOK' /\ RepoOK' /\ TodoOK' /\ TickOK'
  BY <1>1, FrameProc, FrameRepo, FrameTodo, FrameTick DEF LaunchEligible, TypeOK
<1> QED
  BY <1>1, <1>3, <1>4 DEF LaunchEligible, TypeOK

(* Ending the tick keeps the types. *)
LEMMA EndTickTypes == TypeOK /\ EndTick => TypeOK'
<1> SUFFICES ASSUME TypeOK, EndTick PROVE TypeOK'
  OBVIOUS
<1>1. DbOK' /\ TablesGrow
  BY FrameDb DEF EndTick, TypeOK
<1>2. ProcOK' /\ RepoOK'
  BY <1>1, FrameProc, FrameRepo DEF EndTick, TypeOK
<1> QED
  BY <1>1, <1>2, ResetTypes DEF EndTick, TypeOK

(* A crash or a failing call keeps the types. *)
LEMMA FaultTypes == TypeOK /\ Fault => TypeOK'
<1> SUFFICES ASSUME TypeOK, Fault PROVE TypeOK'
  OBVIOUS
<1>1. DbOK' /\ TablesGrow
  BY FrameDb DEF Fault, TypeOK
<1>2. ProcOK'
  BY DEF Fault, TypeOK, ProcOK, dbVars
<1>3. RepoOK'
  BY FrameRepo DEF Fault, TypeOK
<1>4. faults' \in 0..MaxFaults
  BY LoopAssumption DEF Fault, TypeOK
<1> QED
  BY <1>1, <1>2, <1>3, <1>4, ResetTypes DEF Fault, TypeOK

(* A click appends a well-typed intent. *)
LEMMA ClickTypes ==
    ASSUME TypeOK, NEW t \in Tickets, NEW v \in Verb, Click(t, v)
    PROVE  TypeOK'
<1>1. [ticket |-> t, verb |-> v, pending |-> TRUE] \in Intent
  BY DEF Intent
<1>2. DbOK' /\ TablesGrow
  BY <1>1, AppendRow DEF Click, QueueIntent, TypeOK, DbOK, TablesGrow
<1>3. UNCHANGED <<procVars, repoVars, sp, todo, pc, obs, due, spawned, cancelled, faults>>
  BY DEF Click, tickVars
<1> QED
  BY <1>2, <1>3, FrameProc, FrameRepo, FrameSpawn, FrameTodo, FrameTick DEF TypeOK

(* A commit keeps the types. *)
LEMMA CommitTypes ==
    ASSUME TypeOK, NEW r \in live, Commit(r)
    PROVE  TypeOK'
<1>1. DbOK' /\ TablesGrow
  BY FrameDb DEF Commit, TypeOK
<1>2. runs[r].ticket \in Tickets
  BY RunRow DEF TypeOK, ProcOK, Run
<1>3. RepoOK'
  BY <1>2 DEF Commit, TypeOK, RepoOK
<1>4. UNCHANGED <<procVars, sp, todo, pc, obs, due, spawned, cancelled, faults>>
  BY DEF Commit, tickVars
<1> QED
  BY <1>1, <1>3, <1>4, FrameProc, FrameSpawn, FrameTodo, FrameTick DEF TypeOK

(* The end of a process keeps the types. *)
LEMMA ExitTypes ==
    ASSUME TypeOK, NEW r \in live, Exit(r)
    PROVE  TypeOK'
<1>1. DbOK' /\ TablesGrow
  BY FrameDb DEF Exit, TypeOK
<1>2. ProcOK'
  BY DEF Exit, TypeOK, ProcOK, dbVars
<1>3. UNCHANGED <<repoVars, sp, todo, pc, obs, due, spawned, cancelled, faults>>
  BY DEF Exit, tickVars
<1> QED
  BY <1>1, <1>2, <1>3, FrameRepo, FrameSpawn, FrameTodo, FrameTick DEF TypeOK

(* Merging or closing a pull request keeps the types. *)
LEMMA ReviewPRTypes ==
    ASSUME TypeOK, NEW t \in Tickets, ReviewPR(t)
    PROVE  TypeOK'
<1>1. DbOK' /\ TablesGrow
  BY FrameDb DEF ReviewPR, TypeOK
<1>2. RepoOK'
  BY DEF ReviewPR, TypeOK, RepoOK, PRState
<1>3. UNCHANGED <<procVars, sp, todo, pc, obs, due, spawned, cancelled, faults>>
  BY DEF ReviewPR, tickVars
<1> QED
  BY <1>1, <1>2, <1>3, FrameProc, FrameSpawn, FrameTodo, FrameTick DEF TypeOK

(* A stuttering step keeps the types. *)
LEMMA StutterTypes == TypeOK /\ UNCHANGED vars => TypeOK'
<1> SUFFICES ASSUME TypeOK, UNCHANGED vars PROVE TypeOK'
  OBVIOUS
<1>1. DbOK' /\ TablesGrow
  BY FrameDb DEF vars, TypeOK
<1>2. UNCHANGED <<procVars, repoVars, sp, todo, pc, obs, due, spawned, cancelled, faults>>
  BY DEF vars, tickVars
<1> QED
  BY <1>1, <1>2, FrameProc, FrameRepo, FrameSpawn, FrameTodo, FrameTick DEF TypeOK

(* The tables, maps and lists of the loop hold what their types allow,     *)
(* whatever the number of tickets, clicks, commits and faults.             *)
THEOREM TypeCorrect == Spec => []TypeOK
<1>1. TypeOK /\ [Next]_vars => TypeOK'
  BY ObserveTypes, ApplyLaunchIntentsTypes, ApplyCancelTypes, CancelsDoneTypes, ApplyKillTypes,
     InterruptForFollowUpsTypes, ReconcileRunTypes, SaveObservationTypes, ReRunInWorktreeTypes,
     ReRunByCuttingTypes, FollowUpOneTypes, ConsumeVerbIntentTypes, PlanLaunchesTypes,
     LaunchEligibleTypes, CutWorktreeTypes, CutFailsTypes, InsertRunSkeletonTypes, SpawnTypes,
     SpawnFailsTypes, RecordSpawnTypes, EndTickTypes, FaultTypes, ClickTypes, CommitTypes,
     ExitTypes, ReviewPRTypes, StutterTypes, Zenon
  DEF Next, Loop, Spawner, Environment
<1> QED
  BY <1>1, TypeInit, PTL DEF Spec

-----------------------------------------------------------------------------
(* A ticket is launched once.                                              *)

(* No run appears, and no run changes its ticket or the click it is for.   *)
SameRows ==
    /\ DOMAIN runs' = DOMAIN runs
    /\ \A r \in DOMAIN runs : runs'[r].ticket = runs[r].ticket /\ runs'[r].by = runs[r].by

(* With the same rows, a ticket has the same runs. *)
LEMMA SameRowsHasRun ==
    ASSUME SameRows, NEW t
    PROVE  RunsOf(t)' = RunsOf(t) /\ (HasRun(t)' <=> HasRun(t))
<1>1. RunsOf(t)' = RunsOf(t)
  BY DEF SameRows, RunsOf
<1> QED
  BY <1>1 DEF HasRun

(* With the same rows, no ticket becomes launched twice. *)
LEMMA SameRowsLaunchOnce == LaunchOnce /\ SameRows => LaunchOnce'
<1> SUFFICES ASSUME LaunchOnce, SameRows,
                    NEW r \in DOMAIN runs', runs'[r].by = 0, NEW q \in RunsOf(runs[r].ticket)'
             PROVE  r <= q
  BY DEF LaunchOnce, SameRows
<1>1. q \in RunsOf(runs[r].ticket) /\ r \in DOMAIN runs /\ runs[r].by = 0
  BY SameRowsHasRun DEF SameRows
<1> QED
  BY <1>1 DEF LaunchOnce

(* An untouched runs table has the same rows. *)
LEMMA UnchangedRows == UNCHANGED runs => SameRows
  BY DEF SameRows

(* Writing an outcome or a process group keeps a run's ticket and click. *)
LEMMA UpdatedRows ==
    ASSUME DbOK, NEW r \in DOMAIN runs, NEW x,
           \/ runs' = [runs EXCEPT ![r].outcome = x]
           \/ runs' = [runs EXCEPT ![r].pgid = x]
    PROVE  SameRows
<1>1. \A q \in DOMAIN runs : runs[q] \in Run
  BY RunRow
<1> QED
  BY <1>1 DEF SameRows, Run

(* A step that spawns nothing and starts no list of launches.              *)
LEMMA FrameLaunch ==
    ASSUME LaunchInv, SameRows, UNCHANGED <<pc, sp, due, todo>>
    PROVE  LaunchInv'
<1>1. LaunchOnce'
  BY SameRowsLaunchOnce DEF LaunchInv
<1>2. \A t : HasRun(t)' <=> HasRun(t)
  BY SameRowsHasRun
<1> QED
  BY <1>1, <1>2 DEF LaunchInv

(* A step of the phases before the verbs, when no spawn is in progress. *)
LEMMA PhaseLaunch ==
    ASSUME LaunchInv, SameRows, pc \notin {"verbs", "launching"}, UNCHANGED sp,
           pc' # "launching", due' # 0 => pc' \in {"cancel", "kill", "verbs"}
    PROVE  LaunchInv'
<1>1. LaunchOnce'
  BY SameRowsLaunchOnce DEF LaunchInv
<1>2. sp.stage = "none"
  BY DEF LaunchInv
<1> QED
  BY <1>1, <1>2 DEF LaunchInv

(* A tick that ends leaves no spawn, no list and nothing due. *)
LEMMA ResetLaunch ==
    ASSUME LaunchInv, SameRows, ResetTick
    PROVE  LaunchInv'
<1>1. LaunchOnce'
  BY SameRowsLaunchOnce DEF LaunchInv
<1> QED
  BY <1>1 DEF LaunchInv, ResetTick, NoSpawn

(* A verb handler, which runs before any launch is listed. *)
LEMMA VerbLaunch ==
    ASSUME LaunchInv, SameRows, pc = "verbs", UNCHANGED pc,
           sp'.stage # "none" => sp'.by # 0
    PROVE  LaunchInv'
<1>1. LaunchOnce'
  BY SameRowsLaunchOnce DEF LaunchInv
<1> QED
  BY <1>1 DEF LaunchInv

(* A new run keeps LaunchOnce if a verb asked for it or its ticket had no  *)
(* run, and gives only its own ticket a run.                               *)
LEMMA NewRunLaunch ==
    ASSUME TypeOK, LaunchInv, sp.stage \in {"cut", "insert"},
           NEW outcome, runs' = Append(runs, NewRun(outcome))
    PROVE  /\ LaunchOnce'
           /\ \A t : HasRun(t)' => HasRun(t) \/ t = sp.ticket
<1> DEFINE n == Len(runs) + 1
<1>1. runs \in Seq(Run) /\ Len(runs) \in Nat /\ DOMAIN runs = 1..Len(runs)
  BY LenProperties DEF TypeOK, DbOK
<1>2. /\ DOMAIN runs' = 1..n
      /\ \A r \in DOMAIN runs : runs'[r] = runs[r]
      /\ runs'[n] = NewRun(outcome)
  BY <1>1
<1>3. \A t : RunsOf(t)' = RunsOf(t) \cup (IF t = sp.ticket THEN {n} ELSE {})
  BY <1>1, <1>2 DEF RunsOf, NewRun
<1>4. sp.by = 0 => RunsOf(sp.ticket) = {}
  BY DEF LaunchInv, HasRun
<1>5. LaunchOnce'
  <2> SUFFICES ASSUME NEW r \in DOMAIN runs', runs'[r].by = 0, NEW q \in RunsOf(runs[r].ticket)'
               PROVE  r <= q
    BY DEF LaunchOnce
  <2> DEFINE u == runs'[r].ticket
  <2>1. q \in RunsOf(u) \cup (IF u = sp.ticket THEN {n} ELSE {})
    BY <1>3
  <2>2. CASE r = n
    BY <1>1, <1>2, <1>4, <2>1, <2>2 DEF NewRun
  <2>3. CASE r \in DOMAIN runs
    <3>1. runs[r].by = 0 /\ u = runs[r].ticket
      BY <1>2, <2>3
    <3>2. q \in RunsOf(u) => r <= q
      BY <2>3, <3>1 DEF LaunchInv, LaunchOnce
    <3> QED
      BY <1>1, <2>1, <2>3, <3>2
  <2> QED
    BY <1>1, <1>2, <2>2, <2>3
<1> QED
  BY <1>3, <1>5 DEF HasRun

(* No run, no spawn and nothing due at the start. *)
LEMMA LaunchInvInit == Init => LaunchInv
  BY DEF Init, LaunchInv, LaunchOnce, NoSpawn

(* Every step that reserves a row, from the ticket it is for. *)
LEMMA SpawnerLaunch == TypeOK /\ LaunchInv /\ Spawner => LaunchInv'
<1> SUFFICES ASSUME TypeOK, LaunchInv, Spawner PROVE LaunchInv'
  OBVIOUS
<1>1. CASE CutWorktree
  <2>1. SameRows
    BY <1>1, UnchangedRows DEF CutWorktree, dbVars
  <2>2. LaunchOnce' /\ \A t : HasRun(t)' <=> HasRun(t)
    BY <2>1, SameRowsLaunchOnce, SameRowsHasRun DEF LaunchInv
  <2>3. sp'.stage = "insert" /\ sp'.by = sp.by /\ sp'.ticket = sp.ticket
    BY <1>1 DEF CutWorktree, TypeOK, SpawnOK
  <2> QED
    BY <1>1, <2>2, <2>3 DEF CutWorktree, LaunchInv
<1>2. CASE CutFails
  <2>1. LaunchOnce' /\ \A t : HasRun(t)' => HasRun(t) \/ t = sp.ticket
    BY <1>2, NewRunLaunch DEF CutFails
  <2>2. sp'.stage = "none" /\ UNCHANGED pc
    BY <1>2 DEF CutFails, SpawnReturns, NoSpawn
  <2> QED
    BY <1>2, <2>1, <2>2 DEF CutFails, SpawnReturns, LaunchInv
<1>3. CASE InsertRunSkeleton
  <2>1. LaunchOnce' /\ \A t : HasRun(t)' => HasRun(t) \/ t = sp.ticket
    BY <1>3, NewRunLaunch DEF InsertRunSkeleton
  <2>2. sp'.stage = "spawn" /\ sp'.by = sp.by /\ sp'.ticket = sp.ticket
    BY <1>3 DEF InsertRunSkeleton, TypeOK, SpawnOK
  <2> QED
    BY <1>3, <2>1, <2>2 DEF InsertRunSkeleton, LaunchInv
<1>4. CASE Spawn
  <2>1. SameRows
    BY <1>4, UnchangedRows DEF Spawn, dbVars
  <2>2. LaunchOnce' /\ \A t : HasRun(t)' <=> HasRun(t)
    BY <2>1, SameRowsLaunchOnce, SameRowsHasRun DEF LaunchInv
  <2>3. sp'.stage = "record" /\ sp'.by = sp.by /\ sp'.ticket = sp.ticket
    BY <1>4 DEF Spawn, TypeOK, SpawnOK
  <2> QED
    BY <1>4, <2>2, <2>3 DEF Spawn, LaunchInv
<1>5. CASE SpawnFails \/ RecordSpawn
  <2>1. SameRows
    BY <1>5, UpdatedRows DEF SpawnFails, RecordDisposition, RecordSpawn, TypeOK, SpawnOK
  <2>2. LaunchOnce' /\ \A t : HasRun(t)' <=> HasRun(t)
    BY <2>1, SameRowsLaunchOnce, SameRowsHasRun DEF LaunchInv
  <2>3. sp'.stage = "none" /\ UNCHANGED pc /\ SpawnReturns /\ sp.stage # "none"
    BY <1>5 DEF SpawnFails, RecordSpawn, SpawnReturns, NoSpawn
  <2> QED
    BY <2>2, <2>3 DEF SpawnReturns, LaunchInv
<1> QED
  BY <1>1, <1>2, <1>3, <1>4, <1>5 DEF Spawner

(* Every step of the loop and of its environment keeps LaunchInv. *)
LEMMA LaunchInvStep == TypeOK /\ LaunchInv /\ [Next]_vars => LaunchInv'
<1> SUFFICES ASSUME TypeOK, LaunchInv, [Next]_vars PROVE LaunchInv'
  OBVIOUS
<1>1. CASE Observe \/ ApplyLaunchIntents \/ CancelsDone \/ InterruptForFollowUps \/ SaveObservation
  <2>1. SameRows /\ UNCHANGED <<sp, due>>
    BY <1>1, UnchangedRows
    DEF Observe, ApplyLaunchIntents, CancelsDone, InterruptForFollowUps, SaveObservation, dbVars
  <2>2. pc \notin {"verbs", "launching"} /\ pc' # "launching" /\ due = 0
    BY <1>1 DEF Observe, ApplyLaunchIntents, CancelsDone, InterruptForFollowUps, SaveObservation, LaunchInv
  <2> QED
    BY <2>1, <2>2, PhaseLaunch
<1>2. CASE ApplyCancel \/ ApplyKill
  <2>1. SameRows /\ UNCHANGED <<sp, pc>> /\ pc \in {"cancel", "kill"}
    BY <1>2, UnchangedRows DEF ApplyCancel, ApplyKill, dbVars
  <2> QED
    BY <2>1, PhaseLaunch
<1>3. ASSUME NEW r \in todo, ReconcileRun(r)
      PROVE  LaunchInv'
  <2>1. r \in DOMAIN runs
    BY <1>3 DEF ReconcileRun, TypeOK, TodoOK
  <2>2. UNCHANGED runs \/ \E o : DisposeRun(r, o)
    BY <1>3, Zenon DEF ReconcileRun
  <2>3. SameRows
    BY <2>1, <2>2, UnchangedRows, UpdatedRows DEF DisposeRun, RecordDisposition, TypeOK
  <2> QED
    BY <1>3, <2>3, PhaseLaunch DEF ReconcileRun, LaunchInv
<1>4. CASE ReRunInWorktree
  <2>1. SameRows /\ pc = "verbs" /\ UNCHANGED pc
    BY <1>4, UnchangedRows DEF ReRunInWorktree, VerbReady, dbVars
  <2>2. sp'.by # 0
    BY <1>4, NextVerbIntentTypes DEF ReRunInWorktree, Spawning
  <2> QED
    BY <2>1, <2>2, VerbLaunch
<1>5. CASE ReRunByCutting
  <2>1. SameRows /\ pc = "verbs" /\ NextVerbIntent # 0
    BY <1>5, UnchangedRows, NextVerbIntentTypes DEF ReRunByCutting, VerbReady, dbVars
  <2>2. CASE ResetTick
    BY <2>1, <2>2, ResetLaunch
  <2>3. CASE UNCHANGED pc /\ sp' = Spawning("cut", intents[NextVerbIntent].ticket, "agent", NextVerbIntent)
    BY <2>1, <2>3, VerbLaunch DEF Spawning
  <2> QED
    BY <1>5, <2>2, <2>3 DEF ReRunByCutting
<1>6. CASE FollowUpOne
  <2>1. SameRows /\ pc = "verbs" /\ UNCHANGED pc /\ sp.stage = "none"
    BY <1>6, UnchangedRows DEF FollowUpOne, VerbReady, dbVars, NoSpawn
  <2>2. sp'.stage # "none" => sp'.by # 0
    BY <1>6, <2>1, NextVerbIntentTypes DEF FollowUpOne, Spawning
  <2> QED
    BY <2>1, <2>2, VerbLaunch
<1>7. CASE ConsumeVerbIntent
  <2>1. SameRows /\ UNCHANGED <<pc, sp>> /\ due' = 0 /\ pc \in {"cancel", "kill", "verbs"}
    BY <1>7, UnchangedRows DEF ConsumeVerbIntent, LaunchInv
  <2>2. LaunchOnce'
    BY <2>1, SameRowsLaunchOnce DEF LaunchInv
  <2> QED
    BY <2>1, <2>2 DEF LaunchInv
<1>8. CASE PlanLaunches
  <2>1. SameRows /\ UNCHANGED <<sp, due>> /\ sp.stage = "none" /\ due = 0 /\ pc' = "launching"
    BY <1>8, UnchangedRows DEF PlanLaunches, dbVars, NoSpawn
  <2>2. LaunchOnce' /\ \A t : HasRun(t)' <=> HasRun(t)
    BY <2>1, SameRowsLaunchOnce, SameRowsHasRun DEF LaunchInv
  <2>3. \A t \in todo' : ~HasRun(t)
    <3>1. PICK o, paused : todo' \subseteq LaunchAfter(o, paused)
      BY <1>8 DEF PlanLaunches
    <3> QED
      BY <3>1, LaunchAfterNew
  <2> QED
    BY <2>1, <2>2, <2>3 DEF LaunchInv
<1>9. CASE LaunchEligible
  <2>1. SameRows /\ UNCHANGED <<pc, todo, due>> /\ sp.stage = "none" /\ pc = "launching"
    BY <1>9, UnchangedRows DEF LaunchEligible, dbVars, NoSpawn
  <2>2. LaunchOnce' /\ \A t : HasRun(t)' <=> HasRun(t)
    BY <2>1, SameRowsLaunchOnce, SameRowsHasRun DEF LaunchInv
  <2>3. Min(todo) \in todo
    BY <1>9, MinInSet, TicketsAssumption DEF LaunchEligible, TypeOK, TodoOK
  <2>4. sp'.by = 0 /\ sp'.ticket \in todo'
    BY <1>9, <2>1, <2>3 DEF LaunchEligible, Spawning
  <2> QED
    BY <2>1, <2>2, <2>4 DEF LaunchInv
<1>10. CASE Spawner
  BY <1>10, SpawnerLaunch
<1>11. CASE EndTick \/ Fault
  BY <1>11, UnchangedRows, ResetLaunch DEF EndTick, Fault, dbVars
<1>12. CASE Environment
  <2>1. UNCHANGED <<runs, tickVars>>
    BY <1>12, Zenon DEF Environment, Click, Commit, Exit, ReviewPR, dbVars
  <2> QED
    BY <2>1, UnchangedRows, FrameLaunch DEF tickVars
<1>13. CASE UNCHANGED vars
  BY <1>13, UnchangedRows, FrameLaunch DEF vars, dbVars, tickVars
<1> QED
  BY <1>1, <1>2, <1>3, <1>4, <1>5, <1>6, <1>7, <1>8, <1>9, <1>10, <1>11, <1>12, <1>13 DEF Next, Loop

(* No ticket is launched twice by the tick: the run launchEligible starts  *)
(* is its ticket's first, across crashes, failing calls and any clicks.    *)
THEOREM LaunchedOnce == Spec => []LaunchOnce
<1>1. Spec => []TypeOK
  BY TypeCorrect
<1>2. LaunchInv => LaunchOnce
  BY DEF LaunchInv
<1> QED
  BY <1>1, <1>2, LaunchInvInit, LaunchInvStep, PTL DEF Spec

-----------------------------------------------------------------------------
(* The ledger.                                                             *)

(* What the ledger shows of any run. *)
LedgerRow == {RowOf(run) : run \in Run}

(* The ledger has one row for each run. *)
LEMMA RowsIsSeq ==
    ASSUME DbOK
    PROVE  Rows \in Seq(LedgerRow) /\ Len(Rows) = Len(runs) /\ DOMAIN Rows = DOMAIN runs
<1>1. Rows \in [DOMAIN runs -> LedgerRow]
  BY RunRow DEF Rows, LedgerRow
<1>2. runs \in Seq(Run)
  BY DEF DbOK
<1> QED
  BY <1>1, <1>2, SameDomainIsSeq

(* Appending a run appends its row. *)
LEMMA RowsAppend ==
    ASSUME DbOK, NEW run \in Run, runs' = Append(runs, run)
    PROVE  Rows' = Append(Rows, RowOf(run))
<1>1. Len(runs) \in Nat /\ DOMAIN runs = 1..Len(runs)
  BY LenProperties DEF DbOK
<1>2. /\ DOMAIN runs' = 1..(Len(runs) + 1)
      /\ \A r \in DOMAIN runs : runs'[r] = runs[r]
      /\ runs'[Len(runs) + 1] = run
  BY <1>1 DEF DbOK
<1>3. Rows' = [r \in 1..(Len(runs) + 1) |-> RowOf(runs'[r])]
  BY <1>2 DEF Rows, RowOf
<1>4. RowOf(run) \in LedgerRow
  BY DEF LedgerRow
<1>5. /\ DOMAIN Append(Rows, RowOf(run)) = 1..(Len(runs) + 1)
      /\ \A r \in DOMAIN runs : Append(Rows, RowOf(run))[r] = Rows[r]
      /\ Append(Rows, RowOf(run))[Len(runs) + 1] = RowOf(run)
      /\ Append(Rows, RowOf(run)) \in Seq(LedgerRow)
  BY <1>1, <1>4, RowsIsSeq, AppendRow
<1>6. \A r \in 1..(Len(runs) + 1) : Append(Rows, RowOf(run))[r] = RowOf(runs'[r])
  BY <1>1, <1>2, <1>5 DEF Rows
<1>7. Append(Rows, RowOf(run)) = [r \in 1..(Len(runs) + 1) |-> Append(Rows, RowOf(run))[r]]
  BY <1>1, <1>5, LenProperties
<1> QED
  BY <1>3, <1>6, <1>7

(* Updating a run updates its row and no other. *)
LEMMA RowsUpdate ==
    ASSUME NEW r \in DOMAIN runs, DOMAIN runs' = DOMAIN runs,
           \A q \in DOMAIN runs \ {r} : runs'[q] = runs[q],
           NEW state, RowOf(runs'[r]) = [RowOf(runs[r]) EXCEPT !.state = state]
    PROVE  Rows' = [Rows EXCEPT ![r].state = state]
<1>1. Rows' = [q \in DOMAIN runs |-> RowOf(runs'[q])]
  BY DEF Rows, RowOf
<1>2. [Rows EXCEPT ![r].state = state] =
        [q \in DOMAIN runs |-> IF q = r THEN [RowOf(runs[r]) EXCEPT !.state = state] ELSE RowOf(runs[q])]
  BY DEF Rows
<1> QED
  BY <1>1, <1>2

(* No spawn and no run to reconcile at the start. *)
LEMMA LedgerInvInit == Init => LedgerInv
  BY DEF Init, LedgerInv, NoSpawn

(* A step that leaves the runs table alone and reserves no row. *)
LEMMA FrameLedger ==
    ASSUME LedgerInv, UNCHANGED runs,
           sp' = sp \/ sp'.stage \notin {"spawn", "record"},
           pc' = "reconcile" => (pc = "reconcile" /\ todo' \subseteq todo) \/ todo' = PendingRuns
    PROVE  LedgerInv'
<1>1. PendingRuns' = PendingRuns
  BY DEF PendingRuns
<1> QED
  BY <1>1 DEF LedgerInv

(* The steps of a spawn happen after reconcileRuns is done. *)
LEMMA SpawnerLedger == TypeOK /\ LaunchInv /\ LedgerInv /\ Spawner => LedgerInv'
<1> SUFFICES ASSUME TypeOK, LaunchInv, LedgerInv, Spawner PROVE LedgerInv'
  OBVIOUS
<1>1. sp.stage # "none" /\ UNCHANGED pc
  BY DEF Spawner, CutWorktree, CutFails, InsertRunSkeleton, Spawn, SpawnFails, RecordSpawn
<1>2. pc # "reconcile" /\ pc' # "reconcile"
  BY <1>1 DEF LaunchInv
<1>3. CASE CutWorktree
  <2>1. UNCHANGED runs /\ sp'.stage = "insert"
    BY <1>3 DEF CutWorktree, dbVars, TypeOK, SpawnOK
  <2> QED
    BY <1>2, <2>1, FrameLedger
<1>4. CASE CutFails \/ SpawnFails \/ RecordSpawn
  <2>1. sp'.stage = "none"
    BY <1>4 DEF CutFails, SpawnFails, RecordSpawn, SpawnReturns, NoSpawn
  <2> QED
    BY <1>2, <2>1 DEF LedgerInv
<1>5. CASE InsertRunSkeleton
  <2>1. runs' = Append(runs, NewRun("none")) /\ sp'.run = Len(runs) + 1
    BY <1>5 DEF InsertRunSkeleton, TypeOK, SpawnOK
  <2>2. runs'[sp'.run] = NewRun("none")
    BY <2>1 DEF TypeOK, DbOK
  <2> QED
    BY <1>2, <2>2 DEF LedgerInv, NewRun
<1>6. CASE Spawn
  <2>1. UNCHANGED runs /\ sp'.run = sp.run /\ sp.stage = "spawn"
    BY <1>6 DEF Spawn, dbVars, TypeOK, SpawnOK
  <2> QED
    BY <1>2, <2>1 DEF LedgerInv
<1> QED
  BY <1>3, <1>4, <1>5, <1>6 DEF Spawner

(* Visiting a run leaves the runs still to be visited as they were. *)
LEMMA ReconcileLedger ==
    ASSUME TypeOK, LaunchInv, LedgerInv, NEW r \in todo, ReconcileRun(r)
    PROVE  LedgerInv'
<1>1. sp.stage = "none" /\ UNCHANGED <<sp, pc>> /\ pc = "reconcile" /\ todo' = todo \ {r}
  BY DEF ReconcileRun, LaunchInv
<1>2. r \in DOMAIN runs /\ todo \subseteq PendingRuns
  BY <1>1 DEF TypeOK, TodoOK, LedgerInv
<1>3. UNCHANGED runs \/ \E o : DisposeRun(r, o)
  BY Zenon DEF ReconcileRun
<1>4. DOMAIN runs' = DOMAIN runs /\ \A q \in DOMAIN runs \ {r} : runs'[q] = runs[q]
  BY <1>3 DEF DisposeRun, RecordDisposition, TypeOK, DbOK
<1>5. todo' \subseteq PendingRuns'
  BY <1>1, <1>2, <1>4 DEF PendingRuns
<1> QED
  BY <1>1, <1>5 DEF LedgerInv

(* Every step of the loop and of its environment keeps LedgerInv. *)
LEMMA LedgerInvStep == TypeOK /\ LaunchInv /\ LedgerInv /\ [Next]_vars => LedgerInv'
<1> SUFFICES ASSUME TypeOK, LaunchInv, LedgerInv, [Next]_vars PROVE LedgerInv'
  OBVIOUS
<1>1. CASE Observe \/ ApplyLaunchIntents \/ ApplyCancel \/ CancelsDone \/ ApplyKill \/ SaveObservation
  BY <1>1, FrameLedger
  DEF Observe, ApplyLaunchIntents, ApplyCancel, CancelsDone, ApplyKill, SaveObservation, dbVars
<1>2. CASE InterruptForFollowUps
  BY <1>2, FrameLedger DEF InterruptForFollowUps, dbVars
<1>3. ASSUME NEW r \in todo, ReconcileRun(r)
      PROVE  LedgerInv'
  BY <1>3, ReconcileLedger
<1>4. CASE ReRunInWorktree \/ FollowUpOne
  BY <1>4, FrameLedger DEF ReRunInWorktree, FollowUpOne, VerbReady, Spawning, dbVars
<1>5. CASE ReRunByCutting
  <2>1. UNCHANGED runs /\ pc' # "reconcile"
    BY <1>5 DEF ReRunByCutting, VerbReady, ResetTick, dbVars
  <2>2. sp'.stage \notin {"spawn", "record"}
    BY <1>5 DEF ReRunByCutting, ResetTick, NoSpawn, Spawning
  <2> QED
    BY <2>1, <2>2, FrameLedger
<1>6. CASE ConsumeVerbIntent
  BY <1>6, FrameLedger DEF ConsumeVerbIntent, LaunchInv
<1>7. CASE PlanLaunches \/ LaunchEligible
  BY <1>7, FrameLedger DEF PlanLaunches, LaunchEligible, Spawning, dbVars
<1>8. CASE Spawner
  BY <1>8, SpawnerLedger
<1>9. CASE EndTick \/ Fault
  BY <1>9, FrameLedger DEF EndTick, Fault, ResetTick, NoSpawn, dbVars
<1>10. CASE Environment
  <2>1. UNCHANGED <<runs, tickVars>>
    BY <1>10, Zenon DEF Environment, Click, Commit, Exit, ReviewPR, dbVars
  <2> QED
    BY <2>1, FrameLedger DEF tickVars
<1>11. CASE UNCHANGED vars
  BY <1>11, FrameLedger DEF vars, dbVars, tickVars
<1> QED
  BY <1>1, <1>2, <1>3, <1>4, <1>5, <1>6, <1>7, <1>8, <1>9, <1>10, <1>11 DEF Next, Loop

(* A run of a launch is opened on a ticket without a row. *)
LEMMA OpenRow ==
    ASSUME TypeOK, LaunchInv, sp.stage \in {"cut", "insert"},
           NEW outcome \in {"none", "cut_failed"}, runs' = Append(runs, NewRun(outcome))
    PROVE  RunLedger!Next
<1> DEFINE origin == IF sp.by = 0 THEN "launch" ELSE "verb"
           state  == IF outcome = "none" THEN "reserved" ELSE "cut_failed"
<1>1. NewRun(outcome) \in Run /\ sp.ticket \in Tickets
  BY NewRunRow DEF TypeOK, SpawnOK, Outcome
<1>2. RowOf(NewRun(outcome)) = [ticket |-> sp.ticket, origin |-> origin, state |-> state]
  BY DEF RowOf, NewRun
<1>3. Rows' = Append(Rows, [ticket |-> sp.ticket, origin |-> origin, state |-> state])
  BY <1>1, <1>2, RowsAppend DEF TypeOK
<1>4. sp.by = 0 => RunsOf(sp.ticket) = {}
  BY DEF LaunchInv, HasRun
<1>5. RunLedger!RowsOf(sp.ticket) = RunsOf(sp.ticket)
  BY DEF RunLedger!RowsOf, RunsOf, Rows, RowOf
<1>6. RunLedger!Open(sp.ticket, origin, state)
  BY <1>3, <1>4, <1>5 DEF RunLedger!Open
<1>7. origin \in RunLedger!Origin /\ state \in {"reserved", "cut_failed"}
  BY DEF RunLedger!Origin
<1> QED
  BY <1>1, <1>6, <1>7, Zenon DEF RunLedger!Next

(* A recorded process group turns a reserved row into a running one. *)
LEMMA AttachRow ==
    ASSUME TypeOK, LedgerInv, RecordSpawn
    PROVE  RunLedger!Next
<1> DEFINE r   == sp.run
           run == [runs[sp.run] EXCEPT !.pgid = TRUE]
<1>1. r \in DOMAIN runs /\ runs[r] \in Run /\ runs[r].outcome = "none" /\ ~runs[r].pgid
  BY RunRow DEF RecordSpawn, TypeOK, SpawnOK, LedgerInv
<1>2. runs' = [runs EXCEPT ![r] = run]
  BY <1>1 DEF RecordSpawn
<1>3. /\ DOMAIN runs' = DOMAIN runs
      /\ \A q \in DOMAIN runs \ {r} : runs'[q] = runs[q]
      /\ RowOf(runs'[r]) = [RowOf(runs[r]) EXCEPT !.state = "running"]
  BY <1>1, <1>2 DEF RowOf, Run
<1>4. Rows' = [Rows EXCEPT ![r].state = "running"]
  BY <1>1, <1>3, RowsUpdate
<1>5. r \in DOMAIN Rows /\ Rows[r].state = "reserved"
  BY <1>1 DEF Rows, RowOf
<1>6. RunLedger!Attach(r)
  BY <1>4, <1>5 DEF RunLedger!Attach
<1> QED
  BY <1>5, <1>6, Zenon DEF RunLedger!Next

(* A disposition closes a row: any outcome ends a run whose process was    *)
(* recorded, only a failure ends one that is still reserved.               *)
LEMMA CloseRow ==
    ASSUME TypeOK, NEW r \in DOMAIN runs, NEW outcome \in {"push", "failed", "asked", "continued"},
           RecordDisposition(r, outcome), runs[r].pgid \/ outcome = "failed"
    PROVE  RunLedger!Next
<1> DEFINE run == [runs[r] EXCEPT !.outcome = outcome]
<1>1. runs[r] \in Run /\ runs[r].outcome = "none"
  BY RunRow DEF TypeOK, RecordDisposition
<1>2. runs' = [runs EXCEPT ![r] = run]
  BY <1>1 DEF RecordDisposition
<1>3. /\ DOMAIN runs' = DOMAIN runs
      /\ \A q \in DOMAIN runs \ {r} : runs'[q] = runs[q]
      /\ RowOf(runs'[r]) = [RowOf(runs[r]) EXCEPT !.state = outcome]
  BY <1>1, <1>2 DEF RowOf, Run
<1>4. Rows' = [Rows EXCEPT ![r].state = outcome]
  BY <1>1, <1>3, RowsUpdate
<1>5. r \in DOMAIN Rows /\ Rows[r].state = IF runs[r].pgid THEN "running" ELSE "reserved"
  BY <1>1 DEF Rows, RowOf
<1>6. outcome \in RunLedger!Ended
  BY DEF RunLedger!Ended
<1>7. RunLedger!Close(r, outcome)
  BY <1>4, <1>5, <1>6 DEF RunLedger!Close
<1> QED
  BY <1>5, <1>6, <1>7, Zenon DEF RunLedger!Next

(* Every step of the loop, seen through Rows, is a step of the ledger or   *)
(* leaves it alone.                                                        *)
LEMMA LedgerStep == TypeOK /\ LaunchInv /\ LedgerInv /\ [Next]_vars => [RunLedger!Next]_Rows
<1> SUFFICES ASSUME TypeOK, LaunchInv, LedgerInv, [Next]_vars PROVE [RunLedger!Next]_Rows
  OBVIOUS
<1>1. CASE UNCHANGED runs
  BY <1>1 DEF Rows, RowOf
<1>2. CASE CutFails
  BY <1>2, OpenRow DEF CutFails
<1>3. CASE InsertRunSkeleton
  BY <1>3, OpenRow DEF InsertRunSkeleton
<1>4. CASE RecordSpawn
  BY <1>4, AttachRow
<1>5. CASE SpawnFails
  <2>1. sp.run \in DOMAIN runs /\ RecordDisposition(sp.run, "failed")
    BY <1>5 DEF SpawnFails, TypeOK, SpawnOK
  <2> QED
    BY <2>1, CloseRow
<1>6. ASSUME NEW r \in todo, ReconcileRun(r)
      PROVE  [RunLedger!Next]_Rows
  <2>1. r \in DOMAIN runs /\ runs[r].pgid
    BY <1>6 DEF ReconcileRun, LedgerInv, PendingRuns
  <2>2. UNCHANGED runs \/ \E o : DisposeRun(r, o)
    BY <1>6, Zenon DEF ReconcileRun
  <2>3. ASSUME NEW o, DisposeRun(r, o)
        PROVE  RunLedger!Next
    <3>1. OutcomeFor(r, o) \in {"push", "failed", "asked", "continued"}
      BY DEF OutcomeFor
    <3> QED
      BY <2>1, <2>3, <3>1, CloseRow DEF DisposeRun
  <2> QED
    BY <1>1, <2>2, <2>3
<1>7. CASE Observe \/ ApplyLaunchIntents \/ ApplyCancel \/ CancelsDone \/ ApplyKill
           \/ InterruptForFollowUps \/ SaveObservation
  BY <1>1, <1>7
  DEF Observe, ApplyLaunchIntents, ApplyCancel, CancelsDone, ApplyKill, InterruptForFollowUps,
      SaveObservation, dbVars
<1>8. CASE ReRunInWorktree \/ ReRunByCutting \/ FollowUpOne \/ ConsumeVerbIntent
           \/ PlanLaunches \/ LaunchEligible \/ EndTick \/ Fault
  BY <1>1, <1>8
  DEF ReRunInWorktree, ReRunByCutting, FollowUpOne, ConsumeVerbIntent, PlanLaunches, LaunchEligible,
      EndTick, Fault, dbVars
<1>9. CASE CutWorktree \/ Spawn
  BY <1>1, <1>9 DEF CutWorktree, Spawn, dbVars
<1>10. CASE Environment
  <2>1. UNCHANGED runs
    BY <1>10, Zenon DEF Environment, Click, Commit, Exit, ReviewPR, dbVars
  <2> QED
    BY <1>1, <2>1
<1>11. CASE UNCHANGED vars
  BY <1>1, <1>11 DEF vars, dbVars
<1> QED
  BY <1>2, <1>3, <1>4, <1>5, <1>6, <1>7, <1>8, <1>9, <1>10, <1>11 DEF Next, Loop, Spawner

(* An empty runs table is an empty ledger. *)
LEMMA LedgerStart == Init => RunLedger!Init
  BY DEF Init, RunLedger!Init, Rows

(* The loop implements the ledger for every set of tickets and every       *)
(* number of clicks and faults: RunLoop refines Ledger under Rows.         *)
THEOREM LoopKeepsLedger == Spec => RunsFormALedger
<1>1. Spec => []TypeOK
  BY TypeCorrect
<1>2. Spec => []LaunchInv
  BY <1>1, LaunchInvInit, LaunchInvStep, PTL DEF Spec
<1>3. Spec => []LedgerInv
  BY <1>1, <1>2, LedgerInvInit, LedgerInvStep, PTL DEF Spec
<1> QED
  BY <1>1, <1>2, <1>3, LedgerStart, LedgerStep, PTL DEF Spec, RunsFormALedger, RunLedger!Spec

=============================================================================
