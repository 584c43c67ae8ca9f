--------------------------- MODULE PublishProofs ----------------------------
(***************************************************************************)
(* Nothing that was published is lost, whatever the others add to their    *)
(* branches and whatever events happen: not what a reviewer pushed, not    *)
(* what the agent committed, not what a removed worktree held.  And a row  *)
(* asks for review only when CI was green on the tip that was pushed.      *)
(*                                                                         *)
(* The branch changes in three ways.  A merge only adds.  A plain push is  *)
(* a fast-forward.  A restack drops the patches of its boundary, and a     *)
(* forced push may then drop them from the remote branch: the boundary is  *)
(* where the merged base ended, so its patches are on main (BaseInv,       *)
(* RowInv), or else the base still descends from it and nothing is         *)
(* restacked.  The lease makes the overwritten tip the one last pushed,    *)
(* whose patches the branch still has (WorkInv).                           *)
(***************************************************************************)
EXTENDS Publish, FiniteSetTheorems, TLAPS

-----------------------------------------------------------------------------
(* The invariants.                                                         *)

(* The tick has observed and not yet ended. *)
Active == phase \notin {"idle", "observe"}

(* The fields of the records. *)
TipNames == {"main", "b", "t"}
RowNames == {"tip", "base", "baseSHA"}
ObsNames == {"tips", "blocker", "pr", "worktree", "local", "mid", "alive", "conflictsWithMain", "spawned", "aborted"}
PRNames  == {"state", "head", "base", "checks"}

ShapeInv ==
    /\ DOMAIN remote = TipNames /\ DOMAIN track = TipNames
    /\ DOMAIN blocker = {"state", "head"} /\ DOMAIN pr = PRNames
    /\ DOMAIN push = RowNames /\ (Active => DOMAIN snap.push = RowNames)
    /\ DOMAIN obs = ObsNames
    /\ phase \in Phases

(* The blocker's branch grows until it merges, and its patches are then on *)
(* main; the refs of the last fetch are not ahead; and during a tick       *)
(* nobody moves the blocker.                                               *)
BaseInv ==
    /\ blocker.state \in {"open", "merged", "closed"}
    /\ track.main \subseteq remote.main
    /\ blocker.state # "merged" => remote.b = blocker.head /\ track.b \subseteq remote.b
    /\ blocker.state = "merged" => remote.b = {} /\ Patches(blocker.head) \subseteq Patches(remote.main)
    /\ Patches(track.b) \subseteq Patches(blocker.head)
    /\ Patches(blocker.head) \subseteq OthersPatches
    /\ Active => obs.blocker = blocker

(* The patches a restack may drop. *)
Gone == IF blocker.state = "merged" THEN Patches(blocker.head) ELSE {}

(* The base of a pushed row is still an ancestor of the branch it names,   *)
(* or the row was re-pointed when that base merged.                        *)
RowOK(row) ==
    /\ row.base \in {"", "main", "b"}
    /\ row.base = "" => row.baseSHA = {}
    /\ row.base = "b" /\ blocker.state # "merged" => row.baseSHA \subseteq track.b
    /\ row.base = "b" => Patches(row.baseSHA) \subseteq Patches(blocker.head)
    /\ row.base = "main" =>
          /\ blocker.state = "merged"
          /\ row.baseSHA \subseteq track.main \/ Patches(row.baseSHA) \subseteq Patches(blocker.head)

RowInv ==
    /\ RowOK(push)
    /\ phase \in {"verbs", "retarget", "refresh", "retry"} => RowOK(snap.push) /\ snap.push.tip = push.tip

(* The branch, what an unfinished merge or rebase would make of it, and    *)
(* what the tick read of it keep the patches of the last push.             *)
WorkInv ==
    /\ worktree \in {"present", "gone"}
    /\ worktree = "present" => Patches(push.tip) \subseteq Patches(local) \cup Gone
    /\ mid # NoMid => worktree = "present" /\ Patches(local) \subseteq Patches(mid.result) \cup Gone
    /\ phase \in {"retry", "remove", "removable_by_merged", "removable_by_force", "close-issue", "push"} =>
          (worktree = "present" => Patches(obs.local) \subseteq Patches(local) \cup Gone)
    /\ phase \in {"verbs", "retarget", "refresh", "retry", "remove"} => (obs.worktree => worktree = "present")
    /\ phase \in {"removable_by_merged", "removable_by_force"} => mid = NoMid

(* What is on GitHub. *)
Published == Patches(remote.t) \cup Patches(remote.main)

(* What was pushed, shown, fetched or proved is still on GitHub. *)
PublishedInv ==
    /\ reviewed \subseteq Published
    /\ Patches(track.t) \subseteq Published
    /\ Patches(push.tip) \subseteq Published
    /\ pr.state = "open" => pr.head = remote.t
    /\ Patches(pr.head) \subseteq Published
    /\ Patches(obs.pr.head) \subseteq Published
    /\ Active => Patches(snap.push.tip) \subseteq Published
    /\ phase = "removable_by_force" => Patches(obs.local) \subseteq Published

KeptInv == ShapeInv /\ BaseInv /\ RowInv /\ WorkInv /\ PublishedInv

-----------------------------------------------------------------------------
(* Patches.                                                                *)

(* More commits, more patches. *)
LEMMA PatchesGrow ==
    ASSUME NEW S, NEW T, S \subseteq T
    PROVE  Patches(S) \subseteq Patches(T)
  BY DEF Patches

(* The patches of a merge are those of both sides. *)
LEMMA PatchesUnion ==
    ASSUME NEW S, NEW T
    PROVE  Patches(S \cup T) = Patches(S) \cup Patches(T) /\ Patches({}) = {}
  BY DEF Patches

(* A squash merge puts every patch of the branch on main. *)
LEMMA SquashKeeps ==
    ASSUME NEW main, NEW tip
    PROVE  main \subseteq SquashInto(main, tip) /\ Patches(tip) \subseteq Patches(SquashInto(main, tip))
<1> DEFINE New == {<<p, Squashed>> : p \in Patches(tip) \ Patches(main)}
<1>1. SquashInto(main, tip) = main \cup New
  BY DEF SquashInto
<1>2. Patches(tip) \ Patches(main) \subseteq Patches(New)
  <2> SUFFICES ASSUME NEW p \in Patches(tip) \ Patches(main) PROVE \E c \in New : p = c[1]
    BY DEF Patches
  <2>1. <<p, Squashed>> \in New /\ <<p, Squashed>>[1] = p
    OBVIOUS
  <2> QED
    BY <2>1
<1> HIDE DEF New
<1> QED
  BY <1>1, <1>2, PatchesUnion

(* A rebase drops no patch but those of its upstream. *)
LEMMA RebaseKeeps ==
    ASSUME NEW tip, NEW onto, NEW upstream
    PROVE  /\ onto \subseteq Rebase(tip, onto, upstream)
           /\ Patches(tip) \subseteq Patches(Rebase(tip, onto, upstream)) \cup Patches(upstream)
<1> DEFINE Carried == {c \in tip \ upstream : c[1] \notin Patches(upstream) \cup Patches(onto)}
           Copies == {<<c[1], c[2] + 1>> : c \in Carried}
<1>1. Rebase(tip, onto, upstream) = onto \cup Copies
  BY DEF Rebase
<1>2. ASSUME NEW c \in tip, c[1] \notin Patches(upstream), c[1] \notin Patches(onto)
      PROVE  c[1] \in Patches(Copies)
  <2>1. c \notin upstream
    BY <1>2 DEF Patches
  <2>2. c \in Carried
    BY <1>2, <2>1
  <2>3. <<c[1], c[2] + 1>> \in Copies /\ <<c[1], c[2] + 1>>[1] = c[1]
    BY <2>2
  <2> HIDE DEF Copies
  <2> QED
    BY <2>3 DEF Patches
<1> HIDE DEF Copies
<1>3. Patches(Rebase(tip, onto, upstream)) = Patches(onto) \cup Patches(Copies)
  BY <1>1, PatchesUnion
<1>4. ASSUME NEW p \in Patches(tip)
      PROVE  p \in Patches(Rebase(tip, onto, upstream)) \cup Patches(upstream)
  <2>1. PICK c \in tip : p = c[1]
    BY DEF Patches
  <2> QED
    BY <1>2, <1>3, <2>1
<1> QED
  BY <1>1, <1>4

(* Nothing happens to the patches of a base that merged. *)
LEMMA SameGone == UNCHANGED blocker => Gone' = Gone
  BY DEF Gone

-----------------------------------------------------------------------------
(* Carrying the branch forward.                                            *)

(* What refreshOne fast-forwards to, and what it then makes of it. *)
Forwarded == IF Ancestor(local, track.t) THEN track.t ELSE local
OntoBase(row) ==
    LET ref == track[Unlock(obs).base]
    IN  IF RestackBoundary(row) = {} \/ Ancestor(RestackBoundary(row), ref)
        THEN Forwarded \cup ref ELSE Rebase(Forwarded, ref, RestackBoundary(row))

(* The four ends of refreshOne. *)
LEMMA RefreshCases ==
    ASSUME NEW row, NEW requested, NEW log0, NEW next, RefreshOne(row, requested, log0, next)
    PROVE  \/ UNCHANGED <<local, mid>>
           \/ /\ obs.worktree /\ mid = NoMid
              /\ \/ local' = Forwarded /\ UNCHANGED mid
                 \/ /\ Unlock(obs).unlocked /\ UNCHANGED mid /\ local' = OntoBase(row)
                 \/ /\ Unlock(obs).unlocked /\ local' = Forwarded
                    /\ \E kind : mid' = [kind |-> kind, result |-> OntoBase(row)]
  BY Zenon DEF RefreshOne, IdleWorktree, RefusesFF, Forwarded, OntoBase

(* The base the branch is carried onto. *)
LEMMA UnlockedBase ==
    ASSUME Unlock(obs).unlocked, obs.blocker.state \in {"open", "merged", "closed"}
    PROVE  \/ obs.blocker.state = "open" /\ Unlock(obs).base = "b"
           \/ obs.blocker.state = "merged" /\ Unlock(obs).base = "main"
  BY DEF Unlock

(* Carrying the branch forward drops no patch but those of a merged base. *)
LEMMA CarriedForward ==
    ASSUME BaseInv, Active, NEW row, RowOK(row), Unlock(obs).unlocked
    PROVE  /\ Patches(local) \subseteq Patches(Forwarded)
           /\ Patches(Forwarded) \subseteq Patches(OntoBase(row)) \cup Gone
<1>1. Patches(local) \subseteq Patches(Forwarded)
  BY PatchesGrow DEF Forwarded, Ancestor
<1>2. obs.blocker = blocker /\ blocker.state \in {"open", "merged", "closed"}
  BY DEF BaseInv
<1> DEFINE ref == track[Unlock(obs).base]
           boundary == RestackBoundary(row)
<1>3. CASE boundary = {} \/ Ancestor(boundary, ref)
  <2>1. OntoBase(row) = Forwarded \cup ref
    BY <1>3 DEF OntoBase
  <2> QED
    BY <1>1, <2>1, PatchesUnion
<1>4. CASE ~(boundary = {} \/ Ancestor(boundary, ref))
  <2>1. OntoBase(row) = Rebase(Forwarded, ref, boundary)
    BY <1>4 DEF OntoBase
  <2>2. blocker.state = "merged" /\ Patches(boundary) \subseteq Patches(blocker.head)
    <3>1. CASE row.base = "b" /\ blocker.state = "merged"
      BY <1>2, <3>1 DEF RestackBoundary
    <3>2. CASE row.base = "b" /\ blocker.state = "open"
      <4>1. ref = track.b /\ boundary = row.baseSHA
        BY <1>2, <3>2, UnlockedBase DEF RestackBoundary
      <4> QED
        BY <1>4, <3>2, <4>1 DEF RowOK, Ancestor
    <3>3. CASE row.base = "main"
      <4>1. ref = track.main /\ boundary = row.baseSHA
        BY <1>2, <3>3, UnlockedBase DEF RestackBoundary, RowOK
      <4> QED
        BY <1>4, <3>3, <4>1 DEF RowOK, Ancestor
    <3>4. CASE row.base = ""
      BY <1>4, <3>4 DEF RestackBoundary, RowOK
    <3> QED
      BY <1>2, <3>1, <3>2, <3>3, <3>4, UnlockedBase DEF RowOK
  <2>3. Patches(Forwarded) \subseteq Patches(Rebase(Forwarded, ref, boundary)) \cup Patches(boundary)
    BY RebaseKeeps
  <2> HIDE DEF ref, boundary
  <2> QED
    BY <1>1, <2>1, <2>2, <2>3 DEF Gone
<1> QED
  BY <1>3, <1>4

(* refreshOne keeps the patches of the branch, in it or in the unfinished  *)
(* merge or rebase, short of those of a merged base.                       *)
LEMMA RefreshKeeps ==
    ASSUME KeptInv, phase \in {"retarget", "refresh"}, NEW row, RowOK(row),
           NEW requested, NEW log0, NEW next, RefreshOne(row, requested, log0, next)
    PROVE  /\ Patches(local) \subseteq Patches(local') \cup Gone
           /\ mid' # NoMid => worktree = "present" /\ Patches(local') \subseteq Patches(mid'.result) \cup Gone
           /\ mid # NoMid => UNCHANGED <<local, mid>>
<1>1. Active /\ BaseInv /\ WorkInv
  BY DEF Active, KeptInv
<1>2. Patches(local) \subseteq Patches(Forwarded)
  BY PatchesGrow DEF Forwarded, Ancestor
<1>3. Unlock(obs).unlocked => Patches(Forwarded) \subseteq Patches(OntoBase(row)) \cup Gone
  BY <1>1, CarriedForward
<1>4. obs.worktree => worktree = "present"
  BY <1>1 DEF WorkInv
<1>5. mid # NoMid => worktree = "present" /\ Patches(local) \subseteq Patches(mid.result) \cup Gone
  BY <1>1 DEF WorkInv
<1>6. CASE UNCHANGED <<local, mid>>
  BY <1>5, <1>6
<1>7. CASE mid = NoMid /\ local' = Forwarded /\ UNCHANGED mid
  BY <1>2, <1>7
<1>8. CASE mid = NoMid /\ UNCHANGED mid /\ local' = OntoBase(row) /\ Unlock(obs).unlocked
  BY <1>2, <1>3, <1>8
<1>9. CASE /\ obs.worktree /\ mid = NoMid /\ Unlock(obs).unlocked /\ local' = Forwarded
           /\ \E kind : mid' = [kind |-> kind, result |-> OntoBase(row)]
  <2>1. mid'.result = OntoBase(row)
    BY <1>9
  <2> QED
    BY <1>2, <1>3, <1>4, <1>9, <2>1
<1> QED
  BY <1>6, <1>7, <1>8, <1>9, RefreshCases

-----------------------------------------------------------------------------
(* Pushing.                                                                *)

(* The remote branch, where it is known here and the pull request, before   *)
(* and after a push that git accepted; and the row of one that is recorded. *)
Moved == /\ remote' = [remote EXCEPT !.t = local]
         /\ track' = [track EXCEPT !.t = local]
Row == [tip |-> obs.local, base |-> Unlock(obs).base, baseSHA |-> track[Unlock(obs).base]]
Opened == [state |-> "open", head |-> local, base |-> Unlock(obs).base, checks |-> {}]

(* The ends of pushOne: nothing is pushed, or the branch is, with or        *)
(* without a row.                                                          *)
LEMMA PushCases ==
    ASSUME NEW s, PushOne(s)
    PROVE  \/ UNCHANGED <<remote, track, pr, push>>
           \/ /\ PushBranch(s) /\ Moved
              /\ pr' = Shown(pr, local) \/ (pr.state # "open" /\ pr' = Opened)
              /\ push' = Row \/ UNCHANGED push
  BY Zenon DEF PushOne, Record, RecordPush, Moved, Row, Opened

(* What a push overwrites is in the branch, or was squashed into main. *)
LEMMA PushOverwrites ==
    ASSUME KeptInv, worktree = "present", NEW s, s.push.tip = push.tip, PushBranch(s)
    PROVE  Patches(remote.t) \subseteq Patches(local) \cup Gone
<1>1. CASE PushAccepted(local)
  BY <1>1, PatchesGrow DEF PushAccepted, Ancestor
<1>2. CASE LeaseHolds(s.push.tip)
  BY <1>2 DEF LeaseHolds, KeptInv, WorkInv
<1> QED
  BY <1>1, <1>2 DEF PushBranch

(* The patches of a merged base are on main. *)
LEMMA GoneIsOnMain ==
    ASSUME BaseInv
    PROVE  Gone \subseteq Patches(remote.main) /\ Gone \subseteq OthersPatches
  BY DEF BaseInv, Gone

(* A push loses nothing that was published, and its row is about a base    *)
(* that the remote-tracking ref of that base still has.                    *)
LEMMA PushKeeps ==
    ASSUME KeptInv, phase \in {"retry", "push"}, worktree = "present", Unlock(obs).unlocked,
           NEW s, s.push.tip = push.tip, PushOne(s), UNCHANGED <<blocker, local, obs>>
    PROVE  /\ Published \subseteq Published'
           /\ DOMAIN remote' = TipNames /\ DOMAIN track' = TipNames /\ DOMAIN pr' = PRNames /\ DOMAIN push' = RowNames
           /\ remote'.main = remote.main /\ remote'.b = remote.b
           /\ track'.main = track.main /\ track'.b = track.b
           /\ RowOK(push)'
           /\ Patches(push'.tip) \subseteq Patches(local) \cup Gone
           /\ Patches(track'.t) \subseteq Published'
           /\ pr'.state = "open" => pr'.head = remote'.t
           /\ Patches(pr'.head) \subseteq Published'
<1>1. /\ Active /\ ShapeInv /\ BaseInv /\ WorkInv /\ PublishedInv /\ RowOK(push)
      /\ Gone \subseteq Patches(remote.main) /\ obs.blocker = blocker
      /\ blocker.state \in {"open", "merged", "closed"}
  BY GoneIsOnMain DEF Active, KeptInv, RowInv, BaseInv
<1>2. CASE UNCHANGED <<remote, track, pr, push>>
  BY <1>1, <1>2 DEF ShapeInv, RowOK, WorkInv, PublishedInv, Published, KeptInv
<1>3. CASE /\ PushBranch(s) /\ Moved
           /\ pr' = Shown(pr, local) \/ (pr.state # "open" /\ pr' = Opened)
           /\ push' = Row \/ UNCHANGED push
  <2>1. /\ remote'.t = local /\ track'.t = local
        /\ remote'.main = remote.main /\ remote'.b = remote.b
        /\ track'.main = track.main /\ track'.b = track.b
        /\ DOMAIN remote' = TipNames /\ DOMAIN track' = TipNames
    BY <1>1, <1>3 DEF Moved, ShapeInv, TipNames
  <2>2. Published' = Patches(local) \cup Patches(remote.main)
    BY <2>1 DEF Published
  <2>3. Published \subseteq Published'
    BY <1>1, <1>3, <2>2, PushOverwrites DEF Published
  <2>4. /\ DOMAIN pr' = PRNames
        /\ pr'.state = "open" => pr'.head = local
        /\ pr'.head = local \/ pr'.head = pr.head
    <3>1. CASE pr' = Shown(pr, local)
      BY <1>1, <3>1 DEF Shown, ShapeInv, PRNames
    <3>2. CASE pr' = Opened
      BY <3>2 DEF Opened, PRNames
    <3> QED
      BY <1>3, <3>1, <3>2
  <2>5. Patches(pr'.head) \subseteq Published'
    BY <1>1, <2>2, <2>3, <2>4 DEF PublishedInv
  <2>6. CASE UNCHANGED push
    <3>1. RowOK(push)'
      BY <1>1, <2>1, <2>6 DEF RowOK
    <3> QED
      BY <1>1, <2>1, <2>2, <2>3, <2>4, <2>5, <2>6, <3>1 DEF ShapeInv, WorkInv
  <2>7. CASE push' = Row
    <3>1. push'.tip = obs.local /\ DOMAIN push' = RowNames
      BY <2>7 DEF Row, RowNames
    <3>2. Patches(obs.local) \subseteq Patches(local) \cup Gone
      BY <1>1 DEF WorkInv
    <3>3. push'.base = Unlock(obs).base /\ push'.baseSHA = track[Unlock(obs).base]
      BY <2>7 DEF Row
    <3>4. RowOK(push)'
      <4>1. \/ blocker.state = "open" /\ push'.base = "b"
            \/ blocker.state = "merged" /\ push'.base = "main"
        BY <1>1, <3>3, UnlockedBase
      <4>2. CASE blocker.state = "open" /\ push'.base = "b"
        <5>1. push'.baseSHA = track.b /\ track'.b = track.b /\ blocker' = blocker
          BY <2>1, <3>3, <4>2
        <5>2. Patches(track.b) \subseteq Patches(blocker.head)
          BY <1>1 DEF BaseInv
        <5> QED
          BY <4>2, <5>1, <5>2 DEF RowOK
      <4>3. CASE blocker.state = "merged" /\ push'.base = "main"
        <5>1. push'.baseSHA = track.main /\ track'.main = track.main /\ blocker' = blocker
          BY <2>1, <3>3, <4>3
        <5> QED
          BY <4>3, <5>1 DEF RowOK
      <4> QED
        BY <4>1, <4>2, <4>3
    <3> QED
      BY <2>1, <2>2, <2>3, <2>4, <2>5, <3>1, <3>2, <3>4
  <2> QED
    BY <1>3, <2>6, <2>7
<1> QED
  BY <1>2, <1>3, PushCases

-----------------------------------------------------------------------------
(* The invariant is kept: the steps of the tick.                           *)

(* The ticket starts unpublished, on the blocker's branch. *)
LEMMA KeptInit == Init => KeptInv
<1> SUFFICES ASSUME Init PROVE KeptInv
  OBVIOUS
<1> DEFINE main == {<<"m0", 0>>}
           base == main \cup {<<"b1", 0>>}
<1>1. /\ remote = [main |-> main, b |-> base, t |-> {}] /\ track = remote
      /\ blocker = [state |-> "open", head |-> base] /\ pr = NoPR /\ push = NoPush
      /\ worktree = "present" /\ mid = NoMid /\ phase = "idle" /\ reviewed = {}
      /\ obs = [tips |-> remote, blocker |-> blocker, pr |-> Decode(pr), worktree |-> TRUE, local |-> local,
                mid |-> FALSE, alive |-> FALSE, conflictsWithMain |-> FALSE,
                spawned |-> FALSE, aborted |-> FALSE]
  BY DEF Init
<1>2. Patches(base) = {"m0", "b1"} /\ Patches({}) = {}
  BY DEF Patches
<1>3. obs.pr.head = {}
  BY <1>1 DEF Decode, NoPR
<1> HIDE DEF main, base
<1>4. ShapeInv
  BY <1>1 DEF ShapeInv, TipNames, PRNames, RowNames, ObsNames, NoPR, NoPush, Active, Phases
<1>5. BaseInv
  BY <1>1, <1>2 DEF BaseInv, Active, OthersPatches
<1>6. RowInv
  BY <1>1 DEF RowInv, RowOK, NoPush
<1>7. WorkInv
  BY <1>1, <1>2 DEF WorkInv, NoPush
<1>8. PublishedInv
  BY <1>1, <1>2, <1>3 DEF PublishedInv, NoPR, NoPush, Active
<1> QED
  BY <1>4, <1>5, <1>6, <1>7, <1>8 DEF KeptInv

(* After a fetch the refs are those of GitHub. *)
LEMMA FetchKeeps == KeptInv /\ Fetch => KeptInv'
<1> SUFFICES ASSUME KeptInv, Fetch PROVE KeptInv'
  OBVIOUS
<1>1. /\ phase = "idle" /\ track' = remote /\ phase' \in {"idle", "observe"}
      /\ UNCHANGED <<remote, blocker, pr, local, worktree, mid, push, obs, reviewed>>
  BY DEF Fetch, github, work, store, history
<1>2. ShapeInv'
  BY <1>1 DEF KeptInv, ShapeInv, Active, Phases
<1>3. BaseInv'
  BY <1>1, PatchesUnion DEF KeptInv, BaseInv, Active
<1>4. RowOK(push)'
  BY <1>1 DEF KeptInv, RowInv, BaseInv, RowOK
<1>5. WorkInv'
  BY <1>1 DEF KeptInv, WorkInv, Gone
<1>6. PublishedInv'
  BY <1>1 DEF KeptInv, PublishedInv, Published, Active
<1> QED
  BY <1>1, <1>2, <1>3, <1>4, <1>5, <1>6 DEF KeptInv, RowInv

(* The tick reads what there is. *)
LEMMA ObserveKeeps == KeptInv /\ Observe => KeptInv'
<1> SUFFICES ASSUME KeptInv, Observe PROVE KeptInv'
  OBVIOUS
<1>1. /\ phase' \in {"retarget", "verbs"}
      /\ UNCHANGED <<remote, track, blocker, pr, local, worktree, mid, push, reviewed>>
  BY DEF Observe, github, work, store, history
<1>2. /\ DOMAIN obs' = ObsNames /\ obs'.blocker = blocker /\ obs'.worktree = (worktree = "present")
      /\ obs'.pr = Decode(pr)
  BY DEF Observe, ObsNames
<1>3. obs'.pr.head = pr.head
  BY <1>2 DEF Decode, KeptInv, ShapeInv, PRNames
<1>4. snap'.push = push
  BY Zenon DEF Observe, Snapshot
<1>5. ShapeInv'
  BY <1>1, <1>2, <1>4 DEF KeptInv, ShapeInv, Phases
<1>6. BaseInv'
  BY <1>1, <1>2 DEF KeptInv, BaseInv
<1>7. RowInv'
  BY <1>1, <1>4 DEF KeptInv, RowInv, RowOK
<1>8. WorkInv'
  BY <1>1, <1>2 DEF KeptInv, WorkInv, Gone
<1>9. PublishedInv'
  BY <1>1, <1>3, <1>4 DEF KeptInv, PublishedInv, Published
<1> QED
  BY <1>5, <1>6, <1>7, <1>8, <1>9 DEF KeptInv

(* A message or an abort leaves the branch alone. *)
LEMMA FollowUpKeeps == KeptInv /\ FollowUpAndAbort => KeptInv'
<1> SUFFICES ASSUME KeptInv, FollowUpAndAbort PROVE KeptInv'
  OBVIOUS
<1>1. /\ phase = "verbs" /\ phase' = "retarget" /\ (mid' = NoMid \/ mid' = mid)
      /\ UNCHANGED <<remote, track, blocker, pr, local, worktree, push, snap, reviewed>>
  BY DEF FollowUpAndAbort, github, history
<1>2. \E speaks, aborts : obs' = [obs EXCEPT !.spawned = speaks, !.aborted = aborts]
  BY DEF FollowUpAndAbort
<1>3. /\ DOMAIN obs' = ObsNames /\ obs'.blocker = obs.blocker /\ obs'.worktree = obs.worktree
      /\ obs'.pr = obs.pr /\ obs'.local = obs.local
  BY <1>2 DEF KeptInv, ShapeInv, ObsNames
<1>4. ShapeInv'
  BY <1>1, <1>3 DEF KeptInv, ShapeInv, Phases, Active
<1>5. BaseInv'
  BY <1>1, <1>3 DEF KeptInv, BaseInv, Active
<1>6. RowInv'
  BY <1>1 DEF KeptInv, RowInv, RowOK
<1>7. WorkInv'
  BY <1>1, <1>3 DEF KeptInv, WorkInv, Gone
<1>8. PublishedInv'
  BY <1>1, <1>3 DEF KeptInv, PublishedInv, Published, Active
<1> QED
  BY <1>4, <1>5, <1>6, <1>7, <1>8 DEF KeptInv

(* A row that is re-pointed at main keeps its tip, and the boundary of its *)
(* next restack is where the merged base ended.                            *)
LEMMA RetargetKeeps == KeptInv /\ Retarget => KeptInv'
<1> SUFFICES ASSUME KeptInv, Retarget PROVE KeptInv'
  OBVIOUS
<1>1. /\ phase = "retarget" /\ phase' \in {"refresh", "idle"}
      /\ UNCHANGED <<remote, track, blocker, worktree, obs, reviewed>>
      /\ phase' = "refresh" => snap' = snap
  BY Zenon DEF Retarget, history, EndTick, RefreshOne
<1>2. /\ DOMAIN pr' = PRNames /\ pr'.state = pr.state /\ pr'.head = pr.head
      /\ DOMAIN push' = RowNames /\ push'.tip = push.tip /\ RowOK(push')
      /\ Patches(local) \subseteq Patches(local') \cup Gone
      /\ mid' # NoMid => worktree = "present" /\ Patches(local') \subseteq Patches(mid'.result) \cup Gone
  <2>1. CASE UNCHANGED <<pr, local, mid, push>>
    BY <2>1 DEF KeptInv, ShapeInv, RowInv, WorkInv
  <2>2. CASE /\ Retargets
             /\ pr' = [pr EXCEPT !.base = "main"]
             /\ push' = [snap.push EXCEPT !.base = "main"]
             /\ RefreshOne(snap.push, FALSE, <<>>, "refresh")
    <3>1. /\ RowOK(snap.push) /\ snap.push.tip = push.tip /\ snap.push.base = "b" /\ blocker.state = "merged"
          /\ DOMAIN snap.push = RowNames
      BY <1>1, <2>2 DEF KeptInv, RowInv, ShapeInv, BaseInv, Active, Retargets
    <3>2. /\ DOMAIN push' = RowNames /\ push'.tip = push.tip /\ push'.base = "main" /\ push'.baseSHA = snap.push.baseSHA
      BY <2>2, <3>1 DEF RowNames
    <3>3. RowOK(push')
      BY <3>1, <3>2 DEF RowOK
    <3>4. DOMAIN pr' = PRNames /\ pr'.state = pr.state /\ pr'.head = pr.head
      BY <2>2 DEF KeptInv, ShapeInv, PRNames
    <3> QED
      BY <1>1, <2>2, <3>1, <3>2, <3>3, <3>4, RefreshKeeps
  <2> QED
    BY Zenon, <2>1, <2>2 DEF Retarget
<1>3. Gone' = Gone
  BY <1>1, SameGone
<1>4. ShapeInv'
  BY <1>1, <1>2 DEF KeptInv, ShapeInv, Phases, Active
<1>5. BaseInv'
  BY <1>1 DEF KeptInv, BaseInv, Active
<1>6. RowInv'
  <2>1. RowOK(push)'
    BY <1>1, <1>2 DEF RowOK
  <2>2. phase' = "refresh" => snap'.push = snap.push /\ RowOK(snap.push)' /\ snap.push.tip = push.tip
    BY <1>1 DEF KeptInv, RowInv, RowOK
  <2> QED
    BY <1>1, <1>2, <2>1, <2>2 DEF RowInv
<1>7. WorkInv'
  BY <1>1, <1>2, <1>3 DEF KeptInv, WorkInv
<1>8. PublishedInv'
  BY <1>1, <1>2 DEF KeptInv, PublishedInv, Published, Active
<1> QED
  BY <1>4, <1>5, <1>6, <1>7, <1>8 DEF KeptInv

(* Carrying the branch forward, and reading its tip again. *)
LEMMA RefreshStepKeeps == KeptInv /\ Refresh => KeptInv'
<1> SUFFICES ASSUME KeptInv, Refresh PROVE KeptInv'
  OBVIOUS
<1>1. /\ phase = "refresh" /\ phase' \in {"retry", "remove", "push", "idle"}
      /\ UNCHANGED <<remote, track, blocker, pr, worktree, push, reviewed>>
      /\ phase' # "idle" => snap' = snap
  BY Zenon DEF Refresh, github, history, EndTick, RefreshOne, AfterRefresh
<1>2. /\ Patches(local) \subseteq Patches(local') \cup Gone
      /\ mid' # NoMid => worktree = "present" /\ Patches(local') \subseteq Patches(mid'.result) \cup Gone
  <2>1. CASE UNCHANGED <<local, mid>>
    BY <2>1 DEF KeptInv, WorkInv
  <2>2. CASE RefreshOne(snap.push, Asks("refresh"), log, AfterRefresh)
    <3>1. RowOK(snap.push)
      BY <1>1 DEF KeptInv, RowInv
    <3> QED
      BY <1>1, <2>2, <3>1, RefreshKeeps
  <2> QED
    BY Zenon, <2>1, <2>2 DEF Refresh
<1>3. /\ DOMAIN obs' = ObsNames /\ obs'.blocker = obs.blocker /\ obs'.worktree = obs.worktree
      /\ obs'.pr = obs.pr /\ obs'.local = local'
  BY DEF Refresh, KeptInv, ShapeInv, ObsNames
<1>4. Gone' = Gone
  BY <1>1, SameGone
<1>5. ShapeInv'
  BY <1>1, <1>3 DEF KeptInv, ShapeInv, Phases, Active
<1>6. BaseInv'
  BY <1>1, <1>3 DEF KeptInv, BaseInv, Active
<1>7. RowInv'
  BY <1>1 DEF KeptInv, RowInv, RowOK
<1>8. WorkInv'
  BY <1>1, <1>2, <1>3, <1>4 DEF KeptInv, WorkInv
<1>9. PublishedInv'
  BY <1>1, <1>3 DEF KeptInv, PublishedInv, Published, Active
<1> QED
  BY <1>5, <1>6, <1>7, <1>8, <1>9 DEF KeptInv

(* A push within the tick. *)
LEMMA PushStepKeeps ==
    ASSUME KeptInv, phase \in {"retry", "push"}, worktree = "present", Unlock(obs).unlocked,
           NEW s, s.push.tip = push.tip, PushOne(s),
           UNCHANGED <<blocker, local, worktree, mid, obs, reviewed>>,
           \/ phase' = "remove" /\ snap' = snap
           \/ phase' = "idle"
    PROVE  KeptInv'
<1>1. /\ Published \subseteq Published'
      /\ DOMAIN remote' = TipNames /\ DOMAIN track' = TipNames /\ DOMAIN pr' = PRNames /\ DOMAIN push' = RowNames
      /\ remote'.main = remote.main /\ remote'.b = remote.b
      /\ track'.main = track.main /\ track'.b = track.b
      /\ RowOK(push)'
      /\ Patches(push'.tip) \subseteq Patches(local) \cup Gone
      /\ Patches(track'.t) \subseteq Published'
      /\ pr'.state = "open" => pr'.head = remote'.t
      /\ Patches(pr'.head) \subseteq Published'
  BY PushKeeps
<1>2. Gone' = Gone /\ Gone \subseteq Patches(remote'.main)
  BY <1>1, SameGone, GoneIsOnMain DEF KeptInv
<1>3. ShapeInv'
  BY <1>1 DEF KeptInv, ShapeInv, Phases, Active
<1>4. BaseInv'
  BY <1>1 DEF KeptInv, BaseInv, Active
<1>5. RowInv'
  BY <1>1 DEF RowInv
<1>6. WorkInv'
  BY <1>1, <1>2 DEF KeptInv, WorkInv
<1>7. Patches(push'.tip) \subseteq Published'
  <2>1. CASE UNCHANGED push
    BY <1>1, <2>1 DEF KeptInv, PublishedInv
  <2>2. CASE Moved
    <3>1. remote'.t = local
      BY <2>2 DEF Moved, KeptInv, ShapeInv, TipNames
    <3> QED
      BY <1>1, <1>2, <3>1 DEF Published
  <2> QED
    BY <2>1, <2>2, PushCases
<1>8. PublishedInv'
  BY <1>1, <1>7 DEF KeptInv, PublishedInv, Active
<1> QED
  BY <1>3, <1>4, <1>5, <1>6, <1>8 DEF KeptInv

(* A retried push. *)
LEMMA RetryPushKeeps == KeptInv /\ RetryPush => KeptInv'
<1> SUFFICES ASSUME KeptInv, RetryPush PROVE KeptInv'
  OBVIOUS
<1>1. /\ phase = "retry" /\ phase' = "remove"
      /\ UNCHANGED <<blocker, local, worktree, mid, obs, snap, reviewed>>
  BY DEF RetryPush, work, history
<1>2. CASE CanPush /\ PushOne(snap)
  <2>1. worktree = "present" /\ Unlock(obs).unlocked /\ snap.push.tip = push.tip
    BY <1>1, <1>2 DEF CanPush, KeptInv, WorkInv, RowInv
  <2> QED
    BY <1>1, <1>2, <2>1, PushStepKeeps
<1>3. CASE UNCHANGED <<remote, track, pr, push>>
  <2>1. ShapeInv'
    BY <1>1, <1>3 DEF KeptInv, ShapeInv, Phases, Active
  <2>2. BaseInv'
    BY <1>1, <1>3 DEF KeptInv, BaseInv, Active
  <2>3. RowInv'
    BY <1>1, <1>3 DEF KeptInv, RowInv, RowOK
  <2>4. WorkInv'
    BY <1>1, <1>3 DEF KeptInv, WorkInv, Gone
  <2>5. PublishedInv'
    BY <1>1, <1>3 DEF KeptInv, PublishedInv, Published, Active
  <2> QED
    BY <2>1, <2>2, <2>3, <2>4, <2>5 DEF KeptInv
<1> QED
  BY Zenon, <1>2, <1>3 DEF RetryPush

(* The push at the end of the tick. *)
LEMMA PushPushableKeeps == KeptInv /\ PushPushable => KeptInv'
<1> SUFFICES ASSUME KeptInv, PushPushable PROVE KeptInv'
  OBVIOUS
<1>1. /\ phase = "push" /\ phase' = "idle"
      /\ UNCHANGED <<blocker, local, worktree, mid, obs, reviewed>>
  BY DEF PushPushable, work, history
<1>2. CASE Pushable(Snapshot) /\ worktree = "present" /\ PushOne(Snapshot)
  <2>1. Snapshot.push.tip = push.tip
    BY DEF Snapshot
  <2>2. Unlock(obs).unlocked
    BY <1>2 DEF Pushable, CanPush
  <2> HIDE DEF Snapshot
  <2> QED
    BY <1>1, <1>2, <2>1, <2>2, PushStepKeeps
<1>3. CASE UNCHANGED <<remote, track, pr, push>>
  <2>1. ShapeInv'
    BY <1>1, <1>3 DEF KeptInv, ShapeInv, Phases, Active
  <2>2. BaseInv'
    BY <1>1, <1>3 DEF KeptInv, BaseInv, Active
  <2>3. RowInv'
    BY <1>1, <1>3 DEF KeptInv, RowInv, RowOK
  <2>4. WorkInv'
    BY <1>1, <1>3 DEF KeptInv, WorkInv, Gone
  <2>5. PublishedInv'
    BY <1>1, <1>3 DEF KeptInv, PublishedInv, Published, Active
  <2> QED
    BY <2>1, <2>2, <2>3, <2>4, <2>5 DEF KeptInv
<1> QED
  BY Zenon, <1>2, <1>3 DEF PushPushable

(* A worktree is forced away only when its tip is proved: then all that    *)
(* the tick read of the branch is on GitHub.                               *)
LEMMA CheckRemovalKeeps == KeptInv /\ CheckRemoval => KeptInv'
<1> SUFFICES ASSUME KeptInv, CheckRemoval PROVE KeptInv'
  OBVIOUS
<1>1. /\ phase = "remove"
      /\ phase' \in {"push", "close-issue", "removable_by_merged", "removable_by_force"}
      /\ UNCHANGED <<remote, track, blocker, pr, local, worktree, mid, push, obs, snap, reviewed>>
  BY Zenon DEF CheckRemoval, github, work, history, RemovalState
<1>2. phase' \in {"removable_by_merged", "removable_by_force"} => mid = NoMid /\ obs.worktree
  BY Zenon DEF CheckRemoval
<1>3. phase' = "removable_by_force" => local \in ProvenTips
  BY Zenon DEF CheckRemoval, RemovalState
<1>4. phase' = "removable_by_force" => Patches(obs.local) \subseteq Published
  <2> SUFFICES ASSUME phase' = "removable_by_force" PROVE Patches(obs.local) \subseteq Published
    OBVIOUS
  <2>1. Patches(local) \subseteq Published
    BY <1>1, <1>3 DEF ProvenTips, KeptInv, PublishedInv, Active
  <2>2. Patches(obs.local) \subseteq Patches(local) \cup Gone
    BY <1>1, <1>2 DEF KeptInv, WorkInv
  <2> QED
    BY <2>1, <2>2, GoneIsOnMain DEF KeptInv, Published
<1>5. ShapeInv'
  BY <1>1 DEF KeptInv, ShapeInv, Phases, Active
<1>6. BaseInv'
  BY <1>1 DEF KeptInv, BaseInv, Active
<1>7. RowInv'
  BY <1>1 DEF KeptInv, RowInv, RowOK
<1>8. WorkInv'
  BY <1>1, <1>2 DEF KeptInv, WorkInv, Gone
<1>9. PublishedInv'
  BY <1>1, <1>4 DEF KeptInv, PublishedInv, Published, Active
<1> QED
  BY <1>5, <1>6, <1>7, <1>8, <1>9 DEF KeptInv

(* The worktree goes, or tp refuses. *)
LEMMA RemoveWorktreeKeeps == KeptInv /\ RemoveWorktree => KeptInv'
<1> SUFFICES ASSUME KeptInv, RemoveWorktree PROVE KeptInv'
  OBVIOUS
<1>1. /\ phase \in {"removable_by_merged", "removable_by_force"} /\ mid = NoMid
      /\ UNCHANGED <<remote, track, blocker, pr, mid, push, obs, snap, reviewed>>
      /\ \/ phase' = "push" /\ UNCHANGED <<worktree, local>>
         \/ phase' = "close-issue" /\ worktree' = "gone"
  BY Zenon DEF RemoveWorktree, github, history, KeptInv, WorkInv
<1>2. ShapeInv'
  BY <1>1 DEF KeptInv, ShapeInv, Phases, Active
<1>3. BaseInv'
  BY <1>1 DEF KeptInv, BaseInv, Active
<1>4. RowInv'
  BY <1>1 DEF KeptInv, RowInv, RowOK
<1>5. WorkInv'
  BY <1>1 DEF KeptInv, WorkInv, Gone
<1>6. PublishedInv'
  BY <1>1 DEF KeptInv, PublishedInv, Published, Active
<1> QED
  BY <1>2, <1>3, <1>4, <1>5, <1>6 DEF KeptInv

(* Withdrawing the ticket touches the store alone. *)
LEMMA WithdrawKeeps == KeptInv /\ Withdraw => KeptInv'
<1> SUFFICES ASSUME KeptInv, Withdraw PROVE KeptInv'
  OBVIOUS
<1>1. /\ phase = "close-issue" /\ phase' \in {"push", "idle"}
      /\ UNCHANGED <<remote, track, blocker, pr, local, worktree, mid, push, obs, reviewed>>
      /\ phase' # "idle" => snap' = snap
  BY Zenon DEF Withdraw, github, work, history, EndTick
<1>2. ShapeInv'
  BY <1>1 DEF KeptInv, ShapeInv, Phases, Active
<1>3. BaseInv'
  BY <1>1 DEF KeptInv, BaseInv, Active
<1>4. RowInv'
  BY <1>1 DEF KeptInv, RowInv, RowOK
<1>5. WorkInv'
  BY <1>1 DEF KeptInv, WorkInv, Gone
<1>6. PublishedInv'
  BY <1>1 DEF KeptInv, PublishedInv, Published, Active
<1> QED
  BY <1>2, <1>3, <1>4, <1>5, <1>6 DEF KeptInv

(* Every step of the tick. *)
LEMMA TickKeeps == KeptInv /\ Tick => KeptInv'
  BY FetchKeeps, ObserveKeeps, FollowUpKeeps, RetargetKeeps, RefreshStepKeeps, RetryPushKeeps,
     CheckRemovalKeeps, RemoveWorktreeKeeps, WithdrawKeeps, PushPushableKeeps DEF Tick

-----------------------------------------------------------------------------
(* The invariant is kept: everyone else.                                   *)

(* Clicks, checks and the end of an agent touch no branch. *)
LEMMA QuietKeeps ==
    ASSUME KeptInv, UNCHANGED <<remote, blocker, track, local, worktree, mid, push, tick, reviewed>>,
           DOMAIN pr' = DOMAIN pr, pr'.state = pr.state, pr'.head = pr.head
    PROVE  KeptInv'
<1>1. ShapeInv'
  BY DEF KeptInv, ShapeInv, Active, tick
<1>2. BaseInv'
  BY DEF KeptInv, BaseInv, Active, tick
<1>3. RowInv'
  BY DEF KeptInv, RowInv, RowOK, tick
<1>4. WorkInv'
  BY DEF KeptInv, WorkInv, Gone, tick
<1>5. PublishedInv'
  BY DEF KeptInv, PublishedInv, Published, Active, tick
<1> QED
  BY <1>1, <1>2, <1>3, <1>4, <1>5 DEF KeptInv

(* A check changes the checks of the pull request alone. *)
LEMMA ChecksKeep ==
    ASSUME KeptInv, NEW conclusion, CiReports(conclusion) \/ CiReruns
    PROVE  KeptInv'
<1>1. \E checks : pr' = [pr EXCEPT !.checks = checks]
  BY DEF CiReports, CiReruns
<1>2. DOMAIN pr' = DOMAIN pr /\ pr'.state = pr.state /\ pr'.head = pr.head
  BY <1>1 DEF KeptInv, ShapeInv, PRNames
<1>3. UNCHANGED <<remote, blocker, track, local, worktree, mid, push, tick, reviewed>>
  BY Zenon DEF CiReports, CiReruns, work, Others, history
<1> QED
  BY <1>2, <1>3, QuietKeeps

(* The branches of others grow, merge and close.  The tick's copy of the   *)
(* blocker is read after the last of these.                                *)
LEMMA BasesKeep ==
    ASSUME KeptInv,
           \/ MainMoves
           \/ ~Active /\ (BlockerMoves \/ BlockerMerges \/ BlockerCloses)
    PROVE  KeptInv'
<1>1. /\ UNCHANGED <<pr, track, local, worktree, mid, push, phase, obs, snap, reviewed>>
      /\ UNCHANGED blocker \/ ~Active
  BY Zenon DEF MainMoves, BlockerMoves, BlockerMerges, BlockerCloses, work, Others, tick, history
<1>2. /\ DOMAIN remote' = TipNames /\ DOMAIN blocker' = {"state", "head"}
      /\ remote'.t = remote.t /\ remote.main \subseteq remote'.main
      /\ blocker'.state \in {"open", "merged", "closed"}
      /\ blocker'.state # "merged" => blocker.state # "merged" /\ remote'.b = blocker'.head /\ remote.b \subseteq remote'.b
      /\ blocker.state = "merged" => blocker' = blocker
      /\ blocker'.state = "merged" => remote'.b = {} /\ Patches(blocker'.head) \subseteq Patches(remote'.main)
      /\ Patches(blocker.head) \subseteq Patches(blocker'.head)
      /\ Patches(blocker'.head) \subseteq OthersPatches
  <2>1. CASE MainMoves
    <3>1. PICK patch : remote' = [remote EXCEPT !.main = @ \cup {<<patch, 0>>}]
      BY <2>1 DEF MainMoves
    <3>2. UNCHANGED blocker
      BY <2>1 DEF MainMoves
    <3>3. DOMAIN remote' = TipNames /\ remote'.b = remote.b /\ remote'.t = remote.t /\ remote.main \subseteq remote'.main
      BY <3>1 DEF KeptInv, ShapeInv, TipNames
    <3> QED
      BY <3>2, <3>3, PatchesGrow DEF KeptInv, ShapeInv, BaseInv
  <2>2. CASE BlockerMoves
    <3>1. PICK patch \in BlockerPatches : remote' = [remote EXCEPT !.b = @ \cup {<<patch, 0>>}]
      BY <2>2 DEF BlockerMoves
    <3>2. blocker.state = "open" /\ blocker' = [blocker EXCEPT !.head = remote'.b]
      BY <2>2 DEF BlockerMoves
    <3>3. /\ DOMAIN remote' = TipNames /\ remote'.b = remote.b \cup {<<patch, 0>>}
          /\ remote'.t = remote.t /\ remote'.main = remote.main
      BY <3>1 DEF KeptInv, ShapeInv, TipNames
    <3>4. DOMAIN blocker' = {"state", "head"} /\ blocker'.state = "open" /\ blocker'.head = remote'.b
      BY <3>2 DEF KeptInv, ShapeInv
    <3>5. Patches({<<patch, 0>>}) \subseteq OthersPatches
      BY DEF Patches, OthersPatches
    <3>6. remote.b = blocker.head /\ Patches(blocker.head) \subseteq OthersPatches
      BY <3>2 DEF KeptInv, BaseInv
    <3> QED
      BY <3>2, <3>3, <3>4, <3>5, <3>6, PatchesUnion
  <2>3. CASE BlockerMerges
    <3>1. /\ blocker.state = "open" /\ blocker' = [blocker EXCEPT !.state = "merged"]
          /\ remote' = [remote EXCEPT !.main = SquashInto(@, remote.b), !.b = {}]
      BY <2>3 DEF BlockerMerges
    <3>2. /\ DOMAIN remote' = TipNames /\ remote'.b = {} /\ remote'.t = remote.t
          /\ remote'.main = SquashInto(remote.main, remote.b)
      BY <3>1 DEF KeptInv, ShapeInv, TipNames
    <3>3. DOMAIN blocker' = {"state", "head"} /\ blocker'.state = "merged" /\ blocker'.head = blocker.head
      BY <3>1 DEF KeptInv, ShapeInv
    <3>4. remote.b = blocker.head /\ Patches(blocker.head) \subseteq OthersPatches
      BY <3>1 DEF KeptInv, BaseInv
    <3> QED
      BY <3>1, <3>2, <3>3, <3>4, SquashKeeps
  <2>4. CASE BlockerCloses
    <3>1. blocker.state = "open" /\ blocker' = [blocker EXCEPT !.state = "closed"] /\ UNCHANGED remote
      BY <2>4 DEF BlockerCloses
    <3>2. DOMAIN blocker' = {"state", "head"} /\ blocker'.state = "closed" /\ blocker'.head = blocker.head
      BY <3>1 DEF KeptInv, ShapeInv
    <3> QED
      BY <3>1, <3>2 DEF KeptInv, ShapeInv, BaseInv
  <2> QED
    BY <2>1, <2>2, <2>3, <2>4
<1>3. Gone \subseteq Gone'
  BY <1>2 DEF Gone
<1>4. Published \subseteq Published'
  BY <1>2, PatchesGrow DEF Published
<1>5. ShapeInv'
  BY <1>1, <1>2 DEF KeptInv, ShapeInv, Active
<1>6. BaseInv'
  BY <1>1, <1>2 DEF KeptInv, BaseInv, Active
<1>7. RowInv'
  <2>1. RowOK(push)'
    BY <1>1, <1>2 DEF KeptInv, RowInv, RowOK
  <2>2. phase \in {"verbs", "retarget", "refresh", "retry"} => UNCHANGED blocker
    BY <1>1 DEF Active
  <2>3. phase \in {"verbs", "retarget", "refresh", "retry"} => RowOK(snap.push)'
    BY <1>1, <2>2 DEF KeptInv, RowInv, RowOK
  <2> QED
    BY <1>1, <2>1, <2>3 DEF KeptInv, RowInv
<1>8. WorkInv'
  BY <1>1, <1>3 DEF KeptInv, WorkInv
<1>9. PublishedInv'
  BY <1>1, <1>2, <1>4 DEF KeptInv, PublishedInv, Active
<1> QED
  BY <1>5, <1>6, <1>7, <1>8, <1>9 DEF KeptInv

(* A merge of the ticket moves its patches to main; a review adds to them. *)
LEMMA TicketKeeps ==
    ASSUME KeptInv, TicketMerges \/ ReviewerPushes
    PROVE  KeptInv'
<1>1. UNCHANGED <<blocker, track, local, worktree, mid, push, phase, obs, snap>>
  BY DEF TicketMerges, ReviewerPushes, work, Others, tick
<1>2. /\ DOMAIN remote' = TipNames /\ DOMAIN pr' = PRNames
      /\ remote'.b = remote.b /\ remote.main \subseteq remote'.main
      /\ Published \subseteq Published' /\ reviewed' \subseteq Published'
      /\ pr'.state = "open" => pr'.head = remote'.t
      /\ Patches(pr'.head) \subseteq Published'
  <2>1. CASE TicketMerges
    <3>1. /\ pr' = [pr EXCEPT !.state = "merged"] /\ pr.state = "open" /\ reviewed' = reviewed
          /\ remote' = [remote EXCEPT !.main = SquashInto(@, remote.t), !.t = {}]
      BY <2>1 DEF TicketMerges, history
    <3>2. /\ DOMAIN remote' = TipNames /\ remote'.b = remote.b /\ remote'.t = {}
          /\ remote'.main = SquashInto(remote.main, remote.t)
      BY <3>1 DEF KeptInv, ShapeInv, TipNames
    <3>3. DOMAIN pr' = PRNames /\ pr'.state = "merged" /\ pr'.head = pr.head
      BY <3>1 DEF KeptInv, ShapeInv, PRNames
    <3>4. Published \subseteq Published' /\ remote.main \subseteq remote'.main
      BY <3>2, SquashKeeps, PatchesGrow DEF Published
    <3> QED
      BY <3>1, <3>2, <3>3, <3>4 DEF KeptInv, PublishedInv
  <2>2. CASE ReviewerPushes
    <3>1. /\ remote' = [remote EXCEPT !.t = @ \cup {<<"r1", 0>>}] /\ pr.state = "open"
          /\ pr' = Shown(pr, remote'.t) /\ reviewed' = reviewed \cup {"r1"}
      BY <2>2 DEF ReviewerPushes
    <3>2. /\ DOMAIN remote' = TipNames /\ remote'.b = remote.b /\ remote'.main = remote.main
          /\ remote'.t = remote.t \cup {<<"r1", 0>>}
      BY <3>1 DEF KeptInv, ShapeInv, TipNames
    <3>3. DOMAIN pr' = PRNames /\ pr'.head = remote'.t
      BY <3>1 DEF KeptInv, ShapeInv, PRNames, Shown
    <3>4. "r1" \in Patches({<<"r1", 0>>})
      BY DEF Patches
    <3>5. Published \subseteq Published' /\ "r1" \in Published'
      BY <3>2, <3>4, PatchesUnion DEF Published
    <3> QED
      BY <3>1, <3>2, <3>3, <3>5 DEF KeptInv, PublishedInv, Published
  <2> QED
    BY <2>1, <2>2
<1>3. ShapeInv'
  BY <1>1, <1>2 DEF KeptInv, ShapeInv, Active
<1>4. BaseInv'
  BY <1>1, <1>2, PatchesGrow DEF KeptInv, BaseInv, Active
<1>5. RowInv'
  BY <1>1 DEF KeptInv, RowInv, RowOK
<1>6. WorkInv'
  BY <1>1 DEF KeptInv, WorkInv, Gone
<1>7. PublishedInv'
  BY <1>1, <1>2 DEF KeptInv, PublishedInv, Active
<1> QED
  BY <1>3, <1>4, <1>5, <1>6, <1>7 DEF KeptInv

(* An agent adds to the branch; the owner finishes what was unfinished. *)
LEMMA BranchKeeps ==
    ASSUME KeptInv, AgentCommits \/ OwnerResolves
    PROVE  KeptInv'
<1>1. /\ UNCHANGED <<remote, blocker, pr, track, worktree, push, phase, obs, snap, reviewed>>
      /\ mid' = NoMid
  BY DEF AgentCommits, OwnerResolves, github, Others, tick, history
<1>2. Patches(local) \subseteq Patches(local') \cup Gone
  <2>1. CASE AgentCommits
    BY <2>1, PatchesGrow DEF AgentCommits
  <2>2. CASE OwnerResolves
    BY <2>2 DEF OwnerResolves, KeptInv, WorkInv
  <2> QED
    BY <2>1, <2>2
<1>3. Gone' = Gone
  BY <1>1, SameGone
<1>4. ShapeInv'
  BY <1>1 DEF KeptInv, ShapeInv, Active
<1>5. BaseInv'
  BY <1>1 DEF KeptInv, BaseInv, Active
<1>6. RowInv'
  BY <1>1 DEF KeptInv, RowInv, RowOK
<1>7. WorkInv'
  BY <1>1, <1>2, <1>3 DEF KeptInv, WorkInv
<1>8. PublishedInv'
  BY <1>1 DEF KeptInv, PublishedInv, Published, Active
<1> QED
  BY <1>4, <1>5, <1>6, <1>7, <1>8 DEF KeptInv

(* Every step of the others. *)
LEMMA WorldKeeps == KeptInv /\ World => KeptInv'
<1> SUFFICES ASSUME KeptInv, World PROVE KeptInv'
  OBVIOUS
<1>1. ASSUME NEW verb, Click(verb) PROVE KeptInv'
  BY <1>1, QuietKeeps DEF Click, github, work, Others, tick, history
<1>2. ASSUME NEW asked, AgentEnds(asked) PROVE KeptInv'
  BY <1>2, QuietKeeps DEF AgentEnds, github, work, Others, tick, history
<1>3. phase \in {"idle", "observe"} => ~Active
  BY DEF Active
<1>4. phase = "idle" => phase \in {"idle", "observe"}
  OBVIOUS
<1> QED
  BY Zenon, <1>1, <1>2, <1>3, <1>4, ChecksKeep, BasesKeep, TicketKeeps, BranchKeeps DEF World

(* Every step. *)
LEMMA KeptStep == KeptInv /\ [Next]_vars => KeptInv'
<1> SUFFICES ASSUME KeptInv, [Next]_vars PROVE KeptInv'
  OBVIOUS
<1>1. CASE UNCHANGED vars
  BY <1>1, QuietKeeps DEF vars, github, work, store, tick, history
<1> QED
  BY <1>1, TickKeeps, WorldKeeps DEF Next

(* The invariant of publishing: nothing that was published is lost. *)
LEMMA KeptAlways == Spec => []KeptInv
  BY KeptInit, KeptStep, PTL DEF Spec

-----------------------------------------------------------------------------
(* What a reviewer pushed to the ticket's branch is never lost: a push is  *)
(* a fast-forward of the remote branch or, after a restack, leased on the  *)
(* tip last pushed, all of which the branch or main still has              *)
(* (pushBranch, PushRestacked).                                            *)
THEOREM ReviewsAreKept == Spec => []ReviewerWorkKept
<1>1. KeptInv => ReviewerWorkKept
  BY DEF KeptInv, PublishedInv, Published, ReviewerWorkKept
<1> QED
  BY <1>1, KeptAlways, PTL

(* No step drops a patch of the branch but those of a merged base. *)
LEMMA BranchGrows ==
    ASSUME KeptInv, [Next]_vars, worktree' = "present"
    PROVE  Patches(local) \subseteq Patches(local') \cup Gone
<1>1. CASE Retarget
  <2>1. phase = "retarget" /\ RowOK(snap.push)
    BY <1>1 DEF Retarget, KeptInv, RowInv
  <2>2. CASE UNCHANGED local
    BY <2>2
  <2>3. CASE RefreshOne(snap.push, FALSE, <<>>, "refresh")
    BY <2>1, <2>3, RefreshKeeps
  <2> QED
    BY Zenon, <1>1, <2>2, <2>3 DEF Retarget
<1>2. CASE Refresh
  <2>1. phase = "refresh" /\ RowOK(snap.push)
    BY <1>2 DEF Refresh, KeptInv, RowInv
  <2>2. CASE UNCHANGED local
    BY <2>2
  <2>3. CASE RefreshOne(snap.push, Asks("refresh"), log, AfterRefresh)
    BY <2>1, <2>3, RefreshKeeps
  <2> QED
    BY Zenon, <1>2, <2>2, <2>3 DEF Refresh
<1>3. CASE RemoveWorktree
  <2>1. UNCHANGED local \/ worktree' = "gone"
    BY Zenon, <1>3 DEF RemoveWorktree
  <2> QED
    BY <2>1
<1>4. CASE AgentCommits
  BY <1>4, PatchesGrow DEF AgentCommits
<1>5. CASE OwnerResolves
  BY <1>5 DEF OwnerResolves, KeptInv, WorkInv
<1>6. CASE UNCHANGED local
  BY <1>6
<1>7. \/ Retarget \/ Refresh \/ RemoveWorktree \/ AgentCommits \/ OwnerResolves \/ UNCHANGED local
  BY Zenon DEF Next, Tick, World, vars, work, Fetch, Observe, FollowUpAndAbort, RetryPush, CheckRemoval, Withdraw,
     PushPushable, Click, CiReports, CiReruns, MainMoves, BlockerCloses, BlockerMoves, BlockerMerges, TicketMerges,
     ReviewerPushes, AgentEnds
<1> QED
  BY <1>1, <1>2, <1>3, <1>4, <1>5, <1>6, <1>7

(* The patches of the branch outside its bases survive every refresh,      *)
(* restack, abort, push and resolved conflict, as long as there is a       *)
(* worktree: what a restack drops is the merged base's (advanceOnto,       *)
(* restackBoundary).                                                       *)
THEOREM OwnWorkSurvives == Spec => OwnWorkKept
<1> DEFINE Step == worktree' = "present" => Patches(local) \ OthersPatches \subseteq Patches(local')
<1>1. KeptInv /\ [Next]_vars => [Step]_vars
  BY BranchGrows, GoneIsOnMain DEF KeptInv
<1>2. [][Step]_vars => OwnWorkKept
  BY PTL DEF OwnWorkKept
<1> HIDE DEF Step
<1> QED
  BY <1>1, <1>2, KeptAlways, PTL DEF Spec

(* A worktree that is removed held nothing that is not on GitHub, short of *)
(* what was committed after the observation: tp checked the tip against    *)
(* the fetched ref, or the tip is one that was pushed or merged            *)
(* (removeWorktreeOne, RemovalStateFor).                                   *)
THEOREM RemovalsLoseNothing == Spec => RemovalLosesNothing
<1> DEFINE Step == worktree = "present" /\ worktree' = "gone" /\ local = obs.local =>
                     Patches(local) \subseteq Patches(remote.t) \cup Patches(remote.main)
<1>1. KeptInv /\ [Next]_vars => [Step]_vars
  <2> SUFFICES ASSUME KeptInv, [Next]_vars, worktree = "present", worktree' = "gone", local = obs.local
               PROVE  Patches(local) \subseteq Published
    BY DEF Published
  <2>1. RemoveWorktree
    <3>1. RemoveWorktree \/ UNCHANGED worktree
      BY Zenon DEF Next, Tick, World, vars, work, Fetch, Observe, FollowUpAndAbort, Retarget, Refresh, RetryPush,
         CheckRemoval, Withdraw, PushPushable, Click, CiReports, CiReruns, MainMoves, BlockerCloses, BlockerMoves,
         BlockerMerges, TicketMerges, ReviewerPushes, AgentCommits, AgentEnds, OwnerResolves
    <3> QED
      BY <3>1
  <2>2. phase = "removable_by_force" \/ Ancestor(local, track.t)
    <3>1. phase \in {"removable_by_merged", "removable_by_force"}
      BY <2>1 DEF RemoveWorktree
    <3>2. ~(phase = "removable_by_merged" /\ ~Ancestor(local, track.t))
      <4>1. ~UNCHANGED worktree
        OBVIOUS
      <4> QED
        BY Zenon, <2>1, <4>1 DEF RemoveWorktree
    <3> QED
      BY <3>1, <3>2
  <2>3. CASE phase = "removable_by_force"
    BY <2>3 DEF KeptInv, PublishedInv
  <2>4. CASE Ancestor(local, track.t)
    BY <2>4, PatchesGrow DEF Ancestor, KeptInv, PublishedInv
  <2> QED
    BY <2>2, <2>3, <2>4
<1>2. [][Step]_vars => RemovalLosesNothing
  BY PTL DEF RemovalLosesNothing
<1> HIDE DEF Step
<1> QED
  BY <1>1, <1>2, KeptAlways, PTL DEF Spec

-----------------------------------------------------------------------------
(* The verdict: a row asks for review only when the check is green on the  *)
(* tip that was pushed.                                                    *)

(* The required check succeeded. *)
GreenRow(checks) ==
    "ci" \in DOMAIN checks /\ checks["ci"].status = "COMPLETED" /\ checks["ci"].conclusion = "SUCCESS"

(* The repositories' predicate is its one leaf. *)
LEMMA ResolvesLeaf ==
    ASSUME NEW in
    PROVE  Resolve(Predicate, in) = RequireConclusion(in, "ci", "success")
<1> DEFINE Kids(f, n) == {f[k] : k \in {k \in Predicate[n].kids : k > n}}
           Body(f, n) == CASE Predicate[n].op = "all_of" -> AllOf(Kids(f, n))
                           [] Predicate[n].op = "any_of" -> AnyOf(Kids(f, n))
                           [] Predicate[n].op = "not"    -> Not(CHOOSE s \in Kids(f, n) : TRUE)
                           [] OTHER                      -> Leaf(Predicate[n], in)
           state == CHOOSE f : f = [n \in 1..Len(Predicate) |-> Body(f, n)]
           value == RequireConclusion(in, "ci", "success")
<1>1. Resolve(Predicate, in) = state[1]
  BY Zenon DEF Resolve
<1>2. Len(Predicate) = 1 /\ Predicate[1].op = "success" /\ Predicate[1].name = "ci"
  BY DEF Predicate
<1>3. ASSUME NEW f PROVE Body(f, 1) = value
  <2>1. Leaf(Predicate[1], in) = value
    BY <1>2 DEF Leaf
  <2> QED
    BY <1>2, <2>1
<1>4. ASSUME NEW f PROVE [n \in 1..Len(Predicate) |-> Body(f, n)] = [n \in 1..1 |-> value]
  BY <1>2, <1>3
<1> HIDE DEF Body
<1>5. state = [n \in 1..1 |-> value]
  <2>1. \E f : f = [n \in 1..Len(Predicate) |-> Body(f, n)]
    BY Zenon, <1>4
  <2>2. state = [n \in 1..Len(Predicate) |-> Body(state, n)]
    BY Zenon, <2>1
  <2> HIDE DEF state
  <2> QED
    BY Zenon, <1>4, <2>2
<1> HIDE DEF state
<1> QED
  BY <1>1, <1>5

(* An answer that asks for review is about the head that was pushed. *)
LEMMA ReviewMeIsGreen ==
    ASSUME NEW in, "checks" \in DOMAIN in, in.compat = "", Evaluate(Predicate, in) = "review_me"
    PROVE  in.headMatch /\ "ci" \in DOMAIN in.checks /\ in.checks["ci"] = "success"
<1> DEFINE seen == [in EXCEPT !.checks = IF in.headMatch THEN @ ELSE NoChecks]
<1>1. EvaluateOnce(Predicate, seen) = "review_me"
  BY Zenon DEF Evaluate
<1>2. EvaluateOnce(Predicate, seen) = "review_me" => Resolve(Predicate, seen) = "green"
  <2> HIDE DEF seen
  <2>1. Resolve(Predicate, seen) \in {"green", "pending", "red"}
    BY ResolvesLeaf DEF RequireConclusion
  <2> QED
    BY <2>1 DEF EvaluateOnce
<1>3. "ci" \in DOMAIN seen.checks /\ seen.checks["ci"] = "success"
  <2> HIDE DEF seen
  <2> QED
    BY <1>1, <1>2, ResolvesLeaf DEF RequireConclusion
<1>4. CASE in.headMatch
  <2>1. seen.checks = in.checks
    BY <1>4
  <2> QED
    BY Zenon, <1>3, <1>4, <2>1
<1>5. CASE ~in.headMatch
  <2>1. seen.checks = NoChecks
    BY <1>5
  <2> QED
    BY <1>3, <2>1 DEF NoChecks
<1> QED
  BY <1>4, <1>5

Outcomes == {"none", "asked", "failed", "push"}

(* A row that asks for review saw green checks on the pushed tip. *)
LEMMA ReviewMeSeen ==
    ASSUME State = "review_me", run.outcome \in Outcomes
    PROVE  GreenRow(obs.pr.checks) /\ obs.pr.head = push.tip
<1> DEFINE in == [checks |-> VerdictChecks(obs.pr.checks),
                  headMatch |-> push.tip # {} /\ obs.pr.head = push.tip,
                  stacked |-> push.base # "", baseMatch |-> obs.tips[push.base] = push.baseSHA,
                  configOK |-> TRUE, waited |-> Snapshot.waited, author |-> "", compat |-> ""]
<1>1. Snapshot.push = push /\ Snapshot.outcome = run.outcome
  BY DEF Snapshot
<1> HIDE DEF Snapshot
<1>2. ApplyVerdict(Snapshot, obs) = "review_me"
  <2>1. StatusFromPush(RunFor(Snapshot, obs)) = "review_me"
    <3>1. RunFor(Snapshot, obs).outcome \in Outcomes
      BY <1>1 DEF RunFor
    <3> HIDE DEF in
    <3> QED
      BY <3>1 DEF State, Status, Outcomes
  <2>2. RunFor(Snapshot, obs).verdict = "review_me"
    BY Zenon, <2>1 DEF StatusFromPush, StateOfVerdict
  <2> QED
    BY <2>2 DEF RunFor
<1>3. Evaluate(Predicate, in) = "review_me"
  BY Zenon, <1>1, <1>2 DEF ApplyVerdict
<1>4. "checks" \in DOMAIN in /\ in.compat = "" /\ in.checks = VerdictChecks(obs.pr.checks)
  OBVIOUS
<1>5. in.headMatch => obs.pr.head = push.tip
  OBVIOUS
<1> HIDE DEF in
<1>6. in.headMatch /\ "ci" \in DOMAIN in.checks /\ in.checks["ci"] = "success"
  BY <1>3, <1>4, ReviewMeIsGreen
<1>7. GreenRow(obs.pr.checks)
  BY <1>4, <1>6 DEF VerdictChecks, ToVerdictCheckState, GreenRow
<1> QED
  BY <1>5, <1>6, <1>7

(* The rows of the check's rollup: the run every head gets, and another    *)
(* that someone asked for.                                                 *)
Conclusions == {"SUCCESS", "FAILURE"}
Rows(checks) ==
    \/ checks = {}
    \/ \E c \in Conclusions :
          \/ checks = {Check(1, "COMPLETED", c)}
          \/ checks = {Check(1, "COMPLETED", c), Check(2, "IN_PROGRESS", "")}
          \/ \E d \in Conclusions : checks = {Check(1, "COMPLETED", c), Check(2, "COMPLETED", d)}

RunInv == DOMAIN run = {"alive", "outcome", "baseline", "asked"} /\ run.outcome \in Outcomes

(* Green checks are about a head that CI reported green, on the pull       *)
(* request, in the tick's copy of it, and in the copy a finished tick left *)
(* for the page as far as it is about the pushed tip.                      *)
GreenInv ==
    /\ Rows(pr.checks)
    /\ GreenRow(Normalise(pr.checks)) => pr.head \in greens
    /\ Active => (GreenRow(obs.pr.checks) => obs.pr.head \in greens)
    /\ GreenRow(obs.pr.checks) /\ obs.pr.head = push.tip => push.tip \in greens

(* What the rollup of a name comes to. *)
LEMMA NormalisedOne ==
    ASSUME NEW r, r.name = "ci"
    PROVE  Normalise({r})["ci"] = r
<1>1. {row \in {r} : row.name = "ci"} = {r}
  OBVIOUS
<1>2. (CHOOSE row \in {r} : \A other \in {r} \ {row} : Better(row, other)) = r
  BY Zenon
<1>3. "ci" \in {row.name : row \in {r}}
  OBVIOUS
<1> QED
  BY Zenon, <1>1, <1>2, <1>3 DEF Normalise

(* The better of two rows of one name counts. *)
LEMMA NormalisedTwo ==
    ASSUME NEW r, NEW q, r.name = "ci", q.name = "ci", r # q, Better(r, q), ~Better(q, r)
    PROVE  Normalise({r, q})["ci"] = r
<1> DEFINE Best(row) == \A other \in {r, q} \ {row} : Better(row, other)
<1>1. {row \in {r, q} : row.name = "ci"} = {r, q}
  OBVIOUS
<1>2. Best(r) /\ ~Best(q)
  OBVIOUS
<1>3. (CHOOSE row \in {r, q} : Best(row)) = r
  <2> HIDE DEF Best
  <2> QED
    BY Zenon, <1>2
<1>4. "ci" \in {row.name : row \in {r, q}}
  OBVIOUS
<1> QED
  BY Zenon, <1>1, <1>3, <1>4 DEF Normalise

(* No rows, no green; a first run counts until another is completed. *)
LEMMA NormalisedRows ==
    ASSUME NEW c, NEW d
    PROVE  /\ ~GreenRow(Normalise({}))
           /\ Normalise({Check(1, "COMPLETED", c)})["ci"] = Check(1, "COMPLETED", c)
           /\ Normalise({Check(1, "COMPLETED", c), Check(2, "IN_PROGRESS", "")})["ci"] = Check(1, "COMPLETED", c)
           /\ Normalise({Check(1, "COMPLETED", c), Check(2, "COMPLETED", d)})["ci"] = Check(2, "COMPLETED", d)
<1> DEFINE first == Check(1, "COMPLETED", c)
           asked == Check(2, "IN_PROGRESS", "")
           second == Check(2, "COMPLETED", d)
<1>1. /\ first.name = "ci" /\ asked.name = "ci" /\ second.name = "ci"
      /\ first.started = 1 /\ asked.started = 2 /\ second.started = 2
      /\ first.status = "COMPLETED" /\ asked.status = "IN_PROGRESS" /\ second.status = "COMPLETED"
  BY DEF Check
<1>2. ~GreenRow(Normalise({}))
  BY DEF GreenRow, Normalise
<1> HIDE DEF first, asked, second
<1>3. Normalise({first})["ci"] = first
  BY <1>1, NormalisedOne
<1>4. Normalise({first, asked})["ci"] = first
  BY <1>1, NormalisedTwo DEF Better, Completed
<1>5. Normalise({second, first})["ci"] = second
  BY <1>1, NormalisedTwo DEF Better, Completed
<1>6. {second, first} = {first, second}
  OBVIOUS
<1> QED
  BY Zenon, <1>2, <1>3, <1>4, <1>5, <1>6 DEF first, asked, second

(* Another run of the check changes the rollup only when it is completed. *)
LEMMA RerunKeepsRollup ==
    ASSUME Rows(pr.checks), DOMAIN pr = PRNames, CiReruns
    PROVE  /\ Rows(pr'.checks) /\ DOMAIN pr' = PRNames /\ pr'.head = pr.head
           /\ GreenRow(Normalise(pr'.checks)) => GreenRow(Normalise(pr.checks))
<1> DEFINE asked == Check(2, "IN_PROGRESS", "")
<1>1. pr'.checks = pr.checks \cup {asked} /\ DOMAIN pr' = PRNames /\ pr'.head = pr.head
  BY DEF CiReruns, PRNames
<1>2. Cardinality(pr.checks) = 1
  BY DEF CiReruns
<1>3. pr.checks # {}
  BY <1>2, FS_EmptySet
<1>4. ASSUME NEW c, NEW status, NEW d, pr.checks = {Check(1, "COMPLETED", c), Check(2, status, d)} PROVE FALSE
  <2> DEFINE one == Check(1, "COMPLETED", c)
             two == Check(2, status, d)
  <2>1. one.started = 1 /\ two.started = 2
    BY DEF Check
  <2> HIDE DEF one, two
  <2>2. IsFiniteSet({one} \cup {two})
    BY FS_Singleton, FS_AddElement
  <2>3. \E x : pr.checks = {x}
    <3>1. pr.checks = {one} \cup {two}
      BY <1>4 DEF one, two
    <3> QED
      BY <1>2, <2>2, <3>1, FS_Singleton
  <2>4. one \in pr.checks /\ two \in pr.checks
    BY <1>4 DEF one, two
  <2> QED
    BY <2>1, <2>3, <2>4
<1>5. PICK c \in Conclusions : pr.checks = {Check(1, "COMPLETED", c)}
  BY <1>3, <1>4 DEF Rows
<1>6. pr'.checks = {Check(1, "COMPLETED", c), asked}
  BY <1>1, <1>5
<1>7. Rows(pr'.checks)
  BY <1>5, <1>6 DEF Rows
<1>8. Normalise(pr'.checks)["ci"] = Normalise(pr.checks)["ci"]
  BY Zenon, <1>5, <1>6, NormalisedRows
<1>9. "ci" \in DOMAIN Normalise(pr.checks)
  <2>1. Check(1, "COMPLETED", c).name = "ci"
    BY DEF Check
  <2> QED
    BY <1>5, <2>1 DEF Normalise
<1> QED
  BY <1>1, <1>7, <1>8, <1>9 DEF GreenRow

(* After a report the rollup is green only if the report is. *)
LEMMA ReportCounts ==
    ASSUME Rows(pr.checks), DOMAIN pr = PRNames, NEW conclusion \in Conclusions, CiReports(conclusion)
    PROVE  /\ Rows(pr'.checks) /\ DOMAIN pr' = PRNames /\ pr'.head = pr.head
           /\ GreenRow(Normalise(pr'.checks)) => conclusion = "SUCCESS"
<1> DEFINE asked == Check(2, "IN_PROGRESS", "")
<1>1. DOMAIN pr' = PRNames /\ pr'.head = pr.head
  BY DEF CiReports, PRNames
<1>2. ASSUME NEW n, NEW c PROVE Check(n, "COMPLETED", c).status = "COMPLETED" /\ Check(n, "COMPLETED", c).conclusion = c
  BY DEF Check
<1>3. CASE pr.checks = {} /\ pr' = [pr EXCEPT !.checks = {Check(1, "COMPLETED", conclusion)}]
  <2>1. pr'.checks = {Check(1, "COMPLETED", conclusion)}
    BY <1>3 DEF PRNames
  <2>2. Normalise(pr'.checks)["ci"] = Check(1, "COMPLETED", conclusion)
    BY Zenon, <2>1, NormalisedRows
  <2>3. Rows(pr'.checks)
    BY <2>1 DEF Rows
  <2> QED
    BY <1>1, <1>2, <2>2, <2>3 DEF GreenRow
<1>4. ASSUME NEW row \in pr.checks, ~Completed(row),
             pr' = [pr EXCEPT !.checks = (@ \ {row}) \cup {Check(row.started, "COMPLETED", conclusion)}]
      PROVE  /\ Rows(pr'.checks)
             /\ GreenRow(Normalise(pr'.checks)) => conclusion = "SUCCESS"
  <2>1. pr'.checks = (pr.checks \ {row}) \cup {Check(row.started, "COMPLETED", conclusion)}
    BY <1>4 DEF PRNames
  <2>2. ASSUME NEW n, NEW c PROVE row # Check(n, "COMPLETED", c)
    BY <1>2, <1>4 DEF Completed
  <2>3. PICK c \in Conclusions : pr.checks = {Check(1, "COMPLETED", c), asked}
    <3>1. pr.checks # {}
      BY <1>4
    <3>2. PICK c \in Conclusions :
             \/ pr.checks = {Check(1, "COMPLETED", c)}
             \/ pr.checks = {Check(1, "COMPLETED", c), asked}
             \/ \E d \in Conclusions : pr.checks = {Check(1, "COMPLETED", c), Check(2, "COMPLETED", d)}
      BY Zenon, <3>1 DEF Rows
    <3>3. ASSUME NEW d, pr.checks = {Check(1, "COMPLETED", c), Check(2, "COMPLETED", d)} PROVE FALSE
      BY <1>4, <2>2, <3>3
    <3>4. pr.checks # {Check(1, "COMPLETED", c)}
      BY <1>4, <2>2
    <3> QED
      BY Zenon, <3>2, <3>3, <3>4
  <2>4. row = asked
    BY <1>4, <2>2, <2>3
  <2>5. row.started = 2
    BY <2>4 DEF Check
  <2>6. pr'.checks = {Check(1, "COMPLETED", c), Check(2, "COMPLETED", conclusion)}
    <3>1. asked # Check(1, "COMPLETED", c)
      BY <2>2, <2>4
    <3> HIDE DEF asked
    <3> QED
      BY Zenon, <2>1, <2>3, <2>4, <2>5, <3>1
  <2>7. Rows(pr'.checks)
    BY <2>6 DEF Rows
  <2>8. Normalise(pr'.checks)["ci"] = Check(2, "COMPLETED", conclusion)
    <3>1. Normalise({Check(1, "COMPLETED", c), Check(2, "COMPLETED", conclusion)})["ci"]
            = Check(2, "COMPLETED", conclusion)
      BY NormalisedRows
    <3> QED
      BY Zenon, <2>6, <3>1
  <2> QED
    BY <1>2, <2>7, <2>8 DEF GreenRow
<1> QED
  BY <1>1, <1>3, <1>4 DEF CiReports

(* The latest run keeps its shape. *)
LEMMA RunStep == RunInv /\ [Next]_vars => RunInv'
<1> SUFFICES ASSUME RunInv, [Next]_vars PROVE RunInv'
  OBVIOUS
<1>1. CASE UNCHANGED run
  BY <1>1 DEF RunInv
<1>2. CASE Observe
  <2>1. run' = run \/ \E outcome \in Outcomes : run' = [run EXCEPT !.outcome = outcome]
    BY <1>2 DEF Observe, Disposed, Outcomes
  <2> QED
    BY <2>1 DEF RunInv
<1>3. CASE FollowUpAndAbort
  <2>1. run' = run \/ run' = [alive |-> TRUE, outcome |-> "none", baseline |-> local, asked |-> FALSE]
    BY <1>3 DEF FollowUpAndAbort
  <2> QED
    BY <2>1 DEF RunInv, Outcomes
<1>4. ASSUME NEW asked, AgentEnds(asked) PROVE RunInv'
  BY <1>4 DEF AgentEnds, RunInv
<1>5. UNCHANGED run \/ Observe \/ FollowUpAndAbort \/ \E asked : AgentEnds(asked)
  BY Zenon DEF Next, Tick, World, vars, Fetch, Retarget, Refresh, RetryPush, CheckRemoval, RemoveWorktree, Withdraw,
     PushPushable, Click, CiReports, CiReruns, MainMoves, BlockerCloses, BlockerMoves, BlockerMerges, TicketMerges,
     ReviewerPushes, AgentCommits, OwnerResolves
<1> QED
  BY <1>1, <1>2, <1>3, <1>4, <1>5

(* Steps that leave the head, its checks and what is known of them alone. *)
LEMMA GreenSame ==
    ASSUME GreenInv, pr'.checks = pr.checks, pr'.head = pr.head, obs'.pr = obs.pr, push'.tip = push.tip,
           UNCHANGED greens, Active' => Active
    PROVE  GreenInv'
  BY DEF GreenInv

(* A head that moves has no checks yet. *)
LEMMA ShownChecks ==
    ASSUME NEW tip, DOMAIN pr = PRNames
    PROVE  Shown(pr, tip).checks = {} \/ Shown(pr, tip) = pr
  BY DEF Shown, PRNames

(* A push: the new head has no checks yet, and the row is compared with    *)
(* the head the tick read.                                                 *)
LEMMA PushGreen ==
    ASSUME KeptInv, GreenInv, Active, NEW s, PushOne(s), UNCHANGED <<obs, greens>>
    PROVE  GreenInv'
<1>1. pr' = pr \/ pr'.checks = {}
  <2>1. CASE pr' = pr
    BY <2>1
  <2>2. CASE pr' = Shown(pr, local)
    BY <2>2, ShownChecks DEF KeptInv, ShapeInv
  <2>3. CASE pr' = Opened
    BY <2>3 DEF Opened
  <2> QED
    BY <2>1, <2>2, <2>3, PushCases
<1>2. Rows(pr'.checks)
  BY <1>1 DEF GreenInv, Rows
<1>3. GreenRow(Normalise(pr'.checks)) => pr'.head \in greens
  <2>1. CASE pr' = pr
    BY <2>1 DEF GreenInv
  <2>2. CASE pr'.checks = {}
    BY Zenon, <2>2, NormalisedRows
  <2> QED
    BY <1>1, <2>1, <2>2
<1>4. GreenRow(obs.pr.checks) => obs.pr.head \in greens
  BY DEF GreenInv
<1> QED
  BY <1>2, <1>3, <1>4 DEF GreenInv

(* The steps of the tick. *)
LEMMA GreenTick == KeptInv /\ GreenInv /\ Tick => GreenInv'
<1> SUFFICES ASSUME KeptInv, GreenInv, Tick PROVE GreenInv'
  OBVIOUS
<1>1. DOMAIN pr = PRNames /\ DOMAIN obs = ObsNames
  BY DEF KeptInv, ShapeInv
<1>2. CASE Fetch
  BY <1>2, GreenSame DEF Fetch, github, store, history, Active
<1>3. CASE Observe
  <2>1. UNCHANGED <<pr, push, greens>>
    BY <1>3 DEF Observe, github, history
  <2>2. obs'.pr.checks = Normalise(pr.checks) /\ obs'.pr.head = pr.head
    <3>1. obs'.pr = Decode(pr)
      BY <1>3 DEF Observe
    <3> QED
      BY <1>1, <3>1 DEF Decode, PRNames
  <2> QED
    BY <2>1, <2>2 DEF GreenInv
<1>4. CASE FollowUpAndAbort
  <2>1. \E speaks, aborts : obs' = [obs EXCEPT !.spawned = speaks, !.aborted = aborts]
    BY <1>4 DEF FollowUpAndAbort
  <2>2. obs'.pr = obs.pr
    BY <1>1, <2>1 DEF ObsNames
  <2>3. UNCHANGED <<pr, push, greens>> /\ Active
    BY <1>4 DEF FollowUpAndAbort, github, history, Active
  <2> QED
    BY <2>2, <2>3, GreenSame
<1>5. CASE Retarget
  <2>1. UNCHANGED <<obs, greens>> /\ Active
    BY <1>5 DEF Retarget, history, Active
  <2>2. snap.push.tip = push.tip /\ DOMAIN snap.push = RowNames
    BY <1>5, <2>1 DEF Retarget, KeptInv, RowInv, ShapeInv
  <2>3. \/ UNCHANGED <<pr, push>>
        \/ pr' = [pr EXCEPT !.base = "main"] /\ push' = [snap.push EXCEPT !.base = "main"]
    BY Zenon, <1>5 DEF Retarget
  <2>4. pr'.checks = pr.checks /\ pr'.head = pr.head /\ push'.tip = push.tip
    BY <1>1, <2>2, <2>3 DEF PRNames, RowNames
  <2> QED
    BY <2>1, <2>4, GreenSame
<1>6. CASE Refresh
  <2>1. obs'.pr = obs.pr
    BY <1>1, <1>6 DEF Refresh, ObsNames
  <2>2. UNCHANGED <<pr, push, greens>> /\ Active
    BY <1>6 DEF Refresh, github, history, Active
  <2> QED
    BY <2>1, <2>2, GreenSame
<1>7. CASE RetryPush
  <2>1. UNCHANGED <<obs, greens>> /\ Active
    BY <1>7 DEF RetryPush, history, Active
  <2>2. CASE PushOne(snap)
    BY <2>1, <2>2, PushGreen
  <2>3. CASE UNCHANGED <<pr, push>>
    BY <2>1, <2>3, GreenSame
  <2> QED
    BY Zenon, <1>7, <2>2, <2>3 DEF RetryPush
<1>8. CASE CheckRemoval \/ RemoveWorktree \/ Withdraw
  <2>1. UNCHANGED <<pr, push, obs, greens>> /\ Active
    BY <1>8 DEF CheckRemoval, RemoveWorktree, Withdraw, github, history, Active
  <2> QED
    BY <2>1, GreenSame
<1>9. CASE PushPushable
  <2>1. UNCHANGED <<obs, greens>> /\ Active
    BY <1>9 DEF PushPushable, history, Active
  <2>2. CASE PushOne(Snapshot)
    BY <2>1, <2>2, PushGreen
  <2>3. CASE UNCHANGED <<pr, push>>
    BY <2>1, <2>3, GreenSame
  <2> QED
    BY Zenon, <1>9, <2>2, <2>3 DEF PushPushable
<1> QED
  BY <1>2, <1>3, <1>4, <1>5, <1>6, <1>7, <1>8, <1>9 DEF Tick

(* The steps of the others: CI reports between ticks. *)
LEMMA GreenWorld == KeptInv /\ GreenInv /\ World => GreenInv'
<1> SUFFICES ASSUME KeptInv, GreenInv, World PROVE GreenInv'
  OBVIOUS
<1>1. DOMAIN pr = PRNames
  BY DEF KeptInv, ShapeInv
<1>2. CASE UNCHANGED <<pr, obs, push, greens, phase>>
  BY <1>2, GreenSame DEF Active
<1>3. CASE TicketMerges
  <2>1. UNCHANGED <<obs, push, greens, phase>> /\ pr' = [pr EXCEPT !.state = "merged"]
    BY <1>3 DEF TicketMerges, Others, tick, history
  <2>2. pr'.checks = pr.checks /\ pr'.head = pr.head
    BY <1>1, <2>1 DEF PRNames
  <2> QED
    BY <2>1, <2>2, GreenSame DEF Active
<1>4. CASE ReviewerPushes
  <2>1. UNCHANGED <<obs, push, greens, phase>> /\ \E tip : pr' = Shown(pr, tip)
    BY <1>4 DEF ReviewerPushes, Others, tick
  <2>2. pr' = pr \/ pr'.checks = {}
    BY <1>1, <2>1, ShownChecks
  <2>3. CASE pr' = pr
    BY <2>1, <2>3, GreenSame DEF Active
  <2>4. CASE pr'.checks = {}
    <3>1. ~GreenRow(Normalise(pr'.checks))
      BY Zenon, <2>4, NormalisedRows
    <3> QED
      BY <2>1, <2>4, <3>1 DEF GreenInv, Rows, Active
  <2> QED
    BY <2>2, <2>3, <2>4
<1>5. CASE CiReruns
  <2>1. UNCHANGED <<obs, push, greens, phase>>
    BY <1>5 DEF CiReruns, Others, tick, history
  <2>2. /\ Rows(pr'.checks) /\ pr'.head = pr.head
        /\ GreenRow(Normalise(pr'.checks)) => GreenRow(Normalise(pr.checks))
    BY <1>1, <1>5, RerunKeepsRollup DEF GreenInv
  <2> QED
    BY <2>1, <2>2 DEF GreenInv, Active
<1>6. ASSUME NEW conclusion \in Conclusions, CiReports(conclusion), phase = "idle" PROVE GreenInv'
  <2>1. /\ UNCHANGED <<obs, push, phase>>
        /\ greens' = (greens \cap {push.tip}) \cup {h \in {pr.head} : conclusion = "SUCCESS"}
    BY <1>6 DEF CiReports, Others, tick
  <2>2. /\ Rows(pr'.checks) /\ pr'.head = pr.head
        /\ GreenRow(Normalise(pr'.checks)) => conclusion = "SUCCESS"
    BY <1>1, <1>6, ReportCounts DEF GreenInv
  <2>3. ~Active'
    BY <1>6, <2>1 DEF Active
  <2> QED
    BY <2>1, <2>2, <2>3 DEF GreenInv
<1>7. \/ UNCHANGED <<pr, obs, push, greens, phase>>
      \/ TicketMerges \/ ReviewerPushes \/ CiReruns
      \/ phase = "idle" /\ \E conclusion \in Conclusions : CiReports(conclusion)
  BY Zenon DEF World, github, history, Others, tick, Click, MainMoves, BlockerCloses, BlockerMoves, BlockerMerges,
     AgentCommits, AgentEnds, OwnerResolves, Conclusions
<1> QED
  BY <1>2, <1>3, <1>4, <1>5, <1>6, <1>7

(* A row that asks for review has green checks on the very tip that was    *)
(* pushed, never on an earlier head: the verdict compares the head the     *)
(* tick read with the tip of the latest row (ApplyVerdict, Evaluate), and  *)
(* a rollup is about the head it is read with (Normalise).                 *)
THEOREM ReviewedHeadIsGreen == Spec => []GreenMeansThisHead
<1>1. Init => RunInv /\ GreenInv
  <2> SUFFICES ASSUME Init PROVE RunInv /\ GreenInv
    OBVIOUS
  <2>1. /\ pr = NoPR /\ phase = "idle"
        /\ \E base : run = [alive |-> FALSE, outcome |-> "push", baseline |-> base, asked |-> FALSE]
        /\ obs.pr = Decode(pr)
    BY DEF Init
  <2>2. pr.checks = {} /\ obs.pr.checks = Normalise({})
    BY <2>1 DEF NoPR, Decode
  <2>3. ~GreenRow(Normalise({}))
    BY NormalisedRows
  <2>4. RunInv
    BY <2>1 DEF RunInv, Outcomes
  <2>5. GreenInv
    BY <2>1, <2>2, <2>3 DEF GreenInv, Rows, Active
  <2> QED
    BY <2>4, <2>5
<1>2. KeptInv /\ GreenInv /\ [Next]_vars => GreenInv'
  <2> SUFFICES ASSUME KeptInv, GreenInv, [Next]_vars PROVE GreenInv'
    OBVIOUS
  <2>1. CASE UNCHANGED vars
    BY <2>1, GreenSame DEF vars, github, store, tick, history, Active
  <2> QED
    BY <2>1, GreenTick, GreenWorld DEF Next
<1>3. RunInv /\ GreenInv => GreenMeansThisHead
  BY ReviewMeSeen DEF RunInv, GreenInv, GreenMeansThisHead
<1> QED
  BY <1>1, <1>2, <1>3, RunStep, KeptAlways, PTL DEF Spec

-----------------------------------------------------------------------------
(* Rows are whole.                                                         *)

RowWhole(row) == row.tip = {} <=> row = NoPush
PRStates == {"absent", "open", "merged"}

(* The absent row. *)
LEMMA NoPushIs == NoPush.tip = {} /\ NoPush.base # "b"
<1>1. NoPush.tip = {} /\ NoPush.base = ""
  BY Zenon DEF NoPush
<1>2. "" # "b"
  BY Zenon
<1> QED
  BY Zenon, <1>1, <1>2

(* A base that may be merged or rebased onto has commits. *)
TipsInv ==
    /\ remote.main # {} /\ track.main # {} /\ blocker.head # {}
    /\ blocker.state # "merged" => track.b # {}

(* So have the branch, what an unfinished merge or rebase would make of    *)
(* it, and what the tick read of it.                                       *)
FilledInv ==
    /\ worktree = "present" => local # {}
    /\ mid # NoMid => mid.result # {}
    /\ obs.worktree => obs.local # {}

(* The rows of the store and of the tick, and what GitHub's requests say.  *)
WholeInv ==
    /\ RowWhole(push)
    /\ Active => RowWhole(snap.push)
    /\ {pr.state, obs.pr.state} \subseteq PRStates
    /\ obs.blocker.state \in {"open", "merged", "closed"}

(* Nobody deletes main, and the blocker's branch only goes when it merged. *)
LEMMA TipsStep == KeptInv /\ TipsInv /\ [Next]_vars => TipsInv'
<1> SUFFICES ASSUME KeptInv, TipsInv, [Next]_vars PROVE TipsInv'
  OBVIOUS
<1>1. DOMAIN remote = TipNames /\ DOMAIN track = TipNames /\ DOMAIN blocker = {"state", "head"}
  BY DEF KeptInv, ShapeInv
<1>2. CASE UNCHANGED <<remote, track, blocker>>
  BY <1>2 DEF TipsInv
<1>3. CASE Fetch
  <2>1. track' = remote /\ UNCHANGED <<remote, blocker>>
    BY <1>3 DEF Fetch, github
  <2>2. blocker.state # "merged" => remote.b = blocker.head
    BY DEF KeptInv, BaseInv
  <2> QED
    BY <2>1, <2>2 DEF TipsInv
<1>4. ASSUME NEW s, PushOne(s), UNCHANGED blocker PROVE TipsInv'
  <2>1. UNCHANGED <<remote, track>> \/ Moved
    BY <1>4, PushCases
  <2>2. remote'.main = remote.main /\ track'.main = track.main /\ track'.b = track.b
    BY <1>1, <2>1 DEF Moved, TipNames
  <2> QED
    BY <1>4, <2>2 DEF TipsInv
<1>5. CASE MainMoves
  <2>1. UNCHANGED <<track, blocker>> /\ \E c : remote' = [remote EXCEPT !.main = @ \cup {c}]
    BY <1>5 DEF MainMoves, Others
  <2>2. remote'.main # {}
    BY <1>1, <2>1 DEF TipNames
  <2> QED
    BY <2>1, <2>2 DEF TipsInv
<1>6. CASE BlockerMoves
  <2>1. /\ UNCHANGED track /\ \E c : remote' = [remote EXCEPT !.b = @ \cup {c}]
        /\ blocker' = [blocker EXCEPT !.head = remote'.b]
    BY <1>6 DEF BlockerMoves, Others
  <2>2. remote'.main = remote.main /\ remote'.b # {}
    BY <1>1, <2>1 DEF TipNames
  <2>3. blocker'.state = blocker.state /\ blocker'.head # {}
    BY <1>1, <2>1, <2>2
  <2> QED
    BY <2>1, <2>2, <2>3 DEF TipsInv
<1>7. CASE BlockerMerges
  <2>1. /\ UNCHANGED track /\ blocker' = [blocker EXCEPT !.state = "merged"]
        /\ remote' = [remote EXCEPT !.main = SquashInto(@, remote.b), !.b = {}]
    BY <1>7 DEF BlockerMerges, Others
  <2>2. remote'.main = SquashInto(remote.main, remote.b)
    BY <1>1, <2>1 DEF TipNames
  <2>3. blocker'.state = "merged" /\ blocker'.head = blocker.head
    BY <1>1, <2>1
  <2> QED
    BY <2>1, <2>2, <2>3 DEF TipsInv, SquashInto
<1>8. CASE BlockerCloses
  <2>1. /\ UNCHANGED <<remote, track>> /\ blocker' = [blocker EXCEPT !.state = "closed"]
        /\ blocker.state = "open"
    BY <1>8 DEF BlockerCloses, Others
  <2>2. blocker'.head = blocker.head
    BY <1>1, <2>1
  <2> QED
    BY <2>1, <2>2 DEF TipsInv
<1>9. CASE TicketMerges
  <2>1. /\ UNCHANGED <<track, blocker>>
        /\ remote' = [remote EXCEPT !.main = SquashInto(@, remote.t), !.t = {}]
    BY <1>9 DEF TicketMerges, Others
  <2>2. remote'.main = SquashInto(remote.main, remote.t)
    BY <1>1, <2>1 DEF TipNames
  <2> QED
    BY <2>1, <2>2 DEF TipsInv, SquashInto
<1>10. CASE ReviewerPushes
  <2>1. UNCHANGED <<track, blocker>> /\ \E tip : remote' = [remote EXCEPT !.t = tip]
    BY <1>10 DEF ReviewerPushes, Others
  <2>2. remote'.main = remote.main
    BY <1>1, <2>1 DEF TipNames
  <2> QED
    BY <2>1, <2>2 DEF TipsInv
<1>11. CASE Tick
  <2>1. \/ UNCHANGED <<remote, track, blocker>> \/ Fetch
        \/ UNCHANGED blocker /\ \E s : PushOne(s)
    BY Zenon, <1>11 DEF Tick, github, Observe, FollowUpAndAbort, Retarget, Refresh, RetryPush, CheckRemoval,
       RemoveWorktree, Withdraw, PushPushable
  <2> QED
    BY <1>2, <1>3, <1>4, <2>1
<1>12. CASE World
  <2>1. \/ UNCHANGED <<remote, track, blocker>>
        \/ MainMoves \/ BlockerMoves \/ BlockerMerges \/ BlockerCloses \/ TicketMerges \/ ReviewerPushes
    BY Zenon, <1>12 DEF World, github, Others, Click, CiReports, CiReruns, AgentCommits, AgentEnds, OwnerResolves
  <2> QED
    BY <1>2, <1>5, <1>6, <1>7, <1>8, <1>9, <1>10, <2>1
<1> QED
  BY <1>2, <1>11, <1>12 DEF Next, vars, github

(* What refreshOne makes of a branch with commits has commits. *)
LEMMA CarriedFilled ==
    ASSUME KeptInv, TipsInv, Active, worktree = "present" => local # {}, obs.worktree => worktree = "present",
           NEW row, NEW requested, NEW log0, NEW next, RefreshOne(row, requested, log0, next),
           mid # NoMid => mid.result # {}
    PROVE  /\ worktree = "present" => local' # {}
           /\ mid' # NoMid => mid'.result # {}
<1>1. local # {} => Forwarded # {}
  BY DEF Forwarded, Ancestor
<1>2. Unlock(obs).unlocked => track[Unlock(obs).base] # {}
  <2> SUFFICES ASSUME Unlock(obs).unlocked PROVE track[Unlock(obs).base] # {}
    OBVIOUS
  <2>1. obs.blocker = blocker /\ blocker.state \in {"open", "merged", "closed"}
    BY DEF KeptInv, BaseInv
  <2>2. CASE blocker.state = "open" /\ Unlock(obs).base = "b"
    BY <2>2 DEF TipsInv
  <2>3. CASE blocker.state = "merged" /\ Unlock(obs).base = "main"
    BY <2>3 DEF TipsInv
  <2> QED
    BY <2>1, <2>2, <2>3, UnlockedBase
<1>3. Unlock(obs).unlocked => OntoBase(row) # {}
  BY <1>2 DEF OntoBase, Rebase
<1>4. CASE UNCHANGED <<local, mid>>
  BY <1>4
<1>5. CASE obs.worktree /\ local' = Forwarded /\ UNCHANGED mid
  BY <1>1, <1>5
<1>6. CASE obs.worktree /\ Unlock(obs).unlocked /\ UNCHANGED mid /\ local' = OntoBase(row)
  BY <1>3, <1>6
<1>7. CASE /\ obs.worktree /\ Unlock(obs).unlocked /\ local' = Forwarded
           /\ \E kind : mid' = [kind |-> kind, result |-> OntoBase(row)]
  <2>1. mid'.result = OntoBase(row)
    BY <1>7
  <2> QED
    BY <1>1, <1>3, <1>7, <2>1
<1> QED
  BY <1>4, <1>5, <1>6, <1>7, RefreshCases

(* The branch has commits as long as it has a worktree. *)
LEMMA FilledStep == KeptInv /\ TipsInv /\ FilledInv /\ [Next]_vars => FilledInv'
<1> SUFFICES ASSUME KeptInv, TipsInv, FilledInv, [Next]_vars PROVE FilledInv'
  OBVIOUS
<1>1. DOMAIN obs = ObsNames /\ WorkInv
  BY DEF KeptInv, ShapeInv
<1>2. CASE UNCHANGED <<local, worktree, mid, obs>>
  BY <1>2 DEF FilledInv
<1>3. CASE Observe
  <2>1. UNCHANGED <<local, worktree, mid>> /\ obs'.local = local /\ obs'.worktree = (worktree = "present")
    BY <1>3 DEF Observe, work
  <2> QED
    BY <2>1 DEF FilledInv
<1>4. CASE FollowUpAndAbort
  <2>1. UNCHANGED <<local, worktree>> /\ (mid' = mid \/ mid' = NoMid)
    BY Zenon, <1>4 DEF FollowUpAndAbort
  <2>2. \E speaks, aborts : obs' = [obs EXCEPT !.spawned = speaks, !.aborted = aborts]
    BY Zenon, <1>4 DEF FollowUpAndAbort
  <2>3. obs'.worktree = obs.worktree /\ obs'.local = obs.local
    BY <1>1, <2>2 DEF ObsNames
  <2> QED
    BY <2>1, <2>3 DEF FilledInv
<1>5. CASE Retarget
  <2>1. UNCHANGED <<worktree, obs>> /\ Active /\ (obs.worktree => worktree = "present")
    BY <1>1, <1>5 DEF Retarget, Active, WorkInv
  <2>2. UNCHANGED <<local, mid>> \/ RefreshOne(snap.push, FALSE, <<>>, "refresh")
    BY Zenon, <1>5 DEF Retarget
  <2>3. (worktree = "present" => local' # {}) /\ (mid' # NoMid => mid'.result # {})
    BY <2>1, <2>2, CarriedFilled DEF FilledInv
  <2> QED
    BY <2>1, <2>3 DEF FilledInv
<1>6. CASE Refresh
  <2>1. UNCHANGED worktree /\ Active /\ (obs.worktree => worktree = "present")
    BY <1>1, <1>6 DEF Refresh, Active, WorkInv
  <2>2. UNCHANGED <<local, mid>> \/ RefreshOne(snap.push, Asks("refresh"), log, AfterRefresh)
    BY Zenon, <1>6 DEF Refresh
  <2>3. (worktree = "present" => local' # {}) /\ (mid' # NoMid => mid'.result # {})
    BY <2>1, <2>2, CarriedFilled DEF FilledInv
  <2>4. obs'.worktree = obs.worktree /\ obs'.local = local'
    BY <1>1, <1>6 DEF Refresh, ObsNames
  <2> QED
    BY <2>1, <2>3, <2>4 DEF FilledInv
<1>7. CASE RemoveWorktree
  <2>1. UNCHANGED <<mid, obs>> /\ (UNCHANGED <<worktree, local>> \/ worktree' = "gone")
    BY Zenon, <1>7 DEF RemoveWorktree
  <2> QED
    BY <2>1 DEF FilledInv
<1>8. CASE AgentCommits
  <2>1. UNCHANGED <<worktree, mid, obs>> /\ local \subseteq local'
    BY <1>8 DEF AgentCommits, Others, tick
  <2> QED
    BY <2>1 DEF FilledInv
<1>9. CASE OwnerResolves
  <2>1. UNCHANGED <<worktree, obs>> /\ mid # NoMid /\ local' = mid.result /\ mid' = NoMid
    BY <1>9 DEF OwnerResolves, Others, tick
  <2> QED
    BY <2>1 DEF FilledInv
<1>10. \/ UNCHANGED <<local, worktree, mid, obs>> \/ Observe \/ FollowUpAndAbort \/ Retarget \/ Refresh
       \/ RemoveWorktree \/ AgentCommits \/ OwnerResolves
  BY Zenon DEF Next, Tick, World, vars, work, tick, Others, Fetch, RetryPush, CheckRemoval, Withdraw, PushPushable,
     Click, CiReports, CiReruns, MainMoves, BlockerCloses, BlockerMoves, BlockerMerges, TicketMerges,
     ReviewerPushes, AgentEnds
<1> QED
  BY <1>2, <1>3, <1>4, <1>5, <1>6, <1>7, <1>8, <1>9, <1>10

(* A push records a whole row and leaves an open or the same request. *)
LEMMA PushWhole ==
    ASSUME KeptInv, FilledInv, WholeInv, Active, Unlock(obs).unlocked, obs.worktree, NEW s, PushOne(s)
    PROVE  RowWhole(push)' /\ pr'.state \in PRStates
<1>1. RowWhole(push)'
  <2>1. CASE UNCHANGED push
    BY <2>1 DEF WholeInv, RowWhole
  <2>2. CASE push' = Row
    <3>1. push'.tip # {}
      BY <2>2 DEF Row, FilledInv
    <3> QED
      BY <3>1, NoPushIs DEF RowWhole
  <2> QED
    BY <2>1, <2>2, PushCases
<1>2. pr'.state \in PRStates
  <2>1. DOMAIN pr = PRNames /\ pr.state \in PRStates
    BY DEF KeptInv, ShapeInv, WholeInv
  <2>2. CASE pr' = pr
    BY <2>1, <2>2
  <2>3. CASE pr' = Shown(pr, local)
    BY <2>1, <2>3 DEF Shown, PRNames
  <2>4. CASE pr' = Opened
    BY <2>4 DEF Opened, PRStates
  <2> QED
    BY <2>2, <2>3, <2>4, PushCases
<1> QED
  BY <1>1, <1>2

(* Steps that change no row and no request. *)
LEMMA WholeSame ==
    ASSUME WholeInv, push' = push, pr'.state = pr.state, obs'.pr = obs.pr, obs'.blocker = obs.blocker,
           Active' => Active /\ snap' = snap
    PROVE  WholeInv'
  BY DEF WholeInv, RowWhole

(* The steps of the tick. *)
LEMMA WholeTick == KeptInv /\ FilledInv /\ WholeInv /\ Tick => WholeInv'
<1> SUFFICES ASSUME KeptInv, FilledInv, WholeInv, Tick PROVE WholeInv'
  OBVIOUS
<1>1. DOMAIN pr = PRNames /\ DOMAIN obs = ObsNames /\ DOMAIN push = RowNames
  BY DEF KeptInv, ShapeInv
<1>2. CASE Fetch
  BY <1>2, WholeSame DEF Fetch, github, store, Active
<1>3. CASE Observe
  <2>1. UNCHANGED <<pr, push>> /\ obs'.blocker = blocker /\ obs'.pr = Decode(pr)
    BY <1>3 DEF Observe, github
  <2>2. obs'.pr.state = pr.state
    BY <1>1, <2>1 DEF Decode, PRNames
  <2>3. snap'.push = push
    BY <1>3 DEF Observe, Snapshot
  <2>4. blocker.state \in {"open", "merged", "closed"}
    BY DEF KeptInv, BaseInv
  <2> QED
    BY <2>1, <2>2, <2>3, <2>4 DEF WholeInv, RowWhole
<1>4. CASE FollowUpAndAbort
  <2>1. \E speaks, aborts : obs' = [obs EXCEPT !.spawned = speaks, !.aborted = aborts]
    BY Zenon, <1>4 DEF FollowUpAndAbort
  <2>2. obs'.pr = obs.pr /\ obs'.blocker = obs.blocker
    BY <1>1, <2>1 DEF ObsNames
  <2>3. UNCHANGED <<pr, push, snap>> /\ Active
    BY <1>4 DEF FollowUpAndAbort, github, Active
  <2> QED
    BY <2>2, <2>3, WholeSame
<1>5. CASE Retarget
  <2>1. UNCHANGED obs /\ Active /\ (Active' => snap' = snap)
    BY <1>5 DEF Retarget, Active, EndTick
  <2>2. \/ UNCHANGED <<pr, push>>
        \/ /\ pr' = [pr EXCEPT !.base = "main"] /\ push' = [snap.push EXCEPT !.base = "main"]
           /\ snap.push.base = "b"
    BY Zenon, <1>5 DEF Retarget, Retargets
  <2>3. pr'.state = pr.state
    BY <1>1, <2>2 DEF PRNames
  <2>4. CASE UNCHANGED push
    BY <2>1, <2>3, <2>4, WholeSame
  <2>5. CASE push' = [snap.push EXCEPT !.base = "main"] /\ snap.push.base = "b"
    <3>1. snap.push.tip # {} /\ DOMAIN snap.push = RowNames
      BY <2>1, <2>5, NoPushIs DEF WholeInv, RowWhole, KeptInv, ShapeInv
    <3>2. push'.tip # {}
      BY <2>5, <3>1 DEF RowNames
    <3>3. RowWhole(push)'
      BY <3>2, NoPushIs DEF RowWhole
    <3> QED
      BY <2>1, <2>3, <3>3 DEF WholeInv, RowWhole
  <2> QED
    BY <2>2, <2>4, <2>5
<1>6. CASE Refresh
  <2>1. obs'.pr = obs.pr /\ obs'.blocker = obs.blocker
    BY <1>1, <1>6 DEF Refresh, ObsNames
  <2>2. UNCHANGED <<pr, push>> /\ Active /\ (Active' => snap' = snap)
    BY <1>6 DEF Refresh, github, Active, EndTick
  <2> QED
    BY <2>1, <2>2, WholeSame
<1>7. CASE RetryPush
  <2>1. UNCHANGED <<obs, snap>> /\ Active
    BY <1>7 DEF RetryPush, Active
  <2>2. CASE PushOne(snap) /\ CanPush
    BY <2>1, <2>2, PushWhole DEF WholeInv, RowWhole, CanPush
  <2>3. CASE UNCHANGED <<pr, push>>
    BY <2>1, <2>3, WholeSame
  <2> QED
    BY Zenon, <1>7, <2>2, <2>3 DEF RetryPush
<1>8. CASE CheckRemoval \/ RemoveWorktree \/ Withdraw
  <2>1. UNCHANGED <<pr, push, obs>> /\ Active /\ (Active' => snap' = snap)
    BY <1>8 DEF CheckRemoval, RemoveWorktree, Withdraw, github, Active, EndTick
  <2> QED
    BY <2>1, WholeSame
<1>9. CASE PushPushable
  <2>1. UNCHANGED obs /\ Active /\ ~Active'
    BY <1>9 DEF PushPushable, Active
  <2>2. CASE PushOne(Snapshot) /\ CanPush
    BY <2>1, <2>2, PushWhole DEF WholeInv, RowWhole, CanPush
  <2>3. CASE UNCHANGED <<pr, push>>
    BY <2>1, <2>3, WholeSame
  <2> QED
    BY Zenon, <1>9, <2>2, <2>3 DEF PushPushable, Pushable
<1> QED
  BY <1>2, <1>3, <1>4, <1>5, <1>6, <1>7, <1>8, <1>9 DEF Tick

(* The steps of the others: a request is merged, or its head moves. *)
LEMMA WholeWorld == KeptInv /\ WholeInv /\ World => WholeInv'
<1> SUFFICES ASSUME KeptInv, WholeInv, World PROVE WholeInv'
  OBVIOUS
<1>1. DOMAIN pr = PRNames
  BY DEF KeptInv, ShapeInv
<1>2. UNCHANGED <<push, phase, obs, snap>>
  BY Zenon DEF World, github, Others, tick, Click, CiReports, CiReruns, MainMoves, BlockerCloses, BlockerMoves,
     BlockerMerges, TicketMerges, ReviewerPushes, AgentCommits, AgentEnds, OwnerResolves
<1>3. \/ UNCHANGED pr \/ (\E tip : pr' = Shown(pr, tip)) \/ (\E checks : pr' = [pr EXCEPT !.checks = checks])
      \/ pr' = [pr EXCEPT !.state = "merged"]
  BY Zenon DEF World, github, Others, tick, Click, CiReports, CiReruns, MainMoves, BlockerCloses, BlockerMoves,
     BlockerMerges, TicketMerges, ReviewerPushes, AgentCommits, AgentEnds, OwnerResolves
<1>4. pr'.state = pr.state \/ pr'.state = "merged"
  <2>1. ASSUME NEW tip, pr' = Shown(pr, tip) PROVE pr'.state = pr.state
    BY <1>1, <2>1 DEF Shown, PRNames
  <2>2. ASSUME NEW checks, pr' = [pr EXCEPT !.checks = checks] PROVE pr'.state = pr.state
    BY <1>1, <2>2 DEF PRNames
  <2>3. CASE pr' = [pr EXCEPT !.state = "merged"]
    BY <1>1, <2>3 DEF PRNames
  <2> QED
    BY <1>3, <2>1, <2>2, <2>3
<1>5. Active' => Active /\ snap' = snap
  BY <1>2 DEF Active
<1> QED
  BY <1>2, <1>4, <1>5 DEF WholeInv, RowWhole, PRStates

(* The verdict on a ticket with a recorded push is one of five. *)
LEMMA VerdictIs ==
    ASSUME NEW s, NEW o
    PROVE  ApplyVerdict(s, o) \in {"base_moved", "ci_failed", "review_me", "checking", "needs_you"}
<1>1. ASSUME NEW in
      PROVE  EvaluateOnce(Predicate, in) \in {"ci_failed", "review_me", "checking", "needs_you"}
  <2>1. Resolve(Predicate, in) \in {"green", "pending", "red"}
    BY ResolvesLeaf DEF RequireConclusion
  <2> QED
    BY <2>1 DEF EvaluateOnce
<1>2. ASSUME NEW in, in.compat = ""
      PROVE  Evaluate(Predicate, in) \in {"base_moved", "ci_failed", "review_me", "checking", "needs_you"}
  <2> DEFINE seen == [in EXCEPT !.checks = IF in.headMatch THEN @ ELSE NoChecks]
  <2>1. Evaluate(Predicate, in) = "base_moved" \/ Evaluate(Predicate, in) = EvaluateOnce(Predicate, seen)
    BY Zenon, <1>2 DEF Evaluate
  <2> HIDE DEF seen
  <2> QED
    BY <1>1, <2>1
<1> DEFINE in == [checks |-> VerdictChecks(o.pr.checks),
                  headMatch |-> s.push.tip # {} /\ o.pr.head = s.push.tip,
                  stacked |-> s.push.base # "", baseMatch |-> o.tips[s.push.base] = s.push.baseSHA,
                  configOK |-> TRUE, waited |-> s.waited, author |-> "", compat |-> ""]
<1>3. ApplyVerdict(s, o) = Evaluate(Predicate, in) /\ in.compat = ""
  BY Zenon DEF ApplyVerdict
<1> HIDE DEF in
<1> QED
  BY Zenon, <1>2, <1>3

(* Whatever a tick read and the store says, the row has one of the states  *)
(* the page knows for this ticket.                                         *)
LEMMA StateKnown ==
    ASSUME run.outcome \in Outcomes, obs.pr.state \in PRStates
    PROVE  State \in RowStates
<1> DEFINE f == RunFor(Snapshot, obs)
<1>1. f.outcome = run.outcome /\ f.pr = obs.pr.state
  BY DEF RunFor, Snapshot
<1>2. f.verdict \in {"none", "base_moved", "ci_failed", "review_me", "checking", "needs_you"}
  <2>1. f.verdict = "none" \/ f.verdict = ApplyVerdict(Snapshot, obs)
    BY Zenon DEF RunFor
  <2> QED
    BY <2>1, VerdictIs
<1>3. State = "base_gone" \/ State = "merged" \/ State = "running" \/ State = "queued" \/ State = "awaiting_input"
      \/ State = "failed" \/ State = StatusFromPush(f)
  <2> HIDE DEF f
  <2>1. State = IF obs.blocker.state = "closed" THEN "base_gone"
        ELSE IF f.pr = "merged" THEN "merged"
        ELSE IF f.alive THEN "running"
        ELSE CASE f.outcome = "none"   -> "queued"
               [] f.outcome = "asked"  -> "awaiting_input"
               [] f.outcome = "failed" -> "failed"
               [] f.outcome = "push"   -> StatusFromPush(f)
    BY Zenon DEF State, Status, f
  <2> QED
    BY <1>1, <2>1 DEF Outcomes
<1> HIDE DEF f
<1>4. StatusFromPush(f) \in RowStates
  BY <1>1, <1>2 DEF StatusFromPush, StateOfVerdict, RowStates, PRStates
<1> QED
  BY <1>3, <1>4 DEF RowStates

(* A push row is whole or absent, and every state a tick can derive is one *)
(* of those the page knows (RecordPush, retargetMerged, Status): the part  *)
(* of TypeOK that does not depend on the bounds of an instance.            *)
THEOREM RowsAreWhole == Spec => []RowsWhole
<1>1. Init => RunInv /\ TipsInv /\ FilledInv /\ WholeInv
  <2> SUFFICES ASSUME Init PROVE RunInv /\ TipsInv /\ FilledInv /\ WholeInv
    OBVIOUS
  <2> DEFINE main == {<<"m0", 0>>}
             base == main \cup {<<"b1", 0>>}
  <2>1. /\ pr = NoPR /\ phase = "idle" /\ push = NoPush /\ mid = NoMid
        /\ run = [alive |-> FALSE, outcome |-> "push", baseline |-> base, asked |-> FALSE]
        /\ obs.pr = Decode(pr) /\ obs.blocker = blocker /\ obs.local = local
        /\ blocker = [state |-> "open", head |-> base]
        /\ remote = [main |-> main, b |-> base, t |-> {}] /\ track = remote
    BY DEF Init
  <2>2. local # {} /\ main # {} /\ base # {}
    BY DEF Init
  <2> HIDE DEF main, base
  <2>3. pr.state = "absent" /\ DOMAIN pr = PRNames
    BY Zenon, <2>1 DEF NoPR, PRNames
  <2>4. obs.pr.state = "absent"
    BY <2>1, <2>3 DEF Decode, PRNames
  <2>5. RunInv
    BY <2>1 DEF RunInv, Outcomes
  <2>6. TipsInv
    BY <2>1, <2>2 DEF TipsInv
  <2>7. FilledInv
    BY <2>1, <2>2 DEF FilledInv
  <2>8. WholeInv
    BY <2>1, <2>3, <2>4, NoPushIs DEF WholeInv, RowWhole, Active, PRStates
  <2> QED
    BY <2>5, <2>6, <2>7, <2>8
<1>2. KeptInv /\ FilledInv /\ WholeInv /\ [Next]_vars => WholeInv'
  <2> SUFFICES ASSUME KeptInv, FilledInv, WholeInv, [Next]_vars PROVE WholeInv'
    OBVIOUS
  <2>1. CASE UNCHANGED vars
    BY <2>1, WholeSame DEF vars, github, store, tick, Active
  <2> QED
    BY <2>1, WholeTick, WholeWorld DEF Next
<1>3. KeptInv /\ RunInv /\ WholeInv => RowsWhole
  <2> SUFFICES ASSUME KeptInv, RunInv, WholeInv PROVE RowsWhole
    OBVIOUS
  <2>1. State \in RowStates
    BY StateKnown DEF RunInv, WholeInv
  <2>2. phase \in Phases /\ RowOK(push) /\ RowWhole(push)
    BY DEF KeptInv, ShapeInv, RowInv, WholeInv
  <2> QED
    BY Zenon, <2>1, <2>2 DEF RowOK, RowWhole, RowsWhole
<1> QED
  BY <1>1, <1>2, <1>3, RunStep, TipsStep, FilledStep, KeptAlways, PTL DEF Spec
=============================================================================
