--------------------------- MODULE TelemetryProofs ---------------------------
(***************************************************************************)
(* The log stream and the spending gauge, for any logs, plans and faults.  *)
(*                                                                         *)
(* The browser gets every event at most once and in order: StreamInv says  *)
(* where the stream and a browser that reconnects resume, in terms of the  *)
(* offsets of the lines already shown.  A stream that nothing interrupted  *)
(* misses none: by TailInv it has sent every event up to the line it is    *)
(* at, and closes at the end of a log that is complete.                    *)
(*                                                                         *)
(* Utilisation intervals never overlap and weigh of each transcript the    *)
(* requests made within them or its total, and the gauge never goes back:  *)
(* MeterInv says that every interval ends by a reading still kept, so that *)
(* no request to come falls into one; a result keeps its date and total.   *)
(*                                                                         *)
(* The operators of the model are recursive functions.  What they compute  *)
(* is typed with Recursion and BoundedInduction, about functions alone.    *)
(***************************************************************************)
EXTENDS Telemetry, SequenceTheorems, WellFoundedInduction, TLAPS

-----------------------------------------------------------------------------
(* Bounded recursion.                                                      *)

(* A set of naturals has a least element. *)
LEMMA LeastNatural ==
    ASSUME NEW S \in SUBSET Nat, S # {}
    PROVE  \E m \in S : \A k \in S : m <= k
<1>1. \E m \in S : \A k \in S : ~(<<k, m>> \in OpToRel(<, Nat))
  BY NatLessThanWellFounded, WFMin
<1>2. PICK m \in S : \A k \in S : ~(k < m)
  <2>1. \A k, m \in S : <<k, m>> \in OpToRel(<, Nat) <=> k < m
    BY DEF OpToRel
  <2> QED
    BY Zenon, <1>1, <2>1
<1> QED
  BY <1>2

(* What holds of the first value of a bounded recursion and is kept by its *)
(* steps holds of every value.                                             *)
LEMMA BoundedInduction ==
    ASSUME NEW S, NEW n \in Nat, NEW f, f[0] \in S,
           \A i \in 1..n : f[i - 1] \in S => f[i] \in S
    PROVE  \A i \in 0..n : f[i] \in S
<1> DEFINE Bad == {i \in 0..n : f[i] \notin S}
<1> SUFFICES ASSUME Bad # {} PROVE FALSE
  OBVIOUS
<1>1. Bad \in SUBSET Nat
  OBVIOUS
<1>2. PICK m \in Bad : \A k \in Bad : m <= k
  <2> HIDE DEF Bad
  <2> QED BY <1>1, LeastNatural
<1>3. m \in 0..n /\ f[m] \notin S
  BY <1>2
<1>4. m # 0
  BY <1>3
<1>5. m \in 1..n /\ m - 1 \in 0..n /\ ~(m <= m - 1)
  BY <1>3, <1>4
<1>6. m - 1 \notin Bad
  BY <1>2, <1>5
<1> QED
  BY <1>3, <1>5, <1>6

(* The values of a bounded recursion, one per step.                        *)
Iterates(f, n, init, step) == f[0] = init /\ \A i \in 1..n : f[i] = step[i][f[i - 1]]

(* A bounded recursion whose steps stay in a set has a solution.           *)
LEMMA Recursion ==
    ASSUME NEW A, NEW n \in Nat, NEW init \in A, NEW step \in [1..n -> [A -> A]]
    PROVE  \E f \in [0..n -> A] : Iterates(f, n, init, step)
<1> DEFINE Solves(f, k) == f[0] = init /\ \A i \in 1..k : f[i] = step[i][f[i - 1]]
           Good == {k \in 0..n : \E f \in [0..k -> A] : Solves(f, k)}
           id == [k \in 0..n |-> k]
<1>1. 0 \in Good
  <2> DEFINE f == [i \in 0..0 |-> init]
  <2>1. f \in [0..0 -> A] /\ f[0] = init /\ 1..0 = {}
    OBVIOUS
  <2>2. Solves(f, 0)
    BY <2>1
  <2> HIDE DEF f, Solves
  <2>3. \E h \in [0..0 -> A] : Solves(h, 0)
    BY <2>1, <2>2, Zenon
  <2>4. 0 \in 0..n
    OBVIOUS
  <2> QED
    BY <2>3, <2>4, Zenon
<1>2. ASSUME NEW k \in 1..n, k - 1 \in Good PROVE k \in Good
  <2>1. PICK f \in [0..(k - 1) -> A] : Solves(f, k - 1)
    BY <1>2
  <2> DEFINE g == [i \in 0..k |-> IF i = k THEN step[k][f[k - 1]] ELSE f[i]]
  <2>2. k - 1 \in 0..(k - 1) /\ k \in 1..n /\ f[k - 1] \in A
    BY <2>1
  <2>3. step[k][f[k - 1]] \in A
    BY <2>2
  <2>4. g \in [0..k -> A]
    <3>1. ASSUME NEW i \in 0..k, i # k PROVE i \in 0..(k - 1)
      BY <3>1
    <3> QED
      BY <2>1, <2>3, <3>1
  <2>5. g[0] = init
    BY <2>1
  <2>6. ASSUME NEW i \in 1..k PROVE g[i] = step[i][g[i - 1]]
    <3>1. CASE i = k
      <4>1. g[k] = step[k][f[k - 1]] /\ g[k - 1] = f[k - 1]
        BY <2>2
      <4> QED
        BY <3>1, <4>1
    <3>2. CASE i # k
      <4>1. i \in 1..(k - 1) /\ i - 1 \in 0..k /\ i - 1 # k /\ i \in 0..k
        BY <3>2
      <4>2. g[i] = f[i] /\ g[i - 1] = f[i - 1]
        BY <4>1, <3>2
      <4> QED
        BY <4>1, <4>2, <2>1
    <3> QED
      BY <3>1, <3>2
  <2>7. Solves(g, k) /\ k \in 0..n
    <3> HIDE DEF g
    <3>1. k \in 0..n
      OBVIOUS
    <3> QED
      BY <2>5, <2>6, <3>1, Zenon
  <2> HIDE DEF Solves, g
  <2> QED
    BY <2>4, <2>7, Zenon
<1>3. \A k \in 0..n : id[k] \in Good
  <2>1. id[0] \in Good
    <3> HIDE DEF Good
    <3> QED BY <1>1
  <2>2. \A i \in 1..n : id[i - 1] \in Good => id[i] \in Good
    <3> HIDE DEF Good
    <3>1. \A i \in 1..n : id[i - 1] = i - 1 /\ id[i] = i
      OBVIOUS
    <3> QED BY <1>2, <3>1
  <2> HIDE DEF Good, id
  <2> QED
    BY <2>1, <2>2, BoundedInduction
<1>4. n \in Good
  <2> HIDE DEF Good
  <2>1. id[n] = n /\ n \in 0..n
    OBVIOUS
  <2> QED BY <1>3, <2>1
<1>5. PICK f \in [0..n -> A] : Solves(f, n)
  BY <1>4
<1>6. Iterates(f, n, init, step)
  BY <1>5, Zenon DEF Iterates
<1> QED
  BY <1>6

(* Keeping some places of a sequence yields a sequence. *)
LEMMA OnlyType ==
    ASSUME NEW S, NEW s \in Seq(S), NEW keep
    PROVE  Only(s, keep) \in Seq(S)
<1> DEFINE Body(g) == [i \in 0..Len(s) |->
                         IF i = 0 THEN <<>> ELSE IF i \in keep THEN Append(g[i - 1], s[i]) ELSE g[i - 1]]
           f == CHOOSE g : g = Body(g)
           step == [i \in 1..Len(s) |-> [x \in Seq(S) |-> IF i \in keep THEN Append(x, s[i]) ELSE x]]
<1>0. Len(s) \in Nat /\ \A i \in 1..Len(s) : s[i] \in S
  OBVIOUS
<1>1. step \in [1..Len(s) -> [Seq(S) -> Seq(S)]]
  <2>1. ASSUME NEW i \in 1..Len(s), NEW x \in Seq(S) PROVE (IF i \in keep THEN Append(x, s[i]) ELSE x) \in Seq(S)
    BY <1>0
  <2> QED BY <2>1
<1>2. PICK g \in [0..Len(s) -> Seq(S)] : Iterates(g, Len(s), <<>>, step)
  <2> DEFINE A == Seq(S)
             n == Len(s)
             init == <<>>
  <2>1. init \in A /\ n \in Nat /\ step \in [1..n -> [A -> A]]
    <3> HIDE DEF step
    <3> QED
      BY <1>0, <1>1
  <2>2. \E g \in [0..n -> A] : Iterates(g, n, init, step)
    <3> HIDE DEF A, n, init, step
    <3> QED
      BY <2>1, Recursion
  <2> QED
    BY <2>2
<1>3. g = Body(g)
  <2>1. \A i \in 1..Len(s) : i - 1 \in 0..Len(s) /\ i # 0
    BY <1>0
  <2>2. \A i \in 1..Len(s) : g[i] = IF i \in keep THEN Append(g[i - 1], s[i]) ELSE g[i - 1]
    BY <1>2, <2>1 DEF Iterates
  <2>3. \A i \in 0..Len(s) : i = 0 \/ i \in 1..Len(s)
    BY <1>0
  <2>4. ASSUME NEW i \in 0..Len(s) PROVE g[i] = Body(g)[i]
    BY <1>2, <2>2, <2>3 DEF Iterates
  <2>5. g = [i \in 0..Len(s) |-> g[i]] /\ Body(g) = [i \in 0..Len(s) |-> Body(g)[i]]
    OBVIOUS
  <2> HIDE DEF Body
  <2> QED
    BY <2>4, <2>5
<1>4. f = Body(f)
  <2> HIDE DEF Body
  <2> QED
    BY <1>3, Zenon
<1>5. Only(s, keep) = f[Len(s)]
  BY Zenon DEF Only
<1>6. \A i \in 0..Len(s) : f[i] \in Seq(S)
  <2> HIDE DEF f
  <2>0. 0 \in 0..Len(s) /\ \A i \in 1..Len(s) : i \in 0..Len(s) /\ i # 0
    BY <1>0
  <2>1. f[0] = <<>>
    <3>1. Body(f)[0] = <<>>
      BY <2>0
    <3> QED
      BY <1>4, <3>1, Zenon
  <2>2. ASSUME NEW i \in 1..Len(s), f[i - 1] \in Seq(S)
        PROVE  f[i] \in Seq(S)
    <3>1. Body(f)[i] = IF i \in keep THEN Append(f[i - 1], s[i]) ELSE f[i - 1]
      BY <2>0
    <3>2. Body(f)[i] \in Seq(S)
      BY <3>1, <2>2, <1>0
    <3> QED
      BY <1>4, <3>2, Zenon
  <2>3. f[0] \in Seq(S)
    BY <2>1
  <2> QED
    BY <2>2, <2>3, <1>0, BoundedInduction
<1> HIDE DEF f
<1> QED
  BY <1>0, <1>5, <1>6
(* A nonempty set of naturals up to n has a greatest element. *)
LEMMA GreatestBelow ==
    ASSUME NEW n \in Nat, NEW S \in SUBSET (0..n), S # {}
    PROVE  \E m \in S : \A k \in S : k <= m
<1> DEFINE D == {d \in 0..n : n - d \in S}
<1>1. D \in SUBSET Nat /\ D # {}
  <2>1. PICK k \in S : TRUE
    OBVIOUS
  <2>2. n - k \in 0..n /\ n - (n - k) = k
    BY <2>1
  <2>3. n - k \in D
    BY <2>1, <2>2
  <2>4. D \in SUBSET Nat
    OBVIOUS
  <2> HIDE DEF D
  <2> QED
    BY <2>3, <2>4
<1>2. PICK d \in D : \A e \in D : d <= e
  <2> HIDE DEF D
  <2> QED
    BY <1>1, LeastNatural
<1>3. n - d \in S /\ d \in 0..n
  BY <1>2
<1>4. ASSUME NEW k \in S PROVE k <= n - d
  <2>1. n - k \in 0..n /\ n - (n - k) = k
    OBVIOUS
  <2>2. n - k \in D
    BY <2>1
  <2>3. d <= n - k
    BY <1>2, <2>2
  <2> QED
    BY <1>3, <2>1, <2>3
<1> QED
  BY <1>3, <1>4

(* The only member of a set of one is the one chosen from it. *)
LEMMA ChooseOnly ==
    ASSUME NEW x
    PROVE  (CHOOSE y \in {x} : TRUE) = x
  BY Zenon

-----------------------------------------------------------------------------
(* Reading a log.                                                          *)

(* Sequences put one after another are a sequence. *)
LEMMA ConcatType ==
    ASSUME NEW S, NEW s \in Seq(Seq(S))
    PROVE  Concat(s) \in Seq(S)
<1> DEFINE Body(g) == [i \in 0..Len(s) |->
                         IF i = 0 THEN <<>>
                         ELSE CHOOSE y \in {acc \o s[i] : acc \in {g[i - 1]}} : TRUE]
           f == CHOOSE g : g = Body(g)
           step == [i \in 1..Len(s) |-> [x \in Seq(S) |-> x \o s[i]]]
<1>0. Len(s) \in Nat /\ \A i \in 1..Len(s) : s[i] \in Seq(S)
  OBVIOUS
<1>1. step \in [1..Len(s) -> [Seq(S) -> Seq(S)]]
  <2>1. ASSUME NEW i \in 1..Len(s), NEW x \in Seq(S)
        PROVE  x \o s[i] \in Seq(S)
    BY <1>0
  <2> QED
    BY <2>1
<1>2. PICK g \in [0..Len(s) -> Seq(S)] : Iterates(g, Len(s), <<>>, step)
  <2> DEFINE A == Seq(S)
             n == Len(s)
             init == <<>>
  <2>1. init \in A /\ n \in Nat /\ step \in [1..n -> [A -> A]]
    <3> HIDE DEF step
    <3> QED
      BY <1>0, <1>1
  <2>2. \E g \in [0..n -> A] : Iterates(g, n, init, step)
    <3> HIDE DEF A, n, init, step
    <3> QED
      BY <2>1, Recursion
  <2> QED
    BY <2>2
<1>3. \A x, e : (CHOOSE y \in {acc \o e : acc \in {x}} : TRUE) = x \o e
  <2> TAKE x, e
  <2>1. {acc \o e : acc \in {x}} = {x \o e}
    OBVIOUS
  <2> QED
    BY <2>1, ChooseOnly, Zenon
<1>4. g = Body(g)
  <2>1. \A i \in 1..Len(s) : i - 1 \in 0..Len(s) /\ i # 0
    BY <1>0
  <2>2. ASSUME NEW i \in 1..Len(s)
        PROVE  g[i] = g[i - 1] \o s[i]
    BY <1>2, <2>1 DEF Iterates
  <2>3. \A i \in 0..Len(s) : i = 0 \/ i \in 1..Len(s)
    BY <1>0
  <2>4. ASSUME NEW i \in 0..Len(s) PROVE g[i] = Body(g)[i]
    <3>1. CASE i = 0
      BY <3>1, <1>2 DEF Iterates
    <3>2. CASE i \in 1..Len(s)
      <4>1. Body(g)[i] = CHOOSE y \in {acc \o s[i] : acc \in {g[i - 1]}} : TRUE
        BY <3>2, <2>1
      <4> QED
        BY <4>1, <3>2, <2>2, <1>3, Zenon
    <3> QED
      BY <2>3, <3>1, <3>2
  <2>5. g = [i \in 0..Len(s) |-> g[i]] /\ Body(g) = [i \in 0..Len(s) |-> Body(g)[i]]
    BY Zenon
  <2> HIDE DEF Body
  <2> QED
    BY <2>4, <2>5
<1>5. f = Body(f)
  <2> HIDE DEF Body
  <2> QED
    BY <1>4, Zenon
<1>6. Concat(s) = f[Len(s)]
  BY Zenon DEF Concat, Fold
<1>7. \A i \in 0..Len(s) : f[i] \in Seq(S)
  <2> HIDE DEF f
  <2>0. 0 \in 0..Len(s) /\ \A i \in 1..Len(s) : i \in 0..Len(s) /\ i # 0
    BY <1>0
  <2>1. f[0] \in Seq(S)
    <3>1. Body(f)[0] = <<>>
      BY <2>0
    <3>2. Body(f)[0] \in Seq(S)
      BY <3>1
    <3> QED
      BY <1>5, <3>2, Zenon
  <2>2. ASSUME NEW i \in 1..Len(s), f[i - 1] \in Seq(S)
        PROVE  f[i] \in Seq(S)
    <3>1. Body(f)[i] = CHOOSE y \in {acc \o s[i] : acc \in {f[i - 1]}} : TRUE
      BY <2>0
    <3>2. Body(f)[i] = f[i - 1] \o s[i]
      BY <3>1, <1>3, Zenon
    <3>3. Body(f)[i] \in Seq(S)
      <4>1. f[i - 1] \o s[i] \in Seq(S)
        BY <2>2, <1>0
      <4> QED
        BY <3>2, <4>1, Zenon
    <3> QED
      BY <1>5, <3>3, Zenon
  <2> QED
    BY <2>1, <2>2, <1>0, BoundedInduction
<1> HIDE DEF f
<1> QED
  BY <1>0, <1>6, <1>7

(* An event of a log, and what a Tail remembers of the log it has read. *)
ToolName == STRING \cup {""}
LogEvent == [kind : Kinds, tool : ToolName, id : STRING, done : BOOLEAN, failed : BOOLEAN]
TailState == [skills : SUBSET STRING, cmds : SUBSET LogEvent]
Fed == [tail : TailState, out : Seq(LogEvent)]

(* A new event is an event. *)
LEMMA EventType ==
    ASSUME NEW kind \in Kinds, NEW tool \in ToolName, NEW id \in STRING
    PROVE  Event(kind, tool, id) \in LogEvent
  BY DEF Event, LogEvent

(* The events of a block. *)
LEMMA BlockEventsType ==
    ASSUME NEW l \in LogLine, NEW i \in DOMAIN l.blocks
    PROVE  BlockEvents(l, l.blocks[i]) \in Seq(LogEvent)
<1> DEFINE b == l.blocks[i]
           Block == [name : STRING, id : STRING, err : BOOLEAN]
<1>1. b \in Block
  <2>1. l.blocks \in Seq(Block)
    BY DEF LogLine
  <2> HIDE DEF Block
  <2> QED
    BY <2>1
<1> HIDE DEF b
<1>2. b.name \in STRING /\ b.id \in STRING /\ b.name \in ToolName /\ "" \in ToolName
  <2>1. b.name \in STRING /\ b.id \in STRING
    BY <1>1
  <2> QED
    BY <2>1, Zenon DEF ToolName
<1>3. ToolEvent(b) \in LogEvent
  <2> DEFINE kind == CASE b.name = "Skill"        -> "Skill"
                       [] b.name \in BashTools    -> "Cmd"
                       [] b.name \in FileTools    -> "File"
                       [] OTHER                   -> "Tool"
  <2>1. kind \in {"Skill", "Cmd", "File", "Tool"}
    BY DEF BashTools, FileTools
  <2>2. kind \in Kinds
    <3> HIDE DEF kind
    <3> QED
      BY <2>1 DEF Kinds
  <2>3. ToolEvent(b) = Event(kind, b.name, b.id)
    BY Zenon DEF ToolEvent
  <2> HIDE DEF kind
  <2> QED
    BY <2>2, <2>3, <1>2, EventType, Zenon
<1>4. [ToolEvent(b) EXCEPT !.kind = "Tool"] \in LogEvent
  BY <1>3 DEF LogEvent, Kinds
<1>5. Event("Say", "", b.id) \in LogEvent
  <2>1. "Say" \in Kinds
    BY DEF Kinds
  <2> QED
    BY <2>1, <1>2, EventType, Zenon
<1>6. ResultEvent(b) \in LogEvent
  <2>1. Event("Fail", "", b.id) \in LogEvent /\ Event("Pass", "", b.id) \in LogEvent
    <3>1. "Fail" \in Kinds /\ "Pass" \in Kinds
      BY DEF Kinds
    <3> QED
      BY <3>1, <1>2, EventType, Zenon
  <2>2. CASE b.err
    <3>1. ResultEvent(b) = [Event("Fail", "", b.id) EXCEPT !.failed = b.err]
      BY <2>2, Zenon DEF ResultEvent
    <3> QED
      BY <2>1, <3>1, <1>1 DEF LogEvent
  <2>3. CASE ~b.err
    <3>1. ResultEvent(b) = [Event("Pass", "", b.id) EXCEPT !.failed = b.err]
      BY <2>3, Zenon DEF ResultEvent
    <3> QED
      BY <2>1, <3>1, <1>1 DEF LogEvent
  <2> QED
    BY <2>2, <2>3
<1>7. \/ BlockEvents(l, b) = <<ToolEvent(b)>>
      \/ BlockEvents(l, b) = <<[ToolEvent(b) EXCEPT !.kind = "Tool"]>>
      \/ BlockEvents(l, b) = <<Event("Say", "", b.id)>>
      \/ BlockEvents(l, b) = <<ResultEvent(b)>>
      \/ BlockEvents(l, b) = <<>>
  BY Zenon DEF BlockEvents
<1>8. <<>> \in Seq(LogEvent) /\ \A e \in LogEvent : <<e>> \in Seq(LogEvent)
  OBVIOUS
<1>9. BlockEvents(l, b) \in Seq(LogEvent)
  BY <1>3, <1>4, <1>5, <1>6, <1>7, <1>8, Zenon
<1> QED
  BY <1>9 DEF b

(* The events of a line. *)
LEMMA EventsOfType ==
    ASSUME NEW l \in LogLine
    PROVE  EventsOf(l) \in Seq(LogEvent)
<1> DEFINE s == [i \in DOMAIN l.blocks |-> BlockEvents(l, l.blocks[i])]
<1>1. l.blocks \in Seq([name : STRING, id : STRING, err : BOOLEAN])
  BY DEF LogLine
<1>2. Len(l.blocks) \in Nat /\ DOMAIN l.blocks = 1..Len(l.blocks)
  BY <1>1
<1>3. s \in Seq(Seq(LogEvent))
  <2>1. \A i \in DOMAIN l.blocks : BlockEvents(l, l.blocks[i]) \in Seq(LogEvent)
    BY BlockEventsType
  <2>2. s \in [1..Len(l.blocks) -> Seq(LogEvent)]
    BY <2>1, <1>2
  <2> HIDE DEF s
  <2> QED
    BY <2>2, <1>2
<1> HIDE DEF s
<1> QED
  BY <1>3, ConcatType DEF EventsOf, s

(* Feeding a Tail one event. *)
LEMMA FeedEventType ==
    ASSUME NEW acc \in Fed, NEW e \in LogEvent
    PROVE  FeedEvent(acc, e) \in Fed
<1> DEFINE calls == {c \in acc.tail.cmds : c.id = e.id}
<1>1. /\ acc.tail \in TailState /\ acc.out \in Seq(LogEvent)
      /\ acc.tail.cmds \in SUBSET LogEvent /\ acc.tail.skills \in SUBSET STRING
      /\ calls \in SUBSET LogEvent /\ e.id \in STRING
  BY DEF Fed, TailState, LogEvent
<1>2. \A c \in LogEvent : Append(acc.out, c) \in Seq(LogEvent)
  BY <1>1
<1> HIDE DEF calls
<1>3. [tail |-> [acc.tail EXCEPT !.cmds = (@ \ calls) \cup {e}], out |-> Append(acc.out, e)] \in Fed
  <2>1. [acc.tail EXCEPT !.cmds = (@ \ calls) \cup {e}] \in TailState
    BY <1>1 DEF TailState
  <2> QED
    BY <2>1, <1>2 DEF Fed
<1>4. ASSUME calls # {}
      PROVE  LET call == CHOOSE c \in calls : TRUE
             IN [tail |-> [acc.tail EXCEPT !.cmds = @ \ calls],
                 out |-> Append(acc.out, CmdDone(call, e))] \in Fed
  <2> DEFINE call == CHOOSE c \in calls : TRUE
  <2>1. call \in LogEvent
    BY <1>1, <1>4
  <2> HIDE DEF call
  <2>2. CmdDone(call, e) \in LogEvent
    <3>1. ASSUME NEW k \in Kinds
          PROVE  [call EXCEPT !.kind = k, !.done = TRUE, !.failed = e.failed] \in LogEvent
      BY <2>1 DEF LogEvent
    <3>2. \/ CmdDone(call, e) = [call EXCEPT !.kind = "Commit", !.done = TRUE, !.failed = e.failed]
          \/ CmdDone(call, e) = [call EXCEPT !.kind = "Cmd", !.done = TRUE, !.failed = e.failed]
      BY Zenon DEF CmdDone
    <3> QED
      BY <3>1, <3>2 DEF Kinds
  <2>3. [acc.tail EXCEPT !.cmds = @ \ calls] \in TailState
    BY <1>1 DEF TailState
  <2>4. [tail |-> [acc.tail EXCEPT !.cmds = @ \ calls],
         out |-> Append(acc.out, CmdDone(call, e))] \in Fed
    BY <2>2, <2>3, <1>2 DEF Fed
  <2> QED
    BY <2>4 DEF call
<1>5. [tail |-> [acc.tail EXCEPT !.skills = @ \cup {e.id}], out |-> Append(acc.out, e)] \in Fed
  <2>1. [acc.tail EXCEPT !.skills = @ \cup {e.id}] \in TailState
    BY <1>1 DEF TailState
  <2> QED
    BY <2>1, <1>2 DEF Fed
<1>6. [acc EXCEPT !.out = Append(@, e)] \in Fed
  BY <1>2 DEF Fed
<1>7. \/ FeedEvent(acc, e) =
           [tail |-> [acc.tail EXCEPT !.cmds = (@ \ calls) \cup {e}], out |-> Append(acc.out, e)]
      \/ /\ calls # {}
         /\ FeedEvent(acc, e) = LET call == CHOOSE c \in calls : TRUE
                                IN [tail |-> [acc.tail EXCEPT !.cmds = @ \ calls],
                                    out |-> Append(acc.out, CmdDone(call, e))]
      \/ FeedEvent(acc, e) =
           [tail |-> [acc.tail EXCEPT !.skills = @ \cup {e.id}], out |-> Append(acc.out, e)]
      \/ FeedEvent(acc, e) = acc
      \/ FeedEvent(acc, e) = [acc EXCEPT !.out = Append(@, e)]
  BY Zenon DEF FeedEvent, calls
<1> QED
  BY <1>3, <1>4, <1>5, <1>6, <1>7

(* Feeding a Tail one line yields a Tail and a sequence of events. *)
LEMMA FeedType ==
    ASSUME NEW tail \in TailState, NEW l \in LogLine
    PROVE  Feed(tail, l) \in Fed
<1> DEFINE s == EventsOf(l)
           start == [tail |-> tail, out |-> <<>>]
           Body(g) == [i \in 0..Len(s) |->
                         IF i = 0 THEN start
                         ELSE CHOOSE y \in {FeedEvent(acc, s[i]) : acc \in {g[i - 1]}} : TRUE]
           f == CHOOSE g : g = Body(g)
           step == [i \in 1..Len(s) |-> [x \in Fed |-> FeedEvent(x, s[i])]]
<1>0. s \in Seq(LogEvent)
  BY EventsOfType
<1>00. Feed(tail, l) = f[Len(s)]
  BY Zenon DEF Feed, Fold
<1> HIDE DEF s
<1>1. Len(s) \in Nat /\ \A i \in 1..Len(s) : s[i] \in LogEvent
  BY <1>0
<1>2. step \in [1..Len(s) -> [Fed -> Fed]]
  <2>1. ASSUME NEW i \in 1..Len(s), NEW x \in Fed
        PROVE  FeedEvent(x, s[i]) \in Fed
    BY <1>1, FeedEventType
  <2> QED
    BY <2>1
<1>3. start \in Fed
  BY DEF Fed
<1> HIDE DEF start
<1>4. PICK g \in [0..Len(s) -> Fed] : Iterates(g, Len(s), start, step)
  <2> DEFINE n == Len(s)
  <2>1. n \in Nat /\ step \in [1..n -> [Fed -> Fed]]
    <3> HIDE DEF step
    <3> QED
      BY <1>1, <1>2
  <2>2. \E g \in [0..n -> Fed] : Iterates(g, n, start, step)
    <3> HIDE DEF n, step
    <3> QED
      BY <2>1, <1>3, Recursion
  <2> QED
    BY <2>2
<1>5. \A x, e : (CHOOSE y \in {FeedEvent(acc, e) : acc \in {x}} : TRUE) = FeedEvent(x, e)
  <2> TAKE x, e
  <2>1. {FeedEvent(acc, e) : acc \in {x}} = {FeedEvent(x, e)}
    OBVIOUS
  <2> QED
    BY <2>1, ChooseOnly, Zenon
<1>6. g = Body(g)
  <2>1. \A i \in 1..Len(s) : i - 1 \in 0..Len(s) /\ i # 0
    BY <1>1
  <2>2. ASSUME NEW i \in 1..Len(s)
        PROVE  g[i] = FeedEvent(g[i - 1], s[i])
    BY <1>4, <2>1 DEF Iterates
  <2>3. \A i \in 0..Len(s) : i = 0 \/ i \in 1..Len(s)
    BY <1>1
  <2>4. ASSUME NEW i \in 0..Len(s) PROVE g[i] = Body(g)[i]
    <3>1. CASE i = 0
      BY <3>1, <1>4 DEF Iterates
    <3>2. CASE i \in 1..Len(s)
      <4>1. Body(g)[i] = CHOOSE y \in {FeedEvent(acc, s[i]) : acc \in {g[i - 1]}} : TRUE
        BY <3>2, <2>1
      <4> QED
        BY <4>1, <3>2, <2>2, <1>5, Zenon
    <3> QED
      BY <2>3, <3>1, <3>2
  <2>5. g = [i \in 0..Len(s) |-> g[i]] /\ Body(g) = [i \in 0..Len(s) |-> Body(g)[i]]
    BY Zenon
  <2> HIDE DEF Body
  <2> QED
    BY <2>4, <2>5
<1>7. f = Body(f)
  <2> HIDE DEF Body
  <2> QED
    BY <1>6, Zenon
<1>8. \A i \in 0..Len(s) : f[i] \in Fed
  <2> HIDE DEF f
  <2>0. 0 \in 0..Len(s) /\ \A i \in 1..Len(s) : i \in 0..Len(s) /\ i # 0
    BY <1>1
  <2>1. f[0] \in Fed
    <3>1. Body(f)[0] = start
      BY <2>0
    <3> QED
      BY <1>3, <1>7, <3>1, Zenon
  <2>2. ASSUME NEW i \in 1..Len(s), f[i - 1] \in Fed
        PROVE  f[i] \in Fed
    <3>1. Body(f)[i] = CHOOSE y \in {FeedEvent(acc, s[i]) : acc \in {f[i - 1]}} : TRUE
      BY <2>0
    <3>2. Body(f)[i] = FeedEvent(f[i - 1], s[i])
      BY <3>1, <1>5, Zenon
    <3>3. FeedEvent(f[i - 1], s[i]) \in Fed
      BY <2>2, <1>1, FeedEventType
    <3> QED
      BY <1>7, <3>2, <3>3, Zenon
  <2> QED
    BY <2>1, <2>2, <1>1, BoundedInduction
<1> HIDE DEF f
<1> QED
  BY <1>00, <1>1, <1>8

-----------------------------------------------------------------------------
(* The invariants.                                                         *)

(* What the variables of the agents, the page and its stream may hold. *)
RecordKinds == {"run_launched", "run_disposed"}
Stamp       == [at : Nat, end : Nat]
RunState    == [st : RunPhases, owner : {Watched, Other}, script : DOMAIN Script]
LiveEvent   == [run : Runs, line : Nat \ {0}, nth : Nat \ {0}, event : LogEvent]
PageState   == [wanted : BOOLEAN, open : BOOLEAN, run : 0..2, upto : Nat, from : Nat, after : Nat]
StreamState == [pc : {"off", "lines", "wait"}, run : 0..2, ended : BOOLEAN, offset : Nat,
                after : Nat, sent : BOOLEAN, tail : TailState]
Browser     == [live : Seq(LiveEvent), recs : Seq(Nat), lastId : Nat \cup {NoId}, ended : BOOLEAN]

LogTypes ==
    /\ clock \in Nat
    /\ log \in [Runs -> Seq(Stamp)]
    /\ runs \in [Runs -> RunState]
    /\ runs[1].owner = Watched
    /\ \A r \in Runs : Len(log[r]) <= Len(Script[runs[r].script])

ViewTypes ==
    /\ records \in Seq(RecordKinds)
    /\ page \in PageState
    /\ stream \in StreamState
    /\ client \in Browser

(* Later lines of a log end later. *)
LogsGrow == \A r \in Runs : \A i, j \in 0..Len(log[r]) : i < j => OffsetAfter(r, i) < OffsetAfter(r, j)

(* The run whose log a page or a poll reads now. *)
Newest == LatestRunLog.run

(* The page holds the first lines of a log, and nothing streams before it. *)
PageInv ==
    /\ page.run <= Newest
    /\ page.upto <= Size(page.run)
    /\ page.from = OffsetAfter(page.run, page.upto)
    /\ page.wanted => ~page.open
    /\ ~page.open => client.live = <<>> /\ client.lastId = NoId /\ stream.pc = "off"

(* A browser that reconnects resumes after the lines of the newest log it  *)
(* has an event of, and after the page.                                    *)
ResumeInv ==
    /\ \A i \in DOMAIN client.live :
         /\ client.live[i].run <= Newest
         /\ client.live[i].line <= Len(log[client.live[i].run])
         /\ client.live[i].run = Newest =>
              OffsetAfter(client.live[i].run, client.live[i].line) <= client.lastId
    /\ client.lastId # NoId /\ page.run = Newest => client.lastId >= page.from

(* The stream reads on after the lines of its log that the browser has an  *)
(* event of, and after the page.                                           *)
ReadingInv ==
    stream.pc # "off" =>
      /\ page.run <= stream.run /\ stream.run <= Newest
      /\ stream.run = page.run => stream.offset >= page.from
      /\ \A i \in DOMAIN client.live :
           /\ client.live[i].run <= stream.run
           /\ client.live[i].run = stream.run =>
                OffsetAfter(client.live[i].run, client.live[i].line) <= stream.offset

StreamInv == LogTypes /\ ViewTypes /\ LogsGrow /\ PageInv /\ ResumeInv /\ ReadingInv /\ ShownOnceInOrder

(* Readings, those of up to a time, requests, intervals and the loop. *)
Reading  == [window : Range(Windows), at : Nat, util : Nat]
Dated(t) == {x \in Reading : x.at <= t}
Request  == [run : Runs, req : STRING \cup {Total}, at : Nat]
Interval == [window : Range(Windows), start : Nat, end : Nat, weight : SUBSET Request]
LoopState == [pc : {"idle", "readings", "intervals", "event"}, run : Runs, intervals : SUBSET Interval]

(* The intervals stored, and those about to be. *)
Known == intervals \cup loop.intervals

Apart(i, j) == i.window = j.window => i.end <= j.start \/ j.end <= i.start

MeterTypes ==
    /\ \A r \in Runs : \A i \in 1..Len(log[r]) : log[r][i].at <= clock
    /\ loop \in LoopState
    /\ readings \in SUBSET Dated(clock)
    /\ intervals \in SUBSET Interval

(* An interval is not empty, ends by a reading of its window that is still *)
(* kept, and weighs of each transcript its requests made within it or a    *)
(* total; two intervals of a window do not overlap.                        *)
IntervalsInv ==
    /\ \A i \in Known :
         /\ i.start < i.end
         /\ \E n \in readings : n.window = i.window /\ i.end <= n.at
         /\ Weighs(i)
    /\ \A i, j \in Known : i # j => Apart(i, j)

MeterInv == LogTypes /\ LogsGrow /\ MeterTypes /\ IntervalsInv

-----------------------------------------------------------------------------
(* Logs only grow.                                                         *)

(* What every step keeps of runs and logs. *)
LogKept ==
    \A r \in Runs :
      /\ runs'[r].script = runs[r].script /\ runs'[r].owner = runs[r].owner
      /\ runs[r].st # "none" => runs'[r].st # "none"
      /\ Len(log[r]) <= Len(log'[r])
      /\ \A i \in 1..Len(log[r]) : log'[r][i] = log[r][i]

(* A line that was or will be written. *)
LEMMA LineType ==
    ASSUME LogTypes, NEW r \in Runs, NEW i \in 1..Len(Script[runs[r].script])
    PROVE  LineAt(r, i) \in LogLine
<1>1. runs[r].script \in DOMAIN Script
  BY DEF LogTypes, RunState
<1>2. Script[runs[r].script] \in Seq(LogLine)
  BY <1>1, TelemetryAssumption
<1> QED
  BY <1>2 DEF LineAt

(* The lines and the end of a log. *)
LEMMA LogFacts ==
    ASSUME LogTypes, NEW r \in Runs
    PROVE  /\ log[r] \in Seq(Stamp) /\ Len(log[r]) \in Nat /\ DOMAIN log[r] = 1..Len(log[r])
           /\ \A i \in 1..Len(log[r]) : log[r][i] \in Stamp /\ log[r][i].at \in Nat /\ log[r][i].end \in Nat
           /\ \A i \in 0..Len(log[r]) : OffsetAfter(r, i) \in Nat
           /\ \A i \in 1..Len(log[r]) : LineAt(r, i) \in LogLine
<1>1. log[r] \in Seq(Stamp)
  BY DEF LogTypes
<1>2. Len(log[r]) \in Nat /\ DOMAIN log[r] = 1..Len(log[r]) /\ \A i \in 1..Len(log[r]) : log[r][i] \in Stamp
  BY <1>1
<1>3. \A x \in Stamp : x.at \in Nat /\ x.end \in Nat
  BY DEF Stamp
<1>4. ASSUME NEW i \in 0..Len(log[r]) PROVE OffsetAfter(r, i) \in Nat
  <2>1. i = 0 \/ i \in 1..Len(log[r])
    BY <1>2
  <2> QED
    BY <2>1, <1>2, <1>3 DEF OffsetAfter
<1>5. ASSUME NEW i \in 1..Len(log[r]) PROVE LineAt(r, i) \in LogLine
  <2>1. Script[runs[r].script] \in Seq(LogLine)
    BY TelemetryAssumption DEF LogTypes, RunState
  <2>2. Len(Script[runs[r].script]) \in Nat /\ Len(log[r]) <= Len(Script[runs[r].script])
    BY <2>1 DEF LogTypes
  <2>3. i \in 1..Len(Script[runs[r].script])
    BY <2>2, <1>2
  <2> QED
    BY <2>3, LineType
<1> QED
  BY <1>1, <1>2, <1>3, <1>4, <1>5

(* The first state. *)
LEMMA LogInit == Init => LogTypes /\ LogsGrow
<1> SUFFICES ASSUME Init PROVE LogTypes /\ LogsGrow
  OBVIOUS
<1>1. clock = 0 /\ log = [r \in Runs |-> <<>>]
  BY DEF Init
<1>2. PICK plan \in Plans :
        runs = << [st |-> "none", owner |-> Watched, script |-> plan.first],
                  [st |-> "none", owner |-> plan.owner, script |-> plan.second] >>
  BY DEF Init
<1>3. /\ runs[1] = [st |-> "none", owner |-> Watched, script |-> plan.first]
      /\ runs[2] = [st |-> "none", owner |-> plan.owner, script |-> plan.second]
      /\ DOMAIN runs = 1..2 /\ runs = [i \in 1..2 |-> runs[i]]
  BY <1>2
<1>4. runs[1] \in RunState /\ runs[2] \in RunState /\ runs[1].owner = Watched
  BY <1>3, TelemetryAssumption DEF RunState, RunPhases
<1>5. runs \in [Runs -> RunState]
  <2>1. Runs = 1..2
    BY DEF Runs
  <2>2. \A i \in 1..2 : runs[i] \in RunState
    BY <1>4
  <2> QED
    BY <2>1, <2>2, <1>3
<1>6. \A r \in Runs : log[r] = <<>> /\ Len(log[r]) = 0
  BY <1>1
<1>7. log \in [Runs -> Seq(Stamp)]
  BY <1>1
<1>8. \A r \in Runs : Len(log[r]) <= Len(Script[runs[r].script])
  <2> TAKE r \in Runs
  <2>1. runs[r].script \in DOMAIN Script
    BY <1>5 DEF RunState
  <2>2. Script[runs[r].script] \in Seq(LogLine)
    BY <2>1, TelemetryAssumption
  <2>3. Len(Script[runs[r].script]) \in Nat
    BY <2>2
  <2> QED
    BY <2>3, <1>6
<1>9. LogsGrow
  BY <1>6 DEF LogsGrow
<1> QED
  BY <1>1, <1>4, <1>5, <1>7, <1>8, <1>9 DEF LogTypes

(* A run that starts, exits or is disposed of. *)
LEMMA LogPhase ==
    ASSUME LogTypes, LogsGrow, NEW r \in Runs, NEW st \in RunPhases \ {"none"},
           runs' = [runs EXCEPT ![r].st = st], UNCHANGED agents
    PROVE  LogTypes' /\ LogsGrow' /\ LogKept
<1>1. clock' = clock /\ log' = log
  BY DEF agents
<1>2. runs' = [runs EXCEPT ![r] = [runs[r] EXCEPT !.st = st]]
  OBVIOUS
<1>3. \A q \in Runs : runs[q] \in RunState
  BY DEF LogTypes
<1>4. [runs[r] EXCEPT !.st = st] \in RunState
  BY <1>3 DEF RunState
<1>5. runs' \in [Runs -> RunState]
  BY <1>2, <1>4 DEF LogTypes
<1>6. \A q \in Runs : /\ runs'[q].script = runs[q].script /\ runs'[q].owner = runs[q].owner
                      /\ runs[q].st # "none" => runs'[q].st # "none"
  BY <1>2, <1>3 DEF RunState, LogTypes
<1>7. \A q \in Runs : Len(log[q]) <= Len(log[q])
  BY LogFacts
<1>8. LogKept
  BY <1>1, <1>6, <1>7 DEF LogKept
<1>9. LogsGrow'
  BY <1>1 DEF LogsGrow, OffsetAfter
<1>10. 1 \in Runs
  BY DEF Runs
<1> QED
  BY <1>1, <1>5, <1>6, <1>8, <1>9, <1>10 DEF LogTypes

(* Logs and runs left alone. *)
LEMMA LogFrame ==
    ASSUME LogTypes, LogsGrow, UNCHANGED <<agents, runs>>
    PROVE  LogTypes' /\ LogsGrow' /\ LogKept
<1>1. clock' = clock /\ log' = log /\ runs' = runs
  BY DEF agents
<1>2. \A q \in Runs : Len(log[q]) <= Len(log[q])
  BY LogFacts
<1> QED
  BY <1>1, <1>2 DEF LogTypes, LogsGrow, LogKept, OffsetAfter

(* An agent writes a line: it ends after the lines before it. *)
LEMMA LogWrite ==
    ASSUME LogTypes, LogsGrow, NEW r \in Runs, WriteLine(r)
    PROVE  /\ LogTypes' /\ LogsGrow' /\ LogKept
           /\ clock' = clock + 1
           /\ Len(log'[r]) = Len(log[r]) + 1 /\ log'[r][Len(log[r]) + 1].at = clock + 1
           /\ \A q \in Runs \ {r} : log'[q] = log[q]
<1> DEFINE n == Len(log[r])
           size == LineAt(r, n + 1).size
           new == [at |-> clock + 1, end |-> OffsetAfter(r, n) + size]
<1>1. /\ n < Len(Script[runs[r].script]) /\ clock' = clock + 1 /\ runs' = runs
      /\ log' = [log EXCEPT ![r] = Append(log[r], new)]
  BY DEF WriteLine
<1>2. Script[runs[r].script] \in Seq(LogLine)
  BY TelemetryAssumption DEF LogTypes, RunState
<1>3. n \in Nat /\ Len(Script[runs[r].script]) \in Nat /\ OffsetAfter(r, n) \in Nat
  BY <1>2, LogFacts
<1>4. size \in Nat \ {0}
  <2>1. n + 1 \in 1..Len(Script[runs[r].script])
    BY <1>1, <1>3
  <2>2. LineAt(r, n + 1) \in LogLine
    BY <2>1, LineType
  <2> QED
    BY <2>2 DEF LogLine
<1>5. new \in Stamp /\ new.end > OffsetAfter(r, n) /\ new.at = clock + 1 /\ clock + 1 \in Nat
  <2> HIDE DEF n, size
  <2> QED
    BY <1>3, <1>4 DEF Stamp, LogTypes
<1> HIDE DEF new
<1>6. log[r] \in Seq(Stamp)
  BY LogFacts
<1>7. /\ Append(log[r], new) \in Seq(Stamp) /\ Len(Append(log[r], new)) = n + 1
      /\ \A i \in 1..n : Append(log[r], new)[i] = log[r][i]
      /\ Append(log[r], new)[n + 1] = new
  BY <1>5, <1>6
<1>8. log' \in [Runs -> Seq(Stamp)] /\ log'[r] = Append(log[r], new) /\ \A q \in Runs \ {r} : log'[q] = log[q]
  BY <1>1, <1>7 DEF LogTypes
<1>9. Len(log'[r]) = n + 1 /\ log'[r][n + 1] = new /\ \A i \in 1..n : log'[r][i] = log[r][i]
  BY <1>7, <1>8
<1>10. LogKept
  <2> SUFFICES ASSUME NEW q \in Runs
               PROVE  Len(log[q]) <= Len(log'[q]) /\ \A i \in 1..Len(log[q]) : log'[q][i] = log[q][i]
    BY <1>1 DEF LogKept
  <2>1. CASE q = r
    BY <2>1, <1>3, <1>9
  <2>2. CASE q # r
    BY <2>2, <1>8, LogFacts
  <2> QED
    BY <2>1, <2>2
<1>11. \A q \in Runs : Len(log'[q]) <= Len(Script[runs'[q].script])
  <2> TAKE q \in Runs
  <2>1. CASE q = r
    BY <2>1, <1>1, <1>3, <1>9
  <2>2. CASE q # r
    BY <2>2, <1>1, <1>8 DEF LogTypes
  <2> QED
    BY <2>1, <2>2
<1>12. LogTypes'
  BY <1>1, <1>5, <1>8, <1>11 DEF LogTypes
<1>13. LogsGrow'
  <2> SUFFICES ASSUME NEW q \in Runs, NEW i \in 0..Len(log'[q]), NEW j \in 0..Len(log'[q]), i < j
               PROVE  OffsetAfter(q, i)' < OffsetAfter(q, j)'
    BY DEF LogsGrow
  <2>1. CASE q # r
    <3>1. log'[q] = log[q]
      BY <1>8, <2>1
    <3>2. OffsetAfter(q, i) < OffsetAfter(q, j)
      BY <3>1 DEF LogsGrow
    <3> QED
      BY <3>1, <3>2 DEF OffsetAfter
  <2>2. CASE q = r
    <3>1. \A k \in 0..n : OffsetAfter(r, k)' = OffsetAfter(r, k)
      <4> TAKE k \in 0..n
      <4>1. k = 0 \/ k \in 1..n
        BY <1>3
      <4> QED
        BY <4>1, <1>9 DEF OffsetAfter
    <3>2. \A k : k = n + 1 => OffsetAfter(r, k)' = new.end
      <4> HIDE DEF n
      <4> QED
        BY <1>3, <1>9 DEF OffsetAfter
    <3>3. i \in 0..n /\ (j \in 0..n \/ j = n + 1)
      BY <2>2, <1>3, <1>9
    <3>4. OffsetAfter(r, i) \in Nat /\ OffsetAfter(r, i) <= OffsetAfter(r, n)
      <4>1. i < n => OffsetAfter(r, i) < OffsetAfter(r, n)
        BY <3>3, <1>3 DEF LogsGrow
      <4>2. OffsetAfter(r, i) \in Nat
        BY <3>3, LogFacts
      <4> QED
        BY <4>1, <4>2, <3>3, <1>3
    <3>5. CASE j \in 0..n
      <4>1. OffsetAfter(r, i) < OffsetAfter(r, j)
        BY <3>3, <3>5 DEF LogsGrow
      <4> QED
        BY <4>1, <3>1, <3>3, <3>5, <2>2
    <3>6. CASE j = n + 1
      <4>1. new.end \in Nat
        BY <1>5 DEF Stamp
      <4>2. OffsetAfter(r, i) < new.end
        BY <3>4, <1>5, <4>1, <1>3
      <4> QED
        BY <4>2, <3>1, <3>2, <3>3, <3>6, <2>2
    <3> QED
      BY <3>3, <3>5, <3>6
  <2> QED
    BY <2>1, <2>2
<1> QED
  BY <1>1, <1>5, <1>8, <1>9, <1>10, <1>12, <1>13

(* Every step keeps the logs. *)
LEMMA LogStep == LogTypes /\ LogsGrow /\ [Next]_vars => LogTypes' /\ LogsGrow' /\ LogKept
<1> SUFFICES ASSUME LogTypes, LogsGrow, [Next]_vars PROVE LogTypes' /\ LogsGrow' /\ LogKept
  OBVIOUS
<1>1. ASSUME NEW r \in Runs, Launch(r) PROVE LogTypes' /\ LogsGrow' /\ LogKept
  <2>1. runs' = [runs EXCEPT ![r].st = "running"] /\ UNCHANGED agents
    BY <1>1, Zenon DEF Launch
  <2>2. "running" \in RunPhases \ {"none"}
    BY DEF RunPhases
  <2> QED
    BY <2>1, <2>2, LogPhase
<1>2. ASSUME NEW r \in Runs, Exit(r) PROVE LogTypes' /\ LogsGrow' /\ LogKept
  <2>1. runs' = [runs EXCEPT ![r].st = "exited"] /\ UNCHANGED agents
    BY <1>2, Zenon DEF Exit
  <2>2. "exited" \in RunPhases \ {"none"}
    BY DEF RunPhases
  <2> QED
    BY <2>1, <2>2, LogPhase
<1>3. ASSUME NEW r \in Runs, Dispose(r) PROVE LogTypes' /\ LogsGrow' /\ LogKept
  <2>1. runs' = [runs EXCEPT ![r].st = "ended"] /\ UNCHANGED agents
    BY <1>3, Zenon DEF Dispose
  <2>2. "ended" \in RunPhases \ {"none"}
    BY DEF RunPhases
  <2> QED
    BY <2>1, <2>2, LogPhase
<1>4. ASSUME NEW r \in Runs, WriteLine(r) PROVE LogTypes' /\ LogsGrow' /\ LogKept
  BY <1>4, LogWrite
<1>5. ASSUME \/ StoreReadings \/ StoreIntervals \/ RecordDisposed \/ Crash \/ PruneHistory
             \/ OpenPage \/ Serve \/ Drop \/ FollowFails \/ UNCHANGED vars
      PROVE  LogTypes' /\ LogsGrow' /\ LogKept
  <2>1. UNCHANGED <<agents, runs>>
    BY <1>5, Zenon DEF StoreReadings, StoreIntervals, RecordDisposed, Crash, PruneHistory, OpenPage,
                       Serve, Connect, SendLine, SendRecords, Poll, Drop, FollowFails, vars
  <2> QED
    BY <2>1, LogFrame
<1> QED
  BY <1>1, <1>2, <1>3, <1>4, <1>5, Zenon DEF Next, Tick

(* A watched run that has started. *)
Active(r) == runs[r].st # "none" /\ runs[r].owner = Watched

(* LatestRunLog finds the second run if it has started, or else the first. *)
NewestIs ==
    /\ Newest \in 0..2
    /\ Active(2) => Newest = 2
    /\ ~Active(2) /\ Active(1) => Newest = 1
    /\ ~Active(2) /\ ~Active(1) => Newest = 0

(* The cases above cover every state. *)
LEMMA NewestRun == LogTypes => NewestIs
<1> SUFFICES ASSUME LogTypes PROVE NewestIs
  OBVIOUS
<1> DEFINE mine == {r \in Runs : runs[r].st # "none" /\ runs[r].owner = Watched}
           pick == CHOOSE r \in mine : \A q \in mine : q <= r
<1>1. Newest = IF mine = {} THEN 0 ELSE pick
  BY DEF Newest, LatestRunLog
<1>2. mine \in SUBSET Runs /\ \A r \in Runs : r \in mine <=> Active(r)
  BY DEF Active
<1> HIDE DEF mine
<1>3. CASE Active(2)
  <2>1. 2 \in mine /\ \A q \in mine : q <= 2
    BY <1>2, <1>3 DEF Runs
  <2>2. pick \in mine /\ 2 <= pick
    BY <2>1
  <2>3. pick = 2
    <3> HIDE DEF pick
    <3> QED
      BY <2>1, <2>2, <1>2 DEF Runs
  <2> HIDE DEF pick
  <2> QED
    BY <1>1, <1>3, <2>1, <2>3 DEF NewestIs
<1>4. CASE ~Active(2) /\ Active(1)
  <2>1. mine = {1}
    BY <1>2, <1>4 DEF Runs
  <2>2. pick = 1
    BY <2>1
  <2> HIDE DEF pick
  <2> QED
    BY <1>1, <1>4, <2>1, <2>2 DEF NewestIs
<1>5. CASE ~Active(2) /\ ~Active(1)
  <2>1. mine = {}
    BY <1>2, <1>5 DEF Runs
  <2> HIDE DEF pick
  <2> QED
    BY <1>1, <1>5, <2>1 DEF NewestIs
<1> QED
  BY <1>3, <1>4, <1>5

(* The newest run only moves on. *)
LEMMA NewestGrows ==
    ASSUME LogTypes, LogTypes', LogKept
    PROVE  Newest <= Newest'
<1>1. \A r \in Runs : Active(r) => Active(r)'
  BY DEF LogKept, Active
<1>2. 1 \in Runs /\ 2 \in Runs
  BY DEF Runs
<1>3. (Active(1) => Active(1)') /\ (Active(2) => Active(2)')
  BY <1>1, <1>2
<1>4. NewestIs /\ NewestIs'
  BY NewestRun, PTL
<1> HIDE DEF Active, Newest
<1> QED
  BY <1>3, <1>4 DEF NewestIs

(* A step that leaves the runs alone leaves the newest one alone. *)
LEMMA NewestKept ==
    ASSUME UNCHANGED runs
    PROVE  LatestRunLog' = LatestRunLog /\ Newest' = Newest
  BY DEF LatestRunLog, Newest

(* The offset after a line that was there. *)
LEMMA OffsetKept ==
    ASSUME LogTypes, LogTypes', LogKept, NEW r \in 0..2, NEW i \in 0..Size(r)
    PROVE  /\ OffsetAfter(r, i)' = OffsetAfter(r, i)
           /\ Size(r) <= Size(r)' /\ Size(r) \in Nat /\ Size(r)' \in Nat
<1>1. CASE r = 0
  BY <1>1 DEF Size, OffsetAfter
<1>2. CASE r \in Runs
  <2>0. Len(log[r]) \in Nat /\ Len(log'[r]) \in Nat
    BY <1>2 DEF LogTypes
  <2>1. Size(r) = Len(log[r]) /\ Size(r)' = Len(log'[r])
    BY <1>2 DEF Size, Runs
  <2>2. i = 0 \/ i \in 1..Len(log[r])
    BY <2>0, <2>1
  <2>3. OffsetAfter(r, i)' = OffsetAfter(r, i)
    BY <1>2, <2>2 DEF OffsetAfter, LogKept
  <2> QED
    BY <1>2, <2>0, <2>1, <2>3 DEF LogKept
<1> QED
  BY <1>1, <1>2 DEF Runs

-----------------------------------------------------------------------------
(* The stream, step by step.                                               *)

(* What the lemmas below use of the types of the page, stream and browser. *)
LEMMA ViewFacts ==
    ASSUME ViewTypes
    PROVE  /\ page.run \in 0..2 /\ page.upto \in Nat /\ page.from \in Nat
           /\ stream.run \in 0..2 /\ stream.offset \in Nat /\ stream.tail \in TailState
           /\ stream.pc \in {"off", "lines", "wait"}
           /\ client.live \in Seq(LiveEvent) /\ client.lastId \in Nat \cup {NoId}
           /\ Len(client.live) \in Nat /\ DOMAIN client.live = 1..Len(client.live)
           /\ \A i \in DOMAIN client.live :
                /\ client.live[i] \in LiveEvent /\ client.live[i].run \in Runs
                /\ client.live[i].line \in Nat \ {0} /\ client.live[i].nth \in Nat \ {0}
<1>1. /\ page.run \in 0..2 /\ page.upto \in Nat /\ page.from \in Nat
      /\ stream.run \in 0..2 /\ stream.offset \in Nat /\ stream.tail \in TailState
      /\ stream.pc \in {"off", "lines", "wait"}
  BY DEF ViewTypes, PageState, StreamState
<1>2. client.live \in Seq(LiveEvent) /\ client.lastId \in Nat \cup {NoId}
  BY DEF ViewTypes, Browser
<1>3. /\ Len(client.live) \in Nat /\ DOMAIN client.live = 1..Len(client.live)
      /\ \A i \in DOMAIN client.live : client.live[i] \in LiveEvent
  BY <1>2
<1>4. \A e \in LiveEvent : e.run \in Runs /\ e.line \in Nat \ {0} /\ e.nth \in Nat \ {0}
  BY DEF LiveEvent
<1> QED
  BY <1>1, <1>2, <1>3, <1>4

(* Logs that grow leave a page and a stream where they are. *)
LEMMA ViewFrame ==
    ASSUME StreamInv, LogTypes', LogsGrow', LogKept, UNCHANGED viewer, records' \in Seq(RecordKinds)
    PROVE  StreamInv'
<1>1. page' = page /\ stream' = stream /\ client' = client
  BY DEF viewer
<1>2. ViewTypes'
  BY <1>1 DEF StreamInv, ViewTypes
<1>3. ShownOnceInOrder'
  BY <1>1 DEF StreamInv, ShownOnceInOrder, Before
<1>4. Newest \in Nat /\ Newest' \in Nat /\ Newest <= Newest'
  <2>1. NewestIs /\ NewestIs'
    BY NewestRun, PTL DEF StreamInv
  <2> QED
    BY <2>1, NewestGrows DEF NewestIs, StreamInv
<1> USE ViewFacts DEF StreamInv
<1>5. PageInv'
  <2>1. page.upto \in 0..Size(page.run)
    <3>1. page.run \in 0..2 => Size(page.run) \in Nat
      BY LogFacts DEF Size, Runs
    <3> QED
      BY <3>1 DEF PageInv
  <2>2. /\ OffsetAfter(page.run, page.upto)' = OffsetAfter(page.run, page.upto)
        /\ Size(page.run) <= Size(page.run)' /\ Size(page.run) \in Nat /\ Size(page.run)' \in Nat
    <3>1. \A r \in 0..2 : \A i : i \in 0..Size(r) =>
             /\ OffsetAfter(r, i)' = OffsetAfter(r, i)
             /\ Size(r) <= Size(r)' /\ Size(r) \in Nat /\ Size(r)' \in Nat
      BY OffsetKept
    <3>2. page.run' = page.run /\ page.upto' = page.upto
      BY <1>1
    <3> QED
      BY <2>1, <3>1, <3>2
  <2> QED
    BY <1>1, <1>4, <2>1, <2>2 DEF PageInv
<1>6. \A i \in DOMAIN client.live :
        /\ OffsetAfter(client.live[i].run, client.live[i].line)'
             = OffsetAfter(client.live[i].run, client.live[i].line)
        /\ Len(log[client.live[i].run]) <= Len(log'[client.live[i].run])
        /\ Len(log[client.live[i].run]) \in Nat /\ Len(log'[client.live[i].run]) \in Nat
  <2> TAKE i \in DOMAIN client.live
  <2>1. client.live[i].run \in Runs /\ client.live[i].line \in 1..Len(log[client.live[i].run])
    <3>1. client.live[i].run \in Runs
      OBVIOUS
    <3>2. Len(log[client.live[i].run]) \in Nat
      BY <3>1, LogFacts
    <3> QED
      BY <3>1, <3>2 DEF ResumeInv
  <2>2. ASSUME NEW r \in Runs, NEW k \in 1..Len(log[r])
        PROVE  OffsetAfter(r, k)' = OffsetAfter(r, k) /\ Len(log[r]) <= Len(log'[r])
    BY DEF LogKept, OffsetAfter
  <2>3. ASSUME NEW r \in Runs PROVE Len(log[r]) \in Nat /\ Len(log'[r]) \in Nat
    BY DEF LogTypes
  <2> QED
    BY <1>1, <2>1, <2>2, <2>3
<1>7. ResumeInv'
  <2>1. ASSUME NEW i \in DOMAIN client.live
        PROVE  /\ client.live[i].run <= Newest'
               /\ client.live[i].line <= Len(log'[client.live[i].run])
               /\ client.live[i].run = Newest' =>
                    OffsetAfter(client.live[i].run, client.live[i].line)' <= client.lastId
    <3>0. client.live[i].run \in Nat /\ client.live[i].line \in Nat
      <4>1. client.live[i].run \in Runs /\ client.live[i].line \in Nat \ {0}
        OBVIOUS
      <4> HIDE ViewFacts DEF StreamInv
      <4> QED
        BY <4>1 DEF Runs
    <3>1. /\ client.live[i].run \in Nat /\ client.live[i].line \in Nat
          /\ client.live[i].run <= Newest
          /\ client.live[i].line <= Len(log[client.live[i].run])
          /\ client.live[i].run = Newest =>
               OffsetAfter(client.live[i].run, client.live[i].line) <= client.lastId
      <4> HIDE ViewFacts
      <4>1. ResumeInv
        BY DEF StreamInv
      <4> QED
        BY <3>0, <4>1 DEF ResumeInv
    <3> HIDE ViewFacts DEF StreamInv
    <3>2. client.live[i].run = Newest' => client.live[i].run = Newest
      BY <3>1, <1>4
    <3>3. /\ OffsetAfter(client.live[i].run, client.live[i].line)'
             = OffsetAfter(client.live[i].run, client.live[i].line)
          /\ client.live[i].line <= Len(log'[client.live[i].run])
      <4>1. /\ OffsetAfter(client.live[i].run, client.live[i].line)'
               = OffsetAfter(client.live[i].run, client.live[i].line)
            /\ Len(log[client.live[i].run]) <= Len(log'[client.live[i].run])
            /\ Len(log[client.live[i].run]) \in Nat /\ Len(log'[client.live[i].run]) \in Nat
        BY <1>6
      <4>2. \A a, b, c \in Nat : a <= b /\ b <= c => a <= c
        OBVIOUS
      <4>3. client.live[i].line <= Len(log'[client.live[i].run])
        BY <3>1, <4>1, <4>2, Zenon
      <4> QED
        BY <4>1, <4>3, Zenon
    <3>4. client.live[i].run <= Newest'
      BY <3>1, <1>4
    <3> QED
      BY <3>1, <3>2, <3>3, <3>4
  <2>2. client.lastId # NoId /\ page.run = Newest' => client.lastId >= page.from
    BY <1>4 DEF ResumeInv, PageInv
  <2> HIDE DEF Newest
  <2> QED
    BY <1>1, <2>1, <2>2 DEF ResumeInv
<1>8. ReadingInv'
  BY <1>1, <1>4, <1>6 DEF ReadingInv
<1> QED
  BY <1>2, <1>3, <1>5, <1>7, <1>8

(* The next line of the stream comes after every line the browser has an   *)
(* event of, and after the page.                                           *)
LEMMA NextLineFacts ==
    ASSUME StreamInv, stream.pc = "lines", NEW n \in NextLine
    PROVE  /\ stream.run \in Runs /\ n \in 1..Len(log[stream.run])
           /\ OffsetAfter(stream.run, n) \in Nat /\ stream.offset < OffsetAfter(stream.run, n)
           /\ stream.run = page.run => page.upto < n
           /\ \A i \in DOMAIN client.live : client.live[i].run = stream.run => client.live[i].line < n
<1> USE DEF StreamInv
<1>1. n \in 1..Size(stream.run) /\ OffsetAfter(stream.run, n) > stream.offset
  BY DEF NextLine, Unread
<1>2. stream.run \in 0..2 /\ stream.offset \in Nat
  BY ViewFacts
<1>3. stream.run # 0
  BY <1>1 DEF Size
<1>4. stream.run \in Runs
  BY <1>2, <1>3 DEF Runs
<1>5. n \in 1..Len(log[stream.run]) /\ Len(log[stream.run]) \in Nat
  BY <1>1, <1>3, <1>4, LogFacts DEF Size
<1>6. OffsetAfter(stream.run, n) \in Nat
  <2>1. n \in 0..Len(log[stream.run])
    BY <1>5
  <2> QED
    BY <2>1, <1>4, LogFacts
<1>7. ASSUME NEW k \in 0..Len(log[stream.run]), OffsetAfter(stream.run, k) <= stream.offset
      PROVE  k < n
  <2> SUFFICES ASSUME n <= k PROVE FALSE
    BY <1>5
  <2>1. OffsetAfter(stream.run, k) \in Nat
    BY <1>4, LogFacts
  <2>2. n < k => OffsetAfter(stream.run, n) < OffsetAfter(stream.run, k)
    BY <1>4, <1>5 DEF LogsGrow
  <2>3. n = k \/ n < k
    BY <1>5
  <2> QED
    BY <1>1, <1>2, <1>6, <1>7, <2>1, <2>2, <2>3
<1>8. stream.run = page.run => page.upto < n
  <2> SUFFICES ASSUME stream.run = page.run PROVE page.upto < n
    OBVIOUS
  <2>1. page.upto \in Nat /\ page.upto <= Size(page.run) /\ Size(page.run) = Len(log[stream.run])
    BY <1>3, ViewFacts DEF PageInv, Size
  <2>2. page.upto \in 0..Len(log[stream.run])
    BY <2>1, <1>5
  <2>3. OffsetAfter(stream.run, page.upto) <= stream.offset
    <3>1. page.from = OffsetAfter(stream.run, page.upto)
      BY DEF PageInv
    <3>2. stream.offset >= page.from /\ page.from \in Nat
      BY ViewFacts DEF ReadingInv
    <3> QED
      BY <3>1, <3>2, <1>2
  <2> QED
    BY <2>2, <2>3, <1>7
<1>9. ASSUME NEW i \in DOMAIN client.live, client.live[i].run = stream.run
      PROVE  client.live[i].line < n
  <2>1. client.live[i].line \in Nat /\ client.live[i].line <= Len(log[stream.run])
    BY <1>9, ViewFacts DEF ResumeInv
  <2>2. client.live[i].line \in 0..Len(log[stream.run])
    BY <2>1, <1>5
  <2>3. OffsetAfter(stream.run, client.live[i].line) <= stream.offset
    BY <1>9 DEF ReadingInv
  <2> QED
    BY <2>2, <2>3, <1>7
<1> QED
  BY <1>1, <1>2, <1>4, <1>5, <1>6, <1>8, <1>9

(* The browser receives some events of the next line of the stream. *)
LEMMA DeliverKeeps ==
    ASSUME StreamInv, stream.pc = "lines", NEW n \in NextLine, NEW out \in Seq(LogEvent),
           client' = Deliver(client, n, out), UNCHANGED <<log, runs, page>>
    PROVE  /\ client' \in Browser /\ ResumeInv' /\ ShownOnceInOrder' /\ page.open
           /\ \A i \in DOMAIN client'.live :
                /\ client'.live[i].run <= stream.run
                /\ client'.live[i].run = stream.run =>
                     OffsetAfter(client'.live[i].run, client'.live[i].line)
                       <= OffsetAfter(stream.run, n)
<1> USE DEF StreamInv
<1> DEFINE run == stream.run
           live == client.live
           new == [k \in DOMAIN out |-> [run |-> run, line |-> n, nth |-> k, event |-> out[k]]]
           end == OffsetAfter(run, n)
<1>0. /\ run \in Runs /\ n \in 1..Len(log[run]) /\ n \in Nat \ {0}
      /\ end \in Nat /\ stream.offset < end
      /\ run = page.run => page.upto < n
      /\ \A i \in DOMAIN live : live[i].run = run => live[i].line < n
  <2>1. Len(log[run]) \in Nat
    BY NextLineFacts, LogFacts
  <2> QED
    BY <2>1, NextLineFacts
<1>1. /\ page.run <= run /\ run <= Newest /\ Newest \in 0..2
      /\ run = page.run => stream.offset >= page.from
      /\ \A i \in DOMAIN live : /\ live[i].run <= run
                                /\ live[i].run = run =>
                                     OffsetAfter(live[i].run, live[i].line) <= stream.offset
  BY NewestRun DEF ReadingInv, NewestIs
<1>2. page.open
  BY DEF PageInv
<1>3. /\ page.run \in 0..2 /\ page.upto \in Nat /\ page.from \in Nat
      /\ stream.offset \in Nat /\ live \in Seq(LiveEvent) /\ Len(live) \in Nat
      /\ DOMAIN live = 1..Len(live)
      /\ \A i \in DOMAIN live : /\ live[i] \in LiveEvent /\ live[i].run \in Runs
                                /\ live[i].line \in Nat \ {0} /\ live[i].nth \in Nat \ {0}
  BY ViewFacts
<1>4. new \in Seq(LiveEvent) /\ Len(new) = Len(out) /\ Len(out) \in Nat
  <2>1. Len(out) \in Nat /\ DOMAIN out = 1..Len(out)
    OBVIOUS
  <2>2. ASSUME NEW k \in 1..Len(out)
        PROVE  [run |-> run, line |-> n, nth |-> k, event |-> out[k]] \in LiveEvent
    BY <1>0, <2>1 DEF LiveEvent
  <2>3. new \in [1..Len(out) -> LiveEvent]
    <3> HIDE DEF run
    <3> QED
      BY <2>1, <2>2
  <2> HIDE DEF new
  <2> QED
    BY <2>1, <2>3
<1>5. \A k \in 1..Len(out) : new[k].run = run /\ new[k].line = n /\ new[k].nth = k
  <2>1. DOMAIN out = 1..Len(out)
    OBVIOUS
  <2> QED
    BY <2>1
<1>6. /\ client'.live = live \o new
      /\ client'.lastId = IF out = <<>> THEN client.lastId ELSE end
      /\ client' \in Browser
  <2>1. client \in Browser
    BY DEF ViewTypes
  <2>2. client' = [client EXCEPT !.live = live \o new,
                                 !.lastId = IF out = <<>> THEN client.lastId ELSE end]
    BY Zenon DEF Deliver, IdAfter
  <2>3. live \o new \in Seq(LiveEvent)
    <3> HIDE DEF live, new
    <3> QED
      BY <1>3, <1>4
  <2>4. (IF out = <<>> THEN client.lastId ELSE end) \in Nat \cup {NoId}
    BY <1>0, ViewFacts
  <2> HIDE DEF live, new, end
  <2> QED
    BY <2>1, <2>2, <2>3, <2>4 DEF Browser
<1> HIDE DEF new
<1>7. /\ DOMAIN client'.live = 1..(Len(live) + Len(out))
      /\ \A i \in 1..Len(live) : client'.live[i] = live[i]
      /\ \A k \in 1..Len(out) : client'.live[Len(live) + k] = new[k]
  <2> HIDE DEF live
  <2>1. live \in Seq(LiveEvent) /\ new \in Seq(LiveEvent) /\ Len(live) \in Nat /\ Len(new) \in Nat
    BY <1>3, <1>4
  <2>2. Len(live \o new) = Len(live) + Len(new) /\ DOMAIN (live \o new) = 1..(Len(live) + Len(new))
    BY <2>1
  <2>3. \A i \in 1..Len(live) : (live \o new)[i] = live[i]
    BY <2>1
  <2>4. \A k \in 1..Len(new) : (live \o new)[Len(live) + k] = new[k]
    BY <2>1
  <2> QED
    BY <1>4, <1>6, <2>2, <2>3, <2>4
<1>8. ASSUME NEW i \in DOMAIN client'.live
      PROVE  \/ i \in 1..Len(live)
             \/ \E k \in 1..Len(out) : i = Len(live) + k
  <2>1. i \in 1..(Len(live) + Len(out)) /\ Len(live) \in Nat /\ Len(out) \in Nat
    BY <1>3, <1>4, <1>7
  <2>2. CASE i > Len(live)
    <3>1. i - Len(live) \in 1..Len(out) /\ i = Len(live) + (i - Len(live))
      <4> HIDE DEF live
      <4> QED
        BY <2>1, <2>2
    <3> QED
      BY <3>1
  <2> HIDE DEF live
  <2> QED
    BY <2>1, <2>2
<1>9. \A r, i : OffsetAfter(r, i)' = OffsetAfter(r, i)
  BY DEF OffsetAfter
<1>10. Newest' = Newest
  BY NewestKept
<1> HIDE DEF live, end
<1>11. ASSUME NEW i \in DOMAIN client'.live
       PROVE  /\ client'.live[i].run <= run
              /\ client'.live[i].run = run =>
                   OffsetAfter(client'.live[i].run, client'.live[i].line) <= end
              /\ client'.live[i].run \in Runs
              /\ client'.live[i].line <= Len(log[client'.live[i].run])
              /\ client'.live[i].run = page.run => client'.live[i].line > page.upto
              /\ client'.live[i].run = Newest =>
                   OffsetAfter(client'.live[i].run, client'.live[i].line) <= client'.lastId
  <2>1. CASE i \in 1..Len(live)
    <3>1. client'.live[i] = live[i] /\ i \in DOMAIN live
      BY <1>3, <1>7, <2>1
    <3>2. /\ live[i].run <= run /\ live[i].run \in Runs
          /\ live[i].run = run => OffsetAfter(live[i].run, live[i].line) <= stream.offset
      BY <1>1, <1>3, <3>1
    <3>3. /\ live[i].line <= Len(log[live[i].run])
          /\ live[i].run = Newest => OffsetAfter(live[i].run, live[i].line) <= client.lastId
          /\ live[i].run = page.run => live[i].line > page.upto
      BY <3>1 DEF ResumeInv, ShownOnceInOrder, live
    <3>4. OffsetAfter(live[i].run, live[i].line) \in Nat
      <4>1. live[i].line \in 0..Len(log[live[i].run])
        BY <1>3, <3>1, <3>2, <3>3, LogFacts
      <4> QED
        BY <3>2, <4>1, LogFacts
    <3>5. live[i].run = run => OffsetAfter(live[i].run, live[i].line) <= end
      BY <1>0, <1>3, <3>2, <3>4
    <3>6. live[i].run = Newest => OffsetAfter(live[i].run, live[i].line) <= client'.lastId
      <4>1. CASE out = <<>>
        BY <4>1, <1>6, <3>3
      <4>2. CASE out # <<>>
        <5>1. live[i].run = Newest => live[i].run = run
          BY <1>0, <1>1, <3>2 DEF Runs
        <5> QED
          BY <4>2, <5>1, <1>6, <3>5
      <4> QED
        BY <4>1, <4>2
    <3> QED
      BY <3>1, <3>2, <3>3, <3>5, <3>6
  <2>2. CASE \E k \in 1..Len(out) : i = Len(live) + k
    <3>1. PICK k \in 1..Len(out) : i = Len(live) + k
      BY <2>2
    <3>2. client'.live[i].run = run /\ client'.live[i].line = n
      BY <1>5, <1>7, <3>1
    <3>3. client'.lastId = end
      <4>1. out # <<>>
        BY <3>1
      <4> QED
        BY <1>6, <4>1
    <3>4. n <= Len(log[run]) /\ (run = page.run => n > page.upto) /\ run <= run /\ end <= end
      BY <1>0, <1>3, LogFacts DEF Runs
    <3>5. OffsetAfter(client'.live[i].run, client'.live[i].line) = end
      BY <3>2, Zenon DEF end
    <3>6. client'.live[i].run = page.run => client'.live[i].line > page.upto
      BY <3>2, <3>4
    <3>7. run \in Runs
      BY <1>0
    <3> QED
      BY <3>2, <3>3, <3>4, <3>5, <3>6, <3>7, Zenon
  <2> QED
    BY <1>8, <2>1, <2>2
<1>12. client'.lastId # NoId /\ page.run = Newest => client'.lastId >= page.from
  <2>1. CASE out = <<>>
    BY <2>1, <1>6 DEF ResumeInv
  <2>2. CASE out # <<>>
    <3>1. page.run = Newest => run = page.run
      BY <1>0, <1>1, <1>3 DEF Runs
    <3>2. run = page.run => end >= page.from
      BY <1>0, <1>1, <1>3
    <3> QED
      BY <2>2, <3>1, <3>2, <1>6
  <2> QED
    BY <2>1, <2>2
<1>13. ResumeInv'
  <2>1. ASSUME NEW i \in DOMAIN client'.live PROVE client'.live[i].run <= Newest
    BY <1>0, <1>1, <1>11 DEF Runs
  <2>2. \A i \in DOMAIN client'.live :
          OffsetAfter(client.live[i].run, client.live[i].line)'
            = OffsetAfter(client'.live[i].run, client'.live[i].line)
    BY DEF OffsetAfter
  <2> HIDE DEF Newest
  <2> QED
    BY <1>10, <1>11, <1>12, <2>1, <2>2 DEF ResumeInv
<1>14. ASSUME NEW i \in DOMAIN client'.live, NEW j \in DOMAIN client'.live, i < j
       PROVE  Before(client'.live[i], client'.live[j])
  <2>1. CASE j \in 1..Len(live)
    <3>1. i \in 1..Len(live)
      BY <1>3, <1>4, <1>7, <1>14, <2>1
    <3>2. Before(live[i], live[j])
      BY <3>1, <2>1, <1>3, <1>14 DEF ShownOnceInOrder, live
    <3> QED
      BY <3>1, <3>2, <2>1, <1>7
  <2>2. CASE i \in 1..Len(live) /\ \E k \in 1..Len(out) : j = Len(live) + k
    <3>1. client'.live[j].run = run /\ client'.live[j].line = n
      BY <2>2, <1>5, <1>7
    <3>2. client'.live[i] = live[i] /\ live[i].run <= run /\ (live[i].run = run => live[i].line < n)
      BY <2>2, <1>0, <1>1, <1>3, <1>7
    <3>3. live[i].run < run \/ live[i].run = run
      BY <3>2, <2>2, <1>0, <1>3 DEF Runs
    <3> QED
      BY <3>1, <3>2, <3>3 DEF Before
  <2>3. CASE (\E k \in 1..Len(out) : i = Len(live) + k) /\ (\E k \in 1..Len(out) : j = Len(live) + k)
    <3>1. PICK k \in 1..Len(out) : i = Len(live) + k
      BY <2>3
    <3>2. PICK l \in 1..Len(out) : j = Len(live) + l
      BY <2>3
    <3>3. k < l
      BY <1>3, <1>4, <1>14, <3>1, <3>2
    <3>4. client'.live[i] = new[k] /\ client'.live[j] = new[l]
      BY <1>7, <3>1, <3>2
    <3> QED
      BY <3>3, <3>4, <1>5 DEF Before
  <2> QED
    BY <1>8, <2>1, <2>2, <2>3
<1>15. ShownOnceInOrder'
  BY <1>11, <1>14 DEF ShownOnceInOrder, Before
<1> QED
  BY <1>2, <1>6, <1>11, <1>13, <1>15 DEF end

(* The events of the next line, and the Tail after it. *)
LEMMA ReadLineType ==
    ASSUME StreamInv, stream.pc = "lines", NEW n \in NextLine
    PROVE  /\ ReadLine(n).tail \in TailState
           /\ ReadLine(n).out \in Seq(LogEvent) /\ Shown(ReadLine(n).out) \in Seq(LogEvent)
<1>1. stream.tail \in TailState
  BY ViewFacts DEF StreamInv
<1>2. LineAt(stream.run, n) \in LogLine
  BY NextLineFacts, LogFacts DEF StreamInv
<1>3. Feed(stream.tail, LineAt(stream.run, n)) \in Fed
  BY <1>1, <1>2, FeedType
<1>4. [tail |-> stream.tail, out |-> <<>>] \in Fed
  BY <1>1 DEF Fed
<1>5. ReadLine(n) \in Fed
  BY <1>3, <1>4 DEF ReadLine
<1>6. ReadLine(n).tail \in TailState /\ ReadLine(n).out \in Seq(LogEvent)
  BY <1>5 DEF Fed
<1> QED
  BY <1>6, OnlyType DEF Shown

(* The first state. *)
LEMMA StreamInit == Init => StreamInv
<1> SUFFICES ASSUME Init PROVE StreamInv
  OBVIOUS
<1>1. LogTypes /\ LogsGrow
  BY LogInit
<1>2. PICK plan \in Plans :
        page = [wanted |-> plan.viewed, open |-> FALSE, run |-> 0, upto |-> 0, from |-> 0, after |-> 0]
  BY DEF Init
<1>3. /\ records = <<>> /\ stream = NoStream
      /\ client = [live |-> <<>>, recs |-> <<>>, lastId |-> NoId, ended |-> FALSE]
  BY DEF Init
<1>4. page \in PageState
  BY <1>2, TelemetryAssumption DEF PageState
<1>5. stream \in StreamState
  BY <1>3 DEF NoStream, NewTail, StreamState, TailState
<1>6. client \in Browser
  BY <1>3 DEF Browser
<1>7. ViewTypes
  BY <1>3, <1>4, <1>5, <1>6 DEF ViewTypes
<1>8. client.live = <<>> /\ client.lastId = NoId /\ stream.pc = "off" /\ DOMAIN client.live = {}
  BY <1>3 DEF NoStream
<1>9. Newest \in 0..2
  BY <1>1, NewestRun DEF NewestIs
<1>10. PageInv
  BY <1>2, <1>8, <1>9 DEF PageInv, OffsetAfter, Size
<1>11. ResumeInv /\ ReadingInv /\ ShownOnceInOrder
  BY <1>8 DEF ResumeInv, ReadingInv, ShownOnceInOrder
<1> QED
  BY <1>1, <1>7, <1>10, <1>11 DEF StreamInv

(* The page is read. *)
LEMMA OpenPageStream == StreamInv /\ OpenPage => StreamInv'
<1> SUFFICES ASSUME StreamInv, OpenPage PROVE StreamInv'
  OBVIOUS
<1> USE DEF StreamInv
<1> DEFINE run == LatestRunLog.run
           upto == Size(run)
<1>1. /\ page.wanted
      /\ page' = [wanted |-> FALSE, open |-> TRUE, run |-> run, upto |-> upto,
                  from |-> OffsetAfter(run, upto), after |-> Len(records)]
      /\ UNCHANGED <<agents, stream, client, runs, records>>
  BY Zenon DEF OpenPage
<1>2. LogTypes' /\ LogsGrow'
  BY <1>1, LogFrame
<1>3. run \in 0..2 /\ run = Newest /\ Newest' = Newest
  BY <1>1, NewestRun, NewestKept DEF NewestIs, Newest
<1>4. upto \in Nat /\ OffsetAfter(run, upto) \in Nat
  <2>1. CASE run = 0
    BY <2>1 DEF Size, OffsetAfter
  <2>2. CASE run \in Runs
    <3>1. upto = Len(log[run]) /\ Len(log[run]) \in Nat
      BY <2>2, LogFacts DEF Size, Runs
    <3>2. Len(log[run]) \in 0..Len(log[run])
      BY <3>1
    <3>3. OffsetAfter(run, Len(log[run])) \in Nat
      BY <2>2, <3>2, LogFacts
    <3> QED
      BY <3>1, <3>3
  <2> QED
    BY <1>3, <2>1, <2>2 DEF Runs
<1>5. log' = log /\ \A r, i : OffsetAfter(r, i)' = OffsetAfter(r, i) /\ Size(r)' = Size(r)
  BY <1>1 DEF agents, OffsetAfter, Size
<1> HIDE DEF run
<1>6. Len(records) \in Nat
  BY DEF ViewTypes
<1>7. page' \in PageState
  <2> HIDE DEF upto
  <2> QED
    BY <1>1, <1>3, <1>4, <1>6 DEF PageState
<1>8. ViewTypes'
  BY <1>1, <1>7 DEF ViewTypes
<1>9. page'.run = run /\ page'.upto = upto /\ page'.from = OffsetAfter(run, upto) /\ page'.open
      /\ ~page'.wanted
  BY <1>1
<1>10. client.live = <<>> /\ client.lastId = NoId /\ stream.pc = "off"
  BY <1>1 DEF PageInv
<1>11. client' = client /\ stream' = stream /\ DOMAIN client.live = {}
  BY <1>1, <1>10
<1>12. PageInv'
  <2>1. page'.upto <= Size(page'.run)
    BY <1>4, <1>9
  <2>2. Size(page.run)' = Size(page'.run) /\ OffsetAfter(page.run, page.upto)' = OffsetAfter(page'.run, page'.upto)
    BY <1>5 DEF Size, OffsetAfter
  <2> HIDE DEF upto, Newest
  <2> QED
    BY <1>3, <1>9, <2>1, <2>2 DEF PageInv
<1>13. ResumeInv' /\ ReadingInv' /\ ShownOnceInOrder'
  BY <1>10, <1>11 DEF ResumeInv, ReadingInv, ShownOnceInOrder
<1> QED
  BY <1>2, <1>8, <1>12, <1>13

(* With the logs and the page as they were, what is left to show. *)
LEMMA ViewStep ==
    ASSUME StreamInv, UNCHANGED <<agents, runs, page, records>>, page.open,
           stream' \in StreamState, client' \in Browser,
           ResumeInv', ReadingInv', ShownOnceInOrder'
    PROVE  StreamInv'
<1>1. LogTypes' /\ LogsGrow'
  BY LogFrame DEF StreamInv
<1>2. ViewTypes'
  BY DEF StreamInv, ViewTypes
<1>3. log' = log /\ page' = page /\ runs' = runs
  BY DEF agents
<1>4. PageInv'
  <2>1. Newest' = Newest
    BY <1>3, NewestKept
  <2>2. Size(page.run)' = Size(page.run) /\ OffsetAfter(page.run, page.upto)' = OffsetAfter(page.run, page.upto)
    BY <1>3 DEF Size, OffsetAfter
  <2> HIDE DEF Newest
  <2> QED
    BY <1>3, <2>1, <2>2 DEF StreamInv, PageInv
<1> QED
  BY <1>1, <1>2, <1>4 DEF StreamInv

(* A browser left alone resumes where it did. *)
LEMMA ResumeFrame ==
    ASSUME StreamInv, UNCHANGED <<agents, runs, page>>, client'.live = client.live,
           client'.lastId = client.lastId
    PROVE  ResumeInv' /\ ShownOnceInOrder'
<1>1. log' = log /\ page' = page /\ Newest' = Newest
  BY NewestKept DEF agents
<1>2. \A i \in DOMAIN client.live :
        OffsetAfter(client.live[i].run, client.live[i].line)'
          = OffsetAfter(client.live[i].run, client.live[i].line)
  BY <1>1 DEF OffsetAfter
<1>3. ShownOnceInOrder'
  BY <1>1 DEF StreamInv, ShownOnceInOrder, Before
<1>4. ResumeInv'
  <2> HIDE DEF Newest
  <2> QED
    BY <1>1, <1>2 DEF StreamInv, ResumeInv
<1> QED
  BY <1>3, <1>4

(* The browser connects, for the first time or again. *)
LEMMA ConnectStream == StreamInv /\ Connect => StreamInv'
<1> SUFFICES ASSUME StreamInv, Connect PROVE StreamInv'
  OBVIOUS
<1> DEFINE ended == LatestRunLog.ended
           offset == IF client.lastId = NoId THEN page.from ELSE client.lastId
<1>1. /\ page.open
      /\ stream' = [pc |-> "lines", run |-> Newest, ended |-> ended, offset |-> offset,
                    after |-> page.after, sent |-> FALSE, tail |-> NewTail]
      /\ UNCHANGED <<agents, page, client, runs, records>>
  BY Zenon DEF Connect, Newest
<1>2. ended \in BOOLEAN
  BY DEF LatestRunLog
<1>3. Newest \in 0..2 /\ Newest' = Newest
  BY <1>1, NewestRun, NewestKept DEF NewestIs, StreamInv
<1>4. offset \in Nat
  BY ViewFacts DEF StreamInv
<1>5. page.after \in Nat /\ NewTail \in TailState
  BY DEF StreamInv, ViewTypes, PageState, NewTail, TailState
<1>6. stream' \in StreamState
  <2> HIDE DEF ended, offset, Newest
  <2> QED
    BY <1>1, <1>2, <1>3, <1>4, <1>5 DEF StreamState
<1>7. stream'.run = Newest /\ stream'.offset = offset
  BY <1>1
<1>8. ResumeInv' /\ ShownOnceInOrder'
  BY <1>1, ResumeFrame
<1>9. ReadingInv'
  <2>1. log' = log /\ page' = page /\ client' = client
    BY <1>1 DEF agents
  <2>2. Newest = page.run => offset >= page.from
    BY ViewFacts DEF StreamInv, ResumeInv
  <2>3. ASSUME NEW i \in DOMAIN client.live, client.live[i].run = Newest
        PROVE  OffsetAfter(client.live[i].run, client.live[i].line) <= offset
    <3>1. /\ OffsetAfter(client.live[i].run, client.live[i].line) <= client.lastId
          /\ client.live[i].line <= Len(log[client.live[i].run])
      BY <2>3 DEF StreamInv, ResumeInv
    <3>2. client.live[i].run \in Runs /\ client.live[i].line \in Nat \ {0}
      BY ViewFacts DEF StreamInv
    <3>3. client.live[i].line \in 0..Len(log[client.live[i].run])
      BY <3>1, <3>2, LogFacts DEF StreamInv
    <3>4. OffsetAfter(client.live[i].run, client.live[i].line) \in Nat
      BY <3>2, <3>3, LogFacts DEF StreamInv
    <3>5. client.lastId # NoId
      BY <3>1, <3>4 DEF NoId
    <3> QED
      BY <3>1, <3>5
  <2>4. page.run <= Newest /\ \A i \in DOMAIN client.live : client.live[i].run <= Newest
    BY DEF StreamInv, PageInv, ResumeInv
  <2>5. \A i \in DOMAIN client.live :
          OffsetAfter(client.live[i].run, client.live[i].line)'
            = OffsetAfter(client.live[i].run, client.live[i].line)
    BY <2>1 DEF OffsetAfter
  <2>6. Newest <= Newest
    BY <1>3
  <2> HIDE DEF Newest, offset
  <2> QED
    BY <1>3, <1>7, <2>1, <2>2, <2>3, <2>4, <2>5, <2>6 DEF ReadingInv
<1> QED
  BY <1>1, <1>6, <1>8, <1>9, ViewStep DEF StreamInv, ViewTypes

(* The events of a line are sent. *)
LEMMA SendLineStream == StreamInv /\ SendLine => StreamInv'
<1> SUFFICES ASSUME StreamInv, SendLine PROVE StreamInv'
  OBVIOUS
<1>1. stream.pc = "lines" /\ UNCHANGED <<agents, page, runs, records>>
  BY Zenon DEF SendLine
<1>2. PICK n \in NextLine :
        LET read == ReadLine(n)
            out == Shown(ReadLine(n).out)
        IN /\ client' = Deliver(client, n, out)
           /\ stream' = [stream EXCEPT !.offset = OffsetAfter(stream.run, n),
                                       !.tail = read.tail, !.sent = @ \/ out # <<>>]
  BY Zenon DEF SendLine
<1> DEFINE out == Shown(ReadLine(n).out)
           tail == ReadLine(n).tail
           sent == stream.sent \/ out # <<>>
           end == OffsetAfter(stream.run, n)
<1>3. client' = Deliver(client, n, out) /\ stream' = [stream EXCEPT !.offset = end, !.tail = tail, !.sent = sent]
  BY <1>2, Zenon
<1>4. out \in Seq(LogEvent) /\ tail \in TailState
  BY <1>1, ReadLineType
<1>5. sent \in BOOLEAN
  BY Zenon
<1>6. stream.run \in Runs /\ end \in Nat /\ stream.offset < end
  BY <1>1, NextLineFacts
<1>7. log' = log /\ runs' = runs /\ page' = page
  BY <1>1 DEF agents
<1> HIDE DEF out, tail, sent
<1>8. /\ client' \in Browser /\ ResumeInv' /\ ShownOnceInOrder' /\ page.open
      /\ \A i \in DOMAIN client'.live :
           /\ client'.live[i].run <= stream.run
           /\ client'.live[i].run = stream.run =>
                OffsetAfter(client'.live[i].run, client'.live[i].line) <= end
  BY <1>1, <1>3, <1>4, <1>7, DeliverKeeps
<1>9. /\ stream' \in StreamState /\ stream'.run = stream.run /\ stream'.offset = end
      /\ stream'.pc = "lines"
  <2>1. stream \in StreamState
    BY DEF StreamInv, ViewTypes
  <2> HIDE DEF end
  <2> QED
    BY <2>1, <1>1, <1>3, <1>4, <1>5, <1>6 DEF StreamState
<1>10. ReadingInv'
  <2>1. /\ page.run <= stream.run /\ stream.run <= Newest
        /\ stream.run = page.run => stream.offset >= page.from
    BY <1>1 DEF StreamInv, ReadingInv
  <2>2. Newest' = Newest
    BY <1>1, NewestKept
  <2>3. \A i \in DOMAIN client'.live :
          OffsetAfter(client.live[i].run, client.live[i].line)'
            = OffsetAfter(client'.live[i].run, client'.live[i].line)
    BY <1>7 DEF OffsetAfter
  <2>4. stream.run = page.run => end >= page.from
    BY <2>1, <1>6, ViewFacts DEF StreamInv
  <2> HIDE DEF Newest, end
  <2> QED
    BY <1>7, <1>8, <1>9, <2>1, <2>2, <2>3, <2>4 DEF ReadingInv
<1> QED
  BY <1>1, <1>8, <1>9, <1>10, ViewStep

(* The records are sent, and the stream waits or closes. *)
LEMMA SendRecordsStream == StreamInv /\ SendRecords => StreamInv'
<1> SUFFICES ASSUME StreamInv, SendRecords PROVE StreamInv'
  OBVIOUS
<1> DEFINE fresh == IF KindShown(Mode, "Record") THEN TicketEventsAfter(stream.after) ELSE {}
           over == stream.ended /\ ~(stream.sent \/ fresh # {})
           more == Only([i \in DOMAIN records |-> i], fresh)
           id == IF fresh = {} THEN client.lastId ELSE stream.offset
<1>1. /\ stream.pc = "lines" /\ UNCHANGED <<agents, page, runs, records>>
      /\ stream' = IF over THEN NoStream ELSE [stream EXCEPT !.pc = "wait", !.after = Len(records)]
      /\ client' = [client EXCEPT !.recs = @ \o more, !.lastId = id, !.ended = over]
  BY Zenon DEF SendRecords
<1>2. over \in BOOLEAN
  BY Zenon
<1>3. more \in Seq(Nat)
  <2>1. Len(records) \in Nat /\ DOMAIN records = 1..Len(records)
    BY DEF StreamInv, ViewTypes
  <2>2. [i \in DOMAIN records |-> i] \in [1..Len(records) -> Nat]
    BY <2>1
  <2>3. [i \in DOMAIN records |-> i] \in Seq(Nat)
    BY <2>1, <2>2
  <2> HIDE DEF fresh
  <2> QED
    BY <2>3, OnlyType
<1> HIDE DEF fresh, over, more
<1>4. id \in Nat \cup {NoId} /\ (id = client.lastId \/ id = stream.offset)
  BY ViewFacts DEF StreamInv
<1> HIDE DEF id
<1>5. client' \in Browser /\ client'.live = client.live /\ client'.lastId = id
  <2>1. client \in Browser
    BY DEF StreamInv, ViewTypes
  <2>2. client.recs \o more \in Seq(Nat)
    BY <1>3, <2>1 DEF Browser
  <2> QED
    BY <2>1, <2>2, <1>1, <1>2, <1>4 DEF Browser
<1>6. stream' \in StreamState /\ (stream'.pc # "off" => stream'.run = stream.run /\ stream'.offset = stream.offset)
  <2>1. stream \in StreamState /\ Len(records) \in Nat
    BY DEF StreamInv, ViewTypes
  <2>2. CASE over
    BY <2>2, <1>1 DEF NoStream, StreamState, NewTail, TailState
  <2>3. CASE ~over
    BY <2>1, <2>3, <1>1 DEF StreamState
  <2> QED
    BY <2>2, <2>3
<1>7. /\ page.run <= stream.run /\ stream.run <= Newest
      /\ stream.run = page.run => stream.offset >= page.from
      /\ \A i \in DOMAIN client.live :
           /\ client.live[i].run <= stream.run
           /\ client.live[i].run = stream.run =>
                OffsetAfter(client.live[i].run, client.live[i].line) <= stream.offset
  BY <1>1 DEF StreamInv, ReadingInv
<1>8. Newest' = Newest /\ Newest \in 0..2
  BY <1>1, NewestRun, NewestKept DEF NewestIs, StreamInv
<1>9. log' = log /\ page' = page
  BY <1>1 DEF agents
<1>10. \A i \in DOMAIN client.live :
         OffsetAfter(client.live[i].run, client.live[i].line)'
           = OffsetAfter(client.live[i].run, client.live[i].line)
  BY <1>5, <1>9 DEF OffsetAfter
<1>11. ResumeInv'
  <2>1. CASE id = client.lastId
    BY <2>1, <1>1, <1>5, ResumeFrame
  <2>2. CASE id = stream.offset
    <3>1. ASSUME NEW i \in DOMAIN client.live, client.live[i].run = Newest
          PROVE  OffsetAfter(client.live[i].run, client.live[i].line) <= id
      <4>1. client.live[i].run = stream.run
        BY <3>1, <1>7, <1>8, ViewFacts DEF StreamInv, Runs
      <4> QED
        BY <4>1, <2>2, <1>7
    <3>2. page.run = Newest => id >= page.from
      <4>1. page.run = Newest => page.run = stream.run
        BY <1>7, <1>8, ViewFacts DEF StreamInv
      <4> QED
        BY <4>1, <2>2, <1>7
    <3>3. \A i \in DOMAIN client.live : /\ client.live[i].run <= Newest
                                        /\ client.live[i].line <= Len(log[client.live[i].run])
      BY DEF StreamInv, ResumeInv
    <3> HIDE DEF Newest
    <3> QED
      BY <3>1, <3>2, <3>3, <1>5, <1>8, <1>9, <1>10 DEF ResumeInv
  <2> QED
    BY <2>1, <2>2, <1>4
<1>12. ReadingInv'
  <2> HIDE DEF Newest
  <2> QED
    BY <1>5, <1>6, <1>7, <1>8, <1>9, <1>10 DEF ReadingInv
<1>13. ShownOnceInOrder'
  BY <1>5, <1>9 DEF StreamInv, ShownOnceInOrder, Before
<1>14. page.open
  BY <1>1 DEF StreamInv, PageInv
<1> QED
  BY <1>1, <1>5, <1>6, <1>11, <1>12, <1>13, <1>14, ViewStep

(* The next round begins, perhaps on a newer log. *)
LEMMA PollStream == StreamInv /\ Poll => StreamInv'
<1> SUFFICES ASSUME StreamInv, Poll PROVE StreamInv'
  OBVIOUS
<1> DEFINE ended == LatestRunLog.ended
<1>1. /\ stream.pc = "wait" /\ UNCHANGED <<agents, page, client, runs, records>>
      /\ stream' = [stream EXCEPT !.pc = "lines", !.sent = FALSE, !.run = Newest, !.ended = ended]
  BY Zenon DEF Poll, Newest
<1>2. ended \in BOOLEAN
  BY DEF LatestRunLog
<1>3. Newest \in 0..2 /\ Newest' = Newest
  BY <1>1, NewestRun, NewestKept DEF NewestIs, StreamInv
<1>4. stream' \in StreamState /\ stream'.run = Newest /\ stream'.offset = stream.offset
  <2>1. stream \in StreamState
    BY DEF StreamInv, ViewTypes
  <2> HIDE DEF ended, Newest
  <2> QED
    BY <2>1, <1>1, <1>2, <1>3 DEF StreamState
<1>5. ResumeInv' /\ ShownOnceInOrder'
  BY <1>1, ResumeFrame
<1>6. page.open
  BY <1>1 DEF StreamInv, PageInv
<1>7. ReadingInv'
  <2>1. /\ page.run <= stream.run /\ stream.run <= Newest
        /\ stream.run = page.run => stream.offset >= page.from
    BY <1>1 DEF StreamInv, ReadingInv
  <2>2. Newest = page.run => stream.offset >= page.from
    BY <2>1, <1>3, ViewFacts DEF StreamInv
  <2>3. ASSUME NEW i \in DOMAIN client.live
        PROVE  /\ client.live[i].run <= Newest
               /\ client.live[i].run = Newest =>
                    OffsetAfter(client.live[i].run, client.live[i].line) <= stream.offset
    <3>1. /\ client.live[i].run <= stream.run
          /\ client.live[i].run = stream.run =>
               OffsetAfter(client.live[i].run, client.live[i].line) <= stream.offset
      BY <1>1, Zenon DEF StreamInv, ReadingInv
    <3>2. client.live[i].run \in Nat /\ stream.run \in Nat
      <4>1. client.live[i].run \in Runs /\ stream.run \in 0..2
        BY ViewFacts DEF StreamInv
      <4> QED
        BY <4>1 DEF Runs
    <3> QED
      BY <3>1, <3>2, <2>1, <1>3
  <2>4. log' = log /\ client' = client /\ page' = page
    BY <1>1 DEF agents
  <2>5. \A i \in DOMAIN client.live :
          OffsetAfter(client.live[i].run, client.live[i].line)'
            = OffsetAfter(client.live[i].run, client.live[i].line)
    BY <2>4 DEF OffsetAfter
  <2>6. page.run <= Newest /\ Newest <= Newest
    BY <2>1, <1>3, ViewFacts DEF StreamInv
  <2> HIDE DEF Newest
  <2> QED
    BY <1>3, <1>4, <2>2, <2>3, <2>4, <2>5, <2>6 DEF ReadingInv
<1> QED
  BY <1>1, <1>4, <1>5, <1>6, <1>7, ViewStep DEF StreamInv, ViewTypes

(* The connection breaks, perhaps in the middle of a line. *)
LEMMA DropStream == StreamInv /\ Drop => StreamInv'
<1> SUFFICES ASSUME StreamInv, Drop PROVE StreamInv'
  OBVIOUS
<1>1. stream.pc # "off" /\ stream' = NoStream /\ UNCHANGED <<agents, page, runs, records>>
  BY Zenon DEF Drop
<1>2. stream' \in StreamState /\ ReadingInv'
  BY <1>1 DEF NoStream, StreamState, NewTail, TailState, ReadingInv
<1>3. page.open
  BY <1>1 DEF StreamInv, PageInv
<1>4. CASE client' = client
  <2>1. ResumeInv' /\ ShownOnceInOrder'
    BY <1>1, <1>4, ResumeFrame
  <2> QED
    BY <1>1, <1>2, <1>3, <1>4, <2>1, ViewStep DEF StreamInv, ViewTypes
<1>5. CASE /\ stream.pc = "lines"
           /\ \E n \in NextLine : \E out \in {Shown(ReadLine(n).out)} : \E k \in DOMAIN out :
                client' = Deliver(client, n, SubSeq(out, 1, k))
  <2>1. PICK n \in NextLine : \E k \in DOMAIN Shown(ReadLine(n).out) :
                client' = Deliver(client, n, SubSeq(Shown(ReadLine(n).out), 1, k))
    BY <1>5, Zenon
  <2> DEFINE out == Shown(ReadLine(n).out)
  <2>2. PICK k \in DOMAIN out : client' = Deliver(client, n, SubSeq(out, 1, k))
    BY <2>1
  <2>3. out \in Seq(LogEvent)
    BY <1>5, ReadLineType
  <2> HIDE DEF out
  <2>4. SubSeq(out, 1, k) \in Seq(LogEvent)
    BY <2>2, <2>3
  <2>5. log' = log /\ runs' = runs /\ page' = page
    BY <1>1 DEF agents
  <2>6. client' \in Browser /\ ResumeInv' /\ ShownOnceInOrder'
    BY <1>5, <2>2, <2>4, <2>5, DeliverKeeps
  <2> QED
    BY <1>1, <1>2, <1>3, <2>6, ViewStep
<1> QED
  BY <1>4, <1>5, Zenon DEF Drop

(* The server gives up and tells the browser so: it has what it had. *)
LEMMA FollowFailsStream == StreamInv /\ FollowFails => StreamInv'
<1> SUFFICES ASSUME StreamInv, FollowFails PROVE StreamInv'
  OBVIOUS
<1>1. /\ stream.pc # "off" /\ stream' = NoStream /\ UNCHANGED <<agents, page, runs, records>>
      /\ client' = [client EXCEPT !.ended = TRUE]
  BY Zenon DEF FollowFails
<1>2. stream' \in StreamState /\ ReadingInv'
  BY <1>1 DEF NoStream, StreamState, NewTail, TailState, ReadingInv
<1>3. page.open
  BY <1>1 DEF StreamInv, PageInv
<1>4. client' \in Browser /\ client'.live = client.live /\ client'.lastId = client.lastId
  BY <1>1 DEF StreamInv, ViewTypes, Browser
<1>5. ResumeInv' /\ ShownOnceInOrder'
  BY <1>1, <1>4, ResumeFrame
<1> QED
  BY <1>1, <1>2, <1>3, <1>4, <1>5, ViewStep

(* Every step keeps StreamInv: only the page and the stream's own steps    *)
(* touch what the browser has, the others let logs grow.                   *)
LEMMA StreamStep == StreamInv /\ [Next]_vars => StreamInv'
<1> SUFFICES ASSUME StreamInv, [Next]_vars PROVE StreamInv'
  OBVIOUS
<1>1. LogTypes' /\ LogsGrow' /\ LogKept
  BY LogStep DEF StreamInv
<1>2. ASSUME UNCHANGED viewer, records' \in Seq(RecordKinds) PROVE StreamInv'
  BY <1>1, <1>2, ViewFrame
<1>3. records \in Seq(RecordKinds) /\ \A x \in RecordKinds : Append(records, x) \in Seq(RecordKinds)
  BY DEF StreamInv, ViewTypes
<1>4. ASSUME NEW r \in Runs, Launch(r) PROVE StreamInv'
  <2>1. UNCHANGED viewer
    BY <1>4, Zenon DEF Launch
  <2>2. records' = Append(records, "run_launched") \/ records' = records
    BY <1>4, Zenon DEF Launch
  <2>3. records' \in Seq(RecordKinds)
    BY <2>2, <1>3 DEF RecordKinds
  <2> QED
    BY <2>1, <2>3, <1>2
<1>5. CASE RecordDisposed
  <2>1. UNCHANGED viewer
    BY <1>5, Zenon DEF RecordDisposed
  <2>2. records' = Append(records, "run_disposed") \/ records' = records
    BY <1>5, Zenon DEF RecordDisposed
  <2>3. records' \in Seq(RecordKinds)
    BY <2>2, <1>3 DEF RecordKinds
  <2> QED
    BY <2>1, <2>3, <1>2
<1>6. CASE \/ \E r \in Runs : WriteLine(r) \/ Exit(r) \/ Dispose(r)
           \/ StoreReadings \/ StoreIntervals \/ Crash \/ PruneHistory \/ UNCHANGED vars
  <2>1. UNCHANGED <<viewer, records>>
    BY <1>6, Zenon DEF WriteLine, Exit, Dispose, StoreReadings, StoreIntervals, Crash, PruneHistory, vars
  <2> QED
    BY <2>1, <1>2, <1>3
<1> QED
  BY <1>4, <1>5, <1>6, OpenPageStream, ConnectStream, SendLineStream, SendRecordsStream, PollStream,
     DropStream, FollowFailsStream, Zenon
  DEF Next, Tick, Serve

(* For any logs, plans and faults: whatever breaks and reconnects, the     *)
(* browser gets every event of the logs at most once and in the order of   *)
(* the logs, and none of a line the page already shows (wholeLines,        *)
(* Last-Event-ID, sendLines).                                              *)
THEOREM StreamedOnceInOrder == Spec => []ShownOnceInOrder
<1>1. StreamInv => ShownOnceInOrder
  BY DEF StreamInv
<1> QED
  BY <1>1, StreamInit, StreamStep, PTL DEF Spec

-----------------------------------------------------------------------------
(* The stream misses nothing.                                              *)

(* The Tail that read the lines of a log after line `from'. *)
TailAfter(name, from) ==
    LET t[n \in 0..Len(Script[name])] ==
          IF n <= from THEN NewTail ELSE Feed(t[n - 1], Script[name][n]).tail
    IN t

(* The events of line n that a stream which began at the page has to show. *)
TailAt(n) == TailAfter(runs[page.run].script, page.upto)[n]
LineEvents(n) == Shown(Feed(TailAt(n - 1), LineAt(page.run, n)).out)

(* The browser has them, of this line and of all lines from the page to it. *)
Got(n) ==
    \A k \in DOMAIN LineEvents(n) : \E i \in DOMAIN client.live :
       client.live[i] = [run |-> page.run, line |-> n, nth |-> k, event |-> LineEvents(n)[k]]
GotUpTo(n) == \A m \in (page.upto + 1)..n : Got(m)
GotAll == GotUpTo(Len(log[page.run]))

(* An unbroken stream, and no follow-up since the page. *)
Unbroken == faults.drops = 0 /\ page.run # 0 /\ Newest = page.run

(* When an unbroken stream ends, the browser has been sent every event of  *)
(* every line of the log after the page.                                   *)
NothingMissed == Unbroken /\ client.ended => GotAll

(* The stream is at the end of line n and has sent all from the page to it. *)
AtLine(n) ==
    /\ n \in page.upto..Len(log[page.run])
    /\ stream.offset = OffsetAfter(page.run, n) /\ stream.tail = TailAt(n)
    /\ GotUpTo(n)

RunEnded == runs[page.run].st = "ended"

(* A stream is always at the end of a line, knows a run to have ended only *)
(* if it has, and ends only when the log of such a run has been sent.      *)
TailInv ==
    /\ faults \in [drops : Nat, crashes : Nat]
    /\ ~page.open => ~client.ended
    /\ Unbroken =>
         /\ stream.pc = "off" /\ ~client.ended => client.lastId = NoId
         /\ stream.pc # "off" => (stream.ended => RunEnded) /\ \E n : AtLine(n)
         /\ client.ended => stream.pc = "off" /\ RunEnded /\ GotAll

(* The Tail reads one line after the other. *)
LEMMA TailAfterIs ==
    ASSUME NEW name \in DOMAIN Script, NEW from \in Nat
    PROVE  /\ \A n \in 0..Len(Script[name]) : n <= from => TailAfter(name, from)[n] = NewTail
           /\ \A n \in 1..Len(Script[name]) : from < n =>
                TailAfter(name, from)[n] = Feed(TailAfter(name, from)[n - 1], Script[name][n]).tail
<1> DEFINE s == Script[name]
           Read(x, i) == Feed(x, s[i]).tail
           Body(g) == [n \in 0..Len(s) |-> IF n <= from THEN NewTail ELSE Read(g[n - 1], n)]
           t == CHOOSE g : g = Body(g)
           step == [i \in 1..Len(s) |-> [x \in TailState |-> IF i <= from THEN NewTail ELSE Read(x, i)]]
<1>1. TailAfter(name, from) = t
  BY Zenon DEF TailAfter
<1>2. Len(s) \in Nat /\ \A i \in 1..Len(s) : s[i] \in LogLine
  <2>1. s \in Seq(LogLine)
    BY TelemetryAssumption
  <2> HIDE DEF s
  <2> QED
    BY <2>1
<1> HIDE DEF s
<1>3. NewTail \in TailState
  BY DEF NewTail, TailState
<1>4. ASSUME NEW i \in 1..Len(s), NEW x \in TailState PROVE Read(x, i) \in TailState
  <2>1. Feed(x, s[i]) \in Fed
    BY <1>2, FeedType
  <2> QED
    BY <2>1 DEF Fed
<1> HIDE DEF Read
<1>5. step \in [1..Len(s) -> [TailState -> TailState]]
  BY <1>3, <1>4
<1>6. PICK g \in [0..Len(s) -> TailState] : Iterates(g, Len(s), NewTail, step)
  <2> DEFINE n == Len(s)
  <2>1. n \in Nat /\ step \in [1..n -> [TailState -> TailState]]
    <3> HIDE DEF step
    <3> QED
      BY <1>2, <1>5
  <2>2. \E g \in [0..n -> TailState] : Iterates(g, n, NewTail, step)
    <3> HIDE DEF n, step
    <3> QED
      BY <2>1, <1>3, Recursion
  <2> QED
    BY <2>2
<1>7. g = Body(g)
  <2>1. \A i \in 1..Len(s) : i - 1 \in 0..Len(s) /\ i # 0 /\ i \in 0..Len(s)
    BY <1>2
  <2>2. ASSUME NEW i \in 0..Len(s) PROVE g[i] = Body(g)[i]
    <3>1. CASE i = 0
      BY <3>1, <1>6 DEF Iterates
    <3>2. CASE i \in 1..Len(s)
      <4>1. g[i] = step[i][g[i - 1]] /\ g[i - 1] \in TailState
        BY <3>2, <2>1, <1>6 DEF Iterates
      <4>2. g[i] = IF i <= from THEN NewTail ELSE Read(g[i - 1], i)
        BY <3>2, <4>1
      <4> QED
        BY <4>2
    <3> QED
      BY <1>2, <3>1, <3>2
  <2>3. g = [i \in 0..Len(s) |-> g[i]] /\ Body(g) = [i \in 0..Len(s) |-> Body(g)[i]]
    BY Zenon
  <2> HIDE DEF Body
  <2> QED
    BY <2>2, <2>3
<1>8. t = Body(t)
  <2> HIDE DEF Body
  <2> QED
    BY <1>7, Zenon
<1> HIDE DEF t
<1>9. ASSUME NEW n \in 0..Len(s)
      PROVE  t[n] = IF n <= from THEN NewTail ELSE Read(t[n - 1], n)
  <2>1. Body(t)[n] = IF n <= from THEN NewTail ELSE Read(t[n - 1], n)
    OBVIOUS
  <2> HIDE DEF Body
  <2> QED
    BY <1>8, <2>1, Zenon
<1>10. \A n \in 0..Len(s) : n <= from => t[n] = NewTail
  BY <1>9
<1>11. \A n \in 1..Len(s) : from < n => t[n] = Read(t[n - 1], n)
  <2>1. ASSUME NEW n \in 1..Len(s), from < n PROVE n \in 0..Len(s) /\ ~(n <= from)
    BY <1>2, <2>1
  <2> QED
    BY <1>9, <2>1
<1> QED
  BY <1>1, <1>10, <1>11, Zenon DEF s, Read

(* What the browser has it keeps. *)
LEMMA GotKept ==
    ASSUME page' = page, runs'[page.run].script = runs[page.run].script,
           DOMAIN client.live \subseteq DOMAIN client'.live,
           \A i \in DOMAIN client.live : client'.live[i] = client.live[i]
    PROVE  /\ \A n : TailAt(n)' = TailAt(n) /\ LineEvents(n)' = LineEvents(n)
           /\ \A n : Got(n) => Got(n)'
           /\ \A n : GotUpTo(n) => GotUpTo(n)'
<1>1. \A n : TailAt(n)' = TailAt(n) /\ LineAt(page.run, n)' = LineAt(page.run, n)
  BY DEF TailAt, LineAt
<1>2. \A n : LineEvents(n)' = LineEvents(n)
  BY <1>1 DEF LineEvents, Shown
<1>3. ASSUME NEW n, Got(n) PROVE Got(n)'
  BY <1>2, <1>3, Zenon DEF Got
<1>4. \A n : GotUpTo(n) => GotUpTo(n)'
  BY <1>3 DEF GotUpTo
<1> QED
  BY <1>1, <1>2, <1>3, <1>4

(* A run that has ended stays so, and its log with it. *)
LEMMA EndedStays ==
    ASSUME LogTypes, LogsGrow, [Next]_vars, NEW q \in Runs, runs[q].st = "ended"
    PROVE  runs'[q].st = "ended" /\ log'[q] = log[q]
<1>1. runs \in [Runs -> RunState] /\ log \in [Runs -> Seq(Stamp)]
  BY DEF LogTypes
<1>2. CASE UNCHANGED <<runs, log>>
  BY <1>2
<1>3. ASSUME NEW r \in Runs, NEW st, runs[r].st # "ended", runs' = [runs EXCEPT ![r].st = st], log' = log
      PROVE  runs'[q].st = "ended" /\ log'[q] = log[q]
  BY <1>1, <1>3
<1>4. ASSUME NEW r \in Runs, Launch(r) \/ Exit(r)
      PROVE  \E st : runs[r].st # "ended" /\ runs' = [runs EXCEPT ![r].st = st] /\ log' = log
  BY <1>4, Zenon DEF Launch, Exit, agents
<1>5. ASSUME NEW r \in Runs, Dispose(r)
      PROVE  \E st : runs[r].st # "ended" /\ runs' = [runs EXCEPT ![r].st = st] /\ log' = log
  BY <1>5, Zenon DEF Dispose, agents
<1>6. ASSUME NEW r \in Runs, WriteLine(r)
      PROVE  runs'[q].st = "ended" /\ log'[q] = log[q]
  <2>1. runs[r].st = "running" /\ runs' = runs /\ \E new : log' = [log EXCEPT ![r] = new]
    BY <1>6, Zenon DEF WriteLine
  <2>2. q # r
    BY <2>1
  <2> QED
    BY <1>1, <2>1, <2>2
<1>7. CASE \/ StoreReadings \/ StoreIntervals \/ RecordDisposed \/ Crash \/ PruneHistory
           \/ OpenPage \/ Serve \/ Drop \/ FollowFails \/ UNCHANGED vars
  <2>1. UNCHANGED <<runs, log>>
    BY <1>7, Zenon DEF StoreReadings, StoreIntervals, RecordDisposed, Crash, PruneHistory, OpenPage,
                       Serve, Connect, SendLine, SendRecords, Poll, Drop, FollowFails, vars, agents
  <2> QED
    BY <2>1, <1>2
<1> QED
  BY <1>3, <1>4, <1>5, <1>6, <1>7, Zenon DEF Next, Tick

(* What was unbroken after a step was so before. *)
LEMMA UnbrokenBefore ==
    ASSUME StreamInv, LogTypes', LogKept, page' = page, faults'.drops = faults.drops, Unbroken'
    PROVE  /\ Unbroken /\ page.run \in Runs /\ Newest = page.run
           /\ page.upto \in Nat /\ page.upto <= Len(log[page.run]) /\ Len(log[page.run]) \in Nat
           /\ runs'[page.run].script = runs[page.run].script
<1>1. NewestIs /\ NewestIs'
  BY NewestRun, PTL DEF StreamInv
<1>2. Newest \in 0..2 /\ Newest' \in 0..2 /\ Newest <= Newest' /\ page.run <= Newest /\ page.run \in 0..2
  BY <1>1, NewestGrows, ViewFacts DEF NewestIs, StreamInv, PageInv
<1>3. page.run # 0 /\ Newest' = page.run /\ faults.drops = 0
  BY DEF Unbroken
<1>4. Newest = page.run
  BY <1>2, <1>3
<1>5. page.run \in Runs
  BY <1>2, <1>3 DEF Runs
<1>6. page.upto \in Nat /\ page.upto <= Size(page.run) /\ Size(page.run) = Len(log[page.run])
  BY <1>3, ViewFacts DEF StreamInv, PageInv, Size
<1>7. Len(log[page.run]) \in Nat /\ runs'[page.run].script = runs[page.run].script
  BY <1>5, LogFacts DEF StreamInv, LogKept
<1> QED
  BY <1>3, <1>4, <1>5, <1>6, <1>7 DEF Unbroken

(* Logs that grow leave the page and the stream where they are. *)
LEMMA TailFrame ==
    ASSUME StreamInv, TailInv, LogTypes', LogKept, [Next]_vars, UNCHANGED viewer,
           faults' \in [drops : Nat, crashes : Nat], faults'.drops = faults.drops
    PROVE  TailInv'
<1>1. page' = page /\ stream' = stream /\ client' = client
  BY DEF viewer
<1>2. ~page.open => ~client.ended
  BY DEF TailInv
<1>3. ASSUME Unbroken'
      PROVE  /\ Unbroken
             /\ RunEnded => RunEnded'
             /\ \A n : AtLine(n) => AtLine(n)'
             /\ RunEnded /\ GotAll => GotAll'
  <2>1. /\ Unbroken /\ page.run \in Runs
        /\ page.upto \in Nat /\ page.upto <= Len(log[page.run]) /\ Len(log[page.run]) \in Nat
        /\ runs'[page.run].script = runs[page.run].script
    BY <1>1, <1>3, UnbrokenBefore
  <2>2. \A n : TailAt(n)' = TailAt(n) /\ (GotUpTo(n) => GotUpTo(n)')
    BY <1>1, <2>1, GotKept
  <2>3. \A n : Got(n) => Got(n)'
    BY <1>1, <2>1, GotKept
  <2>4. runs[page.run].st = "ended" => runs'[page.run].st = "ended" /\ log'[page.run] = log[page.run]
    BY <2>1, EndedStays DEF StreamInv
  <2>5. Len(log[page.run]) <= Len(log'[page.run]) /\ Len(log'[page.run]) \in Nat
    BY <2>1 DEF LogKept, LogTypes
  <2>6. ASSUME NEW n, AtLine(n) PROVE AtLine(n)'
    <3>1. /\ n \in page.upto..Len(log[page.run])
          /\ stream.offset = OffsetAfter(page.run, n) /\ stream.tail = TailAt(n) /\ GotUpTo(n)
      BY <2>6 DEF AtLine
    <3>2. n = 0 \/ n \in 1..Len(log[page.run])
      BY <2>1, <3>1
    <3>3. OffsetAfter(page.run, n)' = OffsetAfter(page.run, n)
      BY <1>1, <2>1, <3>2 DEF OffsetAfter, LogKept
    <3>4. n \in page.upto..Len(log'[page.run])
      BY <2>1, <2>5, <3>1
    <3> QED
      BY <1>1, <2>2, <3>1, <3>3, <3>4 DEF AtLine
  <2>7. RunEnded => RunEnded'
    BY <1>1, <2>4 DEF RunEnded
  <2>8. RunEnded /\ GotAll => GotAll'
    BY <1>1, <2>3, <2>4, Zenon DEF RunEnded, GotAll, GotUpTo
  <2> QED
    BY <2>1, <2>6, <2>7, <2>8
<1> HIDE DEF Unbroken
<1> QED
  BY <1>1, <1>2, <1>3, Zenon DEF TailInv

(* With the logs and the page as they were, what is left to show. *)
LEMMA TailStepIs ==
    ASSUME StreamInv, TailInv, UNCHANGED <<agents, runs, page, faults>>, page.open,
           Unbroken /\ page.run \in Runs =>
             /\ stream'.pc = "off" /\ ~client'.ended => client'.lastId = NoId
             /\ stream'.pc # "off" => (stream'.ended => RunEnded) /\ \E n : AtLine(n)'
             /\ client'.ended => stream'.pc = "off" /\ RunEnded /\ GotAll'
    PROVE  TailInv'
<1>1. log' = log /\ runs' = runs /\ page' = page /\ faults' = faults /\ Newest' = Newest
  BY NewestKept DEF agents
<1>2. LogTypes' /\ LogKept
  BY LogFrame DEF StreamInv
<1>3. Unbroken' => Unbroken /\ page.run \in Runs
  BY <1>1, <1>2, UnbrokenBefore
<1>4. RunEnded' <=> RunEnded
  BY <1>1 DEF RunEnded
<1>5. faults \in [drops : Nat, crashes : Nat]
  BY DEF TailInv
<1> HIDE DEF Unbroken
<1> QED
  BY <1>1, <1>3, <1>4, <1>5, Zenon DEF TailInv

(* The Tail of a stream on the page's log, line by line. *)
LEMMA TailAtIs ==
    ASSUME StreamInv, page.run \in Runs
    PROVE  /\ TailAt(page.upto) = NewTail
           /\ \A n \in 1..Len(log[page.run]) : page.upto < n =>
                TailAt(n) = Feed(TailAt(n - 1), LineAt(page.run, n)).tail
<1> DEFINE name == runs[page.run].script
<1>1. name \in DOMAIN Script /\ Len(log[page.run]) <= Len(Script[name]) /\ Len(log[page.run]) \in Nat
  BY DEF StreamInv, LogTypes, RunState
<1>2. page.upto \in Nat /\ page.upto <= Len(log[page.run])
  BY ViewFacts DEF StreamInv, PageInv, Size, Runs
<1>3. Len(Script[name]) \in Nat
  <2> DEFINE s == Script[name]
  <2>1. s \in Seq(LogLine)
    BY <1>1, TelemetryAssumption
  <2> HIDE DEF s
  <2>2. Len(s) \in Nat
    BY <2>1
  <2> QED
    BY <2>2 DEF s
<1>4. page.upto \in 0..Len(Script[name]) /\ page.upto <= page.upto
  BY <1>1, <1>2, <1>3
<1>5. \A n \in 1..Len(log[page.run]) : n \in 1..Len(Script[name])
  BY <1>1, <1>3
<1> HIDE DEF name
<1>6. /\ TailAfter(name, page.upto)[page.upto] = NewTail
      /\ \A n \in 1..Len(Script[name]) : page.upto < n =>
           TailAfter(name, page.upto)[n] = Feed(TailAfter(name, page.upto)[n - 1], Script[name][n]).tail
  BY <1>1, <1>2, <1>4, TailAfterIs
<1> QED
  BY <1>5, <1>6, Zenon DEF TailAt, LineAt, name

(* The run that LatestRunLog finds has ended when it says so. *)
LEMMA EndedIs ==
    ASSUME Unbroken
    PROVE  LatestRunLog.ended => RunEnded
<1>1. Newest = page.run /\ page.run # 0
  BY DEF Unbroken
<1>2. LatestRunLog.ended => Newest = 0 \/ runs[Newest].st = "ended"
  BY DEF LatestRunLog, Newest
<1> HIDE DEF Newest
<1> QED
  BY <1>1, <1>2 DEF RunEnded

(* The first state. *)
LEMMA TailInit == Init => TailInv
<1> SUFFICES ASSUME Init PROVE TailInv
  OBVIOUS
<1>1. \E plan \in Plans :
        page = [wanted |-> plan.viewed, open |-> FALSE, run |-> 0, upto |-> 0, from |-> 0, after |-> 0]
  BY DEF Init
<1>2. page.run = 0
  BY <1>1
<1>3. faults = [drops |-> 0, crashes |-> 0] /\ ~client.ended
  BY DEF Init
<1> QED
  BY <1>2, <1>3 DEF TailInv, Unbroken

(* The page is read, before any stream. *)
LEMMA OpenPageTail == StreamInv /\ TailInv /\ OpenPage => TailInv'
<1> SUFFICES ASSUME StreamInv, TailInv, OpenPage PROVE TailInv'
  OBVIOUS
<1>1. page.wanted /\ UNCHANGED <<stream, client, faults>>
  BY Zenon DEF OpenPage
<1>2. ~page.open /\ client.lastId = NoId /\ stream.pc = "off"
  BY <1>1 DEF StreamInv, PageInv
<1>3. ~client.ended /\ faults \in [drops : Nat, crashes : Nat]
  BY <1>2 DEF TailInv
<1>4. stream' = stream /\ client' = client /\ faults' = faults
  BY <1>1
<1> QED
  BY <1>2, <1>3, <1>4, Zenon DEF TailInv

(* The browser connects: the stream starts at the end of the page. *)
LEMMA ConnectTail == StreamInv /\ TailInv /\ Connect => TailInv'
<1> SUFFICES ASSUME StreamInv, TailInv, Connect PROVE TailInv'
  OBVIOUS
<1> DEFINE ended == LatestRunLog.ended
           offset == IF client.lastId = NoId THEN page.from ELSE client.lastId
<1>1. /\ page.open /\ stream.pc = "off" /\ ~client.ended
      /\ stream' = [pc |-> "lines", run |-> Newest, ended |-> ended, offset |-> offset,
                    after |-> page.after, sent |-> FALSE, tail |-> NewTail]
      /\ UNCHANGED <<agents, page, client, runs, faults>>
  BY Zenon DEF Connect, Newest
<1>2. /\ stream'.pc = "lines" /\ stream'.ended = ended /\ stream'.offset = offset
      /\ stream'.tail = NewTail /\ client' = client /\ page' = page /\ log' = log /\ runs' = runs
  BY <1>1 DEF agents
<1>3. ASSUME Unbroken, page.run \in Runs
      PROVE  (ended => RunEnded) /\ AtLine(page.upto)'
  <2>1. ended => RunEnded
    BY <1>3, EndedIs
  <2>2. offset = page.from
    BY <1>1, <1>3 DEF TailInv
  <2>3. page.from = OffsetAfter(page.run, page.upto) /\ TailAt(page.upto) = NewTail
    BY <1>3, TailAtIs DEF StreamInv, PageInv
  <2>4. page.upto \in Nat /\ page.upto <= Len(log[page.run]) /\ Len(log[page.run]) \in Nat
    BY <1>3, ViewFacts, LogFacts DEF StreamInv, PageInv, Size, Runs
  <2>5. page.upto \in page.upto..Len(log[page.run]) /\ (page.upto + 1)..page.upto = {}
    BY <2>4
  <2>6. GotUpTo(page.upto)'
    BY <1>2, <2>5 DEF GotUpTo
  <2>7. OffsetAfter(page.run, page.upto)' = OffsetAfter(page.run, page.upto)
        /\ TailAt(page.upto)' = TailAt(page.upto)
    BY <1>2 DEF OffsetAfter, TailAt
  <2> HIDE DEF offset
  <2>8. AtLine(page.upto)'
    BY <1>2, <2>2, <2>3, <2>5, <2>6, <2>7 DEF AtLine
  <2> QED
    BY <2>1, <2>8
<1> HIDE DEF ended, offset, Unbroken
<1>4. Unbroken /\ page.run \in Runs => \E n : AtLine(n)'
  <2>1. page'.upto = page.upto
    BY <1>2
  <2> QED
    BY <1>3, <2>1
<1>5. stream'.pc # "off" /\ ~client'.ended
  BY <1>1, <1>2
<1> QED
  BY <1>1, <1>2, <1>3, <1>4, <1>5, TailStepIs

(* The line after the one the stream is at. *)
LEMMA NextLineIs ==
    ASSUME StreamInv, Unbroken, page.run \in Runs, stream.pc # "off", NEW m, AtLine(m)
    PROVE  /\ stream.run = page.run
           /\ \A n \in NextLine : n = m + 1 /\ n \in 1..Len(log[page.run]) /\ page.upto < n
           /\ Unread = {} => m = Len(log[page.run])
<1>1. /\ page.upto \in Nat /\ Len(log[page.run]) \in Nat /\ stream.offset \in Nat
      /\ stream.run \in 0..2 /\ page.run \in 0..2
  BY ViewFacts, LogFacts DEF StreamInv
<1>2. m \in page.upto..Len(log[page.run]) /\ stream.offset = OffsetAfter(page.run, m)
  BY DEF AtLine
<1>3. m \in 0..Len(log[page.run])
  BY <1>1, <1>2
<1>4. stream.run = page.run
  <2>1. page.run <= stream.run /\ stream.run <= Newest /\ Newest = page.run
    BY DEF StreamInv, ReadingInv, Unbroken
  <2> HIDE DEF Newest
  <2> QED
    BY <1>1, <2>1
<1>5. Size(stream.run) = Len(log[page.run])
  BY <1>4 DEF Size, Runs
<1>6. ASSUME NEW i \in 1..Len(log[page.run])
      PROVE  i \in Unread <=> m < i
  <2>0. i \in Nat /\ m \in Nat /\ i \in 0..Len(log[page.run])
    BY <1>1, <1>3
  <2>1. OffsetAfter(page.run, i) \in Nat /\ OffsetAfter(page.run, m) \in Nat
    BY <1>3, <2>0, LogFacts DEF StreamInv
  <2>2. m < i => OffsetAfter(page.run, m) < OffsetAfter(page.run, i)
    BY <1>3, <2>0 DEF StreamInv, LogsGrow
  <2>3. i < m => OffsetAfter(page.run, i) < OffsetAfter(page.run, m)
    BY <1>3, <2>0 DEF StreamInv, LogsGrow
  <2>4. i \in Unread <=> OffsetAfter(page.run, i) > OffsetAfter(page.run, m)
    BY <1>2, <1>4, <1>5 DEF Unread
  <2>5. i = m => OffsetAfter(page.run, i) = OffsetAfter(page.run, m)
    OBVIOUS
  <2> HIDE DEF OffsetAfter
  <2> QED
    BY <2>0, <2>1, <2>2, <2>3, <2>4, <2>5
<1>7. Unread \subseteq 1..Len(log[page.run])
  BY <1>5 DEF Unread
<1>8. m < Len(log[page.run]) => m + 1 \in Unread
  <2> SUFFICES ASSUME m < Len(log[page.run]) PROVE m + 1 \in Unread
    OBVIOUS
  <2>1. m + 1 \in 1..Len(log[page.run]) /\ m < m + 1
    BY <1>1, <1>3
  <2> QED
    BY <1>6, <2>1
<1>9. Unread = {} => m = Len(log[page.run])
  BY <1>1, <1>3, <1>8
<1>10. ASSUME NEW n \in NextLine
       PROVE  n = m + 1 /\ n \in 1..Len(log[page.run]) /\ page.upto < n
  <2>1. n \in Unread /\ \A j \in Unread : n <= j
    BY DEF NextLine
  <2>2. n \in 1..Len(log[page.run])
    BY <1>7, <2>1
  <2>3. m < n
    BY <1>6, <2>1, <2>2
  <2>4. m + 1 \in Unread
    BY <1>1, <1>3, <1>8, <2>2, <2>3
  <2>5. n <= m + 1
    BY <2>1, <2>4
  <2> QED
    BY <1>1, <1>2, <1>3, <2>2, <2>3, <2>5
<1> QED
  BY <1>4, <1>9, <1>10

(* The events of the next line reach the browser, behind those it has. *)
LEMMA DeliverGot ==
    ASSUME StreamInv, UNCHANGED <<log, runs, page>>,
           page.run \in Runs, stream.run = page.run, NEW n \in Nat \ {0},
           Shown(ReadLine(n).out) \in Seq(LogEvent), LineEvents(n) = Shown(ReadLine(n).out),
           client' = Deliver(client, n, Shown(ReadLine(n).out))
    PROVE  /\ DOMAIN client.live \subseteq DOMAIN client'.live
           /\ \A i \in DOMAIN client.live : client'.live[i] = client.live[i]
           /\ client'.ended = client.ended
           /\ Got(n)'
<1> DEFINE out == Shown(ReadLine(n).out)
           new == [k \in DOMAIN out |-> [run |-> stream.run, line |-> n, nth |-> k, event |-> out[k]]]
           live == client.live
<1>1. /\ live \in Seq(LiveEvent) /\ Len(live) \in Nat /\ DOMAIN live = 1..Len(live)
  BY ViewFacts DEF StreamInv
<1>2. client \in Browser
  BY DEF StreamInv, ViewTypes
<1>3. client'.live = live \o new /\ client'.ended = client.ended
  <2>1. client' = [client EXCEPT !.live = live \o new, !.lastId = IF out = <<>> THEN client.lastId ELSE IdAfter(stream.run, n)]
    BY Zenon DEF Deliver
  <2> HIDE DEF live, new, out
  <2> QED
    BY <1>2, <2>1 DEF Browser
<1>4. out \in Seq(LogEvent) /\ Len(out) \in Nat /\ DOMAIN out = 1..Len(out)
  <2>1. out \in Seq(LogEvent)
    OBVIOUS
  <2> HIDE DEF out
  <2> QED
    BY <2>1
<1> HIDE DEF out
<1>5. /\ new \in Seq(LiveEvent) /\ Len(new) = Len(out)
      /\ \A k \in 1..Len(out) : new[k] = [run |-> stream.run, line |-> n, nth |-> k, event |-> out[k]]
  <2>1. ASSUME NEW k \in 1..Len(out)
        PROVE  [run |-> stream.run, line |-> n, nth |-> k, event |-> out[k]] \in LiveEvent
    BY <1>4 DEF LiveEvent
  <2>2. /\ new \in [1..Len(out) -> LiveEvent]
        /\ \A k \in 1..Len(out) : new[k] = [run |-> stream.run, line |-> n, nth |-> k, event |-> out[k]]
    BY <1>4, <2>1
  <2> HIDE DEF new
  <2> QED
    BY <1>4, <2>2
<1> HIDE DEF new, live
<1>6. /\ DOMAIN (live \o new) = 1..(Len(live) + Len(out))
      /\ \A i \in 1..Len(live) : (live \o new)[i] = live[i]
      /\ \A k \in 1..Len(out) : (live \o new)[Len(live) + k] = new[k]
  <2>1. live \in Seq(LiveEvent) /\ new \in Seq(LiveEvent) /\ Len(live) \in Nat /\ Len(new) \in Nat
    BY <1>1, <1>4, <1>5
  <2>2. Len(live \o new) = Len(live) + Len(new) /\ DOMAIN (live \o new) = 1..(Len(live) + Len(new))
    BY <2>1
  <2>3. \A i \in 1..Len(live) : (live \o new)[i] = live[i]
    BY <2>1
  <2>4. \A k \in 1..Len(new) : (live \o new)[Len(live) + k] = new[k]
    BY <2>1
  <2> QED
    BY <1>5, <2>2, <2>3, <2>4
<1>7. DOMAIN live \subseteq DOMAIN (live \o new)
  BY <1>1, <1>4, <1>6
<1>8. LineEvents(n)' = LineEvents(n)
  <2>1. TailAt(n - 1)' = TailAt(n - 1) /\ LineAt(page.run, n)' = LineAt(page.run, n)
    BY DEF TailAt, LineAt
  <2> QED
    BY <2>1 DEF LineEvents, Shown
<1>9. Got(n)'
  <2> SUFFICES ASSUME NEW k \in DOMAIN out
               PROVE  \E i \in DOMAIN (live \o new) :
                        (live \o new)[i] = [run |-> page.run, line |-> n, nth |-> k, event |-> out[k]]
    BY <1>3, <1>8, Zenon DEF Got, out
  <2>1. Len(live) + k \in DOMAIN (live \o new) /\ k \in 1..Len(out)
    BY <1>1, <1>4, <1>6
  <2>2. (live \o new)[Len(live) + k] = [run |-> page.run, line |-> n, nth |-> k, event |-> out[k]]
    BY <1>5, <1>6, <2>1
  <2> QED
    BY <2>1, <2>2
<1> QED
  BY <1>1, <1>3, <1>6, <1>7, <1>9 DEF live

(* The events of a line are sent: all of the next line after the last. *)
LEMMA SendLineTail == StreamInv /\ TailInv /\ SendLine => TailInv'
<1> SUFFICES ASSUME StreamInv, TailInv, SendLine PROVE TailInv'
  OBVIOUS
<1>1. stream.pc = "lines" /\ UNCHANGED <<agents, page, runs, faults>>
  BY Zenon DEF SendLine
<1>2. PICK n \in NextLine :
        LET read == ReadLine(n)
            out == Shown(ReadLine(n).out)
        IN /\ client' = Deliver(client, n, out)
           /\ stream' = [stream EXCEPT !.offset = OffsetAfter(stream.run, n),
                                       !.tail = read.tail, !.sent = @ \/ out # <<>>]
  BY Zenon DEF SendLine
<1> DEFINE out == Shown(ReadLine(n).out)
           tail == ReadLine(n).tail
           sent == stream.sent \/ out # <<>>
           end == OffsetAfter(stream.run, n)
<1>3. client' = Deliver(client, n, out) /\ stream' = [stream EXCEPT !.offset = end, !.tail = tail, !.sent = sent]
  BY <1>2, Zenon
<1>4. out \in Seq(LogEvent)
  BY <1>1, ReadLineType
<1>5. log' = log /\ runs' = runs /\ page' = page /\ page.open
  BY <1>1 DEF agents, StreamInv, PageInv
<1>6. /\ stream'.pc = stream.pc /\ stream'.ended = stream.ended
      /\ stream'.offset = end /\ stream'.tail = tail
  <2>1. stream \in StreamState
    BY DEF StreamInv, ViewTypes
  <2> HIDE DEF out, tail, sent, end
  <2> QED
    BY <2>1, <1>3 DEF StreamState
<1>7. ASSUME Unbroken, page.run \in Runs
      PROVE  (stream.ended => RunEnded) /\ ~client'.ended /\ AtLine(n)'
  <2>1. ~client.ended /\ (stream.ended => RunEnded) /\ \E m : AtLine(m)
    BY <1>1, <1>7, Zenon DEF TailInv
  <2>2. PICK m : AtLine(m)
    BY <2>1
  <2>3. stream.run = page.run /\ n = m + 1 /\ n \in 1..Len(log[page.run]) /\ page.upto < n
    BY <1>1, <1>7, <2>2, NextLineIs
  <2>4. /\ m \in page.upto..Len(log[page.run]) /\ Len(log[page.run]) \in Nat /\ page.upto \in Nat
        /\ stream.offset = OffsetAfter(page.run, m) /\ stream.tail = TailAt(m) /\ GotUpTo(m)
    BY <1>7, <2>2, ViewFacts, LogFacts DEF AtLine, StreamInv
  <2>5. n - 1 = m /\ n \in Nat \ {0} /\ n \in page.upto..Len(log[page.run])
    BY <2>3, <2>4
  <2>6. ReadLine(n) = Feed(TailAt(n - 1), LineAt(page.run, n))
    BY <2>3, <2>4, <2>5, Zenon DEF ReadLine
  <2>7. LineEvents(n) = out
    BY <2>6 DEF LineEvents
  <2>8. TailAt(n) = tail
    BY <1>7, <2>3, <2>6, TailAtIs
  <2> HIDE DEF tail
  <2>9. /\ DOMAIN client.live \subseteq DOMAIN client'.live
        /\ \A i \in DOMAIN client.live : client'.live[i] = client.live[i]
        /\ client'.ended = client.ended
        /\ Got(n)'
    BY <1>3, <1>4, <1>5, <1>7, <2>3, <2>5, <2>7, DeliverGot
  <2>10. TailAt(n)' = TailAt(n) /\ \A i : Got(i) => Got(i)'
    BY <1>5, <2>9, GotKept
  <2>11. GotUpTo(n)'
    <3> SUFFICES ASSUME NEW i \in (page.upto + 1)..n PROVE Got(i)'
      BY <1>5 DEF GotUpTo
    <3>1. i = n \/ i \in (page.upto + 1)..m
      BY <2>4, <2>5
    <3>2. i \in (page.upto + 1)..m => Got(i)
      BY <2>4 DEF GotUpTo
    <3> QED
      BY <2>9, <2>10, <3>1, <3>2
  <2>12. OffsetAfter(page.run, n)' = end
    BY <1>5, <2>3 DEF OffsetAfter
  <2> HIDE DEF end
  <2>13. AtLine(n)'
    BY <1>5, <1>6, <2>5, <2>8, <2>10, <2>11, <2>12 DEF AtLine
  <2> QED
    BY <2>1, <2>9, <2>13
<1> HIDE DEF out, tail, sent, end, Unbroken
<1>8. Unbroken /\ page.run \in Runs => \E m : AtLine(m)'
  BY <1>7
<1> QED
  BY <1>1, <1>5, <1>6, <1>7, <1>8, TailStepIs

(* The records are sent at the end of the log, so that a stream that closes *)
(* has sent it all.                                                         *)
LEMMA SendRecordsTail == StreamInv /\ TailInv /\ SendRecords => TailInv'
<1> SUFFICES ASSUME StreamInv, TailInv, SendRecords PROVE TailInv'
  OBVIOUS
<1> DEFINE fresh == IF KindShown(Mode, "Record") THEN TicketEventsAfter(stream.after) ELSE {}
           over == stream.ended /\ ~(stream.sent \/ fresh # {})
           more == Only([i \in DOMAIN records |-> i], fresh)
           id == IF fresh = {} THEN client.lastId ELSE stream.offset
<1>1. /\ stream.pc = "lines" /\ Unread = {} /\ UNCHANGED <<agents, page, runs, faults>>
      /\ stream' = IF over THEN NoStream ELSE [stream EXCEPT !.pc = "wait", !.after = Len(records)]
      /\ client' = [client EXCEPT !.recs = @ \o more, !.lastId = id, !.ended = over]
  BY Zenon DEF SendRecords
<1>2. over => stream.ended
  OBVIOUS
<1> HIDE DEF fresh, over, more, id
<1>3. client'.live = client.live /\ client'.ended = over
  BY <1>1 DEF StreamInv, ViewTypes, Browser
<1>4. log' = log /\ runs' = runs /\ page' = page /\ page.open
  BY <1>1 DEF agents, StreamInv, PageInv
<1>5. ~over => /\ stream'.pc = "wait" /\ stream'.ended = stream.ended
               /\ stream'.offset = stream.offset /\ stream'.tail = stream.tail
  BY <1>1 DEF StreamInv, ViewTypes, StreamState
<1>6. over => stream'.pc = "off"
  BY <1>1 DEF NoStream
<1>7. ASSUME Unbroken, page.run \in Runs
      PROVE  /\ stream.ended => RunEnded
             /\ over => GotAll'
             /\ ~over => \E m : AtLine(m)'
  <2>1. (stream.ended => RunEnded) /\ \E m : AtLine(m)
    BY <1>1, <1>7, Zenon DEF TailInv
  <2>2. PICK m : AtLine(m)
    BY <2>1
  <2>3. m = Len(log[page.run])
    BY <1>1, <1>7, <2>2, NextLineIs
  <2>4. \A i : TailAt(i)' = TailAt(i) /\ (GotUpTo(i) => GotUpTo(i)')
    BY <1>3, <1>4, GotKept
  <2>5. /\ m \in page.upto..Len(log[page.run])
        /\ stream.offset = OffsetAfter(page.run, m) /\ stream.tail = TailAt(m) /\ GotUpTo(m)
    BY <2>2 DEF AtLine
  <2>6. GotAll'
    BY <1>4, <2>3, <2>4, <2>5 DEF GotAll
  <2>7. OffsetAfter(page.run, m)' = OffsetAfter(page.run, m)
    BY <1>4 DEF OffsetAfter
  <2>8. ~over => AtLine(m)'
    BY <1>4, <1>5, <2>4, <2>5, <2>7 DEF AtLine
  <2> QED
    BY <2>1, <2>6, <2>8
<1> HIDE DEF Unbroken
<1> QED
  BY <1>1, <1>2, <1>3, <1>4, <1>5, <1>6, <1>7, TailStepIs

(* The next round reads on, and asks again whether the run has ended. *)
LEMMA PollTail == StreamInv /\ TailInv /\ Poll => TailInv'
<1> SUFFICES ASSUME StreamInv, TailInv, Poll PROVE TailInv'
  OBVIOUS
<1> DEFINE ended == LatestRunLog.ended
<1>1. /\ stream.pc = "wait" /\ UNCHANGED <<agents, page, client, runs, faults>>
      /\ stream' = [stream EXCEPT !.pc = "lines", !.sent = FALSE, !.run = Newest, !.ended = ended]
  BY Zenon DEF Poll, Newest
<1>2. Unbroken => (ended => RunEnded)
  BY EndedIs
<1> HIDE DEF ended
<1>3. log' = log /\ runs' = runs /\ page' = page /\ client' = client /\ page.open
  BY <1>1 DEF agents, StreamInv, PageInv
<1>4. /\ stream'.pc = "lines" /\ stream'.ended = ended
      /\ stream'.offset = stream.offset /\ stream'.tail = stream.tail
  <2> HIDE DEF Newest
  <2> QED
    BY <1>1 DEF StreamInv, ViewTypes, StreamState
<1>5. ASSUME Unbroken, page.run \in Runs
      PROVE  ~client'.ended /\ \E m : AtLine(m)'
  <2>1. ~client.ended /\ \E m : AtLine(m)
    BY <1>1, <1>5, Zenon DEF TailInv
  <2>2. PICK m : AtLine(m)
    BY <2>1
  <2>3. \A i : TailAt(i)' = TailAt(i) /\ (GotUpTo(i) => GotUpTo(i)')
    BY <1>3, GotKept
  <2>4. OffsetAfter(page.run, m)' = OffsetAfter(page.run, m)
    BY <1>3 DEF OffsetAfter
  <2>5. AtLine(m)'
    BY <1>3, <1>4, <2>2, <2>3, <2>4 DEF AtLine
  <2> QED
    BY <1>3, <2>1, <2>5
<1> HIDE DEF Unbroken
<1> QED
  BY <1>1, <1>2, <1>3, <1>4, <1>5, TailStepIs

(* A connection that breaks, or a server that gives up, is counted. *)
LEMMA DropTail == StreamInv /\ TailInv /\ (Drop \/ FollowFails) => TailInv'
<1> SUFFICES ASSUME StreamInv, TailInv, Drop \/ FollowFails PROVE TailInv'
  OBVIOUS
<1>1. /\ stream.pc # "off" /\ UNCHANGED page
      /\ faults' = [faults EXCEPT !.drops = @ + 1]
  BY Zenon DEF Drop, FollowFails
<1>2. page'.open
  BY <1>1 DEF StreamInv, PageInv
<1>3. faults' \in [drops : Nat, crashes : Nat] /\ faults'.drops # 0
  BY <1>1 DEF TailInv
<1> QED
  BY <1>2, <1>3, Zenon DEF TailInv, Unbroken

(* Every step keeps TailInv. *)
LEMMA TailStep == StreamInv /\ TailInv /\ [Next]_vars => TailInv'
<1> SUFFICES ASSUME StreamInv, TailInv, [Next]_vars PROVE TailInv'
  OBVIOUS
<1>1. LogTypes' /\ LogKept
  BY LogStep DEF StreamInv
<1>2. faults \in [drops : Nat, crashes : Nat]
  BY DEF TailInv
<1>3. CASE \/ \E r \in Runs : Launch(r) \/ WriteLine(r) \/ Exit(r) \/ Dispose(r)
           \/ StoreReadings \/ StoreIntervals \/ RecordDisposed \/ PruneHistory \/ UNCHANGED vars
  <2>1. UNCHANGED <<viewer, faults>>
    BY <1>3, Zenon DEF Launch, WriteLine, Exit, Dispose, StoreReadings, StoreIntervals, RecordDisposed,
                       PruneHistory, vars
  <2>2. faults' = faults /\ UNCHANGED viewer
    BY <2>1
  <2>3. faults' \in [drops : Nat, crashes : Nat] /\ faults'.drops = faults.drops
    BY <1>2, <2>2
  <2> QED
    BY <1>1, <2>2, <2>3, TailFrame
<1>4. CASE Crash
  <2>1. UNCHANGED viewer /\ faults' = [faults EXCEPT !.crashes = @ + 1]
    BY <1>4, Zenon DEF Crash
  <2>2. faults' \in [drops : Nat, crashes : Nat] /\ faults'.drops = faults.drops
    BY <1>2, <2>1
  <2> QED
    BY <1>1, <2>1, <2>2, TailFrame
<1> QED
  BY <1>3, <1>4, OpenPageTail, ConnectTail, SendLineTail, SendRecordsTail, PollTail, DropTail, Zenon
  DEF Next, Tick, Serve

(* For any logs, plans, filter and crashes: a stream that no broken        *)
(* connection or failed read cut short, on a run without a follow-up, ends *)
(* only when the browser has every event of every line after the page,     *)
(* lines written between the page and the stream, between two rounds and   *)
(* while the run was being disposed of included (wholeLines, followLog,    *)
(* sendLines).                                                             *)
THEOREM StreamMissesNothing == Spec => []NothingMissed
<1>1. TailInv => NothingMissed
  BY DEF TailInv, NothingMissed
<1> QED
  BY <1>1, StreamInit, StreamStep, TailInit, TailStep, PTL DEF Spec

-----------------------------------------------------------------------------
(* Readings and intervals.                                                 *)

(* A window that has readings has a newest one. *)
LEMMA LatestExists ==
    ASSUME NEW t \in Nat, NEW table \in SUBSET Dated(t), NEW n \in table
    PROVE  \E m \in LatestReading(table, n.window) : m.window = n.window /\ n.at <= m.at
<1> DEFINE mine == {r \in table : r.window = n.window}
           ats == {r.at : r \in mine}
<1>1. \A r \in table : r.at \in 0..t
  BY DEF Dated, Reading
<1>2. ats \in SUBSET (0..t)
  BY <1>1
<1>3. n \in mine /\ n.at \in ats
  OBVIOUS
<1>4. PICK top \in ats : \A k \in ats : k <= top
  <2> HIDE DEF ats
  <2> QED
    BY <1>2, <1>3, GreatestBelow
<1>5. PICK m \in mine : m.at = top
  BY <1>4
<1>6. \A s \in table : s.window = n.window => s.at <= m.at
  BY <1>4, <1>5
<1>7. m \in LatestReading(table, n.window) /\ m.window = n.window
  BY <1>5, <1>6 DEF LatestReading
<1>8. n.at <= m.at
  BY <1>6
<1> QED
  BY <1>7, <1>8

(* A rate limit line or a result is dated by a line written before. *)
LEMMA LastDatedType ==
    ASSUME LogTypes, MeterTypes, NEW r \in Runs, NEW i \in 1..Len(log[r])
    PROVE  LastDated(r, i) \in Nat /\ LastDated(r, i) <= clock
<1> DEFINE dated == {j \in 1..i : LineAt(r, j).type \in {"assistant", "user"}}
           last == CHOOSE j \in dated : \A k \in dated : k <= j
<1>1. LastDated(r, i) = IF dated = {} THEN 0 ELSE log[r][last].at
  BY DEF LastDated
<1>2. CASE dated = {}
  BY <1>1, <1>2 DEF LogTypes
<1>3. CASE dated # {}
  <2>1. i \in Nat /\ dated \in SUBSET (0..i)
    BY LogFacts
  <2>2. \E j \in dated : \A k \in dated : k <= j
    <3> HIDE DEF dated
    <3> QED
      BY <2>1, <1>3, GreatestBelow
  <2>3. last \in dated
    <3> HIDE DEF dated
    <3> QED
      BY <2>2
  <2>4. last \in 1..Len(log[r])
    <3> HIDE DEF last
    <3> QED
      BY <2>1, <2>3, LogFacts
  <2> HIDE DEF last, dated
  <2>5. log[r][last].at \in Nat /\ log[r][last].at <= clock
    BY <2>4, LogFacts DEF MeterTypes
  <2> QED
    BY <1>1, <1>3, <2>5
<1> QED
  BY <1>2, <1>3

(* The readings of a log are dated by now. *)
LEMMA ParseReadingsType ==
    ASSUME LogTypes, MeterTypes, NEW r \in Runs
    PROVE  ParseReadings(r) \in Seq(Dated(clock))
<1> DEFINE at == LimitLines(r)
           Of(w) == [k \in DOMAIN at |->
                       [window |-> w, at |-> LastDated(r, at[k]), util |-> LineAt(r, at[k]).util[w]]]
           all == [n \in DOMAIN Windows |-> Of(Windows[n])]
<1>1. at \in Seq(1..Len(log[r]))
  <2>1. Len(log[r]) \in Nat /\ DOMAIN log[r] = 1..Len(log[r])
    BY LogFacts
  <2>2. [i \in DOMAIN log[r] |-> i] \in [1..Len(log[r]) -> 1..Len(log[r])]
    BY <2>1
  <2>3. [i \in DOMAIN log[r] |-> i] \in Seq(1..Len(log[r]))
    BY <2>1, <2>2
  <2> QED
    BY <2>3, OnlyType DEF LimitLines
<1>2. Concat(all) = ParseReadings(r)
  BY Zenon DEF ParseReadings
<1> HIDE DEF at
<1>3. Len(at) \in Nat /\ DOMAIN at = 1..Len(at) /\ \A k \in DOMAIN at : at[k] \in 1..Len(log[r])
  BY <1>1
<1>4. ASSUME NEW w \in Range(Windows) PROVE Of(w) \in Seq(Dated(clock))
  <2>1. ASSUME NEW k \in DOMAIN at
        PROVE  [window |-> w, at |-> LastDated(r, at[k]), util |-> LineAt(r, at[k]).util[w]]
                 \in Dated(clock)
    <3>1. at[k] \in 1..Len(log[r])
      BY <1>3
    <3>2. LineAt(r, at[k]).util[w] \in Nat
      <4>1. LineAt(r, at[k]) \in LogLine
        BY <3>1, LogFacts
      <4> HIDE DEF Range
      <4> QED
        BY <4>1 DEF LogLine
    <3>3. LastDated(r, at[k]) \in Nat /\ LastDated(r, at[k]) <= clock
      BY <3>1, LastDatedType
    <3> QED
      BY <3>2, <3>3 DEF Dated, Reading
  <2>2. Of(w) \in [1..Len(at) -> Dated(clock)]
    BY <2>1, <1>3
  <2> HIDE DEF Of
  <2> QED
    BY <2>2, <1>3
<1>5. Len(Windows) \in Nat /\ DOMAIN Windows = 1..Len(Windows)
  BY TelemetryAssumption
<1>6. \A n \in DOMAIN Windows : Windows[n] \in Range(Windows)
  BY DEF Range
<1>7. all \in [1..Len(Windows) -> Seq(Dated(clock))]
  <2> HIDE DEF Of
  <2> QED
    BY <1>4, <1>5, <1>6
<1>8. all \in Seq(Seq(Dated(clock)))
  <2> HIDE DEF all
  <2> QED
    BY <1>5, <1>7
<1> HIDE DEF all
<1> QED
  BY <1>2, <1>8, ConcatType

(* What Intervals has after some readings: the newest reading of each      *)
(* window, none before the previous ones, and intervals apart from each    *)
(* other, after the previous readings and by the newest.                   *)
Tally(t) == [latest : SUBSET Dated(t), intervals : SUBSET Interval]

TallyOK(a, rows, previous, requests) ==
    /\ \A p, q \in a.latest : p.window = q.window => p.at = q.at
    /\ \A p \in previous : \E q \in a.latest : q.window = p.window /\ p.at <= q.at
    /\ \A x \in a.intervals :
         /\ x.start < x.end
         /\ x.weight = SumWeight(requests, x.start, x.end)
         /\ \A p \in previous : p.window = x.window => p.at <= x.start
         /\ \E q \in a.latest : q.window = x.window /\ x.end <= q.at
         /\ \E k \in DOMAIN rows : rows[k].window = x.window /\ rows[k].at = x.end
    /\ \A x, y \in a.intervals : x # y => Apart(x, y)

(* One more reading. *)
LEMMA NextIntervalTally ==
    ASSUME NEW t \in Nat, NEW rows \in Seq(Dated(t)), NEW previous \in SUBSET Dated(t),
           NEW requests \in SUBSET Request, NEW a \in Tally(t), TallyOK(a, rows, previous, requests),
           NEW k \in DOMAIN rows
    PROVE  /\ NextInterval(a, rows[k], requests) \in Tally(t)
           /\ TallyOK(NextInterval(a, rows[k], requests), rows, previous, requests)
<1> DEFINE r == rows[k]
           prev == {p \in a.latest : p.window = r.window}
           grew == {p \in prev : r.util >= p.util}
           Made(p) == [window |-> r.window, start |-> p.at, end |-> r.at,
                       weight |-> SumWeight(requests, p.at, r.at)]
           made == {Made(p) : p \in grew}
           b == [latest |-> (a.latest \ prev) \cup {r}, intervals |-> a.intervals \cup made]
<1>1. r \in Dated(t) /\ r.window \in Range(Windows) /\ r.at \in Nat
  <2>1. r \in Dated(t)
    OBVIOUS
  <2> HIDE DEF r
  <2> QED
    BY <2>1 DEF Dated, Reading
<1>2. /\ a.latest \in SUBSET Dated(t) /\ a.intervals \in SUBSET Interval
      /\ \A p \in a.latest : p.at \in Nat
      /\ \A p \in previous : p.at \in Nat
      /\ \A x \in a.intervals : x.start \in Nat /\ x.end \in Nat
  BY DEF Tally, Dated, Reading, Interval
<1>3. NextInterval(a, r, requests) = IF \E p \in prev : r.at <= p.at THEN a ELSE b
  BY DEF NextInterval
<1>4. CASE \E p \in prev : r.at <= p.at
  BY <1>3, <1>4
<1>5. CASE ~ \E p \in prev : r.at <= p.at
  <2>1. \A p \in prev : p \in a.latest /\ p.window = r.window /\ p.at \in Nat /\ p.at < r.at
    BY <1>1, <1>2, <1>5
  <2>2. \A q \in a.latest : q.window = r.window => q \in prev
    OBVIOUS
  <2>3. \A q \in a.latest : q \notin prev => q.window # r.window
    OBVIOUS
  <2>4. \A p \in grew : p \in prev
    OBVIOUS
  <2>5. prev \subseteq a.latest
    OBVIOUS
  <2> HIDE DEF r, prev, grew
  <2>6. ASSUME NEW p \in grew
        PROVE  /\ Made(p) \in Interval /\ Made(p).window = r.window
               /\ Made(p).start = p.at /\ Made(p).end = r.at
               /\ Made(p).weight = SumWeight(requests, Made(p).start, Made(p).end)
               /\ Made(p).start < Made(p).end
    <3>1. SumWeight(requests, p.at, r.at) \in SUBSET Request
      BY DEF SumWeight
    <3>2. p.at \in Nat /\ p.at < r.at
      BY <2>1, <2>4
    <3> QED
      BY <1>1, <3>1, <3>2 DEF Interval
  <2>7. ASSUME NEW x \in made
        PROVE  /\ x \in Interval /\ x.window = r.window /\ x.end = r.at
               /\ x.weight = SumWeight(requests, x.start, x.end) /\ x.start < x.end
               /\ \E p \in prev : x = Made(p) /\ x.start = p.at
    <3>1. PICK p \in grew : x = Made(p)
      OBVIOUS
    <3> HIDE DEF Made
    <3> QED
      BY <3>1, <2>4, <2>6
  <2>8. \A x, y \in made : x = y
    <3> TAKE x \in made, y \in made
    <3>1. PICK p \in prev : x = Made(p)
      BY <2>7
    <3>2. PICK q \in prev : y = Made(q)
      BY <2>7
    <3>3. p.at = q.at
      BY <2>1 DEF TallyOK
    <3> QED
      BY <3>1, <3>2, <3>3
  <2> HIDE DEF Made, made
  <2>9. b \in Tally(t)
    <3>1. \A x \in made : x \in Interval
      BY <2>7
    <3>2. (a.latest \ prev) \cup {r} \in SUBSET Dated(t)
      BY <1>1, <1>2
    <3>3. a.intervals \cup made \in SUBSET Interval
      BY <1>2, <3>1
    <3> QED
      BY <3>2, <3>3 DEF Tally
  <2>10. b.latest = (a.latest \ prev) \cup {r} /\ b.intervals = a.intervals \cup made
    OBVIOUS
  <2> HIDE DEF b
  <2>11. \A p, q \in b.latest : p.window = q.window => p.at = q.at
    BY <2>2, <2>10 DEF TallyOK
  <2>12. ASSUME NEW q \in a.latest
         PROVE  \E n \in b.latest : n.window = q.window /\ q.at <= n.at
    <3>1. CASE q \in prev
      <4>1. r \in b.latest /\ r.window = q.window /\ q.at <= r.at
        BY <3>1, <1>1, <2>1, <2>10
      <4> QED
        BY <4>1
    <3>2. CASE q \notin prev
      <4>1. q \in b.latest /\ q.at <= q.at
        BY <3>2, <1>2, <2>10
      <4> QED
        BY <4>1
    <3> QED
      BY <3>1, <3>2
  <2>13. ASSUME NEW p \in previous
         PROVE  \E q \in b.latest : q.window = p.window /\ p.at <= q.at
    <3>1. PICK q \in a.latest : q.window = p.window /\ p.at <= q.at
      BY DEF TallyOK
    <3>2. PICK n \in b.latest : n.window = q.window /\ q.at <= n.at
      BY <2>12
    <3>3. n.at \in Nat
      BY <1>1, <1>2, <2>10
    <3>4. p.at <= n.at
      BY <3>1, <3>2, <3>3, <1>2
    <3> QED
      BY <3>1, <3>2, <3>4
  <2>14. ASSUME NEW x \in a.intervals
         PROVE  /\ x.start < x.end
                /\ x.weight = SumWeight(requests, x.start, x.end)
                /\ \A p \in previous : p.window = x.window => p.at <= x.start
                /\ \E q \in b.latest : q.window = x.window /\ x.end <= q.at
                /\ \E j \in DOMAIN rows : rows[j].window = x.window /\ rows[j].at = x.end
    <3>1. PICK q \in a.latest : q.window = x.window /\ x.end <= q.at
      BY DEF TallyOK
    <3>2. PICK n \in b.latest : n.window = q.window /\ q.at <= n.at
      BY <2>12
    <3>3. n.at \in Nat
      BY <1>1, <1>2, <2>10
    <3>4. n.window = x.window /\ x.end <= n.at
      BY <3>1, <3>2, <3>3, <1>2
    <3>5. \E m \in b.latest : m.window = x.window /\ x.end <= m.at
      BY <3>4
    <3> QED
      BY <3>5 DEF TallyOK
  <2>15. ASSUME NEW x \in made
         PROVE  /\ x.start < x.end
                /\ x.weight = SumWeight(requests, x.start, x.end)
                /\ \A p \in previous : p.window = x.window => p.at <= x.start
                /\ \E q \in b.latest : q.window = x.window /\ x.end <= q.at
                /\ \E j \in DOMAIN rows : rows[j].window = x.window /\ rows[j].at = x.end
    <3>1. PICK p \in prev : x.start = p.at
      BY <2>7
    <3>2. ASSUME NEW o \in previous, o.window = x.window PROVE o.at <= x.start
      <4>1. PICK q \in a.latest : q.window = o.window /\ o.at <= q.at
        BY DEF TallyOK
      <4>2. q.at = p.at
        BY <4>1, <3>1, <3>2, <2>1, <2>7 DEF TallyOK
      <4> QED
        BY <4>1, <4>2, <3>1
    <3>3. r \in b.latest /\ r.window = x.window /\ x.end <= r.at
      BY <1>1, <2>7, <2>10
    <3>4. \E q \in b.latest : q.window = x.window /\ x.end <= q.at
      BY <3>3
    <3>5. \E j \in DOMAIN rows : rows[j].window = x.window /\ rows[j].at = x.end
      BY <2>7 DEF r
    <3> QED
      BY <2>7, <3>2, <3>4, <3>5
  <2>16. ASSUME NEW x \in a.intervals, NEW y \in made PROVE Apart(x, y) /\ Apart(y, x)
    <3> SUFFICES ASSUME x.window = y.window PROVE x.end <= y.start
      BY DEF Apart
    <3>1. PICK p \in prev : y.start = p.at
      BY <2>7
    <3>2. PICK q \in a.latest : q.window = x.window /\ x.end <= q.at
      BY DEF TallyOK
    <3>3. q.at = p.at
      BY <3>2, <2>1, <2>7 DEF TallyOK
    <3> QED
      BY <3>1, <3>2, <3>3
  <2>17. \A x, y \in b.intervals : x # y => Apart(x, y)
    <3> SUFFICES ASSUME NEW x \in b.intervals, NEW y \in b.intervals, x # y PROVE Apart(x, y)
      OBVIOUS
    <3>1. CASE x \in a.intervals /\ y \in a.intervals
      BY <3>1 DEF TallyOK
    <3>2. CASE x \in made /\ y \in made
      BY <3>2, <2>8
    <3> QED
      BY <3>1, <3>2, <2>10, <2>16
  <2>18. TallyOK(b, rows, previous, requests)
    <3>1. \A x \in b.intervals : x \in a.intervals \/ x \in made
      BY <2>10
    <3> QED
      BY <2>11, <2>13, <2>14, <2>15, <2>17, <3>1, Zenon DEF TallyOK
  <2> QED
    BY <1>3, <1>5, <2>9, <2>18, Zenon DEF r
<1> QED
  BY <1>4, <1>5

(* The intervals made of a run's readings. *)
LEMMA IntervalsTally ==
    ASSUME NEW t \in Nat, NEW rows \in Seq(Dated(t)), NEW previous \in SUBSET Dated(t),
           NEW requests \in SUBSET Request,
           \A p, q \in previous : p.window = q.window => p.at = q.at
    PROVE  \E a \in Tally(t) : /\ Intervals(rows, previous, requests) = a.intervals
                               /\ TallyOK(a, rows, previous, requests)
<1> DEFINE Good == {a \in Tally(t) : TallyOK(a, rows, previous, requests)}
           start == [latest |-> previous, intervals |-> {}]
           Body(g) == [i \in 0..Len(rows) |->
                         IF i = 0 THEN start
                         ELSE CHOOSE a \in {NextInterval(before, rows[i], requests) : before \in {g[i - 1]}} : TRUE]
           f == CHOOSE g : g = Body(g)
           step == [i \in 1..Len(rows) |-> [x \in Good |-> NextInterval(x, rows[i], requests)]]
<1>0. Intervals(rows, previous, requests) = f[Len(rows)].intervals
  BY Zenon DEF Intervals
<1>1. Len(rows) \in Nat /\ DOMAIN rows = 1..Len(rows)
  OBVIOUS
<1>2. ASSUME NEW x \in Good, NEW i \in 1..Len(rows)
      PROVE  NextInterval(x, rows[i], requests) \in Good
  <2>1. x \in Tally(t) /\ TallyOK(x, rows, previous, requests) /\ i \in DOMAIN rows
    BY <1>1
  <2>2. /\ NextInterval(x, rows[i], requests) \in Tally(t)
        /\ TallyOK(NextInterval(x, rows[i], requests), rows, previous, requests)
    BY <2>1, NextIntervalTally
  <2> QED
    BY <2>2, Zenon
<1>3. start \in Good
  <2>1. start \in Tally(t)
    BY DEF Tally
  <2>2. \A p \in previous : p.at <= p.at
    BY DEF Dated, Reading
  <2>3. start.latest = previous /\ start.intervals = {}
    OBVIOUS
  <2> HIDE DEF start
  <2>4. TallyOK(start, rows, previous, requests)
    BY <2>2, <2>3 DEF TallyOK
  <2> QED
    BY <2>1, <2>4, Zenon
<1>4. \A x \in Good : x \in Tally(t) /\ TallyOK(x, rows, previous, requests)
  BY Zenon
<1> HIDE DEF Good, start
<1>5. step \in [1..Len(rows) -> [Good -> Good]]
  BY <1>2
<1>6. PICK g \in [0..Len(rows) -> Good] : Iterates(g, Len(rows), start, step)
  <2> DEFINE n == Len(rows)
  <2>1. n \in Nat /\ step \in [1..n -> [Good -> Good]]
    <3> HIDE DEF step
    <3> QED
      BY <1>1, <1>5
  <2>2. \E g \in [0..n -> Good] : Iterates(g, n, start, step)
    <3> HIDE DEF n, step
    <3> QED
      BY <2>1, <1>3, Recursion
  <2> QED
    BY <2>2
<1>7. \A x, e : (CHOOSE a \in {NextInterval(before, e, requests) : before \in {x}} : TRUE)
                  = NextInterval(x, e, requests)
  <2> TAKE x, e
  <2>1. {NextInterval(before, e, requests) : before \in {x}} = {NextInterval(x, e, requests)}
    OBVIOUS
  <2> QED
    BY <2>1, ChooseOnly, Zenon
<1>8. g = Body(g)
  <2>1. \A i \in 1..Len(rows) : i - 1 \in 0..Len(rows) /\ i # 0
    BY <1>1
  <2>2. ASSUME NEW i \in 1..Len(rows)
        PROVE  g[i] = NextInterval(g[i - 1], rows[i], requests)
    BY <1>6, <2>1 DEF Iterates
  <2>3. \A i \in 0..Len(rows) : i = 0 \/ i \in 1..Len(rows)
    BY <1>1
  <2>4. ASSUME NEW i \in 0..Len(rows) PROVE g[i] = Body(g)[i]
    <3>1. CASE i = 0
      BY <3>1, <1>6 DEF Iterates
    <3>2. CASE i \in 1..Len(rows)
      <4>1. Body(g)[i] = CHOOSE a \in {NextInterval(before, rows[i], requests) : before \in {g[i - 1]}} : TRUE
        BY <3>2, <2>1
      <4> QED
        BY <4>1, <3>2, <2>2, <1>7, Zenon
    <3> QED
      BY <2>3, <3>1, <3>2
  <2>5. g = [i \in 0..Len(rows) |-> g[i]] /\ Body(g) = [i \in 0..Len(rows) |-> Body(g)[i]]
    BY Zenon
  <2> HIDE DEF Body
  <2> QED
    BY <2>4, <2>5
<1>9. f = Body(f)
  <2> HIDE DEF Body
  <2> QED
    BY <1>8, Zenon
<1>10. \A i \in 0..Len(rows) : f[i] \in Good
  <2> HIDE DEF f
  <2>0. 0 \in 0..Len(rows) /\ \A i \in 1..Len(rows) : i \in 0..Len(rows) /\ i # 0
    BY <1>1
  <2>1. f[0] \in Good
    <3>1. Body(f)[0] = start
      BY <2>0
    <3> QED
      BY <1>3, <1>9, <3>1, Zenon
  <2>2. ASSUME NEW i \in 1..Len(rows), f[i - 1] \in Good
        PROVE  f[i] \in Good
    <3>1. Body(f)[i] = CHOOSE a \in {NextInterval(before, rows[i], requests) : before \in {f[i - 1]}} : TRUE
      BY <2>0
    <3>2. Body(f)[i] = NextInterval(f[i - 1], rows[i], requests)
      BY <3>1, <1>7, Zenon
    <3>3. NextInterval(f[i - 1], rows[i], requests) \in Good
      BY <2>2, <1>2
    <3> QED
      BY <1>9, <3>2, <3>3, Zenon
  <2> QED
    BY <2>1, <2>2, <1>1, BoundedInduction
<1> HIDE DEF f
<1>11. f[Len(rows)] \in Good
  BY <1>1, <1>10
<1> QED
  BY <1>0, <1>4, <1>11, Zenon

(* A request is counted at the first line reporting it. *)
Counted(r, i) ==
    /\ LineAt(r, i).type = "assistant" /\ LineAt(r, i).req # ""
    /\ \A j \in 1..(i - 1) : LineAt(r, j).req # LineAt(r, i).req
RequestAt(r, i) == [run |-> r, req |-> LineAt(r, i).req, at |-> log[r][i].at]

RequestsKnown ==
    \A r, q : q \in SingleRequests(r) <=>
                \E i \in DOMAIN log[r] : Counted(r, i) /\ q = RequestAt(r, i)

(* The requests of a transcript are those of the lines that count. *)
LEMMA RequestsAre == RequestsKnown
<1> DEFINE Of(r) == {RequestAt(r, i) : i \in {i \in DOMAIN log[r] : Counted(r, i)}}
<1>1. \A r : SingleRequests(r) = Of(r)
  BY Zenon DEF SingleRequests, Counted, RequestAt
<1>2. \A q, r : q \in Of(r) <=> \E i \in DOMAIN log[r] : Counted(r, i) /\ q = RequestAt(r, i)
  OBVIOUS
<1> HIDE DEF Of
<1> QED
  BY <1>1, <1>2, Zenon DEF RequestsKnown

(* The results of a transcript, by line. *)
LEMMA ResultsAre ==
    ASSUME LogTypes, NEW r \in Runs
    PROVE  /\ Len(log[r]) \in Nat /\ DOMAIN log[r] = 1..Len(log[r])
           /\ \A k : k \in Results(r) <=> k \in 1..Len(log[r]) /\ LineAt(r, k).type = "result"
<1>1. Len(log[r]) \in Nat /\ DOMAIN log[r] = 1..Len(log[r])
  BY DEF LogTypes
<1> QED
  BY <1>1 DEF Results

(* A transcript yields its requests or the total of one of its results. *)
LEMMA UsageIs ==
    ASSUME LogTypes, NEW r \in Runs
    PROVE  \/ ParseTranscriptUsage(r) = SingleRequests(r)
           \/ \E k \in Results(r) : ParseTranscriptUsage(r) = {Settled(r, k)}
<1>1. CASE Results(r) = {}
  BY <1>1 DEF ParseTranscriptUsage
<1>2. CASE Results(r) # {}
  <2> DEFINE last == CHOOSE i \in Results(r) : \A j \in Results(r) : j <= i
  <2>1. Len(log[r]) \in Nat /\ Results(r) \in SUBSET (0..Len(log[r]))
    BY ResultsAre
  <2>2. \E i \in Results(r) : \A j \in Results(r) : j <= i
    BY <2>1, <1>2, GreatestBelow
  <2>3. last \in Results(r)
    BY <2>2
  <2>4. ParseTranscriptUsage(r) = {Settled(r, last)}
    BY <1>2 DEF ParseTranscriptUsage
  <2> QED
    BY <2>3, <2>4
<1> QED
  BY <1>1, <1>2

(* What a transcript yields is well formed, and of its run. *)
LEMMA UsageType ==
    ASSUME LogTypes, MeterTypes, NEW r \in Runs, NEW q \in ParseTranscriptUsage(r)
    PROVE  q \in Request /\ q.run = r
<1>1. CASE q \in SingleRequests(r)
  <2>1. PICK i \in DOMAIN log[r] : q = RequestAt(r, i)
    BY <1>1, RequestsAre, Zenon DEF RequestsKnown
  <2>2. LineAt(r, i) \in LogLine /\ log[r][i].at \in Nat
    BY <2>1, LogFacts
  <2>3. LineAt(r, i).req \in STRING
    BY <2>2 DEF LogLine
  <2> QED
    BY <2>1, <2>2, <2>3 DEF RequestAt, Request
<1>2. CASE \E k \in Results(r) : q = Settled(r, k)
  <2>1. PICK k \in Results(r) : q = Settled(r, k)
    BY <1>2
  <2>2. LastDated(r, k) \in Nat
    BY ResultsAre, LastDatedType
  <2> QED
    BY <2>1, <2>2 DEF Settled, Request
<1> QED
  BY <1>1, <1>2, UsageIs

(* The requests loaded are well formed. *)
LEMMA RequestsType ==
    ASSUME LogTypes, MeterTypes
    PROVE  LoadRequests \in SUBSET Request
  BY UsageType DEF LoadRequests

(* What is weighed of the requests loaded is, of each transcript, its      *)
(* requests or its total.                                                  *)
LEMMA WeighsLoaded ==
    ASSUME LogTypes, MeterTypes, NEW x, x.weight = SumWeight(LoadRequests, x.start, x.end)
    PROVE  Weighs(x)
<1> SUFFICES ASSUME NEW r \in Runs
             PROVE  \/ {q \in x.weight : q.run = r} = SumWeight(SingleRequests(r), x.start, x.end)
                    \/ \E k \in Results(r) :
                         {q \in x.weight : q.run = r} = SumWeight({Settled(r, k)}, x.start, x.end)
  BY Zenon DEF Weighs
<1>1. \A q : q \in LoadRequests <=> \E s \in Runs : q \in ParseTranscriptUsage(s)
  BY DEF LoadRequests
<1>2. \A s \in Runs : \A q \in ParseTranscriptUsage(s) : q.run = s
  BY UsageType
<1>3. \A q : q \in LoadRequests /\ q.run = r <=> q \in ParseTranscriptUsage(r)
  BY <1>1, <1>2
<1>4. {q \in x.weight : q.run = r} = SumWeight(ParseTranscriptUsage(r), x.start, x.end)
  BY <1>3 DEF SumWeight
<1> QED
  BY <1>4, UsageIs

(* Lines keep their dates, and results what they report. *)
LEMMA SettledKept ==
    ASSUME LogTypes, LogTypes', LogKept, NEW r \in Runs, NEW k \in Results(r)
    PROVE  k \in Results(r)' /\ Settled(r, k)' = Settled(r, k)
<1>1. \A i : LineAt(r, i)' = LineAt(r, i)
  BY DEF LineAt, LogKept
<1>2. k \in 1..Len(log[r]) /\ Len(log[r]) \in Nat /\ LineAt(r, k).type = "result"
  BY ResultsAre
<1>3. /\ DOMAIN log'[r] = 1..Len(log'[r]) /\ Len(log'[r]) \in Nat /\ Len(log[r]) <= Len(log'[r])
      /\ \A i \in 1..Len(log[r]) : log'[r][i] = log[r][i]
  BY DEF LogTypes, LogKept
<1>4. k \in Results(r)'
  BY <1>1, <1>2, <1>3 DEF Results
<1> DEFINE dated == {j \in 1..k : LineAt(r, j).type \in {"assistant", "user"}}
           last == CHOOSE j \in dated : \A i \in dated : i <= j
<1>5. LastDated(r, k) = IF dated = {} THEN 0 ELSE log[r][last].at
  BY DEF LastDated
<1>6. LastDated(r, k)' = IF dated = {} THEN 0 ELSE log'[r][last].at
  <2> DEFINE dating == {j \in 1..k : LineAt(r, j)'.type \in {"assistant", "user"}}
  <2>1. LastDated(r, k)' = IF dating = {} THEN 0
                           ELSE log'[r][CHOOSE j \in dating : \A i \in dating : i <= j].at
    BY DEF LastDated
  <2>2. dating = dated
    BY <1>1
  <2> HIDE DEF dating, dated
  <2> QED
    BY <2>1, <2>2
<1>7. ASSUME dated # {} PROVE last \in 1..Len(log[r])
  <2>1. k \in Nat /\ dated \in SUBSET (0..k)
    BY <1>2
  <2>2. \E j \in dated : \A i \in dated : i <= j
    <3> HIDE DEF dated
    <3> QED
      BY <2>1, <1>7, GreatestBelow
  <2>3. last \in dated
    <3> HIDE DEF dated
    <3> QED
      BY <2>2
  <2>4. last \in 1..k
    <3> HIDE DEF last
    <3> QED
      BY <2>3
  <2> HIDE DEF last
  <2> QED
    BY <2>4, <1>2
<1> HIDE DEF last, dated
<1>8. LastDated(r, k)' = LastDated(r, k)
  BY <1>3, <1>5, <1>6, <1>7
<1> QED
  BY <1>4, <1>8 DEF Settled

(* A transcript keeps its requests, and those new lines report are as late *)
(* as the lines.                                                           *)
LEMMA RequestsKept ==
    ASSUME LogTypes, LogTypes', LogKept, NEW r \in Runs, NEW t,
           \A k \in (DOMAIN log'[r]) \ DOMAIN log[r] : ~(log'[r][k].at < t)
    PROVE  \A q : /\ q \in SingleRequests(r) => q \in SingleRequests(r)'
                  /\ q \in SingleRequests(r)' => q \in SingleRequests(r) \/ ~(q.at < t)
<1>1. \A s \in Runs : \A i : LineAt(s, i)' = LineAt(s, i)
  BY DEF LineAt, LogKept
<1>2. \A s \in Runs : \A i : Counted(s, i)' <=> Counted(s, i)
  BY <1>1, Zenon DEF Counted
<1>3. ASSUME NEW i \in DOMAIN log[r] PROVE i \in DOMAIN log'[r] /\ RequestAt(r, i)' = RequestAt(r, i)
  <2>1. /\ i \in 1..Len(log[r]) /\ Len(log[r]) \in Nat /\ Len(log'[r]) \in Nat
        /\ DOMAIN log'[r] = 1..Len(log'[r])
    BY DEF LogTypes
  <2>2. Len(log[r]) <= Len(log'[r]) /\ log'[r][i] = log[r][i]
    BY <2>1 DEF LogKept
  <2>3. i \in DOMAIN log'[r]
    BY <2>1, <2>2
  <2> QED
    BY <1>1, <2>2, <2>3 DEF RequestAt
<1>4. \A q : q \in SingleRequests(r)' <=>
               \E i \in DOMAIN log'[r] : Counted(r, i)' /\ q = RequestAt(r, i)'
  <2>1. RequestsKnown'
    BY RequestsAre, PTL
  <2> QED
    BY <2>1, Zenon DEF RequestsKnown
<1> TAKE q
<1>5. ASSUME q \in SingleRequests(r) PROVE q \in SingleRequests(r)'
  <2>1. PICK i \in DOMAIN log[r] : Counted(r, i) /\ q = RequestAt(r, i)
    BY <1>5, RequestsAre, Zenon DEF RequestsKnown
  <2> QED
    BY <2>1, <1>2, <1>3, <1>4, Zenon
<1>6. ASSUME q \in SingleRequests(r)' PROVE q \in SingleRequests(r) \/ ~(q.at < t)
  <2>1. PICK i \in DOMAIN log'[r] : Counted(r, i)' /\ q = RequestAt(r, i)'
    BY <1>4, <1>6, Zenon
  <2>2. CASE i \in DOMAIN log[r]
    BY <2>1, <2>2, <1>2, <1>3, RequestsAre, Zenon DEF RequestsKnown
  <2>3. CASE i \notin DOMAIN log[r]
    <3>1. q.at = log'[r][i].at
      BY <2>1 DEF RequestAt
    <3> QED
      BY <2>3, <3>1
  <2> QED
    BY <2>2, <2>3
<1> QED
  BY <1>5, <1>6

(* An interval that new lines all follow goes on to weigh what it should. *)
LEMMA WeighsKept ==
    ASSUME LogTypes, LogTypes', LogKept, NEW x, Weighs(x),
           \A r \in Runs : \A k \in (DOMAIN log'[r]) \ DOMAIN log[r] : ~(log'[r][k].at < x.end)
    PROVE  Weighs(x)'
<1> SUFFICES ASSUME NEW r \in Runs
             PROVE  \/ {q \in x.weight : q.run = r} = SumWeight(SingleRequests(r)', x.start, x.end)
                    \/ \E k \in Results(r)' :
                         {q \in x.weight : q.run = r} = SumWeight({Settled(r, k)'}, x.start, x.end)
  BY Zenon DEF Weighs, SumWeight
<1> DEFINE of == {q \in x.weight : q.run = r}
<1>1. \/ of = SumWeight(SingleRequests(r), x.start, x.end)
      \/ \E k \in Results(r) : of = SumWeight({Settled(r, k)}, x.start, x.end)
  BY Zenon DEF Weighs
<1> HIDE DEF of
<1>2. SumWeight(SingleRequests(r)', x.start, x.end) = SumWeight(SingleRequests(r), x.start, x.end)
  <2>1. \A q : /\ q \in SingleRequests(r) => q \in SingleRequests(r)'
               /\ q \in SingleRequests(r)' => q \in SingleRequests(r) \/ ~(q.at < x.end)
    BY RequestsKept
  <2> QED
    BY <2>1 DEF SumWeight
<1>3. \A k \in Results(r) : k \in Results(r)' /\ Settled(r, k)' = Settled(r, k)
  BY SettledKept
<1>4. CASE of = SumWeight(SingleRequests(r), x.start, x.end)
  BY <1>2, <1>4 DEF of
<1>5. CASE \E k \in Results(r) : of = SumWeight({Settled(r, k)}, x.start, x.end)
  <2>1. PICK k \in Results(r) : of = SumWeight({Settled(r, k)}, x.start, x.end)
    BY <1>5
  <2>2. k \in Results(r)' /\ of = SumWeight({Settled(r, k)'}, x.start, x.end)
    BY <2>1, <1>3
  <2> QED
    BY <2>2, Zenon DEF of
<1> QED
  BY <1>1, <1>4, <1>5

(* Every reading of one table has one of its window as new in another. *)
Covers(table, other) == \A n \in table : \E m \in other : m.window = n.window /\ n.at <= m.at

(* The first state. *)
LEMMA MeterInit == Init => MeterInv
<1> SUFFICES ASSUME Init PROVE MeterInv
  OBVIOUS
<1>1. LogTypes /\ LogsGrow
  BY LogInit
<1>2. /\ clock = 0 /\ log = [r \in Runs |-> <<>>] /\ loop = Idle /\ readings = {} /\ intervals = {}
  BY DEF Init
<1>3. \A r \in Runs : Len(log[r]) = 0
  BY <1>2
<1>4. loop \in LoopState /\ loop.intervals = {}
  BY <1>2 DEF LoopState, Idle, Runs
<1>5. MeterTypes
  BY <1>2, <1>3, <1>4 DEF MeterTypes, LoopState
<1>6. Known = {}
  BY <1>2, <1>4 DEF Known
<1>7. IntervalsInv
  BY <1>6 DEF IntervalsInv
<1> QED
  BY <1>1, <1>5, <1>7 DEF MeterInv

(* A step that writes no line, loses no newest reading and makes no        *)
(* interval.                                                               *)
LEMMA MeterFrame ==
    ASSUME MeterInv, LogTypes', LogsGrow', LogKept, UNCHANGED agents,
           readings' \in SUBSET Dated(clock), Covers(readings, readings'),
           loop' \in LoopState, intervals' \in SUBSET Interval, Known' \in SUBSET Known
    PROVE  MeterInv'
<1>1. log' = log /\ clock' = clock
  BY DEF agents
<1>2. MeterTypes'
  BY <1>1 DEF MeterInv, MeterTypes, LoopState
<1>3. ASSUME NEW i \in Known' PROVE i.start < i.end /\ Weighs(i)
  BY <1>3 DEF MeterInv, IntervalsInv
<1>4. ASSUME NEW i \in Known' PROVE i.start < i.end /\ Weighs(i)'
  BY <1>1, <1>3, WeighsKept DEF MeterInv
<1>5. ASSUME NEW i \in Known' PROVE \E n \in readings' : n.window = i.window /\ i.end <= n.at
  <2>1. i \in Interval /\ i.end \in Nat
    BY DEF MeterInv, MeterTypes, Known, Interval, LoopState
  <2>2. PICK n \in readings : n.window = i.window /\ i.end <= n.at
    BY DEF MeterInv, IntervalsInv
  <2>3. PICK m \in readings' : m.window = n.window /\ n.at <= m.at
    BY DEF Covers
  <2>4. n.at \in Nat /\ m.at \in Nat
    BY DEF MeterInv, MeterTypes, Dated, Reading
  <2>5. m.window = i.window /\ i.end <= m.at
    BY <2>1, <2>2, <2>3, <2>4
  <2> QED
    BY <2>5
<1>6. \A i, j \in Known' : i # j => Apart(i, j)
  BY DEF MeterInv, IntervalsInv
<1>7. IntervalsInv'
  BY <1>4, <1>5, <1>6, Zenon DEF IntervalsInv, Apart, Weighs
<1> QED
  BY <1>2, <1>7 DEF MeterInv

(* A line is written: the intervals are all before it. *)
LEMMA MeterWrite ==
    ASSUME MeterInv, NEW w \in Runs, WriteLine(w)
    PROVE  MeterInv'
<1>0. LogTypes /\ LogsGrow /\ MeterTypes /\ IntervalsInv
  BY DEF MeterInv
<1>1. /\ LogTypes' /\ LogsGrow' /\ LogKept /\ Len(log'[w]) = Len(log[w]) + 1
      /\ log'[w][Len(log[w]) + 1].at = clock + 1
      /\ \A q \in Runs \ {w} : log'[q] = log[q]
  BY <1>0, LogWrite
<1>2. clock' = clock + 1 /\ UNCHANGED <<readings, intervals, loop>>
  BY Zenon DEF WriteLine, tables
<1>3. clock \in Nat /\ clock' \in Nat
  BY <1>0, <1>2 DEF LogTypes
<1>4. ASSUME NEW r \in Runs, NEW i \in 1..Len(log'[r]) PROVE log'[r][i].at <= clock'
  <2>1. Len(log[r]) \in Nat /\ \A k \in 1..Len(log[r]) : log[r][k].at \in Nat /\ log[r][k].at <= clock
    BY <1>0, LogFacts DEF MeterTypes
  <2>2. CASE i \in 1..Len(log[r])
    <3>1. log'[r][i] = log[r][i]
      BY <1>1, <2>2 DEF LogKept
    <3> QED
      BY <3>1, <2>1, <2>2, <1>2, <1>3
  <2>3. CASE i \notin 1..Len(log[r])
    <3>1. r = w
      BY <1>1, <2>3
    <3>2. i = Len(log[w]) + 1
      BY <3>1, <1>1, <2>1, <2>3
    <3> QED
      BY <3>1, <3>2, <1>1, <1>2, <1>3
  <2> QED
    BY <2>2, <2>3
<1>5. readings' \in SUBSET Dated(clock')
  BY <1>0, <1>2, <1>3 DEF MeterTypes, Dated, Reading
<1>6. MeterTypes'
  BY <1>0, <1>2, <1>4, <1>5 DEF MeterTypes
<1>7. ASSUME NEW i \in Known PROVE Weighs(i)'
  <2>1. i \in Interval /\ i.end \in Nat
    BY <1>0 DEF MeterTypes, Known, Interval, LoopState
  <2>2. PICK n \in readings : i.end <= n.at
    BY <1>0 DEF IntervalsInv
  <2>3. n.at \in Nat /\ n.at <= clock
    BY <1>0 DEF MeterTypes, Dated, Reading
  <2>4. ~(clock + 1 < i.end)
    BY <2>1, <2>2, <2>3, <1>3
  <2>5. ASSUME NEW r \in Runs, NEW k \in (DOMAIN log'[r]) \ DOMAIN log[r] PROVE log'[r][k].at = clock + 1
    <3>1. r = w
      BY <1>1, <2>5
    <3>2. /\ DOMAIN log[w] = 1..Len(log[w]) /\ DOMAIN log'[w] = 1..Len(log'[w])
          /\ Len(log[w]) \in Nat
      BY <1>0, <1>1 DEF LogTypes
    <3>3. k = Len(log[w]) + 1
      BY <3>1, <3>2, <1>1
    <3> QED
      BY <3>1, <3>3, <1>1
  <2>6. Weighs(i)
    BY <1>0 DEF IntervalsInv
  <2>7. \A r \in Runs : \A k \in (DOMAIN log'[r]) \ DOMAIN log[r] : ~(log'[r][k].at < i.end)
    BY <2>4, <2>5
  <2> QED
    BY <1>0, <1>1, <2>6, <2>7, WeighsKept
<1>8. Known' = Known
  BY <1>2 DEF Known
<1>9. IntervalsInv'
  BY <1>0, <1>2, <1>7, <1>8, Zenon DEF IntervalsInv, Apart, Weighs
<1> QED
  BY <1>1, <1>6, <1>9 DEF MeterInv

(* The readings of a batch are stored, or were: each key once. *)
LEMMA ReadingsRecorded ==
    ASSUME NEW t \in Nat, NEW table \in SUBSET Dated(t), NEW rows \in Seq(Dated(t))
    PROVE  /\ table \in SUBSET RecordReadings(table, rows)
           /\ RecordReadings(table, rows) \in SUBSET Dated(t)
           /\ \A k \in DOMAIN rows : \E n \in RecordReadings(table, rows) :
                n.window = rows[k].window /\ n.at = rows[k].at
<1> DEFINE First(k) == \A x \in table \cup {rows[j] : j \in 1..(k - 1)} :
                         ~(x.window = rows[k].window /\ x.at = rows[k].at)
<1>0. RecordReadings(table, rows) = table \cup {rows[k] : k \in {k \in DOMAIN rows : First(k)}}
  BY DEF RecordReadings
<1>1. Len(rows) \in Nat /\ DOMAIN rows = 1..Len(rows) /\ \A k \in DOMAIN rows : rows[k] \in Dated(t)
  OBVIOUS
<1>2. table \in SUBSET RecordReadings(table, rows)
  BY <1>0
<1>3. RecordReadings(table, rows) \in SUBSET Dated(t)
  <2> HIDE DEF First
  <2> QED
    BY <1>0, <1>1
<1>4. ASSUME NEW k \in DOMAIN rows
      PROVE  \E n \in RecordReadings(table, rows) : n.window = rows[k].window /\ n.at = rows[k].at
  <2>1. CASE \E x \in table : x.window = rows[k].window /\ x.at = rows[k].at
    BY <2>1, <1>2
  <2>2. CASE ~\E x \in table : x.window = rows[k].window /\ x.at = rows[k].at
    <3> DEFINE same == {j \in 1..Len(rows) : rows[j].window = rows[k].window /\ rows[j].at = rows[k].at}
    <3>1. same \in SUBSET Nat /\ k \in same
      BY <1>1
    <3>2. PICK j \in same : \A i \in same : j <= i
      <4> HIDE DEF same
      <4> QED
        BY <3>1, LeastNatural
    <3>3. First(j)
      <4>1. ASSUME NEW i \in 1..(j - 1)
            PROVE  ~(rows[i].window = rows[j].window /\ rows[i].at = rows[j].at)
        <5>1. i \in 1..Len(rows) /\ ~(j <= i)
          BY <3>1, <3>2, <1>1
        <5>2. i \notin same
          BY <5>1, <3>2
        <5> QED
          BY <5>1, <5>2, <3>2
      <4> QED
        BY <4>1, <2>2, <3>2
    <3>4. rows[j] \in RecordReadings(table, rows)
      BY <1>0, <1>1, <3>2, <3>3
    <3> QED
      BY <3>2, <3>4
  <2> QED
    BY <2>1, <2>2
<1> QED
  BY <1>2, <1>3, <1>4

(* The newest readings of the windows. *)
NewestReadings == UNION {LatestReading(readings, w) : w \in Range(Windows)}

(* They are at most one time per window, and cover every reading. *)
LEMMA NewestReadingsFacts ==
    ASSUME MeterInv
    PROVE  /\ NewestReadings \in SUBSET Dated(clock)
           /\ \A p, q \in NewestReadings : p.window = q.window => p.at = q.at
           /\ Covers(readings, NewestReadings)
<1>1. clock \in Nat /\ readings \in SUBSET Dated(clock)
  BY DEF MeterInv, LogTypes, MeterTypes
<1>2. \A x \in readings : x.at \in Nat /\ x.window \in Range(Windows)
  BY <1>1 DEF Dated, Reading
<1> HIDE DEF Range
<1>3. \A p \in NewestReadings : /\ p \in readings
                                /\ \A s \in readings : s.window = p.window => s.at <= p.at
  BY DEF NewestReadings, LatestReading
<1>4. \A p, q \in NewestReadings : p.window = q.window => p.at = q.at
  BY <1>2, <1>3
<1>5. ASSUME NEW n \in readings
      PROVE  \E m \in NewestReadings : m.window = n.window /\ n.at <= m.at
  <2>1. PICK m \in LatestReading(readings, n.window) : m.window = n.window /\ n.at <= m.at
    BY <1>1, LatestExists
  <2>2. m \in NewestReadings
    BY <1>2 DEF NewestReadings
  <2> QED
    BY <2>1, <2>2
<1> QED
  BY <1>1, <1>3, <1>4, <1>5 DEF Covers

(* The readings of a run and the intervals they make: those begin at or    *)
(* after the newest readings, where the ones stored have ended.            *)
LEMMA MeterRecord ==
    ASSUME MeterInv, LogTypes', LogsGrow', LogKept, UNCHANGED <<agents, intervals>>,
           NEW found \in Seq(Dated(clock)),
           readings' = RecordReadings(readings, found),
           loop' = [loop EXCEPT !.pc = "intervals",
                                !.intervals = Intervals(found, NewestReadings, LoadRequests)]
    PROVE  MeterInv'
<1>0. LogTypes /\ LogsGrow /\ MeterTypes /\ IntervalsInv
  BY DEF MeterInv
<1>1. clock \in Nat /\ clock' = clock /\ log' = log /\ intervals' = intervals
  BY <1>0 DEF LogTypes, agents
<1>2. /\ NewestReadings \in SUBSET Dated(clock)
      /\ \A p, q \in NewestReadings : p.window = q.window => p.at = q.at
      /\ Covers(readings, NewestReadings)
  BY NewestReadingsFacts
<1>3. LoadRequests \in SUBSET Request
  BY <1>0, RequestsType
<1>4. PICK a \in Tally(clock) : /\ Intervals(found, NewestReadings, LoadRequests) = a.intervals
                                /\ TallyOK(a, found, NewestReadings, LoadRequests)
  BY <1>1, <1>2, <1>3, IntervalsTally
<1>5. /\ readings \in SUBSET readings' /\ readings' \in SUBSET Dated(clock)
      /\ \A k \in DOMAIN found : \E n \in readings' : n.window = found[k].window /\ n.at = found[k].at
  BY <1>0, <1>1, ReadingsRecorded DEF MeterTypes
<1>6. loop' \in LoopState /\ loop'.intervals = a.intervals /\ a.intervals \in SUBSET Interval
  BY <1>0, <1>4 DEF MeterTypes, LoopState, Tally
<1>7. MeterTypes'
  BY <1>0, <1>1, <1>5, <1>6 DEF MeterTypes
<1>8. intervals \in SUBSET Known /\ Known' = intervals \cup a.intervals
  BY <1>1, <1>6 DEF Known
<1>9. \A x : Weighs(x) => Weighs(x)'
  BY <1>0, <1>1, WeighsKept
<1>10. ASSUME NEW i \in intervals
       PROVE  /\ i.start < i.end
              /\ \E n \in readings : n.window = i.window /\ i.end <= n.at
              /\ Weighs(i)
  BY <1>0, <1>8 DEF IntervalsInv
<1>11. ASSUME NEW x \in a.intervals
       PROVE  /\ x.start < x.end
              /\ x.weight = SumWeight(LoadRequests, x.start, x.end)
              /\ \A p \in NewestReadings : p.window = x.window => p.at <= x.start
              /\ \E k \in DOMAIN found : found[k].window = x.window /\ found[k].at = x.end
  BY <1>4 DEF TallyOK
<1>12. \A i \in Interval : i.start \in Nat /\ i.end \in Nat
  BY DEF Interval
<1>13. ASSUME NEW x \in a.intervals PROVE \E n \in readings' : n.window = x.window /\ x.end <= n.at
  <2>1. PICK k \in DOMAIN found : found[k].window = x.window /\ found[k].at = x.end
    BY <1>11
  <2>2. PICK n \in readings' : n.window = found[k].window /\ n.at = found[k].at
    BY <1>5
  <2>3. n.window = x.window /\ x.end <= n.at
    BY <2>1, <2>2, <1>6, <1>12
  <2> QED
    BY <2>3
<1>14. ASSUME NEW i \in intervals, NEW x \in a.intervals, i.window = x.window
       PROVE  i.end <= x.start
  <2>1. PICK n \in readings : n.window = i.window /\ i.end <= n.at
    BY <1>10
  <2>2. PICK p \in NewestReadings : p.window = n.window /\ n.at <= p.at
    BY <1>2 DEF Covers
  <2>3. p.at <= x.start
    BY <2>1, <2>2, <1>11, <1>14
  <2>4. n.at \in Nat /\ p.at \in Nat
    BY <1>0, <1>2 DEF MeterTypes, Dated, Reading
  <2>5. i.end \in Nat /\ x.start \in Nat
    BY <1>0, <1>6, <1>12 DEF MeterTypes
  <2> QED
    BY <2>1, <2>2, <2>3, <2>4, <2>5
<1>15. ASSUME NEW i \in Known', NEW j \in Known', i # j PROVE Apart(i, j)
  <2>1. CASE i \in intervals /\ j \in intervals
    BY <2>1, <1>0, <1>8, <1>15 DEF IntervalsInv
  <2>2. CASE i \in a.intervals /\ j \in a.intervals
    BY <2>2, <1>4, <1>15 DEF TallyOK
  <2>3. CASE i \in intervals /\ j \in a.intervals
    BY <2>3, <1>14, Zenon DEF Apart
  <2>4. CASE i \in a.intervals /\ j \in intervals
    BY <2>4, <1>14, Zenon DEF Apart
  <2> QED
    BY <1>8, <2>1, <2>2, <2>3, <2>4
<1>16. ASSUME NEW i \in Known'
       PROVE  /\ i.start < i.end
              /\ \E n \in readings' : n.window = i.window /\ i.end <= n.at
              /\ Weighs(i)'
  <2>2. CASE i \in intervals
    <3>1. \E n \in readings' : n.window = i.window /\ i.end <= n.at
      BY <2>2, <1>5, <1>10
    <3> QED
      BY <2>2, <3>1, <1>9, <1>10
  <2>3. CASE i \in a.intervals
    <3>1. Weighs(i)
      BY <2>3, <1>0, <1>11, WeighsLoaded
    <3> QED
      BY <2>3, <3>1, <1>9, <1>11, <1>13
  <2> QED
    BY <1>8, <2>2, <2>3
<1>17. IntervalsInv'
  BY <1>15, <1>16, Zenon DEF IntervalsInv, Apart, Weighs
<1> QED
  BY <1>7, <1>17 DEF MeterInv

(* A table covers itself, and any larger one covers it. *)
LEMMA CoversLarger ==
    ASSUME NEW t, NEW table \in SUBSET Dated(t), NEW other, table \in SUBSET other
    PROVE  Covers(table, other)
<1>1. \A n \in table : n.at <= n.at
  BY DEF Dated, Reading
<1> QED
  BY <1>1 DEF Covers

(* Pruning keeps the newest reading of every window. *)
LEMMA PruneCovers ==
    ASSUME NEW t \in Nat, NEW table \in SUBSET Dated(t), NEW before
    PROVE  Covers(table, PruneReadings(table, before))
<1> SUFFICES ASSUME NEW n \in table
             PROVE  \E m \in PruneReadings(table, before) : m.window = n.window /\ n.at <= m.at
  BY DEF Covers
<1>1. PICK m \in LatestReading(table, n.window) : m.window = n.window /\ n.at <= m.at
  BY LatestExists
<1>2. m \in table /\ \A s \in table : s.window = m.window => s.at <= m.at
  BY <1>1 DEF LatestReading
<1>3. \A s \in table : s.at \in Nat
  BY DEF Dated, Reading
<1>4. m \in PruneReadings(table, before)
  BY <1>2, <1>3 DEF PruneReadings
<1> QED
  BY <1>1, <1>4

(* The loop stores the readings of a run, if it has any. *)
LEMMA StoreReadingsMeter ==
    ASSUME MeterInv, StoreReadings, LogTypes', LogsGrow', LogKept
    PROVE  MeterInv' /\ readings \in SUBSET readings'
<1>0. LogTypes /\ MeterTypes /\ clock \in Nat
  BY DEF MeterInv, LogTypes
<1>1. UNCHANGED <<agents, intervals>>
  BY Zenon DEF StoreReadings
<1>2. readings \in SUBSET Dated(clock) /\ loop \in LoopState /\ loop.run \in Runs
  BY <1>0 DEF MeterTypes, LoopState
<1>3. ParseReadings(loop.run) \in Seq(Dated(clock))
  BY <1>0, <1>2, ParseReadingsType
<1>4. \/ loop' = [loop EXCEPT !.pc = "event"] /\ readings' = readings
      \/ /\ loop' = [loop EXCEPT !.pc = "intervals",
                       !.intervals = Intervals(ParseReadings(loop.run), NewestReadings, LoadRequests)]
         /\ readings' = RecordReadings(readings, ParseReadings(loop.run))
  BY Zenon DEF StoreReadings, NewestReadings
<1>5. CASE loop' = [loop EXCEPT !.pc = "event"] /\ readings' = readings
  <2>1. loop' \in LoopState /\ loop'.intervals = loop.intervals
    BY <1>2, <1>5 DEF LoopState
  <2>2. Known' = Known
    BY <1>1, <2>1 DEF Known
  <2>3. Covers(readings, readings')
    BY <1>2, <1>5, CoversLarger
  <2>4. MeterInv'
    BY <1>0, <1>1, <1>2, <1>5, <2>1, <2>2, <2>3, MeterFrame DEF MeterTypes
  <2> QED
    BY <1>5, <2>4
<1>6. CASE /\ loop' = [loop EXCEPT !.pc = "intervals",
                         !.intervals = Intervals(ParseReadings(loop.run), NewestReadings, LoadRequests)]
           /\ readings' = RecordReadings(readings, ParseReadings(loop.run))
  <2>1. MeterInv'
    <3> DEFINE found == ParseReadings(loop.run)
    <3>1. /\ found \in Seq(Dated(clock)) /\ readings' = RecordReadings(readings, found)
          /\ loop' = [loop EXCEPT !.pc = "intervals",
                                  !.intervals = Intervals(found, NewestReadings, LoadRequests)]
      BY <1>3, <1>6, Zenon
    <3> HIDE DEF found
    <3> QED
      BY <1>1, <3>1, MeterRecord, Zenon
  <2>2. readings \in SUBSET readings'
    BY <1>0, <1>2, <1>3, <1>6, ReadingsRecorded
  <2> QED
    BY <2>1, <2>2
<1> QED
  BY <1>4, <1>5, <1>6

(* Every step keeps MeterInv, and leaves of every window's readings one at *)
(* least as new.                                                           *)
LEMMA MeterStep == MeterInv /\ [Next]_vars => MeterInv' /\ Covers(readings, readings')
<1> SUFFICES ASSUME MeterInv, [Next]_vars PROVE MeterInv' /\ Covers(readings, readings')
  OBVIOUS
<1>0. LogTypes /\ LogsGrow /\ MeterTypes /\ clock \in Nat
  BY DEF MeterInv, LogTypes
<1>1. LogTypes' /\ LogsGrow' /\ LogKept
  BY <1>0, LogStep
<1>2. readings \in SUBSET Dated(clock) /\ loop \in LoopState /\ intervals \in SUBSET Interval
  BY <1>0 DEF MeterTypes
<1>3. ASSUME readings' = readings PROVE Covers(readings, readings')
  BY <1>2, <1>3, CoversLarger
<1>4. ASSUME UNCHANGED agents, readings' = readings, loop' \in LoopState,
             intervals' \in SUBSET Interval, Known' \in SUBSET Known
      PROVE  MeterInv' /\ Covers(readings, readings')
  BY <1>1, <1>2, <1>3, <1>4, MeterFrame
<1>5. ASSUME NEW r \in Runs, WriteLine(r) PROVE MeterInv' /\ Covers(readings, readings')
  <2>1. readings' = readings
    BY <1>5, Zenon DEF WriteLine, tables
  <2> QED
    BY <1>3, <1>5, <2>1, MeterWrite
<1>6. ASSUME NEW r \in Runs, Dispose(r) PROVE MeterInv' /\ Covers(readings, readings')
  <2>1. /\ UNCHANGED <<agents, readings, intervals>>
        /\ loop' = [pc |-> "readings", run |-> r, intervals |-> {}]
    BY <1>6, Zenon DEF Dispose
  <2>2. loop' \in LoopState /\ loop'.intervals = {}
    BY <2>1 DEF LoopState
  <2>3. Known' \in SUBSET Known
    BY <2>1, <2>2 DEF Known
  <2> QED
    BY <1>2, <1>4, <2>1, <2>2, <2>3
<1>7. CASE StoreReadings
  <2>1. MeterInv' /\ readings \in SUBSET readings'
    BY <1>1, <1>7, StoreReadingsMeter
  <2> QED
    BY <1>2, <2>1, CoversLarger
<1>8. CASE StoreIntervals
  <2>1. /\ UNCHANGED <<agents, readings>>
        /\ intervals' = RecordIntervals(intervals, loop.intervals)
        /\ loop' = [loop EXCEPT !.pc = "event", !.intervals = {}]
    BY <1>8, Zenon DEF StoreIntervals
  <2>2. loop.intervals \in SUBSET Interval /\ loop' \in LoopState /\ loop'.intervals = {}
    BY <1>2, <2>1 DEF LoopState
  <2>3. intervals' \in SUBSET (intervals \cup loop.intervals)
    BY <2>1 DEF RecordIntervals
  <2>4. Known' \in SUBSET Known
    BY <2>2, <2>3 DEF Known
  <2>5. intervals' \in SUBSET Interval
    BY <1>2, <2>2, <2>3
  <2> QED
    BY <1>4, <2>1, <2>2, <2>4, <2>5
<1>9. CASE RecordDisposed \/ Crash
  <2>1. UNCHANGED <<agents, readings, intervals>> /\ loop' = Idle
    BY <1>9, Zenon DEF RecordDisposed, Crash, tables
  <2>2. loop' \in LoopState /\ loop'.intervals = {}
    BY <2>1 DEF LoopState, Idle, Runs
  <2>3. Known' \in SUBSET Known
    BY <2>1, <2>2 DEF Known
  <2> QED
    BY <1>2, <1>4, <2>1, <2>2, <2>3
<1>10. CASE PruneHistory
  <2>1. /\ UNCHANGED <<agents, loop>>
        /\ readings' = PruneReadings(readings, clock - ReadingRetention)
        /\ intervals' = PruneIntervals(intervals, clock - IntervalRetention)
    BY <1>10, Zenon DEF PruneHistory
  <2>2. Covers(readings, readings')
    BY <1>0, <1>2, <2>1, PruneCovers
  <2>3. readings' \in SUBSET readings /\ intervals' \in SUBSET intervals
    BY <2>1 DEF PruneReadings, PruneIntervals
  <2>4. Known' \in SUBSET Known
    BY <2>1, <2>3 DEF Known
  <2>5. readings' \in SUBSET Dated(clock) /\ intervals' \in SUBSET Interval /\ loop' \in LoopState
    BY <1>2, <2>1, <2>3
  <2> QED
    BY <1>1, <2>1, <2>2, <2>4, <2>5, MeterFrame
<1>11. CASE \/ \E r \in Runs : Launch(r) \/ Exit(r)
            \/ OpenPage \/ Serve \/ Drop \/ FollowFails \/ UNCHANGED vars
  <2>1. UNCHANGED <<agents, readings, intervals, loop>>
    BY <1>11, Zenon DEF Launch, Exit, OpenPage, Serve, Connect, SendLine, SendRecords, Poll, Drop,
                        FollowFails, vars, tables
  <2>2. Known' = Known
    BY <2>1 DEF Known
  <2> QED
    BY <1>2, <1>4, <2>1, <2>2
<1> QED
  BY <1>5, <1>6, <1>7, <1>8, <1>9, <1>10, <1>11, Zenon DEF Next, Tick

(* For any logs, windows and retention: the intervals of a window never    *)
(* overlap, in whatever order overlapping runs are disposed of and         *)
(* wherever the daemon stops, and each weighs of every transcript either   *)
(* all the requests made within it or, if the transcript has a result, no  *)
(* more than a total dated within it (Intervals, SumWeight,                *)
(* ParseTranscriptUsage).                                                  *)
THEOREM IntervalsNeverOverlap == Spec => []IntervalsDisjoint
<1>1. MeterInv => IntervalsDisjoint
  <2> SUFFICES ASSUME MeterInv PROVE IntervalsDisjoint
    OBVIOUS
  <2>1. intervals \in SUBSET Known
    BY DEF Known
  <2>2. \A i \in intervals : i.start < i.end /\ Weighs(i)
    BY <2>1 DEF MeterInv, IntervalsInv
  <2>3. \A i, j \in intervals : i # j => Apart(i, j)
    BY <2>1 DEF MeterInv, IntervalsInv
  <2> QED
    BY <2>2, <2>3, Zenon DEF IntervalsDisjoint, Apart
<1>2. MeterInv /\ [Next]_vars => MeterInv'
  BY MeterStep
<1> QED
  BY <1>1, <1>2, MeterInit, PTL DEF Spec

(* For any logs, windows and retention: the gauge that pauses spending     *)
(* never goes back to an older reading, nor to none, whether a late run is *)
(* disposed of or history is pruned (LatestReading, PruneReadings).        *)
THEOREM GaugeNeverGoesBack == Spec => GaugeMovesForward
<1> DEFINE Step == \A w \in Range(Windows) : \A r \in LatestReading(readings, w) :
                     \E n \in LatestReading(readings, w)' : n.at >= r.at
<1>1. MeterInv /\ [Next]_vars => [Step]_readings
  <2> SUFFICES ASSUME MeterInv, [Next]_vars, NEW w \in Range(Windows), NEW r \in LatestReading(readings, w)
               PROVE  \E n \in LatestReading(readings', w) : n.at >= r.at
    BY Zenon
  <2>1. MeterInv' /\ Covers(readings, readings')
    BY MeterStep
  <2>2. r \in readings /\ r.window = w
    BY DEF LatestReading
  <2>3. PICK m \in readings' : m.window = w /\ r.at <= m.at
    BY <2>1, <2>2 DEF Covers
  <2>4. clock' \in Nat /\ readings' \in SUBSET Dated(clock')
    BY <2>1 DEF MeterInv, LogTypes, MeterTypes
  <2>5. PICK n \in LatestReading(readings', w) : m.at <= n.at
    BY <2>3, <2>4, LatestExists
  <2>6. m.at \in Nat /\ n.at \in Nat
    BY <2>4, <2>5 DEF Dated, Reading, LatestReading
  <2>7. r.at \in Nat
    BY <2>2 DEF MeterInv, MeterTypes, Dated, Reading
  <2>8. n.at >= r.at
    BY <2>3, <2>5, <2>6, <2>7
  <2> QED
    BY <2>8
<1>2. MeterInv /\ [Next]_vars => MeterInv'
  BY MeterStep
<1>3. [][Step]_readings => GaugeMovesForward
  BY PTL DEF GaugeMovesForward
<1> HIDE DEF Step
<1> QED
  BY <1>1, <1>2, <1>3, MeterInit, PTL DEF Spec
=============================================================================
