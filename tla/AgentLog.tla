------------------------------ MODULE AgentLog ------------------------------
(***************************************************************************)
(* Reading an agent's log.  A log is a sequence of stream-json lines; the  *)
(* package plan/agentlog turns it into events, live (Tail) or at once      *)
(* (Parse), and the package web/view turns events into the lines of a      *)
(* page.  Texts, times of day and token counts are left out: a block is    *)
(* known by the tool it calls, the call it belongs to and whether it       *)
(* reports a failure.                                                      *)
(*                                                                         *)
(*   line   [type, blocks, sub, req, size]   sub: of a subagent            *)
(*   block  [name, id, err]                                                *)
(*   event  [kind, tool, id, done, failed]                                 *)
(***************************************************************************)
EXTENDS Naturals, Sequences, FiniteSets, TLC

\* Left to right over a sequence; the bound variable has TLC evaluate each
\* intermediate value once.
Fold(op(_, _), init, s) ==
  LET f[i \in 0..Len(s)] ==
        IF i = 0 THEN init
        ELSE CHOOSE y \in {op(acc, s[i]) : acc \in {f[i - 1]}} : TRUE
  IN f[Len(s)]

Concat(s) == Fold(\o, <<>>, s)

\* The elements of s at the places in keep, in order.
Only(s, keep) ==
  LET f[i \in 0..Len(s)] ==
        IF i = 0 THEN <<>> ELSE IF i \in keep THEN Append(f[i - 1], s[i]) ELSE f[i - 1]
  IN f[Len(s)]

Kinds == {"Skill", "File", "Tool", "Fail", "Pass", "Say", "Cmd", "Record", "Commit"}

Event(kind, tool, id) ==
  [kind |-> kind, tool |-> tool, id |-> id, done |-> FALSE, failed |-> FALSE]

(***************************************************************************)
(* From a line to its events                                               *)
(***************************************************************************)
FileTools == {"Read", "Write", "Edit", "NotebookEdit"}

\* A Bash call that commits is a tool of its own here.
BashTools == {"Bash", "GitCommit"}

ToolEvent(b) ==
  Event(CASE b.name = "Skill"        -> "Skill"
          [] b.name \in BashTools    -> "Cmd"
          [] b.name \in FileTools    -> "File"
          [] OTHER                   -> "Tool", b.name, b.id)

ResultEvent(b) ==
  [Event(IF b.err THEN "Fail" ELSE "Pass", "", b.id) EXCEPT !.failed = b.err]

BlockEvents(l, b) ==
  CASE l.type = "assistant" /\ b.name \notin {"text", "result"} ->
         LET e == ToolEvent(b)
         IN <<IF e.kind = "Skill" /\ l.sub THEN [e EXCEPT !.kind = "Tool"] ELSE e>>
    [] l.type = "assistant" /\ b.name = "text" /\ ~l.sub -> <<Event("Say", "", b.id)>>
    [] l.type = "user" /\ b.name = "result" -> <<ResultEvent(b)>>
    [] OTHER -> <<>>

EventsOf(l) == Concat([i \in DOMAIN l.blocks |-> BlockEvents(l, l.blocks[i])])

(***************************************************************************)
(* Tail: a command's result is shown as the command, done; the result of a *)
(* skill call is dropped.                                                  *)
(***************************************************************************)
NewTail == [skills |-> {}, cmds |-> {}]

CmdDone(call, result) ==
  [call EXCEPT !.kind = IF ~result.failed /\ call.tool = "GitCommit" THEN "Commit" ELSE "Cmd",
               !.done = TRUE, !.failed = result.failed]

\* Faulty variant of FeedEvent: a result is never matched with its command.
FeedEventUnmatched(acc, e) == [acc EXCEPT !.out = Append(@, e)]

FeedEvent(acc, e) ==
  LET calls == {c \in acc.tail.cmds : c.id = e.id}
  IN CASE e.kind = "Cmd" ->
            [tail |-> [acc.tail EXCEPT !.cmds = (@ \ calls) \cup {e}], out |-> Append(acc.out, e)]
       [] e.kind \in {"Pass", "Fail"} /\ calls # {} ->
            LET call == CHOOSE c \in calls : TRUE
            IN [tail |-> [acc.tail EXCEPT !.cmds = @ \ calls],
                out |-> Append(acc.out, CmdDone(call, e))]
       [] e.kind = "Skill" ->
            [tail |-> [acc.tail EXCEPT !.skills = @ \cup {e.id}], out |-> Append(acc.out, e)]
       [] e.kind = "Pass" /\ calls = {} /\ e.id \in acc.tail.skills -> acc
       [] OTHER -> [acc EXCEPT !.out = Append(@, e)]

Feed(tail, l) == Fold(FeedEvent, [tail |-> tail, out |-> <<>>], EventsOf(l))

(***************************************************************************)
(* Parse: the phases of a log, a phase starting at every skill call.       *)
(***************************************************************************)
NoRun == [phases |-> <<>>, tail |-> NewTail, home |-> <<>>, lines |-> 0,
          result |-> [has |-> FALSE, turns |-> 0], reqs |-> <<>>]

\* The place of the unanswered command that a done event answers, in phase p.
OpenCmd(run, p, e) ==
  {i \in DOMAIN run.phases[p].events :
     LET c == run.phases[p].events[i] IN c.kind = "Cmd" /\ ~c.done /\ c.id = e.id}

AppendEvent(run, e) ==
  IF e.kind = "Skill"
  THEN [run EXCEPT !.phases = Append(@, [skill |-> e.id, events |-> <<>>])]
  ELSE LET phases == IF run.phases = <<>> THEN <<[skill |-> "", events |-> <<>>]>>
                     ELSE run.phases
           n == Len(phases)
       IN [run EXCEPT !.phases = [phases EXCEPT ![n].events = Append(@, e)],
                      !.home = (e.id :> n) @@ run.home]

PlaceEvent(run, e) ==
  LET known == e.id \in DOMAIN run.home
      p == IF known THEN run.home[e.id] ELSE Len(run.phases)
  IN IF e.done /\ p > 0 /\ OpenCmd(run, p, e) # {}
     THEN [run EXCEPT !.phases[p].events[CHOOSE i \in OpenCmd(run, p, e) : TRUE] = e]
     ELSE IF known /\ e.kind \in {"Pass", "Fail"}
          THEN [run EXCEPT !.phases[p].events = Append(@, e)]
          ELSE AppendEvent(run, e)

\* A request is one turn however many lines report it; a subagent's is none.
AddRequest(reqs, l) ==
  IF l.type # "assistant" \/ l.req = "" \/ l.req \in DOMAIN reqs THEN reqs
  ELSE reqs @@ (l.req :> ~l.sub)

ParseLine(run, l) ==
  CASE l.type = "junk"   -> [run EXCEPT !.lines = @ + 1]
    [] l.type = "result" -> [run EXCEPT !.lines = @ + 1,
                                        !.result = [has |-> TRUE, turns |-> l.turns]]
    [] OTHER ->
         LET fed == Feed(run.tail, l)
             placed == Fold(PlaceEvent, [run EXCEPT !.tail = fed.tail], fed.out)
         IN [placed EXCEPT !.lines = @ + 1, !.reqs = AddRequest(@, l)]

Parse(lines) == Fold(ParseLine, NoRun, lines)

\* The turns a page reports: the log's own count, or the requests of its phases.
Measure(run) ==
  IF run.result.has THEN run.result.turns
  ELSE IF run.phases = <<>> THEN 0
  ELSE Cardinality({r \in DOMAIN run.reqs : run.reqs[r]})

(***************************************************************************)
(* What the loop reads from the log of a run that ended                    *)
(***************************************************************************)
Decoded(lines) == SelectSeq(lines, LAMBDA l : l.type # "junk")

ParseMetrics(lines) ==
  LET reqs == Fold(AddRequest, <<>>, Decoded(lines))
  IN [known |-> Decoded(lines) # <<>>,
      settled |-> \E i \in DOMAIN lines : lines[i].type = "result",
      turns |-> Cardinality({r \in DOMAIN reqs : reqs[r]})]

ParseLastMessage(lines) == \E i \in DOMAIN lines : lines[i].type = "result" /\ lines[i].text

(***************************************************************************)
(* From events to the lines of a page.  A line is                          *)
(* [shape, id, called, word], word telling how a call ended.               *)
(***************************************************************************)
Modes == {"all", "skills", "tools", "fails"}

KindShown(mode, k) ==
  CASE mode = "skills" -> k = "Skill"
    [] mode = "tools"  -> k \in {"Tool", "File", "Cmd", "Commit"}
    [] mode = "fails"  -> k = "Fail"
    [] OTHER           -> TRUE

EventShown(mode, e) ==
  IF e.kind = "Cmd" /\ mode = "fails" THEN e.done /\ e.failed ELSE KindShown(mode, e.kind)

Line(shape, id, called, word) == [shape |-> shape, id |-> id, called |-> called, word |-> word]

Word(answered, failed) ==
  IF ~answered THEN "running" ELSE IF failed THEN "failed" ELSE "ok"

\* callPair.line: a command says how it stands, another call how it ended.
PairLine(p) ==
  IF p.called /\ p.call.kind = "Cmd"
  THEN Line("cmd", p.call.id, TRUE, Word(p.answered, p.result.failed))
  ELSE Line("call", IF p.called THEN p.call.id ELSE p.result.id, p.called,
            IF p.answered THEN Word(TRUE, p.result.failed) ELSE "")

CallPair(e) == [call |-> e, result |-> e, called |-> TRUE,
                answered |-> e.kind = "Cmd" /\ e.done]
ResultPair(e) == [call |-> e, result |-> e, called |-> FALSE, answered |-> TRUE]

LineOf(e) ==
  CASE e.kind = "Say"                -> Line("say", e.id, FALSE, "")
    [] e.kind = "Skill"              -> Line("skill", e.id, FALSE, "")
    [] e.kind = "Record"             -> Line("record", e.id, FALSE, "")
    [] e.kind = "Commit"             -> Line("cmd", e.id, TRUE, "ok")
    [] e.kind \in {"Pass", "Fail"}   -> PairLine(ResultPair(e))
    [] OTHER                         -> PairLine(CallPair(e))

PairShown(mode, p) ==
  (p.called /\ EventShown(mode, p.call)) \/ (p.answered /\ EventShown(mode, p.result))

\* phaseBuilder: calls wait for their results until something else is said.
Flush(mode, b) ==
  LET shown == SelectSeq(b.pending, LAMBDA p : PairShown(mode, p))
  IN [items |-> b.items \o [i \in DOMAIN shown |-> PairLine(shown[i])], pending |-> <<>>]

Answer(b, e) ==
  LET waiting == {i \in DOMAIN b.pending :
                    /\ b.pending[i].called /\ ~b.pending[i].answered
                    /\ b.pending[i].call.id = e.id}
  IN IF waiting = {} THEN [b EXCEPT !.pending = Append(@, ResultPair(e))]
     ELSE LET i == CHOOSE i \in waiting : \A j \in waiting : i <= j
          IN [b EXCEPT !.pending[i].result = e, !.pending[i].answered = TRUE]

AddItem(mode, b, e) ==
  CASE e.kind \in {"Say", "Record", "Commit"} ->
         LET f == Flush(mode, b)
         IN IF KindShown(mode, e.kind) THEN [f EXCEPT !.items = Append(@, LineOf(e))] ELSE f
    [] e.kind \in {"Pass", "Fail"} -> Answer(b, e)
    [] OTHER -> [b EXCEPT !.pending = Append(@, CallPair(e))]

BuildPhase(mode, phase) ==
  LET Add(b, e) == AddItem(mode, b, e)
  IN Flush(mode, Fold(Add, [items |-> <<>>, pending |-> <<>>], phase.events)).items

\* The last words of a run that reported its result leave the log for the
\* foot of the page, whatever the filter.
FinalAnswer(run) ==
  LET last == run.phases[Len(run.phases)].events
  IN IF run.result.has /\ run.phases # <<>> /\ last # <<>> /\ last[Len(last)].kind = "Say"
     THEN <<last[Len(last)]>> ELSE <<>>

WithoutFinal(run) ==
  IF FinalAnswer(run) = <<>> THEN run
  ELSE [run EXCEPT !.phases[Len(run.phases)].events = SubSeq(@, 1, Len(@) - 1)]

\* The lines a page shows of a log it has read as a whole.
BuildLogDetail(lines, mode) ==
  LET run == Parse(lines)
      phases == WithoutFinal(run).phases
      final == FinalAnswer(run)
  IN Concat([p \in DOMAIN phases |-> BuildPhase(mode, phases[p])])
     \o [i \in DOMAIN final |-> LineOf(final[i])]
=============================================================================
