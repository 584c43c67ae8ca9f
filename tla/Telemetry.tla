----------------------------- MODULE Telemetry ------------------------------
(***************************************************************************)
(* Agent logs and who reads them: agents write their logs line by line,    *)
(* the loop reads the log of a run that ended (metrics, then utilisation   *)
(* readings and intervals, then the record of the disposal), and a browser *)
(* shows the log of a ticket's latest run, first as a page and then by a   *)
(* stream of events that may break and be resumed.                         *)
(*                                                                         *)
(* Run 1 is of the watched ticket.  Run 2 is a follow-up on that ticket or *)
(* the first run of another one.  `clock' counts lines written; a byte     *)
(* offset counts the sizes of lines, so that an offset into one log may    *)
(* fall inside a line of another.  Every reader of a log stops at its last *)
(* newline, so a line is in `log' once it is whole.                        *)
(***************************************************************************)
EXTENDS AgentLog, Spend, Integers, Functions

CONSTANTS
  Script,       \* the logs an agent may write: a sequence of lines per name
  Plans,        \* who runs and whether a page is opened: [first, owner, second, viewed]
  Windows,      \* the rate limit windows in order, "five_hour" among them
  Limit,        \* SpendLimit5h, 0 for none
  Mode,         \* the filter of the log page
  ReadingRetention, IntervalRetention,  \* ages, in lines, from which they are pruned
  MaxFaults     \* streams cut short and crashes, all told

Runs == {1, 2}
Watched == "watched"
Other   == "other"

\* A line of a log, with the fields of every type of line.
LogLine ==
  [type : {"assistant", "user", "limit", "result", "junk"},
   blocks : Seq([name : STRING, id : STRING, err : BOOLEAN]), sub : BOOLEAN, req : STRING,
   size : Nat \ {0}, turns : Nat, text : BOOLEAN, util : [Range(Windows) -> Nat]]

\* A line has its newline at least; any two logs, whoever the second is for.
ASSUME TelemetryAssumption ==
  /\ Windows \in Seq(STRING)
  /\ \A name \in DOMAIN Script : Script[name] \in Seq(LogLine)
  /\ \A plan \in Plans : /\ plan.first \in DOMAIN Script /\ plan.second \in DOMAIN Script
                         /\ plan.owner \in {Watched, Other} /\ plan.viewed \in BOOLEAN
  /\ ReadingRetention \in Nat /\ IntervalRetention \in Nat /\ MaxFaults \in Nat

VARIABLES
  clock,        \* lines written so far
  log,          \* per run: [at, end] of each whole line, when and up to where
  runs,         \* per run: [st, owner, script], a member of Plans but for st
  row,          \* per run: what the disposal recorded
  loop,         \* the loop's place in a disposal: [pc, run, intervals]
  records,      \* the watched ticket's events, as kinds
  readings, intervals,
  page, stream, client,
  faults        \* faults so far: [drops, crashes]

agents   == <<clock, log>>
tables   == <<row, readings, intervals>>
viewer   == <<page, stream, client>>
vars     == <<agents, tables, viewer, runs, loop, records, faults>>

RunPhases == {"none", "running", "exited", "ended"}

NoRow == [known |-> FALSE, settled |-> FALSE, turns |-> 0, message |-> FALSE]
NoId  == -1
Idle  == [pc |-> "idle", run |-> 1, intervals |-> {}]
NoStream == [pc |-> "off", run |-> 0, ended |-> FALSE, offset |-> 0, after |-> 0,
             sent |-> FALSE, tail |-> NewTail]

CanFault == faults.drops + faults.crashes < MaxFaults

Size(r) == IF r = 0 THEN 0 ELSE Len(log[r])
LineAt(r, i) == Script[runs[r].script][i]
Lines(r) == IF r = 0 THEN <<>> ELSE SubSeq(Script[runs[r].script], 1, Len(log[r]))

\* The offset just after line i of a log.
OffsetAfter(r, i) == IF i = 0 THEN 0 ELSE log[r][i].end

\* Faulty variant of IdAfter: the offset at which the line starts.
IdBefore(r, i) == OffsetAfter(r, i - 1)

\* The id of an event is the offset after the line it is read from.
IdAfter(r, i) == OffsetAfter(r, i)

(***************************************************************************)
(* Agents                                                                  *)
(***************************************************************************)
Init ==
  /\ clock = 0
  /\ log = [r \in Runs |-> <<>>]
  /\ \E plan \in Plans :
       /\ runs = << [st |-> "none", owner |-> Watched, script |-> plan.first],
                    [st |-> "none", owner |-> plan.owner, script |-> plan.second] >>
       /\ page = [wanted |-> plan.viewed, open |-> FALSE, run |-> 0, upto |-> 0, from |-> 0,
                  after |-> 0]
  /\ row = [r \in Runs |-> NoRow]
  /\ loop = Idle
  /\ records = <<>>
  /\ readings = {} /\ intervals = {}
  /\ stream = NoStream
  /\ client = [live |-> <<>>, recs |-> <<>>, lastId |-> NoId, ended |-> FALSE]
  /\ faults = [drops |-> 0, crashes |-> 0]

\* The loop starts a run; a new ticket's run waits while spending is paused,
\* a follow-up does not.
SpendPaused == \E r \in LatestReading(readings, "five_hour") : Paused(r.util, Limit)

Launch(r) ==
  /\ loop.pc = "idle"
  /\ runs[r].st = "none"
  /\ r = 2 => runs[1].st # "none" /\ (runs[2].owner = Watched => runs[1].st = "ended")
  /\ (r = 1 \/ runs[r].owner = Other) => ~SpendPaused
  /\ runs' = [runs EXCEPT ![r].st = "running"]
  /\ records' = IF runs[r].owner = Watched THEN Append(records, "run_launched") ELSE records
  /\ UNCHANGED <<agents, tables, viewer, loop, faults>>

WriteLine(r) ==
  /\ runs[r].st = "running"
  /\ Len(log[r]) < Len(Script[runs[r].script])
  /\ log' = [log EXCEPT ![r] = Append(@, [at |-> clock + 1,
                                       end |-> OffsetAfter(r, Len(@)) + LineAt(r, Len(@) + 1).size])]
  /\ clock' = clock + 1
  /\ UNCHANGED <<tables, viewer, runs, loop, records, faults>>

\* The agent exits, with its log written or killed before.
Exit(r) ==
  /\ runs[r].st = "running"
  /\ runs' = [runs EXCEPT ![r].st = "exited"]
  /\ UNCHANGED <<agents, tables, viewer, loop, records, faults>>

(***************************************************************************)
(* The loop disposes of a run                                              *)
(***************************************************************************)
\* A rate limit line and a result carry no time: the last line that does,
\* assistant's or user's, dates them.
LastDated(r, i) ==
  LET dated == {j \in 1..i : LineAt(r, j).type \in {"assistant", "user"}}
  IN IF dated = {} THEN 0 ELSE log[r][CHOOSE j \in dated : \A k \in dated : k <= j].at

LimitLines(r) == Only([i \in DOMAIN log[r] |-> i],
                      {i \in DOMAIN log[r] : LineAt(r, i).type = "limit"})

ParseReadings(r) ==
  LET at == LimitLines(r)
      Of(w) == [k \in DOMAIN at |->
                  [window |-> w, at |-> LastDated(r, at[k]), util |-> LineAt(r, at[k]).util[w]]]
  IN Concat([n \in DOMAIN Windows |-> Of(Windows[n])])

\* The requests of a transcript, each dated by the first line reporting it.
SingleRequests(r) ==
  {[run |-> r, req |-> LineAt(r, i).req, at |-> log[r][i].at] :
     i \in {i \in DOMAIN log[r] :
              /\ LineAt(r, i).type = "assistant" /\ LineAt(r, i).req # ""
              /\ \A j \in 1..(i - 1) : LineAt(r, j).req # LineAt(r, i).req}}

\* What a result reports: all the requests of the transcript as one.
Total == "total"
Settled(r, i) == [run |-> r, req |-> Total, at |-> LastDated(r, i)]
Results(r) == {i \in DOMAIN log[r] : LineAt(r, i).type = "result"}

\* A transcript with a result yields the total of its last one, and no longer
\* its requests.
ParseTranscriptUsage(r) ==
  IF Results(r) = {} THEN SingleRequests(r)
  ELSE {Settled(r, CHOOSE i \in Results(r) : \A j \in Results(r) : j <= i)}

\* Every transcript, of agents still running too.  The transcript of a run is
\* taken to hold the lines of its log.
LoadRequests == UNION {ParseTranscriptUsage(r) : r \in Runs}

Dispose(r) ==
  /\ loop.pc = "idle"
  /\ runs[r].st = "exited"
  /\ \E lines \in {Lines(r)} :
       row' = [row EXCEPT ![r] = ParseMetrics(lines) @@ [message |-> ParseLastMessage(lines)]]
  /\ runs' = [runs EXCEPT ![r].st = "ended"]
  /\ loop' = [pc |-> "readings", run |-> r, intervals |-> {}]
  /\ UNCHANGED <<agents, readings, intervals, viewer, records, faults>>

\* The intervals are worked out before the readings are stored.
StoreReadings ==
  /\ loop.pc = "readings"
  /\ \E found \in {ParseReadings(loop.run)}, requests \in {LoadRequests},
        previous \in {UNION {LatestReading(readings, w) : w \in Range(Windows)}} :
       \/ /\ found = <<>>
          /\ loop' = [loop EXCEPT !.pc = "event"]
          /\ UNCHANGED readings
       \/ /\ found # <<>>
          /\ loop' = [loop EXCEPT !.pc = "intervals",
                                  !.intervals = Intervals(found, previous, requests)]
          /\ readings' = RecordReadings(readings, found)
  /\ UNCHANGED <<agents, row, intervals, viewer, runs, records, faults>>

StoreIntervals ==
  /\ loop.pc = "intervals"
  /\ intervals' = RecordIntervals(intervals, loop.intervals)
  /\ loop' = [loop EXCEPT !.pc = "event", !.intervals = {}]
  /\ UNCHANGED <<agents, row, readings, viewer, runs, records, faults>>

RecordDisposed ==
  /\ loop.pc = "event"
  /\ records' = IF runs[loop.run].owner = Watched THEN Append(records, "run_disposed") ELSE records
  /\ loop' = Idle
  /\ UNCHANGED <<agents, tables, viewer, runs, faults>>

\* The daemon stops between two writes, or the second fails: the run is
\* disposed of, so the rest is never made up for.
Crash ==
  /\ loop.pc # "idle" /\ CanFault
  /\ loop' = Idle
  /\ faults' = [faults EXCEPT !.crashes = @ + 1]
  /\ UNCHANGED <<agents, tables, viewer, runs, records>>

\* A tick starts by pruning what is past its retention, each table its own.
PruneHistory ==
  /\ loop.pc = "idle"
  /\ readings' = PruneReadings(readings, clock - ReadingRetention)
  /\ intervals' = PruneIntervals(intervals, clock - IntervalRetention)
  /\ <<readings, intervals>>' # <<readings, intervals>>
  /\ UNCHANGED <<agents, row, viewer, runs, loop, records, faults>>

(***************************************************************************)
(* The page and its stream                                                 *)
(***************************************************************************)
\* LatestRunLog: the newest run of the ticket, ended or not; none reads as ended.
LatestRunLog ==
  LET mine == {r \in Runs : runs[r].st # "none" /\ runs[r].owner = Watched}
      run == IF mine = {} THEN 0 ELSE CHOOSE r \in mine : \A q \in mine : q <= r
  IN [run |-> run, ended |-> run = 0 \/ runs[run].st = "ended"]

\* wholeLines: the page takes the whole lines and leaves the rest to the stream.
OpenPage ==
  /\ page.wanted
  /\ LET run == LatestRunLog.run
         upto == Size(run)
     IN page' = [wanted |-> FALSE, open |-> TRUE, run |-> run, upto |-> upto,
                 from |-> OffsetAfter(run, upto), after |-> Len(records)]
  /\ UNCHANGED <<agents, tables, stream, client, runs, loop, records, faults>>

\* handleLog: a reconnecting browser names the last event it received.
Connect ==
  /\ page.open /\ stream.pc = "off" /\ ~client.ended
  /\ stream' = [pc |-> "lines", run |-> LatestRunLog.run, ended |-> LatestRunLog.ended,
                offset |-> IF client.lastId = NoId THEN page.from ELSE client.lastId,
                after |-> page.after, sent |-> FALSE, tail |-> NewTail]
  /\ UNCHANGED <<agents, tables, page, client, runs, loop, records, faults>>

\* The whole lines not read yet, the first perhaps from its middle.
Unread == {i \in 1..Size(stream.run) : OffsetAfter(stream.run, i) > stream.offset}
NextLine == {i \in Unread : \A j \in Unread : i <= j}

\* A line read from its middle does not decode.
ReadLine(n) ==
  IF OffsetAfter(stream.run, n - 1) = stream.offset
  THEN Feed(stream.tail, LineAt(stream.run, n))
  ELSE [tail |-> stream.tail, out |-> <<>>]

Shown(out) == Only(out, {k \in DOMAIN out : EventShown(Mode, out[k])})

\* The browser receives events of line n, each with the offset after it.
Deliver(c, n, out) ==
  [c EXCEPT !.live = @ \o [k \in DOMAIN out |->
                             [run |-> stream.run, line |-> n, nth |-> k, event |-> out[k]]],
            !.lastId = IF out = <<>> THEN @ ELSE IdAfter(stream.run, n)]

SendLine ==
  /\ stream.pc = "lines"
  /\ \E n \in NextLine : \E read \in {ReadLine(n)} : \E out \in {Shown(read.out)} :
       /\ client' = Deliver(client, n, out)
       /\ stream' = [stream EXCEPT !.offset = OffsetAfter(stream.run, n),
                                   !.tail = read.tail, !.sent = @ \/ out # <<>>]
  /\ UNCHANGED <<agents, tables, page, runs, loop, records, faults>>

TicketEventsAfter(id) == {i \in DOMAIN records : i > id}

\* At the end of the file the records follow; a round that sent nothing on a
\* run known to have ended when the round began closes the stream.
SendRecords ==
  /\ stream.pc = "lines" /\ Unread = {}
  /\ LET fresh == IF KindShown(Mode, "Record") THEN TicketEventsAfter(stream.after) ELSE {}
         sent == stream.sent \/ fresh # {}
         over == stream.ended /\ ~sent
     IN /\ stream' = IF over THEN NoStream
                     ELSE [stream EXCEPT !.pc = "wait", !.after = Len(records)]
        /\ client' = [client EXCEPT
             !.recs = @ \o Only([i \in DOMAIN records |-> i], fresh),
             !.lastId = IF fresh = {} THEN @ ELSE stream.offset,
             !.ended = over]
  /\ UNCHANGED <<agents, tables, page, runs, loop, records, faults>>

\* Faulty variant of Poll: only the path is looked up again.
PollPathOnly ==
  /\ stream.pc = "wait"
  /\ stream' = [stream EXCEPT !.pc = "lines", !.sent = FALSE, !.run = LatestRunLog.run]
  /\ UNCHANGED <<agents, tables, page, client, runs, loop, records, faults>>

\* The next round, perhaps on the log of a newer run.
Poll ==
  /\ stream.pc = "wait"
  /\ stream' = [stream EXCEPT !.pc = "lines", !.sent = FALSE,
                              !.run = LatestRunLog.run, !.ended = LatestRunLog.ended]
  /\ UNCHANGED <<agents, tables, page, client, runs, loop, records, faults>>

\* The connection breaks, perhaps with some events of a line delivered.
Drop ==
  /\ stream.pc # "off" /\ CanFault
  /\ \/ client' = client
     \/ /\ stream.pc = "lines"
        /\ \E n \in NextLine : \E out \in {Shown(ReadLine(n).out)} : \E k \in DOMAIN out :
             client' = Deliver(client, n, SubSeq(out, 1, k))
  /\ stream' = NoStream
  /\ faults' = [faults EXCEPT !.drops = @ + 1]
  /\ UNCHANGED <<agents, tables, page, runs, loop, records>>

\* handleLog: the log or the store could not be read, so the browser is sent
\* an error and the end, and does not come back.
FollowFails ==
  /\ stream.pc # "off" /\ CanFault
  /\ stream' = NoStream
  /\ client' = [client EXCEPT !.ended = TRUE]
  /\ faults' = [faults EXCEPT !.drops = @ + 1]
  /\ UNCHANGED <<agents, tables, page, runs, loop, records>>

-----------------------------------------------------------------------------
Serve == Connect \/ SendLine \/ SendRecords \/ Poll
Tick  == \/ \E r \in Runs : Dispose(r)
         \/ StoreReadings \/ StoreIntervals \/ RecordDisposed

Done == /\ \A r \in Runs : runs[r].st \in {"none", "ended"}
        /\ loop.pc = "idle" /\ (page.open => client.ended)

Next ==
  \/ \E r \in Runs : Launch(r) \/ WriteLine(r) \/ Exit(r)
  \/ Tick \/ Crash \/ PruneHistory
  \/ OpenPage \/ Serve \/ Drop \/ FollowFails
  \/ Done /\ UNCHANGED vars

\* Agents exit, the loop ticks, the server serves and the browser reconnects.
Fairness == /\ \A r \in Runs : WF_vars(Exit(r))
            /\ WF_vars(Tick)
            /\ WF_vars(Serve)

Spec == Init /\ [][Next]_vars /\ Fairness

(***************************************************************************)
(* Properties                                                              *)
(***************************************************************************)
Before(a, b) ==
  \/ a.run < b.run
  \/ a.run = b.run /\ a.line < b.line
  \/ a.run = b.run /\ a.line = b.line /\ a.nth < b.nth

\* Whatever breaks and reconnects, the browser gets every event of the logs
\* at most once and in the order of the logs, and none of the lines the page
\* already shows (wholeLines, Last-Event-ID, sendLines).
ShownOnceInOrder ==
  /\ \A i, j \in DOMAIN client.live : i < j => Before(client.live[i], client.live[j])
  /\ \A i \in DOMAIN client.live :
       client.live[i].run = page.run => client.live[i].line > page.upto

\* The lines on the screen: the page's, then the stream's, a finished command
\* taking the place of its running line.
Screen ==
  LET first == BuildLogDetail(SubSeq(Lines(page.run), 1, page.upto), Mode)
      later == [i \in DOMAIN client.live |-> LineOf(client.live[i].event)]
      all == first \o later
  IN {all[i] : i \in {i \in DOMAIN all :
        ~(/\ all[i].shape = "cmd" /\ all[i].word = "running"
          /\ \E j \in (i + 1)..Len(all) : all[j].shape = "cmd" /\ all[j].id = all[i].id)}}

Said(ls)     == {l.id : l \in {l \in ls : l.shape = "say"}}
FailedIn(ls) == {l.id : l \in {l \in ls : l.word = "failed"}}
Commands(ls) == {<<l.id, l.word>> : l \in {l \in ls : l.shape = "cmd"}}
\* The commands whose result was not in the log when the page was read.
OpenAtPage   == {l.id : l \in {l \in Range(BuildLogDetail(SubSeq(Lines(page.run), 1, page.upto), Mode))
                                 : l.shape = "cmd" /\ l.word = "running"}}

\* When an unbroken stream ends, and no follow-up began meanwhile, what the
\* browser shows is what a reload would show: everything said, every failure
\* and how every command stands, a command running when the page was read
\* excepted (followLog, Tail against Parse, BuildLogDetail).  With a filter
\* the two may differ: the foot of a reloaded page has the last words whatever
\* the filter, the stream filters them.
EndShowsTheLog ==
  Mode = "all" /\ client.ended /\ faults.drops = 0 /\ page.run # 0 /\ LatestRunLog.run = page.run =>
    LET reload == Range(BuildLogDetail(Lines(page.run), Mode))
        open == OpenAtPage
    IN /\ Said(Screen) = Said(reload)
       /\ FailedIn(Screen) = FailedIn(reload)
       /\ {c \in Commands(Screen) : c[1] \notin open} = {c \in Commands(reload) : c[1] \notin open}

\* Of each transcript an interval weighs the requests made within it, all of
\* them, or, once the transcript has a result, nothing but its total, if that
\* is dated within it.
Weighs(i) ==
  \A r \in Runs :
    LET of == {q \in i.weight : q.run = r}
    IN \/ of = SumWeight(SingleRequests(r), i.start, i.end)
       \/ \E k \in Results(r) : of = SumWeight({Settled(r, k)}, i.start, i.end)

\* The intervals of a window never overlap, in whatever order overlapping
\* runs are disposed of, and what each weighs of a transcript is either every
\* request made within it or a total dated within it, never a mixture
\* (Intervals, SumWeight, ParseTranscriptUsage).  So the intervals of a window
\* weigh a request on its own at most once; they may weigh it again in the
\* total of a transcript that settled after the first was recorded.
IntervalsDisjoint ==
  \A i \in intervals :
    /\ i.start < i.end
    /\ Weighs(i)
    /\ \A j \in intervals \ {i} :
         i.window = j.window => i.end <= j.start \/ j.end <= i.start

\* The gauge that pauses spending never goes back to an older reading, nor to
\* none, whether a late run is disposed of or history is pruned.
GaugeMovesForward ==
  [][\A w \in Range(Windows) : \A r \in LatestReading(readings, w) :
       \E n \in LatestReading(readings, w)' : n.at >= r.at]_readings

\* A page once opened is told in the end that its run is over: the stream
\* closes itself, follow-ups, broken connections and failing reads notwithstanding.
StreamEnds == page.open ~> client.ended
=============================================================================
