------------------------------- MODULE Spend --------------------------------
(***************************************************************************)
(* Utilisation of the account's rate limit windows: the readings a log     *)
(* reports, the intervals between successive readings and the weight of    *)
(* the requests made within one.  A utilisation is a count of requests, a  *)
(* weight is the set of requests weighed.                                  *)
(*                                                                         *)
(*   reading   [window, at, util]                                          *)
(*   interval  [window, start, end, weight]                                *)
(*   request   [run, req, at], req being a request or a run's total        *)
(***************************************************************************)
EXTENDS Naturals, FiniteSets, Sequences

Paused(fiveHour, limit) == limit > 0 /\ fiveHour >= limit

\* Half open: a request made at a reading counts in the interval it starts.
SumWeight(requests, start, end) == {q \in requests : q.at >= start /\ q.at < end}

\* The newest reading of a window, as a set of at most one.
LatestReading(readings, w) ==
  {r \in readings : r.window = w /\ \A s \in readings : s.window = w => s.at <= r.at}

\* Faulty variant of NextInterval: every reading is taken as newer than the last.
NextIntervalAnyOrder(acc, r, requests) ==
  LET prev == {p \in acc.latest : p.window = r.window}
      grew == {p \in prev : r.util >= p.util}
  IN [latest |-> (acc.latest \ prev) \cup {r},
      intervals |-> acc.intervals \cup
        {[window |-> r.window, start |-> p.at, end |-> r.at,
          weight |-> SumWeight(requests, p.at, r.at)] : p \in grew}]

\* One reading after another in order of time: a reading no newer than the
\* last is skipped, one that is lower marks a reset and starts afresh.
NextInterval(acc, r, requests) ==
  LET prev == {p \in acc.latest : p.window = r.window}
      late == \E p \in prev : r.at <= p.at
      grew == {p \in prev : r.util >= p.util}
  IN IF late THEN acc
     ELSE [latest |-> (acc.latest \ prev) \cup {r},
           intervals |-> acc.intervals \cup
             {[window |-> r.window, start |-> p.at, end |-> r.at,
               weight |-> SumWeight(requests, p.at, r.at)] : p \in grew}]

\* readings in order of time, previous the newest reading of each window.
Intervals(readings, previous, requests) ==
  LET acc[i \in 0..Len(readings)] ==
        IF i = 0 THEN [latest |-> previous, intervals |-> {}]
        ELSE CHOOSE a \in {NextInterval(before, readings[i], requests) : before \in {acc[i - 1]}} : TRUE
  IN acc[Len(readings)].intervals

\* Inserts of rows whose key (time, window) or (window, start) is taken do
\* nothing, taken by an earlier row of the same batch included.
RecordReadings(table, rows) ==
  table \cup {rows[k] : k \in {k \in DOMAIN rows :
                 \A t \in table \cup {rows[j] : j \in 1..(k - 1)} :
                   ~(t.window = rows[k].window /\ t.at = rows[k].at)}}

RecordIntervals(table, rows) ==
  table \cup {r \in rows : \A t \in table : ~(t.window = r.window /\ t.start = r.start)}

\* Faulty variant of PruneReadings: age alone decides.
PruneReadingsByAge(table, before) == {r \in table : ~(r.at < before)}

\* A reading past its retention goes once its window has a newer one.
PruneReadings(table, before) ==
  {r \in table : ~(r.at < before /\ \E n \in table : n.window = r.window /\ n.at > r.at)}

PruneIntervals(table, before) == {i \in table : ~(i.end < before)}
=============================================================================
