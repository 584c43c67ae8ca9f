---------------------------- MODULE MCTelemetry -----------------------------
(* The logs agents write in the model-checked instance of Telemetry. *)
EXTENDS Telemetry

Call(name, id)  == [name |-> name, id |-> id, err |-> FALSE]
Ok(id)          == [name |-> "result", id |-> id, err |-> FALSE]
Err(id)         == [name |-> "result", id |-> id, err |-> TRUE]
Text(id)        == [name |-> "text", id |-> id, err |-> FALSE]

Made(type, blocks, req, size) ==
  [type |-> type, blocks |-> blocks, sub |-> FALSE, req |-> req, size |-> size,
   turns |-> 1, text |-> TRUE, util |-> [five_hour |-> 0, seven_day |-> 0]]
Says(req, size, blocks)  == Made("assistant", blocks, req, size)
Gets(blocks)             == Made("user", blocks, "", 1)
LimitLine(u, v)          == [Made("limit", <<>>, "", 1) EXCEPT
                               !.util = [five_hour |-> u, seven_day |-> v]]
ResultLine               == Made("result", <<>>, "", 1)
JunkLine                 == Made("junk", <<>>, "", 1)

\* A command and a file read answered together, one of them failing.
Pair == <<Says("q1", 2, <<Call("Bash", "b"), Call("Read", "f")>>), JunkLine,
          Gets(<<Err("b"), Ok("f")>>)>>
\* A skill with a commit, then the last words and the result.
Skilled == <<Says("q1", 2, <<Call("Skill", "s"), Call("GitCommit", "c")>>),
             Gets(<<Ok("s"), Ok("c")>>), Says("q2", 1, <<Text("t")>>), ResultLine>>
\* A reading before any dated line, a subagent's skill, two more readings.
Metered == <<LimitLine(1, 1), [Says("q1", 1, <<Call("Skill", "s")>>) EXCEPT !.sub = TRUE],
             LimitLine(1, 2), Says("q2", 1, <<Text("t")>>), LimitLine(2, 3)>>
\* A reading above the others', or one after the shorter window was reset.
Short(u) == <<Says("q1", 1, <<Call("Bash", "d")>>), LimitLine(u, 3)>>

\* Two readings around one request, short of the limit.
Brief == <<LimitLine(1, 1), Says("q1", 1, <<Text("t")>>), LimitLine(1, 2)>>
\* A result, more work and a reading: the transcript turns into its total.
Resumed == <<Says("q1", 1, <<Text("t")>>), Says("q2", 1, <<Text("t")>>), ResultLine,
             Gets(<<>>), LimitLine(1, 3)>>

MCScript == [pair |-> Pair, skilled |-> Skilled, metered |-> Metered,
             short |-> Short(2), reset |-> Short(0), brief |-> Brief,
             resumed |-> Resumed]
Follow(first, second)  == [first |-> first, owner |-> Watched, second |-> second, viewed |-> TRUE]
Beside(first, second)  == [first |-> first, owner |-> Other, second |-> second, viewed |-> FALSE]
MCPlans == {Beside("metered", "short"), Beside("metered", "reset"), Beside("brief", "resumed"),
            Follow("pair", "short"), Follow("skilled", "reset")}
MCWindows == <<"five_hour", "seven_day">>
=============================================================================
