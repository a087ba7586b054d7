---------------------------- MODULE MCInvocation ----------------------------
(***************************************************************************)
(* Three levels of directories, the home outermost: every command in and   *)
(* below them, the plugin's calls, sequences of commands around            *)
(* config-paths, and the tasks and WORKDIRs that are easily misread.       *)
(***************************************************************************)
EXTENDS Invocation

Absolute(l) == [absolute |-> TRUE, level |-> l]
Below(k)    == [absolute |-> FALSE, level |-> k]

Plain(commands) ==
    [ plugin |-> "none", commands |-> commands, task |-> "text", given |-> FALSE,
      path |-> Absolute(2), cwd |-> 2, home |-> 1, agent |-> "none",
      transport |-> "one-shot", backend |-> "opencode", dryRun |-> FALSE ]

Placed ==
    { [ Plain(<<"task">>) EXCEPT !.given = TRUE, !.path = path, !.cwd = cwd,
                                 !.agent = agent, !.transport = transport, !.backend = b ] :
        path \in {Absolute(2), Absolute(3), Below(0), Below(1)}, cwd \in {1, 2},
        agent \in {"none", "listed"}, transport \in {"one-shot", "persistent", "server"},
        b \in {"codex", "opencode"} }

Commanded ==
    { [ Plain(<<command>>) EXCEPT !.task = task, !.given = TRUE, !.dryRun = dry, !.path = Absolute(3) ] :
        command \in Commands, task \in {"text", "stdin"}, dry \in BOOLEAN }
    \cup { [ Plain(<<"task">>) EXCEPT !.task = task, !.given = given ] :
        task \in Flags \cup {"missing"}, given \in BOOLEAN }

Plugged ==
    { [ Plain(<<"task">>) EXCEPT !.plugin = p, !.task = task, !.given = TRUE,
                                 !.path = Absolute(3), !.cwd = 3 ] :
        p \in {"run", "dry", "usage", "broken"}, task \in {"text"} \cup Flags }

Sequences2 ==
    { [ Plain(commands) EXCEPT !.agent = agent, !.given = given, !.cwd = 3, !.path = path,
                               !.transport = transport ] :
        commands \in { <<"config-paths", "task">>, <<"config-paths", "playbook">>,
                       <<"resume", "config-paths", "task">> },
        agent \in {"none", "builtin", "listed"}, given \in BOOLEAN,
        path \in {Absolute(3), Below(0)}, transport \in {"one-shot", "persistent"} }

MCAsks == Placed \cup Commanded \cup Plugged \cup Sequences2

Dir(models, settings) == [there |-> TRUE, models |-> models, settings |-> settings]
NoDir == [there |-> FALSE, models |-> "none", settings |-> "none"]

MCDisks ==
    { <<home, middle, lowest>> :
        home   \in {Dir("good", "none"), Dir("none", "logs")},
        middle \in {NoDir, Dir("good", "plain"), Dir("none", "bad")},
        lowest \in {NoDir, Dir("good", "none"), Dir("bad", "logs")} }
=============================================================================
