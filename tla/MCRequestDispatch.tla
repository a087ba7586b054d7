-------------------------- MODULE MCRequestDispatch --------------------------
(***************************************************************************)
(* Single requests under every transport and policy with and without an    *)
(* agent, and parallel calls of two tasks, on four machines: a bare one,   *)
(* one with claude, one with an opencode that can attach, and one that     *)
(* has codex too, an older opencode, other agents and no launcher.         *)
(***************************************************************************)
EXTENDS RequestDispatch

MCAgents == {"oracle", "develop"}

Agent(b, p) == [ backend |-> b, policy |-> p ]
OldAgents == [ a \in MCAgents |-> IF a = "oracle" THEN Agent("opencode", None)
                                  ELSE Agent("claude", "bypass") ]
NewAgents == [ a \in {"oracle"} |-> Agent("codex", "auto") ]

Machine(installed, attach, launcher, key, agents) ==
    [ installed |-> installed, attach |-> attach, launcher |-> launcher,
      key |-> key, agents |-> agents ]

MCMachines == {
    Machine({}, FALSE, TRUE, TRUE, OldAgents),
    Machine({"claude"}, FALSE, TRUE, FALSE, OldAgents),
    Machine({"opencode", "claude"}, TRUE, TRUE, FALSE, OldAgents),
    Machine({"opencode", "codex", "claude"}, FALSE, FALSE, FALSE, NewAgents) }

Config(b, a, tr, p) ==
    [ backend |-> b, agent |-> a, transport |-> tr, policy |-> p, allowPromptFiles |-> FALSE ]
TaskSpec(b, a, tr, p) ==
    [ backend |-> b, agent |-> a, transport |-> tr, policy |-> p, promptFile |-> FALSE ]

Single(b, a, tr, p) ==
    [ kind |-> "single", base |-> Config(b, a, tr, p),
      specs |-> [ t \in {1} |-> TaskSpec(None, None, None, p) ] ]
Parallel(c, first, second) ==
    [ kind |-> "parallel", base |-> c,
      specs |-> [ t \in {1, 2} |-> IF t = 1 THEN first ELSE second ] ]

SingleCalls ==
    { Single(b, a, tr, p) : b \in {None, "claude", "opencode", "codex-api", "unknown"},
                            a \in {None, "develop"}, tr \in Transports, p \in Policies }

TaskSpecs ==
    { TaskSpec(None, None, None, None), TaskSpec("claude", None, None, "bypass"),
      TaskSpec(None, "oracle", None, "bypass"), TaskSpec("opencode", None, "persistent", "default"),
      TaskSpec(None, "develop", "server", None), TaskSpec("claude", None, None, "auto"),
      [ TaskSpec(None, None, None, None) EXCEPT !.promptFile = TRUE ] }
Bases == { Config(b, a, "one-shot", "default") : b \in {None, "claude"}, a \in {None, "oracle"} }
ParallelCalls == { Parallel(c, s, u) : c \in Bases, s \in TaskSpecs, u \in TaskSpecs }

MCCalls == SingleCalls \cup ParallelCalls
=============================================================================
