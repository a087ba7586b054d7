------------------------- MODULE MCCodeagentRunner -------------------------
(***************************************************************************)
(* Calls for checking CodeagentRunner: one task under every mix of flags,  *)
(* presets and installed backends; one task under every behaviour of its   *)
(* backend; lists with chains, circles, unknown and repeated ids.          *)
(***************************************************************************)
EXTENDS CodeagentRunner, TLC

NoFlags == [ backend |-> "none", model |-> "none", agent |-> "none",
             promptFile |-> "none", effort |-> "none", skip |-> FALSE,
             minimalEnv |-> FALSE, session |-> "none", dir |-> "none", text |-> "short" ]

Task(id, deps) == NoFlags @@ [id |-> id, deps |-> deps]

Builtin == [readable |-> TRUE, agents |-> <<>>]

Edited == [ readable |-> TRUE,
            agents |-> "oracle" :> [NoPreset EXCEPT !.backend = "blank", !.model = "opus"]
                    @@ "mine" :> [NoPreset EXCEPT !.backend = "codex", !.effort = "high",
                                                  !.promptFile = "plan", !.skip = TRUE] ]

Malformed == [Builtin EXCEPT !.readable = FALSE]

Plain(mode, tasks) ==
    [ mode |-> mode, cli |-> NoFlags, tasks |-> tasks, parses |-> TRUE, workers |-> 2,
      models |-> Builtin, installed |-> {"claude", "codex"}, cwdExists |-> TRUE,
      forks |-> FALSE, garbles |-> FALSE, interrupted |-> FALSE, lines |-> 0 ]

Flagged ==
    { [ NoFlags EXCEPT !.backend = b, !.model = m, !.agent = a, !.promptFile = p, !.effort = e ] :
        b \in {"none", "codex", "blank"}, m \in {"none", "gpt"},
        a \in {"none", "oracle", "mine"}, p \in {"none", "review"}, e \in {"none", "low"} }

OneTask(text, session) ==
    << [Task("a", {}) EXCEPT !.text = text, !.session = session] >>

ConfigCalls ==
    { [ Plain("new", OneTask("short", "none")) EXCEPT
          !.cli = f, !.models = m, !.installed = installed ] :
        f \in Flagged, m \in {Builtin, Edited, Malformed},
        installed \in {{"codex", "gemini"}, {"opencode", "codex", "claude"}} }

RunCalls ==
    { [ Plain(mode, OneTask(text, session)) EXCEPT
          !.lines = 2, !.forks = forks, !.garbles = garbles, !.interrupted = TRUE ] :
        mode \in {"new", "resume"}, text \in {"short", "long", "blank"},
        session \in {"s1", "invalid"}, forks \in BOOLEAN, garbles \in BOOLEAN }

Long(id, deps) == [Task(id, deps) EXCEPT !.text = "long"]

Lists ==
    { <<>>,
      << Task("b", {"a"}), Long("a", {}), Task("c", {}) >>,
      << Long("a", {}), Task("b", {"a"}), Task("c", {"b"}) >>,
      << Long("a", {}), Task("b", {}), Task("c", {"a", "b"}) >>,
      << Task("a", {"b"}), Task("b", {"a"}), Task("c", {}) >>,
      << Task("a", {}), Task("b", {"d"}), Task("a", {"b"}) >>,
      << Task("a", {}), Task("b", {"a"}), Long("a", {}) >>,
      << Task("a", {"a"}) >> }

\* Two tasks whose fields compete with the flags of the call.
FieldList ==
    << [Task("a", {}) EXCEPT !.backend = "claude", !.agent = "mine", !.promptFile = "review"],
       [Task("b", {}) EXCEPT !.model = "blank", !.effort = "none", !.dir = "w"] >>

ParallelCalls ==
    { [Plain("parallel", list) EXCEPT !.workers = workers] :
        list \in Lists, workers \in 0 .. 2 }
    \cup { [Plain("parallel", list) EXCEPT !.parses = FALSE] : list \in Lists }
    \cup { [ Plain("parallel", FieldList) EXCEPT
               !.models = Edited, !.cwdExists = there,
               !.cli.backend = "codex", !.cli.model = "gpt", !.cli.effort = "low",
               !.cli.promptFile = "plan", !.cli.agent = "oracle" ] : there \in BOOLEAN }
    \cup { [ Plain("parallel", << Long("a", {}), Task("b", {"a"}) >>) EXCEPT
               !.interrupted = TRUE, !.forks = forks ] : forks \in BOOLEAN }

MCCalls == ConfigCalls \cup RunCalls \cup ParallelCalls

MCIds == {"a", "b", "c", "d"}
=============================================================================
