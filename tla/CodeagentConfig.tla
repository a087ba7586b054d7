--------------------------- MODULE CodeagentConfig ---------------------------
(***************************************************************************)
(* How the upstream codeagent-wrapper (resources/codewrapper-agent-rs)     *)
(* makes a backend command out of flags, a task's fields and a preset.     *)
(*                                                                         *)
(* An optional string is "none", "blank" (only spaces) or a name.          *)
(***************************************************************************)
EXTENDS Naturals, Sequences, FiniteSetsExt

CONSTANT PromptFiles    \* the prompt files that can be read

Backends == {"codex", "claude", "gemini", "opencode"}

\* The flags of a call, a preset of models.json, and the file.
Options == [ backend : STRING, model : STRING, agent : STRING, promptFile : STRING,
             effort : STRING, skip : BOOLEAN, minimalEnv : BOOLEAN,
             session : STRING, dir : STRING, text : STRING ]

Preset == [ backend : STRING, model : STRING, promptFile : STRING, effort : STRING,
            skip : BOOLEAN ]

IsModels(m) == /\ m.readable \in BOOLEAN
               /\ \A name \in DOMAIN m.agents : name \in STRING /\ m.agents[name] \in Preset

\* The order in which an installed backend is looked for.
Preference == << "claude", "codex", "gemini", "opencode" >>

OrElse(value, other) == IF value # "none" THEN value ELSE other

Normalized(value) == IF value = "blank" THEN "none" ELSE value

-----------------------------------------------------------------------------
\* `codeagent-wrapper TASK` and `resume`: the flags, and the session if any.
CliConfig(cli, task) == [cli EXCEPT !.session = task.session, !.dir = task.dir, !.text = task.text]

\* mutant: the flags of the call hide the fields of the task
FlagsFirst(task, cli) ==
    [ task EXCEPT !.backend = OrElse(cli.backend, @), !.model = OrElse(cli.model, @),
                  !.agent   = OrElse(cli.agent, @),   !.effort = OrElse(cli.effort, @),
                  !.skip = @ \/ cli.skip, !.minimalEnv = @ \/ cli.minimalEnv ]

\* A task of `--parallel`: its own fields, then the flags.  --prompt-file is
\* the flag no task falls back on.
TaskConfig(task, cli) ==
    [ task EXCEPT !.backend = OrElse(@, cli.backend), !.model = OrElse(@, cli.model),
                  !.agent   = OrElse(@, cli.agent),   !.effort = OrElse(@, cli.effort),
                  !.skip = @ \/ cli.skip, !.minimalEnv = @ \/ cli.minimalEnv ]

-----------------------------------------------------------------------------
NoPreset == [ backend |-> "none", model |-> "none", promptFile |-> "none",
              effort |-> "none", skip |-> FALSE ]

BuiltinPresets ==
    [ name \in { "oracle", "librarian", "explore", "develop",
                 "frontend-ui-ux-engineer", "document-writer" } |->
        CASE name \in {"oracle", "librarian"} ->
                [NoPreset EXCEPT !.backend = "claude", !.model = "sonnet"]
          [] name \in {"explore", "develop"} -> [NoPreset EXCEPT !.backend = "codex"]
          [] OTHER -> [NoPreset EXCEPT !.backend = "gemini"] ]

NormalizedPreset(p) ==
    [ p EXCEPT !.backend = Normalized(@), !.model = Normalized(@),
               !.promptFile = Normalized(@), !.effort = Normalized(@) ]

\* models.json replaces built-in presets whole, and adds others.  Its default
\* backend and model are read and never used.
Presets(models) ==
    [ name \in DOMAIN models.agents \cup DOMAIN BuiltinPresets |->
        IF name \in DOMAIN models.agents THEN NormalizedPreset(models.agents[name])
                                         ELSE BuiltinPresets[name] ]

\* The preset fills what is still unset; blank backends and models count as
\* unset from here on.
Applied(config, preset) ==
    [ config EXCEPT !.backend = OrElse(Normalized(@), preset.backend),
                    !.model   = OrElse(Normalized(@), preset.model),
                    !.promptFile = OrElse(@, preset.promptFile),
                    !.effort  = OrElse(@, preset.effort),
                    !.skip    = @ \/ preset.skip ]

AgentOf(config) == Normalized(config.agent)

Resolvable(config, models) ==
    AgentOf(config) = "none" \/ /\ models.readable
                                /\ AgentOf(config) \in DOMAIN Presets(models)

Resolved(config, models) ==
    IF AgentOf(config) = "none" THEN config
                                ELSE Applied(config, Presets(models)[AgentOf(config)])

\* select_backend: the backend, or "none" for either of its errors.
Selected(name, installed) ==
    IF name # "none" THEN (IF name \in Backends THEN name ELSE "none")
    ELSE LET found == { r \in DOMAIN Preference : Preference[r] \in installed }
         IN  IF found = {} THEN "none" ELSE Preference[Min(found)]

-----------------------------------------------------------------------------
\* The prompt file takes the place of the task, wherever it comes from.
TargetReadable(config) == config.promptFile \in PromptFiles \cup {"none"}

UsesStdin(config) == config.promptFile # "none" \/ config.text = "long"

\* Of the classes of variables, --minimal-env keeps the listed and the prefixed
\* ones.
Environment(config) ==
    {"essential", "prefixed"} \cup (IF config.minimalEnv THEN {} ELSE {"other"})

\* build_args of each backend, and the environment it gets.
CommandOf(config, backend) ==
    [ backend |-> backend,
      session |-> config.session,
      model   |-> config.model,
      effort  |-> IF backend = "codex" THEN config.effort ELSE "none",
      unattended |-> \/ backend = "gemini"
                     \/ backend \in {"codex", "claude"} /\ config.skip,
      prompt  |-> IF config.promptFile # "none" THEN config.promptFile ELSE config.text,
      environment |-> Environment(config) ]
=============================================================================
