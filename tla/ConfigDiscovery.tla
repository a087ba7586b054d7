-------------------------- MODULE ConfigDiscovery --------------------------
(***************************************************************************)
(* `discover_config` (core/project_config.rs): which .wrangle directory    *)
(* serves a working directory.                                             *)
(*                                                                         *)
(* Directories are the levels of one path, 1 the outermost.  A path is     *)
(* absolute, or goes down from the current directory; walking up from a    *)
(* relative one stops at the current directory, where it is empty.         *)
(***************************************************************************)
EXTENDS Naturals, FiniteSets

CONSTANT Depth      \* bound: levels of directories

ASSUME DepthAssumption == Depth \in Nat \ {0}

Levels == 1 .. Depth

\* What a level's .wrangle holds, if it has one: models.json and config.json
\* ("logs" names a log directory beside itself).
WrangleDir == [ there : BOOLEAN, models : {"none", "good", "bad"},
                settings : {"none", "plain", "logs", "bad"} ]

Path == [absolute : BOOLEAN, level : 0 .. Depth]

Here(path, cwd) == IF path.absolute THEN path.level ELSE cwd + path.level

\* The levels looked at.  An absolute walk passes over the home's .wrangle; a
\* relative candidate is never equal to that absolute path.
Walked(path, cwd, home) ==
    IF path.absolute THEN 1 .. path.level \ {home} ELSE cwd .. Here(path, cwd)

\* discover_project_config_dir: 0 for None.  Levels that are no directories
\* hold nothing, so starting at a parent makes no difference.
ProjectDir(disk, path, cwd, home) ==
    LET found == { l \in Walked(path, cwd, home) \cap Levels : disk[l].there }
    IN  IF found = {} THEN 0 ELSE CHOOSE l \in found : \A k \in found : k <= l

\* The nearest .wrangle alone is asked for each file; then the home's.
ModelsFile(disk, project, home) ==
    IF project # 0 /\ disk[project].models # "none" THEN project ELSE home

SettingsFile(disk, project, home) ==
    IF project # 0 /\ disk[project].settings # "none" THEN project
    ELSE IF disk[home].settings # "none" THEN home ELSE 0

\* discover_config: the files' levels, or an error when the settings that were
\* found do not parse.
Discovery(disk, path, cwd, home) ==
    LET project  == ProjectDir(disk, path, cwd, home)
        settings == SettingsFile(disk, project, home)
    IN  [ ok      |-> settings = 0 \/ disk[settings].settings # "bad",
          project |-> project,
          models  |-> ModelsFile(disk, project, home),
          logs    |-> IF settings # 0 /\ disk[settings].settings = "logs"
                      THEN settings ELSE home ]
=============================================================================
