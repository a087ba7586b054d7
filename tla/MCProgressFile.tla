--------------------------- MODULE MCProgressFile ---------------------------
(***************************************************************************)
(* Two tasks of a parallel call that log to one file.                      *)
(***************************************************************************)
EXTENDS ProgressFile

MCRuns == {"first", "second"}
=============================================================================
