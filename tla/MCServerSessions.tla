-------------------------- MODULE MCServerSessions --------------------------
(***************************************************************************)
(* Four calls over two server runs: enough for two conversations of two    *)
(* calls, or three calls that race on one handle before a fourth follows.  *)
(***************************************************************************)
EXTENDS ServerSessions
=============================================================================
