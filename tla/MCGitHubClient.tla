---------------------------- MODULE MCGitHubClient ----------------------------
(***************************************************************************)
(* Two jobs that use the client at the same time, for TLC.                 *)
(***************************************************************************)
EXTENDS GitHubClient

CONSTANTS j1, j2
=============================================================================
