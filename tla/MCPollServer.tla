---------------------------- MODULE MCPollServer ----------------------------
(* Small instances of PollServer for TLC.                                  *)
EXTENDS PollServer
=============================================================================
