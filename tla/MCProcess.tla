----------------------------- MODULE MCProcess -----------------------------
(* run_command with a limit of one unit of output, a pipe that holds three  *)
(* and reads that take two: the limit is passed within and between reads.    *)
EXTENDS Process

MCPlatforms == {"posix", "windows"}
=============================================================================
