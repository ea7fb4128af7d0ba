---------------------------- MODULE MCHostBridge ----------------------------
(* The instances of HostBridge that TLC checks.                            *)
EXTENDS HostBridge

AllFns     == {"receive", "exit", "spawn", "pid", "local"}
\* The calls of a process that talks to others: no exit, no spawn.
TalkingFns == {"receive", "pid", "local"}
=============================================================================
