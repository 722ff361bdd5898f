----------------------------- MODULE MCDaemon -----------------------------
EXTENDS Daemon, TLC

CONSTANTS p1, p2, p3

(* Three forks: enough for two live workers at max_clients 2 and a third  *)
(* connection to be refused or to follow a reaped one.                     *)
MCPids == {p1, p2, p3}

(* Pids are interchangeable: nothing in the master orders them. *)
MCSym == Permutations(MCPids)
====
