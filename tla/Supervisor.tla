----------------------------- MODULE Supervisor -----------------------------
(***************************************************************************)
(* What the master's roster of workers (src/child.c) promises, without    *)
(* the poll loop, the signal flag or the pipe: the table admits a worker  *)
(* only below config.max_clients (-1: no limit), drops it only after it   *)
(* died and was reaped, records a worker's transfer reports only while    *)
(* the worker is in the table, and on stopping sends SIGTERM to every     *)
(* worker it holds.                                                        *)
(* Module Daemon implements it (Daemon's Refines).                         *)
(***************************************************************************)
EXTENDS Integers, FiniteSets

CONSTANTS Pids, MaxClients

VARIABLES
  members,    \* the workers in the table
  status,     \* per pid: "unborn", "live", "dead" (unreaped), "gone"
  xfer,       \* per pid: the table's transfer-in-progress flag
  signalled,  \* the workers sent SIGTERM when the table was emptied
  done        \* the table has been emptied for good

vars == <<members, status, xfer, signalled, done>>

Init ==
  /\ members = {}
  /\ status = [c \in Pids |-> "unborn"]
  /\ xfer = [c \in Pids |-> FALSE]
  /\ signalled = {}
  /\ done = FALSE

(* new_client and add_client, after pre_server's count. *)
Admit(c) ==
  /\ ~done /\ status[c] = "unborn"
  /\ MaxClients = -1 \/ Cardinality(members) < MaxClients
  /\ members' = members \cup {c}
  /\ status' = [status EXCEPT ![c] = "live"]
  /\ xfer' = [xfer EXCEPT ![c] = FALSE]
  /\ UNCHANGED <<signalled, done>>

(* A worker ends, before or after the table is emptied. *)
Die(c) ==
  /\ status[c] = "live"
  /\ status' = [status EXCEPT ![c] = "dead"]
  /\ UNCHANGED <<members, xfer, signalled, done>>

(* waitpid reaps a dead worker and remove_client drops its entry. *)
Reap(c) ==
  /\ ~done /\ status[c] = "dead" /\ c \in members
  /\ members' = members \ {c}
  /\ status' = [status EXCEPT ![c] = "gone"]
  /\ UNCHANGED <<xfer, signalled, done>>

(* recv_state applies a worker's T_XFER_START or T_XFER_STOP. *)
Report(c, b) ==
  /\ ~done /\ c \in members
  /\ xfer' = [xfer EXCEPT ![c] = b]
  /\ UNCHANGED <<members, status, signalled, done>>

(* remove_all_clients(head, TRUE): SIGTERM to every entry, all freed. *)
Stop ==
  /\ ~done
  /\ signalled' = signalled \cup members
  /\ members' = {}
  /\ done' = TRUE
  /\ UNCHANGED <<status, xfer>>

Next ==
  \/ Stop
  \/ \E c \in Pids : Admit(c) \/ Die(c) \/ Reap(c)
  \/ \E c \in Pids, b \in BOOLEAN : Report(c, b)

Spec == Init /\ [][Next]_vars
=============================================================================
