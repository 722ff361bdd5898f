------------------------------ MODULE Daemon ------------------------------
(***************************************************************************)
(* The master process of src/daemon.c with its roster (src/child.c), the  *)
(* state-sync pipe it reads (src/state.c) and the workers that write to   *)
(* it.  The master loop is a program counter:                              *)
(*   "check"  daemon_handle_signal at the top of the while loop,           *)
(*   "gap"    after the check, before poll() is entered,                   *)
(*   "poll"   blocked in poll(fds, 2, -1),                                 *)
(*   "conn"   handle_client for a readable listening socket,               *)
(*   "pipe"   recv_state for a readable pipe,                              *)
(*   "exit"   after the loop (remove_all_clients has run),                 *)
(*   "crashed" remove_client walked off the end of the list.               *)
(* signal_flag is the set of RECV_* bits the handler of signals.c has set; *)
(* "TERM" stands for any of SIGINT, SIGTERM, SIGHUP, SIGUSR1.  A worker is *)
(* a pid from Pids; its session is abstracted to the transfer flag, which  *)
(* decides the state changes it may report (module Session checks when).  *)
(* A message is its header's pid and type; its bytes are the header and   *)
(* state_ops' buf_size of payload, and `aligned` records whether the      *)
(* master's reads have stayed on the message boundaries of the stream.    *)
(***************************************************************************)
EXTENDS Integers, Sequences, FiniteSets

CONSTANTS Pids,        \* the pids fork() may return; bounds the forks
          MaxClients,  \* config.max_clients, -1 for no limit
          MaxPipe      \* bound on messages in flight in the pipe

NoChild == "nochild"   \* waitpid(-1, NULL, WNOHANG) with nothing to reap

VARIABLES pc,         \* where the master is in daemon_main's loop
          flag,       \* signal_flag of the master
          pending,    \* a connection waits in the listen backlog
          pipeReady,  \* poll_fd[1].revents & POLLIN of this iteration
          roster,     \* pids of the entries of the list at head
          view,       \* xfer_in_progress of each roster entry
          killed,     \* pids remove_all_clients sent SIGTERM
          life,       \* per pid: "unborn", "live", "zombie", "reaped"
          childXfer,  \* per pid: the worker's own transfer flag
          pipe,       \* messages written to pipefds[1] not yet read
          aligned     \* the next byte of the pipe starts a message

vars == <<pc, flag, pending, pipeReady, roster, view, killed, life,
          childXfer, pipe, aligned>>

(* enum ftp_statechange_type *)
MsgTypes == {"LOGIN", "CHDIR", "XFER_START", "XFER", "XFER_STOP"}

Msg == [pid : Pids, type : MsgTypes]

(* sizeof(ftp_xfer_info_t) on LP64: four uint64_t, an int, two timevals. *)
XferInfoSize == 72

(* state_ops' buf_size: the payload send_state writes after the header,   *)
(* and the offset recv_state passes seek_pipe for an unknown pid.          *)
BufSize == [LOGIN |-> 64, CHDIR |-> 1024, XFER_START |-> 256,
            XFER |-> XferInfoSize, XFER_STOP |-> XferInfoSize]

(* The bytes each recv_fun reads: MAX_LOGIN_NAME, FTP_MAX_PATH,           *)
(* FTP_MAX_NAME, and sizeof(ftp_xfer_info_t) twice.                        *)
RecvSize == [LOGIN |-> 64, CHDIR |-> 1024, XFER_START |-> 256,
             XFER |-> XferInfoSize, XFER_STOP |-> XferInfoSize]

(* seek_pipe(fd, offset): offset / SEEK_BUFFER_SIZE whole reads of 1024   *)
(* bytes, then one read of the remainder; nothing for offset 0.            *)
SeekBufferSize == 1024
SeekPipe(offset) ==
  IF offset = 0 THEN 0
  ELSE (offset \div SeekBufferSize) * SeekBufferSize + (offset % SeekBufferSize)

(* The reports a worker makes: T_LOGIN (dopass), T_CHDIR (docwd) and      *)
(* T_XFER_START (doretr, dostor) between transfers; T_XFER (throttle_pause)*)
(* and T_XFER_STOP while one runs.                                         *)
ReportTypes(x) ==
  IF x THEN {"XFER", "XFER_STOP"} ELSE {"LOGIN", "CHDIR", "XFER_START"}

(* The worker's transfer flag after it has reported type t. *)
XferAfter(t, x) == CASE t = "XFER_START" -> TRUE
                     [] t = "XFER_STOP"  -> FALSE
                     [] OTHER            -> x

Live    == {c \in Pids : life[c] = "live"}
Zombies == {c \in Pids : life[c] = "zombie"}
Unborn  == {c \in Pids : life[c] = "unborn"}
Running == pc \notin {"exit", "crashed"}

Init ==
  /\ pc = "check"
  /\ flag = {}
  /\ pending = FALSE
  /\ pipeReady = FALSE
  /\ roster = {}
  /\ view = [c \in Pids |-> FALSE]
  /\ killed = {}
  /\ life = [c \in Pids |-> "unborn"]
  /\ childXfer = [c \in Pids |-> FALSE]
  /\ pipe = <<>>
  /\ aligned = TRUE

-----------------------------------------------------------------------------
(* Variant: a handler whose switch sends every signal to RECV_SIGOTHER. *)
RaiseOther(bit) ==
  /\ flag' = flag \cup {"OTHER"}
  /\ pc' = IF pc = "poll" THEN "check" ELSE pc

(* signal_handler: the bit is or-ed in; a poll() it interrupts fails with  *)
(* EINTR and the loop goes back to daemon_handle_signal.                   *)
Raise(bit) ==
  /\ flag' = flag \cup {bit}
  /\ pc' = IF pc = "poll" THEN "check" ELSE pc

(* A terminating signal reaches the running master. *)
Terminate ==
  /\ Running
  /\ Raise("TERM")
  /\ UNCHANGED <<pending, pipeReady, roster, view, killed, life, childXfer, pipe, aligned>>

(* A client connects to the listening socket. *)
ClientConnects ==
  /\ Running /\ ~pending /\ Unborn # {}
  /\ pending' = TRUE
  /\ UNCHANGED <<pc, flag, pipeReady, roster, view, killed, life, childXfer, pipe, aligned>>

(* A worker reports a state change t: send_state's writev of a header    *)
(* and buf_size bytes of payload, one atomic write (under PIPE_BUF).       *)
ChildSend(c, t) ==
  /\ life[c] = "live" /\ Len(pipe) < MaxPipe
  /\ t \in ReportTypes(childXfer[c])
  /\ pipe' = Append(pipe, [pid |-> c, type |-> t])
  /\ childXfer' = [childXfer EXCEPT ![c] = XferAfter(t, @)]
  /\ UNCHANGED <<pc, flag, pending, pipeReady, roster, view, killed, life, aligned>>

(* A worker process ends; the kernel sends SIGCHLD to a running master. *)
ChildExit(c) ==
  /\ life[c] = "live"
  /\ life' = [life EXCEPT ![c] = "zombie"]
  /\ IF Running THEN Raise("CHLD") ELSE UNCHANGED <<pc, flag>>
  /\ UNCHANGED <<pending, pipeReady, roster, view, killed, childXfer, pipe, aligned>>

-----------------------------------------------------------------------------
(* The loop ends: remove_all_clients(head, ret != FTP_QUIT) sends SIGTERM  *)
(* to every entry (ret is never FTP_QUIT in the master) and frees them.    *)
Shutdown ==
  /\ pc' = "exit"
  /\ killed' = killed \cup roster
  /\ roster' = {}

(* Variant: `if( signal_flag )` in place of the RECV_SIGCHLD test. *)
ChldPendingAny(f) == f # {}
(* `if( signal_flag & RECV_SIGCHLD )` *)
ChldPending(f) == "CHLD" \in f

(* `signal_flag &= !RECV_SIGCHLD;`: !RECV_SIGCHLD is 0, every bit goes. *)
ClearChld(f) == {}

(* waitpid(-1, NULL, WNOHANG) returns any one zombie, or nothing. *)
WaitResult == IF Zombies = {} THEN {NoChild} ELSE Zombies

(* daemon_handle_signal, run with all signals blocked: reap one child if  *)
(* SIGCHLD is pending, then quit if any bit is still set.                  *)
HandleSignal ==
  /\ pc = "check"
  /\ \E d \in IF ChldPending(flag) THEN WaitResult ELSE {NoChild} :
       LET f == IF ChldPending(flag) THEN ClearChld(flag) ELSE flag IN
       /\ life' = [c \in Pids |-> IF c = d THEN "reaped" ELSE life[c]]
       /\ CASE ChldPending(flag) /\ d \notin roster ->
                 pc' = "crashed" /\ flag' = f /\ UNCHANGED <<roster, killed>>
            [] f # {} ->
                 flag' = {} /\ Shutdown
            [] OTHER ->
                 pc' = "gap" /\ flag' = f
                 /\ roster' = (IF ChldPending(flag) THEN roster \ {d} ELSE roster)
                 /\ UNCHANGED killed
  /\ UNCHANGED <<pending, pipeReady, view, childXfer, pipe, aligned>>

(* Between the check and poll(): the master enters poll. *)
EnterPoll ==
  /\ pc = "gap"
  /\ pc' = "poll"
  /\ UNCHANGED <<flag, pending, pipeReady, roster, view, killed, life, childXfer, pipe, aligned>>

(* Variant: poll_fd[1] registered without POLLIN. *)
ReadableConnOnly == pending

(* poll_fd[0] and poll_fd[1] both wait for POLLIN. *)
Readable == pending \/ pipe # <<>>

(* poll() returns with a readable socket or pipe. *)
Poll ==
  /\ pc = "poll" /\ Readable
  /\ pipeReady' = (pipe # <<>>)
  /\ pc' = IF pending THEN "conn" ELSE "pipe"
  /\ UNCHANGED <<flag, pending, roster, view, killed, life, childXfer, pipe, aligned>>

AfterConn == IF pipeReady THEN "pipe" ELSE "check"

(* handle_client: accept() interrupted by a signal returns FTP_SUCCESS. *)
AcceptInterrupted ==
  /\ pc = "conn"
  /\ pc' = AfterConn
  /\ UNCHANGED <<flag, pending, pipeReady, roster, view, killed, life, childXfer, pipe, aligned>>

(* handle_client: any other accept() error is FTP_ERROR and ends the loop. *)
AcceptFails ==
  /\ pc = "conn"
  /\ Shutdown
  /\ UNCHANGED <<flag, pending, pipeReady, view, life, childXfer, pipe, aligned>>

(* pre_server refuses when config.max_clients is not -1 and               *)
(* count_clients(head) >= config.max_clients.                              *)
RefuseOrAdmit(n) == MaxClients # -1 /\ n >= MaxClients

(* handle_client: accepted, but refused ("421 Too many clients") or       *)
(* fork() failed; the socket is closed and the loop goes on.              *)
Refuse(forkFailed) ==
  /\ pc = "conn"
  /\ IF forkFailed THEN ~RefuseOrAdmit(Cardinality(roster))
                   ELSE RefuseOrAdmit(Cardinality(roster))
  /\ pending' = FALSE
  /\ pc' = AfterConn
  /\ UNCHANGED <<flag, pipeReady, roster, view, killed, life, childXfer, pipe, aligned>>

(* handle_client: fork() gives pid c; new_client zeroes the entry and     *)
(* add_client appends it; the child runs ftp_main.                         *)
Spawn(c) ==
  /\ pc = "conn" /\ life[c] = "unborn"
  /\ ~RefuseOrAdmit(Cardinality(roster))
  /\ pending' = FALSE
  /\ life' = [life EXCEPT ![c] = "live"]
  /\ roster' = roster \cup {c}
  /\ view' = [view EXCEPT ![c] = FALSE]
  /\ pc' = AfterConn
  /\ UNCHANGED <<flag, pipeReady, killed, childXfer, pipe, aligned>>

(* Variant: find_client's NULL result taken as a match. *)
KnownAny(p) == TRUE

(* find_client: the pid has an entry in the list at head. *)
Known(p) == p \in roster

(* Variant: recv_xfer_stop leaving xfer_in_progress set. *)
XferFlagStartOnly(m, x) == IF m.type = "XFER_START" THEN TRUE ELSE x

(* recv_xfer_start sets, recv_xfer_stop clears xfer_in_progress; the      *)
(* other recv_funs leave it.                                               *)
XferFlag(m, x) == XferAfter(m.type, x)

(* The payload bytes recv_state consumes: the recv_fun's read for a       *)
(* listed pid, seek_pipe(buf_size) for an unknown one.                     *)
Consumed(m) == IF Known(m.pid) THEN RecvSize[m.type] ELSE SeekPipe(BufSize[m.type])

(* recv_state: read the header; on a boundary the magic and type check    *)
(* out, find_client, and the recv_fun or seek_pipe consumes the payload;   *)
(* off a boundary the magic is wrong, FTP_ERROR ends the loop.             *)
RecvState ==
  /\ pc = "pipe"
  /\ LET m == Head(pipe) IN
       IF aligned
       THEN /\ view' = IF Known(m.pid)
                         THEN [view EXCEPT ![m.pid] = XferFlag(m, @)] ELSE view
            /\ aligned' = (Consumed(m) = BufSize[m.type])
            /\ pc' = "check"
            /\ UNCHANGED <<roster, killed>>
       ELSE /\ Shutdown
            /\ UNCHANGED <<view, aligned>>
  /\ pipe' = Tail(pipe)
  /\ pipeReady' = FALSE
  /\ UNCHANGED <<flag, pending, life, childXfer>>

Next ==
  \/ Terminate \/ ClientConnects
  \/ \E c \in Pids : (\E t \in MsgTypes : ChildSend(c, t)) \/ ChildExit(c) \/ Spawn(c)
  \/ HandleSignal \/ EnterPoll \/ Poll
  \/ AcceptInterrupted \/ AcceptFails
  \/ \E b \in BOOLEAN : Refuse(b)
  \/ RecvState

Spec == Init /\ [][Next]_vars

(* handle_client: fork() gives pid c and the child runs ftp_main, but     *)
(* new_client's malloc fails; the parent returns FTP_ERROR before          *)
(* add_client, the loop breaks and remove_all_clients runs over the list.  *)
SpawnUntracked(c) ==
  /\ pc = "conn" /\ life[c] = "unborn"
  /\ ~RefuseOrAdmit(Cardinality(roster))
  /\ pending' = FALSE
  /\ life' = [life EXCEPT ![c] = "live"]
  /\ Shutdown
  /\ UNCHANGED <<flag, pipeReady, view, childXfer, pipe, aligned>>

(* The master with new_client's allocation allowed to fail. *)
NextAllocFails == Next \/ \E c \in Pids : SpawnUntracked(c)
AllocFailsSpec == Init /\ [][NextAllocFails]_vars

(* The master's own steps.  It is one process that the kernel keeps       *)
(* scheduling, so it is weakly fair; clients, workers and signals are not: *)
(* nothing obliges them to act.                                            *)
Master ==
  \/ HandleSignal \/ EnterPoll \/ Poll
  \/ AcceptInterrupted \/ AcceptFails
  \/ \E b \in BOOLEAN : Refuse(b)
  \/ \E c \in Pids : Spawn(c)
  \/ RecvState

FairSpec == Spec /\ WF_vars(Master)

(* The roster seen as the table of Supervisor: a zombie is a dead worker,  *)
(* a reaped one is gone, the table is done once the loop has ended.        *)
Sup == INSTANCE Supervisor WITH
         members   <- roster,
         status    <- [c \in Pids |-> CASE life[c] = "zombie" -> "dead"
                                       [] life[c] = "reaped" -> "gone"
                                       [] OTHER              -> life[c]],
         xfer      <- view,
         signalled <- killed,
         done      <- pc = "exit"

-----------------------------------------------------------------------------
TypeOK ==
  /\ pc \in {"check", "gap", "poll", "conn", "pipe", "exit", "crashed"}
  /\ flag \subseteq {"CHLD", "TERM"}
  /\ pending \in BOOLEAN /\ pipeReady \in BOOLEAN
  /\ roster \subseteq Pids /\ killed \subseteq Pids
  /\ view \in [Pids -> BOOLEAN] /\ childXfer \in [Pids -> BOOLEAN]
  /\ life \in [Pids -> {"unborn", "live", "zombie", "reaped"}]
  /\ pipe \in Seq(Msg) /\ Len(pipe) <= MaxPipe
  /\ aligned \in BOOLEAN

(* The master's xfer_in_progress of a worker agrees with the worker's own  *)
(* flag once the pipe holds no message of that worker: recv_state applies   *)
(* each worker's messages in the order send_state wrote them.               *)
ViewsAgree ==
  \A c \in roster :
    (\A i \in 1..Len(pipe) : pipe[i].pid # c) => view[c] = childXfer[c]

(* daemon_handle_signal never passes remove_client a pid that is not in    *)
(* the list, which would make its loop dereference the NULL next pointer.  *)
MasterNeverCrashes == pc # "crashed"

(* When the master loop has ended, every worker still running was sent     *)
(* SIGTERM by remove_all_clients: no worker outlives the server unsignalled *)
(* (spec.md 4.5: fork creates a roster entry in the parent, and the loop's *)
(* exit terminates all tracked workers).                                    *)
NoOrphanOnShutdown == pc = "exit" => Live \subseteq killed

(* A terminating signal pending when daemon_handle_signal runs ends the    *)
(* loop (spec.md 4.5: "Termination signal sets a pending flag causing the  *)
(* loop to exit").                                                          *)
TermHonoured ==
  [][pc = "check" /\ pc' # "check" /\ "TERM" \in flag => pc' = "exit"]_vars

(* Whenever the master blocks in poll with no SIGCHLD pending, every dead  *)
(* worker has been reaped and its roster entry destroyed (spec.md 4.5:     *)
(* "Child-death notification sets a pending flag; next iteration reaps").   *)
ZombiesReaped == pc = "poll" /\ ~ChldPending(flag) => Zombies = {}

(* The master loop implements the roster's contract: admissions under      *)
(* max_clients, removal only of reaped workers, transfer reports only for  *)
(* listed workers, SIGTERM to every listed worker when the loop ends.      *)
Refines == Sup!Spec

(* A full state-sync pipe, on which every worker's send_state blocks in    *)
(* writev, is eventually read by the running master: poll wakes for the    *)
(* pipe, and handle_client passes on to recv_state when both are ready.    *)
PipeDrains == Len(pipe) = MaxPipe ~> (Len(pipe) < MaxPipe \/ ~Running)
====
