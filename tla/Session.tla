------------------------------ MODULE Session -------------------------------
(***************************************************************************)
(* One worker process serving one control connection: the command loop of *)
(* src/server.c (ftp_main), the dispatcher of src/command.c (do_cmd,       *)
(* pre_command) and the handlers of src/core.c, src/auth.c and src/ls.c,   *)
(* with the transfer loops of core.c cut at their blocking points so that  *)
(* signals can arrive between blocks.                                      *)
(*                                                                         *)
(* The filesystem under the jail root is a set of directories, a function *)
(* from regular files to sizes and a set of symbolic links that all point *)
(* to a directory outside the jail.  "reported" is what the master learns *)
(* from this worker's state-sync messages once it has read them all.      *)
(***************************************************************************)
EXTENDS Integers, Sequences, SequencesExt, FiniteSets, VfsPath

CONSTANTS
  Args,        \* path arguments a client sends (character sequences)
  Users,       \* names a client may send with USER, "anonymous" excluded
  Accounts,    \* the names the password oracle (login_user) accepts
  AllowAnon,   \* config.allow_anon
  AllowLinks,  \* config.allow_links
  InitDirs,    \* directories under the jail root at start ("/" included)
  InitFiles,   \* regular files at start: a function path -> size
  Links,       \* symbolic links in the jail, each to a directory outside
  BlockSize,   \* XFER_BLOCK_SIZE
  MaxOffset,   \* largest offset a client sends with REST
  MaxStor      \* largest number of bytes a client uploads in one STOR

ASSUME /\ Accounts \subseteq Users /\ AllowAnon \in BOOLEAN
       /\ AllowLinks \in BOOLEAN /\ BlockSize \in Nat \ {0}

Anonymous == "anonymous"
NoUser    == "NULL"      \* login.user == NULL
Garbage   == "garbage"   \* login.user never written: new_session skips it
NoLogin   == "none"      \* roster login_name still empty
NoPath    == <<>>        \* roster path still empty
ERANGE    == "ERANGE"
OtherErr  == "other"

(***************************************************************************)
(* REST arguments as the numbers they spell: a negative one, offsets, the  *)
(* literal LLONG_MAX (here LLMax), and a number beyond it (Overflow), for  *)
(* which strtoll returns LLONG_MAX and sets errno to ERANGE.               *)
(***************************************************************************)
LLMax    == MaxOffset + 1
Overflow == MaxOffset + 2
RestArgs == {-1} \cup (0..MaxOffset) \cup {LLMax, Overflow}
Strtoll(a) == IF a = Overflow THEN LLMax ELSE a

VARIABLES
  conn,        \* "open" while ftp_main's loop runs, "closed" after it
  loggedIn,    \* session->login.logged_in
  anonymous,   \* session->login.anonymous
  user,        \* session->login.user
  cwd,         \* session->virt_path
  restartPos,  \* session->restart_pos
  pasv,        \* conn->pasv_sock != -1
  errno,       \* the worker's errno, as dorest reads it
  sigFlag,     \* a terminating bit in signal_flag
  delivered,   \* a terminating signal has reached this worker
  afterSignal, \* a command was dispatched after that
  cmd,         \* the command do_cmd last dispatched, "none" once the loop left
  xfer,        \* the current or last data transfer
  dirs, files, \* the filesystem under the jail root
  links,       \* symbolic links under the jail root
  escaped,     \* some operation read or wrote an object outside the jail
  reported     \* what the master knows of this worker

vars == <<conn, loggedIn, anonymous, user, cwd, restartPos, pasv, errno,
          sigFlag, delivered, afterSignal, cmd, xfer, dirs, files,
          links, escaped, reported>>

-----------------------------------------------------------------------------
(* The filesystem seen through the jail. *)
Parent(r)  == JoinPath(Front(Segments(r)))
UnderLink(r) == \E l \in links : IsStrictPrefix(l \o <<Slash>>, r)

(* What lstat sees at r: objects below a link are outside, taken as files. *)
Kind(r) ==
  CASE r \in links          -> "link"
    [] r \in dirs           -> "dir"
    [] r \in DOMAIN files   -> "file"
    [] UnderLink(r)         -> "file"
    [] OTHER                -> "none"

(* Following r leaves the jail: r is a link, or a path below one. *)
Outside(r) == r \in links \/ UnderLink(r)

(* vfs_stat: lstat, the link policy, then stat (which follows the link). *)
StatOK(r)   == Kind(r) # "none" /\ (Kind(r) = "link" => AllowLinks)
StatKind(r) == IF Kind(r) = "link" THEN "dir" ELSE Kind(r)
Size(r)     == IF r \in DOMAIN files THEN files[r] ELSE 1

Resolve(p) == VfsRealpath(cwd, p)

(***************************************************************************)
(* core_command_list: needs_login, needs_data, needs_arg.                  *)
(***************************************************************************)
T == TRUE
F == FALSE
Table ==
  [ABOR |-> <<T,F,F>>, ACCT |-> <<T,F,F>>, ALLO |-> <<T,F,F>>,
   CDUP |-> <<T,F,F>>, CLNT |-> <<T,F,F>>, CWD  |-> <<T,F,T>>,
   FEAT |-> <<F,F,F>>, LIST |-> <<T,T,F>>, MDTM |-> <<T,F,T>>,
   MKD  |-> <<T,F,T>>, NOOP |-> <<F,F,F>>, OPTS |-> <<F,F,F>>,
   PASS |-> <<F,F,F>>, PASV |-> <<T,F,F>>, PWD  |-> <<T,F,F>>,
   QUIT |-> <<F,F,F>>, REST |-> <<T,F,T>>, DELE |-> <<T,F,T>>,
   RETR |-> <<T,T,T>>, RMD  |-> <<T,F,T>>, SIZE |-> <<T,F,T>>,
   SYST |-> <<F,F,F>>, TYPE |-> <<T,F,T>>, USER |-> <<F,F,F>>,
   STOR |-> <<T,T,T>>]
Commands == DOMAIN Table

(* Variant: pre_command without its needs_login check. *)
PreFailureNoLogin(name, noArg) ==
  IF Table[name][2] /\ ~pasv THEN 425
  ELSE IF Table[name][3] /\ noArg THEN 501
  ELSE 0

(* pre_command: the three checks, in their order, and their replies. *)
PreFailure(name, noArg) ==
  IF Table[name][1] /\ ~loggedIn THEN 530
  ELSE IF Table[name][2] /\ ~pasv THEN 425
  ELSE IF Table[name][3] /\ noArg THEN 501
  ELSE 0

Accepts(name, noArg) == PreFailure(name, noArg) = 0

(***************************************************************************)
(* do_cmd: the command loop is waiting for a command and dispatches one.   *)
(* cmd keeps the name only of the commands the properties tell apart.     *)
(***************************************************************************)
InXfer == xfer.status = "run"
Tracked == {"PASS", "RETR", "STOR"}
Dispatch(name) ==
  /\ conn = "open" /\ ~InXfer
  /\ cmd' = IF name \in Tracked THEN name ELSE "other"
  /\ afterSignal' = (afterSignal \/ delivered)

(* ftp_main leaves its loop: "421 Goodbye!". *)
Close == conn' = "closed"

LoginV == <<loggedIn, anonymous, user>>
FsV    == <<dirs, files, links, escaped>>
SigV   == <<sigFlag, delivered>>

NoXfer == [kind |-> "none", status |-> "none", result |-> "none",
           path |-> Root, off |-> 0, want |-> 0, left |-> 0, rem |-> 0,
           len |-> 0, sent |-> 0]

(* The transfer loop's locals do not outlive doretr/dostor. *)
Forget == xfer' = NoXfer

(***************************************************************************)
(* new_session: login.user is never initialised, so the pointer holds      *)
(* whatever malloc returned: NULL on fresh memory, garbage on reused       *)
(* memory.  errno is inherited from the master across fork.                *)
(***************************************************************************)
Init ==
  /\ conn = "open"
  /\ loggedIn = FALSE /\ anonymous = FALSE
  /\ user \in {NoUser, Garbage}
  /\ cwd = Root /\ restartPos = 0 /\ pasv = FALSE
  /\ errno = OtherErr
  /\ sigFlag = FALSE /\ delivered = FALSE /\ afterSignal = FALSE
  /\ cmd = "none"
  /\ xfer = NoXfer
  /\ dirs = InitDirs /\ files = InitFiles /\ links = Links
  /\ escaped = FALSE
  /\ reported = [login |-> NoLogin, path |-> NoPath, inXfer |-> FALSE]

-----------------------------------------------------------------------------
(* pre_command refuses the command (530, 425, 501); its handler never runs. *)
Reject(name, noArg) ==
  /\ Dispatch("rejected")
  /\ Forget
  /\ ~Accepts(name, noArg)
  /\ UNCHANGED <<conn, LoginV, cwd, restartPos, pasv, errno, SigV,
                 FsV, reported>>

(* bsearch finds no entry: "500 ?". *)
Unknown ==
  /\ Dispatch("unknown")
  /\ Forget
  /\ UNCHANGED <<conn, LoginV, cwd, restartPos, pasv, errno, SigV,
                 FsV, reported>>

(* send_state(T_LOGIN): send_login copies the user name. *)
SendLoginStale(u) == UNCHANGED reported
SendLogin(u) == reported' = [reported EXCEPT !.login = u]

(* douser *)
User(u) ==
  /\ Dispatch("USER")
  /\ Forget
  /\ \/ /\ loggedIn
        /\ UNCHANGED <<anonymous, user>>
     \/ /\ ~loggedIn /\ u = Anonymous /\ AllowAnon
        /\ user' = NoUser /\ anonymous' = TRUE
     \/ /\ ~loggedIn /\ u = Anonymous /\ ~AllowAnon
        /\ user' = NoUser /\ UNCHANGED anonymous
     \/ /\ ~loggedIn /\ u # Anonymous
        /\ user' = u /\ UNCHANGED anonymous
  /\ UNCHANGED <<conn, loggedIn, cwd, restartPos, pasv, errno, SigV,
                 FsV, reported>>

(***************************************************************************)
(* dopass, with login_user as the oracle: it accepts an account name with  *)
(* the right password.  On a garbage user pointer login_user reads a       *)
(* garbage name, fails (or the worker faults): the connection ends.  Only  *)
(* the named path calls send_state(T_LOGIN).                               *)
(***************************************************************************)
Pass(good) ==
  /\ Dispatch("PASS")
  /\ Forget
  /\ \/ /\ loggedIn
        /\ UNCHANGED <<conn, loggedIn, reported>>
     \/ /\ ~loggedIn /\ anonymous
        /\ loggedIn' = TRUE
        /\ UNCHANGED <<conn, reported>>
     \/ /\ ~loggedIn /\ ~anonymous /\ user = NoUser
        /\ UNCHANGED <<conn, loggedIn, reported>>
     \/ /\ ~loggedIn /\ ~anonymous /\ user # NoUser
        /\ ~(user \in Accounts /\ good)
        /\ Close /\ UNCHANGED <<loggedIn, reported>>
     \/ /\ ~loggedIn /\ ~anonymous /\ user \in Accounts /\ good
        /\ SendLogin(user)
        /\ loggedIn' = TRUE /\ UNCHANGED conn
  /\ UNCHANGED <<anonymous, user, cwd, restartPos, pasv, errno, SigV,
                 FsV>>

(* doquit: "221 Goodbye!", then FTP_QUIT ends the loop. *)
Quit ==
  /\ Dispatch("QUIT")
  /\ Forget
  /\ Close
  /\ UNCHANGED <<LoginV, cwd, restartPos, pasv, errno, SigV, FsV, reported>>

(* Handlers that only send a reply. *)
Canned == {"SYST", "NOOP", "TYPE", "PWD", "FEAT", "OPTS", "ABOR", "ACCT",
           "ALLO", "CLNT"}

ReplyOnly(name) ==
  /\ Dispatch(name)
  /\ Forget
  /\ Accepts(name, FALSE)
  /\ UNCHANGED <<conn, LoginV, cwd, restartPos, pasv, errno, SigV,
                 FsV, reported>>
-----------------------------------------------------------------------------
(* Filesystem handlers.  A vfs call whose resolution fails (ENAMETOOLONG)  *)
(* or whose system call fails gets failed_vfs_reply: a 550 and errno set.  *)

VfsFail == errno' = OtherErr

(* vfs_stat succeeds on r; it follows r outside the jail if r leads there. *)
StatHits(r)  == r.ok /\ StatOK(r.buf)
Follow(r)    == escaped' = (escaped \/ Outside(r.buf))

(* docwd and docdup (which runs docwd on ".."). *)
ChangeDir(name, p) ==
  LET r == Resolve(p) IN
  /\ Dispatch(name)
  /\ Forget
  /\ Accepts(name, p = <<>>)
  /\ \/ /\ ~StatHits(r)
        /\ VfsFail /\ UNCHANGED <<cwd, reported, escaped>>
     \/ /\ StatHits(r) /\ StatKind(r.buf) # "dir"
        /\ Follow(r)
        /\ UNCHANGED <<cwd, reported, errno>>
     \/ /\ StatHits(r) /\ StatKind(r.buf) = "dir"
        /\ cwd' = r.buf
        /\ reported' = [reported EXCEPT !.path = r.buf]
        /\ Follow(r) /\ UNCHANGED errno
  /\ UNCHANGED <<conn, LoginV, restartPos, pasv, SigV, dirs, files,
                 links>>

(* dosize and domdtm: 213 for a regular file. *)
StatOnly(name, p) ==
  LET r == Resolve(p) IN
  /\ Dispatch(name)
  /\ Forget
  /\ Accepts(name, p = <<>>)
  /\ \/ /\ ~StatHits(r) /\ VfsFail /\ UNCHANGED escaped
     \/ /\ StatHits(r) /\ Follow(r) /\ UNCHANGED errno
  /\ UNCHANGED <<conn, LoginV, cwd, restartPos, pasv, SigV, dirs,
                 files, links, reported>>

(***************************************************************************)
(* dorest: strtoll sets errno only on overflow (LLONG_MAX returned), and   *)
(* dorest tests errno == ERANGE without clearing it first.                 *)
(***************************************************************************)
(* Variant: dorest without the offset < 0 test. *)
BadOffsetNoSign(offset, e) == offset = LLMax \/ e = ERANGE
(* dorest's test of the strtoll result. *)
BadOffset(offset, e) == offset < 0 \/ offset = LLMax \/ e = ERANGE

Rest(a) ==
  LET offset == Strtoll(a)
      e      == IF a = Overflow THEN ERANGE ELSE errno
      bad    == BadOffset(offset, e)
  IN
  /\ Dispatch("REST")
  /\ Forget
  /\ Accepts("REST", FALSE)
  /\ errno' = e
  /\ restartPos' = IF bad THEN 0 ELSE offset
  /\ UNCHANGED <<conn, LoginV, cwd, pasv, SigV, FsV,
                 reported>>

(* pasv_listen: bind walks pasv_port_start..pasv_port_end past every     *)
(* EADDRINUSE; it fails ("noport") when no port is free or bind, listen   *)
(* or getsockname fails otherwise.                                         *)
PasvListenResults == {"ok", "noport"}

(* dopasv's outcomes: socket() failing, or pasv_listen's result. *)
PasvOutcomes == PasvListenResults \cup {"sockfail"}

(***************************************************************************)
(* dopasv: the old listening socket is closed first; then socket() fails   *)
(* (return -1: the connection ends), or pasv_listen finds no free port in  *)
(* the range (425), or the socket listens (227).                           *)
(***************************************************************************)
Pasv(outcome) ==
  /\ Dispatch("PASV")
  /\ Forget
  /\ Accepts("PASV", FALSE)
  /\ \/ /\ outcome = "ok"
        /\ pasv' = TRUE /\ UNCHANGED <<conn, errno>>
     \/ /\ outcome = "noport"
        /\ pasv' = FALSE /\ errno' = OtherErr
        /\ UNCHANGED conn
     \/ /\ outcome = "sockfail"
        /\ pasv' = FALSE /\ errno' = OtherErr /\ Close
  /\ UNCHANGED <<LoginV, cwd, restartPos, SigV, FsV, reported>>

(* Entries directly below directory d. *)
Children(d) ==
  {o \in dirs \cup DOMAIN files \cup links : o # Root /\ Parent(o) = d}

(* domkd: mkdir fails with EEXIST, or ENOENT/ENOTDIR on a missing parent.  *)
Mkd(p) ==
  LET r == Resolve(p) IN
  /\ Dispatch("MKD")
  /\ Forget
  /\ Accepts("MKD", p = <<>>)
  /\ \/ /\ r.ok /\ Kind(r.buf) = "none" /\ Parent(r.buf) \in dirs
        /\ dirs' = dirs \cup {r.buf}
        /\ UNCHANGED errno
     \/ /\ ~(r.ok /\ Kind(r.buf) = "none" /\ Parent(r.buf) \in dirs)
        /\ VfsFail /\ UNCHANGED dirs
  /\ UNCHANGED <<conn, LoginV, cwd, restartPos, pasv, SigV, files,
                 links, escaped, reported>>

(* dormd: rmdir of an empty directory; the jail root itself is kept. *)
Rmd(p) ==
  LET r == Resolve(p) IN
  /\ Dispatch("RMD")
  /\ Forget
  /\ Accepts("RMD", p = <<>>)
  /\ \/ /\ r.ok /\ r.buf \in dirs \ {Root} /\ Children(r.buf) = {}
        /\ dirs' = dirs \ {r.buf}
        /\ UNCHANGED errno
     \/ /\ ~(r.ok /\ r.buf \in dirs \ {Root} /\ Children(r.buf) = {})
        /\ VfsFail /\ UNCHANGED dirs
  /\ UNCHANGED <<conn, LoginV, cwd, restartPos, pasv, SigV, files,
                 links, escaped, reported>>

(***************************************************************************)
(* dodele: unlink removes a file or the link itself; below a link it      *)
(* unlinks a file outside the jail.  No link policy is applied.            *)
(***************************************************************************)
Dele(p) ==
  LET r == Resolve(p) IN
  /\ Dispatch("DELE")
  /\ Forget
  /\ Accepts("DELE", p = <<>>)
  /\ \/ /\ r.ok /\ Kind(r.buf) \in {"file", "link"}
        /\ files' = [o \in DOMAIN files \ {r.buf} |-> files[o]]
        /\ links' = links \ {r.buf}
        /\ escaped' = (escaped \/ UnderLink(r.buf))
        /\ UNCHANGED errno
     \/ /\ ~(r.ok /\ Kind(r.buf) \in {"file", "link"})
        /\ VfsFail /\ UNCHANGED <<files, links, escaped>>
  /\ UNCHANGED <<conn, LoginV, cwd, restartPos, pasv, SigV, dirs, reported>>
-----------------------------------------------------------------------------
(***************************************************************************)
(* Data transfers.  accept_data_conn blocks on the listening socket; it    *)
(* returns a socket, -1 after "425" (any error, EINTR from a signal the    *)
(* handler ignores included), or -2 on ECONNABORTED or on a terminating    *)
(* signal, which ends the connection.  pre_command has already required a  *)
(* listening socket.                                                        *)
(***************************************************************************)
AcceptOutcomes == {"ok", "fail", "aborted", "signal"}

AcceptFails(outcome) ==
  /\ outcome = "fail"
  /\ errno' = OtherErr /\ UNCHANGED <<conn, SigV>>

AcceptQuits(outcome) ==
  /\ \/ outcome = "aborted" /\ UNCHANGED SigV
     \/ outcome = "signal" /\ ~delivered
        /\ delivered' = TRUE /\ sigFlag' = FALSE
  /\ Close /\ UNCHANGED errno

AcceptOK(outcome) == outcome = "ok"

(* transfer_file: blocks = count / XFER_BLOCK_SIZE, the loop's bound. *)
LoopBlocks(want) == want \div BlockSize

(* Variant: no send_state(T_XFER_START) before the loop. *)
ReportStartLost == UNCHANGED reported
(* send_state(T_XFER_START) *)
ReportStart == reported' = [reported EXCEPT !.inXfer = TRUE]

(* The transfer loop begins. *)
StartXfer(kind, r, off, want) ==
  /\ xfer' = [NoXfer EXCEPT !.kind = kind, !.status = "run", !.path = r,
                            !.off = off, !.want = want,
                            !.left = LoopBlocks(want),
                            !.rem = want % BlockSize]
  /\ ReportStart

(***************************************************************************)
(* doretr: stat, open (which may still fail: "openfail"), accept, the    *)
(* REST offset check, then transfer_file.                                  *)
(* restart_pos is reset only after transfer_file returns.                  *)
(***************************************************************************)
RetrStart(p, outcome) ==
  LET r == Resolve(p) IN
  /\ Dispatch("RETR")
  /\ Accepts("RETR", p = <<>>)
  /\ \/ /\ ~StatHits(r)
        /\ VfsFail /\ Forget
        /\ UNCHANGED <<conn, SigV, reported, escaped>>
     \/ /\ StatHits(r) /\ StatKind(r.buf) # "file"
        /\ Follow(r) /\ Forget
        /\ UNCHANGED <<conn, SigV, errno, reported>>
     \/ /\ StatHits(r) /\ StatKind(r.buf) = "file" /\ outcome = "openfail"
        /\ VfsFail /\ Follow(r) /\ Forget
        /\ UNCHANGED <<conn, SigV, reported>>
     \/ /\ StatHits(r) /\ StatKind(r.buf) = "file" /\ Follow(r)
        /\ \/ AcceptFails(outcome) /\ Forget /\ UNCHANGED reported
           \/ AcceptQuits(outcome) /\ Forget /\ UNCHANGED reported
           \/ /\ AcceptOK(outcome) /\ restartPos > Size(r.buf)
              /\ Forget
              /\ UNCHANGED <<conn, SigV, errno, reported>>
           \/ /\ AcceptOK(outcome) /\ restartPos <= Size(r.buf)
              /\ StartXfer("retr", r.buf, restartPos,
                           Size(r.buf) - restartPos)
              /\ UNCHANGED <<conn, SigV, errno>>
  /\ UNCHANGED <<LoginV, cwd, restartPos, pasv, dirs, files, links>>

(***************************************************************************)
(* dostor: creat (truncating, following links, no link policy), then      *)
(* accept.  (When accept fails, fd already holds its result: the created  *)
(* file's descriptor is never closed; descriptors are not modelled.)       *)
(***************************************************************************)
Creatable(r) ==
  r.ok /\ (Kind(r.buf) = "file" \/ (Kind(r.buf) = "none" /\ Parent(r.buf) \in dirs))

StorStart(p, outcome) ==
  LET r == Resolve(p) IN
  /\ Dispatch("STOR")
  /\ Accepts("STOR", p = <<>>)
  /\ \/ /\ ~Creatable(r)
        /\ VfsFail /\ Forget
        /\ UNCHANGED <<conn, SigV, reported, files, escaped>>
     \/ /\ Creatable(r)
        /\ files' = IF Outside(r.buf) THEN files
                    ELSE [o \in DOMAIN files \cup {r.buf} |->
                            IF o = r.buf THEN 0 ELSE files[o]]
        /\ Follow(r)
        /\ \/ /\ AcceptFails(outcome)
              /\ Forget /\ UNCHANGED reported
           \/ /\ AcceptQuits(outcome)
              /\ Forget /\ UNCHANGED reported
           \/ /\ AcceptOK(outcome)
              /\ StartXfer("stor", r.buf, restartPos, 0)
              /\ UNCHANGED <<conn, SigV, errno>>
  /\ UNCHANGED <<LoginV, cwd, restartPos, pasv, dirs, links>>

(***************************************************************************)
(* dolist (options already parsed off): an empty argument lists ".".      *)
(* list_directory saves virt_path, vfs_chdir's into the directory and      *)
(* opendir's "."; when opendir fails (an unreadable directory, no free     *)
(* descriptor) it returns FTP_ERROR before restoring virt_path, and no     *)
(* T_CHDIR is sent.                                                        *)
(***************************************************************************)
List(p, outcome, opendirOK) ==
  LET r == Resolve(IF p = <<>> THEN Dot ELSE p) IN
  /\ Dispatch("LIST")
  /\ Forget
  /\ Accepts("LIST", FALSE)
  /\ \/ /\ ~StatHits(r)
        /\ VfsFail /\ UNCHANGED <<conn, SigV, cwd, escaped>>
     \/ /\ StatHits(r) /\ Follow(r)
        /\ \/ AcceptFails(outcome) /\ UNCHANGED cwd
           \/ AcceptQuits(outcome) /\ UNCHANGED cwd
           \/ /\ AcceptOK(outcome) /\ StatKind(r.buf) = "dir" /\ ~opendirOK
              /\ cwd' = r.buf /\ errno' = OtherErr
              /\ UNCHANGED <<conn, SigV>>
           \/ /\ AcceptOK(outcome) /\ (StatKind(r.buf) # "dir" \/ opendirOK)
              /\ UNCHANGED <<conn, SigV, cwd, errno>>
  /\ UNCHANGED <<LoginV, restartPos, pasv, dirs, files, links,
                 reported>>

(***************************************************************************)
(* The end of doretr/dostor once the loop returns: the reply for its      *)
(* result, restart_pos = 0 (doretr only), send_state(T_XFER_STOP).  What  *)
(* store_file wrote starts at the offset it began with, after the file    *)
(* was truncated by creat.  A signal seen by server_handle_signal makes   *)
(* the loop return FTP_QUIT, which doretr and dostor still turn into      *)
(* FTP_SUCCESS for do_cmd.                                                 *)
(***************************************************************************)
Finish(x, res) ==
  /\ xfer' = [x EXCEPT !.status = "done", !.result = res]
  /\ reported' = [reported EXCEPT !.inXfer = FALSE]
  /\ restartPos' = IF x.kind = "retr" THEN 0 ELSE restartPos
  /\ files' = IF x.kind = "stor" /\ ~Outside(x.path)
                THEN [files EXCEPT ![x.path] = IF x.len = 0 THEN 0
                                               ELSE x.off + x.len]
                ELSE files
  /\ errno' = IF res \in {"abor", "error"} THEN OtherErr ELSE errno

FinishV == <<conn, LoginV, cwd, pasv, dirs, links, escaped>>

(***************************************************************************)
(* transfer_file, one block: sendfile may return short (a signal after    *)
(* part of the block, or a file shorter than its stat), yet xfer_len      *)
(* grows by a whole block and the next block starts a block further on.   *)
(* A signal caught during the block sets sigFlag; the block's count is     *)
(* added and server_handle_signal (line 341) ends the loop: the same state *)
(* as this step followed by SignalBusy, so the guard ~sigFlag loses no     *)
(* state.                                                                  *)
(***************************************************************************)
RetrBlock(k) ==
  /\ InXfer /\ xfer.kind = "retr" /\ ~sigFlag /\ xfer.left > 0
  /\ xfer' = [xfer EXCEPT !.left = @ - 1, !.len = @ + BlockSize,
                          !.sent = @ + k]
  /\ UNCHANGED <<conn, LoginV, cwd, restartPos, pasv, errno, SigV,
                 afterSignal, cmd, FsV, reported>>

(* transfer_file, the remainder: one sendfile, its count not checked. *)
RetrRemainder(k) ==
  /\ InXfer /\ xfer.kind = "retr" /\ ~sigFlag /\ xfer.left = 0
  /\ k <= xfer.rem
  /\ Finish([xfer EXCEPT !.len = @ + xfer.rem, !.sent = @ + k], "ok")
  /\ UNCHANGED <<FinishV, SigV, afterSignal, cmd>>

(* store_file, one read/write of the uploaded data. *)
StorChunk ==
  /\ InXfer /\ xfer.kind = "stor" /\ ~sigFlag /\ xfer.len < MaxStor
  /\ xfer' = [xfer EXCEPT !.len = @ + 1, !.sent = @ + 1]
  /\ UNCHANGED <<conn, LoginV, cwd, restartPos, pasv, errno, SigV,
                 afterSignal, cmd, FsV, reported>>

(* store_file: the client closes the data connection (read returns 0). *)
StorEof ==
  /\ InXfer /\ xfer.kind = "stor" /\ ~sigFlag
  /\ Finish(xfer, "ok")
  /\ UNCHANGED <<FinishV, SigV, afterSignal, cmd>>

(* Either loop: EPIPE/ECONNRESET or a 0 return (abor), another error. *)
XferFail(res) ==
  /\ InXfer /\ ~sigFlag
  /\ Finish(xfer, res)
  /\ UNCHANGED <<FinishV, SigV, afterSignal, cmd>>

(* Either loop: server_handle_signal clears the flag and answers QUIT. *)
Interrupted ==
  /\ InXfer /\ sigFlag
  /\ sigFlag' = FALSE
  /\ Finish(xfer, "quit")
  /\ UNCHANGED <<FinishV, delivered, afterSignal, cmd>>

-----------------------------------------------------------------------------
(***************************************************************************)
(* The master's SIGTERM.  Caught in read_poll's poll (EINTR): the loop    *)
(* ends.  Caught while a handler runs: only the flag is set; poll is not  *)
(* interrupted later, and nothing tests the flag before it.               *)
(***************************************************************************)
SignalIdle ==
  /\ conn = "open" /\ ~delivered /\ ~InXfer
  /\ delivered' = TRUE
  /\ Close /\ cmd' = "none"
  /\ UNCHANGED <<LoginV, cwd, restartPos, pasv, errno, sigFlag,
                 afterSignal, xfer, FsV, reported>>

SignalBusy ==
  /\ conn = "open" /\ ~delivered
  /\ delivered' = TRUE /\ sigFlag' = TRUE
  /\ UNCHANGED <<conn, LoginV, cwd, restartPos, pasv, errno,
                 afterSignal, cmd, xfer, FsV, reported>>

(* read_cmd returns FTP_QUIT: peer closed, idle timeout, line too long. *)
ClientGone ==
  /\ conn = "open" /\ ~InXfer
  /\ Close /\ cmd' = "none"
  /\ UNCHANGED <<LoginV, cwd, restartPos, pasv, errno, SigV,
                 afterSignal, xfer, FsV, reported>>
-----------------------------------------------------------------------------
Next ==
  \/ \E n \in Commands, e \in BOOLEAN : Reject(n, e)
  \/ Unknown
  \/ \E u \in Users \cup {Anonymous} : User(u)
  \/ \E good \in BOOLEAN : Pass(good)
  \/ Quit
  \/ \E n \in Canned : ReplyOnly(n)
  \/ \E p \in Args : ChangeDir("CWD", p)
  \/ ChangeDir("CDUP", DotDot)
  \/ \E n \in {"SIZE", "MDTM"}, p \in Args : StatOnly(n, p)
  \/ \E a \in RestArgs : Rest(a)
  \/ \E o \in PasvOutcomes : Pasv(o)
  \/ \E p \in Args : Mkd(p) \/ Rmd(p) \/ Dele(p)
  \/ \E p \in Args, o \in AcceptOutcomes \cup {"openfail"} : RetrStart(p, o)
  \/ \E p \in Args, o \in AcceptOutcomes : StorStart(p, o)
  \/ \E p \in Args \cup {<<>>}, o \in AcceptOutcomes, ok \in BOOLEAN :
       List(p, o, ok)
  \/ \E k \in 1..BlockSize : RetrBlock(k)
  \/ \E k \in 0..BlockSize : RetrRemainder(k)
  \/ StorChunk \/ StorEof
  \/ \E res \in {"abor", "error"} : XferFail(res)
  \/ Interrupted
  \/ SignalIdle \/ SignalBusy \/ ClientGone

Spec == Init /\ [][Next]_vars

-----------------------------------------------------------------------------
XferRec == [kind : {"none", "retr", "stor"}, status : {"none", "run", "done"},
            result : {"none", "ok", "abor", "error", "quit"},
            path : Seq(STRING), off : Nat, want : Nat, left : Nat, rem : Nat,
            len : Nat, sent : Nat]

TypeOK ==
  /\ conn \in {"open", "closed"}
  /\ {loggedIn, anonymous, pasv, sigFlag, delivered, afterSignal,
      escaped} \subseteq BOOLEAN
  /\ user \in Users \cup {NoUser, Garbage}
  /\ IsCanonical(cwd)
  /\ restartPos \in 0..MaxOffset
  /\ errno \in {ERANGE, OtherErr}
  /\ cmd \in Tracked \cup {"none", "other"}
  /\ xfer \in XferRec
  /\ dirs \subseteq Seq(STRING) /\ Root \in dirs
  /\ links \subseteq Links
  /\ reported.login \in Accounts \cup {NoLogin}

(***************************************************************************)
(* Safety of the session (checked to hold).                                *)
(***************************************************************************)

(* pre_command's needs_login flag: before PASS succeeds no command changes *)
(* the filesystem, the working directory, the restart offset, the passive *)
(* socket or the path the master is told, or starts a transfer.           *)
NoAccessBeforeLogin ==
  [][~loggedIn =>
       UNCHANGED <<dirs, files, links, escaped, cwd, restartPos, pasv, xfer,
                   reported.path, reported.inXfer>>]_vars

(* douser/dopass: a logged-in session is anonymous (allowed by the        *)
(* configuration) or runs as an account whose password was checked, and   *)
(* that account is the login name the master was sent.  A USER after      *)
(* login would break it by renaming the session.                           *)
LoginAuthorised ==
  loggedIn =>
    \/ anonymous /\ AllowAnon
    \/ ~anonymous /\ user \in Accounts /\ reported.login = user

(* send_state(T_XFER_START/T_XFER_STOP): the master's in-progress flag is  *)
(* set exactly while a transfer loop runs, whichever way the loop ends.    *)
XferReported == reported.inXfer = InXfer

-----------------------------------------------------------------------------
(***************************************************************************)
(* What spec.md says of the session and the code does not do.  Each is    *)
(* checked in a run of its own that TLC finds violated.                    *)
(***************************************************************************)

(* spec 7: a shutdown signal ends the worker; a signal caught while a      *)
(* handler or transfer runs is cleared or left pending, and the worker     *)
(* goes on reading commands.                                               *)
ShutdownHonoured == ~afterSignal

(* spec 1, 6: with allow_links off no path leads out of the jail; only    *)
(* vfs_stat checks links, and only the last component.                     *)
JailHolds == ~AllowLinks => ~escaped

=============================================================================
