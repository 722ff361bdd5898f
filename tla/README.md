# TLA+ models of the FTP server

These modules model the process-per-connection FTP server in `src/`. Each module is translated from the C source. `PROJECT.json` maps every definition to the lines it models, and lists the runs, mutants, findings and hazards.

## The system

- **Master** (`daemon.c`, `child.c`, `signals.c`). It polls the listening socket and the read end of a pipe shared by all workers.
  - For each connection it checks `max_clients` in `pre_server`, forks, and appends a roster entry.
  - For each pipe message it decodes one state-sync record (`state.c`) into the roster.
  - `signal_flag` is set by `signal_handler` and read at the top of the loop by `daemon_handle_signal`. That function reaps one child on SIGCHLD and quits on any other bit.
- **Worker** (`server.c` `ftp_main`). It runs read_cmd → parse_cmd → do_cmd → remove_cmd until a step returns nonzero.
  - `do_cmd` looks the command up in `core_command_list` and applies `pre_command`'s three checks: login (530), data socket (425), argument (501).
  - It then runs the handler (`core.c`, `auth.c`, `ls.c`).
  - Handlers resolve client paths through `vfs.c`, and report login, chdir and transfer start/stop to the master with `send_state`.
- **Command line buffer** (`server.c` `read_cmd`, `parse_cmd`, `remove_cmd`). Bytes from the control socket collect in a `line_len` (1024) byte buffer until it holds an LF. `parse_cmd` cuts the first line out and splits it into command and argument. `remove_cmd` memmoves the unparsed rest to the front.
- **Start-up and configuration** (`main.c`, `config.c`, `util.c` `trim_whitespace`). `main` runs `load_defaults`, `parse_args` and `load_config` before it starts the master. `load_config` maps the file; `parse_config` walks it line by line, and `parse_attribute` writes each `Name=value` line into the global `config`; `check_config` validates the result. `main` then builds the command pool: `init_command_pool` allocates 16 entries, `add_command_list` appends `core_command_list` (doubling the pool when full) and qsorts it; `do_cmd` later finds a command word with `bsearch`, both comparing with `strcasecmp`.
- **Throttle** (`throttle.c`). After every block `transfer_file`/`store_file` add its size to `xfer_len` and `probe_len` and call `throttle_pause`. It sleeps until the current probe window's bytes have taken `probe_len / throttle_rate` ms, and starts a new window (sending `T_XFER`) when the window is older than 500 ms.
- **MDTM** (`core.c` `domdtm`, `util.c` `convert_time`, `is_leap`). `domdtm` stats the file, converts `st_mtime` to a `struct tm` by hand, and replies `213 YYYYMMDDhhmmss`.
- **Path resolver** (`vfs.c` `vfs_realpath`). It resolves a client path against the session's cwd into a static `virt_path` buffer of `FTP_MAX_PATH` bytes inside the jail root.

## Modules

| Module | Models | State ↔ code |
|---|---|---|
| `VfsPath` | `vfs_realpath` as pure operators over sequences of one-character strings: the scan into blocks, `.`/`..`/name steps with the ENAMETOOLONG check, the pop loop, the trailing `/` strip. It also holds the reference resolution of spec.md 4.1 (`CanonicalPath`). | none (pure) |
| `Vfs` | The static `virt_path` buffer and the caller's cwd. `VfsCall` stands for every `vfs_*` call; `VfsChdir` is `vfs_chdir`. | `virt_path`, `cwd` |
| `Session` | One worker: every command handler is an action with `pre_command`'s gate (table below), plus the RETR/STOR transfer loops one block at a time, SIGTERM arriving idle or busy, and the client going away. The filesystem is a set of directories, files with sizes, and links to outside the jail. `reported` is what the master has been told (login, path, in-transfer). | `loggedIn/anonymous/user` = `session->login`; `cwd` = `virt_path`; `restartPos`; `pasv` = `pasv_sock != -1`; `errno`; `sigFlag/delivered`; `xfer` = transfer_file/store_file locals |
| `CmdBuffer` | `ftp_main`'s loop over the command buffer. `Recv` is one `recv` of any size the buffer allows; `PeerClosed` and `ReadFails` are `read_poll`'s ends (EOF; timeout, reset, error or SIGTERM). `Handle` is `parse_cmd`, `do_cmd` and `remove_cmd` in one step. Stale bytes (malloc junk, NULs written by `parse_cmd`, bytes left behind by `memmove`) are kept. `RefCommands` is the reference: the client's stream cut into lines. | `line`, `dirty_len` = `command->line`, `command->dirty_len`; `stream` = bytes not yet received; `sent`, `handled` are history |
| `Config` | `main`'s start-up as a state machine: `LoadDefaults`, `ParseArgs`/`BadArgs`, then `load_config`'s outcomes (`OpenFails`, `EmptyFile`, `Parse`, `Check`), then `InitCommands` or `PoolAllocFails`. `parse_config`, `parse_attribute`, the int/bool/string parsers and `trim_whitespace` are operators over the file's bytes; a C string is read from a buffer up to its NUL, and the NULs the code writes are kept. `RefParse` is the reference: the file cut into LF-separated lines, blank and `#` lines dropped, each other line applied in order. | `stage`; `file` = the bytes at `config_path`; `config` = the global; `parsed` = `parse_config`'s result; `commands` = `command_pool`, `command_pool_size` |
| `Throttle` | `throttle_pause` whole as `Pause`, one block of either transfer loop as `Send(d, n)` (n bytes in d ms). Time is integer ms since `xfer_start`. | `now`; `probeStart` = `xfer_probe`; `probeLen` = `probe_len`; `xferLen` = `xfer_len`; `phase` = in the send loop or in `throttle_pause` |
| `Mdtm` | `domdtm` as one action; `convert_time`'s year and month loops as RECURSIVE operators returning the set of possible outcomes, because `is_leap` returns an undefined value for years divisible by 400 and the month loop can read past `days_in_month`. `RefMdtm` is the reference: the proleptic Gregorian date of the day count, months 1..12. | `mtime` = `st.st_mtime`; `reply` = the 213 reply's six fields, or 550 |
| `CommandPool` | `command.c`'s pool as pure operators: `AddCommand` with doubling, `AddCommandList` with qsort (TLC's `SortSeq` under `compare_commands`), glibc's `bsearch` as the RECURSIVE `BSearch` under `compare_key_to_cmd`, and `strcasecmp` over C strings held as tuples of letters. `RefLookup` is the reference: the entry whose name equals the word ignoring case. | none (pure); `Config`'s `commands` holds the pool |
| `Supervisor` | The roster's contract (`child.c`): admit below `max_clients`, drop only a reaped worker, record reports only for listed workers, SIGTERM to all at the end. | `members`, `status`, `xfer`, `signalled`, `done` |
| `Daemon` | The master loop as a program counter (check, gap, poll, conn, pipe, exit, crashed), its `signal_flag`, the roster, the pipe as a FIFO of messages of all five `ftp_statechange_type`s with their byte framing (`aligned`: the header and `state_ops` payload `send_state` writes against what `recv_state`'s `recv_fun` reads or `seek_pipe` skips), and the workers as pids that live, exit (zombie) and are reaped. | `pc`, `flag`, `roster`, `view` = `xfer_in_progress`, `life`, `pipe`, `aligned` |

Session's actions and the code they model:

| Action(s) | Code |
|---|---|
| `Reject`, `Unknown` | `do_cmd` and `pre_command` |
| `User`, `Pass` | `douser`, `dopass` |
| `ChangeDir` | `docwd`, `docdup` |
| `StatOnly` | `dosize`, `domdtm` |
| `Rest` | `dorest` |
| `Pasv` | `dopasv` |
| `Mkd`, `Rmd`, `Dele` | `domkd`, `dormd`, `dodele` |
| `RetrStart`, `StorStart`, `List` | `doretr`, `dostor`, `dolist`/`list_directory`, with `accept_data_conn`'s four outcomes |
| `RetrBlock`, `RetrRemainder` | `transfer_file` |
| `StorChunk`, `StorEof` | `store_file` |
| `XferFail`, `Interrupted`, `Finish` | how either loop ends |
| `SignalIdle`, `SignalBusy` | SIGTERM in `read_poll` and during a handler |
| `ClientGone` | `read_cmd` returning quit |

`Daemon` implements `Supervisor`: `Sup == INSTANCE Supervisor WITH members <- roster, status <- life (zombie as dead, reaped as gone), xfer <- view, signalled <- killed, done <- pc = "exit"`, and the run checks `Refines == Sup!Spec`.

The MC modules (`MCVfs`, `MCSession`, `MCCmdBuffer`, `MCConfig`, `MCMdtm`, `MCDaemon`; `MCThrottle.cfg` sets Throttle's constants directly) give the constants their values. `MCDaemon` declares the pids as model values. `MCDaemonTerm.cfg`, `MCDaemonZombie.cfg` and `MCDaemonOrphan.cfg` use symmetry over them; this is sound because nothing in the master orders pids. `MCDaemon.cfg` does not, because it checks liveness.

## Runs

| Run | Expect | What it shows |
|---|---|---|
| `vfs` | pass | Every path of up to 5 characters over `/ . a` (this includes `../..`), from every cwd reachable by CWD with `FTP_MAX_PATH` = 7, satisfies two properties besides `TypeOK`. It resolves to the spec's canonical path (`ResolveMatchesReference`); since cwd only ever takes accepted results, cwd is canonical as a consequence. Results fit the buffer (`ResolvedFitsBuffer`). |
| `session` | pass | Anonymous and named login, REST in −1..2 plus LLONG_MAX and overflow, one file `/f`, and block size 1. No state change happens before login (`NoAccessBeforeLogin`). A login is authorised and reported (`LoginAuthorised`). The master's in-transfer flag matches the loop (`XferReported`). |
| `session_shutdown` | violation | SIGTERM during a handler is ignored; the worker keeps serving. |
| `session_jail` | violation | With `allow_links` off, `/l/f` still reaches outside the jail. |
| `throttle` | violation | At `TransferRate` 1 (bytes/ms), with 4096-byte blocks that take no time to send. The first pause sleeps to 4096 ms. The second finds the window 4096 ms old, restarts it at 4096, and still sleeps to 8192 ms for the old window's 8192 bytes. The third pause counts that sleep as the new window's elapsed time and does not sleep. So 12288 bytes have gone at 8192 ms, above the 8692 that B/R within one 500 ms window allows (spec.md 8, `ThrottleBound`). |
| `mdtm` | violation | Midnight and 23:59:59 of every day from 1970 to 2001. MDTM's reply is not the UTC time (`MdtmIsUtc`): the month is printed 0-based (`19700001235959` for 86399). `is_leap` is also inverted, which alone makes every date after 1970-12-31 wrong. |
| `cmdbuf` | pass | A 4-byte buffer and every stream of up to 5 bytes over `a`, space, CR, LF, received in chunks of every size. `do_cmd` is handed exactly the client's commands, in order and intact (`HandledAreSent`). When the client closes after its last byte, every complete line was handled (`EofHandledAll`). |
| `config` | pass | Every configuration file of up to 5 bytes over `a b 1 - = # ` space, CR and LF, against three options (int `a`, bool `b`, string `ab`). `parse_config`'s pointer walk applies exactly the file's non-blank, non-comment lines, in order, and stops at the first error with the earlier lines' values in `config` (`ConfigLinesApplied`). When start-up reaches `daemon_main`, `do_cmd`'s `bsearch` finds the pool entry for each of the 25 command names typed in upper, lower or mixed case, and no entry for prefixes, extensions or words outside the table (`CommandsDispatch`). |
| `daemon` | pass | Three workers, `max_clients` 2, and a pipe of up to 2 messages, under `FairSpec`. Every allocation succeeds (`Spec` does not contain `SpawnUntracked`). The roster's transfer flag matches the worker's once its messages are read (`ViewsAgree`). `remove_client` never walks off the list (`MasterNeverCrashes`). The loop implements `Supervisor` (`Refines`). A full pipe, which blocks every worker's `send_state`, is eventually read (`PipeDrains`). |
| `daemon_term` | violation | `signal_flag &= !RECV_SIGCHLD` discards a SIGTERM pending with SIGCHLD. |
| `daemon_zombie` | violation | Two exits share one SIGCHLD; one worker stays a zombie in the roster. |
| `daemon_orphan` | violation | Under `AllocFailsSpec`, where `new_client`'s malloc may fail after fork (`SpawnUntracked`): the loop ends and `remove_all_clients` signals only listed workers, so the new worker outlives the server unsignalled (`NoOrphanOnShutdown`). |

Each property of a passing run has a mutant in `PROJECT.json`. A mutant is an operator defined just before the one it replaces, marked "Variant", and modelling a plausible slip in that code. TLC finds the property violated under each mutant.

## Bounds

The bounds are chosen so that each interesting case occurs:

- `MaxPath` 7 and 5-character inputs reach both the ENAMETOOLONG branch and `..` after `..`.
- `MaxOffset` 2 with a file of size 1 reaches offset < size, offset = size and offset > size (the 451 branch).
- Block size 1 exercises the block loop. The remainder is then always 0; no property depends on it.
- `MaxStor` 1 bounds the upload length.
- A 4-byte command buffer with streams of up to 5 bytes holds two commands at once, a command split across reads, and a 3-byte command whose LF fills the buffer.
- Config files of up to 5 bytes include an assignment followed by a second line (`b=1\na`, `a=1\n-`), a comment or blank line before one, a last line with and without LF, CRLF endings, and whitespace-only lines (the `trim_whitespace` edge). The three option names include one that is a prefix of another.
- `throttle`: a send time of 0 ms leaves every delay to `throttle_pause`, so the run has one behaviour; six blocks of 4096 bytes at 1 byte/ms make every sleep longer than a window.
- `mdtm`: 11391 days reach the first year the code counts as 366 days (1970), and 2000, where `is_leap` is undefined and the month loop can overrun.
- `CommandsDispatch` uses the 25 names of `core_command_list`, which is not sorted and outgrows the initial 16 entries. It is checked against 57 words: each name in upper and in lower case, one mixed-case name, prefixes and extensions of names, the empty word, and words that sort before and after the table.
- Three pids with `max_clients` 2 reach both refusal and the reuse of a reaped slot.

## Fairness

Only `daemon` checks liveness, under `FairSpec == Spec /\ WF_vars(Master)`. `Master` is the disjunction of the master's own steps: the signal check, entering and leaving poll, the accept outcomes and `recv_state`. The master is one process that the kernel keeps scheduling, so it is weakly fair. `Poll` is enabled only while the socket or the pipe is readable, which is exactly when `poll(-1)` returns.

Clients, workers and signals get no fairness. Nothing obliges a client to connect or a worker to write. Neither the master nor a worker has a timeout on its data-connection accept. So properties such as "a pending SIGTERM eventually ends the master" are not claimed: they would need a client to arrive (`daemon.c:109`).

Runs set `CHECK_DEADLOCK FALSE` because both the master and a worker really stop once their loop ends.

## Not modelled

- **Formatting and I/O helpers:** reply formatting (`reply.c`), listing lines (`ls.c` `send_filestat`, `parse_list_options`, `util.c` `get_modechar`), and logging. These have no control flow the properties depend on. `send_filestat`'s `months[tm_mon]` read past the table is listed as a hazard with `convert_time`'s month overrun.
- **Throttle:** the clock never goes backwards in `Throttle`, so the clock-skew return is in `Pause` but not reached. The `T_XFER` message it sends is one of the reports a worker in a transfer makes in `Daemon`.
- **Dropped checks:** a LIST whose `opendir` fails leaves `cwd` in the listed directory (`ls.c:185`), and a short `sendfile` drops bytes of a RETR that still succeeds (`core.c:336`). `Session` reaches both states, but neither has a run of its own; they are listed as hazards.
- **Session data abstractions:**
  - descriptors (so the descriptor leak in `dostor` is only a hazard);
  - the filename-length checks of RETR/STOR;
  - the payloads of the state messages (login name, path, file name, byte totals): `Daemon` keeps only their sizes, and `send_chdir`'s path-too-long failure, which a `virt_path` shorter than `FTP_MAX_PATH` never reaches.
- **Command buffer:** one `do_cmd` step stands for the handler (modelled in `Session`). The 421 reply for a full buffer that already holds a complete command is listed as a hazard; no run states that such a command must be served.
- **Start-up:** `init_signals` and `start_log` always return 0; `init_masterserver` is socket set-up; the bytes past an `mmap` and before a `malloc` block are taken to be NUL. The empty-file path skips `check_config` and is listed as a hazard (anonymous login then resolves against a NULL root).
- **Master data abstractions:** children being stopped (SIGCHLD without a zombie), and SIGPIPE to the master. The message framing is modelled, but the recv sizes equal `state_ops`' sizes constant for constant, so no property is stated over it.
- **Link policy on:** the session runs use the default `allow_links` off (with links in `session_jail`); a run with `allow_links` on repeated the same properties and was dropped in favour of `daemon_orphan`.

The hazards without a run are listed in `PROJECT.json` with the reason.
