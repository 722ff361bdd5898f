----------------------------- MODULE CmdBuffer ------------------------------
(***************************************************************************)
(* The worker's command-line buffer (server.c): ftp_main's loop of        *)
(* read_cmd, parse_cmd, do_cmd and remove_cmd over the ftp_command_t      *)
(* buffer of line_len bytes.  The client's bytes arrive in chunks of any  *)
(* size recv may return, so commands may be split across reads or several *)
(* may arrive in one read (pipelining).                                    *)
(*                                                                         *)
(* Bytes are one-character strings from a small alphabet: "a" stands for *)
(* any byte that is not a space, CR or LF.  Stale bytes of the buffer are *)
(* kept, since parse_cmd searches the whole buffer for the LF.            *)
(***************************************************************************)
EXTENDS Naturals, Sequences, SequencesExt

CONSTANTS
  LineLen,    \* command.line_len = COMMAND_BUFFER_SIZE
  MaxStream   \* longest byte stream a client sends

ASSUME LineLen \in Nat \ {0} /\ MaxStream \in Nat

LF   == "\n"
CR   == "\r"
SP   == " "
NUL  == "nul"   \* the byte 0
Byte == {"a", SP, CR, LF}

(* malloc leaves the buffer uninitialised: any byte, LF or not. *)
Junk == {"x", LF}

VARIABLES
  sent,       \* every byte the client sends (history, fixed per behaviour)
  stream,     \* the bytes not yet returned by recv
  line,       \* command->line, all line_len bytes
  dirty_len,  \* command->dirty_len
  handled,    \* the commands do_cmd was given, as [cmd, arg] (history)
  exit        \* why ftp_main's loop ended, or "none"

vars == <<sent, stream, line, dirty_len, handled, exit>>

Exits == {"none", "eof", "toolong", "failed", "quit"}

Command == [cmd : Seq(Byte), arg : Seq(Byte)]

TypeOK ==
  /\ sent \in SeqOf(Byte, MaxStream)
  /\ stream \in SeqOf(Byte, MaxStream)
  /\ line \in [1..LineLen -> Byte \cup Junk \cup {NUL}]
  /\ dirty_len \in 0..LineLen
  /\ handled \in Seq(Command)
  /\ exit \in Exits

-----------------------------------------------------------------------------
(* read_cmd's test memchr(command->line, '\n', command->dirty_len). *)
HasLineWholeBuffer(l, d) == \E i \in 1..LineLen : l[i] = LF
HasLine(l, d) == \E i \in 1..d : l[i] = LF

(* parse_cmd's bufend = memchr(buf, '\n', command->line_len); the command *)
(* length command->len is bufend - buf + 1.                                *)
CmdLen(l) == SelectInSeq(l, LAMBDA b : b = LF)

(* The text before the LF, with one trailing CR removed. *)
CmdText(l) ==
  LET e == CmdLen(l)
  IN  IF e > 1 /\ l[e - 1] = CR THEN SubSeq(l, 1, e - 2)
                                ELSE SubSeq(l, 1, e - 1)

(* Splits at the first space (strchr); the argument skips leading         *)
(* isspace bytes.  Without a space the argument is the empty string.       *)
ParseCmd(l) ==
  LET t   == CmdText(l)
      sp  == SelectInSeq(t, LAMBDA b : b = SP)
      rest == IF sp = 0 THEN <<>> ELSE SubSeq(t, sp + 1, Len(t))
      skip == SelectInSeq(rest, LAMBDA b : b \notin {SP, CR})
  IN  [cmd |-> IF sp = 0 THEN t ELSE SubSeq(t, 1, sp - 1),
       arg |-> IF skip = 0 THEN <<>> ELSE SubSeq(rest, skip, Len(rest))]

(* parse_cmd's stores: NUL over the LF and over a CR just before it. *)
Stringify(l) ==
  LET e == CmdLen(l)
  IN  [i \in 1..LineLen |->
         IF i = e \/ (i = e - 1 /\ l[i] = CR) THEN NUL ELSE l[i]]

(* memmove(line, line + len, line_len - len): the tail keeps its bytes. *)
Shift(l, n) ==
  [i \in 1..LineLen |-> IF i <= LineLen - n THEN l[i + n] ELSE l[i]]

(* remove_cmd: the command is dropped from the front of the buffer.  When *)
(* it was all the dirty data only dirty_len is reset.                      *)
RemoveCmdAlwaysReset(l, d, n) == <<l, 0>>
RemoveCmd(l, d, n) ==
  IF n = d THEN <<l, 0>> ELSE <<Shift(l, n), d - n>>

(* Variant: read_poll asked for one byte more than the buffer has left. *)
RecvMaxOverrun(d) == LineLen - d + 1
(* read_poll's max: command->line_len - command->dirty_len. *)
RecvMax(d) == LineLen - d

-----------------------------------------------------------------------------
Init ==
  /\ sent \in SeqOf(Byte, MaxStream)
  /\ stream = sent
  /\ line \in [1..LineLen -> Junk]
  /\ dirty_len = 0
  /\ handled = <<>>
  /\ exit = "none"

(* read_cmd's loop: no LF in the dirty data, so read_poll recv's at most  *)
(* line_len - dirty_len bytes behind it.  A full buffer ends the session  *)
(* with "421 Command line too long".                                       *)
Recv ==
  /\ exit = "none"
  /\ ~HasLine(line, dirty_len)
  /\ \E k \in 1..Len(stream) :
       /\ k <= RecvMax(dirty_len)
       /\ line' = [i \in 1..LineLen |->
                     IF dirty_len < i /\ i <= dirty_len + k
                     THEN stream[i - dirty_len] ELSE line[i]]
       /\ dirty_len' = dirty_len + k
       /\ stream' = SubSeq(stream, k + 1, Len(stream))
       /\ exit' = IF dirty_len + k >= LineLen THEN "toolong" ELSE "none"
  /\ UNCHANGED <<sent, handled>>

(* recv returns 0: the client closed the connection after its last byte. *)
PeerClosed ==
  /\ exit = "none"
  /\ ~HasLine(line, dirty_len)
  /\ stream = <<>>
  /\ exit' = "eof"
  /\ UNCHANGED <<sent, stream, line, dirty_len, handled>>

(* read_poll gives up while bytes may still be on the way: poll times out *)
(* (idle_timeout), recv fails with ECONNRESET or another error, or an     *)
(* interrupted call finds SIGTERM in signal_flag (server_handle_signal).  *)
ReadFails ==
  /\ exit = "none"
  /\ ~HasLine(line, dirty_len)
  /\ exit' = "failed"
  /\ UNCHANGED <<sent, stream, line, dirty_len, handled>>

(* read_cmd finds an LF; parse_cmd, do_cmd and remove_cmd run in turn.    *)
(* do_cmd's nonzero result (QUIT, a fatal handler error) ends the loop    *)
(* before remove_cmd.                                                      *)
Handle ==
  /\ exit = "none"
  /\ HasLine(line, dirty_len)
  /\ LET s == Stringify(line)
         r == RemoveCmd(s, dirty_len, CmdLen(line))
     IN  /\ handled' = Append(handled, ParseCmd(line))
         /\ \/ /\ line' = r[1]
               /\ dirty_len' = r[2]
               /\ exit' = "none"
            \/ /\ line' = s
               /\ exit' = "quit"
               /\ UNCHANGED dirty_len
  /\ UNCHANGED <<sent, stream>>

Next == Recv \/ PeerClosed \/ ReadFails \/ Handle

Spec == Init /\ [][Next]_vars

-----------------------------------------------------------------------------
(* The reference: spec.md 5 makes the protocol LF-terminated lines, CR    *)
(* before the LF optional.  RefLines is every complete line of the        *)
(* stream, without its LF.                                                 *)
RECURSIVE RefLines(_)
RefLines(s) ==
  LET e == SelectInSeq(s, LAMBDA b : b = LF)
  IN  IF e = 0 THEN <<>>
      ELSE <<SubSeq(s, 1, e - 1)>> \o RefLines(SubSeq(s, e + 1, Len(s)))

RefCommand(t) ==
  LET body  == IF t # <<>> /\ Last(t) = CR THEN Front(t) ELSE t
      words == {i \in 0..Len(body) : \A j \in 1..i : body[j] # SP}
      c     == Max(words)
      tail  == SubSeq(body, c + 2, Len(body))
      lead  == {i \in 0..Len(tail) : \A j \in 1..i : tail[j] \in {SP, CR}}
  IN  [cmd |-> SubSeq(body, 1, c),
       arg |-> SubSeq(tail, Max(lead) + 1, Len(tail))]

RefCommands == [i \in 1..Len(RefLines(sent)) |-> RefCommand(RefLines(sent)[i])]

(* do_cmd is handed exactly the client's commands, in order and intact,   *)
(* however recv splits or joins them: neither stale bytes left in the     *)
(* buffer by malloc, parse_cmd's NULs or remove_cmd's memmove, nor a      *)
(* command split across reads, ever shows up as or inside a command.      *)
HandledAreSent == IsPrefix(handled, RefCommands)

(* When the client closes the connection after its last byte, do_cmd has *)
(* been handed every complete line it sent (none stays in the buffer     *)
(* behind the first, and none is dropped by remove_cmd).                  *)
EofHandledAll == exit = "eof" => handled = RefCommands
=============================================================================
