------------------------------- MODULE Config -------------------------------
(***************************************************************************)
(* The configuration loader of src/config.c as pure operators:            *)
(* load_defaults, parse_config's walk over the mapped file, parse_attribute *)
(* with its int, bool and string parsers, util.c's trim_whitespace, and    *)
(* check_config.                                                           *)
(*                                                                         *)
(* A string is a buffer: a sequence of bytes with its NUL, read by index. *)
(* parse_attribute and trim_whitespace write NULs into the line's copy and *)
(* read backwards from the end of a string, so the writes are kept.        *)
(* trim_whitespace may read the byte before the buffer (At(b, 0)); glibc   *)
(* keeps the high byte of a chunk size there, which is 0.                  *)
(***************************************************************************)
EXTENDS Integers, Sequences, SequencesExt, CommandPool

CONSTANTS
  Table,        \* core_config_table: option name |-> [type, var]
  ConfigFiles,  \* the configuration files considered
  Keys          \* command words a client may send, as C strings

LF    == "\n"
CR    == "\r"
SP    == " "
HASH  == "#"
EQ    == "="
NUL   == "nul"   \* the byte 0
NULL  == {}      \* a char * that is NULL; a string s is {s}
Blank == {SP}             \* isblank
Space == {SP, CR, LF}     \* isspace
DigitVal == "0" :> 0 @@ "1" :> 1

IntMax == 2147483647
IntMin == -2147483647 - 1

(* load_defaults, with the fields it leaves to the zeroed global. *)
Defaults ==
  [port |-> 8008, ctrl_port |-> 7676, max_clients |-> -1,
   throttle_rate |-> -1, pasv_port_start |-> 1025, pasv_port_end |-> 65535,
   idle_timeout |-> 4000, debug |-> FALSE, allow_links |-> FALSE,
   syslog |-> FALSE, allow_anon |-> TRUE, anon_root_dir |-> NULL,
   servername |-> NULL, logfile |-> NULL, log_to_file |-> FALSE]

-----------------------------------------------------------------------------
At(b, i) == IF i \in DOMAIN b THEN b[i] ELSE NUL

(* Index of the NUL ending the string at p, and the string itself. *)
StrEnd(b, p) == Min({i \in p..Len(b) + 1 : At(b, i) = NUL})
Str(b, p) == SubSeq(b, p, StrEnd(b, p) - 1)

(* `while( isblank( *p ) ) p++;` *)
SkipBlank(b, p) == Min({i \in p..Len(b) + 1 : At(b, i) \notin Blank})

(* trim_whitespace: skip leading blanks; walk back from the last byte     *)
(* while isspace and store a NUL after it.  Gives the buffer and the      *)
(* string's start.                                                         *)
TrimWhitespace(b, p) ==
  LET q   == SkipBlank(b, p)
      len == StrEnd(b, q) - q
      e   == Max({i \in 0..q + len - 1 : At(b, i) \notin Space})
  IN  IF len = 0 THEN <<b, q>> ELSE <<[b EXCEPT ![e + 1] = NUL], q>>

(* strtol(s, &inval, 0): leading isspace, a sign, then digits.  Without   *)
(* digits the value is 0 and inval is s.                                   *)
Strtol(s) ==
  LET i  == Min({j \in 1..Len(s) + 1 : j > Len(s) \/ s[j] \notin Space})
      sg == IF i <= Len(s) /\ s[i] \in {"+", "-"} THEN 1 ELSE 0
      d  == Min({j \in i + sg..Len(s) + 1 :
                   j > Len(s) \/ s[j] \notin DOMAIN DigitVal})
      n  == FoldLeft(LAMBDA a, c : 10 * a + DigitVal[c], 0, SubSeq(s, i + sg, d - 1))
  IN  IF d = i + sg THEN [val |-> 0, inval |-> s]
      ELSE [val |-> IF sg = 1 /\ s[i] = "-" THEN -n ELSE n,
            inval |-> SubSeq(s, d, Len(s))]

Ok(cfg)        == [ret |-> "SUCCESS", cfg |-> cfg]
Fail(err, cfg) == [ret |-> err, cfg |-> cfg]

(* parse_attribute_int, parse_attribute_bool, parse_attribute_string for  *)
(* the argument at a of buffer b.                                          *)
SetOption(opt, b, a, cfg) ==
  CASE opt.type = "int" ->
         LET r == Strtol(Str(b, a)) IN
         IF r.val < IntMin \/ r.val > IntMax THEN Fail("RANGE", cfg)
         ELSE IF r.inval # <<>> THEN Fail("NAN", cfg)
         ELSE Ok([cfg EXCEPT ![opt.var] = r.val])
    [] opt.type = "bool" ->
         Ok([cfg EXCEPT ![opt.var] = At(b, a) \in {"1", "y", "Y", "t", "T"}])
    [] opt.type = "str" ->
         LET t == TrimWhitespace(b, a) IN
         Ok([cfg EXCEPT ![opt.var] = {Str(t[1], t[2])}])

(* parse_attribute on the line's copy b: trim; an empty line is skipped;  *)
(* split at the first '=' (stored over by a NUL); skip blanks; trim the   *)
(* name; look it up (strcasecmp: names and bytes here are lower case).    *)
ParseAttribute(b, cfg) ==
  LET t  == TrimWhitespace(b, 1)
      b1 == t[1]
      p1 == t[2]
      eq == SelectInSubSeq(b1, p1, StrEnd(b1, p1) - 1, LAMBDA c : c = EQ)
  IN  IF At(b1, p1) = NUL THEN Ok(cfg)
      ELSE IF eq = 0 THEN Fail("MISSING_ARGUMENT", cfg)
      ELSE LET b2 == [b1 EXCEPT ![eq] = NUL]
               a  == SkipBlank(b2, eq + 1)
               t2 == TrimWhitespace(b2, p1)
               name == Str(t2[1], t2[2])
           IN  IF At(b2, a) = NUL THEN Fail("MISSING_ARGUMENT", cfg)
               ELSE IF name \notin DOMAIN Table THEN Fail("UNKNOWN_OPTION", cfg)
               ELSE SetOption(Table[name], t2[1], a, cfg)

(* Variant: a last line without LF is taken as empty. *)
LineEndNoLast(buf, s) ==
  LET I == {i \in s..Len(buf) : buf[i] = LF}
  IN  IF I = {} THEN s ELSE Min(I)
(* End of the line that starts at s: the next LF or the end of the file. *)
(* The loop's last turn starts past the end (s is Len(buf) + 1, or + 2    *)
(* after a last line without LF) and still reads *start for the '#' test; *)
(* At gives NUL there, and the turn ends the loop whatever the byte is.   *)
LineEnd(buf, s) ==
  IF s > Len(buf) THEN s
  ELSE Min({i \in s..Len(buf) + 1 : i > Len(buf) \/ buf[i] = LF})

(* parse_config's loop.  start and end are indices into the file (its     *)
(* end is Len(buf) + 1); each turn begins one byte after the previous     *)
(* LF.  A line that is empty or starts with '#' is skipped, any other is  *)
(* copied with a NUL into tmp and handed to parse_attribute; the first    *)
(* error ends the parse.                                                   *)
RECURSIVE ParseLoop(_, _, _, _)
ParseLoop(buf, start, end, cfg) ==
  IF start >= Len(buf) + 1 THEN Ok(cfg)
  ELSE LET s == end + 1
           e == LineEnd(buf, s)
           comment == At(buf, s) = HASH
       IN  IF e = s \/ comment THEN ParseLoop(buf, s, e, cfg)
           ELSE LET r == ParseAttribute(SubSeq(buf, s, e - 1) \o <<NUL>>, cfg)
                IN  IF r.ret # "SUCCESS" THEN r ELSE ParseLoop(buf, s, e, r.cfg)

ParseConfig(buf, cfg) == ParseLoop(buf, 1, 0, cfg)

ValidPort(p) == 0 <= p /\ p <= 65535

(* check_config *)
CheckConfig(cfg) ==
  /\ ValidPort(cfg.port) /\ ValidPort(cfg.ctrl_port)
  /\ cfg.throttle_rate >= -1
  /\ ValidPort(cfg.pasv_port_start) /\ ValidPort(cfg.pasv_port_end)
  /\ cfg.pasv_port_start <= cfg.pasv_port_end
  /\ ~(cfg.allow_anon /\ cfg.anon_root_dir = NULL)

-----------------------------------------------------------------------------
(* main's start-up up to daemon_main: load_defaults, parse_args and       *)
(* load_config on the file at config_path (one of ConfigFiles), then the  *)
(* command pool.                                                           *)
VARIABLES
  stage,    \* where main is: "defaults", "args", "open", "check", "ready",
            \* "serving" (daemon_main runs), "exit"
  file,     \* the bytes of the file at config_path
  config,   \* the global ftp_config_t
  parsed,   \* what parse_config returned, or "none"
  commands  \* command_pool and command_pool_size; num_commands = Len(cmds)

vars == <<stage, file, config, parsed, commands>>

(* The global before load_defaults: zeroed. *)
Zeroed ==
  [port |-> 0, ctrl_port |-> 0, max_clients |-> 0, throttle_rate |-> 0,
   pasv_port_start |-> 0, pasv_port_end |-> 0, idle_timeout |-> 0,
   debug |-> FALSE, allow_links |-> FALSE, syslog |-> FALSE,
   allow_anon |-> FALSE, anon_root_dir |-> NULL, servername |-> NULL,
   logfile |-> NULL, log_to_file |-> FALSE]

Init ==
  /\ stage = "defaults"
  /\ file \in ConfigFiles
  /\ config = Zeroed
  /\ parsed = "none"
  /\ commands = [cmds |-> <<>>, size |-> 0]

LoadDefaults ==
  /\ stage = "defaults"
  /\ config' = Defaults
  /\ stage' = "args"
  /\ UNCHANGED <<file, parsed, commands>>

(* parse_args: -c names the file (the one chosen at Init), -d sets debug, *)
(* -n does nothing; a missing operand or an unknown option ends main.     *)
ParseArgs(d) ==
  /\ stage = "args"
  /\ config' = [config EXCEPT !.debug = @ \/ d]
  /\ stage' = "open"
  /\ UNCHANGED <<file, parsed, commands>>

BadArgs ==
  /\ stage = "args"
  /\ stage' = "exit"
  /\ UNCHANGED <<file, config, parsed, commands>>

(* load_config: open or fstat fails, the path is not a regular file, or   *)
(* mmap of a non-empty file fails.                                         *)
OpenFails ==
  /\ stage = "open"
  /\ stage' = "exit"
  /\ UNCHANGED <<file, config, parsed, commands>>

(* An empty file keeps the configuration and returns FTP_SUCCESS before   *)
(* check_config.                                                           *)
EmptyFile ==
  /\ stage = "open" /\ file = <<>>
  /\ stage' = "ready"
  /\ UNCHANGED <<file, config, parsed, commands>>

(* parse_config over the mapped file, writing the global as it goes. *)
Parse ==
  /\ stage = "open" /\ file # <<>>
  /\ LET r == ParseConfig(file, config)
     IN  /\ config' = r.cfg
         /\ parsed' = r.ret
         /\ stage' = IF r.ret = "SUCCESS" THEN "check" ELSE "exit"
  /\ UNCHANGED <<file, commands>>

Check ==
  /\ stage = "check"
  /\ stage' = IF CheckConfig(config) THEN "ready" ELSE "exit"
  /\ UNCHANGED <<file, config, parsed, commands>>

(* main after load_config: init_signals and start_log (both always       *)
(* return 0), init_command_pool and init_core_commands.  malloc of the     *)
(* pool failing, or realloc when it doubles, makes main return 1.          *)
PoolAllocFails ==
  /\ stage = "ready"
  /\ stage' = "exit"
  /\ UNCHANGED <<file, config, parsed, commands>>

InitCommands ==
  /\ stage = "ready"
  /\ commands' = AddCommandList(InitCommandPool, CoreCommandList)
  /\ stage' = "serving"
  /\ UNCHANGED <<file, config, parsed>>

Next ==
  \/ LoadDefaults \/ BadArgs \/ OpenFails \/ EmptyFile \/ Parse \/ Check
  \/ PoolAllocFails \/ InitCommands
  \/ \E d \in BOOLEAN : ParseArgs(d)

Spec == Init /\ [][Next]_vars

-----------------------------------------------------------------------------
(* The reference: the file is LF-separated lines, the last one possibly   *)
(* without its LF; lines that are empty or start with '#' say nothing;    *)
(* every other line is one assignment, applied in file order, and the     *)
(* first bad one is the error.                                             *)
RECURSIVE ConfigSegments(_)
ConfigSegments(f) ==
  LET e == SelectInSeq(f, LAMBDA c : c = LF)
  IN  IF e = 0 THEN <<f>>
      ELSE <<SubSeq(f, 1, e - 1)>> \o ConfigSegments(SubSeq(f, e + 1, Len(f)))

ConfigLines(f) == SelectSeq(ConfigSegments(f), LAMBDA l : l # <<>> /\ l[1] # HASH)

RefParse(f, base) ==
  FoldLeft(LAMBDA acc, l : IF acc.ret # "SUCCESS" THEN acc
                           ELSE ParseAttribute(l \o <<NUL>>, acc.cfg),
           Ok(base), ConfigLines(f))

(* parse_config cuts the mapped file into lines exactly as the reference  *)
(* does: its start/end pointer walk (end starting one before the buffer,  *)
(* ++end past each LF, the '#' test on the first byte, a last line with   *)
(* or without LF) and the copy into tmp neither lose, merge nor split a   *)
(* line, and lines are applied in file order until the first error; the   *)
(* global then holds what the lines before the error set.                 *)
ConfigLinesApplied ==
  parsed # "none" =>
    [ret |-> parsed, cfg |-> config]
      = RefParse(file, [Defaults EXCEPT !.debug = config.debug])

(* do_cmd dispatches every command word the way spec.md 4.2 and 6 say    *)
(* (case-insensitive): after add_command_list's appends, pool doubling  *)
(* and qsort with compare_commands, bsearch with compare_key_to_cmd finds *)
(* the entry of that name in any letter case, and `500 ?` for any other   *)
(* word.                                                                   *)
CommandsDispatch ==
  stage = "serving" => \A k \in Keys : Lookup(commands, k) = RefLookup(k)
=============================================================================
