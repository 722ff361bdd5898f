---------------------------- MODULE CommandPool ----------------------------
(***************************************************************************)
(* The command pool of src/command.c as pure operators: init_command_pool *)
(* allocates 16 entries, add_command appends one entry and doubles the    *)
(* pool when it is full, add_command_list appends core_command_list and   *)
(* qsorts the pool with strcasecmp, and do_cmd looks the command word up  *)
(* with bsearch and strcasecmp.                                            *)
(*                                                                         *)
(* A C string is a tuple of one-letter strings; its NUL is implicit past  *)
(* the end.  A pool entry is the command's name, which stands for the     *)
(* whole cmd_handler_t (handler and flags are copied with it).            *)
(***************************************************************************)
EXTENDS Integers, Sequences, SequencesExt

UpperCase == <<"A","B","C","D","E","F","G","H","I","J","K","L","M",
               "N","O","P","Q","R","S","T","U","V","W","X","Y","Z">>
LowerCase == <<"a","b","c","d","e","f","g","h","i","j","k","l","m",
               "n","o","p","q","r","s","t","u","v","w","x","y","z">>

(* tolower(c) as an unsigned char value; 0 for the NUL past the end. *)
LowerCode(s, i) ==
  IF i > Len(s) THEN 0
  ELSE 96 + CHOOSE j \in 1..26 : UpperCase[j] = s[i] \/ LowerCase[j] = s[i]

(* strcasecmp: the sign of the first difference of the lowered bytes. *)
RECURSIVE StrCaseCmpFrom(_, _, _)
StrCaseCmpFrom(a, b, i) ==
  LET ca == LowerCode(a, i)
      cb == LowerCode(b, i)
  IN  IF ca # cb THEN ca - cb
      ELSE IF ca = 0 THEN 0
      ELSE StrCaseCmpFrom(a, b, i + 1)

StrCaseCmp(a, b) == StrCaseCmpFrom(a, b, 1)

(* core_command_list (core.c), in its order, which is not sorted. *)
CoreCommandList ==
  << <<"A","B","O","R">>, <<"A","C","C","T">>, <<"A","L","L","O">>,
     <<"C","D","U","P">>, <<"C","L","N","T">>, <<"C","W","D">>,
     <<"F","E","A","T">>, <<"L","I","S","T">>, <<"M","D","T","M">>,
     <<"M","K","D">>, <<"N","O","O","P">>, <<"O","P","T","S">>,
     <<"P","A","S","S">>, <<"P","A","S","V">>, <<"P","W","D">>,
     <<"Q","U","I","T">>, <<"R","E","S","T">>, <<"D","E","L","E">>,
     <<"R","E","T","R">>, <<"R","M","D">>, <<"S","I","Z","E">>,
     <<"S","Y","S","T">>, <<"T","Y","P","E">>, <<"U","S","E","R">>,
     <<"S","T","O","R">> >>

(* init_command_pool: 16 entries, none used. *)
DefaultCmdSize == 16
InitCommandPool == [cmds |-> <<>>, size |-> DefaultCmdSize]

(* add_command: double the pool when this_cmd >= command_pool_size, then  *)
(* copy the entry into slot this_cmd.                                      *)
AddCommand(pool, c) ==
  [cmds |-> Append(pool.cmds, c),
   size |-> IF Len(pool.cmds) >= pool.size THEN 2 * pool.size ELSE pool.size]

(* compare_commands, the qsort comparator, as the "less than" SortSeq needs. *)
CompareCommands(c1, c2) == StrCaseCmp(c1, c2) < 0

(* add_command_list: add every entry up to the NULL name, then qsort. *)
AddCommandList(pool, list) ==
  LET added == FoldLeft(AddCommand, pool, list)
  IN  [added EXCEPT !.cmds = SortSeq(@, CompareCommands)]

(* Variant: the comparator's arguments taken in qsort's order, element first. *)
CompareKeyToCmdSwapped(key, c) == StrCaseCmp(c, key)

(* compare_key_to_cmd: bsearch's comparator, key first. *)
CompareKeyToCmd(key, c) == StrCaseCmp(key, c)

(* glibc bsearch over slots [l, u) (0-based): the 1-based index of the    *)
(* entry found, 0 for NULL.                                                *)
RECURSIVE BSearch(_, _, _, _)
BSearch(key, cmds, l, u) ==
  IF l >= u THEN 0
  ELSE LET idx == (l + u) \div 2
           cmp == CompareKeyToCmd(key, cmds[idx + 1])
       IN  IF cmp < 0 THEN BSearch(key, cmds, l, idx)
           ELSE IF cmp > 0 THEN BSearch(key, cmds, idx + 1, u)
           ELSE idx + 1

(* do_cmd's lookup: {entry}, or {} for NULL (do_cmd replies `500 ?`). *)
Lookup(pool, key) ==
  LET i == BSearch(key, pool.cmds, 0, Len(pool.cmds))
  IN  IF i = 0 THEN {} ELSE {pool.cmds[i]}

(* The reference: the core_command_list entry whose name equals the key   *)
(* ignoring case (spec.md 4.2: case-insensitive binary search), if any.   *)
RefLookup(key) ==
  {c \in {CoreCommandList[i] : i \in 1..Len(CoreCommandList)} : StrCaseCmp(key, c) = 0}
=============================================================================
