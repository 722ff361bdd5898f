------------------------------ MODULE MCConfig ------------------------------
(* Every configuration file of up to MCFileLen bytes over a few bytes,    *)
(* against three of the options.                                           *)
EXTENDS Config

(* Three of core_config_table's options under one-letter names: an int   *)
(* (MaxClients), a bool (AllowAnonymous) and a string (AnonRootDir).      *)
MCTable ==
  <<"a">> :> [type |-> "int", var |-> "max_clients"]
  @@ <<"b">> :> [type |-> "bool", var |-> "allow_anon"]
  @@ <<"a", "b">> :> [type |-> "str", var |-> "anon_root_dir"]

MCFileLen == 5
MCFileBytes == {"a", "b", "1", "-", "=", " ", "#", "\n", "\r"}
MCFiles == SeqOf(MCFileBytes, MCFileLen)

(* Command words: every name of core_command_list as typed in upper and  *)
(* in lower case, a mixed-case one, prefixes and extensions of names, and *)
(* words before the first and after the last name.                        *)
MCKeys ==
  {CoreCommandList[i] : i \in 1..Len(CoreCommandList)}
  \cup {[j \in DOMAIN CoreCommandList[i] |-> LowerCase[CHOOSE x \in 1..26 :
          UpperCase[x] = CoreCommandList[i][j]]] : i \in 1..Len(CoreCommandList)}
  \cup {<<"r","E","t","R">>, <<"R","E","T">>, <<"R","E","T","R","X">>,
       <<"P","A","S">>, <<"A">>, <<"Z","Z">>, <<>>}
=============================================================================
