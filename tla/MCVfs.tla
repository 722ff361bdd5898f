------------------------------- MODULE MCVfs --------------------------------
(* Every path of up to MCInputLen characters over "/", "." and "a".     *)
EXTENDS Vfs

MCInputLen == 5
MCChars == {"/", ".", "a"}
MCInputs == SeqOf(MCChars, MCInputLen)
=============================================================================
