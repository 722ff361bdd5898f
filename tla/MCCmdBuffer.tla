---------------------------- MODULE MCCmdBuffer -----------------------------
(***************************************************************************)
(* A 4-byte command buffer and every client stream of up to 5 bytes: a    *)
(* stream can hold two commands, a command can straddle reads, and a      *)
(* 3-byte command with its LF fills the buffer.                            *)
(***************************************************************************)
EXTENDS CmdBuffer
=============================================================================
