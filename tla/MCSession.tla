----------------------------- MODULE MCSession ------------------------------
(***************************************************************************)
(* Instances of Session for TLC.  Arguments are absolute paths, so the    *)
(* objects a session can create are exactly the ones named here; relative *)
(* resolution is checked on its own in MCVfs.                              *)
(***************************************************************************)
EXTENDS Session

(* One object that the session deletes, re-creates as a directory, enters *)
(* and leaves with CDUP, removes, and uploads again as a file.  With      *)
(* XFER_BLOCK_SIZE 1 a one-byte file is one block; REST 2 is past its end. *)
MCArgs   == {<<"/", "f">>}
MCDirs   == {Root}
MCFiles  == <<"/", "f">> :> 1
MCUsers  == {"alice"}

(* A link /l to a directory outside the jail and a name below it. *)
MCLinkArgs  == {<<"/", "l">>, <<"/", "l", "/", "f">>}
MCLinks     == {<<"/", "l">>}
MCNoFiles   == [o \in {} |-> 0]
=============================================================================
