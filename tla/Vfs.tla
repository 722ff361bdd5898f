-------------------------------- MODULE Vfs ---------------------------------
(***************************************************************************)
(* The virtual filesystem pool of src/vfs.c as state: the static virt_path *)
(* buffer that every vfs_* call overwrites through vfs_realpath, and the   *)
(* caller's cwd buffer (session->virt_path) that only vfs_chdir writes.    *)
(* Inputs is the set of client path arguments the model feeds in.          *)
(***************************************************************************)
EXTENDS VfsPath

CONSTANT Inputs   \* client-supplied path arguments (sequences of characters)

VARIABLES virt_path, cwd

vars == <<virt_path, cwd>>

(* init_vfs_pool: virt_path[0] = '/'; new_session: cwd = "/". *)
Init ==
  /\ virt_path = Root
  /\ cwd = Root

(***************************************************************************)
(* vfs_stat, vfs_creat, vfs_open, vfs_mkdir, vfs_rmdir, vfs_opendir and    *)
(* vfs_unlink: each runs vfs_realpath(cwd, path) into the static buffer,   *)
(* which keeps whatever was written even when it fails.                    *)
(***************************************************************************)
VfsCall(p) ==
  /\ virt_path' = VfsRealpath(cwd, p).buf
  /\ UNCHANGED cwd

(* vfs_chdir: resolve, and on success copy the buffer into cwd. *)
VfsChdir(p) ==
  LET r == VfsRealpath(cwd, p) IN
  /\ virt_path' = r.buf
  /\ cwd' = IF r.ok THEN r.buf ELSE cwd

Next == \E p \in Inputs : VfsCall(p) \/ VfsChdir(p)

Spec == Init /\ [][Next]_vars

-----------------------------------------------------------------------------
(* Both buffers hold at most FTP_MAX_PATH bytes. *)
TypeOK ==
  /\ virt_path \in Seq(STRING) /\ Len(virt_path) <= MaxPath
  /\ cwd \in Seq(STRING) /\ Len(cwd) <= MaxPath

(***************************************************************************)
(* From the current directory, every argument that vfs_realpath accepts    *)
(* resolves to exactly the path spec.md 4.1 defines (absolute restarts at  *)
(* "/", "." dropped, ".." pops but clamps at "/", repeated separators      *)
(* collapse, trailing separator stripped).                                 *)
(***************************************************************************)
ResolveMatchesReference ==
  \A p \in Inputs :
    LET r == VfsRealpath(cwd, p) IN r.ok => r.buf = CanonicalPath(cwd, p)

(***************************************************************************)
(* Whenever vfs_realpath succeeds, the path it leaves in virt_path, NUL    *)
(* included, fits the FTP_MAX_PATH buffer: the ENAMETOOLONG check runs     *)
(* before every memcpy.  (A failing call may fill the buffer to the end    *)
(* without a NUL; its callers never read it then.)  cwd fits as well.      *)
(***************************************************************************)
ResolvedFitsBuffer ==
  /\ \A p \in Inputs :
       LET r == VfsRealpath(cwd, p) IN r.ok => Len(r.buf) < MaxPath
  /\ Len(cwd) < MaxPath
=============================================================================
