------------------------------ MODULE VfsPath ------------------------------
(***************************************************************************)
(* The lexical path resolver of src/vfs.c (vfs_realpath) and the canonical *)
(* resolution that spec.md section 4.1 promises.  Paths are sequences of   *)
(* one-character strings, so that separators, "." and ".." are seen by the *)
(* resolver exactly as the C loop sees them.  The resolver works on the    *)
(* prefix virt_path[0 .. dst-1] of the static buffer: bytes after dst are  *)
(* never read by vfs_realpath, so they are not modelled.                   *)
(***************************************************************************)
EXTENDS Naturals, Sequences, SequencesExt

CONSTANT MaxPath   \* FTP_MAX_PATH: bytes of the virt_path buffer, NUL included

ASSUME MaxPath \in Nat /\ MaxPath >= 2

Slash  == "/"
Root   == <<"/">>
Dot    == <<".">>
DotDot == <<".", ".">>

IsAbsolute(p) == Len(p) > 0 /\ p[1] = Slash

(***************************************************************************)
(* The scan of the for-loop: skip leading separators, cut the block up to  *)
(* the next separator, stop at the first empty block.                      *)
(***************************************************************************)
RECURSIVE Blocks(_, _, _)
Blocks(p, cur, acc) ==
  LET flushed == IF cur = <<>> THEN acc ELSE Append(acc, cur) IN
  CASE p = <<>>          -> flushed
    [] Head(p) = Slash   -> Blocks(Tail(p), <<>>, flushed)
    [] OTHER             -> Blocks(Tail(p), Append(cur, Head(p)), acc)

Segments(p) == Blocks(p, <<>>, <<>>)

(* Variant: `while( dst[-1] != '/' ) --dst;`, which drops nothing when   *)
(* the buffer already ends in '/'.                                         *)
RECURSIVE PopBlockNoDrop(_)
PopBlockNoDrop(b) == IF Last(b) = Slash THEN b ELSE PopBlockNoDrop(Front(b))

(* while( (--dst)[-1] != '/' ): drop at least one byte, then up to a '/'. *)
RECURSIVE PopBlock(_)
PopBlock(b) == IF Last(Front(b)) = Slash THEN Front(b) ELSE PopBlock(Front(b))

(* Where resolution starts: "/" for an absolute path, a copy of cwd else. *)
RealpathStart(cwd, p) ==
  CASE IsAbsolute(p)        -> [ok |-> TRUE,  buf |-> Root]
    [] Len(cwd) >= MaxPath  -> [ok |-> FALSE, buf |-> <<>>]
    [] OTHER                -> [ok |-> TRUE,  buf |-> cwd]

(* "..": move up unless dst is just past the root '/'. *)
DotDotStep(buf) == IF Len(buf) > 1 THEN PopBlock(buf) ELSE buf

(* Variant: the ENAMETOOLONG check written with > in place of >=. *)
NameStepOffByOne(buf, seg) ==
  LET b == IF Last(buf) # Slash THEN Append(buf, Slash) ELSE buf IN
  IF Len(b) + Len(seg) > MaxPath
    THEN [ok |-> FALSE, buf |-> b]
    ELSE [ok |-> TRUE,  buf |-> b \o seg]

(* A name: one separating '/', then the ENAMETOOLONG check, then copy. *)
NameStep(buf, seg) ==
  LET b == IF Last(buf) # Slash THEN Append(buf, Slash) ELSE buf IN
  IF Len(b) + Len(seg) >= MaxPath
    THEN [ok |-> FALSE, buf |-> b]
    ELSE [ok |-> TRUE,  buf |-> b \o seg]

RealpathStep(st, seg) ==
  CASE ~st.ok          -> st
    [] seg = Dot       -> st
    [] seg = DotDot    -> [st EXCEPT !.buf = DotDotStep(@)]
    [] OTHER           -> NameStep(st.buf, seg)

(* After the loop: strip one trailing '/' unless the result is "/". *)
StripTrailing(b) == IF Len(b) > 1 /\ Last(b) = Slash THEN Front(b) ELSE b

(***************************************************************************)
(* vfs_realpath(cwd, path): [ok, buf], buf being virt_path up to dst.      *)
(***************************************************************************)
VfsRealpath(cwd, p) ==
  LET st == FoldLeft(RealpathStep, RealpathStart(cwd, p), Segments(p)) IN
  IF st.ok THEN [st EXCEPT !.buf = StripTrailing(@)] ELSE st

-----------------------------------------------------------------------------
(***************************************************************************)
(* Reference: spec.md 4.1.  A path is its list of segments; "." is         *)
(* dropped, ".." pops unless at "/", any other segment is appended.        *)
(***************************************************************************)
CanonicalStep(segs, seg) ==
  CASE seg = Dot    -> segs
    [] seg = DotDot -> IF segs = <<>> THEN segs ELSE Front(segs)
    [] OTHER        -> Append(segs, seg)

JoinPath(segs) ==
  IF segs = <<>> THEN Root
  ELSE FlattenSeq([i \in 1..Len(segs) |-> <<Slash>> \o segs[i]])

CanonicalPath(cwd, p) ==
  JoinPath(FoldLeft(CanonicalStep,
                    IF IsAbsolute(p) THEN <<>> ELSE Segments(cwd),
                    Segments(p)))

(* A virtual path as spec.md section 3 requires it: absolute, no "." or    *)
(* ".." segment, no empty segment, no trailing '/'.                        *)
IsCanonical(v) ==
  /\ v = JoinPath(Segments(v))
  /\ \A i \in 1..Len(Segments(v)) : Segments(v)[i] \notin {Dot, DotDot}
=============================================================================
