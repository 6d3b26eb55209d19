------------------------------ MODULE BlkFile ------------------------------
(***************************************************************************)
(* The index of the blk*.dat files (src/src/parser/blk_file.rs), built by  *)
(* one scan of the directory `blocks`.  BlkRead has what is read with it.  *)
(*                                                                         *)
(* A path is what the program can know of it: the number in its file name  *)
(* (NoIndex when it is not blk<number>.dat), whether a regular file is     *)
(* there, and which file that is.  A directory entry has its own path and, *)
(* when it is a symbolic link, the path that read_link returns, as seen    *)
(* from the directory the program runs in.                                 *)
(***************************************************************************)
EXTENDS Integers

CONSTANTS
  Dirs,       \* directories to scan: [xor |-> ..., entries |-> ...]
  NoIndex

VARIABLES
  dir,        \* the directory
  phase,      \* "xor", "scan", "ready", "err"
  todo,       \* entries read_dir has not returned yet
  files,      \* the HashMap: pairs of a number and the path it leads to
  xor_mask    \* TRUE when a mask was read

vars == <<dir, phase, todo, files, xor_mask>>

Init ==
  /\ dir \in Dirs
  /\ phase = "xor"
  /\ todo = dir.entries
  /\ files = {}
  /\ xor_mask = FALSE

-----------------------------------------------------------------------------
\* No xor.dat: blocks are stored as they are.  A file that is too short or
\* cannot be read ends new() with an error.
read_xor_mask ==
  /\ phase = "xor"
  /\ phase' = IF dir.xor = "unreadable" THEN "err" ELSE "scan"
  /\ xor_mask' = (dir.xor = "mask")
  /\ UNCHANGED <<dir, todo, files>>

resolve_path(e) == IF e.link THEN e.target ELSE e.path

\* Mutant: a name without a number counts as number 0.
parse_blk_index_or_zero(path) == IF path.index = NoIndex THEN 0 ELSE path.index

parse_blk_index(path) == path.index

\* HashMap::insert
insert(i, path) == {f \in files : f[1] # i} \cup {<<i, path>>}

scan_entry(e) ==
  LET path == resolve_path(e)
  IN  /\ phase = "scan" /\ e \in todo
      /\ todo' = todo \ {e}
      /\ files' = IF path.file /\ parse_blk_index(path) # NoIndex
                  THEN insert(parse_blk_index(path), path)
                  ELSE files
      /\ UNCHANGED <<dir, phase, xor_mask>>

\* An entry, or the link it is, cannot be read.
scan_err ==
  /\ phase = "scan" /\ todo # {}
  /\ phase' = "err"
  /\ UNCHANGED <<dir, todo, files, xor_mask>>

\* EmptyBlockFiles
scan_done ==
  /\ phase = "scan" /\ todo = {}
  /\ phase' = IF files = {} THEN "err" ELSE "ready"
  /\ UNCHANGED <<dir, todo, files, xor_mask>>

stay == phase \in {"ready", "err"} /\ UNCHANGED vars

Next ==
  \/ read_xor_mask
  \/ \E e \in todo : scan_entry(e)
  \/ scan_err \/ scan_done \/ stay

Spec == Init /\ [][Next]_vars

\* The file that is opened for a number.
HasFile(i) == \E f \in files : f[1] = i
File(i) == (CHOOSE f \in files : f[1] = i)[2].id

-----------------------------------------------------------------------------
\* The number under which Bitcoin Core knows an entry, and the file it means.
Numbered == {e \in dir.entries : e.path.index # NoIndex /\ e.path.file}

(***************************************************************************)
(* "Scan `blocks` folder to build an index of all blk files"               *)
(* (src/src/parser/blk_file.rs:35): whatever order read_dir returns the    *)
(* entries in, a successful scan has every blk file under its own number   *)
(* and nothing else.                                                       *)
(***************************************************************************)
AllFilesIndexed ==
  LET Means(f, e) == f[1] = e.path.index /\ f[2].id = e.path.id
  IN  phase = "ready" => /\ \A e \in Numbered : \E f \in files : Means(f, e)
                         /\ \A f \in files : \E e \in Numbered : Means(f, e)
=============================================================================
