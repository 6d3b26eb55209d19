------------------------------- MODULE MCDirs -------------------------------
(***************************************************************************)
(* Directories for TLC: two or three blk files, one of which may be a      *)
(* symbolic link, beside files that are none.                              *)
(***************************************************************************)
EXTENDS Integers

CONSTANTS f0, f1, f2, gone, NoIndex

Path(i, id) == [index |-> i, file |-> id # gone, id |-> id]

Plain(i, id) == [link |-> FALSE, path |-> Path(i, id), target |-> Path(i, id)]

\* A link to a file of the same name on another disk.
Absolute(i, id) == [link |-> TRUE, path |-> Path(i, id), target |-> Path(i, id)]

\* A link such as ../other/blk00001.dat: read_link returns it as it is, and
\* from the working directory it leads nowhere.
Relative(i, id) == [link |-> TRUE, path |-> Path(i, id), target |-> Path(i, gone)]

Rev == Plain(NoIndex, f0)
SubDir == Plain(NoIndex, gone)

Dir(xor, entries) == [xor |-> xor, entries |-> entries]

PlainDirs ==
  {Dir(x, {Rev, SubDir, Plain(0, f0), Absolute(1, f1), Plain(2, f2)}) :
     x \in {"absent", "mask", "unreadable"}}
  \cup {Dir("absent", {Rev, SubDir}), Dir("mask", {Rev, Plain(1, f1)})}

\* The directories whose links are relative.
RelativeDirs ==
  {Dir(x, {Rev, SubDir, Plain(0, f0), Plain(2, f2), Relative(1, f1)}) :
     x \in {"absent", "mask"}}
=============================================================================
