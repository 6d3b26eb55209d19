-------------------------- MODULE BlockIndexRecord -------------------------
(***************************************************************************)
(* A record of Bitcoin Core's block index and what its status says         *)
(* (src/src/parser/block_index.rs).  BlockIndex loads the records,         *)
(* RecordReader reads them from bytes.                                     *)
(***************************************************************************)
EXTENDS Integers

CONSTANT
  U32Max       \* u32::MAX, the position of a block that is not on disk

BLOCK_VALID_SCRIPTS == 5
BLOCK_HAVE_DATA == 8
BLOCK_HAVE_UNDO == 16

HasFlag(status, flag) == (status \div flag) % 2 = 1
\* BLOCK_VALID_MASK is 1 | 2 | 3 | 4 | 5, the lowest three bits.
Validity(status) == status % 8

\* Mutant: a block counts as valid before it is downloaded.
is_valid_without_data(r) ==
  r.height = 0 \/ Validity(r.status) >= BLOCK_VALID_SCRIPTS

is_valid(r) ==
  \/ r.height = 0
  \/ Validity(r.status) >= BLOCK_VALID_SCRIPTS /\ HasFlag(r.status, BLOCK_HAVE_DATA)

\* Which fields a value holds besides those that are always there.
HasFile(status) == HasFlag(status, BLOCK_HAVE_DATA) \/ HasFlag(status, BLOCK_HAVE_UNDO)
HasData(status) == HasFlag(status, BLOCK_HAVE_DATA)
HasUndo(status) == HasFlag(status, BLOCK_HAVE_UNDO)

\* The record that is read from what Bitcoin Core wrote for a block: the
\* position on disk is only there when the status says so.
decode(r) ==
  [r EXCEPT !.n_file = IF HasFile(r.status) THEN @ ELSE -1,
            !.n_data_pos = IF HasData(r.status) THEN @ ELSE U32Max,
            !.n_undo_pos = IF HasUndo(r.status) THEN @ ELSE U32Max]
=============================================================================
