-------------------------- MODULE MCRecordReader --------------------------
(***************************************************************************)
(* Values for TLC.  A byte holds two bits of a number, a field of a record *)
(* five, a usize six: numbers have up to three bytes in what Bitcoin Core  *)
(* writes, and four overflow.                                              *)
(***************************************************************************)
EXTENDS RecordReader

BlockRecords ==
  [version : {1, 15}, height : {0, 4, 15}, status : {0, 2, 11, 21, 29}, n_tx : {0, 20},
   n_file : {0, 4}, n_data_pos : {8, 19, 30}, n_undo_pos : {3, 31}, header : {<<1, 6>>}]

\* Records that differ in what is written of them.
WrittenRecords ==
  {r \in BlockRecords : /\ HasFile(r.status) \/ r.n_file = 0
                        /\ HasData(r.status) \/ r.n_data_pos = 8
                        /\ HasUndo(r.status) \/ r.n_undo_pos = 3}

TxPositions == [n_file : {0, 15}, n_data_pos : {3, 8, 20}, n_tx_offset : {1, 4, 31}]

Prefixes(s) == {SubSeq(s, 1, k) : k \in 0 .. Len(s)}

Inputs_of(kind, records) ==
  UNION {{[kind |-> kind, written |-> r, bytes |-> b] : b \in Prefixes(Write(kind, r))} :
         r \in records}

\* Bytes that Bitcoin Core did not write.
Strings ==
  UNION {[1 .. k -> 0 .. 2 * Base - 1] : k \in 1 .. 3} \cup [1 .. 4 -> {2, 3, 6, 7}]

MCInputs ==
  Inputs_of("block", WrittenRecords) \cup Inputs_of("tx", TxPositions)
  \cup {[kind |-> "tx", written |-> NotWritten, bytes |-> s] : s \in Strings}
=============================================================================
