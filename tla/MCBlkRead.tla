----------------------------- MODULE MCBlkRead -----------------------------
(***************************************************************************)
(* Files for TLC: two blocks in f0; one in f1, which has lost its tail;    *)
(* one in f2.  A block is preceded by a byte for the magic number and by   *)
(* its length, and its header has HEADER_SIZE bytes.                       *)
(***************************************************************************)
EXTENDS BlkRead

CONSTANTS f0, f1, f2, gone

D == INSTANCE MCDirs

MCDirs == D!PlainDirs

Tx(offset, size) == [offset |-> offset, size |-> size]
Block(p, size, txs) == [pos |-> p, size |-> size, txs |-> txs]

MCContents ==
  [id \in {f0, f1, f2, gone} |->
     CASE id = f0 -> [size |-> 19, blocks |-> {Block(5, 5, {Tx(1, 2)}),
                                               Block(15, 4, {Tx(1, 1)})}]
       [] id = f1 -> [size |-> 9, blocks |-> {Block(5, 6, {Tx(1, 1), Tx(2, 2)})}]
       [] id = f2 -> [size |-> 9, blocks |-> {Block(5, 4, {Tx(1, 1)})}]
       [] OTHER -> [size |-> 0, blocks |-> {}]]

Request(kind, n_file, p, offset) ==
  [kind |-> kind, n_file |-> n_file, pos |-> p, offset |-> offset]

\* The last is for a record without data.
MCRequests ==
  {Request(k, b[1], b[2], 0) : k \in {"raw_block", "block"},
                               b \in {<<0, 5>>, <<0, 15>>, <<1, 5>>, <<2, 5>>}}
  \cup {Request("transaction", t[1], t[2], t[3]) :
          t \in {<<0, 5, 1>>, <<0, 15, 1>>, <<1, 5, 1>>, <<1, 5, 2>>, <<2, 5, 1>>}}
  \cup {Request("raw_block", -1, MaxPos, 0)}
=============================================================================
