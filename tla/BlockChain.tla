---------------------------- MODULE BlockChain -----------------------------
(***************************************************************************)
(* The blocks on disk, as `bitcoin::Block` gives them to the iterators,    *)
(* and what it means to connect an input to the output it spends.          *)
(*                                                                         *)
(* `block.txdata` is kept as two tables in block order: the transactions   *)
(* (id and number of outputs) and the inputs of all of them (the outpoint  *)
(* each one spends).  An output is <<p, n>>, output number n of the        *)
(* transaction at position p = <<height, index>>.                          *)
(***************************************************************************)
EXTENDS Integers, Sequences

CONSTANTS
  Txids,
  NullOutPoint,   \* the previous_output of a coinbase input
  Count,          \* block_index.records.len()
  Blocks          \* the block at each height of the index

OutPoint == [txid : Txids, vout : Nat]

Block == [txs : Seq([txid : Txids, outs : Nat]),
          ins : Seq(OutPoint \cup {NullOutPoint})]

Heights == 0 .. Count - 1

\* A stored block has passed Bitcoin Core's checks, which do not allow one
\* transaction twice in one block.  The same id in two blocks is possible.
ASSUME ChainAssumption ==
  /\ Count \in Nat
  /\ Blocks \in [Heights -> Block]
  /\ NullOutPoint \notin OutPoint
  /\ \A h \in Heights : \A i, j \in DOMAIN Blocks[h].txs :
       Blocks[h].txs[i].txid = Blocks[h].txs[j].txid => i = j

TxPos == UNION {{h} \X DOMAIN Blocks[h].txs : h \in Heights}
TxAt(p) == Blocks[p[1]].txs[p[2]]
Slots(p) == 0 .. TxAt(p).outs - 1

InPos == UNION {{h} \X DOMAIN Blocks[h].ins : h \in Heights}
InAt(q) == Blocks[q[1]].ins[q[2]]

\* The outputs that outpoint o can mean.
Referents(o) ==
  {<<p, o.vout>> : p \in {p \in TxPos : /\ TxAt(p).txid = o.txid
                                        /\ o.vout \in Slots(p)}}

(***************************************************************************)
(* Input q is one a valid chain can hold: a coinbase input, or the only    *)
(* input of the chain that spends its outpoint, which names an existing    *)
(* output of the one transaction with that id, in this or an earlier       *)
(* block.                                                                  *)
(***************************************************************************)
ValidSpend(q) ==
  \/ InAt(q) = NullOutPoint
  \/ \E p \in TxPos :
       /\ TxAt(p).txid = InAt(q).txid
       /\ InAt(q).vout \in Slots(p)
       /\ p[1] <= q[1]
       /\ \A p2 \in TxPos : TxAt(p2).txid = InAt(q).txid => p2 = p
       /\ \A q2 \in InPos : InAt(q2) = InAt(q) => q2 = q

ValidBlock(h) == \A c \in DOMAIN Blocks[h].ins : ValidSpend(<<h, c>>)
=============================================================================
