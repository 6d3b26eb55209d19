---------------------------- MODULE MCBitcoinDB ----------------------------
(***************************************************************************)
(* A chain of four blocks in two files for TLC, and a stale block.  The    *)
(* first block of each file is at byte 8.                                  *)
(***************************************************************************)
EXTENDS BitcoinDB, TLC

CONSTANTS g, a, b, c, d, e, x, y, s, n

Tx(id, outs, ins) == [txid |-> id, outs |-> outs, ins |-> ins]
Spend(id, vout) == [txid |-> id, vout |-> vout]
Coinbase(id) == Tx(id, 2, <<NullOutPoint>>)

MCRecords == <<<<0, 8>>, <<0, 300>>, <<1, 8>>, <<1, 300>>>>

\* Block 3 repeats the coinbase of block 1, spends the output of the genesis
\* block, and has two transactions that no valid chain has: x spends an
\* output that does not exist, y one that the tx index does not know and one
\* of a stale block.
MCDisk ==
  (<<0, 8>> :> <<Tx(g, 1, <<NullOutPoint>>)>>) @@
  (<<0, 300>> :> <<Coinbase(a)>>) @@
  (<<1, 8>> :> <<Coinbase(b), Tx(c, 2, <<Spend(a, 1), Spend(a, 0)>>),
                 Tx(d, 1, <<Spend(c, 1)>>)>>) @@
  (<<1, 300>> :> <<Coinbase(a), Tx(e, 1, <<Spend(g, 0), Spend(d, 0)>>),
                   Tx(x, 1, <<Spend(d, 5)>>), Tx(y, 1, <<Spend(n, 0), Spend(s, 0)>>)>>) @@
  (<<2, 8>> :> <<Coinbase(s)>>)

MCTxIndex ==
  [t \in {a, e, x, y} |-> <<1, 300>>] @@ [t \in {b, c, d} |-> <<1, 8>>] @@
  (s :> <<2, 8>>)
=============================================================================
