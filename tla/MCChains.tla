----------------------------- MODULE MCChains ------------------------------
(***************************************************************************)
(* Three small chains for the instances of the connected iterators.        *)
(***************************************************************************)
EXTENDS Naturals, Sequences, TLC

CONSTANTS a, b, c, d, e, f, g, Null

Tx(id, n) == [txid |-> id, outs |-> n]
Spend(id, n) == [txid |-> id, vout |-> n]

\* A valid chain.  Block 1 spends an output of block 0 and, in e, one of its
\* own; the two outputs of a are spent in different blocks and so are those
\* of c, so that two connectors empty one VecMap.
ValidChain ==
  (0 :> [txs |-> <<Tx(a, 2)>>, ins |-> <<Null>>]) @@
  (1 :> [txs |-> <<Tx(b, 1), Tx(c, 2), Tx(e, 1)>>,
         ins |-> <<Null, Spend(a, 1), Spend(c, 0)>>]) @@
  (2 :> [txs |-> <<Tx(d, 1), Tx(f, 1)>>,
         ins |-> <<Null, Spend(a, 0), Spend(c, 1)>>]) @@
  (3 :> [txs |-> <<Tx(g, 1)>>, ins |-> <<Null>>])

\* Bad data: blocks 1 and 2 spend the same output, block 2 also one that
\* does not exist.  Block 3 is valid.
BadChain ==
  (0 :> [txs |-> <<Tx(a, 2)>>, ins |-> <<Null>>]) @@
  (1 :> [txs |-> <<Tx(b, 1), Tx(c, 1)>>, ins |-> <<Null, Spend(a, 0)>>]) @@
  (2 :> [txs |-> <<Tx(d, 1), Tx(e, 1)>>,
         ins |-> <<Null, Spend(a, 0), Spend(a, 2)>>]) @@
  (3 :> [txs |-> <<Tx(f, 1), Tx(g, 1)>>,
         ins |-> <<Null, Spend(a, 1), Spend(c, 0)>>])

\* Two coinbase transactions with one id, as in blocks 91722 and 91880 of
\* the main network.
TwiceChain ==
  (0 :> [txs |-> <<Tx(a, 1)>>, ins |-> <<Null>>]) @@
  (1 :> [txs |-> <<Tx(b, 1)>>, ins |-> <<Null>>]) @@
  (2 :> [txs |-> <<Tx(a, 1), Tx(c, 1)>>, ins |-> <<Null, Spend(b, 0)>>]) @@
  (3 :> [txs |-> <<Tx(d, 1)>>, ins |-> <<Null>>])
=============================================================================
