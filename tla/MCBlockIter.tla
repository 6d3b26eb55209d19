---------------------------- MODULE MCBlockIter ----------------------------
(***************************************************************************)
(* Calls of block_iter and iter_heights for TLC: empty and reversed        *)
(* ranges, ranges past the end of the chain, and lists that repeat heights *)
(* or leave the chain and come back.                                       *)
(***************************************************************************)
EXTENDS BlockIter

MCRequests ==
  {[kind |-> "range", start |-> r[1], end |-> r[2]] :
     r \in {<<0, 0>>, <<2, 1>>, <<1, 3>>, <<0, 5>>}}
  \cup {[kind |-> "heights", heights |-> s] : s \in {<<2, 0, 2>>, <<0, 7, 1>>}}
=============================================================================
