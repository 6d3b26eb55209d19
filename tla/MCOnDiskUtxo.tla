---------------------------- MODULE MCOnDiskUtxo ----------------------------
(***************************************************************************)
(* Instances of OnDiskUtxo for TLC, over the chains of MCChains.          *)
(***************************************************************************)
EXTENDS OnDiskUtxo, MCChains
=============================================================================
