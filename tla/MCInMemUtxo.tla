---------------------------- MODULE MCInMemUtxo -----------------------------
(***************************************************************************)
(* Instances of InMemUtxo for TLC, over the chains of MCChains.           *)
(***************************************************************************)
EXTENDS InMemUtxo, MCChains
=============================================================================
