------------------------------- MODULE VecMap -------------------------------
(***************************************************************************)
(* The outputs of one transaction that are still unspent, as the in-memory *)
(* UTXO cache stores them (src/src/iter/util.rs): a fixed array of slots,  *)
(* each Some(output) or None, and a counter of the slots that hold Some.   *)
(* An array is a function on its indices 0 .. len - 1.                     *)
(***************************************************************************)
EXTENDS Integers, FiniteSets, FiniteSetTheorems

CONSTANT NoOut   \* the slot value None (InMemUtxoProofs uses the theorems on finite sets)

\* A slice of outputs, all of them Some.
from_vec(slice) == [size |-> Cardinality(DOMAIN slice), inner |-> slice]

\* Mutant: off by one.
is_empty_early(m) == m.size <= 1

is_empty(m) == m.size = 0

\* What remove(index) returns: None when the index is out of bounds.
element(m, index) == IF index \in DOMAIN m.inner THEN m.inner[index] ELSE NoOut

\* Mutant: the counter is decremented whether or not a slot was emptied.
remove_always_counts(m, index) ==
  IF index \in DOMAIN m.inner
  THEN [size |-> m.size - 1, inner |-> [m.inner EXCEPT ![index] = NoOut]]
  ELSE m

\* Mutant: the slot is read and not emptied (a get instead of a take).
remove_keeps_slot(m, index) == m

\* The map that remove(index) leaves behind.
remove(m, index) ==
  IF element(m, index) = NoOut
  THEN m
  ELSE [size |-> m.size - 1, inner |-> [m.inner EXCEPT ![index] = NoOut]]

Occupied(m) == {i \in DOMAIN m.inner : m.inner[i] # NoOut}

(***************************************************************************)
(* The counter is the number of occupied slots: is_empty() is asked of the *)
(* counter and believed of the slots.                                      *)
(***************************************************************************)
SizeOK(m) == m.size = Cardinality(Occupied(m))
=============================================================================
