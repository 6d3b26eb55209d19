------------------------- MODULE ConnectedBlockIter ------------------------
(***************************************************************************)
(* The pipeline that `ConnectedBlockIter::new` builds                      *)
(* (src/src/iter/connected_block_iter.rs): two chained parallel iterators. *)
(*                                                                         *)
(*   stage 1 runs update_unspent_cache on the heights 0 .. end - 1;        *)
(*   stage 2 runs connect_outpoints on the blocks that stage 1 hands over. *)
(*                                                                         *)
(* What the two closures do to the cache of unspent outputs depends on the *)
(* feature `on-disk-utxo`: InMemUtxo and OnDiskUtxo extend this module.    *)
(***************************************************************************)
EXTENDS BlockChain

CONSTANTS
  End,          \* the argument of connected_block_iter
  Updaters,     \* worker threads of stage 1
  Connectors,   \* worker threads of stage 2
  Ahead,        \* bound: tasks an iterator may run ahead of its caller
  IoErrors,     \* whether reading a block file may fail
  NoOut         \* Option::<TxOut>::None

ASSUME PipelineAssumption == End \in Nat /\ Ahead \in Nat /\ IoErrors \in BOOLEAN

VARIABLES
  fetched1, job1, done1, failed1, handed1, status1,   \* stage 1
  fetched2, job2, done2, failed2, handed2, status2,   \* stage 2
  output_block,  \* the outputs connected to the inputs of each block
  broken         \* heights at which the disk failed

stage1 == <<fetched1, job1, done1, failed1, handed1, status1>>
stage2 == <<fetched2, job2, done2, failed2, handed2, status2>>

S1 == INSTANCE ParIterSync WITH Workers <- Updaters, fetched <- fetched1,
        job <- job1, done <- done1, failed <- failed1, handed <- handed1,
        status <- status1
S2 == INSTANCE ParIterSync WITH Workers <- Connectors, fetched <- fetched2,
        job <- job2, done <- done2, failed <- failed2, handed <- handed2,
        status <- status2

NoInputs(h) == [c \in DOMAIN Blocks[h].ins |-> NoOut]

\* ConnectedBlockIter::new: both sets of workers start.
IterInit ==
  /\ S1!Init
  /\ S2!Init
  /\ output_block = [h \in Heights |-> NoInputs(h)]

-----------------------------------------------------------------------------
\* Stage 1: a worker takes the next of `end` heights.
next_height(u, end) ==
  /\ S1!fetch(u, fetched1 < end)
  /\ UNCHANGED <<stage2, output_block, broken>>

\* get_block succeeds, and so does the closure.
block_ok(u) ==
  /\ job1[u] \in Heights
  /\ S1!return_ok(u)
  /\ UNCHANGED <<stage2, output_block, broken>>

\* The disk fails at height h, which may be one the index does not have.
Breaks(h) == broken' = IF h \in Heights THEN broken \cup {h} ELSE broken

\* get_block fails: the height is not in the index, or the file is unreadable.
block_err(u) ==
  /\ job1[u] \notin Heights \/ IoErrors
  /\ S1!return_err(u)
  /\ Breaks(job1[u])
  /\ UNCHANGED <<stage2, output_block>>

-----------------------------------------------------------------------------
\* Stage 2: a worker calls next() on stage 1, its task iterator.
next_block(v) ==
  /\ S2!fetch(v, TRUE)
  /\ S1!next_some
  /\ UNCHANGED <<output_block, broken>>

\* ... and is told that there are no more blocks.
no_more_blocks(v, end) ==
  /\ status2 = "open" /\ job2[v] = S2!Idle
  /\ S1!next_none(fetched1 = end)
  /\ UNCHANGED <<stage2, output_block, broken>>

-----------------------------------------------------------------------------
\* The caller: Iterator::next, and dropping the iterator.
next_some ==
  S2!next_some /\ UNCHANGED <<stage1, output_block, broken>>

next_none ==
  /\ S2!next_none(status1 # "open" /\ fetched2 = handed1)
  /\ UNCHANGED <<stage1, output_block, broken>>

drop_iter ==
  S2!drop /\ UNCHANGED <<stage1, output_block, broken>>

\* The last worker of stage 2 that ends drops its task iterator, stage 1.
drop_upstream ==
  /\ status2 # "open" /\ S2!AllIdle
  /\ S1!drop
  /\ UNCHANGED <<stage2, output_block, broken>>

caller == next_some \/ next_none \/ drop_iter \/ drop_upstream

\* All threads have ended.
Stopped == status1 # "open" /\ status2 # "open" /\ S1!AllIdle /\ S2!AllIdle

-----------------------------------------------------------------------------
IterType ==
  /\ S1!TypeInv
  /\ S2!TypeInv
  /\ DOMAIN output_block = Heights
  /\ \A h \in Heights :
       output_block[h] \in [DOMAIN Blocks[h].ins -> (TxPos \X Nat) \cup {NoOut}]
  /\ broken \subseteq Heights

\* The outputs of block h are in the cache, or have been.
Inserted(h) == h < handed1 \/ h \in done1

UniqueTxid(p) == \A p2 \in TxPos : TxAt(p2).txid = TxAt(p).txid => p2 = p

\* The outputs of p that no input of the blocks given to stage 2 spends.
Left(p) ==
  {n \in Slots(p) : \A q \in InPos :
     q[1] < fetched2 => InAt(q) # [txid |-> TxAt(p).txid, vout |-> n]}

(***************************************************************************)
(* The iterator is a ConnectedStream: for every interleaving the caller    *)
(* sees the blocks in order, connected to the outputs they spend, and      *)
(* next() returns None only at the end or at a block that cannot be        *)
(* produced.                                                               *)
(***************************************************************************)
Stream == INSTANCE ConnectedStream WITH
            stream <- [i \in 1 .. handed2 |-> output_block[i - 1]],
            status <- status2
IsConnectedStream == Stream!Spec

(***************************************************************************)
(* A caller that keeps calling next() gets to the end of the stream, and   *)
(* once it has (or has dropped the iterator, at any moment) all worker     *)
(* threads of both stages end.                                             *)
(***************************************************************************)
Terminates == <>[]Stopped
=============================================================================
