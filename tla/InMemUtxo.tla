----------------------------- MODULE InMemUtxo -----------------------------
(***************************************************************************)
(* ConnectedBlockIter without the feature `on-disk-utxo` (the module       *)
(* in_mem_utxo of src/src/iter/fetch_connected_async.rs).                  *)
(*                                                                         *)
(*   update_unspent_cache reads block h and inserts its outputs;           *)
(*   connect_outpoints removes from the cache the output each input of a   *)
(*   block spends.                                                         *)
(*                                                                         *)
(* The cache is an Arc<Mutex<HashMap<Txid, Arc<Mutex<VecMap>>>>>.  Every   *)
(* critical section of the two mutexes is one action; nothing is assumed   *)
(* about what other threads do between two of them.                        *)
(***************************************************************************)
EXTENDS ConnectedBlockIter

CONSTANT NoTx    \* no entry under a key of the HashMap

ASSUME InMemAssumption ==
  /\ NoTx \notin TxPos
  /\ NoOut \notin TxPos \X Nat

VARIABLES
  unspent,       \* the HashMap: txid -> the VecMap (by transaction) it holds
  heap,          \* the VecMaps behind the inner Arcs, by transaction
  pc,            \* where connector v is in the loop over inputs
  cur,           \* the input that connector v works on
  prev_tx,       \* the Arc that connector v cloned out of the HashMap
  tx_out,        \* what VecMap::remove returned to connector v
  was_empty      \* what VecMap::is_empty returned to connector v

cache == <<unspent, heap>>
local == <<pc, cur, prev_tx, tx_out, was_empty>>
vars  == <<stage1, stage2, output_block, broken, cache, local>>

VM == INSTANCE VecMap

-----------------------------------------------------------------------------
\* The array of the outputs of the transaction at p, all of them Some.
NewOuts(p) == [n \in Slots(p) |-> <<p, n>>]

\* A VecMap that is not allocated yet; nothing reads it.
Unallocated(p) == [size |-> 0, inner |-> [n \in Slots(p) |-> NoOut]]

\* ConnectedBlockIter::new: the cache is empty.
Init ==
  /\ IterInit
  /\ unspent = [t \in Txids |-> NoTx]
  /\ heap = [p \in TxPos |-> Unallocated(p)]
  /\ pc = [v \in Connectors |-> "get"]
  /\ cur = [v \in Connectors |-> 1]
  /\ prev_tx = [v \in Connectors |-> NoTx]
  /\ tx_out = [v \in Connectors |-> NoOut]
  /\ was_empty = [v \in Connectors |-> FALSE]
  /\ broken = {}

-----------------------------------------------------------------------------
take_height(u) == next_height(u, End) /\ UNCHANGED <<cache, local>>

\* The HashMap after extend(new_unspent_cache): a key that is already there
\* is overwritten.
Extended(h) ==
  [t \in Txids |->
     IF \E i \in DOMAIN Blocks[h].txs : Blocks[h].txs[i].txid = t
     THEN <<h, CHOOSE i \in DOMAIN Blocks[h].txs : Blocks[h].txs[i].txid = t>>
     ELSE unspent[t]]

\* The block is read and its outputs enter the cache, under one lock.
update_unspent_cache(u) ==
  /\ block_ok(u)
  /\ heap' = [p \in TxPos |-> IF p[1] = job1[u] THEN VM!from_vec(NewOuts(p)) ELSE heap[p]]
  /\ unspent' = Extended(job1[u])
  /\ UNCHANGED local

update_unspent_cache_err(u) == block_err(u) /\ UNCHANGED <<cache, local>>

-----------------------------------------------------------------------------
\* The closure starts at the first input.
take_block(v) ==
  /\ next_block(v)
  /\ pc' = [pc EXCEPT ![v] = "get"]
  /\ cur' = [cur EXCEPT ![v] = 1]
  /\ UNCHANGED <<cache, prev_tx, tx_out, was_empty>>

take_no_block(v) == no_more_blocks(v, End) /\ UNCHANGED <<cache, local>>

\* The input that connector v works on.
HasInput(v) == job2[v] \in Heights /\ cur[v] \in DOMAIN Blocks[job2[v]].ins
Input(v) == Blocks[job2[v]].ins[cur[v]]

\* Mutant: `continue` before the loop moves on, the coinbase is seen again.
connect_coinbase_again(v) ==
  /\ pc[v] = "get" /\ HasInput(v) /\ Input(v) = NullOutPoint
  /\ UNCHANGED vars

\* A coinbase input is skipped.
connect_coinbase(v) ==
  /\ pc[v] = "get" /\ HasInput(v) /\ Input(v) = NullOutPoint
  /\ cur' = [cur EXCEPT ![v] = @ + 1]
  /\ UNCHANGED <<stage1, stage2, cache, pc, prev_tx, tx_out, was_empty,
                 output_block, broken>>

\* Lock the HashMap, clone the Arc of the previous transaction out of it.
connect_get(v) ==
  /\ pc[v] = "get" /\ HasInput(v) /\ Input(v) # NullOutPoint
  /\ unspent[Input(v).txid] # NoTx
  /\ prev_tx' = [prev_tx EXCEPT ![v] = unspent[Input(v).txid]]
  /\ pc' = [pc EXCEPT ![v] = "take"]
  /\ UNCHANGED <<stage1, stage2, cache, cur, tx_out, was_empty, output_block, broken>>

\* "cannot find previous transactions, bad data"
connect_get_err(v) ==
  /\ pc[v] = "get" /\ HasInput(v) /\ Input(v) # NullOutPoint
  /\ unspent[Input(v).txid] = NoTx
  /\ S2!return_err(v)
  /\ UNCHANGED <<stage1, cache, local, output_block, broken>>

\* Lock the VecMap, remove the output, ask whether the map is now empty.
connect_take(v) ==
  LET p == prev_tx[v]
      n == Input(v).vout
  IN  /\ pc[v] = "take"
      /\ tx_out' = [tx_out EXCEPT ![v] = VM!element(heap[p], n)]
      /\ heap' = [heap EXCEPT ![p] = VM!remove(@, n)]
      /\ was_empty' = [was_empty EXCEPT ![v] = VM!is_empty(heap'[p])]
      /\ pc' = [pc EXCEPT ![v] = "remove_key"]
      /\ UNCHANGED <<stage1, stage2, unspent, cur, prev_tx, output_block, broken>>

\* Mutant: the key stays when the VecMap is empty.
RemoveKey_never(v) == unspent' = unspent

\* Mutant: the key is removed with the first output that is spent.
RemoveKey_always(v) == unspent' = [unspent EXCEPT ![Input(v).txid] = NoTx]

\* Lock the HashMap again and remove the key if the VecMap was empty then.
RemoveKey(v) ==
  unspent' = IF was_empty[v] THEN [unspent EXCEPT ![Input(v).txid] = NoTx]
             ELSE unspent

\* add_input, and on to the next input.
connect_add(v) ==
  /\ pc[v] = "remove_key" /\ tx_out[v] # NoOut
  /\ RemoveKey(v)
  /\ output_block' = [output_block EXCEPT ![job2[v]][cur[v]] = tx_out[v]]
  /\ cur' = [cur EXCEPT ![v] = @ + 1]
  /\ pc' = [pc EXCEPT ![v] = "get"]
  /\ UNCHANGED <<stage1, stage2, heap, prev_tx, tx_out, was_empty, broken>>

\* Mutant: the missing output is logged and the loop goes on.
connect_take_err_continue(v) ==
  /\ pc[v] = "remove_key" /\ tx_out[v] = NoOut
  /\ RemoveKey(v)
  /\ cur' = [cur EXCEPT ![v] = @ + 1]
  /\ pc' = [pc EXCEPT ![v] = "get"]
  /\ UNCHANGED <<stage1, stage2, heap, prev_tx, tx_out, was_empty,
                 output_block, broken>>

\* "cannot find previous outpoint, bad data"
connect_take_err(v) ==
  /\ pc[v] = "remove_key" /\ tx_out[v] = NoOut
  /\ RemoveKey(v)
  /\ S2!return_err(v)
  /\ pc' = [pc EXCEPT ![v] = "get"]
  /\ UNCHANGED <<stage1, heap, cur, prev_tx, tx_out, was_empty, output_block, broken>>

\* Every input is connected: return the block.
connect_return(v) ==
  /\ pc[v] = "get" /\ job2[v] \in Heights /\ ~HasInput(v)
  /\ S2!return_ok(v)
  /\ UNCHANGED <<stage1, cache, local, output_block, broken>>

-----------------------------------------------------------------------------
call_iter == caller /\ UNCHANGED <<cache, local>>

stay_stopped == Stopped /\ UNCHANGED vars

update_stage(u) ==
  \/ take_height(u) \/ update_unspent_cache(u) \/ update_unspent_cache_err(u)

connect_outpoints(v) ==
  \/ connect_coinbase(v) \/ connect_get(v) \/ connect_get_err(v)
  \/ connect_take(v) \/ connect_add(v) \/ connect_take_err(v)
  \/ connect_return(v)

connect_stage(v) == take_block(v) \/ take_no_block(v) \/ connect_outpoints(v)

Next ==
  \/ \E u \in Updaters : update_stage(u)
  \/ \E v \in Connectors : connect_stage(v)
  \/ call_iter
  \/ stay_stopped

Spec == Init /\ [][Next]_vars

\* Every thread is scheduled, and the caller keeps calling next().
Fairness ==
  /\ \A u \in Updaters : WF_vars(update_stage(u))
  /\ \A v \in Connectors : WF_vars(connect_stage(v))
  /\ WF_vars((next_some \/ next_none) /\ UNCHANGED <<cache, local>>)
  /\ WF_vars(drop_upstream /\ UNCHANGED <<cache, local>>)

FairSpec == Spec /\ Fairness

-----------------------------------------------------------------------------
(***************************************************************************)
(* Every variable has its type: the VecMaps keep their length, their       *)
(* counter never goes below zero, and a slot holds its own output or None. *)
(***************************************************************************)
CacheType ==
  /\ unspent \in [Txids -> TxPos \cup {NoTx}]
  /\ DOMAIN heap = TxPos
  /\ \A p \in TxPos :
       /\ heap[p].size \in Nat
       /\ DOMAIN heap[p].inner = Slots(p)
       /\ \A n \in Slots(p) : heap[p].inner[n] \in {<<p, n>>, NoOut}

LocalType ==
  /\ pc \in [Connectors -> {"get", "take", "remove_key"}]
  /\ cur \in [Connectors -> Nat \ {0}]
  /\ prev_tx \in [Connectors -> TxPos \cup {NoTx}]
  /\ tx_out \in [Connectors -> (TxPos \X Nat) \cup {NoOut}]
  /\ was_empty \in [Connectors -> BOOLEAN]

TypeOK == IterType /\ CacheType /\ LocalType

(***************************************************************************)
(* connect_outpoints returns Err ("bad data") for no block whose inputs    *)
(* are all valid: whatever the two pools of workers do between two         *)
(* critical sections, the output that a valid input spends is in the cache *)
(* when its connector looks for it, and so is the key that leads to it.    *)
(***************************************************************************)
NoSpuriousErr == \A h \in failed2 : ~ValidBlock(h)

(***************************************************************************)
(* VecMap::remove under the inner mutex hands each output out at most      *)
(* once: even when two inputs of a bad chain spend the same outpoint, in   *)
(* blocks that are connected concurrently, only one of them gets it.       *)
(***************************************************************************)
SpentOnce ==
  \A q1, q2 \in InPos :
    /\ output_block[q1[1]][q1[2]] = output_block[q2[1]][q2[2]]
    /\ output_block[q1[1]][q1[2]] # NoOut
    => q1 = q2

(***************************************************************************)
(* Whenever no connector is at work and none has failed, the cache is      *)
(* exactly the UTXO set of the blocks stage 2 has seen, plus the outputs   *)
(* of the blocks stage 1 is ahead by: no output is lost, none is kept      *)
(* after it was spent, and the key of a transaction is there if and only   *)
(* if it has unspent outputs (src/src/iter/fetch_connected_async.rs:225).  *)
(* Only a transaction that never had an output would keep its key.         *)
(***************************************************************************)
CacheIsUtxoSet ==
  S2!AllIdle /\ failed2 = {} =>
    \A p \in TxPos : Inserted(p[1]) /\ UniqueTxid(p) =>
      /\ VM!Occupied(heap[p]) = Left(p)
      /\ Slots(p) # {} =>
           unspent[TxAt(p).txid] = IF Left(p) = {} THEN NoTx ELSE p

(***************************************************************************)
(* "the new transaction should not be in unspent"                          *)
(* (src/src/iter/fetch_connected_async.rs:177): a worker about to insert a *)
(* block finds none of its transaction ids in the cache.                   *)
(***************************************************************************)
NewTxNotInUnspent ==
  \A u \in Updaters : job1[u] \in Heights =>
    \A i \in DOMAIN Blocks[job1[u]].txs :
      unspent[Blocks[job1[u]].txs[i].txid] = NoTx
=============================================================================
