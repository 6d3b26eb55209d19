----------------------------- MODULE OnDiskUtxo ----------------------------
(***************************************************************************)
(* ConnectedBlockIter with the feature `on-disk-utxo` (the module          *)
(* on_disk_utxo of src/src/iter/fetch_connected_async.rs): the unspent     *)
(* outputs are in a temporary RocksDB, one entry per output.               *)
(*                                                                         *)
(* RocksDB is external: a map from keys to bytes in which one batch is     *)
(* written at once.  Its multi_get is modelled as one read per key, with   *)
(* the writes of other threads in between.                                 *)
(***************************************************************************)
EXTENDS ConnectedBlockIter, FiniteSets

CONSTANT StoreErrors    \* whether an operation of RocksDB may fail

VARIABLES
  opened,     \* whether new() could create the temporary directory and DB
  store,      \* the RocksDB: the bytes under each key, or NoOut
  pc,         \* where connector v is in connect_outpoints
  cur,        \* the key that connector v works on
  tx_outs     \* what multi_get has returned to connector v

local == <<pc, cur, tx_outs>>
vars  == <<stage1, stage2, output_block, broken, opened, store, local>>

txout_key(txid, n) == [txid |-> txid, vout |-> n]

\* The bytes of an output, and the output that bytes decode to.
encode_txout(o) == [bytes |-> o]
consensus_decode(b) == b.bytes

\* None is not the bytes of an output.
ASSUME OnDiskAssumption ==
  /\ StoreErrors \in BOOLEAN
  /\ \A p \in TxPos : \A n \in Slots(p) : encode_txout(<<p, n>>) # NoOut

Keys ==
  {InAt(q) : q \in {q \in InPos : InAt(q) # NullOutPoint}} \cup
  UNION {{txout_key(TxAt(p).txid, n) : n \in Slots(p)} : p \in TxPos}

\* The tasks of stage 1; null() has none.
NumTasks == IF opened THEN End ELSE 0

\* ConnectedBlockIter::new, or null() when the store cannot be created.
Init ==
  /\ IterInit
  /\ opened \in IF StoreErrors THEN BOOLEAN ELSE {TRUE}
  /\ broken = IF opened THEN {} ELSE Heights
  /\ store = [k \in Keys |-> NoOut]
  /\ pc = [v \in Connectors |-> "get"]
  /\ cur = [v \in Connectors |-> 1]
  /\ tx_outs = [v \in Connectors |-> <<>>]

-----------------------------------------------------------------------------
take_height(u) ==
  next_height(u, NumTasks) /\ UNCHANGED <<opened, store, local>>

\* The store after the batch of block h, for outputs counted from `first`.
BatchFrom(h, first) ==
  [k \in Keys |->
     LET made == {i \in DOMAIN Blocks[h].txs :
                    /\ Blocks[h].txs[i].txid = k.txid
                    /\ k.vout \in first .. first + Blocks[h].txs[i].outs - 1}
     IN  IF made = {} THEN store[k]
         ELSE encode_txout(<<<<h, CHOOSE i \in made : TRUE>>, k.vout - first>>)]

\* Mutant: the outputs are numbered from one.
Batch_from_one(h) == BatchFrom(h, 1)

Batch(h) == BatchFrom(h, 0)

\* The block is read and its outputs are written in one batch.
update_unspent_cache(u) ==
  /\ block_ok(u)
  /\ store' = Batch(job1[u])
  /\ UNCHANGED <<opened, local>>

update_unspent_cache_err(u) == block_err(u) /\ UNCHANGED <<opened, store, local>>

\* "failed to write UTXO to cache"
write_err(u) ==
  /\ StoreErrors /\ job1[u] \in Heights
  /\ S1!return_err(u)
  /\ Breaks(job1[u])
  /\ UNCHANGED <<stage2, output_block, opened, store, local>>

-----------------------------------------------------------------------------
take_block(v) ==
  /\ next_block(v)
  /\ pc' = [pc EXCEPT ![v] = "get"]
  /\ cur' = [cur EXCEPT ![v] = 1]
  /\ tx_outs' = [tx_outs EXCEPT ![v] = <<>>]
  /\ UNCHANGED <<opened, store>>

take_no_block(v) ==
  no_more_blocks(v, NumTasks) /\ UNCHANGED <<opened, store, local>>

\* How many of the first c inputs of block h have a key; coinbase inputs
\* have none.
KeysUpTo(h, c) == Cardinality({d \in 1 .. c : Blocks[h].ins[d] # NullOutPoint})

\* The keys of the inputs of each block, in their order.
keys ==
  [h \in Heights |->
     [i \in 1 .. KeysUpTo(h, Len(Blocks[h].ins)) |->
        Blocks[h].ins[CHOOSE c \in DOMAIN Blocks[h].ins :
                        Blocks[h].ins[c] # NullOutPoint /\ KeysUpTo(h, c) = i]]]

AtKey(v, phase) ==
  job2[v] \in Heights /\ pc[v] = phase /\ cur[v] \in DOMAIN keys[job2[v]]
PastKeys(v, phase) ==
  job2[v] \in Heights /\ pc[v] = phase /\ cur[v] > Len(keys[job2[v]])

Key(v) == keys[job2[v]][cur[v]]
Advance(v) == cur' = [cur EXCEPT ![v] = @ + 1]

\* multi_get reads one key.
connect_get(v) ==
  /\ AtKey(v, "get")
  /\ tx_outs' = [tx_outs EXCEPT ![v] = Append(@, store[Key(v)])]
  /\ Advance(v)
  /\ UNCHANGED <<stage1, stage2, output_block, broken, opened, store, pc>>

\* Mutant: an Err is filtered out of the result.
connect_get_err_dropped(v) ==
  /\ StoreErrors /\ AtKey(v, "get")
  /\ Breaks(job2[v])
  /\ Advance(v)
  /\ UNCHANGED <<stage1, stage2, output_block, opened, store, pc, tx_outs>>

\* multi_get returns Err for one key: the same as not found.
connect_get_err(v) ==
  /\ StoreErrors /\ AtKey(v, "get")
  /\ tx_outs' = [tx_outs EXCEPT ![v] = Append(@, NoOut)]
  /\ Breaks(job2[v])
  /\ Advance(v)
  /\ UNCHANGED <<stage1, stage2, output_block, opened, store, pc>>

\* Mutant: the keys are read again until all of them are found.
connect_got_retry(v) ==
  /\ PastKeys(v, "get")
  /\ LET missing == \E i \in DOMAIN tx_outs[v] : tx_outs[v][i] = NoOut
     IN  /\ pc' = [pc EXCEPT ![v] = IF missing THEN "get" ELSE "delete"]
         /\ tx_outs' = [tx_outs EXCEPT ![v] = IF missing THEN <<>> ELSE @]
  /\ cur' = [cur EXCEPT ![v] = 1]
  /\ UNCHANGED <<stage1, stage2, output_block, broken, opened, store>>

connect_got(v) ==
  /\ PastKeys(v, "get")
  /\ pc' = [pc EXCEPT ![v] = "delete"]
  /\ cur' = [cur EXCEPT ![v] = 1]
  /\ UNCHANGED <<stage1, stage2, output_block, broken, opened, store, tx_outs>>

\* Mutant: the keys stay in the store.
connect_delete_nothing(v) ==
  /\ AtKey(v, "delete")
  /\ Advance(v)
  /\ UNCHANGED <<stage1, stage2, output_block, broken, opened, store, pc, tx_outs>>

\* Mutant: every output of the transaction is deleted.
connect_delete_tx(v) ==
  /\ AtKey(v, "delete")
  /\ store' = [k \in Keys |-> IF k.txid = Key(v).txid THEN NoOut ELSE store[k]]
  /\ Advance(v)
  /\ UNCHANGED <<stage1, stage2, output_block, broken, opened, pc, tx_outs>>

\* One key is deleted, whether or not it was found.
connect_delete(v) ==
  /\ AtKey(v, "delete")
  /\ store' = [store EXCEPT ![Key(v)] = NoOut]
  /\ Advance(v)
  /\ UNCHANGED <<stage1, stage2, output_block, broken, opened, pc, tx_outs>>

\* "failed to remove key": the keys before it are already gone.
connect_delete_err(v) ==
  /\ StoreErrors /\ AtKey(v, "delete")
  /\ S2!return_err(v)
  /\ Breaks(job2[v])
  /\ UNCHANGED <<stage1, output_block, opened, store, local>>

\* Mutant: the pointer into tx_outs is never advanced.
pos_frozen(h, c) == 1

\* The pointer into tx_outs when input c is reached: coinbase inputs, which
\* have no key, do not advance it.
pos(h, c) == KeysUpTo(h, c)

\* Every output was found: add_input for each of them.
connect_return(v) ==
  LET h == job2[v]
  IN  /\ PastKeys(v, "delete")
      /\ \A i \in DOMAIN tx_outs[v] : tx_outs[v][i] # NoOut
      /\ output_block' =
           [output_block EXCEPT ![h] =
              [c \in DOMAIN Blocks[h].ins |->
                 IF Blocks[h].ins[c] = NullOutPoint THEN NoOut
                 ELSE consensus_decode(tx_outs[v][pos(h, c)])]]
      /\ S2!return_ok(v)
      /\ UNCHANGED <<stage1, broken, opened, store, local>>

\* Mutant: a missing output is logged and the block is returned.
connect_missing_ignored(v) ==
  /\ PastKeys(v, "delete")
  /\ \E i \in DOMAIN tx_outs[v] : tx_outs[v][i] = NoOut
  /\ S2!return_ok(v)
  /\ UNCHANGED <<stage1, output_block, broken, opened, store, local>>

\* "cannot find previous outpoint, bad data": the keys are gone all the same.
connect_missing(v) ==
  /\ PastKeys(v, "delete")
  /\ \E i \in DOMAIN tx_outs[v] : tx_outs[v][i] = NoOut
  /\ S2!return_err(v)
  /\ UNCHANGED <<stage1, output_block, broken, opened, store, local>>

-----------------------------------------------------------------------------
call_iter == caller /\ UNCHANGED <<opened, store, local>>

stay_stopped == Stopped /\ UNCHANGED vars

update_stage(u) ==
  \/ take_height(u) \/ update_unspent_cache(u)
  \/ update_unspent_cache_err(u) \/ write_err(u)

connect_outpoints(v) ==
  \/ connect_get(v) \/ connect_get_err(v) \/ connect_got(v)
  \/ connect_delete(v) \/ connect_delete_err(v)
  \/ connect_return(v) \/ connect_missing(v)

connect_stage(v) == take_block(v) \/ take_no_block(v) \/ connect_outpoints(v)

Next ==
  \/ \E u \in Updaters : update_stage(u)
  \/ \E v \in Connectors : connect_stage(v)
  \/ call_iter
  \/ stay_stopped

Spec == Init /\ [][Next]_vars

\* Every thread is scheduled, and the caller keeps calling next().
Fairness ==
  /\ \A u \in Updaters : WF_vars(update_stage(u))
  /\ \A v \in Connectors : WF_vars(connect_stage(v))
  /\ WF_vars((next_some \/ next_none) /\ UNCHANGED <<opened, store, local>>)
  /\ WF_vars(drop_upstream /\ UNCHANGED <<opened, store, local>>)

FairSpec == Spec /\ Fairness

-----------------------------------------------------------------------------
(***************************************************************************)
(* Every variable has its type.  What a connector has read is never longer *)
(* than its list of keys, and is complete before the first key is deleted: *)
(* `tx_outs.get(pos).unwrap()` never panics.                               *)
(***************************************************************************)
TypeOK ==
  /\ IterType
  /\ opened \in BOOLEAN
  /\ store \in [Keys -> {encode_txout(o) : o \in UNION {{p} \X Slots(p) : p \in TxPos}}
                          \cup {NoOut}]
  /\ \A v \in Connectors : job2[v] \in Heights =>
       Len(tx_outs[v]) = IF pc[v] = "get" THEN cur[v] - 1 ELSE Len(keys[job2[v]])

(***************************************************************************)
(* connect_outpoints returns Err for no block whose inputs are all valid   *)
(* unless an operation of the store failed for that very block: the failed *)
(* deletions of one block, and what other blocks delete in the meantime,   *)
(* take nothing away from it.                                              *)
(***************************************************************************)
NoSpuriousErr == \A h \in failed2 : ~ValidBlock(h) \/ h \in broken

(***************************************************************************)
(* Whenever no connector is at work and none has failed, the store holds   *)
(* exactly the UTXO set of the blocks stage 2 has seen, plus the outputs   *)
(* of the blocks stage 1 is ahead by.                                      *)
(***************************************************************************)
StoreIsUtxoSet ==
  S2!AllIdle /\ failed2 = {} =>
    \A p \in TxPos : Inserted(p[1]) /\ UniqueTxid(p) =>
      \A n \in Slots(p) :
        store[txout_key(TxAt(p).txid, n)] =
          IF n \in Left(p) THEN encode_txout(<<p, n>>) ELSE NoOut
=============================================================================
