-------------------------- MODULE InMemUtxoProofs --------------------------
(***************************************************************************)
(* For every chain, every number of workers and every bound, the in-memory *)
(* connected iterator keeps its types, reports "bad data" for no valid     *)
(* block, hands out no output twice, leaves exactly the UTXO set in its    *)
(* cache, and implements ConnectedStream.                                  *)
(***************************************************************************)
EXTENDS InMemUtxo, ConnectedBlockIterProofs

-----------------------------------------------------------------------------
(* The map of one transaction's outputs.                                   *)

\* The slots of an array are finitely many.
LEMMA OccupiedFinite ==
  ASSUME NEW m, NEW len \in Nat, DOMAIN m.inner = 0 .. len - 1
  PROVE  VM!IsFiniteSet(VM!Occupied(m))
  <1>1. len - 1 \in Int
    OBVIOUS
  <1>2. VM!IsFiniteSet(DOMAIN m.inner)
    BY <1>1, VM!FS_Interval
  <1>3. QED
    BY <1>2, VM!FS_Subset DEF VM!Occupied

\* A map without outputs.
LEMMA EmptySizeOK ==
  ASSUME NEW m, m.size = 0, \A i \in DOMAIN m.inner : m.inner[i] = NoOut
  PROVE  VM!SizeOK(m)
  <1>1. VM!Occupied(m) = {}
    BY DEF VM!Occupied
  <1>2. QED
    BY <1>1, VM!FS_EmptySet DEF VM!SizeOK

\* A new map, whose slots are all Some, counts all of them.
LEMMA FromVecSizeOK ==
  ASSUME NEW slice, \A i \in DOMAIN slice : slice[i] # NoOut
  PROVE  VM!SizeOK(VM!from_vec(slice))
  <1>1. VM!Occupied(VM!from_vec(slice)) = DOMAIN slice
    BY DEF VM!Occupied, VM!from_vec
  <1>2. QED
    BY <1>1 DEF VM!SizeOK, VM!from_vec

\* remove() empties one slot at most and counts it.
LEMMA RemoveSizeOK ==
  ASSUME NEW m, NEW index, VM!SizeOK(m), NEW len \in Nat, DOMAIN m.inner = 0 .. len - 1
  PROVE  VM!SizeOK(VM!remove(m, index))
  <1>1. CASE VM!element(m, index) = NoOut
    BY <1>1 DEF VM!remove
  <1>2. CASE VM!element(m, index) # NoOut
    <2>1. index \in VM!Occupied(m)
      BY <1>2 DEF VM!element, VM!Occupied
    <2>2. VM!IsFiniteSet(VM!Occupied(m))
      BY OccupiedFinite
    <2>3. VM!Cardinality(VM!Occupied(m) \ {index}) = VM!Cardinality(VM!Occupied(m)) - 1
      BY <2>1, <2>2, VM!FS_RemoveElement
    <2>4. VM!Occupied(VM!remove(m, index)) = VM!Occupied(m) \ {index}
      BY <1>2, <2>1 DEF VM!remove, VM!Occupied
    <2>5. QED
      BY <1>2, <2>3, <2>4 DEF VM!SizeOK, VM!remove
  <1>3. QED
    BY <1>1, <1>2

\* The counter is a natural number, and zero means that no slot is Some.
LEMMA SizeOKFacts ==
  ASSUME NEW m, VM!SizeOK(m), NEW len \in Nat, DOMAIN m.inner = 0 .. len - 1
  PROVE  /\ m.size \in Nat
         /\ m.size = 0 <=> \A i \in DOMAIN m.inner : m.inner[i] = NoOut
  <1>1. VM!IsFiniteSet(VM!Occupied(m))
    BY OccupiedFinite
  <1>2. VM!Cardinality(VM!Occupied(m)) \in Nat
    BY <1>1, VM!FS_CardinalityType
  <1>3. m.size = 0 <=> VM!Occupied(m) = {}
    BY <1>1, VM!FS_EmptySet DEF VM!SizeOK
  <1>4. QED
    BY <1>2, <1>3 DEF VM!SizeOK, VM!Occupied

\* remove() leaves the other slots and the length alone.
LEMMA RemoveSlots ==
  ASSUME NEW m, NEW index
  PROVE  /\ DOMAIN VM!remove(m, index).inner = DOMAIN m.inner
         /\ \A i \in DOMAIN m.inner :
              VM!remove(m, index).inner[i] = IF i = index THEN NoOut ELSE m.inner[i]
  BY DEF VM!remove, VM!element

-----------------------------------------------------------------------------
(* The inductive invariant, in named parts.                                *)

\* The counters of the VecMaps are right.
Counted == \A p \in TxPos : VM!SizeOK(heap[p])

\* A key leads to an inserted transaction with that id.
KeyLeads ==
  \A t \in Txids : unspent[t] # NoTx =>
    Inserted(unspent[t][1]) /\ TxAt(unspent[t]).txid = t

\* The key of an inserted transaction is there as long as it has outputs.
KeyStays ==
  \A p \in TxPos : UniqueTxid(p) /\ Inserted(p[1]) =>
    unspent[TxAt(p).txid] = p \/ heap[p].size = 0

\* What a connector remembers of the cache between two critical sections.
Remembers(v) ==
  pc[v] # "get" =>
    /\ HasInput(v)
    /\ Input(v) # NullOutPoint
    /\ prev_tx[v] \in TxPos
    /\ Inserted(prev_tx[v][1])
    /\ TxAt(prev_tx[v]).txid = Input(v).txid
    /\ pc[v] = "remove_key" =>
         /\ was_empty[v] => heap[prev_tx[v]].size = 0
         /\ ValidBlock(job2[v]) => tx_out[v] # NoOut

\* No connector will ask the cache for the output of input q any more.
Asked(q) ==
  /\ q[1] < handed1
  /\ \A v \in Connectors : job2[v] = q[1] =>
       q[2] < cur[v] \/ (q[2] = cur[v] /\ pc[v] = "remove_key")

\* An output that is gone from the cache was taken by an input spending it.
TakenByInput ==
  \A p \in TxPos : Inserted(p[1]) =>
    \A n \in Slots(p) : heap[p].inner[n] = NoOut =>
      \E q \in InPos : /\ InAt(q) = [txid |-> TxAt(p).txid, vout |-> n]
                       /\ Asked(q)

IInv ==
  /\ TypeOK
  /\ S1!Inv
  /\ S2!Inv
  /\ Chained
  /\ Counted
  /\ KeyLeads
  /\ KeyStays
  /\ \A v \in Connectors : Remembers(v)
  /\ TakenByInput
  /\ NoSpuriousErr

-----------------------------------------------------------------------------
(* The stages.                                                             *)

\* Every step of the iterator keeps the contract of stage 1.
LEMMA Stage1Inv == S1!Inv /\ [Next]_vars => S1!Inv'
  <1> SUFFICES ASSUME S1!Inv, [Next]_vars PROVE S1!Inv'
    OBVIOUS
  <1> USE DEF stage1
  <1>1. ASSUME NEW u \in Updaters, update_stage(u) PROVE S1!Inv'
    BY <1>1, S1!FetchInv, S1!ReturnOkInv, S1!ReturnErrInv
    DEF update_stage, take_height, update_unspent_cache, update_unspent_cache_err,
        next_height, block_ok, block_err
  <1>2. ASSUME NEW v \in Connectors, take_block(v) \/ take_no_block(v) PROVE S1!Inv'
    BY <1>2, S1!NextSomeInv, S1!NextNoneInv
    DEF take_block, take_no_block, next_block, no_more_blocks
  <1>3. CASE S1!drop
    BY <1>3, S1!NextNoneInv
  <1>4. ASSUME NEW v \in Connectors, connect_outpoints(v) PROVE S1!Inv'
    BY <1>4, S1!UnchangedInv
    DEF connect_outpoints, connect_coinbase, connect_get, connect_get_err,
        connect_take, connect_add, connect_take_err, connect_return, S1!vars
  <1>5. CASE next_some \/ next_none \/ drop_iter \/ UNCHANGED vars
    BY <1>5, S1!UnchangedInv DEF next_some, next_none, drop_iter, vars, S1!vars
  <1>6. QED
    BY <1>1, <1>2, <1>3, <1>4, <1>5 DEF Next, connect_stage, call_iter, caller, drop_upstream, stay_stopped

\* Every step of the iterator keeps the contract of stage 2.
LEMMA Stage2Inv == S2!Inv /\ [Next]_vars => S2!Inv'
  <1> SUFFICES ASSUME S2!Inv, [Next]_vars PROVE S2!Inv'
    OBVIOUS
  <1> USE DEF stage2
  <1>1. ASSUME NEW u \in Updaters, update_stage(u) PROVE S2!Inv'
    BY <1>1, S2!UnchangedInv
    DEF update_stage, take_height, update_unspent_cache, update_unspent_cache_err,
        next_height, block_ok, block_err, S2!vars
  <1>2. ASSUME NEW v \in Connectors, take_block(v) PROVE S2!Inv'
    BY <1>2, S2!FetchInv DEF take_block, next_block
  <1>3. ASSUME NEW v \in Connectors,
               connect_get_err(v) \/ connect_take_err(v) \/ connect_return(v)
        PROVE  S2!Inv'
    BY <1>3, S2!ReturnOkInv, S2!ReturnErrInv
    DEF connect_get_err, connect_take_err, connect_return
  <1>4. ASSUME NEW v \in Connectors,
               \/ take_no_block(v) \/ connect_coinbase(v) \/ connect_get(v)
               \/ connect_take(v) \/ connect_add(v)
        PROVE  S2!Inv'
    BY <1>4, S2!UnchangedInv
    DEF take_no_block, no_more_blocks, connect_coinbase, connect_get, connect_take,
        connect_add, S2!vars
  <1>5. CASE next_some \/ next_none \/ drop_iter
    BY <1>5, S2!NextSomeInv, S2!NextNoneInv DEF next_some, next_none, drop_iter
  <1>6. CASE drop_upstream \/ UNCHANGED vars
    BY <1>6, S2!UnchangedInv DEF drop_upstream, vars, S2!vars
  <1>7. QED
    BY <1>1, <1>2, <1>3, <1>4, <1>5, <1>6
    DEF Next, connect_stage, connect_outpoints, call_iter, caller, stay_stopped

-----------------------------------------------------------------------------
(* Init and the steps that touch neither the cache nor a connector.        *)

\* A new iterator satisfies the invariant.
LEMMA InitIInv == Init => IInv
  <1> SUFFICES ASSUME Init PROVE IInv
    OBVIOUS
  <1>1. S1!Inv /\ S2!Inv
    BY S1!InitInv, S2!InitInv DEF Init, IterInit
  <1>2. TypeOK
    <2>1. IterType
      BY <1>1 DEF S1!Inv, S2!Inv, Init, IterInit, IterType, NoInputs
    <2>2. CacheType
      BY DEF Init, CacheType, Unallocated
    <2>3. LocalType
      BY DEF Init, LocalType
    <2>4. QED
      BY <2>1, <2>2, <2>3 DEF TypeOK
  <1>3. Chained
    BY ChainAssumption DEF Init, IterInit, S1!Init, S2!Init, Chained
  <1>4. Counted
    <2> SUFFICES ASSUME NEW p \in TxPos PROVE VM!SizeOK(heap[p])
      BY DEF Counted
    <2>1. heap[p].size = 0 /\ \A n \in DOMAIN heap[p].inner : heap[p].inner[n] = NoOut
      BY DEF Init, Unallocated
    <2>2. QED
      BY <2>1, EmptySizeOK
  <1>5. KeyLeads
    BY DEF Init, KeyLeads
  <1>6. \A h \in Heights : ~Inserted(h)
    BY ChainTypes DEF Init, IterInit, S1!Init, Inserted
  <1>7. KeyStays /\ TakenByInput
    BY <1>6, PosFacts DEF KeyStays, TakenByInput
  <1>8. \A v \in Connectors : Remembers(v)
    BY DEF Init, Remembers
  <1>9. NoSpuriousErr
    BY DEF Init, IterInit, S2!Init, NoSpuriousErr
  <1>10. QED
    BY <1>1, <1>2, <1>3, <1>4, <1>5, <1>7, <1>8, <1>9 DEF IInv

\* A step that moves no connector and takes nothing out of the cache keeps the
\* parts of the invariant that speak of them.
LEMMA FrameIInv ==
  ASSUME IInv, S1!Inv', S2!Inv',
         UNCHANGED <<handed1, done1, fetched2, job2, failed2, output_block, cache, local>>,
         broken' \subseteq Heights
  PROVE  IInv'
  <1> USE DEF cache, local
  <1>1. TypeOK'
    BY DEF IInv, TypeOK, IterType, CacheType, LocalType, S1!Inv, S2!Inv
  <1>2. Chained' /\ Counted' /\ NoSpuriousErr'
    BY DEF IInv, Chained, Counted, VM!SizeOK, VM!Occupied, NoSpuriousErr
  <1>3. KeyLeads' /\ KeyStays'
    BY DEF IInv, KeyLeads, KeyStays, Inserted
  <1>4. (\A v \in Connectors : Remembers(v))'
    BY DEF IInv, Remembers, Inserted, HasInput, Input
  <1>5. TakenByInput'
    BY DEF IInv, TakenByInput, Inserted, Asked
  <1>6. QED
    BY <1>1, <1>2, <1>3, <1>4, <1>5 DEF IInv

\* The steps that leave the cache and the connectors alone.
Quiet ==
  \/ \E u \in Updaters : take_height(u) \/ update_unspent_cache_err(u)
  \/ \E v \in Connectors : take_no_block(v)
  \/ call_iter
  \/ UNCHANGED vars

LEMMA QuietLeaves ==
  ASSUME Quiet
  PROVE  UNCHANGED <<handed1, done1, fetched2, job2, failed2, output_block, cache, local>>
  BY DEF Quiet, take_height, update_unspent_cache_err, take_no_block, call_iter, caller,
         next_height, block_err, no_more_blocks, next_some, next_none, drop_iter,
         drop_upstream, vars, stage1, stage2, cache, local,
         S1!fetch, S1!return_err, S1!next_none, S1!drop,
         S2!next_some, S2!next_none, S2!drop

LEMMA QuietIInv ==
  ASSUME IInv, S1!Inv', S2!Inv', Quiet
  PROVE  IInv'
  <1>1. UNCHANGED <<handed1, done1, fetched2, job2, failed2, output_block, cache, local>>
    BY QuietLeaves
  <1>2. broken' \subseteq Heights
    BY DEF Quiet, IInv, TypeOK, IterType, take_height, update_unspent_cache_err,
           take_no_block, call_iter, caller, next_height, block_err, Breaks,
           no_more_blocks, next_some, next_none, drop_iter, drop_upstream, vars
  <1>3. QED
    BY <1>1, <1>2, FrameIInv

\* All kinds of steps.
LEMMA StepCases ==
  ASSUME [Next]_vars
  PROVE  \/ Quiet
         \/ \E u \in Updaters : update_unspent_cache(u)
         \/ \E v \in Connectors : \/ take_block(v) \/ connect_coinbase(v)
                                 \/ connect_get_err(v) \/ connect_return(v)
                                 \/ connect_get(v) \/ connect_take(v)
                                 \/ connect_add(v) \/ connect_take_err(v)
  BY DEF Next, Quiet, update_stage, connect_stage, connect_outpoints, stay_stopped

-----------------------------------------------------------------------------
(* What a connector finds.                                                 *)

\* A VecMap that counts zero has no output left.
LEMMA EmptyMap ==
  ASSUME IInv, NEW p \in TxPos, heap[p].size = 0
  PROVE  \A n \in Slots(p) : heap[p].inner[n] = NoOut
  BY ChainTypes, SizeOKFacts DEF IInv, Counted, TypeOK, CacheType, Slots

\* The block a connector works on was handed over by stage 1.
LEMMA JobTaken ==
  ASSUME IInv, NEW v \in Connectors, job2[v] # S2!Idle
  PROVE  job2[v] \in Heights /\ job2[v] < handed1
  BY ChainAssumption
  DEF IInv, Chained, S2!Inv, S2!TypeInv, S2!Exclusive, S2!Pending, Heights

\* The output that an input of a valid block spends waits for it.
LEMMA ValidFinds ==
  ASSUME IInv, NEW v \in Connectors, pc[v] # "remove_key",
         HasInput(v), Input(v) # NullOutPoint, ValidBlock(job2[v])
  PROVE  \E p \in TxPos :
           /\ TxAt(p).txid = Input(v).txid
           /\ UniqueTxid(p)
           /\ Inserted(p[1])
           /\ Input(v).vout \in Slots(p)
           /\ heap[p].inner[Input(v).vout] # NoOut
  <1> DEFINE q == <<job2[v], cur[v]>>
  <1>1. q \in InPos /\ InAt(q) = Input(v) /\ q[1] = job2[v] /\ q[2] = cur[v]
    BY PosFacts DEF HasInput, InAt, Input
  <1>2. ValidSpend(q)
    BY DEF HasInput, ValidBlock
  <1>3. PICK p \in TxPos :
          /\ TxAt(p).txid = Input(v).txid
          /\ Input(v).vout \in Slots(p)
          /\ p[1] <= job2[v]
          /\ UniqueTxid(p)
          /\ \A q2 \in InPos : InAt(q2) = Input(v) => q2 = q
    BY <1>1, <1>2 DEF ValidSpend, UniqueTxid
  <1>4. job2[v] \in Nat /\ job2[v] # S2!Idle /\ p[1] \in Nat
    BY PosFacts, ChainTypes DEF HasInput, S2!Idle
  <1>5. Inserted(p[1])
    BY <1>3, <1>4, JobTaken DEF Inserted, IInv, S1!Inv, S1!TypeInv
  <1>6. Input(v) = [txid |-> TxAt(p).txid, vout |-> Input(v).vout]
    BY <1>3, ChainTypes DEF Input, HasInput, OutPoint
  <1>7. ASSUME heap[p].inner[Input(v).vout] = NoOut PROVE FALSE
    <2>1. PICK q2 \in InPos : InAt(q2) = Input(v) /\ Asked(q2)
      BY <1>3, <1>5, <1>6, <1>7 DEF IInv, TakenByInput
    <2>2. q2 = q
      BY <1>3, <2>1
    <2>3. QED
      BY <1>1, <2>1, <2>2 DEF Asked, IInv, TypeOK, LocalType
  <1>8. QED
    BY <1>3, <1>5, <1>7

\* "cannot find previous transactions" is said of invalid blocks only.
LEMMA GetErrInvalid ==
  ASSUME IInv, NEW v \in Connectors, connect_get_err(v)
  PROVE  ~ValidBlock(job2[v])
  <1> SUFFICES ASSUME ValidBlock(job2[v]) PROVE FALSE
    OBVIOUS
  <1>1. PICK p \in TxPos :
           /\ TxAt(p).txid = Input(v).txid
           /\ UniqueTxid(p)
           /\ Inserted(p[1])
           /\ Input(v).vout \in Slots(p)
           /\ heap[p].inner[Input(v).vout] # NoOut
    BY ValidFinds DEF connect_get_err
  <1>2. heap[p].size # 0
    BY <1>1, EmptyMap
  <1>3. unspent[Input(v).txid] = p
    BY <1>1, <1>2 DEF IInv, KeyStays
  <1>4. QED
    BY <1>3, InMemAssumption DEF connect_get_err

-----------------------------------------------------------------------------
(* Stage 1 inserts a block.                                                *)

\* What update_unspent_cache does.
LEMMA UpdateFacts ==
  ASSUME IInv, NEW u \in Updaters, update_unspent_cache(u), NEW h, h = job1[u]
  PROVE  /\ h \in Heights /\ h \in Nat
         /\ done1' = done1 \cup {h} /\ ~Inserted(h)
         /\ UNCHANGED <<handed1, stage2, output_block, broken, local>>
         /\ \A k : Inserted(k)' <=> Inserted(k) \/ k = h
         /\ \A p \in TxPos : p[1] = h =>
              /\ VM!SizeOK(heap'[p])
              /\ heap'[p].size \in Nat
              /\ heap'[p].inner = NewOuts(p)
              /\ \A n \in Slots(p) : heap'[p].inner[n] = <<p, n>> /\ <<p, n>> # NoOut
         /\ \A p \in TxPos : p[1] # h => heap'[p] = heap[p]
         /\ \A t \in Txids :
              \/ /\ unspent'[t] = unspent[t]
                 /\ \A p \in TxPos : p[1] = h => TxAt(p).txid # t
              \/ /\ unspent'[t] \in TxPos /\ unspent'[t][1] = h
                 /\ TxAt(unspent'[t]).txid = t
  <1>1. /\ h \in Heights /\ h \in Nat
        /\ done1' = done1 \cup {h} /\ ~Inserted(h)
        /\ UNCHANGED <<handed1, stage2, output_block, broken, local>>
    BY ChainTypes
    DEF update_unspent_cache, block_ok, S1!return_ok, IInv, S1!Inv, S1!TypeInv, S1!Exclusive,
        S1!Pending, Inserted, S1!Idle
  <1>2. \A k : Inserted(k)' <=> Inserted(k) \/ k = h
    BY <1>1 DEF Inserted
  <1>3. ASSUME NEW p \in TxPos, p[1] = h
        PROVE  /\ VM!SizeOK(heap'[p])
               /\ heap'[p].size \in Nat
               /\ heap'[p].inner = NewOuts(p)
               /\ \A n \in Slots(p) : heap'[p].inner[n] = <<p, n>> /\ <<p, n>> # NoOut
    <2>1. heap'[p] = VM!from_vec(NewOuts(p))
      BY <1>3 DEF update_unspent_cache
    <2>2. /\ DOMAIN NewOuts(p) = Slots(p)
          /\ \A n \in Slots(p) : NewOuts(p)[n] = <<p, n>> /\ <<p, n>> # NoOut
      BY InMemAssumption, ChainTypes DEF NewOuts, Slots
    <2>3. heap'[p].inner = NewOuts(p)
      BY <2>1 DEF VM!from_vec
    <2>4. VM!SizeOK(heap'[p])
      BY <2>1, <2>2, FromVecSizeOK
    <2>5. heap'[p].size \in Nat
      BY <2>2, <2>3, <2>4, ChainTypes, SizeOKFacts DEF Slots
    <2>6. QED
      BY <2>2, <2>3, <2>4, <2>5
  <1>4. ASSUME NEW p \in TxPos, p[1] # h PROVE heap'[p] = heap[p]
    BY <1>4 DEF update_unspent_cache
  <1>5. ASSUME NEW t \in Txids
        PROVE  \/ /\ unspent'[t] = unspent[t]
                  /\ \A p \in TxPos : p[1] = h => TxAt(p).txid # t
               \/ /\ unspent'[t] \in TxPos /\ unspent'[t][1] = h
                  /\ TxAt(unspent'[t]).txid = t
    <2> DEFINE Has(i) == Blocks[h].txs[i].txid = t
    <2>1. CASE \E i \in DOMAIN Blocks[h].txs : Has(i)
      <3> DEFINE i == CHOOSE i \in DOMAIN Blocks[h].txs : Has(i)
      <3>1. i \in DOMAIN Blocks[h].txs /\ Has(i)
        BY <2>1
      <3>2. unspent'[t] = <<h, i>>
        BY <2>1 DEF update_unspent_cache, Extended
      <3>3. <<h, i>> \in TxPos /\ TxAt(<<h, i>>).txid = t
        BY <1>1, <3>1, PosFacts DEF TxAt
      <3>4. QED
        BY <3>2, <3>3
    <2>2. CASE ~ \E i \in DOMAIN Blocks[h].txs : Has(i)
      <3>1. unspent'[t] = unspent[t]
        BY <2>2 DEF update_unspent_cache, Extended
      <3>2. QED
        BY <2>2, <3>1, PosFacts DEF TxAt
    <2>3. QED
      BY <2>1, <2>2
  <1> QED
    BY <1>1, <1>2, <1>3, <1>4, <1>5

\* update_unspent_cache inserts a block.
LEMMA UpdateIInv ==
  ASSUME IInv, S1!Inv', S2!Inv', NEW u \in Updaters, update_unspent_cache(u)
  PROVE  IInv'
  <1> DEFINE h == job1[u]
  <1>1. /\ h \in Heights /\ h \in Nat
        /\ done1' = done1 \cup {h} /\ ~Inserted(h)
        /\ UNCHANGED <<handed1, stage2, output_block, broken, local>>
    BY UpdateFacts
  <1>2. \A k : Inserted(k)' <=> Inserted(k) \/ k = h
    BY UpdateFacts
  <1>3. ASSUME NEW p \in TxPos, p[1] = h
        PROVE  /\ VM!SizeOK(heap'[p])
               /\ heap'[p].size \in Nat
               /\ heap'[p].inner = NewOuts(p)
               /\ \A n \in Slots(p) : heap'[p].inner[n] = <<p, n>> /\ <<p, n>> # NoOut
    BY <1>3, UpdateFacts
  <1>4. ASSUME NEW p \in TxPos, p[1] # h PROVE heap'[p] = heap[p]
    BY <1>4, UpdateFacts
  <1>5. ASSUME NEW t \in Txids
        PROVE  \/ /\ unspent'[t] = unspent[t]
                  /\ \A p \in TxPos : p[1] = h => TxAt(p).txid # t
               \/ /\ unspent'[t] \in TxPos /\ unspent'[t][1] = h
                  /\ TxAt(unspent'[t]).txid = t
    BY <1>5, UpdateFacts
  <1>6. TypeOK'
    <2>1. CacheType'
      <3>1. unspent' \in [Txids -> TxPos \cup {NoTx}]
        <4>1. unspent' = [t \in Txids |-> unspent'[t]]
          BY DEF update_unspent_cache, Extended
        <4>2. \A t \in Txids : unspent'[t] \in TxPos \cup {NoTx}
          BY <1>5 DEF IInv, TypeOK, CacheType
        <4>3. QED
          BY <4>1, <4>2
      <3>2. DOMAIN heap' = TxPos
        BY DEF update_unspent_cache
      <3>3. \A p \in TxPos : DOMAIN heap'[p].inner = Slots(p)
        BY <1>3, <1>4 DEF IInv, TypeOK, CacheType, NewOuts
      <3>4. QED
        BY <1>3, <1>4, <3>1, <3>2, <3>3 DEF IInv, TypeOK, CacheType
    <2>2. LocalType'
      BY <1>1 DEF IInv, TypeOK, LocalType, local
    <2>3. QED
      BY <1>1, <2>1, <2>2 DEF IInv, TypeOK, IterType, S1!Inv, S2!Inv
  <1>7. Chained' /\ NoSpuriousErr'
    BY <1>1 DEF IInv, Chained, NoSpuriousErr, stage2
  <1>8. Counted'
    <2>1. ASSUME NEW p \in TxPos PROVE VM!SizeOK(heap'[p])
      BY <1>3, <1>4 DEF IInv, Counted
    <2>2. QED
      BY <2>1 DEF Counted, VM!SizeOK, VM!Occupied
  <1>9. KeyLeads'
    BY <1>2, <1>5 DEF IInv, KeyLeads
  <1>10. KeyStays'
    <2> SUFFICES ASSUME NEW p \in TxPos, UniqueTxid(p), Inserted(p[1])'
                 PROVE  unspent'[TxAt(p).txid] = p \/ heap'[p].size = 0
      BY DEF KeyStays
    <2>1. TxAt(p).txid \in Txids
      BY ChainTypes
    <2>2. CASE p[1] = h
      BY <1>5, <2>1, <2>2 DEF UniqueTxid
    <2>3. CASE p[1] # h
      <3>1. unspent'[TxAt(p).txid] = unspent[TxAt(p).txid]
        BY <1>5, <2>1, <2>3 DEF UniqueTxid
      <3>2. QED
        BY <1>2, <1>4, <2>3, <3>1 DEF IInv, KeyStays
    <2>4. QED
      BY <2>2, <2>3
  <1>11. (\A v \in Connectors : Remembers(v))'
    <2> SUFFICES ASSUME NEW v \in Connectors, pc[v] # "get"
                 PROVE  Remembers(v)'
      BY <1>1 DEF Remembers, local
    <2>1. Remembers(v) /\ prev_tx[v][1] # h /\ heap'[prev_tx[v]] = heap[prev_tx[v]]
      BY <1>1, <1>4 DEF IInv, Remembers
    <2>2. QED
      BY <1>1, <1>2, <2>1 DEF Remembers, HasInput, Input, local, stage2
  <1>12. TakenByInput'
    <2>1. \A q \in InPos : Asked(q) => Asked(q)'
      BY <1>1 DEF Asked, local, stage2
    <2>2. QED
      BY <1>2, <1>3, <1>4, <2>1 DEF IInv, TakenByInput
  <1>13. QED
    BY <1>6, <1>7, <1>8, <1>9, <1>10, <1>11, <1>12 DEF IInv

-----------------------------------------------------------------------------
(* Stage 2 takes a block and connects its inputs.                          *)

\* A connector starts on the next block.
LEMMA TakeBlockIInv ==
  ASSUME IInv, S1!Inv', S2!Inv', NEW v \in Connectors, take_block(v)
  PROVE  IInv'
  <1>1. /\ handed1 \in done1 /\ handed1 \in Nat
        /\ handed1' = handed1 + 1 /\ done1' = done1 \ {handed1}
        /\ fetched2' = fetched2 + 1 /\ failed2' = failed2
        /\ job2 \in [Connectors -> Nat \cup {S2!Idle}]
        /\ job2' = [job2 EXCEPT ![v] = handed1]
        /\ pc' = [pc EXCEPT ![v] = "get"] /\ cur' = [cur EXCEPT ![v] = 1]
        /\ UNCHANGED <<cache, prev_tx, tx_out, was_empty, output_block, broken>>
    BY DEF take_block, next_block, S1!next_some, S2!fetch, IInv, Chained, S1!Inv, S1!TypeInv,
           S2!Inv, S2!TypeInv
  <1>2. \A k \in Nat : Inserted(k)' <=> Inserted(k)
    BY <1>1 DEF Inserted
  <1>3. /\ \A p \in TxPos : Inserted(p[1])' <=> Inserted(p[1])
        /\ \A t \in Txids : unspent[t] # NoTx =>
             (Inserted(unspent[t][1])' <=> Inserted(unspent[t][1]))
    <2>1. \A p \in TxPos : Inserted(p[1])' <=> Inserted(p[1])
      BY <1>2, PosFacts, ChainTypes
    <2>2. QED
      BY <1>1, <2>1 DEF IInv, TypeOK, CacheType, cache
  <1>4. TypeOK'
    <2>1. CacheType' /\ LocalType'
      BY <1>1 DEF IInv, TypeOK, CacheType, LocalType, cache
    <2>2. QED
      BY <1>1, <2>1 DEF IInv, TypeOK, IterType, S1!Inv, S2!Inv
  <1>5. Chained'
    BY <1>1, ChainAssumption DEF IInv, Chained, Heights
  <1>6. Counted' /\ NoSpuriousErr'
    BY <1>1 DEF IInv, Counted, VM!SizeOK, VM!Occupied, NoSpuriousErr, cache
  <1>7. KeyLeads' /\ KeyStays'
    BY <1>1, <1>3 DEF IInv, KeyLeads, KeyStays, cache
  <1>8. (\A w \in Connectors : Remembers(w))'
    <2> SUFFICES ASSUME NEW w \in Connectors, pc'[w] # "get" PROVE Remembers(w)'
      BY DEF Remembers
    <2>1. w # v /\ pc'[w] = pc[w] /\ cur'[w] = cur[w] /\ job2'[w] = job2[w]
      BY <1>1 DEF IInv, TypeOK, LocalType
    <2>2. Remembers(w)
      BY DEF IInv
    <2>3. QED
      BY <1>1, <1>3, <2>1, <2>2 DEF Remembers, HasInput, Input, cache
  <1>9. TakenByInput'
    <2>1. \A q \in InPos : Asked(q) => Asked(q)'
      <3> SUFFICES ASSUME NEW q \in InPos, Asked(q) PROVE Asked(q)'
        OBVIOUS
      <3>1. q[1] \in Nat /\ q[1] < handed1
        BY ChainTypes DEF InPos, Asked
      <3>2. QED
        BY <1>1, <3>1 DEF Asked, IInv, TypeOK, LocalType
    <2>2. QED
      BY <1>1, <1>3, <2>1 DEF IInv, TakenByInput, cache
  <1>10. QED
    BY <1>4, <1>5, <1>6, <1>7, <1>8, <1>9 DEF IInv

\* A connector that is at no input reads and writes nothing it remembers.
LEMMA AdvanceIInv ==
  ASSUME IInv, S1!Inv', S2!Inv', NEW v \in Connectors,
         connect_coinbase(v) \/ connect_return(v) \/ connect_get_err(v)
  PROVE  IInv'
  <1>1. /\ UNCHANGED <<handed1, done1, fetched2, cache, pc, prev_tx, tx_out, was_empty,
                       output_block, broken>>
        /\ pc[v] = "get"
        /\ job2' = job2 \/ job2' = [job2 EXCEPT ![v] = S2!Idle]
        /\ cur' = cur \/ cur' = [cur EXCEPT ![v] = @ + 1]
        /\ failed2' = failed2 \/ (failed2' = failed2 \cup {job2[v]} /\ connect_get_err(v))
    <2>1. CASE connect_coinbase(v)
      BY <2>1 DEF connect_coinbase, stage1, stage2
    <2>2. CASE connect_return(v)
      BY <2>2 DEF connect_return, stage1, local, S2!return_ok
    <2>3. CASE connect_get_err(v)
      BY <2>3 DEF connect_get_err, stage1, local, S2!return_err
    <2>4. QED
      BY <2>1, <2>2, <2>3
  <1>2. job2 \in [Connectors -> Nat \cup {S2!Idle}] /\ cur \in [Connectors -> Nat \ {0}]
    BY DEF IInv, TypeOK, IterType, LocalType, S2!TypeInv
  <1>3. TypeOK'
    <2>1. CacheType' /\ LocalType'
      BY <1>1, <1>2 DEF IInv, TypeOK, CacheType, LocalType, cache
    <2>2. QED
      BY <1>1, <2>1 DEF IInv, TypeOK, IterType, S1!Inv, S2!Inv
  <1>4. Chained' /\ Counted'
    BY <1>1 DEF IInv, Chained, Counted, VM!SizeOK, VM!Occupied, cache
  <1>5. NoSpuriousErr'
    BY <1>1, GetErrInvalid DEF IInv, NoSpuriousErr
  <1>6. KeyLeads' /\ KeyStays'
    BY <1>1 DEF IInv, KeyLeads, KeyStays, cache, Inserted
  <1>7. (\A w \in Connectors : Remembers(w))'
    <2> SUFFICES ASSUME NEW w \in Connectors, pc'[w] # "get" PROVE Remembers(w)'
      BY DEF Remembers
    <2>1. w # v /\ pc'[w] = pc[w] /\ cur'[w] = cur[w] /\ job2'[w] = job2[w]
      BY <1>1, <1>2
    <2>2. Remembers(w)
      BY DEF IInv
    <2>3. QED
      BY <1>1, <2>1, <2>2 DEF Remembers, HasInput, Input, cache, Inserted
  <1>8. TakenByInput'
    <2>1. \A q \in InPos : Asked(q) => Asked(q)'
      <3> SUFFICES ASSUME NEW q \in InPos, Asked(q) PROVE Asked(q)'
        OBVIOUS
      <3>1. q[1] \in Nat /\ q[2] \in Nat
        BY ChainTypes DEF InPos
      <3>2. QED
        BY <1>1, <1>2, <3>1 DEF Asked, S2!Idle
    <2>2. QED
      BY <1>1, <2>1 DEF IInv, TakenByInput, cache, Inserted
  <1>9. QED
    BY <1>3, <1>4, <1>5, <1>6, <1>7, <1>8 DEF IInv

\* A connector finds the previous transaction in the HashMap, or does not.
LEMMA GetIInv ==
  ASSUME IInv, S1!Inv', S2!Inv', NEW v \in Connectors, connect_get(v)
  PROVE  IInv'
  <1> DEFINE p == unspent[Input(v).txid]
  <1>1. /\ UNCHANGED <<handed1, done1, fetched2, job2, failed2, cache, cur, tx_out,
                       was_empty, output_block, broken>>
        /\ pc[v] = "get" /\ HasInput(v) /\ Input(v) # NullOutPoint
        /\ pc' = [pc EXCEPT ![v] = "take"] /\ prev_tx' = [prev_tx EXCEPT ![v] = p]
    BY DEF connect_get, stage1, stage2
  <1>2. p \in TxPos /\ Inserted(p[1]) /\ TxAt(p).txid = Input(v).txid
    <2>1. Input(v).txid \in Txids
      BY <1>1, ChainTypes DEF HasInput, Input, OutPoint
    <2>2. QED
      BY <2>1 DEF connect_get, IInv, TypeOK, CacheType, KeyLeads
  <1>3. TypeOK'
    <2>1. CacheType' /\ LocalType'
      BY <1>1, <1>2 DEF IInv, TypeOK, CacheType, LocalType, cache
    <2>2. QED
      BY <1>1, <2>1 DEF IInv, TypeOK, IterType, S1!Inv, S2!Inv
  <1>4. Chained' /\ Counted' /\ NoSpuriousErr'
    BY <1>1 DEF IInv, Chained, Counted, VM!SizeOK, VM!Occupied, NoSpuriousErr, cache
  <1>5. KeyLeads' /\ KeyStays'
    BY <1>1 DEF IInv, KeyLeads, KeyStays, cache, Inserted
  <1>6. (\A w \in Connectors : Remembers(w))'
    <2> SUFFICES ASSUME NEW w \in Connectors PROVE Remembers(w)'
      OBVIOUS
    <2>1. CASE w = v
      BY <1>1, <1>2, <2>1
      DEF Remembers, HasInput, Input, Inserted, IInv, TypeOK, LocalType
    <2>2. CASE w # v
      <3>1. Remembers(w) /\ pc'[w] = pc[w] /\ prev_tx'[w] = prev_tx[w]
        BY <1>1, <2>2 DEF IInv, TypeOK, LocalType
      <3>2. UNCHANGED <<job2, cur, heap, was_empty, tx_out, handed1, done1>>
        BY <1>1 DEF cache
      <3>3. QED
        BY <3>1, <3>2 DEF Remembers, HasInput, Input, Inserted
    <2>3. QED
      BY <2>1, <2>2
  <1>7. TakenByInput'
    <2>1. \A q \in InPos : Asked(q) => Asked(q)'
      BY <1>1 DEF Asked, IInv, TypeOK, LocalType
    <2>2. QED
      BY <1>1, <2>1 DEF IInv, TakenByInput, cache, Inserted
  <1>8. QED
    BY <1>3, <1>4, <1>5, <1>6, <1>7 DEF IInv

\* What taking an output out of a VecMap does.
LEMMA TakeFacts ==
  ASSUME IInv, NEW v \in Connectors, connect_take(v),
         NEW p, p = prev_tx[v], NEW n, n = Input(v).vout
  PROVE  /\ UNCHANGED <<handed1, done1, fetched2, job2, failed2, unspent, cur, prev_tx,
                        output_block, broken>>
         /\ pc[v] = "take" /\ pc' = [pc EXCEPT ![v] = "remove_key"]
         /\ tx_out' = [tx_out EXCEPT ![v] = VM!element(heap[p], n)]
         /\ heap' = [heap EXCEPT ![p] = VM!remove(heap[p], n)]
         /\ was_empty' = [was_empty EXCEPT ![v] = VM!is_empty(heap'[p])]
         /\ HasInput(v) /\ Input(v) # NullOutPoint /\ Input(v) \in OutPoint
         /\ p \in TxPos /\ Inserted(p[1]) /\ TxAt(p).txid = Input(v).txid
         /\ DOMAIN heap = TxPos /\ TxAt(p).outs \in Nat
         /\ DOMAIN heap[p].inner = Slots(p) /\ VM!SizeOK(heap[p])
         /\ \A i \in Slots(p) : heap[p].inner[i] \in {<<p, i>>, NoOut}
         /\ heap'[p] = VM!remove(heap[p], n)
         /\ \A p2 \in TxPos : p2 # p => heap'[p2] = heap[p2]
         /\ DOMAIN heap'[p].inner = Slots(p)
         /\ \A i \in Slots(p) :
              heap'[p].inner[i] = IF i = n THEN NoOut ELSE heap[p].inner[i]
         /\ VM!SizeOK(heap'[p]) /\ heap'[p].size \in Nat
  <1>1. /\ UNCHANGED <<handed1, done1, fetched2, job2, failed2, unspent, cur, prev_tx,
                       output_block, broken>>
        /\ pc[v] = "take" /\ pc' = [pc EXCEPT ![v] = "remove_key"]
        /\ tx_out' = [tx_out EXCEPT ![v] = VM!element(heap[p], n)]
        /\ heap' = [heap EXCEPT ![p] = VM!remove(heap[p], n)]
        /\ was_empty' = [was_empty EXCEPT ![v] = VM!is_empty(heap'[p])]
    BY DEF connect_take, stage1, stage2
  <1>2. /\ HasInput(v) /\ Input(v) # NullOutPoint /\ Input(v) \in OutPoint
        /\ p \in TxPos /\ Inserted(p[1]) /\ TxAt(p).txid = Input(v).txid
    <2>1. Remembers(v)
      BY DEF IInv
    <2>2. HasInput(v) /\ Input(v) # NullOutPoint
      BY <1>1, <2>1 DEF Remembers
    <2>3. Input(v) \in OutPoint
      BY <2>2, ChainTypes DEF HasInput, Input
    <2>4. QED
      BY <1>1, <2>1, <2>2, <2>3 DEF Remembers
  <1>3. /\ DOMAIN heap = TxPos /\ TxAt(p).outs \in Nat
        /\ DOMAIN heap[p].inner = Slots(p) /\ VM!SizeOK(heap[p])
        /\ \A i \in Slots(p) : heap[p].inner[i] \in {<<p, i>>, NoOut}
    BY <1>2, ChainTypes DEF IInv, TypeOK, CacheType, Counted
  <1>4. heap'[p] = VM!remove(heap[p], n) /\ \A p2 \in TxPos : p2 # p => heap'[p2] = heap[p2]
    BY <1>1, <1>2, <1>3
  <1>5. /\ DOMAIN heap'[p].inner = Slots(p)
        /\ \A i \in Slots(p) :
             heap'[p].inner[i] = IF i = n THEN NoOut ELSE heap[p].inner[i]
    BY <1>3, <1>4, RemoveSlots
  <1>6. VM!SizeOK(heap'[p]) /\ heap'[p].size \in Nat
    <2>1. VM!SizeOK(heap'[p])
      BY <1>3, <1>4, RemoveSizeOK DEF Slots
    <2>2. QED
      BY <1>3, <1>5, <2>1, SizeOKFacts DEF Slots
  <1> QED
    BY <1>1, <1>2, <1>3, <1>4, <1>5, <1>6

\* A connector takes an output out of a VecMap.
LEMMA TakeIInv ==
  ASSUME IInv, S1!Inv', S2!Inv', NEW v \in Connectors, connect_take(v)
  PROVE  IInv'
  <1> DEFINE p == prev_tx[v]
             n == Input(v).vout
  <1>1. /\ UNCHANGED <<handed1, done1, fetched2, job2, failed2, unspent, cur, prev_tx,
                       output_block, broken>>
        /\ pc[v] = "take" /\ pc' = [pc EXCEPT ![v] = "remove_key"]
        /\ tx_out' = [tx_out EXCEPT ![v] = VM!element(heap[p], n)]
        /\ heap' = [heap EXCEPT ![p] = VM!remove(heap[p], n)]
        /\ was_empty' = [was_empty EXCEPT ![v] = VM!is_empty(heap'[p])]
    BY TakeFacts
  <1>2. /\ HasInput(v) /\ Input(v) # NullOutPoint /\ Input(v) \in OutPoint
        /\ p \in TxPos /\ Inserted(p[1]) /\ TxAt(p).txid = Input(v).txid
    BY TakeFacts
  <1>3. /\ DOMAIN heap = TxPos /\ TxAt(p).outs \in Nat
        /\ DOMAIN heap[p].inner = Slots(p) /\ VM!SizeOK(heap[p])
        /\ \A i \in Slots(p) : heap[p].inner[i] \in {<<p, i>>, NoOut}
    BY TakeFacts
  <1>4. /\ heap'[p] = VM!remove(heap[p], n)
        /\ \A p2 \in TxPos : p2 # p => heap'[p2] = heap[p2]
    BY TakeFacts
  <1>5. /\ DOMAIN heap'[p].inner = Slots(p)
        /\ \A i \in Slots(p) :
             heap'[p].inner[i] = IF i = n THEN NoOut ELSE heap[p].inner[i]
    BY <1>3, <1>4, RemoveSlots
  <1>6. /\ VM!SizeOK(heap'[p]) /\ heap'[p].size \in Nat
    BY TakeFacts
  <1>7. ASSUME NEW p2 \in TxPos, heap[p2].size = 0 PROVE heap'[p2].size = 0
    <2>1. CASE p2 = p
      BY <1>3, <1>4, <1>7, <2>1, EmptyMap DEF VM!remove, VM!element
    <2>2. QED
      BY <1>4, <1>7, <2>1
  <1>8. VM!element(heap[p], n) \in (TxPos \X Nat) \cup {NoOut}
    BY <1>2, <1>3 DEF VM!element, Slots
  <1>9. TypeOK'
    <2>1. CacheType'
      <3>1. DOMAIN heap' = TxPos
        BY <1>1, <1>3
      <3>2. ASSUME NEW p2 \in TxPos
            PROVE  /\ heap'[p2].size \in Nat
                   /\ DOMAIN heap'[p2].inner = Slots(p2)
                   /\ \A i \in Slots(p2) : heap'[p2].inner[i] \in {<<p2, i>>, NoOut}
        BY <1>3, <1>4, <1>5, <1>6 DEF IInv, TypeOK, CacheType
      <3>3. QED
        BY <1>1, <3>1, <3>2 DEF IInv, TypeOK, CacheType
    <2>2. was_empty' \in [Connectors -> BOOLEAN]
      BY <1>1 DEF IInv, TypeOK, LocalType, VM!is_empty
    <2>3. LocalType'
      BY <1>1, <1>8, <2>2 DEF IInv, TypeOK, LocalType
    <2>4. QED
      BY <1>1, <2>1, <2>3 DEF IInv, TypeOK, IterType, S1!Inv, S2!Inv
  <1>10. Chained' /\ NoSpuriousErr'
    BY <1>1 DEF IInv, Chained, NoSpuriousErr
  <1>11. Counted'
    <2>1. ASSUME NEW p2 \in TxPos PROVE VM!SizeOK(heap'[p2])
      BY <1>4, <1>6 DEF IInv, Counted
    <2>2. QED
      BY <2>1 DEF Counted, VM!SizeOK, VM!Occupied
  <1>12. KeyLeads' /\ KeyStays'
    BY <1>1, <1>7 DEF IInv, KeyLeads, KeyStays, Inserted
  <1>13. (\A w \in Connectors : Remembers(w))'
    <2> SUFFICES ASSUME NEW w \in Connectors PROVE Remembers(w)'
      OBVIOUS
    <2>1. CASE w = v
      <3>1. was_empty'[v] => heap'[p].size = 0
        BY <1>1 DEF IInv, TypeOK, LocalType, VM!is_empty
      <3>2. ASSUME ValidBlock(job2[v]) PROVE tx_out'[v] # NoOut
        <4>1. PICK r \in TxPos : /\ TxAt(r).txid = Input(v).txid
                                 /\ UniqueTxid(r)
                                 /\ n \in Slots(r)
                                 /\ heap[r].inner[n] # NoOut
          BY <1>1, <1>2, <3>2, ValidFinds
        <4>2. r = p
          BY <1>2, <4>1 DEF UniqueTxid
        <4>3. QED
          BY <1>1, <1>3, <4>1, <4>2 DEF VM!element, IInv, TypeOK, LocalType
      <3>3. QED
        BY <1>1, <1>2, <2>1, <3>1, <3>2 DEF Remembers, HasInput, Input, Inserted
    <2>2. CASE w # v
      <3>1. /\ pc'[w] = pc[w] /\ was_empty'[w] = was_empty[w] /\ tx_out'[w] = tx_out[w]
            /\ Remembers(w)
        BY <1>1, <2>2 DEF IInv, TypeOK, LocalType
      <3>2. UNCHANGED <<job2, cur, prev_tx, handed1, done1>>
        BY <1>1
      <3>3. QED
        BY <1>7, <3>1, <3>2 DEF Remembers, HasInput, Input, Inserted
    <2>3. QED
      BY <2>1, <2>2
  <1>14. TakenByInput'
    <2>1. \A q \in InPos : Asked(q) => Asked(q)'
      BY <1>1 DEF Asked, IInv, TypeOK, LocalType
    <2> SUFFICES ASSUME NEW p2 \in TxPos, Inserted(p2[1]),
                        NEW i \in Slots(p2), heap'[p2].inner[i] = NoOut
                 PROVE  \E q \in InPos : /\ InAt(q) = [txid |-> TxAt(p2).txid, vout |-> i]
                                         /\ Asked(q)'
      BY <1>1 DEF TakenByInput, Inserted
    <2>2. CASE heap[p2].inner[i] = NoOut
      BY <2>1, <2>2 DEF IInv, TakenByInput
    <2>3. CASE heap[p2].inner[i] # NoOut
      <3>1. p2 = p /\ i = n
        BY <1>4, <1>5, <2>3
      <3>2. PICK q \in InPos : InAt(q) = Input(v) /\ q[1] = job2[v] /\ q[2] = cur[v]
        <4>1. <<job2[v], cur[v]>> \in InPos
          BY <1>2, PosFacts DEF HasInput
        <4>2. QED
          BY <4>1 DEF InAt, Input
      <3>3. InAt(q) = [txid |-> TxAt(p2).txid, vout |-> i]
        BY <1>2, <3>1, <3>2 DEF OutPoint
      <3>4. job2[v] # S2!Idle
        BY <1>2, ChainTypes DEF HasInput, S2!Idle
      <3>5. Asked(q)'
        <4>1. job2[v] < handed1
          BY <3>4, JobTaken
        <4>2. ASSUME NEW w \in Connectors, job2[w] = job2[v] PROVE w = v
          BY <3>4, <4>2 DEF IInv, S2!Inv, S2!Exclusive
        <4>3. QED
          BY <1>1, <3>2, <4>1, <4>2 DEF Asked, IInv, TypeOK, LocalType
      <3>6. QED
        BY <3>2, <3>3, <3>5
    <2>4. QED
      BY <2>2, <2>3
  <1>15. QED
    BY <1>9, <1>10, <1>11, <1>12, <1>13, <1>14 DEF IInv

\* The second critical section on the HashMap: the key that is removed leads
\* to an empty VecMap.
LEMMA RemoveKeyIInv ==
  ASSUME IInv, S1!Inv', S2!Inv', NEW v \in Connectors,
         connect_add(v) \/ connect_take_err(v)
  PROVE  IInv'
  <1> DEFINE p == prev_tx[v]
  <1>1. /\ UNCHANGED <<handed1, done1, fetched2, heap, prev_tx, tx_out, was_empty, broken>>
        /\ pc[v] = "remove_key" /\ pc' = [pc EXCEPT ![v] = "get"] /\ RemoveKey(v)
    BY DEF connect_add, connect_take_err, stage1, stage2, S2!return_err
  <1>2. \/ /\ connect_add(v)
           /\ UNCHANGED <<job2, failed2>> /\ cur' = [cur EXCEPT ![v] = @ + 1]
        \/ /\ connect_take_err(v)
           /\ UNCHANGED cur /\ job2' = [job2 EXCEPT ![v] = S2!Idle]
           /\ failed2' = failed2 \cup {job2[v]} /\ tx_out[v] = NoOut
    BY DEF connect_add, connect_take_err, stage1, stage2, S2!return_err
  <1>3. job2 \in [Connectors -> Nat \cup {S2!Idle}] /\ cur \in [Connectors -> Nat \ {0}]
    BY DEF IInv, TypeOK, IterType, LocalType, S2!TypeInv
  <1>4. /\ HasInput(v) /\ Input(v) \in OutPoint
        /\ p \in TxPos /\ TxAt(p).txid = Input(v).txid
        /\ was_empty[v] => heap[p].size = 0
        /\ ValidBlock(job2[v]) => tx_out[v] # NoOut
    <2>1. Remembers(v)
      BY DEF IInv
    <2>2. HasInput(v) /\ Input(v) # NullOutPoint
      BY <1>1, <2>1 DEF Remembers
    <2>3. Input(v) \in OutPoint
      BY <2>2, ChainTypes DEF HasInput, Input
    <2>4. QED
      BY <1>1, <2>1, <2>2, <2>3 DEF Remembers
  <1>5. \A t \in Txids : unspent'[t] = IF was_empty[v] /\ t = Input(v).txid
                                       THEN NoTx ELSE unspent[t]
    BY <1>1 DEF RemoveKey, IInv, TypeOK, CacheType
  <1>6. TypeOK'
    <2>1. CacheType'
      BY <1>1 DEF RemoveKey, IInv, TypeOK, CacheType
    <2>2. /\ DOMAIN output_block' = Heights
          /\ \A h \in Heights :
               output_block'[h] \in [DOMAIN Blocks[h].ins -> (TxPos \X Nat) \cup {NoOut}]
      <3>1. CASE connect_take_err(v)
        BY <3>1 DEF connect_take_err, IInv, TypeOK, IterType
      <3>2. CASE connect_add(v)
        <4>1. output_block' = [output_block EXCEPT ![job2[v]][cur[v]] = tx_out[v]]
          BY <3>2 DEF connect_add
        <4>2. tx_out[v] \in (TxPos \X Nat) \cup {NoOut}
          BY DEF IInv, TypeOK, LocalType
        <4>3. QED
          BY <1>4, <4>1, <4>2 DEF IInv, TypeOK, IterType, HasInput
      <3>3. QED
        BY <3>1, <3>2
    <2>3. LocalType'
      BY <1>1, <1>2, <1>3 DEF IInv, TypeOK, LocalType
    <2>4. QED
      BY <1>1, <2>1, <2>2, <2>3 DEF IInv, TypeOK, IterType, S1!Inv, S2!Inv
  <1>7. Chained' /\ Counted'
    BY <1>1 DEF IInv, Chained, Counted, VM!SizeOK, VM!Occupied
  <1>8. NoSpuriousErr'
    BY <1>2, <1>4 DEF IInv, NoSpuriousErr
  <1>9. KeyLeads'
    BY <1>1, <1>5 DEF IInv, KeyLeads, Inserted
  <1>10. KeyStays'
    <2> SUFFICES ASSUME NEW r \in TxPos, UniqueTxid(r), Inserted(r[1])
                 PROVE  unspent'[TxAt(r).txid] = r \/ heap[r].size = 0
      BY <1>1 DEF KeyStays, Inserted
    <2>1. TxAt(r).txid \in Txids
      BY ChainTypes
    <2>2. CASE TxAt(r).txid = Input(v).txid
      <3>1. r = p
        BY <1>4, <2>2 DEF UniqueTxid
      <3>2. QED
        BY <1>4, <1>5, <2>1, <3>1 DEF IInv, KeyStays
    <2>3. CASE TxAt(r).txid # Input(v).txid
      BY <1>5, <2>1, <2>3 DEF IInv, KeyStays
    <2>4. QED
      BY <2>2, <2>3
  <1>11. (\A w \in Connectors : Remembers(w))'
    <2> SUFFICES ASSUME NEW w \in Connectors, pc'[w] # "get" PROVE Remembers(w)'
      BY DEF Remembers
    <2>1. w # v /\ pc'[w] = pc[w] /\ cur'[w] = cur[w] /\ job2'[w] = job2[w]
      BY <1>1, <1>2, <1>3 DEF IInv, TypeOK, LocalType
    <2>2. Remembers(w)
      BY DEF IInv
    <2>3. QED
      BY <1>1, <2>1, <2>2 DEF Remembers, HasInput, Input, Inserted
  <1>12. TakenByInput'
    <2>1. \A q \in InPos : Asked(q) => Asked(q)'
      <3> SUFFICES ASSUME NEW q \in InPos, Asked(q) PROVE Asked(q)'
        OBVIOUS
      <3>1. q[1] \in Nat /\ q[2] \in Nat
        BY ChainTypes DEF InPos
      <3>2. pc \in [Connectors -> {"get", "take", "remove_key"}]
        BY DEF IInv, TypeOK, LocalType
      <3>3. QED
        BY <1>1, <1>2, <1>3, <3>1, <3>2 DEF Asked, S2!Idle
    <2>2. QED
      BY <1>1, <2>1 DEF IInv, TakenByInput, Inserted
  <1>13. QED
    BY <1>6, <1>7, <1>8, <1>9, <1>10, <1>11, <1>12 DEF IInv

-----------------------------------------------------------------------------
\* Every step keeps the invariant: one case per action.
LEMMA StepIInv == IInv /\ [Next]_vars => IInv'
  <1> SUFFICES ASSUME IInv, [Next]_vars PROVE IInv'
    OBVIOUS
  <1>1. S1!Inv' /\ S2!Inv'
    BY Stage1Inv, Stage2Inv DEF IInv
  <1>2. QED
    BY <1>1, StepCases, QuietIInv, UpdateIInv, TakeBlockIInv, AdvanceIInv, GetIInv,
       TakeIInv, RemoveKeyIInv

\* The invariant holds in every reachable state.
LEMMA Inductive == Spec => []IInv
  BY InitIInv, StepIInv, PTL DEF Spec

(***************************************************************************)
(* Types hold for every chain and every number of workers.  In particular  *)
(* the counter of a VecMap, an unsigned integer in the code, never goes    *)
(* below zero, bad chains included.                                        *)
(***************************************************************************)
THEOREM TypeCorrect == Spec => []TypeOK
  <1>1. IInv => TypeOK
    BY DEF IInv
  <1>2. QED
    BY <1>1, Inductive, PTL

(***************************************************************************)
(* However the two pools of workers interleave, connect_outpoints returns  *)
(* Err for no block whose inputs are all valid.                            *)
(***************************************************************************)
THEOREM ValidBlocksConnect == Spec => []NoSpuriousErr
  <1>1. IInv => NoSpuriousErr
    BY DEF IInv
  <1>2. QED
    BY <1>1, Inductive, PTL

-----------------------------------------------------------------------------
(* Nothing is spent twice.                                                 *)

\* An output that was taken out of the cache.
Spent(o) ==
  \E p \in TxPos : \E n \in Slots(p) :
    o = <<p, n>> /\ Inserted(p[1]) /\ heap[p].inner[n] = NoOut

\* What input q was connected to.
Out(q) == output_block[q[1]][q[2]]

\* Connector v holds an output that it has not added to its block yet.
Holds(v) == pc[v] = "remove_key" /\ tx_out[v] # NoOut

\* What was taken is in one place only.
OnePlace ==
  /\ \A q \in InPos : Out(q) # NoOut => Spent(Out(q))
  /\ \A v \in Connectors : Holds(v) =>
       /\ Spent(tx_out[v])
       /\ tx_out[v] = <<prev_tx[v], Input(v).vout>>
       /\ \A q \in InPos : Out(q) # tx_out[v]
       /\ \A w \in Connectors : Holds(w) /\ tx_out[w] = tx_out[v] => w = v
  /\ SpentOnce

\* What a step of connector v other than connect_take leaves alone.
LEMMA ConnectorLeaves ==
  ASSUME NEW v \in Connectors,
         \/ connect_coinbase(v) \/ connect_get_err(v) \/ connect_return(v)
         \/ connect_get(v) \/ connect_add(v) \/ connect_take_err(v)
  PROVE  UNCHANGED <<stage1, heap, tx_out, was_empty, broken>>
  BY DEF connect_coinbase, connect_get_err, connect_return, connect_get, connect_add,
         connect_take_err, cache, local

\* A block that was inserted stays so, and an output that was taken does not
\* come back.
LEMMA NothingReturns ==
  ASSUME IInv, [Next]_vars, NEW p \in TxPos, Inserted(p[1])
  PROVE  /\ Inserted(p[1])'
         /\ \A n \in Slots(p) : heap[p].inner[n] = NoOut => heap'[p].inner[n] = NoOut
  <1>1. CASE Quiet
    BY <1>1, QuietLeaves DEF Inserted, cache
  <1>2. ASSUME NEW u \in Updaters, update_unspent_cache(u)
        PROVE  Inserted(p[1])' /\ heap'[p] = heap[p]
    <2>1. ~Inserted(job1[u]) /\ \A k : Inserted(k)' <=> Inserted(k) \/ k = job1[u]
      BY <1>2, UpdateFacts
    <2>2. p[1] # job1[u] => heap'[p] = heap[p]
      BY <1>2, UpdateFacts
    <2> QED
      BY <2>1, <2>2
  <1>3. ASSUME NEW v \in Connectors, take_block(v)
        PROVE  Inserted(p[1])' /\ heap'[p] = heap[p]
    <2>1. p[1] \in Nat /\ handed1 \in Nat
      BY PosFacts, ChainTypes DEF IInv, S1!Inv, S1!TypeInv
    <2> QED
      BY <1>3, <2>1 DEF take_block, next_block, S1!next_some, Inserted, cache
  <1>4. ASSUME NEW v \in Connectors, connect_take(v)
        PROVE  /\ Inserted(p[1])'
               /\ \A n \in Slots(p) : heap[p].inner[n] = NoOut => heap'[p].inner[n] = NoOut
    <2>1. UNCHANGED <<handed1, done1>>
      BY <1>4, TakeFacts
    <2>2. p # prev_tx[v] => heap'[p] = heap[p]
      BY <1>4, TakeFacts
    <2>3. heap' = [heap EXCEPT ![prev_tx[v]] = VM!remove(heap[prev_tx[v]], Input(v).vout)]
      BY <1>4, TakeFacts
    <2>4. p = prev_tx[v] => heap'[p] = VM!remove(heap[p], Input(v).vout)
      BY <2>3 DEF IInv, TypeOK, CacheType
    <2>5. DOMAIN heap[p].inner = Slots(p)
      BY DEF IInv, TypeOK, CacheType
    <2>6. p = prev_tx[v] => \A n \in Slots(p) : heap[p].inner[n] = NoOut => heap'[p].inner[n] = NoOut
      BY <2>4, <2>5, RemoveSlots
    <2> QED
      BY <2>1, <2>2, <2>6 DEF Inserted
  <1> QED
    BY <1>1, <1>2, <1>3, <1>4, StepCases, ConnectorLeaves DEF Inserted, stage1

\* A step that adds no output to a block, and after which a connector holds an
\* output only if it held it before.
LEMMA OnePlaceFrame ==
  ASSUME IInv, OnePlace, [Next]_vars, UNCHANGED output_block,
         \A v \in Connectors : Holds(v)' =>
           /\ Holds(v) /\ tx_out'[v] = tx_out[v] /\ prev_tx'[v] = prev_tx[v]
           /\ Input(v)' = Input(v)
  PROVE  OnePlace'
  <1>1. \A o : Spent(o) => Spent(o)'
    BY NothingReturns DEF Spent
  <1>2. \A q \in InPos : Out(q)' = Out(q)
    BY DEF Out
  <1>3. SpentOnce'
    BY DEF OnePlace, SpentOnce
  <1>4. ASSUME NEW v \in Connectors, Holds(v)'
        PROVE  /\ Spent(tx_out[v])'
               /\ tx_out'[v] = <<prev_tx'[v], Input(v)'.vout>>
               /\ \A q \in InPos : Out(q)' # tx_out'[v]
               /\ \A w \in Connectors : Holds(w)' /\ tx_out'[w] = tx_out'[v] => w = v
    <2>1. /\ Holds(v) /\ tx_out'[v] = tx_out[v] /\ prev_tx'[v] = prev_tx[v]
          /\ Input(v)' = Input(v)
      BY <1>4
    <2>2. Spent(tx_out[v])'
      <3>1. Spent(tx_out[v])
        BY <2>1 DEF OnePlace
      <3> QED
        BY <2>1, <3>1, NothingReturns DEF Spent
    <2> QED
      BY <1>2, <2>1, <2>2 DEF OnePlace
  <1> QED
    BY <1>1, <1>2, <1>3, <1>4 DEF OnePlace

LEMMA OnePlaceStep ==
  ASSUME IInv, OnePlace, [Next]_vars
  PROVE  OnePlace'
  <1> USE DEF Holds, Input
  <1>0. /\ pc \in [Connectors -> {"get", "take", "remove_key"}]
        /\ cur \in [Connectors -> Nat \ {0}]
        /\ job2 \in [Connectors -> Nat \cup {S2!Idle}]
        /\ tx_out \in [Connectors -> (TxPos \X Nat) \cup {NoOut}]
        /\ prev_tx \in [Connectors -> TxPos \cup {NoTx}]
    BY DEF IInv, TypeOK, IterType, LocalType, S2!TypeInv
  <1>1. CASE Quiet
    BY <1>1, QuietLeaves, OnePlaceFrame DEF local
  <1>2. ASSUME NEW u \in Updaters, update_unspent_cache(u) PROVE OnePlace'
    <2>1. UNCHANGED <<output_block, stage2, local>>
      BY <1>2, UpdateFacts
    <2> QED
      BY <2>1, OnePlaceFrame DEF local, stage2
  <1>3. ASSUME NEW v \in Connectors, take_block(v) PROVE OnePlace'
    BY <1>0, <1>3, OnePlaceFrame DEF take_block, next_block, S2!fetch
  <1>4. ASSUME NEW v \in Connectors,
               connect_coinbase(v) \/ connect_get_err(v) \/ connect_return(v) \/ connect_get(v)
        PROVE  OnePlace'
    <2>1. /\ pc[v] = "get" /\ pc'[v] # "remove_key"
          /\ UNCHANGED <<output_block, tx_out>>
          /\ \A w \in Connectors \ {v} :
               /\ pc'[w] = pc[w] /\ job2'[w] = job2[w] /\ cur'[w] = cur[w]
               /\ prev_tx'[w] = prev_tx[w]
      <3>1. CASE connect_coinbase(v)
        BY <1>0, <3>1 DEF connect_coinbase, stage2
      <3>2. CASE connect_return(v) \/ connect_get_err(v)
        BY <1>0, <3>2 DEF connect_return, connect_get_err, local, S2!return_ok, S2!return_err
      <3>3. CASE connect_get(v)
        BY <1>0, <3>3 DEF connect_get, stage2
      <3> QED
        BY <1>4, <3>1, <3>2, <3>3
    <2> QED
      BY <2>1, OnePlaceFrame
  <1>5. ASSUME NEW v \in Connectors, connect_take_err(v) PROVE OnePlace'
    BY <1>0, <1>5, OnePlaceFrame DEF connect_take_err, S2!return_err
  <1>6. ASSUME NEW v \in Connectors, connect_take(v) PROVE OnePlace'
    <2>0. PICK p, n : p = prev_tx[v] /\ n = Input(v).vout
      OBVIOUS
    <2>1. /\ UNCHANGED <<job2, cur, prev_tx, output_block>>
          /\ pc[v] = "take" /\ pc' = [pc EXCEPT ![v] = "remove_key"]
          /\ tx_out' = [tx_out EXCEPT ![v] = VM!element(heap[p], n)]
      BY <1>6, <2>0, TakeFacts
    <2>2. /\ p \in TxPos /\ Inserted(p[1])
          /\ DOMAIN heap[p].inner = Slots(p)
          /\ \A i \in Slots(p) : heap[p].inner[i] \in {<<p, i>>, NoOut}
      <3>1. p \in TxPos /\ Inserted(p[1])
        BY <1>6, <2>0, TakeFacts
      <3> QED
        BY <3>1 DEF IInv, TypeOK, CacheType
    <2>3. CASE tx_out'[v] = NoOut
      BY <1>0, <2>1, <2>3, OnePlaceFrame
    <2>4. CASE tx_out'[v] # NoOut
      <3>1. n \in Slots(p) /\ heap[p].inner[n] = <<p, n>> /\ tx_out'[v] = <<p, n>>
        BY <1>0, <2>1, <2>2, <2>4 DEF VM!element
      <3>2. ~Spent(<<p, n>>)
        BY <2>4, <3>1 DEF Spent
      <3>3. Spent(<<p, n>>)'
        <4>1. heap'[p] = VM!remove(heap[p], n)
          BY <1>6, <2>0, TakeFacts
        <4>2. heap'[p].inner[n] = NoOut
          BY <2>2, <3>1, <4>1 DEF VM!remove, VM!element
        <4>3. Inserted(p[1])'
          BY <2>2, NothingReturns
        <4> QED
          BY <2>2, <3>1, <4>2, <4>3 DEF Spent
      <3>4. \A q \in InPos : Out(q)' = Out(q) /\ Out(q) # <<p, n>>
        BY <2>1, <2>4, <3>1, <3>2 DEF OnePlace, Out
      <3>5. \A q \in InPos : Out(q)' # NoOut => Spent(Out(q))'
        <4>1. \A o : Spent(o) => Spent(o)'
          BY NothingReturns DEF Spent
        <4> SUFFICES ASSUME NEW q \in InPos, Out(q)' # NoOut PROVE Spent(Out(q))'
          OBVIOUS
        <4>2. Out(q)' = Out(q) /\ Spent(Out(q))
          BY <3>4 DEF OnePlace
        <4> QED
          BY <4>2, NothingReturns DEF Spent
      <3>6. ASSUME NEW w \in Connectors, Holds(w)'
            PROVE  /\ Spent(tx_out[w])'
                   /\ tx_out'[w] = <<prev_tx'[w], Input(w)'.vout>>
                   /\ \A q \in InPos : Out(q)' # tx_out'[w]
                   /\ w # v => Holds(w) /\ tx_out'[w] = tx_out[w] /\ tx_out[w] # <<p, n>>
        <4>1. CASE w = v
          BY <1>0, <2>0, <2>1, <3>1, <3>3, <3>4, <4>1 DEF Spent
        <4>2. CASE w # v
          <5>1. Holds(w) /\ tx_out'[w] = tx_out[w] /\ Input(w)' = Input(w) /\ prev_tx'[w] = prev_tx[w]
            BY <1>0, <2>1, <3>6, <4>2
          <5>2. Spent(tx_out[w])
            BY <5>1 DEF OnePlace
          <5>3. Spent(tx_out[w])'
            BY <5>1, <5>2, NothingReturns DEF Spent
          <5> QED
            BY <3>2, <3>4, <5>1, <5>2, <5>3 DEF OnePlace
        <4> QED
          BY <4>1, <4>2
      <3>7. ASSUME NEW w \in Connectors, Holds(w)',
                   NEW x \in Connectors, Holds(x)', tx_out'[w] = tx_out'[x]
            PROVE  w = x
        <4>1. \A y \in Connectors \ {v} : Holds(y)' =>
                Holds(y) /\ tx_out'[y] = tx_out[y] /\ tx_out[y] # <<p, n>>
          BY <3>6
        <4>2. \A y, z \in Connectors : Holds(y) /\ Holds(z) /\ tx_out[y] = tx_out[z] => y = z
          BY DEF OnePlace
        <4> QED
          BY <3>1, <3>7, <4>1, <4>2
      <3>8. SpentOnce'
        BY <2>1 DEF OnePlace, SpentOnce
      <3> QED
        BY <3>5, <3>6, <3>7, <3>8 DEF OnePlace
    <2> QED
      BY <2>3, <2>4
  <1>7. ASSUME NEW v \in Connectors, connect_add(v) PROVE OnePlace'
    <2> DEFINE q0 == <<job2[v], cur[v]>>
    <2>1. /\ Holds(v) /\ pc' = [pc EXCEPT ![v] = "get"]
          /\ cur' = [cur EXCEPT ![v] = @ + 1]
          /\ UNCHANGED <<job2, tx_out, prev_tx>>
          /\ output_block' = [output_block EXCEPT ![job2[v]][cur[v]] = tx_out[v]]
      BY <1>7 DEF connect_add, stage2
    <2>2. q0 \in InPos /\ HasInput(v)
      <3>1. HasInput(v)
        BY <2>1 DEF IInv, Remembers
      <3> QED
        BY <3>1, PosFacts DEF HasInput
    <2>3. \A q \in InPos : Out(q)' = IF q = q0 THEN tx_out[v] ELSE Out(q)
      <3> SUFFICES ASSUME NEW q \in InPos PROVE Out(q)' = IF q = q0 THEN tx_out[v] ELSE Out(q)
        OBVIOUS
      <3>1. q[1] \in Heights /\ q[2] \in DOMAIN Blocks[q[1]].ins /\ q = <<q[1], q[2]>>
        BY DEF InPos
      <3>2. /\ DOMAIN output_block = Heights
            /\ \A h \in Heights : DOMAIN output_block[h] = DOMAIN Blocks[h].ins
        BY DEF IInv, TypeOK, IterType
      <3> QED
        BY <2>1, <2>2, <3>1, <3>2 DEF Out, HasInput
    <2>4. /\ Spent(tx_out[v]) /\ \A q \in InPos : Out(q) # tx_out[v]
          /\ \A w \in Connectors : Holds(w) /\ tx_out[w] = tx_out[v] => w = v
      BY <2>1 DEF OnePlace
    <2>5. ASSUME NEW w \in Connectors, Holds(w)'
          PROVE  w # v /\ Holds(w) /\ Input(w)' = Input(w) /\ tx_out[w] # tx_out[v]
      BY <1>0, <2>1, <2>4, <2>5
    <2>6. ASSUME NEW q \in InPos, Out(q)' # NoOut PROVE Spent(Out(q))'
      <3>1. Spent(IF q = q0 THEN tx_out[v] ELSE Out(q))
        BY <2>3, <2>4, <2>6 DEF OnePlace
      <3>2. Out(q)' = IF q = q0 THEN tx_out[v] ELSE Out(q)
        BY <2>3
      <3> QED
        BY <3>1, <3>2, NothingReturns DEF Spent
    <2>7. ASSUME NEW w \in Connectors, Holds(w)'
          PROVE  /\ Spent(tx_out[w])'
                 /\ tx_out'[w] = <<prev_tx'[w], Input(w)'.vout>>
                 /\ \A q \in InPos : Out(q)' # tx_out'[w]
                 /\ \A x \in Connectors : Holds(x)' /\ tx_out'[x] = tx_out'[w] => x = w
      <3>1. Spent(tx_out[w]) /\ UNCHANGED tx_out
        BY <2>1, <2>5, <2>7 DEF OnePlace
      <3>2. Spent(tx_out[w])'
        BY <3>1, NothingReturns DEF Spent
      <3> QED
        BY <2>1, <2>3, <2>5, <2>7, <3>2 DEF OnePlace
    <2>8. SpentOnce'
      <3> SUFFICES ASSUME NEW q1 \in InPos, NEW q2 \in InPos,
                          Out(q1)' = Out(q2)', Out(q1)' # NoOut
                   PROVE  q1 = q2
        BY DEF SpentOnce, Out
      <3>1. Out(q1) = Out(q2) /\ Out(q1) # NoOut => q1 = q2
        BY DEF OnePlace, SpentOnce, Out
      <3> QED
        BY <2>3, <2>4, <3>1
    <2> QED
      BY <2>6, <2>7, <2>8 DEF OnePlace
  <1> QED
    BY <1>1, <1>2, <1>3, <1>4, <1>5, <1>6, <1>7, StepCases

(***************************************************************************)
(* No output is handed out twice, whatever the chain and however many      *)
(* workers ask for it at the same time.                                    *)
(***************************************************************************)
THEOREM NeverSpentTwice == Spec => []SpentOnce
  <1>1. Init => OnePlace
    <2> SUFFICES ASSUME Init PROVE OnePlace
      OBVIOUS
    <2>1. \A q \in InPos : Out(q) = NoOut
      BY DEF Init, IterInit, NoInputs, Out, InPos
    <2>2. \A v \in Connectors : ~Holds(v)
      BY DEF Init, Holds
    <2> QED
      BY <2>1, <2>2 DEF OnePlace, SpentOnce, Out
  <1>2. IInv /\ OnePlace /\ [Next]_vars => OnePlace'
    BY OnePlaceStep
  <1>3. OnePlace => SpentOnce
    BY DEF OnePlace
  <1> QED
    BY <1>1, <1>2, <1>3, Inductive, PTL DEF Spec

-----------------------------------------------------------------------------
(* The cache is the UTXO set.                                              *)

\* Every input that asked and whose block was not refused took its output.
AskedTaken ==
  \A q \in InPos : Asked(q) /\ q[1] \notin failed2 /\ InAt(q) # NullOutPoint =>
    \A p \in TxPos : UniqueTxid(p) /\ TxAt(p).txid = InAt(q).txid =>
      /\ Inserted(p[1])
      /\ InAt(q).vout \in Slots(p) => heap[p].inner[InAt(q).vout] = NoOut

\* The key of an emptied transaction is gone, or a connector that saw it
\* empty is about to remove it.
KeyGoes ==
  \A p \in TxPos :
    UniqueTxid(p) /\ Inserted(p[1]) /\ Slots(p) # {} /\ heap[p].size = 0 =>
      \/ unspent[TxAt(p).txid] = NoTx
      \/ \E v \in Connectors : pc[v] = "remove_key" /\ prev_tx[v] = p /\ was_empty[v]

\* Only taking an output answers what an input asked for; a connector that
\* gives up puts its block among the refused ones.
LEMMA AskedByTaking ==
  ASSUME IInv, [Next]_vars, NEW q \in InPos, Asked(q)', ~Asked(q),
         q[1] \notin failed2', InAt(q) # NullOutPoint
  PROVE  \E v \in Connectors : connect_take(v) /\ q = <<job2[v], cur[v]>>
  <1>0. /\ pc \in [Connectors -> {"get", "take", "remove_key"}]
        /\ cur \in [Connectors -> Nat \ {0}]
        /\ job2 \in [Connectors -> Nat \cup {S2!Idle}]
        /\ handed1 \in Nat
    BY DEF IInv, TypeOK, IterType, LocalType, S1!TypeInv, S2!TypeInv
  <1>1. /\ q[1] \in Heights /\ q[1] \in Nat /\ q[2] \in Nat \ {0} /\ q = <<q[1], q[2]>>
        /\ q[2] \in DOMAIN Blocks[q[1]].ins
    BY ChainTypes DEF InPos
  <1>2. CASE Quiet
    BY <1>2, QuietLeaves DEF Asked, local
  <1>3. ASSUME NEW u \in Updaters, update_unspent_cache(u) PROVE FALSE
    <2>1. UNCHANGED <<handed1, stage2, local>>
      BY <1>3, UpdateFacts
    <2> QED
      BY <2>1 DEF Asked, local, stage2
  <1>4. ASSUME NEW v \in Connectors, take_block(v) PROVE FALSE
    <2>1. /\ handed1' = handed1 + 1 /\ job2[v] = S2!Idle
          /\ job2' = [job2 EXCEPT ![v] = handed1]
          /\ pc' = [pc EXCEPT ![v] = "get"] /\ cur' = [cur EXCEPT ![v] = 1]
      BY <1>4 DEF take_block, next_block, S1!next_some, S2!fetch, IInv, Chained
    <2>2. q[1] # handed1
      BY <1>0, <1>1, <2>1 DEF Asked
    <2> QED
      BY <1>0, <1>1, <2>1, <2>2 DEF Asked, S2!Idle
  <1>5. ASSUME NEW v \in Connectors, connect_coinbase(v) PROVE FALSE
    <2>1. UNCHANGED <<handed1, job2, pc>> /\ cur' = [cur EXCEPT ![v] = @ + 1]
          /\ pc[v] = "get" /\ Input(v) = NullOutPoint
      BY <1>5 DEF connect_coinbase, stage1, stage2
    <2>2. job2[v] = q[1] => cur[v] # q[2]
      BY <2>1 DEF Input, InAt
    <2> QED
      BY <1>0, <1>1, <2>1, <2>2 DEF Asked
  <1>6. ASSUME NEW v \in Connectors, connect_get_err(v) \/ connect_take_err(v) PROVE FALSE
    <2>1. /\ UNCHANGED <<handed1, cur>> /\ job2' = [job2 EXCEPT ![v] = S2!Idle]
          /\ failed2' = failed2 \cup {job2[v]}
          /\ \A w \in Connectors \ {v} : pc'[w] = pc[w]
      BY <1>0, <1>6 DEF connect_get_err, connect_take_err, S2!return_err, local, stage1
    <2>2. job2[v] # q[1]
      BY <2>1
    <2> QED
      BY <1>0, <1>1, <2>1, <2>2 DEF Asked
  <1>7. ASSUME NEW v \in Connectors, connect_return(v) PROVE FALSE
    <2>1. /\ UNCHANGED <<handed1, cur, pc>> /\ job2' = [job2 EXCEPT ![v] = S2!Idle]
          /\ job2[v] \in Heights /\ ~HasInput(v)
      BY <1>7 DEF connect_return, S2!return_ok, local, stage1
    <2>2. job2[v] = q[1] => q[2] < cur[v]
      <3>1. Blocks[q[1]].ins \in Seq(OutPoint \cup {NullOutPoint})
        BY <1>1, ChainAssumption DEF Block
      <3>2. DOMAIN Blocks[q[1]].ins = 1 .. Len(Blocks[q[1]].ins) /\ Len(Blocks[q[1]].ins) \in Nat
        BY <3>1
      <3>3. job2[v] = q[1] => cur[v] \notin DOMAIN Blocks[q[1]].ins
        BY <2>1 DEF HasInput
      <3> QED
        BY <1>0, <1>1, <3>2, <3>3
    <2> QED
      BY <1>0, <1>1, <2>1, <2>2 DEF Asked
  <1>8. ASSUME NEW v \in Connectors, connect_get(v) PROVE FALSE
    <2>1. UNCHANGED <<handed1, job2, cur>> /\ pc[v] = "get" /\ pc' = [pc EXCEPT ![v] = "take"]
      BY <1>8 DEF connect_get, stage1, stage2
    <2> QED
      BY <1>0, <2>1 DEF Asked
  <1>9. ASSUME NEW v \in Connectors, connect_add(v) PROVE FALSE
    <2>1. /\ UNCHANGED <<handed1, job2>> /\ cur' = [cur EXCEPT ![v] = @ + 1]
          /\ pc[v] = "remove_key" /\ pc' = [pc EXCEPT ![v] = "get"]
      BY <1>9 DEF connect_add, stage1, stage2
    <2> QED
      BY <1>0, <1>1, <2>1 DEF Asked
  <1>10. ASSUME NEW v \in Connectors, connect_take(v) PROVE q = <<job2[v], cur[v]>>
    <2>1. UNCHANGED <<handed1, job2, cur>> /\ pc' = [pc EXCEPT ![v] = "remove_key"]
      BY <1>10 DEF connect_take, stage1, stage2
    <2> QED
      BY <1>0, <1>1, <2>1 DEF Asked
  <1> QED
    BY <1>2, <1>3, <1>4, <1>5, <1>6, <1>7, <1>8, <1>9, <1>10, StepCases

LEMMA AskedTakenStep ==
  ASSUME IInv, AskedTaken, [Next]_vars
  PROVE  AskedTaken'
  <1> SUFFICES ASSUME NEW q \in InPos, Asked(q)', q[1] \notin failed2', InAt(q) # NullOutPoint,
                      NEW p \in TxPos, UniqueTxid(p), TxAt(p).txid = InAt(q).txid
               PROVE  /\ Inserted(p[1])'
                      /\ InAt(q).vout \in Slots(p) => heap'[p].inner[InAt(q).vout] = NoOut
    BY DEF AskedTaken
  <1>1. failed2 \subseteq failed2'
    <2>1. UNCHANGED failed2 \/ \E v \in Connectors : S2!return_err(v)
      <3>1. ASSUME NEW u \in Updaters, update_unspent_cache(u) PROVE UNCHANGED failed2
        BY <3>1 DEF update_unspent_cache, block_ok, stage2
      <3>2. ASSUME NEW v \in Connectors, take_block(v) PROVE UNCHANGED failed2
        BY <3>2 DEF take_block, next_block, S2!fetch
      <3>3. ASSUME NEW v \in Connectors,
                   \/ connect_coinbase(v) \/ connect_return(v) \/ connect_get(v)
                   \/ connect_take(v) \/ connect_add(v)
            PROVE  UNCHANGED failed2
        BY <3>3 DEF connect_coinbase, connect_return, connect_get, connect_take, connect_add,
           stage2, S2!return_ok
      <3>4. ASSUME NEW v \in Connectors, connect_get_err(v) \/ connect_take_err(v)
            PROVE  S2!return_err(v)
        BY <3>4 DEF connect_get_err, connect_take_err
      <3> QED
        BY <3>1, <3>2, <3>3, <3>4, StepCases, QuietLeaves
    <2> QED
      BY <2>1 DEF S2!return_err
  <1>2. CASE Asked(q)
    BY <1>1, <1>2, NothingReturns DEF AskedTaken
  <1>3. CASE ~Asked(q)
    <2>1. PICK v \in Connectors : connect_take(v) /\ q = <<job2[v], cur[v]>>
      BY <1>3, AskedByTaking
    <2>2. PICK r, n : r = prev_tx[v] /\ n = Input(v).vout
      OBVIOUS
    <2>3. Input(v) = InAt(q)
      BY <2>1 DEF Input, InAt
    <2>4. r \in TxPos /\ Inserted(r[1]) /\ TxAt(r).txid = InAt(q).txid
      BY <2>1, <2>2, <2>3, TakeFacts
    <2>5. r = p
      BY <2>4 DEF UniqueTxid
    <2>6. heap'[p] = VM!remove(heap[p], InAt(q).vout)
      <3>1. heap'[r] = VM!remove(heap[r], n)
        BY <2>1, <2>2, TakeFacts
      <3> QED
        BY <2>2, <2>3, <2>5, <3>1
    <2>7. DOMAIN heap[p].inner = Slots(p)
      BY DEF IInv, TypeOK, CacheType
    <2> QED
      BY <2>4, <2>5, <2>6, <2>7, NothingReturns, RemoveSlots
  <1> QED
    BY <1>2, <1>3

LEMMA KeyGoesStep ==
  ASSUME IInv, KeyGoes, [Next]_vars
  PROVE  KeyGoes'
  <1>0. /\ pc \in [Connectors -> {"get", "take", "remove_key"}]
        /\ prev_tx \in [Connectors -> TxPos \cup {NoTx}]
        /\ was_empty \in [Connectors -> BOOLEAN]
    BY DEF IInv, TypeOK, LocalType
  <1> SUFFICES ASSUME NEW p \in TxPos, UniqueTxid(p), Inserted(p[1])', Slots(p) # {},
                      heap'[p].size = 0
               PROVE  \/ unspent'[TxAt(p).txid] = NoTx
                      \/ \E v \in Connectors : pc'[v] = "remove_key" /\ prev_tx'[v] = p /\ was_empty'[v]
    BY DEF KeyGoes
  <1>1. TxAt(p).txid \in Txids /\ p[1] \in Nat
    BY ChainTypes, PosFacts
  <1>2. CASE Quiet
    BY <1>2, QuietLeaves DEF KeyGoes, cache, local, Inserted
  <1>3. ASSUME NEW u \in Updaters, update_unspent_cache(u)
        PROVE  \/ unspent'[TxAt(p).txid] = NoTx
               \/ \E v \in Connectors : pc'[v] = "remove_key" /\ prev_tx'[v] = p /\ was_empty'[v]
    <2>1. p[1] # job1[u]
      <3> SUFFICES ASSUME p[1] = job1[u] PROVE FALSE
        OBVIOUS
      <3>1. /\ VM!SizeOK(heap'[p])
            /\ heap'[p].inner = NewOuts(p)
        BY <1>3, UpdateFacts
      <3>2. \A n \in Slots(p) : heap'[p].inner[n] # NoOut
        BY <3>1, InMemAssumption, ChainTypes DEF NewOuts, Slots
      <3>3. DOMAIN heap'[p].inner = 0 .. TxAt(p).outs - 1 /\ TxAt(p).outs \in Nat
        BY <3>1, ChainTypes DEF NewOuts, Slots
      <3>4. \A n \in Slots(p) : heap'[p].inner[n] = NoOut
        BY <3>1, <3>3, SizeOKFacts DEF Slots
      <3> QED
        BY <3>2, <3>4
    <2>2. heap'[p] = heap[p] /\ UNCHANGED local
      BY <1>3, <2>1, UpdateFacts
    <2>3. Inserted(p[1])
      BY <1>3, <2>1, UpdateFacts
    <2>4. unspent'[TxAt(p).txid] = unspent[TxAt(p).txid]
      <3> DEFINE t == TxAt(p).txid
      <3>1. \/ unspent'[t] = unspent[t]
            \/ unspent'[t] \in TxPos /\ unspent'[t][1] = job1[u] /\ TxAt(unspent'[t]).txid = t
        BY <1>1, <1>3, UpdateFacts
      <3> QED
        BY <2>1, <3>1 DEF UniqueTxid
    <2> QED
      BY <2>2, <2>3, <2>4 DEF KeyGoes, local
  <1>4. ASSUME UNCHANGED heap, Inserted(p[1])
        PROVE  \/ unspent[TxAt(p).txid] = NoTx
               \/ \E v \in Connectors : pc[v] = "remove_key" /\ prev_tx[v] = p /\ was_empty[v]
    BY <1>4 DEF KeyGoes
  <1>5. ASSUME NEW v \in Connectors, take_block(v)
        PROVE  \/ unspent'[TxAt(p).txid] = NoTx
               \/ \E w \in Connectors : pc'[w] = "remove_key" /\ prev_tx'[w] = p /\ was_empty'[w]
    <2>1. /\ job2[v] = S2!Idle /\ handed1' = handed1 + 1 /\ handed1 \in done1
          /\ done1' = done1 \ {handed1} /\ handed1 \in Nat
          /\ pc' = [pc EXCEPT ![v] = "get"] /\ UNCHANGED <<cache, prev_tx, was_empty>>
      BY <1>5 DEF take_block, next_block, S1!next_some, S2!fetch, IInv, S1!Inv, S1!TypeInv
    <2>2. pc[v] = "get"
      BY <2>1, ChainTypes DEF IInv, Remembers, HasInput, S2!Idle
    <2>3. Inserted(p[1])
      BY <1>1, <2>1 DEF Inserted
    <2> QED
      BY <1>0, <1>4, <2>1, <2>2, <2>3 DEF cache
  <1>6. ASSUME NEW v \in Connectors,
               connect_coinbase(v) \/ connect_get_err(v) \/ connect_return(v) \/ connect_get(v)
        PROVE  \/ unspent'[TxAt(p).txid] = NoTx
               \/ \E w \in Connectors : pc'[w] = "remove_key" /\ prev_tx'[w] = p /\ was_empty'[w]
    <2>1. /\ pc[v] = "get" /\ UNCHANGED <<handed1, done1, cache, was_empty>>
          /\ \A w \in Connectors \ {v} : pc'[w] = pc[w] /\ prev_tx'[w] = prev_tx[w]
      <3>1. CASE connect_coinbase(v)
        BY <3>1 DEF connect_coinbase, stage1
      <3>2. CASE connect_get_err(v) \/ connect_return(v)
        BY <3>2 DEF connect_get_err, connect_return, stage1, local
      <3>3. CASE connect_get(v)
        BY <1>0, <3>3 DEF connect_get, stage1
      <3> QED
        BY <1>6, <3>1, <3>2, <3>3
    <2> QED
      BY <1>4, <2>1 DEF cache, Inserted
  <1>7. ASSUME NEW v \in Connectors, connect_take(v)
        PROVE  \/ unspent'[TxAt(p).txid] = NoTx
               \/ \E w \in Connectors : pc'[w] = "remove_key" /\ prev_tx'[w] = p /\ was_empty'[w]
    <2>1. /\ UNCHANGED <<handed1, done1, unspent, prev_tx>>
          /\ pc[v] = "take" /\ pc' = [pc EXCEPT ![v] = "remove_key"]
          /\ was_empty' = [was_empty EXCEPT ![v] = VM!is_empty(heap'[prev_tx[v]])]
      BY <1>7, TakeFacts
    <2>2. CASE p = prev_tx[v]
      BY <1>0, <2>1, <2>2 DEF VM!is_empty
    <2>3. CASE p # prev_tx[v]
      <3>1. heap'[p] = heap[p]
        BY <1>7, <2>3, TakeFacts
      <3>2. \/ unspent[TxAt(p).txid] = NoTx
            \/ \E w \in Connectors : pc[w] = "remove_key" /\ prev_tx[w] = p /\ was_empty[w]
        BY <2>1, <3>1 DEF KeyGoes, Inserted
      <3> QED
        BY <1>0, <2>1, <2>3, <3>2
    <2> QED
      BY <2>2, <2>3
  <1>8. ASSUME NEW v \in Connectors, connect_add(v) \/ connect_take_err(v)
        PROVE  \/ unspent'[TxAt(p).txid] = NoTx
               \/ \E w \in Connectors : pc'[w] = "remove_key" /\ prev_tx'[w] = p /\ was_empty'[w]
    <2>1. /\ UNCHANGED <<handed1, done1, heap, prev_tx, was_empty>>
          /\ pc[v] = "remove_key" /\ pc' = [pc EXCEPT ![v] = "get"] /\ RemoveKey(v)
      BY <1>8 DEF connect_add, connect_take_err, stage1
    <2>2. /\ unspent[TxAt(p).txid] = NoTx => unspent'[TxAt(p).txid] = NoTx
          /\ was_empty[v] /\ Input(v).txid = TxAt(p).txid => unspent'[TxAt(p).txid] = NoTx
      BY <1>1, <2>1 DEF RemoveKey, IInv, TypeOK, CacheType
    <2>3. TxAt(prev_tx[v]).txid = Input(v).txid
      BY <2>1 DEF IInv, Remembers
    <2> QED
      BY <1>0, <1>4, <2>1, <2>2, <2>3 DEF Inserted
  <1> QED
    BY <1>2, <1>3, <1>5, <1>6, <1>7, <1>8, StepCases

\* At rest, what the inputs asked for and what they took agree.
LEMMA AtRest ==
  ASSUME IInv, AskedTaken, KeyGoes
  PROVE  CacheIsUtxoSet
  <1> SUFFICES ASSUME S2!AllIdle, failed2 = {},
                      NEW p \in TxPos, Inserted(p[1]), UniqueTxid(p)
               PROVE  /\ VM!Occupied(heap[p]) = Left(p)
                      /\ Slots(p) # {} =>
                           unspent[TxAt(p).txid] = IF Left(p) = {} THEN NoTx ELSE p
    BY DEF CacheIsUtxoSet
  <1>1. \A q \in InPos : Asked(q) <=> q[1] < fetched2
    <2>1. \A q \in InPos : q[1] \in Nat
      BY ChainTypes DEF InPos
    <2> QED
      BY <2>1 DEF Asked, S2!AllIdle, S2!Idle, IInv, Chained
  <1>2. DOMAIN heap[p].inner = Slots(p) /\ VM!SizeOK(heap[p]) /\ TxAt(p).outs \in Nat
    BY ChainTypes DEF IInv, TypeOK, CacheType, Counted
  <1>3. ASSUME NEW n \in Slots(p)
        PROVE  heap[p].inner[n] = NoOut <=> n \notin Left(p)
    <2> DEFINE o == [txid |-> TxAt(p).txid, vout |-> n]
    <2>1. n \notin Left(p) <=> \E q \in InPos : q[1] < fetched2 /\ InAt(q) = o
      BY <1>3 DEF Left
    <2>2. ASSUME heap[p].inner[n] = NoOut
          PROVE  \E q \in InPos : q[1] < fetched2 /\ InAt(q) = o
      BY <1>1, <1>3, <2>2 DEF IInv, TakenByInput
    <2>3. ASSUME NEW q \in InPos, q[1] < fetched2, InAt(q) = o
          PROVE  heap[p].inner[n] = NoOut
      <3>1. o \in OutPoint
        BY <1>2, <1>3, ChainTypes DEF OutPoint, Slots
      <3>2. InAt(q) # NullOutPoint /\ Asked(q)
        BY <1>1, <2>3, <3>1, ChainAssumption
      <3>3. InAt(q).txid = TxAt(p).txid /\ InAt(q).vout = n
        BY <2>3
      <3> QED
        BY <1>3, <2>3, <3>2, <3>3 DEF AskedTaken
    <2> QED
      BY <2>1, <2>2, <2>3
  <1>4. VM!Occupied(heap[p]) = Left(p)
    BY <1>2, <1>3 DEF VM!Occupied, Left
  <1>5. heap[p].size = 0 <=> Left(p) = {}
    <2>1. heap[p].size = 0 <=> \A n \in Slots(p) : heap[p].inner[n] = NoOut
      BY <1>2, SizeOKFacts DEF Slots
    <2> QED
      BY <1>3, <2>1 DEF Left
  <1>6. ASSUME Left(p) = {}, Slots(p) # {} PROVE unspent[TxAt(p).txid] = NoTx
    <2>1. \A v \in Connectors : pc[v] = "get"
      BY ChainTypes DEF IInv, Remembers, HasInput, S2!AllIdle, S2!Idle
    <2> QED
      BY <1>5, <1>6, <2>1 DEF KeyGoes
  <1>7. ASSUME Left(p) # {} PROVE unspent[TxAt(p).txid] = p
    BY <1>5, <1>7 DEF IInv, KeyStays
  <1> QED
    BY <1>4, <1>6, <1>7

(***************************************************************************)
(* At rest the in-memory cache is exactly the UTXO set: no unspent output  *)
(* is lost to a race, no spent one and no empty key is left behind.        *)
(***************************************************************************)
THEOREM CacheExact == Spec => []CacheIsUtxoSet
  <1>1. Init => AskedTaken /\ KeyGoes
    <2> SUFFICES ASSUME Init PROVE AskedTaken /\ KeyGoes
      OBVIOUS
    <2>1. handed1 = 0 /\ done1 = {}
      BY DEF Init, IterInit, S1!Init
    <2>2. \A q \in InPos : q[1] \in Nat
      BY ChainTypes DEF InPos
    <2>3. \A p \in TxPos : ~Inserted(p[1])
      BY <2>1, PosFacts, ChainTypes DEF Inserted
    <2> QED
      BY <2>1, <2>2, <2>3 DEF AskedTaken, KeyGoes, Asked
  <1>2. IInv /\ AskedTaken /\ KeyGoes /\ [Next]_vars => AskedTaken' /\ KeyGoes'
    BY AskedTakenStep, KeyGoesStep
  <1>3. IInv /\ AskedTaken /\ KeyGoes => CacheIsUtxoSet
    BY AtRest
  <1> QED
    BY <1>1, <1>2, <1>3, Inductive, PTL DEF Spec

-----------------------------------------------------------------------------
(* The iterator is a ConnectedStream.                                      *)

\* Inputs before the current one are connected, each to an output that its
\* outpoint names.
Linked ==
  /\ \A q \in InPos : Out(q) # NoOut => InAt(q) # NullOutPoint /\ Out(q) \in Referents(InAt(q))
  /\ \A v \in Connectors : job2[v] # S2!Idle =>
       \A c \in DOMAIN Blocks[job2[v]].ins :
         c < cur[v] /\ Blocks[job2[v]].ins[c] # NullOutPoint => output_block[job2[v]][c] # NoOut
  /\ \A h \in done2 : \A c \in DOMAIN Blocks[h].ins :
       Blocks[h].ins[c] # NullOutPoint => output_block[h][c] # NoOut
  /\ broken \subseteq failed1

\* connect_add is the only step that connects an input, its current one.
LEMMA AddFacts ==
  ASSUME IInv, NEW v \in Connectors, connect_add(v)
  PROVE  /\ HasInput(v) /\ Holds(v)
         /\ cur' = [cur EXCEPT ![v] = @ + 1]
         /\ UNCHANGED <<stage1, stage2, broken>>
         /\ \A h \in Heights : \A c \in DOMAIN Blocks[h].ins :
              output_block'[h][c] =
                IF h = job2[v] /\ c = cur[v] THEN tx_out[v] ELSE output_block[h][c]
         /\ \A h \in Heights : h # job2[v] => output_block'[h] = output_block[h]
  <1>1. /\ Holds(v) /\ cur' = [cur EXCEPT ![v] = @ + 1]
        /\ UNCHANGED <<stage1, stage2, broken>>
        /\ output_block' = [output_block EXCEPT ![job2[v]][cur[v]] = tx_out[v]]
    BY DEF connect_add, Holds
  <1>2. HasInput(v)
    BY <1>1 DEF IInv, Remembers, Holds
  <1>3. /\ DOMAIN output_block = Heights
        /\ \A h \in Heights : DOMAIN output_block[h] = DOMAIN Blocks[h].ins
    BY DEF IInv, TypeOK, IterType
  <1> QED
    BY <1>1, <1>2, <1>3 DEF HasInput

LEMMA OnlyAddConnects ==
  ASSUME [Next]_vars
  PROVE  UNCHANGED output_block \/ \E v \in Connectors : connect_add(v)
  <1>1. ASSUME NEW u \in Updaters, update_unspent_cache(u) PROVE UNCHANGED output_block
    BY <1>1 DEF update_unspent_cache, block_ok
  <1>2. ASSUME NEW v \in Connectors, take_block(v) PROVE UNCHANGED output_block
    BY <1>2 DEF take_block, next_block
  <1>3. ASSUME NEW v \in Connectors,
               \/ connect_coinbase(v) \/ connect_get_err(v) \/ connect_return(v)
               \/ connect_get(v) \/ connect_take(v) \/ connect_take_err(v)
        PROVE  UNCHANGED output_block
    BY <1>3 DEF connect_coinbase, connect_get_err, connect_return, connect_get, connect_take,
       connect_take_err
  <1> QED
    BY <1>1, <1>2, <1>3, StepCases, QuietLeaves

\* An input that is connected stays so.
LEMMA StaysConnected ==
  ASSUME IInv, [Next]_vars, NEW h \in Heights, NEW c \in DOMAIN Blocks[h].ins,
         output_block[h][c] # NoOut
  PROVE  output_block'[h][c] # NoOut
  BY OnlyAddConnects, AddFacts DEF Holds

\* What a connector adds is an output that its input names.
LEMMA HoldsReferent ==
  ASSUME IInv, OnePlace, NEW v \in Connectors, Holds(v)
  PROVE  Input(v) # NullOutPoint /\ tx_out[v] \in Referents(Input(v))
  <1>1. Input(v) # NullOutPoint /\ TxAt(prev_tx[v]).txid = Input(v).txid /\ prev_tx[v] \in TxPos
    BY DEF IInv, Remembers, Holds
  <1>2. tx_out[v] = <<prev_tx[v], Input(v).vout>> /\ Spent(tx_out[v])
    BY DEF OnePlace
  <1>3. Input(v).vout \in Slots(prev_tx[v])
    BY <1>2 DEF Spent
  <1> QED
    BY <1>1, <1>2, <1>3 DEF Referents

\* When a block is returned, its loop has passed every input.
LEMMA ReturnsComplete ==
  ASSUME IInv, NEW v \in Connectors, connect_return(v),
         NEW c \in DOMAIN Blocks[job2[v]].ins
  PROVE  c < cur[v]
  <1>1. job2[v] \in Heights /\ cur[v] \notin DOMAIN Blocks[job2[v]].ins /\ cur[v] \in Nat \ {0}
    BY DEF connect_return, HasInput, IInv, TypeOK, LocalType
  <1>2. Blocks[job2[v]].ins \in Seq(OutPoint \cup {NullOutPoint})
    BY <1>1, ChainAssumption DEF Block
  <1>3. /\ DOMAIN Blocks[job2[v]].ins = 1 .. Len(Blocks[job2[v]].ins)
        /\ Len(Blocks[job2[v]].ins) \in Nat
    BY <1>2
  <1> QED
    BY <1>1, <1>3

\* The outputs of connected inputs are ones their outpoints name.
LEMMA LinkedOutputs ==
  ASSUME IInv, OnePlace, Linked, [Next]_vars, NEW q \in InPos, Out(q)' # NoOut
  PROVE  InAt(q) # NullOutPoint /\ Out(q)' \in Referents(InAt(q))
  <1>1. q[1] \in Heights /\ q[2] \in DOMAIN Blocks[q[1]].ins
    BY DEF InPos
  <1>2. CASE UNCHANGED output_block
    BY <1>2 DEF Linked, Out
  <1>3. ASSUME NEW v \in Connectors, connect_add(v)
        PROVE  InAt(q) # NullOutPoint /\ Out(q)' \in Referents(InAt(q))
    <2>1. /\ Holds(v)
          /\ output_block'[q[1]][q[2]] =
               IF q[1] = job2[v] /\ q[2] = cur[v] THEN tx_out[v] ELSE output_block[q[1]][q[2]]
      BY <1>1, <1>3, AddFacts
    <2>2. Input(v) # NullOutPoint /\ tx_out[v] \in Referents(Input(v))
      BY <2>1, HoldsReferent
    <2>3. CASE q[1] = job2[v] /\ q[2] = cur[v]
      BY <2>1, <2>2, <2>3 DEF Out, InAt, Input
    <2>4. CASE ~(q[1] = job2[v] /\ q[2] = cur[v])
      BY <2>1, <2>4 DEF Out, Linked
    <2> QED
      BY <2>3, <2>4
  <1> QED
    BY <1>2, <1>3, OnlyAddConnects

\* A connector leaves no input behind unconnected.
LEMMA LinkedBehind ==
  ASSUME IInv, Linked, [Next]_vars,
         NEW w \in Connectors, job2'[w] # S2!Idle,
         NEW c \in DOMAIN Blocks[job2'[w]].ins, c < cur'[w],
         Blocks[job2'[w]].ins[c] # NullOutPoint
  PROVE  output_block'[job2'[w]][c] # NoOut
  <1>0. /\ cur \in [Connectors -> Nat \ {0}]
        /\ job2 \in [Connectors -> Nat \cup {S2!Idle}]
    BY DEF IInv, TypeOK, IterType, LocalType, S2!TypeInv
  <1>1. ASSUME job2'[w] = job2[w], c < cur[w] PROVE output_block'[job2'[w]][c] # NoOut
    <2>1. job2[w] \in Heights
      BY <1>1, JobTaken
    <2>2. output_block[job2[w]][c] # NoOut
      BY <1>1 DEF Linked
    <2> QED
      BY <1>1, <2>1, <2>2, StaysConnected
  <1>2. CASE Quiet
    BY <1>1, <1>2, QuietLeaves DEF local
  <1>3. ASSUME NEW u \in Updaters, update_unspent_cache(u)
        PROVE  UNCHANGED <<job2, cur>>
    BY <1>3, UpdateFacts DEF stage2, local
  <1>4. ASSUME NEW v \in Connectors, take_block(v)
        PROVE  job2'[w] = job2[w] /\ cur'[w] = cur[w]
    <2>1. /\ cur' = [cur EXCEPT ![v] = 1] /\ job2' = [job2 EXCEPT ![v] = fetched2]
          /\ handed1 \in done1 /\ fetched2 = handed1
      BY <1>4 DEF take_block, next_block, S1!next_some, S2!fetch, IInv, Chained
    <2>2. CASE w = v
      <3>1. job2'[w] \in Heights /\ cur'[w] = 1
        BY <1>0, <2>1, <2>2 DEF IInv, Chained
      <3>2. c \in Nat \ {0}
        BY <3>1, ChainTypes
      <3> QED
        BY <3>1, <3>2
    <2> QED
      BY <1>0, <2>1, <2>2
  <1>5. ASSUME NEW v \in Connectors, connect_coinbase(v)
        PROVE  job2'[w] = job2[w] /\ c < cur[w]
    <2>1. cur' = [cur EXCEPT ![v] = @ + 1] /\ UNCHANGED job2 /\ Input(v) = NullOutPoint /\ HasInput(v)
      BY <1>5 DEF connect_coinbase, stage2
    <2>2. CASE w = v
      <3>1. c # cur[v] /\ c \in Nat
        BY <2>1, <2>2, ChainTypes DEF Input, HasInput
      <3> QED
        BY <1>0, <2>1, <2>2, <3>1
    <2> QED
      BY <1>0, <2>1, <2>2
  <1>6. ASSUME NEW v \in Connectors, connect_get_err(v) \/ connect_take_err(v) \/ connect_return(v)
        PROVE  job2'[w] = job2[w] /\ cur'[w] = cur[w]
    <2>1. job2' = [job2 EXCEPT ![v] = S2!Idle] /\ UNCHANGED cur
      BY <1>6 DEF connect_get_err, connect_take_err, connect_return, S2!return_err,
         S2!return_ok, local
    <2> QED
      BY <1>0, <2>1
  <1>7. ASSUME NEW v \in Connectors, connect_get(v) \/ connect_take(v)
        PROVE  UNCHANGED <<job2, cur>>
    BY <1>7 DEF connect_get, connect_take, stage2
  <1>8. ASSUME NEW v \in Connectors, connect_add(v) PROVE output_block'[job2'[w]][c] # NoOut
    <2>1. /\ HasInput(v) /\ Holds(v) /\ cur' = [cur EXCEPT ![v] = @ + 1] /\ UNCHANGED job2
          /\ \A h \in Heights : \A d \in DOMAIN Blocks[h].ins :
               output_block'[h][d] =
                 IF h = job2[v] /\ d = cur[v] THEN tx_out[v] ELSE output_block[h][d]
      BY <1>8, AddFacts DEF stage2
    <2>2. CASE w = v /\ c = cur[v]
      BY <2>1, <2>2 DEF Holds, HasInput
    <2>3. CASE ~(w = v /\ c = cur[v])
      <3>1. job2[w] \in Heights /\ c \in Nat
        BY <2>1, JobTaken, ChainTypes
      <3>2. c < cur[w]
        BY <1>0, <2>1, <2>3, <3>1
      <3> QED
        BY <1>1, <2>1, <3>2
    <2> QED
      BY <2>2, <2>3
  <1> QED
    BY <1>1, <1>2, <1>3, <1>4, <1>5, <1>6, <1>7, <1>8, StepCases

\* A block that waits for its turn is connected.
LEMMA LinkedDone ==
  ASSUME IInv, Linked, [Next]_vars,
         NEW h \in done2', NEW c \in DOMAIN Blocks[h].ins, Blocks[h].ins[c] # NullOutPoint
  PROVE  output_block'[h][c] # NoOut
  <1>1. h \in done2 \/ \E v \in Connectors : connect_return(v) /\ h = job2[v]
    <2>1. CASE Quiet
      BY <2>1 DEF Quiet, take_height, update_unspent_cache_err, take_no_block, call_iter, caller,
         next_height, block_err, no_more_blocks, next_some, next_none, drop_iter, drop_upstream,
         vars, stage2, S2!next_some, S2!next_none, S2!drop
    <2>2. ASSUME NEW u \in Updaters, update_unspent_cache(u) PROVE UNCHANGED done2
      BY <2>2 DEF update_unspent_cache, block_ok, stage2
    <2>3. ASSUME NEW v \in Connectors,
                 \/ take_block(v) \/ connect_coinbase(v) \/ connect_get_err(v)
                 \/ connect_get(v) \/ connect_take(v) \/ connect_add(v) \/ connect_take_err(v)
          PROVE  UNCHANGED done2
      BY <2>3 DEF take_block, next_block, S2!fetch, connect_coinbase, connect_get_err,
         connect_get, connect_take, connect_add, connect_take_err, stage2, S2!return_err
    <2>4. ASSUME NEW v \in Connectors, connect_return(v) PROVE done2' = done2 \cup {job2[v]}
      BY <2>4 DEF connect_return, S2!return_ok
    <2> QED
      BY <2>1, <2>2, <2>3, <2>4, StepCases
  <1>2. CASE h \in done2
    <2>1. h \in Heights
      BY <1>2, ChainAssumption DEF IInv, S2!Inv, S2!TypeInv, S2!Exclusive, S2!Pending, Chained,
         Heights
    <2>2. output_block[h][c] # NoOut
      BY <1>2 DEF Linked
    <2> QED
      BY <2>1, <2>2, StaysConnected
  <1>3. ASSUME NEW v \in Connectors, connect_return(v), h = job2[v]
        PROVE  output_block'[h][c] # NoOut
    <2>1. h \in Heights /\ job2[v] # S2!Idle /\ c < cur[v]
      BY <1>3, ReturnsComplete, ChainTypes DEF connect_return, S2!Idle
    <2>2. output_block[h][c] # NoOut
      BY <1>3, <2>1 DEF Linked
    <2> QED
      BY <2>1, <2>2, StaysConnected
  <1> QED
    BY <1>1, <1>2, <1>3

\* The disk fails only where stage 1 reports it.
LEMMA LinkedBroken ==
  ASSUME Linked, [Next]_vars
  PROVE  broken' \subseteq failed1'
  <1> USE DEF Linked
  <1>1. CASE Quiet
    BY <1>1 DEF Quiet, take_height, update_unspent_cache_err, take_no_block, call_iter, caller,
       next_height, block_err, Breaks, no_more_blocks, next_some, next_none, drop_iter,
       drop_upstream, vars, stage1, S1!fetch, S1!return_err, S1!next_none, S1!drop
  <1>2. ASSUME NEW u \in Updaters, update_unspent_cache(u) PROVE UNCHANGED <<broken, failed1>>
    BY <1>2 DEF update_unspent_cache, block_ok, S1!return_ok
  <1>3. ASSUME NEW v \in Connectors, take_block(v) \/ connect_take(v)
        PROVE  UNCHANGED <<broken, failed1>>
    BY <1>3 DEF take_block, next_block, S1!next_some, connect_take, stage1
  <1> QED
    BY <1>1, <1>2, <1>3, StepCases, ConnectorLeaves DEF stage1

LEMMA LinkedStep ==
  ASSUME IInv, OnePlace, Linked, [Next]_vars
  PROVE  Linked'
  BY LinkedOutputs, LinkedBehind, LinkedDone, LinkedBroken DEF Linked

LEMMA EndsRightlyStep ==
  ASSUME IInv, EndsRightly, [Next]_vars
  PROVE  EndsRightly'
  <1> DEFINE Goal == \/ \E u \in Updaters : \/ next_height(u, End)
                                           \/ block_ok(u)
                                           \/ /\ S1!return_err(u) /\ Breaks(job1[u])
                                              /\ UNCHANGED stage2
                     \/ \E v \in Connectors : next_block(v) \/ no_more_blocks(v, End)
                     \/ caller
                     \/ UNCHANGED <<stage1, status2>> /\ broken \subseteq broken'
  <1>1. ASSUME Quiet PROVE Goal
    BY <1>1 DEF Quiet, take_height, update_unspent_cache_err, take_no_block, call_iter,
       block_err, vars, stage2
  <1>2. ASSUME NEW u \in Updaters, update_unspent_cache(u) PROVE Goal
    BY <1>2 DEF update_unspent_cache
  <1>3. ASSUME NEW v \in Connectors, take_block(v) PROVE Goal
    BY <1>3 DEF take_block
  <1>4. ASSUME NEW v \in Connectors,
               \/ connect_coinbase(v) \/ connect_get_err(v) \/ connect_return(v)
               \/ connect_get(v) \/ connect_take(v) \/ connect_add(v) \/ connect_take_err(v)
        PROVE  UNCHANGED <<stage1, status2, broken>>
    BY <1>4 DEF connect_coinbase, connect_get_err, connect_return, connect_get, connect_take,
       connect_add, connect_take_err, stage2, S2!return_err, S2!return_ok
  <1>5. Goal
    BY <1>1, <1>2, <1>3, <1>4, StepCases
  <1>6. S1!Inv /\ End \in 0 .. End
    BY PipelineAssumption DEF IInv
  <1> HIDE DEF Goal
  <1> QED
    BY <1>5, <1>6, EndsStep DEF Goal

\* A finished block is one of the connections of its inputs.
LEMMA ReadyForStream ==
  ASSUME IInv, Linked, EndsRightly
  PROVE  StreamReady
  <1>1. ASSUME NEW h \in done2 PROVE h \notin broken /\ output_block[h] \in Stream!Connections(h)
    <2>1. h \in Heights /\ h < handed1
      BY ChainAssumption
      DEF IInv, S1!Inv, S1!TypeInv, S2!Inv, S2!TypeInv, S2!Exclusive, S2!Pending, Chained, Heights
    <2>2. h \notin broken
      <3>1. broken \subseteq failed1
        BY DEF Linked
      <3>2. failed1 \subseteq handed1 .. fetched1 - 1 /\ handed1 \in Nat /\ fetched1 \in Nat
        BY DEF IInv, S1!Inv, S1!TypeInv, S1!Exclusive, S1!Pending
      <3>3. h \in Nat
        BY <2>1, ChainTypes
      <3> QED
        BY <2>1, <3>1, <3>2, <3>3
    <2> DEFINE ins == DOMAIN Blocks[h].ins
    <2>3. \A c \in ins : output_block[h][c] \in Stream!Candidates(h, c)
      <3> SUFFICES ASSUME NEW c \in ins PROVE output_block[h][c] \in Stream!Candidates(h, c)
        OBVIOUS
      <3>1. <<h, c>> \in InPos
        BY <2>1, PosFacts
      <3>2. /\ output_block[h][c] # NoOut =>
                 /\ Blocks[h].ins[c] # NullOutPoint
                 /\ output_block[h][c] \in Referents(Blocks[h].ins[c])
            /\ Blocks[h].ins[c] # NullOutPoint => output_block[h][c] # NoOut
        BY <3>1 DEF Linked, Out, InAt
      <3>3. Stream!Referents(Blocks[h].ins[c]) = Referents(Blocks[h].ins[c])
        BY DEF Referents, Stream!Referents, TxPos, Stream!TxPos, TxAt, Stream!TxAt, Slots,
           Stream!Slots, Heights, Stream!Heights
      <3> QED
        BY <3>2, <3>3 DEF Stream!Candidates
    <2>4. output_block[h] \in [ins -> UNION {Stream!Candidates(h, c) : c \in ins}]
      <3>1. output_block[h] \in [ins -> (TxPos \X Nat) \cup {NoOut}]
        BY <2>1 DEF IInv, TypeOK, IterType
      <3> QED
        BY <2>3, <3>1
    <2> QED
      BY <2>2, <2>3, <2>4 DEF Stream!Connections
  <1>2. \A h \in failed2 : ~ValidBlock(h)
    BY DEF IInv, NoSpuriousErr
  <1> QED
    BY <1>1, <1>2 DEF StreamReady, Finished, IInv

LEMMA StreamStep ==
  ASSUME IInv, StreamReady, [Next]_vars
  PROVE  [Stream!Next]_(Stream!vars)
  <1> DEFINE Other ==
        /\ UNCHANGED handed2
        /\ \A h \in Heights : h < handed2 => output_block'[h] = output_block[h]
        /\ \/ UNCHANGED <<status2, broken>>
           \/ status2 = "open" /\ status2' = "dropped" /\ UNCHANGED broken
           \/ UNCHANGED status2 /\ \E h \in Heights : broken' = broken \cup {h}
  <1>1. CASE next_some \/ next_none
    BY <1>1, EmitStep, FinishStep DEF Stream!Next
  <1>2. ASSUME Quiet, ~(next_some \/ next_none) PROVE Other
    BY <1>2
    DEF Quiet, take_height, update_unspent_cache_err, take_no_block, call_iter, caller,
        next_height, block_err, Breaks, no_more_blocks, drop_iter, drop_upstream, vars, stage2,
        S2!drop
  <1>3. ASSUME NEW u \in Updaters, update_unspent_cache(u) PROVE Other
    BY <1>3 DEF update_unspent_cache, block_ok, stage2
  <1>4. ASSUME NEW v \in Connectors, take_block(v) PROVE Other
    BY <1>4 DEF take_block, next_block, S2!fetch
  <1>5. ASSUME NEW v \in Connectors,
               \/ connect_coinbase(v) \/ connect_get_err(v) \/ connect_return(v)
               \/ connect_get(v) \/ connect_take(v) \/ connect_take_err(v)
        PROVE  Other
    BY <1>5 DEF connect_coinbase, connect_get_err, connect_return, connect_get, connect_take,
       connect_take_err, stage2, S2!return_err, S2!return_ok
  <1>6. ASSUME NEW v \in Connectors, connect_add(v) PROVE Other
    <2>1. /\ UNCHANGED <<stage2, broken>> /\ HasInput(v)
          /\ \A h \in Heights : h # job2[v] => output_block'[h] = output_block[h]
      BY <1>6, AddFacts
    <2>2. job2[v] \in Nat /\ handed2 \in Nat /\ job2[v] >= handed2
      BY <2>1, ChainTypes DEF HasInput, S2!Idle, IInv, S2!Inv, S2!Exclusive, S2!Pending,
         S2!TypeInv
    <2> QED
      BY <2>1, <2>2 DEF stage2
  <1>7. next_some \/ next_none \/ Other
    BY <1>2, <1>3, <1>4, <1>5, <1>6, StepCases
  <1> QED
    BY <1>1, <1>7, OtherStep

(***************************************************************************)
(* The in-memory iterator implements ConnectedStream.  For every chain,    *)
(* every number of workers and every interleaving, the caller sees the     *)
(* blocks in order, each input connected to an output its outpoint names,  *)
(* and None only at the end or at a block that cannot be produced.         *)
(***************************************************************************)
THEOREM ImplementsStream == Spec => IsConnectedStream
  <1> DEFINE J == OnePlace /\ Linked /\ EndsRightly
  <1>1. Init => J /\ Stream!Init
    <2> SUFFICES ASSUME Init PROVE J /\ Stream!Init
      OBVIOUS
    <2>1. Stream!Init
      BY StreamInit DEF Init
    <2>2. \A q \in InPos : Out(q) = NoOut
      BY DEF Init, IterInit, NoInputs, Out, InPos
    <2>3. OnePlace
      BY <2>2 DEF Init, Holds, OnePlace, SpentOnce, Out
    <2>4. Linked
      BY <2>2 DEF Init, IterInit, S2!Init, Linked
    <2>5. EndsRightly
      BY PipelineAssumption DEF Init, IterInit, S1!Init, EndsRightly
    <2> QED
      BY <2>1, <2>3, <2>4, <2>5
  <1>2. IInv /\ J /\ [Next]_vars => J' /\ [Stream!Next]_(Stream!vars)
    BY OnePlaceStep, LinkedStep, EndsRightlyStep, ReadyForStream, StreamStep
  <1> QED
    BY <1>1, <1>2, Inductive, PTL DEF Spec, IsConnectedStream, Stream!Spec
=============================================================================
