-------------------------- MODULE OnDiskUtxoProofs --------------------------
(***************************************************************************)
(* For every chain, every number of workers and every failure of the disk  *)
(* or the store, the on-disk connected iterator keeps its types, refuses   *)
(* no valid block for which the store did not fail, leaves exactly the     *)
(* UTXO set in its store, and implements ConnectedStream.                  *)
(***************************************************************************)
EXTENDS OnDiskUtxo, ConnectedBlockIterProofs, FiniteSetTheorems, FunctionTheorems

-----------------------------------------------------------------------------
(* The inductive invariant, in named parts.                                *)

\* All bytes that are ever written.
Bytes == {encode_txout(o) : o \in UNION {{p} \X Slots(p) : p \in TxPos}}

\* The bytes that a key may lead to: those of inserted outputs it names.
BytesOf(k) == {encode_txout(o) : o \in {o \in Referents(k) : Inserted(o[1][1])}}

LocalType ==
  /\ pc \in [Connectors -> {"get", "delete"}]
  /\ cur \in [Connectors -> Nat \ {0}]
  /\ tx_outs \in [Connectors -> Seq(Bytes \cup {NoOut})]
  /\ \A v \in Connectors : job2[v] \in Heights => cur[v] <= Len(keys[job2[v]]) + 1

\* A key leads to an inserted output that it names.
StoreLeads == \A k \in Keys : store[k] # NoOut => store[k] \in BytesOf(k)

\* No connector will delete the key of input q any more.
Deleted(q) ==
  /\ q[1] < handed1
  /\ \A v \in Connectors : job2[v] = q[1] =>
       pc[v] = "delete" /\ KeysUpTo(q[1], q[2]) < cur[v]

\* A key that is missing was deleted for an input that spends its output.
DeletedByInput ==
  \A p \in TxPos : UniqueTxid(p) /\ Inserted(p[1]) =>
    \A n \in Slots(p) : store[txout_key(TxAt(p).txid, n)] = NoOut =>
      \E q \in InPos : InAt(q) = txout_key(TxAt(p).txid, n) /\ Deleted(q)

\* What multi_get returned: outputs that the keys name, and nothing only if
\* the block is not valid or the store failed.
Remembers(v) ==
  job2[v] \in Heights =>
    \A i \in DOMAIN tx_outs[v] :
      IF tx_outs[v][i] = NoOut THEN ~ValidBlock(job2[v]) \/ job2[v] \in broken
      ELSE tx_outs[v][i] \in BytesOf(keys[job2[v]][i])

IInv ==
  /\ TypeOK
  /\ LocalType
  /\ S1!Inv
  /\ S2!Inv
  /\ Chained
  /\ StoreLeads
  /\ DeletedByInput
  /\ \A v \in Connectors : Remembers(v)
  /\ NoSpuriousErr

-----------------------------------------------------------------------------
(* The keys of a block.                                                    *)

\* The keys of a block are those of its inputs: each input that has a key
\* finds it at its pos, and each key has an input.
LEMMA KeyFacts ==
  ASSUME NEW h \in Heights
  PROVE  /\ Len(keys[h]) \in Nat
         /\ DOMAIN keys[h] = 1 .. Len(keys[h])
         /\ \A i \in DOMAIN keys[h] :
              \E c \in DOMAIN Blocks[h].ins :
                /\ Blocks[h].ins[c] # NullOutPoint
                /\ KeysUpTo(h, c) = i
                /\ keys[h][i] = Blocks[h].ins[c]
         /\ \A c \in DOMAIN Blocks[h].ins : Blocks[h].ins[c] # NullOutPoint =>
              /\ KeysUpTo(h, c) \in DOMAIN keys[h]
              /\ keys[h][KeysUpTo(h, c)] = Blocks[h].ins[c]
  <1> DEFINE ins == Blocks[h].ins
             L == Len(ins)
             K(c) == {d \in 1 .. c : ins[d] # NullOutPoint}
             N == KeysUpTo(h, L)
  <1>1. L \in Nat /\ DOMAIN ins = 1 .. L
    <2>1. ins \in Seq(OutPoint \cup {NullOutPoint})
      BY ChainAssumption DEF Block
    <2> QED
      BY <2>1
  <1>2. ASSUME NEW c \in Int
        PROVE  IsFiniteSet(K(c)) /\ Cardinality(K(c)) \in Nat /\ KeysUpTo(h, c) = Cardinality(K(c))
    <2>1. IsFiniteSet(1 .. c)
      BY <1>2, FS_Interval
    <2>2. IsFiniteSet(K(c))
      BY <2>1, FS_Subset
    <2> QED
      BY <2>2, FS_CardinalityType DEF KeysUpTo
  <1>3. N \in Nat /\ N = Cardinality(K(L)) /\ IsFiniteSet(K(L))
    <2>1. L \in Int
      BY <1>1
    <2> HIDE DEF L, K
    <2> QED
      BY <1>2, <2>1
  <1>4. ASSUME NEW c \in DOMAIN ins, ins[c] # NullOutPoint
        PROVE  KeysUpTo(h, c) \in 1 .. N
    <2>1. c \in 1 .. L /\ c \in Int /\ L \in Int
      BY <1>1, <1>4
    <2>2. K(c) \subseteq K(L) /\ c \in K(c)
      BY <1>4, <2>1
    <2>3. Cardinality(K(c)) <= Cardinality(K(L))
      BY <1>2, <2>1, <2>2, FS_Subset
    <2>4. Cardinality(K(c)) # 0
      BY <1>2, <2>1, <2>2, FS_EmptySet
    <2>5. Cardinality(K(c)) \in Nat /\ KeysUpTo(h, c) = Cardinality(K(c))
      BY <1>2, <2>1
    <2> HIDE DEF L, K
    <2> QED
      BY <1>3, <2>3, <2>4, <2>5
  <1>5. ASSUME NEW c \in DOMAIN ins, NEW d \in DOMAIN ins, c < d, ins[d] # NullOutPoint
        PROVE  KeysUpTo(h, c) # KeysUpTo(h, d)
    <2>1. c \in 1 .. L /\ d \in 1 .. L /\ c \in Int /\ d \in Int
      BY <1>1, <1>5
    <2>2. K(c) \subseteq K(d) /\ d \in K(d) /\ d \notin K(c)
      BY <1>5, <2>1
    <2>3. Cardinality(K(c)) # Cardinality(K(d))
      BY <1>2, <2>1, <2>2, FS_Subset
    <2> QED
      BY <1>2, <2>1, <2>3
  <1>6. ASSUME NEW c \in DOMAIN ins, NEW d \in DOMAIN ins, ins[c] # NullOutPoint,
               ins[d] # NullOutPoint, KeysUpTo(h, c) = KeysUpTo(h, d)
        PROVE  c = d
    <2>1. c \in Int /\ d \in Int
      BY <1>1, <1>6
    <2> QED
      BY <1>5, <1>6, <2>1
  <1>7. ASSUME NEW i \in 1 .. N
        PROVE  \E c \in DOMAIN ins : ins[c] # NullOutPoint /\ KeysUpTo(h, c) = i
    <2> DEFINE S == K(L)
               f == [c \in S |-> KeysUpTo(h, c)]
    <2>1. \A c \in S : c \in DOMAIN ins /\ ins[c] # NullOutPoint
      BY <1>1
    <2>2. f \in [S -> 1 .. N]
      BY <1>4, <2>1
    <2>3. f \in Injection(S, 1 .. N)
      <3>1. \A c, d \in S : f[c] = f[d] => c = d
        BY <1>6, <2>1
      <3> HIDE DEF f, S, N
      <3> QED
        BY <2>2, <3>1, Fun_IsInj
    <2>4. IsFiniteSet(1 .. N) /\ Cardinality(1 .. N) = N
      BY <1>3, FS_Interval
    <2>5. Cardinality(S) = Cardinality(1 .. N)
      BY <1>3, <2>4
    <2> HIDE DEF f, S, N
    <2>6. f \in Surjection(S, 1 .. N)
      BY <2>3, <2>4, <2>5, FS_Injection
    <2>7. \A t \in 1 .. N : \E c \in S : f[c] = t
      BY <2>6, Fun_SurjectionProperties
    <2>8. PICK c \in S : f[c] = i
      BY <2>7
    <2> QED
      BY <2>1, <2>8 DEF f
  <1>8. keys[h] = [i \in 1 .. N |-> ins[CHOOSE c \in DOMAIN ins :
                                         ins[c] # NullOutPoint /\ KeysUpTo(h, c) = i]]
    BY DEF keys
  <1>9. Len(keys[h]) = N /\ DOMAIN keys[h] = 1 .. N
    BY <1>3, <1>8
  <1>10. ASSUME NEW i \in 1 .. N
         PROVE  \E c \in DOMAIN ins :
                  ins[c] # NullOutPoint /\ KeysUpTo(h, c) = i /\ keys[h][i] = ins[c]
    <2> DEFINE e == CHOOSE c \in DOMAIN ins : ins[c] # NullOutPoint /\ KeysUpTo(h, c) = i
    <2>1. e \in DOMAIN ins /\ ins[e] # NullOutPoint /\ KeysUpTo(h, e) = i
      BY <1>7
    <2>2. keys[h][i] = ins[e]
      BY <1>8
    <2> QED
      BY <2>1, <2>2
  <1>11. ASSUME NEW c \in DOMAIN ins, ins[c] # NullOutPoint
         PROVE  KeysUpTo(h, c) \in 1 .. N /\ keys[h][KeysUpTo(h, c)] = ins[c]
    <2>1. KeysUpTo(h, c) \in 1 .. N
      BY <1>4, <1>11
    <2>2. PICK d \in DOMAIN ins : /\ ins[d] # NullOutPoint /\ KeysUpTo(h, d) = KeysUpTo(h, c)
                                  /\ keys[h][KeysUpTo(h, c)] = ins[d]
      BY <1>10, <2>1
    <2>3. d = c
      BY <1>6, <1>11, <2>2
    <2> QED
      BY <2>1, <2>2, <2>3
  <1> QED
    BY <1>3, <1>9, <1>10, <1>11

-----------------------------------------------------------------------------
(* The kinds of steps.                                                     *)

\* The steps that leave the store and the connectors alone.
Quiet ==
  \/ \E u \in Updaters : take_height(u) \/ update_unspent_cache_err(u) \/ write_err(u)
  \/ \E v \in Connectors : take_no_block(v)
  \/ call_iter
  \/ UNCHANGED vars

LEMMA QuietLeaves ==
  ASSUME Quiet
  PROVE  /\ UNCHANGED <<handed1, done1, fetched2, job2, failed2, output_block, opened, store,
                        pc, cur, tx_outs>>
         /\ broken' = broken \/ \E h \in Heights : broken' = broken \cup {h}
  BY DEF Quiet, take_height, update_unspent_cache_err, write_err, take_no_block, call_iter,
         caller, next_height, block_err, Breaks, no_more_blocks, next_some, next_none,
         drop_iter, drop_upstream, vars, stage1, stage2, local,
         S1!fetch, S1!return_err, S1!next_none, S1!drop,
         S2!next_some, S2!next_none, S2!drop

\* multi_get answers for one key.
reads(v) == connect_get(v) \/ connect_get_err(v)

\* connect_outpoints returns.
returns(v) == connect_delete_err(v) \/ connect_return(v) \/ connect_missing(v)

\* All kinds of steps.
LEMMA StepCases ==
  ASSUME [Next]_vars
  PROVE  \/ Quiet
         \/ \E u \in Updaters : update_unspent_cache(u)
         \/ \E v \in Connectors : \/ take_block(v) \/ reads(v) \/ connect_got(v)
                                 \/ connect_delete(v) \/ returns(v)
  BY DEF Next, Quiet, reads, returns, update_stage, connect_stage, connect_outpoints,
         stay_stopped

\* Every step of the iterator keeps the contract of stage 1.
LEMMA Stage1Inv == S1!Inv /\ [Next]_vars => S1!Inv'
  <1> SUFFICES ASSUME S1!Inv, [Next]_vars PROVE S1!Inv'
    OBVIOUS
  <1> USE DEF stage1
  <1>1. ASSUME NEW u \in Updaters, update_stage(u) PROVE S1!Inv'
    BY <1>1, S1!FetchInv, S1!ReturnOkInv, S1!ReturnErrInv
    DEF update_stage, take_height, update_unspent_cache, update_unspent_cache_err, write_err,
        next_height, block_ok, block_err
  <1>2. ASSUME NEW v \in Connectors, take_block(v) \/ take_no_block(v) PROVE S1!Inv'
    BY <1>2, S1!NextSomeInv, S1!NextNoneInv
    DEF take_block, take_no_block, next_block, no_more_blocks
  <1>3. CASE S1!drop
    BY <1>3, S1!NextNoneInv
  <1>4. ASSUME NEW v \in Connectors, connect_outpoints(v) PROVE S1!Inv'
    BY <1>4, S1!UnchangedInv
    DEF connect_outpoints, connect_get, connect_get_err, connect_got, connect_delete,
        connect_delete_err, connect_return, connect_missing, S1!vars
  <1>5. CASE next_some \/ next_none \/ drop_iter \/ UNCHANGED vars
    BY <1>5, S1!UnchangedInv DEF next_some, next_none, drop_iter, vars, S1!vars
  <1>6. QED
    BY <1>1, <1>2, <1>3, <1>4, <1>5
    DEF Next, connect_stage, call_iter, caller, drop_upstream, stay_stopped

\* Every step of the iterator keeps the contract of stage 2.
LEMMA Stage2Inv == S2!Inv /\ [Next]_vars => S2!Inv'
  <1> SUFFICES ASSUME S2!Inv, [Next]_vars PROVE S2!Inv'
    OBVIOUS
  <1> USE DEF stage2
  <1>1. ASSUME NEW u \in Updaters, update_stage(u) PROVE S2!Inv'
    BY <1>1, S2!UnchangedInv
    DEF update_stage, take_height, update_unspent_cache, update_unspent_cache_err, write_err,
        next_height, block_ok, block_err, S2!vars
  <1>2. ASSUME NEW v \in Connectors, take_block(v) PROVE S2!Inv'
    BY <1>2, S2!FetchInv DEF take_block, next_block
  <1>3. ASSUME NEW v \in Connectors, returns(v) PROVE S2!Inv'
    BY <1>3, S2!ReturnOkInv, S2!ReturnErrInv
    DEF returns, connect_delete_err, connect_return, connect_missing
  <1>4. ASSUME NEW v \in Connectors,
               take_no_block(v) \/ reads(v) \/ connect_got(v) \/ connect_delete(v)
        PROVE  S2!Inv'
    BY <1>4, S2!UnchangedInv
    DEF take_no_block, no_more_blocks, reads, connect_get, connect_get_err, connect_got,
        connect_delete, S2!vars
  <1>5. CASE next_some \/ next_none \/ drop_iter
    BY <1>5, S2!NextSomeInv, S2!NextNoneInv DEF next_some, next_none, drop_iter
  <1>6. CASE drop_upstream \/ UNCHANGED vars
    BY <1>6, S2!UnchangedInv DEF drop_upstream, vars, S2!vars
  <1>7. QED
    BY <1>1, <1>2, <1>3, <1>4, <1>5, <1>6
    DEF Next, reads, returns, connect_stage, connect_outpoints, call_iter, caller, stay_stopped

-----------------------------------------------------------------------------
(* Facts that every action needs.                                          *)

\* The types of the variables that the actions of a connector use.
LEMMA Types ==
  ASSUME IInv
  PROVE  /\ pc \in [Connectors -> {"get", "delete"}]
         /\ cur \in [Connectors -> Nat \ {0}]
         /\ tx_outs \in [Connectors -> Seq(Bytes \cup {NoOut})]
         /\ job2 \in [Connectors -> Nat \cup {S2!Idle}]
         /\ store \in [Keys -> Bytes \cup {NoOut}]
         /\ handed1 \in Nat
  BY DEF IInv, TypeOK, LocalType, IterType, S1!Inv, S2!Inv, S1!TypeInv, S2!TypeInv, Bytes

\* The block a connector works on was handed over by stage 1, to it alone.
LEMMA JobTaken ==
  ASSUME IInv, NEW v \in Connectors, job2[v] # S2!Idle
  PROVE  /\ job2[v] \in Heights /\ job2[v] < handed1
         /\ \A w \in Connectors : job2[w] = job2[v] => w = v
  BY ChainAssumption
  DEF IInv, Chained, S2!Inv, S2!TypeInv, S2!Exclusive, S2!Pending, Heights

\* Keys are outpoints.
LEMMA KeyTypes ==
  /\ \A k \in Keys : k \in OutPoint
  /\ \A p \in TxPos : \A n \in Slots(p) :
       txout_key(TxAt(p).txid, n) \in Keys /\ n \in Nat
  /\ \A q \in InPos : InAt(q) # NullOutPoint => InAt(q) \in Keys
  <1>1. \A q \in InPos : InAt(q) # NullOutPoint => InAt(q) \in OutPoint
    BY ChainTypes DEF InPos, InAt
  <1>2. \A p \in TxPos : \A n \in Slots(p) :
          txout_key(TxAt(p).txid, n) \in OutPoint /\ n \in Nat
    BY ChainTypes DEF Slots, OutPoint, txout_key
  <1> QED
    BY <1>1, <1>2 DEF Keys

\* The input that a connector reads or deletes the key of.
LEMMA KeyInput ==
  ASSUME NEW v \in Connectors, job2[v] \in Heights, cur[v] \in DOMAIN keys[job2[v]]
  PROVE  \E q \in InPos : /\ q[1] = job2[v]
                          /\ KeysUpTo(q[1], q[2]) = cur[v]
                          /\ InAt(q) = Key(v) /\ InAt(q) # NullOutPoint
                          /\ Key(v) \in Keys
  <1>1. PICK c \in DOMAIN Blocks[job2[v]].ins :
          /\ Blocks[job2[v]].ins[c] # NullOutPoint
          /\ KeysUpTo(job2[v], c) = cur[v]
          /\ keys[job2[v]][cur[v]] = Blocks[job2[v]].ins[c]
    BY KeyFacts
  <1> DEFINE q == <<job2[v], c>>
  <1>2. q \in InPos /\ q[1] = job2[v] /\ q[2] = c /\ InAt(q) = Key(v)
    BY <1>1, PosFacts DEF InAt, Key
  <1>3. InAt(q) # NullOutPoint
    BY <1>1 DEF InAt
  <1>4. Key(v) \in Keys
    BY <1>2, <1>3, KeyTypes
  <1> QED
    BY <1>1, <1>2, <1>3, <1>4

\* Bytes of inserted outputs are bytes, and stay so.
LEMMA BytesOfFacts ==
  ASSUME NEW k \in OutPoint
  PROVE  /\ BytesOf(k) \subseteq Bytes
         /\ \A b \in BytesOf(k) : b # NoOut
         /\ \A b \in BytesOf(k) : \E p \in TxPos :
              /\ TxAt(p).txid = k.txid /\ k.vout \in Slots(p) /\ Inserted(p[1])
              /\ b = encode_txout(<<p, k.vout>>)
  <1>1. ASSUME NEW b \in BytesOf(k)
        PROVE  \E p \in TxPos :
                 /\ TxAt(p).txid = k.txid /\ k.vout \in Slots(p) /\ Inserted(p[1])
                 /\ b = encode_txout(<<p, k.vout>>)
    <2>1. PICK o \in Referents(k) : Inserted(o[1][1]) /\ b = encode_txout(o)
      BY <1>1 DEF BytesOf
    <2>2. PICK p \in TxPos : TxAt(p).txid = k.txid /\ k.vout \in Slots(p) /\ o = <<p, k.vout>>
      BY <2>1 DEF Referents
    <2> QED
      BY <2>1, <2>2
  <1>2. ASSUME NEW p \in TxPos, k.vout \in Slots(p)
        PROVE  encode_txout(<<p, k.vout>>) \in Bytes /\ encode_txout(<<p, k.vout>>) # NoOut
    <2>1. <<p, k.vout>> \in UNION {{r} \X Slots(r) : r \in TxPos}
      BY <1>2
    <2> QED
      BY <1>2, <2>1, OnDiskAssumption DEF Bytes
  <1> QED
    BY <1>1, <1>2

\* ... and conversely.
LEMMA BytesOfIntro ==
  ASSUME NEW k \in OutPoint, NEW p \in TxPos, TxAt(p).txid = k.txid, k.vout \in Slots(p),
         Inserted(p[1])
  PROVE  encode_txout(<<p, k.vout>>) \in BytesOf(k)
  <1>1. <<p, k.vout>> \in Referents(k)
    BY DEF Referents
  <1> QED
    BY <1>1 DEF BytesOf

\* A step that only inserts more.
LEMMA BytesOfGrow ==
  ASSUME \A h \in Heights : Inserted(h) => Inserted(h)', NEW k
  PROVE  \A b \in BytesOf(k) : \E o \in Referents(k) : Inserted(o[1][1])' /\ b = encode_txout(o)
  <1>1. \A o \in Referents(k) : o[1][1] \in Heights
    BY PosFacts DEF Referents
  <1> QED
    BY <1>1 DEF BytesOf

\* A new iterator satisfies the invariant.
LEMMA InitIInv == Init => IInv
  <1> SUFFICES ASSUME Init PROVE IInv
    OBVIOUS
  <1>1. S1!Inv /\ S2!Inv
    BY S1!InitInv, S2!InitInv DEF Init, IterInit
  <1>2. \A v \in Connectors : job2[v] \notin Heights
    BY ChainTypes DEF Init, IterInit, S2!Init, S2!Idle
  <1>3. \A h \in Heights : ~Inserted(h)
    BY ChainTypes DEF Init, IterInit, S1!Init, Inserted
  <1>4. TypeOK
    <2>1. IterType
      BY <1>1 DEF S1!Inv, S2!Inv, Init, IterInit, IterType, NoInputs
    <2>2. opened \in BOOLEAN
      BY DEF Init
    <2> QED
      BY <1>2, <2>1, <2>2 DEF TypeOK, Init
  <1>5. LocalType
    BY <1>2 DEF Init, LocalType
  <1>6. Chained
    BY ChainAssumption DEF Init, IterInit, S1!Init, S2!Init, Chained
  <1>7. StoreLeads
    BY DEF Init, StoreLeads
  <1>8. DeletedByInput
    BY <1>3, PosFacts DEF DeletedByInput
  <1>9. \A v \in Connectors : Remembers(v)
    BY <1>2 DEF Remembers
  <1>10. NoSpuriousErr
    BY DEF Init, IterInit, S2!Init, NoSpuriousErr
  <1> QED
    BY <1>1, <1>4, <1>5, <1>6, <1>7, <1>8, <1>9, <1>10 DEF IInv

-----------------------------------------------------------------------------
(* What a step that leaves something alone keeps.                          *)

LEMMA KeepsRemembering ==
  ASSUME IInv, \A h \in Heights : Inserted(h) => Inserted(h)', broken \subseteq broken',
         NEW w \in Connectors, job2'[w] = job2[w], tx_outs'[w] = tx_outs[w]
  PROVE  Remembers(w)'
  <1> SUFFICES ASSUME job2[w] \in Heights, NEW i \in DOMAIN tx_outs[w]
               PROVE  IF tx_outs[w][i] = NoOut THEN ~ValidBlock(job2[w]) \/ job2[w] \in broken'
                      ELSE tx_outs[w][i] \in {encode_txout(o) : o \in
                             {o \in Referents(keys[job2[w]][i]) : Inserted(o[1][1])'}}
    BY DEF Remembers, BytesOf
  <1>1. IF tx_outs[w][i] = NoOut THEN ~ValidBlock(job2[w]) \/ job2[w] \in broken
        ELSE tx_outs[w][i] \in BytesOf(keys[job2[w]][i])
    BY DEF IInv, Remembers
  <1> QED
    BY <1>1, BytesOfGrow

LEMMA KeepsLeading ==
  ASSUME IInv, \A h \in Heights : Inserted(h) => Inserted(h)',
         \A k \in Keys : store'[k] \in {store[k], NoOut}
  PROVE  StoreLeads'
  <1> SUFFICES ASSUME NEW k \in Keys, store'[k] # NoOut
               PROVE  store'[k] \in {encode_txout(o) : o \in
                                       {o \in Referents(k) : Inserted(o[1][1])'}}
    BY DEF StoreLeads, BytesOf
  <1>1. store'[k] \in BytesOf(k)
    BY DEF IInv, StoreLeads
  <1> QED
    BY <1>1, BytesOfGrow

LEMMA KeepsDeleted ==
  ASSUME IInv, \A p \in TxPos : Inserted(p[1])' => Inserted(p[1]), UNCHANGED store,
         \A q \in InPos : Deleted(q) => Deleted(q)'
  PROVE  DeletedByInput'
  BY DEF IInv, DeletedByInput

LEMMA QuietIInv ==
  ASSUME IInv, S1!Inv', S2!Inv', Quiet
  PROVE  IInv'
  <1>1. /\ UNCHANGED <<handed1, done1, fetched2, job2, failed2, output_block, opened, store,
                       pc, cur, tx_outs>>
        /\ broken' = broken \/ \E h \in Heights : broken' = broken \cup {h}
    BY QuietLeaves
  <1>2. broken \subseteq broken' /\ broken' \subseteq Heights
    BY <1>1 DEF IInv, TypeOK, IterType
  <1>3. \A k : Inserted(k)' <=> Inserted(k)
    BY <1>1 DEF Inserted
  <1>4. TypeOK' /\ LocalType'
    BY <1>1, <1>2 DEF IInv, TypeOK, IterType, LocalType, S1!Inv, S2!Inv
  <1>5. Chained' /\ NoSpuriousErr'
    BY <1>1, <1>2 DEF IInv, Chained, NoSpuriousErr
  <1>6. StoreLeads'
    BY <1>1, <1>3, KeepsLeading
  <1>7. DeletedByInput'
    <2>1. \A q \in InPos : Deleted(q) => Deleted(q)'
      BY <1>1 DEF Deleted
    <2> QED
      BY <1>1, <1>3, <2>1, KeepsDeleted
  <1>8. \A w \in Connectors : Remembers(w)'
    BY <1>1, <1>2, <1>3, KeepsRemembering
  <1> QED
    BY <1>4, <1>5, <1>6, <1>7, <1>8 DEF IInv

-----------------------------------------------------------------------------
(* Stage 1 writes the outputs of a block.                                  *)

\* What update_unspent_cache does.
LEMMA UpdateFacts ==
  ASSUME IInv, NEW u \in Updaters, update_unspent_cache(u), NEW h, h = job1[u]
  PROVE  /\ h \in Heights
         /\ done1' = done1 \cup {h} /\ ~Inserted(h)
         /\ UNCHANGED <<handed1, stage2, output_block, broken, opened, pc, cur, tx_outs>>
         /\ \A k : Inserted(k)' <=> Inserted(k) \/ k = h
         /\ store' = [k \in Keys |-> store'[k]]
         /\ \A k \in Keys :
              \/ /\ store'[k] = store[k]
                 /\ \A p \in TxPos : TxAt(p).txid = k.txid /\ k.vout \in Slots(p) => p[1] # h
              \/ \E p \in TxPos : /\ p[1] = h /\ TxAt(p).txid = k.txid /\ k.vout \in Slots(p)
                                  /\ store'[k] = encode_txout(<<p, k.vout>>)
  <1>1. /\ h \in Heights
        /\ done1' = done1 \cup {h} /\ ~Inserted(h)
        /\ UNCHANGED <<handed1, stage2, output_block, broken, opened, pc, cur, tx_outs>>
        /\ store' = Batch(h)
    BY ChainTypes
    DEF update_unspent_cache, block_ok, S1!return_ok, IInv, S1!Inv, S1!TypeInv, S1!Exclusive,
        S1!Pending, Inserted, S1!Idle, local
  <1>2. \A k : Inserted(k)' <=> Inserted(k) \/ k = h
    BY <1>1 DEF Inserted
  <1>3. store' = [k \in Keys |-> store'[k]]
    BY <1>1 DEF Batch, BatchFrom
  <1>4. ASSUME NEW k \in Keys
        PROVE  \/ /\ store'[k] = store[k]
                  /\ \A p \in TxPos : TxAt(p).txid = k.txid /\ k.vout \in Slots(p) => p[1] # h
               \/ \E p \in TxPos : /\ p[1] = h /\ TxAt(p).txid = k.txid /\ k.vout \in Slots(p)
                                   /\ store'[k] = encode_txout(<<p, k.vout>>)
    <2> DEFINE made == {i \in DOMAIN Blocks[h].txs :
                          /\ Blocks[h].txs[i].txid = k.txid
                          /\ k.vout \in 0 .. 0 + Blocks[h].txs[i].outs - 1}
               i == CHOOSE i \in made : TRUE
    <2>1. store'[k] = IF made = {} THEN store[k] ELSE encode_txout(<<<<h, i>>, k.vout - 0>>)
      BY <1>1 DEF Batch, BatchFrom
    <2>2. ASSUME NEW p \in TxPos, p[1] = h, TxAt(p).txid = k.txid, k.vout \in Slots(p)
          PROVE  p[2] \in made
      <3>1. p[2] \in DOMAIN Blocks[h].txs /\ TxAt(p) = Blocks[h].txs[p[2]]
        BY <2>2, PosFacts DEF TxAt
      <3>2. TxAt(p).outs \in Nat
        BY ChainTypes
      <3>3. 0 + TxAt(p).outs - 1 = TxAt(p).outs - 1
        BY <3>2
      <3> QED
        BY <2>2, <3>1, <3>3 DEF Slots
    <2>3. CASE made = {}
      BY <2>1, <2>2, <2>3
    <2>4. CASE made # {}
      <3>1. i \in made
        BY <2>4
      <3>2. <<h, i>> \in TxPos /\ TxAt(<<h, i>>) = Blocks[h].txs[i]
        BY <1>1, <3>1, PosFacts DEF TxAt
      <3>3. TxAt(<<h, i>>).outs \in Nat
        BY <3>2, ChainTypes
      <3>4. k.vout \in Slots(<<h, i>>)
        <4>1. 0 + TxAt(<<h, i>>).outs - 1 = TxAt(<<h, i>>).outs - 1
          BY <3>3
        <4> QED
          BY <3>1, <3>2, <4>1 DEF Slots
      <3>5. k.vout - 0 = k.vout
        BY KeyTypes DEF OutPoint
      <3> HIDE DEF i
      <3> QED
        BY <2>1, <2>4, <3>1, <3>2, <3>4, <3>5
    <2> QED
      BY <2>3, <2>4
  <1> QED
    BY <1>1, <1>2, <1>3, <1>4

LEMMA UpdateIInv ==
  ASSUME IInv, S1!Inv', S2!Inv', NEW u \in Updaters, update_unspent_cache(u)
  PROVE  IInv'
  <1>0. PICK h : h = job1[u]
    OBVIOUS
  <1>1. /\ h \in Heights /\ done1' = done1 \cup {h} /\ ~Inserted(h)
        /\ UNCHANGED <<handed1, stage2, output_block, broken, opened, pc, cur, tx_outs>>
    BY <1>0, UpdateFacts
  <1>2. \A k : Inserted(k)' <=> Inserted(k) \/ k = h
    BY <1>0, UpdateFacts
  <1>3. store' = [k \in Keys |-> store'[k]]
    BY <1>0, UpdateFacts
  <1>4. \A k \in Keys :
          \/ /\ store'[k] = store[k]
             /\ \A p \in TxPos : TxAt(p).txid = k.txid /\ k.vout \in Slots(p) => p[1] # h
          \/ \E p \in TxPos : /\ p[1] = h /\ TxAt(p).txid = k.txid /\ k.vout \in Slots(p)
                              /\ store'[k] = encode_txout(<<p, k.vout>>)
    BY <1>0, UpdateFacts
  <1>5. \A p \in TxPos : \A n \in Slots(p) :
          encode_txout(<<p, n>>) \in Bytes /\ encode_txout(<<p, n>>) # NoOut
    <2>1. \A p \in TxPos : \A n \in Slots(p) : <<p, n>> \in UNION {{r} \X Slots(r) : r \in TxPos}
      OBVIOUS
    <2> QED
      BY <2>1, OnDiskAssumption DEF Bytes
  <1>6. store' \in [Keys -> Bytes \cup {NoOut}]
    <2>1. store \in [Keys -> Bytes \cup {NoOut}]
      BY Types
    <2>2. \A k \in Keys : store'[k] \in Bytes \cup {NoOut}
      BY <1>4, <1>5, <2>1
    <2> QED
      BY <1>3, <2>2
  <1>7. TypeOK' /\ LocalType'
    BY <1>1, <1>6 DEF IInv, TypeOK, IterType, LocalType, S1!Inv, S2!Inv, stage2, Bytes
  <1>8. Chained' /\ NoSpuriousErr'
    BY <1>1 DEF IInv, Chained, NoSpuriousErr, stage2
  <1>9. StoreLeads'
    <2> SUFFICES ASSUME NEW k \in Keys, store'[k] # NoOut
                 PROVE  store'[k] \in {encode_txout(o) : o \in
                                         {o \in Referents(k) : Inserted(o[1][1])'}}
      BY DEF StoreLeads, BytesOf
    <2>1. CASE store'[k] = store[k]
      <3>1. store'[k] \in BytesOf(k)
        BY <2>1 DEF IInv, StoreLeads
      <3> QED
        BY <1>2, <3>1, BytesOfGrow
    <2>2. ASSUME NEW p \in TxPos, p[1] = h, TxAt(p).txid = k.txid, k.vout \in Slots(p),
                 store'[k] = encode_txout(<<p, k.vout>>)
          PROVE  store'[k] \in {encode_txout(o) : o \in
                                  {o \in Referents(k) : Inserted(o[1][1])'}}
      <3>1. <<p, k.vout>> \in Referents(k)
        BY <2>2 DEF Referents
      <3>2. Inserted(<<p, k.vout>>[1][1])'
        BY <1>2, <2>2
      <3> QED
        BY <2>2, <3>1, <3>2
    <2> QED
      BY <1>4, <2>1, <2>2
  <1>10. DeletedByInput'
    <2>1. \A q \in InPos : Deleted(q) => Deleted(q)'
      BY <1>1 DEF Deleted, stage2
    <2> SUFFICES ASSUME NEW p \in TxPos, UniqueTxid(p), Inserted(p[1])', NEW n \in Slots(p),
                        store'[txout_key(TxAt(p).txid, n)] = NoOut
                 PROVE  \E q \in InPos : InAt(q) = txout_key(TxAt(p).txid, n) /\ Deleted(q)'
      BY DEF DeletedByInput
    <2> DEFINE k == txout_key(TxAt(p).txid, n)
    <2>2. k \in Keys /\ k.txid = TxAt(p).txid /\ k.vout = n
      BY KeyTypes DEF txout_key
    <2>3. store'[k] = store[k] /\ p[1] # h
      BY <1>4, <1>5, <2>2
    <2> QED
      BY <1>2, <2>1, <2>3 DEF IInv, DeletedByInput
  <1>11. \A w \in Connectors : Remembers(w)'
    BY <1>1, <1>2, KeepsRemembering DEF stage2
  <1> QED
    BY <1>7, <1>8, <1>9, <1>10, <1>11 DEF IInv

-----------------------------------------------------------------------------
(* A connector takes a block.                                              *)

LEMMA TakeBlockIInv ==
  ASSUME IInv, S1!Inv', S2!Inv', NEW v \in Connectors, take_block(v)
  PROVE  IInv'
  <1>1. /\ job2[v] = S2!Idle /\ job2' = [job2 EXCEPT ![v] = handed1] /\ fetched2' = fetched2 + 1
        /\ handed1 \in done1 /\ done1' = done1 \ {handed1} /\ handed1' = handed1 + 1
        /\ pc' = [pc EXCEPT ![v] = "get"] /\ cur' = [cur EXCEPT ![v] = 1]
        /\ tx_outs' = [tx_outs EXCEPT ![v] = <<>>]
        /\ UNCHANGED <<failed2, output_block, broken, opened, store>>
    BY DEF take_block, next_block, S1!next_some, S2!fetch, IInv, Chained
  <1>2. handed1 \in Heights /\ handed1 \in Nat
    BY <1>1, ChainTypes DEF IInv, Chained
  <1>3. \A h \in Heights : Inserted(h)' <=> Inserted(h)
    BY <1>1, <1>2, ChainTypes DEF Inserted
  <1>4. \A w \in Connectors : w # v =>
          job2'[w] = job2[w] /\ pc'[w] = pc[w] /\ cur'[w] = cur[w] /\ tx_outs'[w] = tx_outs[w]
    BY <1>1, Types
  <1>5. job2'[v] = handed1 /\ pc'[v] = "get" /\ cur'[v] = 1 /\ tx_outs'[v] = <<>>
    BY <1>1, Types
  <1>6. TypeOK'
    <2>1. \A w \in Connectors : job2'[w] \in Heights =>
            Len(tx_outs'[w]) = IF pc'[w] = "get" THEN cur'[w] - 1 ELSE Len(keys[job2'[w]])
      BY <1>4, <1>5 DEF IInv, TypeOK
    <2> QED
      BY <1>1, <2>1 DEF IInv, TypeOK, IterType, S1!Inv, S2!Inv
  <1>7. LocalType'
    <2>1. Len(keys[handed1]) \in Nat
      BY <1>2, KeyFacts
    <2>2. ASSUME NEW w \in Connectors, job2'[w] \in Heights
          PROVE  cur'[w] <= Len(keys[job2'[w]]) + 1
      <3>1. CASE w = v
        BY <1>5, <2>1, <3>1
      <3>2. CASE w # v
        BY <1>4, <2>2, <3>2 DEF IInv, LocalType
      <3> QED
        BY <3>1, <3>2
    <2>3. <<>> \in Seq(Bytes \cup {NoOut})
      OBVIOUS
    <2> QED
      BY <1>1, <2>2, <2>3, Types DEF LocalType
  <1>8. Chained'
    BY <1>1, <1>2, ChainAssumption DEF IInv, Chained, Heights
  <1>9. NoSpuriousErr'
    BY <1>1 DEF IInv, NoSpuriousErr
  <1>10. StoreLeads'
    BY <1>1, <1>3, KeepsLeading
  <1>11. DeletedByInput'
    <2>1. ASSUME NEW q \in InPos, Deleted(q) PROVE Deleted(q)'
      <3>1. q[1] \in Nat /\ q[1] < handed1
        BY <2>1, ChainTypes DEF Deleted, InPos
      <3> QED
        BY <1>1, <1>2, <1>4, <1>5, <2>1, <3>1 DEF Deleted
    <2> QED
      BY <1>1, <1>3, <2>1, PosFacts, KeepsDeleted
  <1>12. \A w \in Connectors : Remembers(w)'
    <2>1. Remembers(v)'
      BY <1>5 DEF Remembers
    <2> QED
      BY <1>1, <1>3, <1>4, <2>1, KeepsRemembering
  <1> QED
    BY <1>6, <1>7, <1>8, <1>9, <1>10, <1>11, <1>12 DEF IInv

-----------------------------------------------------------------------------
(* A connector reads, and deletes, the keys of its block.                  *)

\* The key of a valid input is there when it is read: no other input of the
\* chain has it.
LEMMA ValidFinds ==
  ASSUME IInv, NEW v \in Connectors, AtKey(v, "get"), ValidBlock(job2[v])
  PROVE  store[Key(v)] # NoOut
  <1>1. job2[v] \in Heights /\ job2[v] < handed1 /\ job2[v] # S2!Idle
    BY JobTaken, ChainTypes DEF AtKey, S2!Idle
  <1>2. PICK q \in InPos : /\ q[1] = job2[v] /\ KeysUpTo(q[1], q[2]) = cur[v]
                           /\ InAt(q) = Key(v) /\ InAt(q) # NullOutPoint /\ Key(v) \in Keys
    BY KeyInput DEF AtKey
  <1>3. q = <<job2[v], q[2]>> /\ q[2] \in DOMAIN Blocks[job2[v]].ins
    BY <1>2 DEF InPos
  <1>4. ValidSpend(q)
    BY <1>3 DEF ValidBlock
  <1>5. PICK p \in TxPos : /\ TxAt(p).txid = InAt(q).txid
                           /\ InAt(q).vout \in Slots(p)
                           /\ p[1] <= q[1]
                           /\ \A p2 \in TxPos : TxAt(p2).txid = InAt(q).txid => p2 = p
                           /\ \A q2 \in InPos : InAt(q2) = InAt(q) => q2 = q
    BY <1>2, <1>4 DEF ValidSpend
  <1>6. UniqueTxid(p) /\ Inserted(p[1])
    <2>1. p[1] \in Nat /\ handed1 \in Nat /\ job2[v] \in Nat
      BY <1>1, PosFacts, ChainTypes, Types
    <2> QED
      BY <1>1, <1>2, <1>5, <2>1 DEF UniqueTxid, Inserted
  <1>7. Key(v) = txout_key(TxAt(p).txid, InAt(q).vout)
    BY <1>2, <1>5, KeyTypes DEF txout_key, OutPoint
  <1>8. ~Deleted(q)
    BY <1>1, <1>2 DEF Deleted, AtKey
  <1> QED
    BY <1>2, <1>5, <1>6, <1>7, <1>8 DEF IInv, DeletedByInput

\* A connector advances in one phase, or starts the other one.
LEMMA ReadsIInv ==
  ASSUME IInv, S1!Inv', S2!Inv', NEW v \in Connectors, reads(v)
  PROVE  IInv'
  <1>1. /\ AtKey(v, "get")
        /\ UNCHANGED <<stage1, stage2, output_block, opened, store, pc>>
        /\ cur' = [cur EXCEPT ![v] = @ + 1]
        /\ broken \subseteq broken' /\ broken' \subseteq broken \cup {job2[v]}
    BY DEF reads, connect_get, connect_get_err, Advance, Breaks
  <1>2. \E y : /\ tx_outs' = [tx_outs EXCEPT ![v] = Append(@, y)]
               /\ y = store[Key(v)] \/ (y = NoOut /\ job2[v] \in broken')
    BY DEF reads, connect_get, connect_get_err, Breaks, AtKey
  <1>3. PICK y : /\ tx_outs' = [tx_outs EXCEPT ![v] = Append(@, y)]
                 /\ y = store[Key(v)] \/ (y = NoOut /\ job2[v] \in broken')
    BY <1>2
  <1>4. PICK h, c : h = job2[v] /\ c = cur[v]
    OBVIOUS
  <1>5. /\ h \in Heights /\ c \in Nat \ {0} /\ pc[v] = "get" /\ c <= Len(keys[h])
        /\ c \in DOMAIN keys[h] /\ Len(keys[h]) \in Nat /\ Key(v) = keys[h][c]
        /\ Len(tx_outs[v]) = c - 1 /\ Key(v) \in Keys
    BY <1>1, <1>4, KeyFacts, KeyInput, Types DEF AtKey, Key, IInv, TypeOK
  <1>6. y \in Bytes \cup {NoOut}
    BY <1>3, <1>5, Types
  <1>7. /\ tx_outs'[v] = Append(tx_outs[v], y)
        /\ tx_outs[v] \in Seq(Bytes \cup {NoOut})
        /\ cur'[v] = c + 1
        /\ \A w \in Connectors : w # v => tx_outs'[w] = tx_outs[w] /\ cur'[w] = cur[w]
    BY <1>1, <1>3, <1>4, Types
  <1>8. /\ tx_outs'[v] \in Seq(Bytes \cup {NoOut})
        /\ Len(tx_outs'[v]) = c
        /\ tx_outs'[v][c] = y
        /\ DOMAIN tx_outs'[v] = 1 .. c
        /\ \A i \in 1 .. c - 1 : tx_outs'[v][i] = tx_outs[v][i] /\ i \in DOMAIN tx_outs[v]
    BY <1>5, <1>6, <1>7
  <1>9. TypeOK'
    <2>1. \A w \in Connectors : job2'[w] \in Heights =>
            Len(tx_outs'[w]) = IF pc'[w] = "get" THEN cur'[w] - 1 ELSE Len(keys[job2'[w]])
      BY <1>1, <1>5, <1>7, <1>8 DEF IInv, TypeOK, stage2
    <2>2. broken' \subseteq Heights
      BY <1>1, <1>4, <1>5 DEF IInv, TypeOK, IterType
    <2> QED
      BY <1>1, <2>1, <2>2 DEF IInv, TypeOK, IterType, S1!Inv, S2!Inv
  <1>10. LocalType'
    <2>1. cur' \in [Connectors -> Nat \ {0}]
      BY <1>1, Types
    <2>2. tx_outs' \in [Connectors -> Seq(Bytes \cup {NoOut})]
      BY <1>3, <1>7, <1>8, Types
    <2>3. \A w \in Connectors : job2'[w] \in Heights => cur'[w] <= Len(keys[job2'[w]]) + 1
      BY <1>1, <1>4, <1>5, <1>7 DEF IInv, LocalType, stage2
    <2> QED
      BY <1>1, <2>1, <2>2, <2>3, Types DEF LocalType
  <1>11. Chained' /\ NoSpuriousErr'
    BY <1>1 DEF IInv, Chained, NoSpuriousErr, stage1, stage2
  <1>12. \A k : Inserted(k)' <=> Inserted(k)
    BY <1>1 DEF Inserted, stage1
  <1>13. StoreLeads'
    BY <1>1, <1>12, KeepsLeading
  <1>14. DeletedByInput'
    <2>1. ASSUME NEW q \in InPos, Deleted(q) PROVE Deleted(q)'
      BY <1>1, <1>5, <1>7, <2>1 DEF Deleted, stage1, stage2
    <2> QED
      BY <1>1, <1>12, <2>1, KeepsDeleted
  <1>15. Remembers(v)'
    <2> SUFFICES ASSUME NEW i \in 1 .. c
                 PROVE  IF tx_outs'[v][i] = NoOut THEN ~ValidBlock(h) \/ h \in broken'
                        ELSE tx_outs'[v][i] \in BytesOf(keys[h][i])'
      BY <1>1, <1>4, <1>8 DEF Remembers, stage2
    <2>1. BytesOf(keys[h][i])' = BytesOf(keys[h][i])
      BY <1>12 DEF BytesOf
    <2>2. CASE i \in 1 .. c - 1
      BY <1>1, <1>4, <1>5, <1>8, <2>1, <2>2 DEF IInv, Remembers
    <2>3. CASE i = c
      <3>1. ValidBlock(h) => store[Key(v)] # NoOut
        BY <1>1, <1>4, ValidFinds
      <3>2. store[Key(v)] # NoOut => store[Key(v)] \in BytesOf(keys[h][i])
        BY <1>5, <2>3 DEF IInv, StoreLeads
      <3> QED
        BY <1>3, <1>4, <1>8, <2>1, <2>3, <3>1, <3>2
    <2> QED
      BY <1>5, <2>2, <2>3
  <1>16. \A w \in Connectors : Remembers(w)'
    BY <1>1, <1>7, <1>12, <1>15, KeepsRemembering DEF stage2
  <1> QED
    BY <1>9, <1>10, <1>11, <1>13, <1>14, <1>16 DEF IInv

LEMMA GotIInv ==
  ASSUME IInv, S1!Inv', S2!Inv', NEW v \in Connectors, connect_got(v)
  PROVE  IInv'
  <1>1. /\ PastKeys(v, "get")
        /\ pc' = [pc EXCEPT ![v] = "delete"] /\ cur' = [cur EXCEPT ![v] = 1]
        /\ UNCHANGED <<stage1, stage2, output_block, broken, opened, store, tx_outs>>
    BY DEF connect_got
  <1>2. PICK h : h = job2[v]
    OBVIOUS
  <1>3. /\ h \in Heights /\ pc[v] = "get" /\ Len(keys[h]) \in Nat
        /\ Len(tx_outs[v]) = Len(keys[h])
    <2>1. h \in Heights /\ pc[v] = "get" /\ cur[v] > Len(keys[h])
      BY <1>1, <1>2 DEF PastKeys
    <2>2. cur[v] <= Len(keys[h]) + 1 /\ Len(tx_outs[v]) = cur[v] - 1
      BY <1>2, <2>1 DEF IInv, LocalType, TypeOK
    <2>3. Len(keys[h]) \in Nat /\ cur[v] \in Nat
      BY <2>1, KeyFacts, Types
    <2> HIDE DEF keys
    <2> QED
      BY <2>1, <2>2, <2>3
  <1>4. /\ pc'[v] = "delete" /\ cur'[v] = 1
        /\ \A w \in Connectors : w # v => pc'[w] = pc[w] /\ cur'[w] = cur[w]
    BY <1>1, Types
  <1>5. TypeOK'
    <2>1. \A w \in Connectors : job2'[w] \in Heights =>
            Len(tx_outs'[w]) = IF pc'[w] = "get" THEN cur'[w] - 1 ELSE Len(keys[job2'[w]])
      BY <1>1, <1>2, <1>3, <1>4 DEF IInv, TypeOK, stage2
    <2> QED
      BY <1>1, <2>1 DEF IInv, TypeOK, IterType, S1!Inv, S2!Inv
  <1>6. LocalType'
    <2>1. ASSUME NEW w \in Connectors, job2'[w] \in Heights
          PROVE  cur'[w] <= Len(keys[job2'[w]]) + 1
      <3>1. CASE w = v
        BY <1>1, <1>2, <1>3, <1>4, <3>1 DEF stage2
      <3>2. CASE w # v
        BY <1>1, <1>4, <2>1, <3>2 DEF IInv, LocalType, stage2
      <3> QED
        BY <3>1, <3>2
    <2> QED
      BY <1>1, <2>1, Types DEF LocalType
  <1>7. Chained' /\ NoSpuriousErr'
    BY <1>1 DEF IInv, Chained, NoSpuriousErr, stage1, stage2
  <1>8. \A k : Inserted(k)' <=> Inserted(k)
    BY <1>1 DEF Inserted, stage1
  <1>9. StoreLeads'
    BY <1>1, <1>8, KeepsLeading
  <1>10. DeletedByInput'
    <2>1. ASSUME NEW q \in InPos, Deleted(q) PROVE Deleted(q)'
      BY <1>1, <1>3, <1>4, <2>1 DEF Deleted, stage1, stage2
    <2> QED
      BY <1>1, <1>8, <2>1, KeepsDeleted
  <1>11. \A w \in Connectors : Remembers(w)'
    BY <1>1, <1>8, KeepsRemembering DEF stage2
  <1> QED
    BY <1>5, <1>6, <1>7, <1>9, <1>10, <1>11 DEF IInv

\* What connect_delete does; the input whose key it is has now deleted it.
LEMMA DeleteFacts ==
  ASSUME IInv, NEW v \in Connectors, connect_delete(v)
  PROVE  /\ UNCHANGED <<stage1, stage2, output_block, broken, opened, pc, tx_outs>>
         /\ job2[v] \in Heights /\ job2[v] < handed1 /\ pc[v] = "delete"
         /\ cur'[v] = cur[v] + 1 /\ cur[v] \in Nat \ {0} /\ cur[v] <= Len(keys[job2[v]])
         /\ cur' \in [Connectors -> Nat \ {0}]
         /\ \A w \in Connectors : w # v => cur'[w] = cur[w]
         /\ store' \in [Keys -> Bytes \cup {NoOut}]
         /\ Key(v) \in Keys /\ store'[Key(v)] = NoOut
         /\ \A k \in Keys : k # Key(v) => store'[k] = store[k]
         /\ \A k : Inserted(k)' <=> Inserted(k)
         /\ \A q \in InPos : Deleted(q) => Deleted(q)'
         /\ \E q \in InPos : q[1] = job2[v] /\ InAt(q) = Key(v) /\ Deleted(q)'
  <1>1. /\ UNCHANGED <<stage1, stage2, output_block, broken, opened, pc, tx_outs>>
        /\ job2[v] \in Heights /\ pc[v] = "delete" /\ cur[v] \in DOMAIN keys[job2[v]]
        /\ cur' = [cur EXCEPT ![v] = @ + 1]
        /\ store' = [store EXCEPT ![Key(v)] = NoOut]
    BY DEF connect_delete, AtKey, Advance
  <1>2. PICK q \in InPos : /\ q[1] = job2[v] /\ KeysUpTo(q[1], q[2]) = cur[v]
                           /\ InAt(q) = Key(v) /\ InAt(q) # NullOutPoint /\ Key(v) \in Keys
    BY <1>1, KeyInput
  <1>3. /\ cur'[v] = cur[v] + 1 /\ cur[v] \in Nat \ {0}
        /\ cur' \in [Connectors -> Nat \ {0}]
        /\ \A w \in Connectors : w # v => cur'[w] = cur[w]
    BY <1>1, Types
  <1>4. cur[v] <= Len(keys[job2[v]])
    BY <1>1, KeyFacts
  <1>5. /\ store' \in [Keys -> Bytes \cup {NoOut}]
        /\ store'[Key(v)] = NoOut
        /\ \A k \in Keys : k # Key(v) => store'[k] = store[k]
    BY <1>1, <1>2, Types
  <1>6. \A k : Inserted(k)' <=> Inserted(k)
    BY <1>1 DEF Inserted, stage1
  <1>7. job2[v] < handed1 /\ \A w \in Connectors : job2[w] = job2[v] => w = v
    BY <1>1, JobTaken, ChainTypes DEF S2!Idle
  <1>8. ASSUME NEW r \in InPos, Deleted(r) PROVE Deleted(r)'
    <2>1. KeysUpTo(r[1], r[2]) \in Int
      <3>1. r[1] \in Heights /\ r[2] \in Int
        BY ChainTypes DEF InPos
      <3>2. IsFiniteSet(1 .. r[2])
        BY <3>1, FS_Interval
      <3>3. IsFiniteSet({d \in 1 .. r[2] : Blocks[r[1]].ins[d] # NullOutPoint})
        BY <3>2, FS_Subset
      <3> QED
        BY <3>3, FS_CardinalityType DEF KeysUpTo
    <2>2. PICK n \in Int : n = KeysUpTo(r[1], r[2])
      BY <2>1
    <2> QED
      BY <1>1, <1>3, <1>8, <2>2 DEF Deleted, stage1, stage2
  <1>9. Deleted(q)'
    BY <1>1, <1>2, <1>3, <1>7 DEF Deleted, stage1, stage2
  <1> QED
    BY <1>1, <1>2, <1>3, <1>4, <1>5, <1>6, <1>7, <1>8, <1>9

LEMMA DeleteIInv ==
  ASSUME IInv, S1!Inv', S2!Inv', NEW v \in Connectors, connect_delete(v)
  PROVE  IInv'
  <1>1. PICK h, key : h = job2[v] /\ key = Key(v)
    OBVIOUS
  <1>2. /\ UNCHANGED <<stage1, stage2, output_block, broken, opened, pc, tx_outs>>
        /\ h \in Heights /\ pc[v] = "delete"
        /\ cur'[v] = cur[v] + 1 /\ cur[v] \in Nat \ {0} /\ cur[v] <= Len(keys[h])
        /\ cur' \in [Connectors -> Nat \ {0}]
        /\ \A w \in Connectors : w # v => cur'[w] = cur[w]
    BY <1>1, DeleteFacts
  <1>3. /\ store' \in [Keys -> Bytes \cup {NoOut}]
        /\ store'[key] = NoOut
        /\ \A k \in Keys : k # key => store'[k] = store[k]
    BY <1>1, DeleteFacts
  <1>4. \A k : Inserted(k)' <=> Inserted(k)
    BY DeleteFacts
  <1>5. TypeOK'
    <2>1. \A w \in Connectors : job2'[w] \in Heights =>
            Len(tx_outs'[w]) = IF pc'[w] = "get" THEN cur'[w] - 1 ELSE Len(keys[job2'[w]])
      BY <1>1, <1>2 DEF IInv, TypeOK, stage2
    <2> QED
      BY <1>2, <1>3, <2>1 DEF IInv, TypeOK, IterType, S1!Inv, S2!Inv, Bytes
  <1>6. LocalType'
    <2>1. Len(keys[h]) \in Nat
      BY <1>2, KeyFacts
    <2>2. ASSUME NEW w \in Connectors, job2'[w] \in Heights
          PROVE  cur'[w] <= Len(keys[job2'[w]]) + 1
      <3>1. CASE w = v
        BY <1>1, <1>2, <2>1, <3>1 DEF stage2
      <3>2. CASE w # v
        BY <1>2, <2>2, <3>2 DEF IInv, LocalType, stage2
      <3> QED
        BY <3>1, <3>2
    <2> QED
      BY <1>2, <2>2, Types DEF LocalType
  <1>7. Chained' /\ NoSpuriousErr'
    BY <1>2 DEF IInv, Chained, NoSpuriousErr, stage1, stage2
  <1>8. StoreLeads'
    BY <1>3, <1>4, KeepsLeading
  <1>9. DeletedByInput'
    <2> SUFFICES ASSUME NEW p \in TxPos, UniqueTxid(p), Inserted(p[1]), NEW n \in Slots(p),
                        store'[txout_key(TxAt(p).txid, n)] = NoOut
                 PROVE  \E q \in InPos : InAt(q) = txout_key(TxAt(p).txid, n) /\ Deleted(q)'
      BY <1>4 DEF DeletedByInput
    <2>1. CASE txout_key(TxAt(p).txid, n) = key
      BY <1>1, <2>1, DeleteFacts
    <2>2. CASE txout_key(TxAt(p).txid, n) # key
      <3>1. store[txout_key(TxAt(p).txid, n)] = NoOut
        BY <1>3, <2>2, KeyTypes
      <3> QED
        BY <3>1, DeleteFacts DEF IInv, DeletedByInput
    <2> QED
      BY <2>1, <2>2
  <1>10. \A w \in Connectors : Remembers(w)'
    BY <1>2, <1>4, KeepsRemembering DEF stage2
  <1> QED
    BY <1>5, <1>6, <1>7, <1>8, <1>9, <1>10 DEF IInv

-----------------------------------------------------------------------------
(* A connector is done with its block.                                     *)

\* The block that connect_outpoints returns is rightly connected: tx_outs
\* has an output for every input that is not of a coinbase, at its pos.
LEMMA ReturnConnects ==
  ASSUME IInv, NEW v \in Connectors, connect_return(v), NEW h, h = job2[v]
  PROVE  /\ h \in Heights
         /\ output_block' = [output_block EXCEPT ![h] = output_block'[h]]
         /\ output_block'[h] \in [DOMAIN Blocks[h].ins -> (TxPos \X Nat) \cup {NoOut}]
         /\ \A c \in DOMAIN Blocks[h].ins :
              IF Blocks[h].ins[c] = NullOutPoint THEN output_block'[h][c] = NoOut
              ELSE output_block'[h][c] \in Referents(Blocks[h].ins[c])
  <1> DEFINE connected == [c \in DOMAIN Blocks[h].ins |->
                             IF Blocks[h].ins[c] = NullOutPoint THEN NoOut
                             ELSE consensus_decode(tx_outs[v][pos(h, c)])]
  <1>1. /\ h \in Heights /\ pc[v] = "delete"
        /\ \A i \in DOMAIN tx_outs[v] : tx_outs[v][i] # NoOut
        /\ output_block' = [output_block EXCEPT ![h] = connected]
    BY DEF connect_return, PastKeys
  <1>2. output_block'[h] = connected
    BY <1>1 DEF IInv, TypeOK, IterType
  <1>3. ASSUME NEW c \in DOMAIN Blocks[h].ins, Blocks[h].ins[c] # NullOutPoint
        PROVE  connected[c] \in Referents(Blocks[h].ins[c])
    <2> DEFINE i == KeysUpTo(h, c)
    <2>1. i \in DOMAIN keys[h] /\ keys[h][i] = Blocks[h].ins[c]
      BY <1>1, <1>3, KeyFacts
    <2>2. i \in DOMAIN tx_outs[v]
      <3>1. Len(tx_outs[v]) = Len(keys[h]) /\ tx_outs[v] \in Seq(Bytes \cup {NoOut})
        BY <1>1, Types DEF IInv, TypeOK
      <3>2. DOMAIN tx_outs[v] = 1 .. Len(tx_outs[v])
        BY <3>1
      <3> QED
        BY <1>1, <2>1, <3>1, <3>2, KeyFacts
    <2>3. tx_outs[v][i] \in BytesOf(Blocks[h].ins[c])
      BY <1>1, <2>1, <2>2 DEF IInv, Remembers
    <2>4. PICK o \in Referents(Blocks[h].ins[c]) : tx_outs[v][i] = encode_txout(o)
      BY <2>3 DEF BytesOf
    <2>5. connected[c] = o
      BY <1>3, <2>4 DEF pos, consensus_decode, encode_txout
    <2> QED
      BY <2>5
  <1>4. ASSUME NEW c \in DOMAIN Blocks[h].ins, Blocks[h].ins[c] # NullOutPoint
        PROVE  Referents(Blocks[h].ins[c]) \subseteq TxPos \X Nat
    <2>1. Blocks[h].ins[c].vout \in Nat
      BY <1>1, <1>4, ChainTypes DEF OutPoint
    <2> QED
      BY <2>1 DEF Referents
  <1>5. connected \in [DOMAIN Blocks[h].ins -> (TxPos \X Nat) \cup {NoOut}]
    BY <1>3, <1>4
  <1>6. \A c \in DOMAIN Blocks[h].ins : Blocks[h].ins[c] = NullOutPoint => connected[c] = NoOut
    OBVIOUS
  <1> HIDE DEF connected
  <1> QED
    BY <1>1, <1>2, <1>3, <1>5, <1>6

\* What all returns of connect_outpoints have in common.
LEMMA ReturnFacts ==
  ASSUME IInv, NEW v \in Connectors, returns(v)
  PROVE  /\ job2[v] \in Heights
         /\ job2' = [job2 EXCEPT ![v] = S2!Idle]
         /\ UNCHANGED <<stage1, fetched2, handed2, status2, opened, store, pc, cur, tx_outs>>
         /\ broken \subseteq broken' /\ broken' \subseteq broken \cup {job2[v]}
         /\ \A h \in Heights : h # job2[v] => output_block'[h] = output_block[h]
         /\ DOMAIN output_block' = Heights
         /\ \A k : Inserted(k)' <=> Inserted(k)
         /\ \A q \in InPos : Deleted(q) => Deleted(q)'
         /\ \A w \in Connectors : job2'[w] = IF w = v THEN S2!Idle ELSE job2[w]
  <1>1. /\ job2[v] \in Heights
        /\ job2' = [job2 EXCEPT ![v] = S2!Idle]
        /\ UNCHANGED <<stage1, fetched2, handed2, status2, opened, store, pc, cur, tx_outs>>
        /\ broken \subseteq broken' /\ broken' \subseteq broken \cup {job2[v]}
    BY DEF returns, connect_delete_err, connect_return, connect_missing, AtKey, PastKeys, Breaks,
       S2!return_ok, S2!return_err, local
  <1>2. UNCHANGED output_block \/ \E b : output_block' = [output_block EXCEPT ![job2[v]] = b]
    BY DEF returns, connect_delete_err, connect_return, connect_missing
  <1>3. /\ \A h \in Heights : h # job2[v] => output_block'[h] = output_block[h]
        /\ DOMAIN output_block' = Heights
    BY <1>2 DEF IInv, TypeOK, IterType
  <1>4. \A k : Inserted(k)' <=> Inserted(k)
    BY <1>1 DEF Inserted, stage1
  <1>5. \A w \in Connectors : job2'[w] = IF w = v THEN S2!Idle ELSE job2[w]
    BY <1>1, Types
  <1>6. ASSUME NEW q \in InPos, Deleted(q) PROVE Deleted(q)'
    <2>1. q[1] # S2!Idle
      BY ChainTypes DEF InPos, S2!Idle
    <2> QED
      BY <1>1, <1>5, <1>6, <2>1 DEF Deleted, stage1
  <1> QED
    BY <1>1, <1>3, <1>4, <1>5, <1>6

LEMMA ReturnsIInv ==
  ASSUME IInv, S1!Inv', S2!Inv', NEW v \in Connectors, returns(v)
  PROVE  IInv'
  <1>0. PICK h : h = job2[v]
    OBVIOUS
  <1>1. /\ h \in Heights
        /\ UNCHANGED <<stage1, fetched2, opened, store, pc, cur, tx_outs>>
        /\ broken \subseteq broken' /\ broken' \subseteq broken \cup {h}
        /\ \A g \in Heights : g # h => output_block'[g] = output_block[g]
        /\ DOMAIN output_block' = Heights
        /\ \A k : Inserted(k)' <=> Inserted(k)
        /\ \A w \in Connectors : job2'[w] = IF w = v THEN S2!Idle ELSE job2[w]
    BY <1>0, ReturnFacts
  <1>2. S2!Idle \notin Heights
    BY ChainTypes DEF S2!Idle
  <1>3. output_block'[h] \in [DOMAIN Blocks[h].ins -> (TxPos \X Nat) \cup {NoOut}]
    <2>1. CASE connect_return(v)
      BY <1>0, <2>1, ReturnConnects
    <2>2. CASE UNCHANGED output_block
      BY <1>1, <2>2 DEF IInv, TypeOK, IterType
    <2> QED
      BY <2>1, <2>2 DEF returns, connect_delete_err, connect_missing
  <1>4. TypeOK'
    <2>1. \A w \in Connectors : job2'[w] \in Heights =>
            Len(tx_outs'[w]) = IF pc'[w] = "get" THEN cur'[w] - 1 ELSE Len(keys[job2'[w]])
      BY <1>1, <1>2 DEF IInv, TypeOK
    <2>2. \A g \in Heights :
            output_block'[g] \in [DOMAIN Blocks[g].ins -> (TxPos \X Nat) \cup {NoOut}]
      BY <1>1, <1>3 DEF IInv, TypeOK, IterType
    <2>3. broken' \subseteq Heights
      BY <1>1 DEF IInv, TypeOK, IterType
    <2> QED
      BY <1>1, <2>1, <2>2, <2>3 DEF IInv, TypeOK, IterType, S1!Inv, S2!Inv
  <1>5. LocalType'
    BY <1>1, <1>2 DEF IInv, LocalType
  <1>6. Chained'
    BY <1>1 DEF IInv, Chained, stage1
  <1>7. NoSpuriousErr'
    <2>1. CASE connect_return(v)
      BY <1>1, <2>1 DEF connect_return, S2!return_ok, IInv, NoSpuriousErr
    <2>2. CASE connect_delete_err(v)
      BY <1>0, <1>1, <2>2
      DEF connect_delete_err, Breaks, S2!return_err, IInv, NoSpuriousErr
    <2>3. CASE connect_missing(v)
      <3>1. ~ValidBlock(h) \/ h \in broken
        BY <1>0, <1>1, <2>3 DEF connect_missing, IInv, Remembers
      <3> QED
        BY <1>0, <1>1, <2>3, <3>1 DEF connect_missing, S2!return_err, IInv, NoSpuriousErr
    <2> QED
      BY <2>1, <2>2, <2>3 DEF returns
  <1>8. StoreLeads'
    BY <1>1, KeepsLeading
  <1>9. DeletedByInput'
    BY <1>1, ReturnFacts, KeepsDeleted
  <1>10. \A w \in Connectors : Remembers(w)'
    <2>1. Remembers(v)'
      BY <1>1, <1>2 DEF Remembers
    <2> QED
      BY <1>1, <2>1, KeepsRemembering
  <1> QED
    BY <1>4, <1>5, <1>6, <1>7, <1>8, <1>9, <1>10 DEF IInv

-----------------------------------------------------------------------------
\* Every step keeps the invariant.
LEMMA StepIInv ==
  ASSUME IInv, [Next]_vars
  PROVE  IInv'
  <1>1. S1!Inv' /\ S2!Inv'
    BY Stage1Inv, Stage2Inv DEF IInv
  <1> QED
    BY <1>1, StepCases, QuietIInv, UpdateIInv, TakeBlockIInv, ReadsIInv, GotIInv, DeleteIInv,
       ReturnsIInv

\* The invariant holds in every reachable state.
LEMMA Inductive == Spec => []IInv
  <1>1. IInv /\ [Next]_vars => IInv'
    BY StepIInv
  <1> QED
    BY <1>1, InitIInv, PTL DEF Spec

(***************************************************************************)
(* The types of the on-disk iterator: what a connector has read is never   *)
(* longer than its list of keys and is complete before the first deletion, *)
(* so `tx_outs.get(pos).unwrap()` finds every position it asks for.        *)
(***************************************************************************)
THEOREM TypeCorrect == Spec => []TypeOK
  <1>1. IInv => TypeOK
    BY DEF IInv
  <1> QED
    BY <1>1, Inductive, PTL

(***************************************************************************)
(* connect_outpoints returns Err for no valid block unless the store       *)
(* failed for that very block: neither the deletions of other blocks nor a *)
(* deletion that failed half way take an output away from it.              *)
(***************************************************************************)
THEOREM ValidBlocksConnect == Spec => []NoSpuriousErr
  <1>1. IInv => NoSpuriousErr
    BY DEF IInv
  <1> QED
    BY <1>1, Inductive, PTL

-----------------------------------------------------------------------------
(* The store is the UTXO set.  That a missing key was deleted for an input *)
(* is in IInv; the converse needs the blocks that found all their keys.    *)

\* No key of block h was missing so far.
FoundAll(h) ==
  /\ h \notin failed2
  /\ \A v \in Connectors : job2[v] = h => \A i \in DOMAIN tx_outs[v] : tx_outs[v][i] # NoOut

\* Input q has taken the output that its key led to.
Spent(q) == Deleted(q) /\ FoundAll(q[1]) /\ InAt(q) # NullOutPoint

\* What was taken had been inserted and does not come back.
SpentIsGone ==
  \A q \in InPos : Spent(q) =>
    \A p \in TxPos : UniqueTxid(p) /\ TxAt(p).txid = InAt(q).txid /\ InAt(q).vout \in Slots(p) =>
      Inserted(p[1]) /\ store[InAt(q)] = NoOut

\* A step by which nothing is taken and nothing is written.
LEMMA KeepsGone ==
  ASSUME SpentIsGone, \A h \in Heights : Inserted(h) => Inserted(h)',
         \A k \in Keys : store'[k] \in {store[k], NoOut}, \A q \in InPos : Spent(q)' => Spent(q)
  PROVE  SpentIsGone'
  <1> SUFFICES ASSUME NEW q \in InPos, Spent(q)', NEW p \in TxPos, UniqueTxid(p),
                      TxAt(p).txid = InAt(q).txid, InAt(q).vout \in Slots(p)
               PROVE  Inserted(p[1])' /\ store'[InAt(q)] = NoOut
    BY DEF SpentIsGone
  <1>1. Spent(q) /\ InAt(q) # NullOutPoint
    BY DEF Spent
  <1>2. Inserted(p[1]) /\ store[InAt(q)] = NoOut /\ InAt(q) \in Keys /\ p[1] \in Heights
    BY <1>1, KeyTypes, PosFacts DEF SpentIsGone
  <1> QED
    BY <1>2

\* The place of an input among the keys of its block.
LEMMA InputFacts ==
  ASSUME NEW q \in InPos, InAt(q) # NullOutPoint
  PROVE  /\ q[1] \in Heights
         /\ KeysUpTo(q[1], q[2]) \in Nat \ {0}
         /\ KeysUpTo(q[1], q[2]) <= Len(keys[q[1]])
         /\ Len(keys[q[1]]) \in Nat
         /\ keys[q[1]][KeysUpTo(q[1], q[2])] = InAt(q)
  <1>1. q[1] \in Heights /\ q[2] \in DOMAIN Blocks[q[1]].ins
    BY DEF InPos
  <1>2. /\ Len(keys[q[1]]) \in Nat /\ KeysUpTo(q[1], q[2]) \in 1 .. Len(keys[q[1]])
        /\ keys[q[1]][KeysUpTo(q[1], q[2])] = InAt(q)
    BY <1>1, KeyFacts DEF InAt
  <1> QED
    BY <1>1, <1>2

LEMMA QuietGone ==
  ASSUME IInv, SpentIsGone, Quiet
  PROVE  SpentIsGone'
  <1>1. UNCHANGED <<handed1, done1, job2, failed2, store, pc, cur, tx_outs>>
    BY QuietLeaves
  <1>2. \A q \in InPos : Spent(q)' => Spent(q)
    BY <1>1 DEF Spent, Deleted, FoundAll
  <1> QED
    BY <1>1, <1>2, KeepsGone DEF Inserted

LEMMA UpdateGone ==
  ASSUME IInv, SpentIsGone, NEW u \in Updaters, update_unspent_cache(u)
  PROVE  SpentIsGone'
  <1>0. PICK h : h = job1[u]
    OBVIOUS
  <1>1. /\ ~Inserted(h) /\ UNCHANGED <<handed1, stage2, pc, cur, tx_outs>>
        /\ \A k : Inserted(k)' <=> Inserted(k) \/ k = h
    BY <1>0, UpdateFacts
  <1> SUFFICES ASSUME NEW q \in InPos, Spent(q)', NEW p \in TxPos, UniqueTxid(p),
                      TxAt(p).txid = InAt(q).txid, InAt(q).vout \in Slots(p)
               PROVE  Inserted(p[1])' /\ store'[InAt(q)] = NoOut
    BY DEF SpentIsGone
  <1>2. Spent(q) /\ InAt(q) # NullOutPoint
    BY <1>1 DEF Spent, Deleted, FoundAll, stage2
  <1>3. Inserted(p[1]) /\ store[InAt(q)] = NoOut /\ InAt(q) \in Keys
    BY <1>2, KeyTypes DEF SpentIsGone
  <1>4. ASSUME NEW p2 \in TxPos, TxAt(p2).txid = InAt(q).txid PROVE p2[1] # h
    BY <1>1, <1>3, <1>4 DEF UniqueTxid
  <1>5. store'[InAt(q)] = store[InAt(q)]
    <2>1. \A k \in Keys :
            \/ /\ store'[k] = store[k]
               /\ \A p2 \in TxPos :
                    TxAt(p2).txid = k.txid /\ k.vout \in Slots(p2) => p2[1] # h
            \/ \E p2 \in TxPos : /\ p2[1] = h /\ TxAt(p2).txid = k.txid
                                  /\ k.vout \in Slots(p2)
                                  /\ store'[k] = encode_txout(<<p2, k.vout>>)
      BY <1>0, UpdateFacts
    <2> QED
      BY <1>3, <1>4, <2>1
  <1> QED
    BY <1>1, <1>3, <1>5

LEMMA TakeBlockGone ==
  ASSUME IInv, SpentIsGone, NEW v \in Connectors, take_block(v)
  PROVE  SpentIsGone'
  <1>1. /\ job2[v] = S2!Idle /\ job2' = [job2 EXCEPT ![v] = handed1]
        /\ handed1 \in done1 /\ done1' = done1 \ {handed1} /\ handed1' = handed1 + 1
        /\ pc' = [pc EXCEPT ![v] = "get"] /\ cur' = [cur EXCEPT ![v] = 1]
        /\ tx_outs' = [tx_outs EXCEPT ![v] = <<>>]
        /\ UNCHANGED <<failed2, store>>
    BY DEF take_block, next_block, S1!next_some, S2!fetch, IInv, Chained
  <1>2. \A h \in Heights : Inserted(h) => Inserted(h)'
    BY <1>1, ChainTypes, Types DEF Inserted
  <1>3. /\ \A w \in Connectors : w # v =>
             job2'[w] = job2[w] /\ pc'[w] = pc[w] /\ cur'[w] = cur[w] /\ tx_outs'[w] = tx_outs[w]
        /\ job2'[v] = handed1 /\ pc'[v] = "get"
    BY <1>1, Types
  <1>4. ASSUME NEW q \in InPos, Spent(q)' PROVE Spent(q)
    <2>1. q[1] \in Nat /\ handed1 \in Nat
      BY ChainTypes, Types DEF InPos
    <2>2. q[1] # handed1
      BY <1>3, <1>4 DEF Spent, Deleted
    <2>3. q[1] < handed1
      BY <1>1, <1>4, <2>1, <2>2 DEF Spent, Deleted
    <2>4. q[1] # job2[v]
      BY <1>1, <2>1 DEF S2!Idle
    <2>5. Deleted(q)
      BY <1>3, <1>4, <2>3, <2>4 DEF Spent, Deleted
    <2>6. FoundAll(q[1])
      BY <1>1, <1>3, <1>4, <2>4 DEF Spent, FoundAll
    <2> QED
      BY <1>4, <2>5, <2>6 DEF Spent
  <1> QED
    BY <1>1, <1>2, <1>4, KeepsGone

LEMMA ReadsGone ==
  ASSUME IInv, SpentIsGone, NEW v \in Connectors, reads(v) \/ connect_got(v)
  PROVE  SpentIsGone'
  <1>1. /\ job2[v] \in Heights /\ pc[v] = "get"
        /\ UNCHANGED <<stage1, stage2, store>>
        /\ pc'[v] = "get" \/ (pc'[v] = "delete" /\ cur'[v] = 1)
        /\ \A w \in Connectors : w # v =>
             pc'[w] = pc[w] /\ cur'[w] = cur[w] /\ tx_outs'[w] = tx_outs[w]
    <2>1. CASE reads(v)
      BY <2>1, Types DEF reads, connect_get, connect_get_err, AtKey, Advance
    <2>2. CASE connect_got(v)
      BY <2>2, Types DEF connect_got, PastKeys
    <2> QED
      BY <2>1, <2>2
  <1>2. ASSUME NEW q \in InPos, Spent(q)' PROVE Spent(q)
    <2>1. KeysUpTo(q[1], q[2]) \in Nat \ {0}
      BY <1>2, InputFacts DEF Spent
    <2>2. PICK n \in Nat \ {0} : n = KeysUpTo(q[1], q[2])
      BY <2>1
    <2>3. q[1] # job2[v]
      BY <1>1, <1>2, <2>2 DEF Spent, Deleted, stage2
    <2> QED
      BY <1>1, <1>2, <2>3 DEF Spent, Deleted, FoundAll, stage1, stage2
  <1> QED
    BY <1>1, <1>2, KeepsGone DEF Inserted, stage1

LEMMA DeleteGone ==
  ASSUME IInv, SpentIsGone, NEW v \in Connectors, connect_delete(v)
  PROVE  SpentIsGone'
  <1>1. PICK h, key, c : h = job2[v] /\ key = Key(v) /\ c = cur[v]
    OBVIOUS
  <1>2. /\ UNCHANGED <<stage1, stage2, pc, tx_outs>>
        /\ h \in Heights /\ h < handed1 /\ pc[v] = "delete"
        /\ cur'[v] = c + 1 /\ c \in Nat \ {0} /\ c <= Len(keys[h])
        /\ \A w \in Connectors : w # v => cur'[w] = cur[w]
        /\ store'[key] = NoOut
        /\ \A k \in Keys : k # key => store'[k] = store[k]
        /\ \A k : Inserted(k)' <=> Inserted(k)
    BY <1>1, DeleteFacts
  <1> SUFFICES ASSUME NEW q \in InPos, Spent(q)', NEW p \in TxPos, UniqueTxid(p),
                      TxAt(p).txid = InAt(q).txid, InAt(q).vout \in Slots(p)
               PROVE  Inserted(p[1])' /\ store'[InAt(q)] = NoOut
    BY DEF SpentIsGone
  <1>3. PICK n : n = KeysUpTo(q[1], q[2])
    OBVIOUS
  <1>4. /\ InAt(q) # NullOutPoint /\ n \in Nat \ {0} /\ n <= Len(keys[q[1]])
        /\ keys[q[1]][n] = InAt(q) /\ InAt(q) \in Keys
    BY <1>3, InputFacts, KeyTypes DEF Spent
  <1>5. FoundAll(q[1])
    BY <1>2 DEF Spent, FoundAll, stage2
  <1>6. CASE q[1] = h /\ n = c
    <2>1. InAt(q) = key
      BY <1>1, <1>4, <1>6 DEF Key
    <2>2. c \in DOMAIN tx_outs[v] /\ tx_outs[v][c] # NoOut
      <3>1. Len(tx_outs[v]) = Len(keys[h]) /\ tx_outs[v] \in Seq(Bytes \cup {NoOut})
        BY <1>1, <1>2, Types DEF IInv, TypeOK
      <3>2. DOMAIN tx_outs[v] = 1 .. Len(keys[h]) /\ Len(keys[h]) \in Nat
        BY <3>1
      <3>3. c \in DOMAIN tx_outs[v]
        BY <1>2, <3>2
      <3> QED
        BY <1>1, <1>5, <1>6, <3>3 DEF FoundAll
    <2>3. tx_outs[v][c] \in BytesOf(key)
      BY <1>1, <1>2, <2>2 DEF IInv, Remembers, Key
    <2>4. PICK p2 \in TxPos : TxAt(p2).txid = key.txid /\ Inserted(p2[1])
      BY <1>4, <2>1, <2>3, BytesOfFacts, KeyTypes
    <2>5. p2 = p
      BY <2>1, <2>4 DEF UniqueTxid
    <2> QED
      BY <1>2, <2>1, <2>4, <2>5
  <1>7. CASE ~(q[1] = h /\ n = c)
    <2>1. Deleted(q)
      <3>1. q[1] < handed1
        BY <1>2 DEF Spent, Deleted, stage1
      <3>2. ASSUME NEW w \in Connectors, job2[w] = q[1] PROVE pc[w] = "delete" /\ n < cur[w]
        <4>1. pc[w] = "delete" /\ n < cur'[w]
          BY <1>2, <1>3, <3>2 DEF Spent, Deleted, stage2
        <4> QED
          BY <1>1, <1>2, <1>4, <1>7, <3>2, <4>1
      <3> QED
        BY <1>3, <3>1, <3>2 DEF Deleted
    <2>2. Inserted(p[1]) /\ store[InAt(q)] = NoOut
      BY <1>4, <1>5, <2>1 DEF Spent, SpentIsGone
    <2> QED
      BY <1>2, <1>4, <2>2
  <1> QED
    BY <1>6, <1>7

LEMMA ReturnsGone ==
  ASSUME IInv, SpentIsGone, NEW v \in Connectors, returns(v)
  PROVE  SpentIsGone'
  <1>0. PICK h : h = job2[v]
    OBVIOUS
  <1>1. /\ h \in Heights
        /\ UNCHANGED <<stage1, store, pc, cur, tx_outs>>
        /\ \A k : Inserted(k)' <=> Inserted(k)
        /\ \A w \in Connectors : job2'[w] = IF w = v THEN S2!Idle ELSE job2[w]
    BY <1>0, ReturnFacts
  <1>2. failed2' = failed2 \cup {h} \/ (failed2' = failed2 /\ connect_return(v))
    BY <1>0 DEF returns, connect_delete_err, connect_return, connect_missing, S2!return_err,
       S2!return_ok
  <1>3. h < handed1 /\ \A w \in Connectors : job2[w] = h => w = v
    BY <1>0, <1>1, JobTaken, ChainTypes DEF S2!Idle
  <1>4. ASSUME NEW q \in InPos, Spent(q)' PROVE Spent(q)
    <2>1. CASE q[1] = h
      <3>1. connect_return(v) /\ h \notin failed2
        BY <1>2, <1>4, <2>1 DEF Spent, FoundAll
      <3>2. /\ pc[v] = "delete" /\ cur[v] > Len(keys[h])
            /\ \A i \in DOMAIN tx_outs[v] : tx_outs[v][i] # NoOut
        BY <1>0, <3>1 DEF connect_return, PastKeys
      <3>3. FoundAll(h)
        BY <1>3, <3>1, <3>2 DEF FoundAll
      <3>4. PICK n : n = KeysUpTo(q[1], q[2])
        OBVIOUS
      <3>5. n \in Nat /\ n <= Len(keys[h]) /\ Len(keys[h]) \in Nat
        BY <1>4, <2>1, <3>4, InputFacts DEF Spent
      <3>6. n < cur[v]
        BY <3>2, <3>5, Types
      <3>7. Deleted(q)
        BY <1>3, <2>1, <3>2, <3>4, <3>6 DEF Deleted
      <3> QED
        BY <1>4, <2>1, <3>3, <3>7 DEF Spent
    <2>2. CASE q[1] # h
      <3>1. Deleted(q)
        BY <1>0, <1>1, <1>4, <2>2 DEF Spent, Deleted, stage1
      <3>2. FoundAll(q[1])
        BY <1>0, <1>1, <1>2, <1>4, <2>2 DEF Spent, FoundAll
      <3> QED
        BY <1>4, <3>1, <3>2 DEF Spent
    <2> QED
      BY <2>1, <2>2
  <1> QED
    BY <1>1, <1>4, KeepsGone

\* In a state of both invariants the store is the UTXO set.
LEMMA ExactStore ==
  ASSUME IInv, SpentIsGone
  PROVE  StoreIsUtxoSet
  <1> SUFFICES ASSUME S2!AllIdle, failed2 = {}, NEW p \in TxPos, Inserted(p[1]), UniqueTxid(p),
                      NEW n \in Slots(p)
               PROVE  store[txout_key(TxAt(p).txid, n)] =
                        IF n \in Left(p) THEN encode_txout(<<p, n>>) ELSE NoOut
    BY DEF StoreIsUtxoSet
  <1> DEFINE k == txout_key(TxAt(p).txid, n)
  <1>1. k \in Keys /\ k \in OutPoint /\ k.txid = TxAt(p).txid /\ k.vout = n /\ k # NullOutPoint
    BY KeyTypes, ChainAssumption DEF txout_key
  <1>2. k = [txid |-> TxAt(p).txid, vout |-> n]
    BY DEF txout_key
  <1>3. fetched2 = handed1
    BY DEF IInv, Chained
  <1> HIDE DEF k
  <1>4. CASE n \in Left(p)
    <2>1. \A q \in InPos : InAt(q) = k => ~Deleted(q)
      BY <1>2, <1>3, <1>4 DEF Left, Deleted
    <2>2. store[k] # NoOut
      BY <2>1 DEF IInv, DeletedByInput, k
    <2>3. store[k] \in BytesOf(k)
      BY <1>1, <2>2 DEF IInv, StoreLeads
    <2>4. PICK p2 \in TxPos : TxAt(p2).txid = k.txid /\ store[k] = encode_txout(<<p2, k.vout>>)
      BY <1>1, <2>3, BytesOfFacts
    <2>5. p2 = p
      BY <1>1, <2>4 DEF UniqueTxid
    <2> QED
      BY <1>1, <1>4, <2>4, <2>5 DEF k
  <1>5. CASE n \notin Left(p)
    <2>1. PICK q \in InPos : q[1] < fetched2 /\ InAt(q) = k
      BY <1>2, <1>5 DEF Left
    <2>2. \A v \in Connectors : job2[v] # q[1]
      <3>1. q[1] \in Nat
        BY ChainTypes DEF InPos
      <3> QED
        BY <3>1 DEF S2!AllIdle, S2!Idle
    <2>3. Spent(q)
      BY <1>1, <1>3, <2>1, <2>2 DEF Spent, Deleted, FoundAll
    <2>4. store[k] = NoOut
      BY <1>1, <2>1, <2>3 DEF SpentIsGone
    <2> QED
      BY <1>5, <2>4 DEF k
  <1> QED
    BY <1>4, <1>5

(***************************************************************************)
(* Whenever stage 2 is at rest and has refused no block, the store holds   *)
(* exactly the UTXO set of the blocks it has seen, plus the outputs of the *)
(* blocks that stage 1 is ahead by.                                        *)
(***************************************************************************)
THEOREM StoreExact == Spec => []StoreIsUtxoSet
  <1>1. Init => SpentIsGone
    <2> SUFFICES ASSUME Init PROVE SpentIsGone
      OBVIOUS
    <2>1. handed1 = 0
      BY DEF Init, IterInit, S1!Init
    <2>2. \A q \in InPos : ~(q[1] < 0)
      BY ChainTypes DEF InPos
    <2> QED
      BY <2>1, <2>2 DEF SpentIsGone, Spent, Deleted
  <1>2. IInv /\ SpentIsGone /\ [Next]_vars => SpentIsGone'
    BY StepCases, QuietGone, UpdateGone, TakeBlockGone, ReadsGone, DeleteGone, ReturnsGone
  <1>3. IInv /\ SpentIsGone => StoreIsUtxoSet
    BY ExactStore
  <1> QED
    BY <1>1, <1>2, <1>3, Inductive, PTL DEF Spec

-----------------------------------------------------------------------------
(* The refinement.                                                         *)

\* A failure of the disk or the store is one that its block shows: no block
\* is handed over after new() failed, and a failed height has failed in
\* stage 1 or did not find all its keys.
BrokenShows ==
  /\ ~opened => fetched1 = 0 /\ Heights \subseteq broken
  /\ \A h \in broken : ~opened \/ h \in failed1 \/ ~FoundAll(h)

\* A block that waits for its turn is rightly connected.
DoneConnected == \A h \in done2 : output_block[h] \in Stream!Connections(h)

\* What was not found stays so.
LEMMA FoundBefore ==
  ASSUME IInv, [Next]_vars, NEW h \in Heights, FoundAll(h)'
  PROVE  FoundAll(h)
  <1>1. CASE Quiet
    BY <1>1, QuietLeaves DEF FoundAll
  <1>2. ASSUME NEW u \in Updaters, update_unspent_cache(u) PROVE FoundAll(h)
    BY <1>2 DEF update_unspent_cache, block_ok, stage2, local, FoundAll
  <1>3. ASSUME NEW v \in Connectors, take_block(v) PROVE FoundAll(h)
    <2>1. job2[v] # h
      BY <1>3, ChainTypes DEF take_block, next_block, S2!fetch, S2!Idle
    <2>2. failed2' = failed2 /\ \A w \in Connectors : w # v =>
            job2'[w] = job2[w] /\ tx_outs'[w] = tx_outs[w]
      BY <1>3, Types DEF take_block, next_block, S2!fetch
    <2> QED
      BY <2>1, <2>2 DEF FoundAll
  <1>4. ASSUME NEW v \in Connectors, reads(v) PROVE FoundAll(h)
    <2>1. /\ UNCHANGED stage2
          /\ \E y : tx_outs' = [tx_outs EXCEPT ![v] = Append(@, y)]
      BY <1>4 DEF reads, connect_get, connect_get_err
    <2>2. PICK y : tx_outs' = [tx_outs EXCEPT ![v] = Append(@, y)]
      BY <2>1
    <2>3. /\ tx_outs[v] \in Seq(Bytes \cup {NoOut})
          /\ tx_outs'[v] = Append(tx_outs[v], y)
          /\ \A w \in Connectors : w # v => tx_outs'[w] = tx_outs[w]
      BY <2>2, Types
    <2>4. \A i \in DOMAIN tx_outs[v] : i \in DOMAIN tx_outs'[v] /\ tx_outs'[v][i] = tx_outs[v][i]
      BY <2>3
    <2> QED
      BY <2>1, <2>3, <2>4 DEF FoundAll, stage2
  <1>5. ASSUME NEW v \in Connectors, connect_got(v) \/ connect_delete(v) PROVE FoundAll(h)
    BY <1>5 DEF connect_got, connect_delete, stage2, FoundAll
  <1>6. ASSUME NEW v \in Connectors, returns(v) PROVE FoundAll(h)
    <2>1. /\ failed2 \subseteq failed2' /\ UNCHANGED tx_outs
          /\ job2[v] \in failed2' \/ \A i \in DOMAIN tx_outs[v] : tx_outs[v][i] # NoOut
      BY <1>6 DEF returns, connect_delete_err, connect_return, connect_missing, S2!return_err,
         S2!return_ok, local
    <2>2. \A w \in Connectors : w # v => job2'[w] = job2[w]
      BY <1>6, ReturnFacts
    <2> QED
      BY <2>1, <2>2 DEF FoundAll
  <1> QED
    BY <1>1, <1>2, <1>3, <1>4, <1>5, <1>6, StepCases

\* A new failure shows in stage 1 or in what its connector has read.
LEMMA BreaksShow ==
  ASSUME IInv, [Next]_vars
  PROVE  /\ failed1 \subseteq failed1' /\ UNCHANGED opened
         /\ \A h \in broken' : h \in broken \/ h \in failed1' \/ ~FoundAll(h)'
  <1> DEFINE Goal == /\ failed1 \subseteq failed1' /\ UNCHANGED opened
                     /\ \A h \in broken' : h \in broken \/ h \in failed1' \/ ~FoundAll(h)'
  <1>1. ASSUME Quiet PROVE Goal
    BY <1>1
    DEF Quiet, take_height, update_unspent_cache_err, write_err, take_no_block, call_iter,
        caller, next_height, block_err, Breaks, no_more_blocks, next_some, next_none,
        drop_iter, drop_upstream, vars, stage1, S1!fetch, S1!return_err, S1!next_none, S1!drop
  <1>2. ASSUME NEW u \in Updaters, update_unspent_cache(u) PROVE Goal
    BY <1>2 DEF update_unspent_cache, block_ok, S1!return_ok
  <1>3. ASSUME NEW v \in Connectors,
               \/ take_block(v) \/ connect_get(v) \/ connect_got(v) \/ connect_delete(v)
               \/ connect_return(v) \/ connect_missing(v)
        PROVE  Goal
    BY <1>3 DEF take_block, next_block, S1!next_some, connect_get, connect_got, connect_delete,
       connect_return, connect_missing, stage1
  <1>4. ASSUME NEW v \in Connectors, connect_delete_err(v) PROVE Goal
    <2>1. UNCHANGED <<failed1, opened>> /\ broken' \subseteq broken \cup {job2[v]}
      BY <1>4 DEF connect_delete_err, Breaks, stage1
    <2>2. job2[v] \in failed2'
      BY <1>4 DEF connect_delete_err, S2!return_err
    <2> QED
      BY <2>1, <2>2 DEF FoundAll
  <1>5. ASSUME NEW v \in Connectors, connect_get_err(v) PROVE Goal
    <2>1. /\ UNCHANGED <<failed1, opened, stage2>> /\ broken' \subseteq broken \cup {job2[v]}
          /\ tx_outs' = [tx_outs EXCEPT ![v] = Append(@, NoOut)]
      BY <1>5 DEF connect_get_err, Breaks, stage1
    <2>2. tx_outs[v] \in Seq(Bytes \cup {NoOut}) /\ tx_outs'[v] = Append(tx_outs[v], NoOut)
      BY <2>1, Types
    <2>3. /\ Len(tx_outs[v]) + 1 \in DOMAIN tx_outs'[v]
          /\ tx_outs'[v][Len(tx_outs[v]) + 1] = NoOut
      BY <2>2
    <2>4. ~FoundAll(job2[v])'
      BY <2>1, <2>3 DEF FoundAll, stage2
    <2>5. \A h : h = job2[v] => (FoundAll(h)' <=> FoundAll(job2[v])')
      BY <2>1 DEF FoundAll, stage2
    <2> QED
      BY <2>1, <2>4, <2>5
  <1> HIDE DEF Goal
  <1>6. Goal
    BY <1>1, <1>2, <1>3, <1>4, <1>5, StepCases DEF reads, returns
  <1> QED
    BY <1>6 DEF Goal

LEMMA BrokenShowsStep ==
  ASSUME IInv, BrokenShows, [Next]_vars
  PROVE  BrokenShows'
  <1>1. broken \subseteq broken'
    <2>1. ASSUME NEW v \in Connectors,
                 take_block(v) \/ reads(v) \/ connect_got(v) \/ connect_delete(v) \/ returns(v)
          PROVE  broken \subseteq broken'
      BY <2>1 DEF take_block, next_block, reads, connect_get, connect_get_err, connect_got,
         connect_delete, returns, connect_delete_err, connect_return, connect_missing, Breaks
    <2>2. ASSUME NEW u \in Updaters, update_unspent_cache(u) PROVE broken \subseteq broken'
      BY <2>2 DEF update_unspent_cache, block_ok
    <2> QED
      BY <2>1, <2>2, StepCases, QuietLeaves
  <1>2. ASSUME ~opened, fetched1 = 0 PROVE fetched1' = 0
    <2>1. ASSUME NEW u \in Updaters, update_stage(u) PROVE fetched1' = 0
      <3>1. CASE take_height(u)
        BY <1>2, <3>1 DEF take_height, next_height, S1!fetch, NumTasks
      <3> QED
        BY <1>2, <2>1, <3>1
        DEF update_stage, update_unspent_cache, update_unspent_cache_err, write_err, block_ok,
            block_err, S1!return_ok, S1!return_err
    <2>2. ASSUME NEW v \in Connectors, connect_stage(v) PROVE fetched1' = 0
      BY <1>2, <2>2
      DEF connect_stage, take_block, take_no_block, next_block, no_more_blocks, S1!next_some,
          S1!next_none, connect_outpoints, connect_get, connect_get_err, connect_got,
          connect_delete, connect_delete_err, connect_return, connect_missing, stage1
    <2>3. CASE call_iter \/ UNCHANGED vars
      BY <1>2, <2>3
      DEF call_iter, caller, next_some, next_none, drop_iter, drop_upstream, S1!drop, vars,
          stage1
    <2> QED
      BY <2>1, <2>2, <2>3 DEF Next, stay_stopped
  <1>3. ASSUME NEW h \in broken' PROVE ~opened \/ h \in failed1' \/ ~FoundAll(h)'
    <2>1. CASE h \in broken
      <3>1. h \in Heights
        BY <2>1 DEF IInv, TypeOK, IterType
      <3>2. ~opened \/ h \in failed1 \/ ~FoundAll(h)
        BY <2>1 DEF BrokenShows
      <3>3. FoundAll(h)' => FoundAll(h)
        BY <3>1, FoundBefore
      <3> QED
        BY <3>2, <3>3, BreaksShow
    <2> QED
      BY <2>1, BreaksShow
  <1> QED
    BY <1>1, <1>2, <1>3, BreaksShow DEF BrokenShows

\* What connect_outpoints returns is a connection of its block.
LEMMA DoneConnectedStep ==
  ASSUME IInv, DoneConnected, [Next]_vars
  PROVE  DoneConnected'
  <1>1. ASSUME NEW v \in Connectors, connect_return(v) PROVE DoneConnected'
    <2>1. PICK h : h = job2[v]
      OBVIOUS
    <2>2. /\ h \in Heights
          /\ output_block'[h] \in [DOMAIN Blocks[h].ins -> (TxPos \X Nat) \cup {NoOut}]
          /\ \A c \in DOMAIN Blocks[h].ins :
               IF Blocks[h].ins[c] = NullOutPoint THEN output_block'[h][c] = NoOut
               ELSE output_block'[h][c] \in Referents(Blocks[h].ins[c])
      BY <1>1, <2>1, ReturnConnects
    <2>3. \A k : Stream!Referents(k) = Referents(k)
      BY DEF Referents, Stream!Referents, TxPos, Stream!TxPos, TxAt, Stream!TxAt, Slots,
         Stream!Slots, Heights, Stream!Heights
    <2>4. \A c \in DOMAIN Blocks[h].ins : output_block'[h][c] \in Stream!Candidates(h, c)
      BY <2>2, <2>3 DEF Stream!Candidates
    <2>5. output_block'[h] \in Stream!Connections(h)
      BY <2>2, <2>4 DEF Stream!Connections
    <2>6. /\ done2' = done2 \cup {h} /\ done2 \subseteq Heights /\ h \notin done2
      <3>1. done2' = done2 \cup {h} /\ job2[v] # S2!Idle
        BY <1>1, <2>1 DEF connect_return, S2!return_ok
      <3> QED
        BY <2>1, <3>1, ChainAssumption
        DEF IInv, S2!Inv, S2!TypeInv, S2!Exclusive, S2!Pending, Chained, Heights
    <2>7. \A g \in done2 : output_block'[g] = output_block[g]
      BY <1>1, <2>1, <2>6, ReturnFacts DEF returns
    <2> QED
      BY <2>5, <2>6, <2>7 DEF DoneConnected
  <1>2. CASE done2' \subseteq done2 /\ UNCHANGED output_block
    BY <1>2 DEF DoneConnected
  <1>3. ASSUME Quiet PROVE done2' \subseteq done2 /\ UNCHANGED output_block
    BY <1>3
    DEF Quiet, take_height, update_unspent_cache_err, write_err, take_no_block, call_iter,
        caller, next_height, block_err, no_more_blocks, next_some, next_none, drop_iter,
        drop_upstream, vars, stage2, S2!next_some, S2!next_none, S2!drop
  <1>4. ASSUME NEW u \in Updaters, update_unspent_cache(u) PROVE UNCHANGED <<done2, output_block>>
    BY <1>4 DEF update_unspent_cache, block_ok, stage2
  <1>5. ASSUME NEW v \in Connectors,
               \/ take_block(v) \/ reads(v) \/ connect_got(v) \/ connect_delete(v)
               \/ connect_delete_err(v) \/ connect_missing(v)
        PROVE  UNCHANGED <<done2, output_block>>
    BY <1>5 DEF take_block, next_block, S2!fetch, reads, connect_get, connect_get_err,
       connect_got, connect_delete, connect_delete_err, connect_missing, S2!return_err, stage2
  <1> QED
    BY <1>1, <1>2, <1>3, <1>4, <1>5, StepCases DEF returns

LEMMA EndsRightlyStep ==
  ASSUME IInv, BrokenShows, EndsRightly, [Next]_vars
  PROVE  EndsRightly'
  <1>1. PICK n : n = NumTasks
    OBVIOUS
  <1>2. n \in 0 .. End /\ (n = End \/ Heights \subseteq broken)
    BY <1>1, PipelineAssumption DEF NumTasks, BrokenShows
  <1> DEFINE Goal == \/ \E u \in Updaters : \/ next_height(u, n)
                                           \/ block_ok(u)
                                           \/ /\ S1!return_err(u) /\ Breaks(job1[u])
                                              /\ UNCHANGED stage2
                     \/ \E v \in Connectors : next_block(v) \/ no_more_blocks(v, n)
                     \/ caller
                     \/ UNCHANGED <<stage1, status2>> /\ broken \subseteq broken'
  <1>3. ASSUME Quiet PROVE Goal
    BY <1>1, <1>3 DEF Quiet, take_height, update_unspent_cache_err, write_err, take_no_block,
       call_iter, block_err, vars, stage2
  <1>4. ASSUME NEW u \in Updaters, update_unspent_cache(u) PROVE Goal
    BY <1>4 DEF update_unspent_cache
  <1>5. ASSUME NEW v \in Connectors, take_block(v) PROVE Goal
    BY <1>5 DEF take_block
  <1>6. ASSUME NEW v \in Connectors,
               reads(v) \/ connect_got(v) \/ connect_delete(v) \/ returns(v)
        PROVE  UNCHANGED <<stage1, status2>> /\ broken \subseteq broken'
    BY <1>6 DEF reads, connect_get, connect_get_err, connect_got, connect_delete, returns,
       connect_delete_err, connect_return, connect_missing, stage2, S2!return_err, S2!return_ok,
       Breaks
  <1>7. Goal
    BY <1>3, <1>4, <1>5, <1>6, StepCases
  <1>8. S1!Inv
    BY DEF IInv
  <1> HIDE DEF Goal
  <1> QED
    BY <1>2, <1>7, <1>8, EndsStep DEF Goal

LEMMA ReadyForStream ==
  ASSUME IInv, BrokenShows, DoneConnected, EndsRightly
  PROVE  StreamReady
  <1>1. ASSUME NEW h \in done2 PROVE h \notin broken
    <2>1. /\ h \in Nat /\ h < handed1 /\ handed1 \in Nat /\ fetched1 \in Nat
          /\ handed1 <= fetched1 /\ failed1 \subseteq handed1 .. fetched1 - 1
      BY DEF IInv, S1!Inv, S1!TypeInv, S1!Exclusive, S1!Pending, S2!Inv, S2!TypeInv,
         S2!Exclusive, S2!Pending, Chained
    <2>2. opened /\ h \notin failed1
      BY <2>1 DEF BrokenShows
    <2>3. FoundAll(h)
      <3>1. h \notin failed2
        BY DEF IInv, S2!Inv, S2!Exclusive
      <3>2. \A v \in Connectors : job2[v] # h
        BY <2>1 DEF IInv, S2!Inv, S2!Exclusive, S2!Idle
      <3> QED
        BY <3>1, <3>2 DEF FoundAll
    <2> QED
      BY <2>2, <2>3 DEF BrokenShows
  <1> QED
    BY <1>1 DEF StreamReady, Finished, DoneConnected, IInv, NoSpuriousErr

LEMMA StreamStep ==
  ASSUME IInv, StreamReady, [Next]_vars
  PROVE  [Stream!Next]_(Stream!vars)
  <1> DEFINE Other ==
        /\ UNCHANGED handed2
        /\ \A h \in Heights : h < handed2 => output_block'[h] = output_block[h]
        /\ \/ UNCHANGED <<status2, broken>>
           \/ status2 = "open" /\ status2' = "dropped" /\ UNCHANGED broken
           \/ UNCHANGED status2 /\ \E h \in Heights : broken' = broken \cup {h}
  <1>1. CASE next_some \/ next_none
    BY <1>1, EmitStep, FinishStep DEF Stream!Next
  <1>2. ASSUME Quiet, ~(next_some \/ next_none) PROVE Other
    BY <1>2
    DEF Quiet, take_height, update_unspent_cache_err, write_err, take_no_block, call_iter,
        caller, next_height, block_err, Breaks, no_more_blocks, drop_iter, drop_upstream, vars,
        stage2, S2!drop
  <1>3. ASSUME NEW u \in Updaters, update_unspent_cache(u) PROVE Other
    BY <1>3 DEF update_unspent_cache, block_ok, stage2
  <1>4. ASSUME NEW v \in Connectors, take_block(v) PROVE Other
    BY <1>4 DEF take_block, next_block, S2!fetch
  <1>5. ASSUME NEW v \in Connectors, reads(v) \/ connect_got(v) \/ connect_delete(v) PROVE Other
    BY <1>5 DEF reads, connect_get, connect_get_err, connect_got, connect_delete, AtKey, Breaks,
       stage2
  <1>6. ASSUME NEW v \in Connectors, returns(v) PROVE Other
    <2>1. /\ job2[v] \in Heights /\ UNCHANGED <<handed2, status2>>
          /\ \A h \in Heights : h # job2[v] => output_block'[h] = output_block[h]
          /\ broken' = broken \/ broken' = broken \cup {job2[v]}
      <3>1. broken \subseteq broken' /\ broken' \subseteq broken \cup {job2[v]}
        BY <1>6, ReturnFacts
      <3>2. broken' = broken \/ broken' = broken \cup {job2[v]}
        BY <3>1
      <3> QED
        BY <1>6, <3>2, ReturnFacts
    <2>2. job2[v] \in Nat /\ handed2 \in Nat /\ job2[v] >= handed2
      BY <2>1, ChainTypes DEF S2!Idle, IInv, S2!Inv, S2!Exclusive, S2!Pending, S2!TypeInv
    <2> QED
      BY <2>1, <2>2
  <1>7. next_some \/ next_none \/ Other
    BY <1>2, <1>3, <1>4, <1>5, <1>6, StepCases
  <1> QED
    BY <1>1, <1>7, OtherStep

(***************************************************************************)
(* The on-disk iterator implements ConnectedStream, like the in-memory     *)
(* one: the caller sees the blocks in order, each input connected to an    *)
(* output its outpoint names, and None only at the end or at a block that  *)
(* cannot be produced; a failure of the store counts as one of the disk.   *)
(***************************************************************************)
THEOREM ImplementsStream == Spec => IsConnectedStream
  <1> DEFINE J == BrokenShows /\ DoneConnected /\ EndsRightly
  <1>1. Init => J /\ Stream!Init
    <2> SUFFICES ASSUME Init PROVE J /\ Stream!Init
      OBVIOUS
    <2>1. Stream!Init
      BY StreamInit DEF Init
    <2>2. BrokenShows
      BY DEF Init, IterInit, S1!Init, BrokenShows
    <2>3. DoneConnected
      BY DEF Init, IterInit, S2!Init, DoneConnected
    <2>4. EndsRightly
      BY PipelineAssumption DEF Init, IterInit, S1!Init, EndsRightly
    <2> QED
      BY <2>1, <2>2, <2>3, <2>4
  <1>2. IInv /\ J /\ [Next]_vars => J' /\ [Stream!Next]_(Stream!vars)
    BY BrokenShowsStep, DoneConnectedStep, EndsRightlyStep, ReadyForStream, StreamStep
  <1> QED
    BY <1>1, <1>2, Inductive, PTL DEF Spec, IsConnectedStream, Stream!Spec
=============================================================================
