-------------------------- MODULE BitcoinDBProofs --------------------------
(***************************************************************************)
(* For every chain, every transaction index and every order in which the   *)
(* rayon tasks return, the queries of BitcoinDB give the right blocks,     *)
(* transactions, heights and connected inputs; and every output script is  *)
(* classified without a panic, as what it is, with the addresses it pays.  *)
(***************************************************************************)
EXTENDS BitcoinDB, Script, SequenceTheorems, WellFoundedInduction, TLAPS

-----------------------------------------------------------------------------
(* What is on disk.                                                        *)

LEMMA StoredFacts ==
  ASSUME NEW tx \in Stored
  PROVE  /\ tx \in [txid : Txids, outs : Nat, ins : Seq(OutPoint)]
         /\ tx.txid \in Txids /\ tx.outs \in Nat /\ tx.ins \in Seq(OutPoint)
  BY StoredAssumption

\* A transaction of a block on disk is stored.
LEMMA InBlock ==
  ASSUME NEW pos \in DOMAIN Disk, NEW k \in DOMAIN Disk[pos]
  PROVE  Disk[pos][k] \in Stored
  BY StoredAssumption

LEMMA RecordFacts ==
  ASSUME NEW i \in DOMAIN Records
  PROVE  /\ Records[i] \in DOMAIN Disk
         /\ Disk[Records[i]] \in Seq(Stored)
         /\ i \in 1 .. Len(Records)
  <1>1. Records[i] \in DOMAIN Disk /\ i \in 1 .. Len(Records)
    BY DbAssumption
  <1> QED
    BY <1>1, StoredAssumption

-----------------------------------------------------------------------------
(* What the lookups return.                                                *)

LEMMA Outcomes ==
  /\ \A v : Ok(v).ok = TRUE /\ Ok(v).v = v /\ Ok(v) # NoReply
  /\ \A why : Err(why).ok = FALSE /\ Err(why).why = why
  /\ \A v, w : Ok(v) # Err(w)
  <1>1. ASSUME NEW v, NEW w PROVE Ok(v) # Err(w) /\ Ok(v) # NoReply
    <2>1. Ok(v).ok = TRUE /\ Err(w).ok = FALSE /\ NoReply.ok = FALSE
      BY DEF Ok, Err, NoReply
    <2> QED
      BY <2>1
  <1> QED
    BY <1>1 DEF Ok, Err

LEMMA IoFacts ==
  ASSUME NEW r \in Io
  PROVE  r = Err("Io") /\ ~r.ok /\ r.why = "Io"
  BY DEF Io, Err

LEMMA BlockFacts ==
  ASSUME NEW h \in 0 .. Len(Records), NEW r \in get_block(h)
  PROVE  \/ /\ h + 1 \in DOMAIN Records
            /\ r = Ok(Disk[Records[h + 1]])
         \/ r = Err("Io")
         \/ r = Err("BlockIndexRecordNotFound") /\ h + 1 \notin DOMAIN Records
  BY IoFacts DEF get_block

\* The transaction that n_tx_offset leads to has the id that was looked up.
LEMMA IndexedFacts ==
  ASSUME NEW t, NEW r \in read_indexed(t)
  PROVE  \/ r = Err("Io")
         \/ r = Err("TransactionRecordNotFound") /\ t \notin DOMAIN TxIndex
         \/ /\ t \in DOMAIN TxIndex
            /\ \E tx \in Stored : tx.txid = t /\ r = Ok(tx)
  <1>1. PICK p \in get_tx_position(t) :
          r \in IF p.ok THEN read_transaction(p.v, t) ELSE {p}
    BY DEF read_indexed, AndThen
  <1>2. CASE p \in Io
    BY <1>1, <1>2, IoFacts
  <1>3. CASE p \notin Io /\ t \notin DOMAIN TxIndex
    <2>1. p = Err("TransactionRecordNotFound")
      BY <1>3 DEF get_tx_position
    <2> QED
      BY <1>1, <1>3, <2>1, Outcomes
  <1>4. CASE p \notin Io /\ t \in DOMAIN TxIndex
    <2>1. p = Ok(TxIndex[t])
      BY <1>4 DEF get_tx_position
    <2>2. r \in read_transaction(TxIndex[t], t)
      BY <1>1, <2>1, Outcomes
    <2>3. CASE r \in Io
      BY <2>3, IoFacts
    <2>4. CASE r \notin Io
      <3> DEFINE k == CHOOSE k \in DOMAIN Disk[TxIndex[t]] : Disk[TxIndex[t]][k].txid = t
      <3>1. k \in DOMAIN Disk[TxIndex[t]] /\ Disk[TxIndex[t]][k].txid = t
        BY <1>4, DbAssumption
      <3>2. r = Ok(Disk[TxIndex[t]][k])
        BY <2>2, <2>4 DEF read_transaction
      <3>3. TxIndex[t] \in DOMAIN Disk
        BY <1>4, DbAssumption
      <3> HIDE DEF k
      <3>4. Disk[TxIndex[t]][k] \in Stored
        BY <3>1, <3>3, InBlock
      <3> QED
        BY <1>4, <3>1, <3>2, <3>4
    <2> QED
      BY <2>3, <2>4
  <1> QED
    BY <1>2, <1>3, <1>4

\* The block of height 0 has the genesis transaction.
LEMMA GenesisBlock ==
  ASSUME NEW r \in get_block(0)
  PROVE  \/ r = Err("Io")
         \/ /\ r = Ok(Disk[Records[1]])
            /\ Disk[Records[1]] \in Seq(Stored)
            /\ Disk[Records[1]][1] \in Stored
            /\ Disk[Records[1]][1].txid = GenesisTxid /\ Disk[Records[1]][1].outs = 1
  <1>1. 1 \in DOMAIN Records /\ 1 \in DOMAIN Disk[Records[1]]
    BY GenesisAssumption
  <1>2. Records[1] \in DOMAIN Disk /\ Disk[Records[1]] \in Seq(Stored)
    BY <1>1, RecordFacts
  <1>3. 0 + 1 = 1
    OBVIOUS
  <1>4. r = Err("Io") \/ r = Ok(Disk[Records[1]])
    BY <1>1, <1>3, IoFacts DEF get_block
  <1> QED
    BY <1>1, <1>2, <1>4, InBlock, GenesisAssumption

LEMMA TransactionFacts ==
  ASSUME NEW t, NEW r \in get_transaction(t)
  PROVE  \/ r = Err("Io")
         \/ r = Err("TransactionRecordNotFound") /\ t \notin DOMAIN TxIndex \cup {GenesisTxid}
         \/ \E tx \in Stored : tx.txid = t /\ r = Ok(tx)
  <1>1. CASE is_genesis_tx(t)
    <2>1. PICK b \in get_block(0) : r \in IF b.ok THEN {Ok(b.v[1])} ELSE {b}
      BY <1>1 DEF get_transaction, AndThen
    <2>2. CASE b = Err("Io")
      BY <2>1, <2>2, Outcomes
    <2>3. CASE b # Err("Io")
      <3>1. /\ b = Ok(Disk[Records[1]]) /\ Disk[Records[1]][1] \in Stored
            /\ Disk[Records[1]][1].txid = GenesisTxid
        BY <2>3, GenesisBlock
      <3>2. r = Ok(Disk[Records[1]][1])
        BY <2>1, <3>1, Outcomes
      <3> QED
        BY <1>1, <3>1, <3>2 DEF is_genesis_tx
    <2> QED
      BY <2>2, <2>3
  <1>2. CASE ~is_genesis_tx(t)
    BY <1>2, IndexedFacts DEF get_transaction, is_genesis_tx
  <1> QED
    BY <1>1, <1>2

\* TxDB knows the height of every block of the chain once it is open.
Opened ==
  tx_db => file_pos_to_height = {<<Records[i], i - 1>> : i \in DOMAIN Records}

LEMMA HeightFacts ==
  ASSUME Opened, tx_db, NEW t, NEW r \in get_block_height(t)
  PROVE  \/ r = Err("Io") \/ r = Err("TransactionRecordNotFound")
         \/ \E h : r = Ok(h) /\ h + 1 \in DOMAIN Records /\ Has(h, t)
         \/ r = Err("CannotFindHeightForTransaction") /\ TxIndex[t] \notin ToSet(Records)
  <1>1. CASE is_genesis_tx(t)
    <2>1. r = Ok(0) /\ t = GenesisTxid
      BY <1>1 DEF get_block_height, is_genesis_tx
    <2>2. 0 + 1 = 1
      OBVIOUS
    <2>3. 0 + 1 \in DOMAIN Records /\ Has(0, t)
      BY <2>1, <2>2, GenesisAssumption DEF Has
    <2> QED
      BY <2>1, <2>3
  <1>2. CASE ~is_genesis_tx(t)
    <2>1. PICK p \in get_tx_position(t) : r \in IF p.ok THEN HeightAt(p.v) ELSE {p}
      BY <1>2 DEF get_block_height, AndThen
    <2>2. CASE p \in Io
      BY <2>1, <2>2, IoFacts
    <2>3. CASE p \notin Io /\ t \notin DOMAIN TxIndex
      <3>1. p = Err("TransactionRecordNotFound")
        BY <2>3 DEF get_tx_position
      <3> QED
        BY <2>1, <3>1, Outcomes
    <2>4. CASE p \notin Io /\ t \in DOMAIN TxIndex
      <3>1. p = Ok(TxIndex[t])
        BY <2>4 DEF get_tx_position
      <3>2. r \in HeightAt(TxIndex[t])
        BY <2>1, <3>1, Outcomes
      <3> DEFINE found == {e[2] : e \in {e \in file_pos_to_height : e[1] = TxIndex[t]}}
      <3>3. r \in IF found = {} THEN {Err("CannotFindHeightForTransaction")}
                  ELSE {Ok(h) : h \in found}
        BY <3>2 DEF HeightAt, PosKey
      <3>4. file_pos_to_height = {<<Records[i], i - 1>> : i \in DOMAIN Records}
        BY DEF Opened
      <3>5. CASE found = {}
        <4>1. ASSUME NEW i \in DOMAIN Records, Records[i] = TxIndex[t]
              PROVE  FALSE
          <5>1. <<Records[i], i - 1>> \in file_pos_to_height
            BY <3>4
          <5>2. <<Records[i], i - 1>>[2] \in found
            BY <4>1, <5>1
          <5> QED
            BY <3>5, <5>2
        <4>2. TxIndex[t] \notin ToSet(Records)
          BY <4>1 DEF ToSet
        <4> QED
          BY <3>3, <3>5, <4>2
      <3>6. CASE found # {}
        <4>1. PICK h \in found : r = Ok(h)
          BY <3>3, <3>6
        <4>2. PICK i \in DOMAIN Records : h = i - 1 /\ Records[i] = TxIndex[t]
          BY <3>4, <4>1
        <4>3. h + 1 = i
          BY <4>2, RecordFacts
        <4>4. Has(h, t)
          BY <2>4, <4>2, <4>3, DbAssumption DEF Has
        <4> QED
          BY <4>1, <4>2, <4>3, <4>4
      <3> QED
        BY <3>5, <3>6
    <2> QED
      BY <2>2, <2>3, <2>4
  <1> QED
    BY <1>1, <1>2

\* A format keeps the id of a transaction, and all but the library's own show
\* the inputs that can be connected.
LEMMA FormatFacts ==
  ASSUME NEW block \in Seq(Stored), NEW format \in Formats
  PROVE  LET b == into_block(format, block)
         IN  /\ Len(b) = Len(block)
             /\ \A k \in DOMAIN block :
                  /\ b[k].txid = block[k].txid
                  /\ format # "library" => Len(b[k].ins) = outpoints_count(block[k])
  <1>1. ASSUME NEW tx \in Stored
        PROVE  /\ FullTransaction(tx).txid = tx.txid
               /\ Len(FullTransaction(tx).ins) = outpoints_count(tx)
               /\ CompactTransaction(tx) = FullTransaction(tx)
    <2>1. tx \in [txid : Txids, outs : Nat, ins : Seq(OutPoint)]
      BY StoredFacts
    <2>2. FullTransaction(tx).txid = tx.txid /\ FullTransaction(tx).ins = inputs(tx)
      BY <2>1 DEF FullTransaction
    <2>3. Len(inputs(tx)) = outpoints_count(tx)
      BY DEF inputs, outpoints_count
    <2> QED
      BY <2>2, <2>3 DEF FullTransaction, CompactTransaction
  <1> DEFINE full == [k \in DOMAIN block |-> FullTransaction(block[k])]
  <1>2. FullBlock(block) = full /\ CompactBlock(block) = full
    BY <1>1 DEF FullBlock, CompactBlock
  <1>3. DOMAIN block = 1 .. Len(block) /\ Len(block) \in Nat
    OBVIOUS
  <1>4. Len(full) = Len(block)
    BY <1>3
  <1>5. ASSUME NEW k \in DOMAIN block
        PROVE  /\ full[k].txid = block[k].txid
               /\ Len(full[k].ins) = outpoints_count(block[k])
    BY <1>1
  <1>6. into_block(format, block) = IF format = "library" THEN block ELSE full
    BY <1>2 DEF into_block, Formats
  <1> QED
    BY <1>4, <1>5, <1>6

-----------------------------------------------------------------------------
(* The two loops of connect_block_inputs.  What a recursive function is    *)
(* follows from induction over the set of numbers for which it exists.     *)

LEMMA Induction ==
  ASSUME NEW S \in SUBSET Nat, 0 \in S, \A n \in S : n + 1 \in S
  PROVE  S = Nat
  <1> DEFINE R == {ss \in Nat \X Nat : ss[1] < ss[2]}
  <1> SUFFICES ASSUME Nat \ S # {} PROVE FALSE
    OBVIOUS
  <1>1. IsWellFoundedOn(R, Nat)
    BY NatLessThanWellFounded DEF OpToRel
  <1>2. PICK x \in Nat \ S : \A y \in Nat \ S : ~(<<y, x>> \in R)
    BY <1>1, WFMin
  <1>3. x # 0 /\ x - 1 \in Nat
    OBVIOUS
  <1>4. <<x - 1, x>> \in R
    BY <1>3
  <1>5. x - 1 \in S
    BY <1>2, <1>3, <1>4
  <1>6. (x - 1) + 1 = x
    OBVIOUS
  <1> QED
    BY <1>5, <1>6

\* all_tx_in, one transaction after another.
LEMMA InsUpToUnfolds ==
  ASSUME NEW txs, NEW len \in Nat, Len(txs) = len
  PROVE  /\ InsUpTo(txs)[0] = <<>>
         /\ \A k \in 1 .. len : InsUpTo(txs)[k] = InsUpTo(txs)[k - 1] \o txs[k].ins
  <1> DEFINE Body(f, n) == [k \in 0 .. n |-> IF k = 0 THEN <<>> ELSE f[k - 1] \o txs[k].ins]
             Good(f, n) == /\ f[0] = <<>>
                           /\ \A k \in 1 .. n : f[k] = f[k - 1] \o txs[k].ins
             S == {n \in Nat : \E f : Good(f, n)}
  <1>1. 0 \in S
    <2>1. Good([k \in 0 .. 0 |-> <<>>], 0)
      OBVIOUS
    <2> QED
      BY <2>1
  <1>2. ASSUME NEW n \in S
        PROVE  n + 1 \in S
    <2>1. PICK f : Good(f, n)
      OBVIOUS
    <2> DEFINE g == [k \in 0 .. n + 1 |-> IF k = n + 1 THEN f[n] \o txs[n + 1].ins ELSE f[k]]
    <2>2. g[0] = <<>>
      BY <2>1
    <2>3. ASSUME NEW k \in 1 .. n + 1
          PROVE  g[k] = g[k - 1] \o txs[k].ins
      <3>1. k - 1 \in 0 .. n + 1 /\ k \in 0 .. n + 1 /\ k - 1 # n + 1
        OBVIOUS
      <3>2. g[k - 1] = f[k - 1]
        BY <3>1
      <3>3. CASE k = n + 1
        <4>1. k - 1 = n /\ n + 1 \in 0 .. n + 1
          BY <3>3
        <4>2. g[n + 1] = f[n] \o txs[n + 1].ins
          BY <4>1
        <4> QED
          BY <3>2, <3>3, <4>1, <4>2
      <3>4. CASE k # n + 1
        <4>1. k \in 1 .. n /\ g[k] = f[k]
          BY <3>1, <3>4
        <4>2. f[k] = f[k - 1] \o txs[k].ins
          BY <2>1, <4>1
        <4> QED
          BY <3>2, <4>1, <4>2
      <3> QED
        BY <3>3, <3>4
    <2>4. Good(g, n + 1)
      <3> HIDE DEF g
      <3> QED
        BY <2>2, <2>3
    <2>5. n + 1 \in Nat
      OBVIOUS
    <2> HIDE DEF g, Good
    <2> QED
      BY <2>4, <2>5
  <1>3. S = Nat
    <2> HIDE DEF S
    <2>1. S \in SUBSET Nat
      BY DEF S
    <2> QED
      BY <1>1, <1>2, <2>1, Induction
  <1>4. PICK f : Good(f, len)
    BY <1>3
  <1> DEFINE e == [k \in 0 .. len |-> f[k]]
  <1>5. e = Body(e, len)
    <2>1. ASSUME NEW k \in 0 .. len
          PROVE  e[k] = Body(e, len)[k]
      <3>1. CASE k = 0
        BY <1>4, <3>1
      <3>2. CASE k # 0
        <4>1. k \in 1 .. len /\ k - 1 \in 0 .. len
          BY <3>2
        <4>2. e[k] = f[k] /\ e[k - 1] = f[k - 1]
          BY <4>1
        <4>3. f[k] = f[k - 1] \o txs[k].ins
          BY <1>4, <4>1
        <4>4. Body(e, len)[k] = e[k - 1] \o txs[k].ins
          BY <3>2, <4>1
        <4> QED
          BY <4>2, <4>3, <4>4
      <3> QED
        BY <3>1, <3>2
    <2>2. e = [k \in 0 .. len |-> e[k]] /\ Body(e, len) = [k \in 0 .. len |-> Body(e, len)[k]]
      OBVIOUS
    <2> HIDE DEF e, Body
    <2> QED
      BY <2>1, <2>2
  <1> DEFINE F == InsUpTo(txs)
  <1>6. F = Body(F, len)
    <2>1. InsUpTo(txs) = CHOOSE x : x = Body(x, len)
      BY DEF InsUpTo
    <2> HIDE DEF Body, e
    <2> QED
      BY <1>5, <2>1
  <1>7. ASSUME NEW k \in 0 .. len
        PROVE  F[k] = IF k = 0 THEN <<>> ELSE F[k - 1] \o txs[k].ins
    <2> HIDE DEF F
    <2>1. Body(F, len)[k] = IF k = 0 THEN <<>> ELSE F[k - 1] \o txs[k].ins
      OBVIOUS
    <2> HIDE DEF Body
    <2> QED
      BY <1>6, <2>1
  <1>8. 0 \in 0 .. len /\ \A k \in 1 .. len : k \in 0 .. len /\ k # 0
    OBVIOUS
  <1> QED
    BY <1>7, <1>8

LEMMA InsUpToFacts ==
  ASSUME NEW txs \in Seq(Stored)
  PROVE  /\ InsUpTo(txs)[0] = <<>>
         /\ \A k \in 1 .. Len(txs) : InsUpTo(txs)[k] = InsUpTo(txs)[k - 1] \o txs[k].ins
         /\ \A k \in 0 .. Len(txs) : InsUpTo(txs)[k] \in Seq(OutPoint)
  <1>1. Len(txs) \in Nat
    OBVIOUS
  <1>2. InsUpTo(txs)[0] = <<>>
    BY <1>1, InsUpToUnfolds
  <1>3. \A k \in 1 .. Len(txs) : InsUpTo(txs)[k] = InsUpTo(txs)[k - 1] \o txs[k].ins
    BY <1>1, InsUpToUnfolds
  <1> DEFINE S == {n \in Nat : n <= Len(txs) => InsUpTo(txs)[n] \in Seq(OutPoint)}
  <1>4. 0 \in S
    <2>1. <<>> \in Seq(OutPoint)
      OBVIOUS
    <2> QED
      BY <1>2, <2>1
  <1>5. ASSUME NEW n \in S
        PROVE  n + 1 \in S
    <2> SUFFICES ASSUME n + 1 <= Len(txs)
                 PROVE  InsUpTo(txs)[n + 1] \in Seq(OutPoint)
      OBVIOUS
    <2>1. n + 1 \in 1 .. Len(txs) /\ (n + 1) - 1 = n /\ n <= Len(txs)
      OBVIOUS
    <2>2. InsUpTo(txs)[n] \in Seq(OutPoint)
      BY <2>1
    <2>3. txs[n + 1].ins \in Seq(OutPoint)
      BY <2>1, StoredFacts
    <2>4. InsUpTo(txs)[n + 1] = InsUpTo(txs)[n] \o txs[n + 1].ins
      BY <1>3, <2>1
    <2> QED
      BY <2>2, <2>3, <2>4
  <1>6. S = Nat
    <2> HIDE DEF S
    <2>1. S \in SUBSET Nat
      BY DEF S
    <2> QED
      BY <1>4, <1>5, <2>1, Induction
  <1>7. \A k \in 0 .. Len(txs) : InsUpTo(txs)[k] \in Seq(OutPoint)
    BY <1>6
  <1> QED
    BY <1>2, <1>3, <1>7

LEMMA Behind ==
  ASSUME NEW a \in Nat, NEW b \in Nat
  PROVE  /\ \A i \in 1 .. b : a + i \in 1 .. a + b /\ a + i > a /\ (a + i) - a = i
         /\ \A i \in 1 .. a : i \in 1 .. a + b
  OBVIOUS

\* Input i of transaction k stands behind the inputs of those before it.
LEMMA InputPlace ==
  ASSUME NEW txs \in Seq(Stored), NEW k \in 1 .. Len(txs), NEW i \in 1 .. Len(txs[k].ins)
  PROVE  /\ Len(InsUpTo(txs)[k - 1]) + i \in 1 .. Len(AllIns(txs))
         /\ AllIns(txs)[Len(InsUpTo(txs)[k - 1]) + i] = txs[k].ins[i]
  <1> DEFINE U == InsUpTo(txs)
             j == Len(U[k - 1]) + i
             There(m) == j \in 1 .. Len(U[m]) /\ U[m][j] = txs[k].ins[i]
             S == {n \in Nat : k + n <= Len(txs) => There(k + n)}
  <1>1. /\ \A m \in 1 .. Len(txs) :
             /\ m - 1 \in 0 .. Len(txs) /\ txs[m].ins \in Seq(OutPoint)
             /\ U[m] = U[m - 1] \o txs[m].ins
        /\ \A m \in 0 .. Len(txs) : U[m] \in Seq(OutPoint)
    <2>1. ASSUME NEW m \in 1 .. Len(txs)
          PROVE  m - 1 \in 0 .. Len(txs) /\ txs[m].ins \in Seq(OutPoint)
      BY StoredFacts
    <2>2. \A m \in 1 .. Len(txs) : U[m] = U[m - 1] \o txs[m].ins
      BY InsUpToFacts
    <2>3. \A m \in 0 .. Len(txs) : U[m] \in Seq(OutPoint)
      BY InsUpToFacts
    <2> QED
      BY <2>1, <2>2, <2>3
  <1> HIDE DEF U
  <1>2. There(k)
    <2>1. U[k - 1] \in Seq(OutPoint) /\ txs[k].ins \in Seq(OutPoint)
      BY <1>1
    <2>2. U[k] = U[k - 1] \o txs[k].ins
      BY <1>1
    <2>3. Len(U[k - 1]) \in Nat /\ Len(txs[k].ins) \in Nat
      BY <2>1
    <2>4. Len(U[k - 1] \o txs[k].ins) = Len(U[k - 1]) + Len(txs[k].ins)
      BY <2>1
    <2>5. /\ j \in 1 .. Len(U[k - 1]) + Len(txs[k].ins)
          /\ j > Len(U[k - 1]) /\ j - Len(U[k - 1]) = i
      BY <2>3, Behind
    <2>6. (U[k - 1] \o txs[k].ins)[j] = txs[k].ins[j - Len(U[k - 1])]
      <3> HIDE DEF j
      <3> QED
        BY <2>1, <2>3, <2>5
    <2> QED
      BY <2>2, <2>4, <2>5, <2>6
  <1>3. ASSUME NEW m \in 2 .. Len(txs), There(m - 1)
        PROVE  There(m)
    <2>1. m - 1 \in 0 .. Len(txs) /\ m \in 1 .. Len(txs)
      OBVIOUS
    <2>2. U[m - 1] \in Seq(OutPoint) /\ txs[m].ins \in Seq(OutPoint)
      BY <1>1, <2>1
    <2>3. U[m] = U[m - 1] \o txs[m].ins
      BY <1>1, <2>1
    <2>4. Len(U[m - 1]) \in Nat /\ Len(txs[m].ins) \in Nat
      BY <2>2
    <2> HIDE DEF j
    <2>5. Len(U[m - 1] \o txs[m].ins) = Len(U[m - 1]) + Len(txs[m].ins)
      BY <2>2
    <2>6. j \in 1 .. Len(U[m - 1]) /\ j \in 1 .. Len(U[m - 1]) + Len(txs[m].ins)
      BY <1>3, <2>4, Behind
    <2>7. (U[m - 1] \o txs[m].ins)[j] = U[m - 1][j]
      BY <2>2, <2>4, <2>6
    <2> QED
      BY <1>3, <2>3, <2>5, <2>6, <2>7
  <1> HIDE DEF There
  <1>4. 0 \in S
    <2>1. k + 0 = k
      OBVIOUS
    <2> QED
      BY <1>2, <2>1
  <1>5. ASSUME NEW n \in S
        PROVE  n + 1 \in S
    <2> SUFFICES ASSUME k + (n + 1) <= Len(txs)
                 PROVE  There(k + (n + 1))
      OBVIOUS
    <2>1. k + (n + 1) \in 2 .. Len(txs) /\ (k + (n + 1)) - 1 = k + n /\ k + n <= Len(txs)
      OBVIOUS
    <2>2. There(k + n)
      BY <2>1
    <2> QED
      BY <1>3, <2>1, <2>2
  <1>6. S = Nat
    <2> HIDE DEF S
    <2>1. S \in SUBSET Nat
      BY DEF S
    <2> QED
      BY <1>4, <1>5, <2>1, Induction
  <1>7. Len(txs) - k \in Nat /\ k + (Len(txs) - k) = Len(txs) /\ Len(txs) <= Len(txs)
    OBVIOUS
  <1>8. There(Len(txs))
    <2>1. Len(txs) - k \in S
      BY <1>6, <1>7
    <2>2. k + (Len(txs) - k) <= Len(txs) => There(k + (Len(txs) - k))
      BY <2>1
    <2> QED
      BY <1>7, <2>2
  <1> QED
    BY <1>8 DEF AllIns, There, U

\* What the loop over popped values has pushed after each of them.
LEMMA PushedUnfolds ==
  ASSUME NEW popped, NEW len \in Nat, Len(popped) = len
  PROVE  \E F : /\ Pushed(popped) = F[len]
                /\ F[0] = <<>>
                /\ \A i \in 1 .. len : F[i] = IF popped[i] = None THEN F[i - 1]
                                              ELSE Append(F[i - 1], popped[i])
  <1> DEFINE Turn(f, i) == IF popped[i] = None THEN f[i - 1] ELSE Append(f[i - 1], popped[i])
             Body(f, n) == [i \in 0 .. n |-> IF i = 0 THEN <<>> ELSE Turn(f, i)]
             Good(f, n) == f[0] = <<>> /\ \A i \in 1 .. n : f[i] = Turn(f, i)
             S == {n \in Nat : \E f : Good(f, n)}
  <1>0. ASSUME NEW f, NEW g, NEW i, f[i - 1] = g[i - 1]
        PROVE  Turn(f, i) = Turn(g, i)
    BY <1>0
  <1> HIDE DEF Turn
  <1>1. 0 \in S
    <2>1. Good([i \in 0 .. 0 |-> <<>>], 0)
      OBVIOUS
    <2> QED
      BY <2>1
  <1>2. ASSUME NEW n \in S
        PROVE  n + 1 \in S
    <2>1. PICK f : Good(f, n)
      OBVIOUS
    <2> DEFINE g == [i \in 0 .. n + 1 |-> IF i = n + 1 THEN Turn(f, n + 1) ELSE f[i]]
    <2>2. g[0] = <<>>
      BY <2>1
    <2>3. ASSUME NEW i \in 1 .. n + 1
          PROVE  g[i] = Turn(g, i)
      <3>1. i - 1 \in 0 .. n + 1 /\ i \in 0 .. n + 1 /\ i - 1 # n + 1
        OBVIOUS
      <3>2. g[i - 1] = f[i - 1]
        BY <3>1
      <3>3. Turn(g, i) = Turn(f, i)
        <4> HIDE DEF g
        <4> QED
          BY <1>0, <3>2
      <3>4. CASE i = n + 1
        <4>1. n + 1 \in 0 .. n + 1
          OBVIOUS
        <4>2. g[n + 1] = Turn(f, n + 1)
          BY <4>1
        <4> HIDE DEF g
        <4> QED
          BY <3>3, <3>4, <4>2
      <3>5. CASE i # n + 1
        <4>1. i \in 1 .. n /\ g[i] = f[i]
          BY <3>1, <3>5
        <4>2. f[i] = Turn(f, i)
          BY <2>1, <4>1
        <4> HIDE DEF g
        <4> QED
          BY <3>3, <4>1, <4>2
      <3> QED
        BY <3>4, <3>5
    <2>4. Good(g, n + 1)
      <3> HIDE DEF g
      <3> QED
        BY <2>2, <2>3
    <2>5. n + 1 \in Nat
      OBVIOUS
    <2> HIDE DEF g, Good
    <2> QED
      BY <2>4, <2>5
  <1>3. S = Nat
    <2> HIDE DEF S
    <2>1. S \in SUBSET Nat
      BY DEF S
    <2> QED
      BY <1>1, <1>2, <2>1, Induction
  <1>4. PICK f : Good(f, len)
    BY <1>3
  <1> DEFINE e == [i \in 0 .. len |-> f[i]]
  <1>5. e = Body(e, len)
    <2>1. ASSUME NEW i \in 0 .. len
          PROVE  e[i] = Body(e, len)[i]
      <3>1. CASE i = 0
        BY <1>4, <3>1
      <3>2. CASE i # 0
        <4>1. i \in 1 .. len /\ i - 1 \in 0 .. len
          BY <3>2
        <4>2. e[i] = f[i] /\ e[i - 1] = f[i - 1]
          BY <4>1
        <4>3. f[i] = Turn(f, i)
          BY <1>4, <4>1
        <4>4. Body(e, len)[i] = Turn(e, i)
          BY <3>2, <4>1
        <4> HIDE DEF e, Body
        <4>5. Turn(e, i) = Turn(f, i)
          BY <1>0, <4>2
        <4> QED
          BY <4>2, <4>3, <4>4, <4>5
      <3> QED
        BY <3>1, <3>2
    <2>2. e = [i \in 0 .. len |-> e[i]] /\ Body(e, len) = [i \in 0 .. len |-> Body(e, len)[i]]
      OBVIOUS
    <2> HIDE DEF e, Body
    <2> QED
      BY <2>1, <2>2
  <1> DEFINE F == CHOOSE x : x = Body(x, len)
  <1>6. F = Body(F, len)
    <2> HIDE DEF Body, e
    <2> QED
      BY <1>5
  <1>7. Pushed(popped) = F[len]
    BY DEF Pushed, Turn
  <1> HIDE DEF F
  <1>8. ASSUME NEW i \in 0 .. len
        PROVE  F[i] = IF i = 0 THEN <<>> ELSE Turn(F, i)
    <2>1. Body(F, len)[i] = IF i = 0 THEN <<>> ELSE Turn(F, i)
      OBVIOUS
    <2> HIDE DEF Body
    <2> QED
      BY <1>6, <2>1
  <1>9. 0 \in 0 .. len /\ \A i \in 1 .. len : i \in 0 .. len /\ i # 0
    OBVIOUS
  <1>10. F[0] = <<>> /\ \A i \in 1 .. len : F[i] = Turn(F, i)
    BY <1>8, <1>9
  <1> QED
    BY <1>7, <1>10 DEF Turn

\* All are pushed when none is None, and fewer otherwise.
LEMMA PushedFacts ==
  ASSUME NEW T, NEW popped \in Seq(T)
  PROVE  /\ Pushed(popped) \in Seq(T)
         /\ (\A i \in 1 .. Len(popped) : popped[i] # None) => Pushed(popped) = popped
         /\ (\E i \in 1 .. Len(popped) : popped[i] = None) => Len(Pushed(popped)) < Len(popped)
  <1> DEFINE len == Len(popped)
  <1>1. len \in Nat
    OBVIOUS
  <1>2. PICK F : /\ Pushed(popped) = F[len]
                 /\ F[0] = <<>>
                 /\ \A i \in 1 .. len : F[i] = IF popped[i] = None THEN F[i - 1]
                                               ELSE Append(F[i - 1], popped[i])
    BY <1>1, PushedUnfolds
  <1> DEFINE So(n) == /\ F[n] \in Seq(T) /\ Len(F[n]) <= n
                      /\ (\A i \in 1 .. n : popped[i] # None) =>
                           Len(F[n]) = n /\ \A i \in 1 .. n : F[n][i] = popped[i]
                      /\ (\E i \in 1 .. n : popped[i] = None) => Len(F[n]) < n
             S == {n \in Nat : n <= len => So(n)}
  <1>3. So(0)
    BY <1>2
  <1>4. ASSUME NEW n \in Nat, n + 1 <= len, So(n)
        PROVE  So(n + 1)
    <2>1. n + 1 \in 1 .. len /\ (n + 1) - 1 = n /\ n + 1 \in 1 .. n + 1
      BY <1>1, <1>4
    <2>2. popped[n + 1] \in T
      BY <2>1
    <2>3. F[n + 1] = IF popped[n + 1] = None THEN F[n] ELSE Append(F[n], popped[n + 1])
      BY <1>2, <2>1
    <2>4. F[n] \in Seq(T) /\ Len(F[n]) \in Nat /\ Len(F[n]) <= n
      BY <1>4
    <2>5. \A i \in 1 .. n + 1 : i \in 1 .. n \/ i = n + 1
      OBVIOUS
    <2>6. \A i \in 1 .. n : i \in 1 .. n + 1
      OBVIOUS
    <2>7. CASE popped[n + 1] = None
      <3>1. F[n + 1] = F[n] /\ Len(F[n]) <= n + 1 /\ Len(F[n]) < n + 1
        BY <2>3, <2>4, <2>7
      <3> QED
        BY <2>1, <2>4, <2>7, <3>1
    <2>8. CASE popped[n + 1] # None
      <3>1. F[n + 1] = Append(F[n], popped[n + 1])
        BY <2>3, <2>8
      <3>2. /\ F[n + 1] \in Seq(T) /\ Len(F[n + 1]) = Len(F[n]) + 1
            /\ \A i \in 1 .. Len(F[n]) : F[n + 1][i] = F[n][i]
            /\ F[n + 1][Len(F[n]) + 1] = popped[n + 1]
        BY <2>2, <2>4, <3>1
      <3>3. Len(F[n + 1]) <= n + 1
        BY <2>4, <3>2
      <3>4. ASSUME \A i \in 1 .. n + 1 : popped[i] # None
            PROVE  Len(F[n + 1]) = n + 1 /\ \A i \in 1 .. n + 1 : F[n + 1][i] = popped[i]
        <4>1. \A i \in 1 .. n : popped[i] # None
          BY <2>6, <3>4
        <4>2. Len(F[n]) = n /\ \A i \in 1 .. n : F[n][i] = popped[i]
          BY <1>4, <4>1
        <4> QED
          BY <2>5, <3>2, <4>2
      <3>5. ASSUME \E i \in 1 .. n + 1 : popped[i] = None
            PROVE  Len(F[n + 1]) < n + 1
        <4>1. \E i \in 1 .. n : popped[i] = None
          BY <2>5, <2>8, <3>5
        <4>2. Len(F[n]) < n
          BY <1>4, <4>1
        <4> QED
          BY <2>4, <3>2, <4>2
      <3> QED
        BY <3>2, <3>3, <3>4, <3>5
    <2> QED
      BY <2>7, <2>8
  <1> HIDE DEF So, len
  <1>5. S = Nat
    <2>1. 0 \in S
      BY <1>3
    <2>2. \A n \in S : n + 1 \in S
      <3> TAKE n \in S
      <3>1. n + 1 \in Nat /\ (n + 1 <= len => n <= len)
        BY <1>1
      <3> QED
        BY <1>4, <3>1
    <2>3. S \in SUBSET Nat
      OBVIOUS
    <2> HIDE DEF S
    <2> QED
      BY <2>1, <2>2, <2>3, Induction
  <1>6. So(len)
    BY <1>1, <1>5
  <1>7. ASSUME \A i \in 1 .. Len(popped) : popped[i] # None
        PROVE  Pushed(popped) = popped
    <2>1. /\ Pushed(popped) \in Seq(T) /\ Len(Pushed(popped)) = Len(popped)
          /\ \A i \in 1 .. Len(popped) : Pushed(popped)[i] = popped[i]
      BY <1>2, <1>6, <1>7 DEF So, len
    <2> QED
      BY <2>1
  <1> QED
    BY <1>2, <1>6, <1>7 DEF So, len

-----------------------------------------------------------------------------
(* Connecting inputs.                                                      *)

\* What a task may return.
Out == (Txids \X Nat) \cup {None}

\* The output that outpoint o names, or None where there is none.
Answers(o, c) ==
  \/ c = <<o.txid, o.vout>> /\ c # None /\ Resolvable(o)
  \/ c = None /\ ~Resolvable(o)

LEMMA OutFacts ==
  ASSUME NEW t \in Txids, NEW n \in Nat
  PROVE  <<t, n>> \in Out /\ <<t, n>> # None /\ <<t, n>> # Pending
  <1>1. <<t, n>> \in Txids \X Nat
    OBVIOUS
  <1> QED
    BY <1>1, StoredAssumption DEF Out

LEMMA ConnectType ==
  ASSUME NEW o \in OutPoint, NEW r \in connect_input(o), r.ok
  PROVE  r.v \in Out /\ r.v # Pending
  <1>0. None \in Out /\ None # Pending
    BY StoredAssumption DEF Out
  <1>1. CASE is_coin_base(o)
    BY <1>0, <1>1, Outcomes DEF connect_input
  <1>2. CASE ~is_coin_base(o) /\ is_genesis_tx(o.txid)
    <2>1. PICK b \in get_block(0) : r \in IF b.ok THEN {Ok(<<b.v[1].txid, 0>>)} ELSE {b}
      BY <1>2 DEF connect_input, AndThen
    <2>2. b # Err("Io")
      BY <2>1, Outcomes
    <2>3. b = Ok(Disk[Records[1]]) /\ Disk[Records[1]][1] \in Stored
      BY <2>2, GenesisBlock
    <2>4. r = Ok(<<Disk[Records[1]][1].txid, 0>>) /\ Disk[Records[1]][1].txid \in Txids
      BY <2>1, <2>3, Outcomes, StoredFacts
    <2> QED
      BY <2>4, OutFacts, Outcomes
  <1>3. CASE ~is_coin_base(o) /\ ~is_genesis_tx(o.txid)
    <2>1. PICK p \in read_indexed(o.txid) : r \in IF p.ok THEN {Ok(Output(p.v, o.vout))} ELSE {p}
      BY <1>3 DEF connect_input, AndThen
    <2>2. p.ok /\ r = Ok(Output(p.v, o.vout))
      BY <2>1
    <2>3. PICK tx \in Stored : p = Ok(tx)
      BY <2>2, IndexedFacts, Outcomes
    <2>4. p.v = tx /\ tx.txid \in Txids /\ o.vout \in Nat
      BY <1>3, <2>3, Outcomes, StoredFacts DEF OutPoint, is_coin_base
    <2>5. Output(tx, o.vout) \in Out /\ Output(tx, o.vout) # Pending
      BY <1>0, <2>4, OutFacts DEF Output
    <2> QED
      BY <2>2, <2>4, <2>5, Outcomes
  <1> QED
    BY <1>1, <1>2, <1>3

\* A task that does not meet an I/O error gives the right answer: its other
\* errors mean that the outpoint leads nowhere.
LEMMA ConnectFacts ==
  ASSUME NEW tx \in Stored, NEW i \in 1 .. Len(tx.ins), NEW r \in connect_input(tx.ins[i])
  PROVE  LET c == IF r.ok THEN r.v ELSE None
         IN  \/ Answers(tx.ins[i], c)
             \/ ~r.ok /\ r.why = "Io" /\ c = None
  <1> DEFINE o == tx.ins[i]
  <1>0. o \in OutPoint /\ i \in DOMAIN tx.ins
    BY StoredFacts
  <1>1. CASE is_coin_base(o)
    <2>1. r = Ok(None) /\ ~Resolvable(o)
      BY <1>1 DEF connect_input, Resolvable, is_coin_base
    <2> QED
      BY <2>1, Outcomes DEF Answers
  <1>2. CASE ~is_coin_base(o) /\ is_genesis_tx(o.txid)
    <2>1. PICK b \in get_block(0) : r \in IF b.ok THEN {Ok(<<b.v[1].txid, 0>>)} ELSE {b}
      BY <1>2 DEF connect_input, AndThen
    <2>2. CASE b = Err("Io")
      BY <2>1, <2>2, Outcomes
    <2>3. CASE b # Err("Io")
      <3>1. /\ b = Ok(Disk[Records[1]]) /\ Disk[Records[1]][1] \in Stored
            /\ Disk[Records[1]][1].txid = GenesisTxid /\ Disk[Records[1]][1].outs = 1
        BY <2>3, GenesisBlock
      <3>2. r = Ok(<<GenesisTxid, 0>>)
        BY <2>1, <3>1, Outcomes
      <3>3. o.txid = GenesisTxid /\ o.vout = 0 /\ o # NullOutPoint
        BY <1>0, <1>2, GenesisAssumption DEF is_genesis_tx, is_coin_base
      <3>4. Resolvable(o)
        <4>1. Disk[Records[1]][1] \in TxsOf(o.txid)
          BY <3>1, <3>3 DEF TxsOf
        <4>2. o.vout < Disk[Records[1]][1].outs
          BY <3>1, <3>3
        <4> QED
          BY <1>2, <3>3, <4>1, <4>2 DEF Resolvable
      <3>5. <<GenesisTxid, 0>> # None
        BY <3>1, OutFacts, StoredFacts
      <3> QED
        BY <3>2, <3>3, <3>4, <3>5, Outcomes DEF Answers
    <2> QED
      BY <2>2, <2>3
  <1>3. CASE ~is_coin_base(o) /\ ~is_genesis_tx(o.txid)
    <2>1. PICK p \in read_indexed(o.txid) : r \in IF p.ok THEN {Ok(Output(p.v, o.vout))} ELSE {p}
      BY <1>3 DEF connect_input, AndThen
    <2>2. CASE p = Err("Io")
      BY <2>1, <2>2, Outcomes
    <2>3. CASE p = Err("TransactionRecordNotFound") /\ o.txid \notin DOMAIN TxIndex
      <3>1. ~Resolvable(o)
        BY <1>3, <2>3 DEF Resolvable
      <3>2. ~r.ok
        BY <2>1, <2>3, Outcomes
      <3> QED
        BY <3>1, <3>2 DEF Answers
    <2>4. CASE o.txid \in DOMAIN TxIndex /\ \E t \in Stored : t.txid = o.txid /\ p = Ok(t)
      <3>1. PICK t \in Stored : t.txid = o.txid /\ p = Ok(t)
        BY <2>4
      <3>2. r = Ok(Output(t, o.vout))
        BY <2>1, <3>1, Outcomes
      <3>3. o.vout \in Nat /\ t.outs \in Nat /\ t.txid \in Txids /\ o # NullOutPoint
        BY <1>0, <1>3, StoredFacts DEF OutPoint, is_coin_base
      <3>4. TxsOf(o.txid) = {t}
        BY <3>1, StoredAssumption DEF TxsOf
      <3>5. Resolvable(o) <=> o.vout < t.outs
        BY <2>4, <3>3, <3>4 DEF Resolvable
      <3>6. CASE o.vout < t.outs
        <4>1. r = Ok(<<o.txid, o.vout>>)
          BY <3>1, <3>2, <3>6 DEF Output
        <4>2. <<o.txid, o.vout>> # None
          BY <3>1, <3>3, OutFacts
        <4> QED
          BY <3>5, <3>6, <4>1, <4>2, Outcomes DEF Answers
      <3>7. CASE ~(o.vout < t.outs)
        <4>1. r = Ok(None)
          BY <3>2, <3>7 DEF Output
        <4> QED
          BY <3>5, <3>7, <4>1, Outcomes DEF Answers
      <3> QED
        BY <3>6, <3>7
    <2> QED
      BY <2>2, <2>3, <2>4, IndexedFacts
  <1> QED
    BY <1>1, <1>2, <1>3

-----------------------------------------------------------------------------
(* The inductive invariant.                                                *)

\* There is a slot for each input, in the order of the inputs.
TasksType ==
  /\ transactions \in Seq(Stored)
  /\ connected_outputs \in Seq(Out \cup {Pending})
  /\ Len(connected_outputs) = Len(AllIns(transactions))

\* Where the output of input i of transaction k is.
Place(k, i) == Len(InsUpTo(transactions)[k - 1]) + i

\* What a slot holds is what the input of that place names.
TasksRight ==
  \A k \in 1 .. Len(transactions) : \A i \in 1 .. Len(transactions[k].ins) :
    LET c == connected_outputs[Place(k, i)]
    IN  \/ c = Pending
        \/ Answers(transactions[k].ins[i], c)
        \/ c = None /\ lost # {}

ConnectOps == {"get_connected_block", "get_connected_transaction"}

BlockReplies(c) ==
  AndThen(get_block(c.arg), LAMBDA block : {Ok(into_block(c.format, block))})
TransactionReplies(c) ==
  AndThen(get_transaction(c.arg), LAMBDA tx : {Ok(into(c.format, tx))})

\* Where a reply comes from.
ReplyRight ==
  reply # NoReply =>
    \/ reply = Err("TxDbUnavailable") /\ ~tx_db /\ call.op # "get_block"
    \/ /\ call.op = "get_block"
       /\ reply \in BlockReplies(call)
    \/ /\ call.op = "get_transaction" /\ tx_db
       /\ reply \in TransactionReplies(call)
    \/ /\ call.op = "get_block_height" /\ tx_db
       /\ reply \in get_block_height(call.arg)
    \/ call.op \in ConnectOps /\ ~reply.ok /\ reply # Err("MissingOutputs")
    \/ /\ call.op \in ConnectOps
       /\ reply = ConnectReply(transactions, connected_outputs)
       /\ Pending \notin ToSet(connected_outputs)

QueryInv ==
  /\ call = NoCall => /\ reply = NoReply /\ lost = {}
                      /\ transactions = <<>> /\ connected_outputs = <<>>
  /\ call # NoCall => phase = "ready" /\ call \in Calls /\ ReplyRight
  /\ call # NoCall /\ reply = NoReply => call.op \in ConnectOps

IInv == Opened /\ TasksType /\ TasksRight /\ QueryInv

-----------------------------------------------------------------------------
\* No inputs, no slots.
LEMMA NoTasks ==
  /\ <<>> \in Seq(Stored) /\ AllIns(<<>>) = <<>>
  <1>1. <<>> \in Seq(Stored) /\ Len(<<>>) = 0
    OBVIOUS
  <1>2. InsUpTo(<<>>)[0] = <<>>
    BY <1>1, InsUpToFacts
  <1> QED
    BY <1>1, <1>2 DEF AllIns

LEMMA IdleTasks ==
  ASSUME transactions = <<>>, connected_outputs = <<>>
  PROVE  TasksType /\ TasksRight
  <1>1. Len(<<>>) = 0 /\ <<>> \in Seq(Out \cup {Pending})
    OBVIOUS
  <1>2. TasksType
    BY <1>1, NoTasks DEF TasksType
  <1>3. \A k \in 1 .. Len(transactions) : FALSE
    BY <1>1
  <1> QED
    BY <1>2, <1>3 DEF TasksRight

LEMMA InitInv == Init => IInv
  <1> SUFFICES ASSUME Init PROVE IInv
    OBVIOUS
  <1>1. TasksType /\ TasksRight
    BY IdleTasks DEF Init
  <1>2. Opened
    BY DEF Init, Opened
  <1>3. QueryInv
    BY DEF Init, QueryInv
  <1> QED
    BY <1>1, <1>2, <1>3 DEF IInv

\* The tasks of a query stay as they are when nothing of it changes.
LEMMA TasksStay ==
  ASSUME TasksType, TasksRight, UNCHANGED <<transactions, connected_outputs, lost>>
  PROVE  TasksType' /\ TasksRight'
  <1>1. TasksType'
    BY DEF TasksType
  <1>2. \A k, i : Place(k, i)' = Place(k, i)
    BY DEF Place
  <1>3. TasksRight'
    BY <1>2 DEF TasksRight
  <1> QED
    BY <1>1, <1>3

\* A query that is running stays as it is.
LEMMA QueryStays ==
  ASSUME QueryInv, UNCHANGED <<phase, opened, query>>
  PROVE  QueryInv'
  <1>1. UNCHANGED <<call, transactions, connected_outputs, reply, lost>>
    BY DEF query
  <1>0. UNCHANGED <<phase, tx_db, file_pos_to_height>>
    BY DEF opened
  <1>2. \A t : get_block_height(t)' = get_block_height(t)
    BY <1>0 DEF get_block_height, AndThen, HeightAt
  <1>3. ReplyRight => ReplyRight'
    BY <1>0, <1>1, <1>2 DEF ReplyRight
  <1> QED
    BY <1>0, <1>1, <1>3 DEF QueryInv

\* new() has no query, and TxDB::open fills the map.
LEMMA NewInv ==
  ASSUME IInv, NEW ok \in BOOLEAN, new(ok)
  PROVE  IInv'
  <1>1. UNCHANGED <<call, transactions, connected_outputs, reply, lost>> /\ phase # "ready"
    BY DEF new, load_block_index, open_tx_db, open_files, query
  <1>2. TasksType' /\ TasksRight'
    BY <1>1, TasksStay DEF IInv
  <1>3. QueryInv'
    BY <1>1 DEF IInv, QueryInv
  <1>4. Opened'
    <2>1. CASE open_tx_db(ok)
      <3>1. {i \in DOMAIN Records : \A j \in DOMAIN Records :
               PosKey(Records[j]) = PosKey(Records[i]) => j <= i} = DOMAIN Records
        <4>1. ASSUME NEW i \in DOMAIN Records, NEW j \in DOMAIN Records, Records[j] = Records[i]
              PROVE  j <= i
          <5>1. i = j /\ i \in Nat
            BY <4>1, DbAssumption
          <5> QED
            BY <5>1
        <4> QED
          BY <4>1 DEF PosKey
      <3>2. tx_db' = (tx_index /\ ok)
        BY <2>1 DEF open_tx_db
      <3>3. (tx_index /\ ok) =>
              file_pos_to_height' = {<<PosKey(Records[i]), i - 1>> : i \in DOMAIN Records}
        BY <2>1, <3>1 DEF open_tx_db
      <3> QED
        BY <3>2, <3>3 DEF Opened, PosKey
    <2>2. CASE load_block_index(ok) \/ open_files(ok)
      BY <2>2 DEF load_block_index, open_files, opened, IInv, Opened
    <2> QED
      BY <2>1, <2>2 DEF new
  <1> QED
    BY <1>2, <1>3, <1>4 DEF IInv

\* The transactions that a connected query begins with, or why it does not.
LEMMA FetchFacts ==
  ASSUME NEW c \in Calls, NEW r \in Fetch(c)
  PROVE  /\ c.op \in ConnectOps
         /\ r.ok => r.v \in Seq(Stored)
         /\ ~r.ok => r # Err("MissingOutputs") /\ r # NoReply
  <1>0. \A why \in {"Io", "BlockIndexRecordNotFound", "TransactionRecordNotFound"} :
          Err(why) # Err("MissingOutputs") /\ Err(why) # NoReply
    BY DEF Err, NoReply
  <1>1. CASE c.op = "get_connected_block"
    <2>1. r \in get_block(c.arg) /\ c.arg \in 0 .. Len(Records)
      BY <1>1 DEF Fetch, Calls
    <2>2. CASE c.arg + 1 \in DOMAIN Records /\ r = Ok(Disk[Records[c.arg + 1]])
      <3>1. r.ok = TRUE /\ r.v = Disk[Records[c.arg + 1]]
        BY <2>2, Outcomes
      <3> QED
        BY <1>1, <2>2, <3>1, RecordFacts DEF ConnectOps
    <2>3. CASE r = Err("Io") \/ r = Err("BlockIndexRecordNotFound")
      BY <1>0, <1>1, <2>3, Outcomes DEF ConnectOps
    <2> QED
      BY <2>1, <2>2, <2>3, BlockFacts
  <1>2. CASE c.op = "get_connected_transaction"
    <2>1. PICK p \in get_transaction(c.arg) : r \in IF p.ok THEN {Ok(<<p.v>>)} ELSE {p}
      BY <1>2 DEF Fetch, AndThen
    <2>2. CASE \E tx \in Stored : p = Ok(tx)
      <3>1. PICK tx \in Stored : p = Ok(tx)
        BY <2>2
      <3>2. r = Ok(<<tx>>) /\ <<tx>> \in Seq(Stored)
        BY <2>1, <3>1, Outcomes
      <3>3. r.ok = TRUE /\ r.v = <<tx>>
        BY <3>2, Outcomes
      <3> QED
        BY <1>2, <3>2, <3>3 DEF ConnectOps
    <2>3. CASE p = Err("Io") \/ p = Err("TransactionRecordNotFound")
      <3>1. r = p /\ ~r.ok
        BY <2>1, <2>3, Outcomes
      <3> QED
        BY <1>0, <1>2, <2>3, <3>1 DEF ConnectOps
    <2> QED
      BY <2>1, <2>2, <2>3, TransactionFacts
  <1>3. CASE c.op \notin ConnectOps
    BY <1>3 DEF Fetch, ConnectOps
  <1> QED
    BY <1>1, <1>2, <1>3 DEF ConnectOps

LEMMA AllInsType ==
  ASSUME NEW txs \in Seq(Stored)
  PROVE  AllIns(txs) \in Seq(OutPoint)
  <1>1. Len(txs) \in 0 .. Len(txs)
    OBVIOUS
  <1>2. InsUpTo(txs)[Len(txs)] \in Seq(OutPoint)
    BY <1>1, InsUpToFacts
  <1> QED
    BY <1>2 DEF AllIns

\* A query that needs no tasks is answered at once.
LEMMA AnswerInv ==
  ASSUME IInv, NEW c \in Calls, phase = "ready", call = NoCall, call' = c, NEW r, answer(r),
         r # NoReply =>
           \/ r = Err("TxDbUnavailable") /\ ~tx_db /\ c.op # "get_block"
           \/ c.op = "get_block" /\ r \in BlockReplies(c)
           \/ c.op = "get_transaction" /\ tx_db /\ r \in TransactionReplies(c)
           \/ c.op = "get_block_height" /\ tx_db /\ r \in get_block_height(c.arg)
           \/ c.op \in ConnectOps /\ ~r.ok /\ r # Err("MissingOutputs"),
         r = NoReply => c.op \in ConnectOps
  PROVE  IInv'
  <1>1. /\ reply' = r /\ UNCHANGED <<phase, transactions, connected_outputs, lost>>
        /\ UNCHANGED <<tx_db, file_pos_to_height>>
    BY DEF answer, opened
  <1>2. TasksType' /\ TasksRight'
    BY <1>1, TasksStay DEF IInv
  <1>3. Opened'
    BY <1>1 DEF IInv, Opened
  <1>4. \A t : get_block_height(t)' = get_block_height(t)
    BY <1>1 DEF get_block_height, AndThen, HeightAt
  <1>5. ReplyRight'
    BY <1>1, <1>4 DEF ReplyRight
  <1>6. c # NoCall
    <2>1. c.op # "none" /\ NoCall.op = "none"
      BY DEF Calls, NoCall
    <2> QED
      BY <2>1
  <1>7. QueryInv'
    BY <1>1, <1>5, <1>6 DEF QueryInv
  <1> QED
    BY <1>2, <1>3, <1>7 DEF IInv

\* A place for each input, and none filled.
LEMMA ParIterInv ==
  ASSUME IInv, NEW c \in Calls, phase = "ready", call = NoCall, call' = c, par_iter(c)
  PROVE  IInv'
  <1>1. PICK r \in Fetch(c) :
          /\ r.ok
          /\ transactions' = r.v
          /\ connected_outputs' = [i \in DOMAIN AllIns(r.v) |-> Pending]
    BY DEF par_iter
  <1>2. /\ UNCHANGED <<phase, reply, lost, tx_db, file_pos_to_height>>
        /\ reply = NoReply
    BY DEF par_iter, opened, IInv, QueryInv
  <1>3. c.op \in ConnectOps /\ r.v \in Seq(Stored)
    BY <1>1, FetchFacts
  <1>4. AllIns(r.v) \in Seq(OutPoint)
    BY <1>3, AllInsType
  <1>5. /\ connected_outputs' \in Seq(Out \cup {Pending})
        /\ Len(connected_outputs') = Len(AllIns(r.v))
        /\ \A i \in 1 .. Len(AllIns(r.v)) : connected_outputs'[i] = Pending
    <2>1. DOMAIN AllIns(r.v) = 1 .. Len(AllIns(r.v)) /\ Len(AllIns(r.v)) \in Nat
      BY <1>4
    <2> QED
      BY <1>1, <2>1
  <1>6. TasksType'
    BY <1>1, <1>3, <1>5 DEF TasksType
  <1>7. TasksRight'
    <2> SUFFICES ASSUME NEW k \in 1 .. Len(r.v), NEW i \in 1 .. Len(r.v[k].ins)
                 PROVE  connected_outputs'[Place(k, i)'] = Pending
      BY <1>1 DEF TasksRight
    <2>1. Place(k, i)' = Len(InsUpTo(r.v)[k - 1]) + i
      BY <1>1 DEF Place
    <2>2. Place(k, i)' \in 1 .. Len(AllIns(r.v))
      BY <1>3, <2>1, InputPlace
    <2> QED
      BY <1>5, <2>2
  <1>8. Opened'
    BY <1>2 DEF IInv, Opened
  <1>9. QueryInv'
    <2>1. c # NoCall
      <3>1. c.op # "none" /\ NoCall.op = "none"
        BY DEF Calls, NoCall
      <3> QED
        BY <3>1
    <2> QED
      BY <1>2, <1>3, <2>1 DEF QueryInv, ReplyRight
  <1> QED
    BY <1>6, <1>7, <1>8, <1>9 DEF IInv

LEMMA BeginInv ==
  ASSUME IInv, NEW c \in Calls, begin(c)
  PROVE  IInv'
  <1>1. phase = "ready" /\ call = NoCall /\ call' = c
    BY DEF begin
  <1>2. CASE call_get_block(c)
    <2>1. PICK r \in BlockReplies(c) : answer(r)
      BY <1>2 DEF call_get_block, BlockReplies
    <2>2. c.op = "get_block"
      BY <1>2 DEF call_get_block
    <2>3. r # NoReply
      <3>1. PICK b \in get_block(c.arg) :
              r \in IF b.ok THEN {Ok(into_block(c.format, b.v))} ELSE {b}
        BY DEF BlockReplies, AndThen
      <3>2. CASE b.ok
        BY <3>1, <3>2, Outcomes
      <3>3. CASE ~b.ok
        <4>1. r = b /\ c.arg \in 0 .. Len(Records)
          BY <2>2, <3>1, <3>3 DEF Calls
        <4>2. b = Err("Io") \/ b = Err("BlockIndexRecordNotFound")
          BY <3>3, <4>1, BlockFacts, Outcomes
        <4> QED
          BY <4>1, <4>2 DEF Err, NoReply
      <3> QED
        BY <3>2, <3>3
    <2> QED
      BY <1>1, <2>1, <2>2, <2>3, AnswerInv
  <1>3. CASE call_unavailable(c)
    <2>1. Err("TxDbUnavailable") # NoReply
      BY DEF Err, NoReply
    <2> QED
      BY <1>1, <1>3, <2>1, AnswerInv DEF call_unavailable
  <1>4. CASE call_get_transaction(c)
    <2>1. PICK r \in TransactionReplies(c) : answer(r)
      BY <1>4 DEF call_get_transaction, TransactionReplies
    <2>2. c.op = "get_transaction" /\ tx_db
      BY <1>4 DEF call_get_transaction
    <2>3. r # NoReply
      <3>1. PICK p \in get_transaction(c.arg) :
              r \in IF p.ok THEN {Ok(into(c.format, p.v))} ELSE {p}
        BY DEF TransactionReplies, AndThen
      <3>2. CASE p.ok
        BY <3>1, <3>2, Outcomes
      <3>3. CASE ~p.ok
        <4>1. r = p
          BY <3>1, <3>3
        <4>2. p = Err("Io") \/ p = Err("TransactionRecordNotFound")
          BY <3>3, TransactionFacts, Outcomes
        <4> QED
          BY <4>1, <4>2 DEF Err, NoReply
      <3> QED
        BY <3>2, <3>3
    <2> QED
      BY <1>1, <2>1, <2>2, <2>3, AnswerInv
  <1>5. CASE call_get_block_height(c)
    <2>1. PICK r \in get_block_height(c.arg) : answer(r)
      BY <1>5 DEF call_get_block_height
    <2>2. c.op = "get_block_height" /\ tx_db
      BY <1>5 DEF call_get_block_height
    <2>3. r # NoReply
      <3>1. Opened
        BY DEF IInv
      <3>2. \/ r \in {Err("Io"), Err("TransactionRecordNotFound"),
                      Err("CannotFindHeightForTransaction")}
            \/ \E h : r = Ok(h)
        BY <2>2, <3>1, HeightFacts
      <3>3. \A why \in {"Io", "TransactionRecordNotFound", "CannotFindHeightForTransaction"} :
              Err(why) # NoReply
        BY DEF Err, NoReply
      <3> QED
        BY <3>2, <3>3, Outcomes
    <2> QED
      BY <1>1, <2>1, <2>2, <2>3, AnswerInv
  <1>6. CASE fetch_err(c)
    <2>1. PICK r \in Fetch(c) : ~r.ok /\ answer(r)
      BY <1>6 DEF fetch_err
    <2>2. c.op \in ConnectOps /\ r # Err("MissingOutputs") /\ r # NoReply
      BY <2>1, FetchFacts
    <2> QED
      BY <1>1, <2>1, <2>2, AnswerInv
  <1>7. CASE par_iter(c)
    BY <1>1, <1>7, ParIterInv
  <1> QED
    BY <1>2, <1>3, <1>4, <1>5, <1>6, <1>7 DEF begin

\* A task fills its own place, whatever the others have done.
LEMMA TaskInv ==
  ASSUME IInv, NEW j \in DOMAIN connected_outputs, task(j)
  PROVE  IInv'
  <1>1. /\ call # NoCall /\ reply = NoReply /\ connected_outputs[j] = Pending
        /\ UNCHANGED <<phase, tx_db, file_pos_to_height, call, transactions, reply>>
    BY DEF task, Running, opened
  <1>2. TasksType /\ TasksRight /\ Opened /\ QueryInv
    BY DEF IInv
  <1>3. PICK r \in connect_input(AllIns(transactions)[j]) :
          /\ connected_outputs' =
               [connected_outputs EXCEPT ![j] = IF r.ok THEN r.v ELSE None]
          /\ lost' = IF ~r.ok /\ r.why = "Io" THEN lost \cup {j} ELSE lost
    BY DEF task
  <1> DEFINE c == IF r.ok THEN r.v ELSE None
  <1>4. j \in 1 .. Len(AllIns(transactions)) /\ AllIns(transactions)[j] \in OutPoint
    BY <1>2, AllInsType DEF TasksType
  <1>5. c \in Out
    BY <1>3, <1>4, ConnectType DEF Out
  <1>6. /\ connected_outputs' \in Seq(Out \cup {Pending})
        /\ Len(connected_outputs') = Len(connected_outputs)
        /\ \A i \in 1 .. Len(connected_outputs) :
             connected_outputs'[i] = IF i = j THEN c ELSE connected_outputs[i]
    <2>1. connected_outputs \in Seq(Out \cup {Pending})
      BY <1>2 DEF TasksType
    <2>2. connected_outputs' = [connected_outputs EXCEPT ![j] = c]
      BY <1>3
    <2> HIDE DEF c
    <2> QED
      BY <1>5, <2>1, <2>2
  <1>7. TasksType'
    BY <1>1, <1>2, <1>6 DEF TasksType
  <1>8. lost # {} => lost' # {}
    BY <1>3
  <1>9. TasksRight'
    <2> SUFFICES ASSUME NEW k \in 1 .. Len(transactions), NEW i \in 1 .. Len(transactions[k].ins)
                 PROVE  LET d == connected_outputs'[Place(k, i)]
                        IN  \/ d = Pending
                            \/ Answers(transactions[k].ins[i], d)
                            \/ d = None /\ lost' # {}
      <3>1. \A k, i : Place(k, i)' = Place(k, i)
        BY <1>1 DEF Place
      <3> QED
        BY <1>1, <3>1 DEF TasksRight
    <2>1. transactions \in Seq(Stored) /\ transactions[k] \in Stored
      BY <1>2 DEF TasksType
    <2>2. /\ Place(k, i) \in 1 .. Len(AllIns(transactions))
          /\ AllIns(transactions)[Place(k, i)] = transactions[k].ins[i]
      BY <2>1, InputPlace DEF Place
    <2>3. Place(k, i) \in 1 .. Len(connected_outputs)
      BY <1>2, <2>2 DEF TasksType
    <2>4. CASE Place(k, i) = j
      <3>1. connected_outputs'[Place(k, i)] = c
        BY <1>6, <2>3, <2>4
      <3>2. r \in connect_input(transactions[k].ins[i])
        BY <1>3, <2>2, <2>4
      <3>3. Answers(transactions[k].ins[i], c) \/ (~r.ok /\ r.why = "Io" /\ c = None)
        BY <2>1, <3>2, ConnectFacts
      <3>4. ~r.ok /\ r.why = "Io" => lost' # {}
        BY <1>3
      <3> HIDE DEF c
      <3> QED
        BY <3>1, <3>3, <3>4
    <2>5. CASE Place(k, i) # j
      <3>1. connected_outputs'[Place(k, i)] = connected_outputs[Place(k, i)]
        BY <1>6, <2>3, <2>5
      <3> QED
        BY <1>2, <1>8, <3>1 DEF TasksRight
    <2> QED
      BY <2>4, <2>5
  <1>10. Opened'
    BY <1>1, <1>2 DEF Opened
  <1>11. QueryInv'
    BY <1>1, <1>2 DEF QueryInv, ReplyRight
  <1> QED
    BY <1>7, <1>9, <1>10, <1>11 DEF IInv

LEMMA CollectInv ==
  ASSUME IInv, collect
  PROVE  IInv'
  <1>1. /\ call # NoCall /\ reply = NoReply
        /\ Pending \notin ToSet(connected_outputs)
        /\ reply' = ConnectReply(transactions, connected_outputs)
        /\ UNCHANGED <<phase, tx_db, file_pos_to_height, call, transactions,
                       connected_outputs, lost>>
    BY DEF collect, Running, opened
  <1>2. TasksType' /\ TasksRight'
    BY <1>1, TasksStay DEF IInv
  <1>3. Opened'
    BY <1>1 DEF IInv, Opened
  <1>4. call.op \in ConnectOps /\ call \in Calls /\ phase = "ready"
    BY <1>1 DEF IInv, QueryInv
  <1>5. ReplyRight'
    BY <1>1, <1>4 DEF ReplyRight
  <1>6. QueryInv'
    BY <1>1, <1>4, <1>5 DEF QueryInv
  <1> QED
    BY <1>2, <1>3, <1>6 DEF IInv

LEMMA ReturnInv ==
  ASSUME IInv, return
  PROVE  IInv'
  <1>1. /\ transactions' = <<>> /\ connected_outputs' = <<>>
        /\ call' = NoCall /\ reply' = NoReply /\ lost' = {}
        /\ UNCHANGED <<tx_db, file_pos_to_height>>
    BY DEF return, opened
  <1>2. TasksType' /\ TasksRight'
    <2>1. TasksType'
      BY <1>1, NoTasks DEF TasksType
    <2>2. Len(<<>>) = 0
      OBVIOUS
    <2>3. \A k \in 1 .. Len(transactions') : FALSE
      BY <1>1, <2>2
    <2> QED
      BY <2>1, <2>3 DEF TasksRight
  <1>3. Opened' /\ QueryInv'
    BY <1>1 DEF IInv, Opened, QueryInv
  <1> QED
    BY <1>2, <1>3 DEF IInv

LEMMA StutterInv ==
  ASSUME IInv, UNCHANGED vars
  PROVE  IInv'
  <1>1. UNCHANGED <<phase, opened, query>>
    BY DEF vars
  <1>2. TasksType' /\ TasksRight'
    BY <1>1, TasksStay DEF IInv, query
  <1>3. Opened'
    BY <1>1 DEF IInv, Opened, opened
  <1>4. QueryInv'
    BY <1>1, QueryStays DEF IInv
  <1> QED
    BY <1>2, <1>3, <1>4 DEF IInv

LEMMA NextInv ==
  ASSUME IInv, [Next]_vars
  PROVE  IInv'
  BY NewInv, BeginInv, TaskInv, CollectInv, ReturnInv, StutterInv DEF Next, stay

-----------------------------------------------------------------------------
(* What the invariant says of the replies.                                 *)

\* What is popped for one transaction, once all tasks have returned.
LEMMA PoppedFacts ==
  ASSUME TasksType, TasksRight, Pending \notin ToSet(connected_outputs),
         NEW k \in 1 .. Len(transactions)
  PROVE  LET p == Popped(transactions, connected_outputs, k)
         IN  /\ p \in Seq(Out \cup {Pending})
             /\ Len(p) = Len(transactions[k].ins)
             /\ \A i \in 1 .. Len(p) :
                  \/ Answers(transactions[k].ins[i], p[i])
                  \/ p[i] = None /\ lost # {}
  <1> DEFINE b == Len(InsUpTo(transactions)[k - 1])
             n == Len(transactions[k].ins)
             outs == connected_outputs
             p == SubSeq(outs, b + 1, b + n)
  <1>1. /\ transactions \in Seq(Stored) /\ outs \in Seq(Out \cup {Pending})
        /\ transactions[k] \in Stored
    BY DEF TasksType
  <1>2. b \in Nat /\ n \in Nat
    <2>1. k - 1 \in 0 .. Len(transactions)
      BY <1>1
    <2>2. InsUpTo(transactions)[k - 1] \in Seq(OutPoint) /\ transactions[k].ins \in Seq(OutPoint)
      BY <1>1, <2>1, InsUpToFacts, StoredFacts
    <2> QED
      BY <2>2
  <1>3. \A i \in 1 .. n : b + i \in 1 .. Len(outs)
    BY <1>1, InputPlace DEF TasksType
  <1>4. ASSUME NEW i \in 1 .. n
        PROVE  \/ Answers(transactions[k].ins[i], outs[b + i])
               \/ outs[b + i] = None /\ lost # {}
    <2>1. outs[b + i] # Pending
      BY <1>1, <1>3 DEF ToSet
    <2> QED
      BY <2>1 DEF TasksRight, Place
  <1> HIDE DEF b, n, outs
  <1>5. ASSUME NEW i \in (b + 1) .. (b + n)
        PROVE  outs[i] \in Out \cup {Pending}
    <2>1. i - b \in 1 .. n /\ b + (i - b) = i
      BY <1>2
    <2>2. i \in 1 .. Len(outs)
      BY <1>3, <2>1
    <2> QED
      BY <1>1, <2>2
  <1>6. b + 1 \in Int /\ b + n \in Int
    BY <1>2
  <1>7. /\ p \in Seq(Out \cup {Pending})
        /\ Len(p) = IF b + 1 <= b + n THEN (b + n) - (b + 1) + 1 ELSE 0
        /\ \A i \in 1 .. (b + n) - (b + 1) + 1 : p[i] = outs[(b + 1) + i - 1]
    BY <1>5, <1>6, SubSeqProperties
  <1>8. Len(p) = n
    BY <1>2, <1>7
  <1>9. \A i \in 1 .. n : p[i] = outs[b + i]
    <2> TAKE i \in 1 .. n
    <2>1. i \in 1 .. (b + n) - (b + 1) + 1 /\ (b + 1) + i - 1 = b + i
      BY <1>2
    <2> QED
      BY <1>7, <2>1
  <1>10. Popped(transactions, connected_outputs, k) = p
    BY DEF Popped, b, n, outs
  <1>11. \A i \in 1 .. Len(p) : \/ Answers(transactions[k].ins[i], p[i])
                                \/ p[i] = None /\ lost # {}
    BY <1>4, <1>8, <1>9
  <1> HIDE DEF p
  <1>12. Len(p) = Len(transactions[k].ins)
    BY <1>8 DEF n
  <1> QED
    BY <1>7, <1>10, <1>11, <1>12

\* The inputs that are shown: none of a coinbase, which has only a null one.
LEMMA ShownFacts ==
  ASSUME NEW tx \in Stored
  PROVE  /\ FullTransaction(tx).ins = inputs(tx)
         /\ is_coinbase(tx) => /\ inputs(tx) = <<>> /\ outpoints_count(tx) = 0
                               /\ Len(tx.ins) = 1 /\ ~Resolvable(tx.ins[1])
         /\ ~is_coinbase(tx) => inputs(tx) = tx.ins /\ outpoints_count(tx) = Len(tx.ins)
  <1>1. tx \in [txid : Txids, outs : Nat, ins : Seq(OutPoint)]
    BY StoredFacts
  <1>2. FullTransaction(tx).ins = inputs(tx)
    BY <1>1 DEF FullTransaction
  <1>3. is_coinbase(tx) => Len(tx.ins) = 1 /\ ~Resolvable(tx.ins[1])
    BY DEF is_coinbase, is_coin_base, Resolvable
  <1> QED
    BY <1>2, <1>3 DEF inputs, outpoints_count

\* The outputs of one transaction are complete exactly when all are right.
LEMMA OutputsFacts ==
  ASSUME TasksType, TasksRight, Pending \notin ToSet(connected_outputs),
         NEW k \in 1 .. Len(transactions)
  PROVE  LET tx == transactions[k]
             q == outputs(transactions, connected_outputs, k)
         IN  /\ Len(q) = outpoints_count(tx) =>
                  /\ q = [i \in DOMAIN FullTransaction(tx).ins |-> <<tx.ins[i].txid, tx.ins[i].vout>>]
                  /\ \A i \in DOMAIN FullTransaction(tx).ins : Resolvable(tx.ins[i])
             /\ Len(q) # outpoints_count(tx) =>
                  \/ lost # {}
                  \/ ~is_coinbase(tx) /\ \E i \in DOMAIN tx.ins : ~Resolvable(tx.ins[i])
  <1> DEFINE tx == transactions[k]
             p == Popped(transactions, connected_outputs, k)
             q == Pushed(p)
  <1>0. outputs(transactions, connected_outputs, k) = q
    BY DEF outputs
  <1>1. tx \in Stored /\ tx.ins \in Seq(OutPoint)
    <2>1. tx \in Stored
      BY DEF TasksType
    <2> QED
      BY <2>1, StoredFacts
  <1>2. /\ p \in Seq(Out \cup {Pending}) /\ Len(p) = Len(tx.ins)
        /\ \A i \in 1 .. Len(p) : Answers(tx.ins[i], p[i]) \/ (p[i] = None /\ lost # {})
    BY PoppedFacts
  <1> HIDE DEF p, tx
  <1>3. /\ q \in Seq(Out \cup {Pending})
        /\ (\A i \in 1 .. Len(p) : p[i] # None) => q = p
        /\ (\E i \in 1 .. Len(p) : p[i] = None) => Len(q) < Len(p)
    BY <1>2, PushedFacts
  <1> HIDE DEF q
  <1>4. CASE is_coinbase(tx)
    <2>1. /\ FullTransaction(tx).ins = <<>> /\ outpoints_count(tx) = 0
          /\ Len(tx.ins) = 1 /\ ~Resolvable(tx.ins[1])
      BY <1>1, <1>4, ShownFacts
    <2>2. p[1] = None /\ 1 \in 1 .. Len(p) /\ Len(p) = 1
      BY <1>2, <2>1 DEF Answers
    <2>3. Len(q) = 0 /\ q = <<>>
      BY <1>3, <2>2
    <2>4. DOMAIN FullTransaction(tx).ins = {}
      BY <2>1
    <2>5. [i \in DOMAIN FullTransaction(tx).ins |-> <<tx.ins[i].txid, tx.ins[i].vout>>] = <<>>
      BY <2>4
    <2> QED
      BY <1>0, <2>1, <2>3, <2>4, <2>5 DEF tx
  <1>5. CASE ~is_coinbase(tx)
    <2>1. FullTransaction(tx).ins = tx.ins /\ outpoints_count(tx) = Len(tx.ins)
      BY <1>1, <1>5, ShownFacts
    <2>2. DOMAIN tx.ins = 1 .. Len(p) /\ Len(p) \in Nat
      BY <1>1, <1>2
    <2>3. CASE \A i \in 1 .. Len(p) : p[i] # None
      <3>1. q = p /\ \A i \in 1 .. Len(p) :
                       p[i] = <<tx.ins[i].txid, tx.ins[i].vout>> /\ Resolvable(tx.ins[i])
        BY <1>2, <1>3, <2>3 DEF Answers
      <3>2. p = [i \in 1 .. Len(p) |-> <<tx.ins[i].txid, tx.ins[i].vout>>]
        <4> DEFINE e == [i \in 1 .. Len(p) |-> <<tx.ins[i].txid, tx.ins[i].vout>>]
        <4>1. p = [i \in 1 .. Len(p) |-> p[i]]
          BY <1>2
        <4>2. \A i \in 1 .. Len(p) : p[i] = e[i]
          BY <3>1
        <4>3. e = [i \in 1 .. Len(p) |-> e[i]]
          OBVIOUS
        <4> HIDE DEF e
        <4>4. p = e
          BY <4>1, <4>2, <4>3
        <4> QED
          BY <4>4 DEF e
      <3> QED
        BY <1>0, <1>2, <2>1, <2>2, <3>1, <3>2 DEF tx
    <2>4. CASE \E i \in 1 .. Len(p) : p[i] = None
      <3>1. Len(q) # outpoints_count(tx)
        BY <1>2, <1>3, <2>1, <2>2, <2>4
      <3>2. lost # {} \/ \E i \in DOMAIN tx.ins : ~Resolvable(tx.ins[i])
        BY <1>2, <2>2, <2>4 DEF Answers
      <3> QED
        BY <1>0, <1>5, <3>1, <3>2 DEF tx
    <2> QED
      BY <2>3, <2>4
  <1> QED
    BY <1>4, <1>5

\* Answered is about a reply that the invariant speaks of.
LEMMA AnsweredFacts ==
  ASSUME IInv, call # NoCall, reply # NoReply
  PROVE  call \in Calls /\ ReplyRight /\ Opened /\ TasksType /\ TasksRight
  BY DEF IInv, QueryInv

LEMMA CallFacts ==
  ASSUME NEW c \in Calls
  PROVE  /\ c.op = "get_block" => c.arg \in 0 .. Len(Records) /\ c.format \in Formats
         /\ c.op = "get_transaction" => c.arg \in Txids /\ c.format \in Formats
  BY DEF Calls

LEMMA OutcomesApart ==
  ASSUME NEW why, NEW why2, why # why2
  PROVE  Err(why) # Err(why2)
  BY Outcomes

LEMMA BlockReplyFacts ==
  ASSUME NEW c \in Calls, c.op = "get_block", NEW r \in BlockReplies(c)
  PROVE  /\ r # Err("MissingOutputs")
         /\ r.ok => /\ c.arg + 1 \in DOMAIN Records
                    /\ r = Ok(into_block(c.format, Disk[Records[c.arg + 1]]))
  <1>1. PICK b \in get_block(c.arg) : r \in IF b.ok THEN {Ok(into_block(c.format, b.v))} ELSE {b}
    BY DEF BlockReplies, AndThen
  <1>2. c.arg \in 0 .. Len(Records)
    BY CallFacts
  <1>3. CASE b.ok
    <2>1. c.arg + 1 \in DOMAIN Records /\ b = Ok(Disk[Records[c.arg + 1]])
      BY <1>2, <1>3, BlockFacts, Outcomes
    <2> QED
      BY <1>1, <1>3, <2>1, Outcomes
  <1>4. CASE ~b.ok
    <2>1. r = b /\ (b = Err("Io") \/ b = Err("BlockIndexRecordNotFound"))
      BY <1>1, <1>2, <1>4, BlockFacts, Outcomes
    <2> QED
      BY <1>4, <2>1, OutcomesApart
  <1> QED
    BY <1>3, <1>4

LEMMA TransactionReplyFacts ==
  ASSUME NEW c \in Calls, c.op = "get_transaction", NEW r \in TransactionReplies(c)
  PROVE  /\ r # Err("MissingOutputs")
         /\ r.ok => \E tx \in TxsOf(c.arg) : r = Ok(into(c.format, tx))
         /\ r = Err("TransactionRecordNotFound") => c.arg \notin DOMAIN TxIndex \cup {GenesisTxid}
  <1>1. PICK s \in get_transaction(c.arg) : r \in IF s.ok THEN {Ok(into(c.format, s.v))} ELSE {s}
    BY DEF TransactionReplies, AndThen
  <1>2. CASE s = Err("Io")
    <2>1. r = s /\ ~r.ok
      BY <1>1, <1>2, Outcomes
    <2> QED
      BY <1>2, <2>1, OutcomesApart
  <1>3. CASE s = Err("TransactionRecordNotFound") /\ c.arg \notin DOMAIN TxIndex \cup {GenesisTxid}
    <2>1. r = s /\ ~r.ok
      BY <1>1, <1>3, Outcomes
    <2> QED
      BY <1>3, <2>1, OutcomesApart
  <1>4. CASE \E tx \in Stored : tx.txid = c.arg /\ s = Ok(tx)
    <2>1. PICK tx \in Stored : tx.txid = c.arg /\ s = Ok(tx)
      BY <1>4
    <2>2. r = Ok(into(c.format, tx)) /\ tx \in TxsOf(c.arg)
      BY <1>1, <2>1, Outcomes DEF TxsOf
    <2> QED
      BY <2>2, Outcomes
  <1> QED
    BY <1>2, <1>3, <1>4, TransactionFacts

(***************************************************************************)
(* A connected block or transaction has, for every order in which the      *)
(* rayon tasks of connect_block_inputs return, the outputs that its inputs *)
(* name, each under its own transaction.                                   *)
(***************************************************************************)
THEOREM ConnectsExactly == Spec => []ConnectedExactly
  <1>1. IInv => ConnectedExactly
    <2> SUFFICES ASSUME IInv,
                        Answered("get_connected_block") \/ Answered("get_connected_transaction"),
                        reply.ok
                 PROVE  /\ Len(reply.v) = Len(transactions)
                        /\ \A k \in DOMAIN transactions :
                             LET tx == transactions[k]
                             IN  /\ reply.v[k].txid = tx.txid
                                 /\ reply.v[k].input =
                                      [i \in DOMAIN FullTransaction(tx).ins |->
                                         <<tx.ins[i].txid, tx.ins[i].vout>>]
                                 /\ \A i \in DOMAIN FullTransaction(tx).ins :
                                      Resolvable(tx.ins[i])
      BY DEF ConnectedExactly
    <2>1. /\ call # NoCall /\ reply # NoReply
          /\ call.op = "get_connected_block" \/ call.op = "get_connected_transaction"
      BY DEF Answered
    <2>2. ReplyRight /\ TasksType /\ TasksRight
      BY <2>1, AnsweredFacts
    <2>3. /\ reply = ConnectReply(transactions, connected_outputs)
          /\ Pending \notin ToSet(connected_outputs)
      BY <2>1, <2>2, Outcomes DEF ReplyRight
    <2> DEFINE right == [k \in DOMAIN transactions |->
                           [txid |-> transactions[k].txid,
                            input |-> outputs(transactions, connected_outputs, k)]]
    <2>4. /\ \A k \in DOMAIN transactions :
               Len(outputs(transactions, connected_outputs, k)) = outpoints_count(transactions[k])
          /\ reply = Ok(right)
      BY <2>3, Outcomes DEF ConnectReply
    <2>5. reply.v = right
      BY <2>4, Outcomes
    <2>6. DOMAIN transactions = 1 .. Len(transactions) /\ Len(transactions) \in Nat
      BY <2>2 DEF TasksType
    <2>7. Len(right) = Len(transactions)
      BY <2>6
    <2>8. ASSUME NEW k \in DOMAIN transactions
          PROVE  LET tx == transactions[k]
                 IN  /\ right[k].txid = tx.txid
                     /\ right[k].input = [i \in DOMAIN FullTransaction(tx).ins |->
                                            <<tx.ins[i].txid, tx.ins[i].vout>>]
                     /\ \A i \in DOMAIN FullTransaction(tx).ins : Resolvable(tx.ins[i])
      <3>1. /\ right[k].txid = transactions[k].txid
            /\ right[k].input = outputs(transactions, connected_outputs, k)
        OBVIOUS
      <3> HIDE DEF right
      <3> QED
        BY <2>2, <2>3, <2>4, <2>6, <3>1, OutputsFacts
    <2> HIDE DEF right
    <2> QED
      BY <2>5, <2>7, <2>8
  <1> QED
    BY <1>1, InitInv, NextInv, PTL DEF Spec

(***************************************************************************)
(* connect_block_inputs and connect_tx_inputs never answer MissingOutputs  *)
(* for inputs that could all be connected.                                 *)
(***************************************************************************)
THEOREM MissingIsMissing == Spec => []MissingOnlyIfUnresolved
  <1>1. IInv => MissingOnlyIfUnresolved
    <2> SUFFICES ASSUME IInv, reply = Err("MissingOutputs")
                 PROVE  \/ lost # {}
                        \/ \E k \in DOMAIN transactions :
                             /\ ~is_coinbase(transactions[k])
                             /\ \E i \in DOMAIN transactions[k].ins :
                                  ~Resolvable(transactions[k].ins[i])
      BY DEF MissingOnlyIfUnresolved
    <2>1. reply # NoReply
      <3>1. NoReply = Err("none")
        BY DEF NoReply, Err
      <3> QED
        BY <3>1, OutcomesApart
    <2>2. call # NoCall
      BY <2>1 DEF IInv, QueryInv
    <2>3. call \in Calls /\ ReplyRight /\ Opened /\ TasksType /\ TasksRight
      BY <2>1, <2>2, AnsweredFacts
    <2>4. reply # Err("TxDbUnavailable")
      BY OutcomesApart
    <2>5. ASSUME call.op = "get_block_height", tx_db
          PROVE  reply \notin get_block_height(call.arg)
      BY <2>3, <2>5, HeightFacts, Outcomes, OutcomesApart
    <2>6. /\ reply = ConnectReply(transactions, connected_outputs)
          /\ Pending \notin ToSet(connected_outputs)
      BY <2>1, <2>3, <2>4, <2>5, BlockReplyFacts, TransactionReplyFacts DEF ReplyRight
    <2>7. PICK k \in DOMAIN transactions :
            Len(outputs(transactions, connected_outputs, k)) # outpoints_count(transactions[k])
      BY <2>6, Outcomes DEF ConnectReply
    <2>8. k \in 1 .. Len(transactions)
      BY <2>3 DEF TasksType
    <2> QED
      BY <2>3, <2>6, <2>7, <2>8, OutputsFacts
  <1> QED
    BY <1>1, InitInv, NextInv, PTL DEF Spec

(***************************************************************************)
(* The height that get_height_of_transaction returns is one of the chain   *)
(* whose block has the transaction, for every pair of indexes.             *)
(***************************************************************************)
THEOREM HeightsRight == Spec => []HeightHasTx
  <1>1. IInv => HeightHasTx
    <2> SUFFICES ASSUME IInv, Answered("get_block_height")
                 PROVE  /\ reply.ok => reply.v + 1 \in DOMAIN Records /\ Has(reply.v, call.arg)
                        /\ reply = Err("CannotFindHeightForTransaction") =>
                             TxIndex[call.arg] \notin ToSet(Records)
      BY DEF HeightHasTx
    <2>1. call # NoCall /\ reply # NoReply /\ call.op = "get_block_height"
      BY DEF Answered
    <2>2. ReplyRight /\ Opened
      BY <2>1, AnsweredFacts
    <2>3. \/ reply = Err("TxDbUnavailable")
          \/ tx_db /\ reply \in get_block_height(call.arg)
      BY <2>1, <2>2 DEF ReplyRight, ConnectOps
    <2>4. CASE reply = Err("TxDbUnavailable")
      BY <2>4, Outcomes, OutcomesApart
    <2>5. CASE tx_db /\ reply \in get_block_height(call.arg)
      <3>1. \/ reply = Err("Io") \/ reply = Err("TransactionRecordNotFound")
            \/ \E h : reply = Ok(h) /\ h + 1 \in DOMAIN Records /\ Has(h, call.arg)
            \/ /\ reply = Err("CannotFindHeightForTransaction")
               /\ TxIndex[call.arg] \notin ToSet(Records)
        BY <2>2, <2>5, HeightFacts
      <3> QED
        BY <3>1, Outcomes, OutcomesApart
    <2> QED
      BY <2>3, <2>4, <2>5
  <1> QED
    BY <1>1, InitInv, NextInv, PTL DEF Spec

(***************************************************************************)
(* get_transaction returns the transaction it was asked for in the format  *)
(* it was asked for, the genesis transaction too.                          *)
(***************************************************************************)
THEOREM FindsTransactions == Spec => []FindsTransaction
  <1>1. IInv => FindsTransaction
    <2> SUFFICES ASSUME IInv, Answered("get_transaction"), tx_db
                 PROVE  IF reply.ok
                        THEN \E tx \in TxsOf(call.arg) : reply.v = into(call.format, tx)
                        ELSE reply = Err("TransactionRecordNotFound") =>
                               call.arg \notin DOMAIN TxIndex \cup {GenesisTxid}
      BY DEF FindsTransaction
    <2>1. call # NoCall /\ reply # NoReply /\ call.op = "get_transaction"
      BY DEF Answered
    <2>2. call \in Calls /\ ReplyRight
      BY <2>1, AnsweredFacts
    <2>3. reply \in TransactionReplies(call)
      BY <2>1, <2>2 DEF ReplyRight, ConnectOps
    <2> QED
      BY <2>1, <2>2, <2>3, TransactionReplyFacts, Outcomes
  <1> QED
    BY <1>1, InitInv, NextInv, PTL DEF Spec

(***************************************************************************)
(* get_block returns the block of its height in every format, and the full *)
(* and the compact block have the inputs that a connected block connects.  *)
(***************************************************************************)
THEOREM FormatsRight == Spec => []FormatsAgree
  <1>1. IInv => FormatsAgree
    <2> DEFINE block == Disk[Records[call.arg + 1]]
    <2> SUFFICES ASSUME IInv, Answered("get_block"), reply.ok
                 PROVE  /\ Len(reply.v) = Len(block)
                        /\ \A k \in DOMAIN block :
                             /\ reply.v[k].txid = block[k].txid
                             /\ call.format # "library" =>
                                  Len(reply.v[k].ins) = outpoints_count(block[k])
      BY DEF FormatsAgree
    <2>1. call # NoCall /\ reply # NoReply /\ call.op = "get_block"
      BY DEF Answered
    <2>2. call \in Calls /\ ReplyRight
      BY <2>1, AnsweredFacts
    <2>3. reply \in BlockReplies(call)
      BY <2>1, <2>2, Outcomes DEF ReplyRight, ConnectOps
    <2>4. call.arg + 1 \in DOMAIN Records /\ reply.v = into_block(call.format, block)
      BY <2>1, <2>2, <2>3, BlockReplyFacts, Outcomes
    <2>5. block \in Seq(Stored) /\ call.format \in Formats
      BY <2>1, <2>2, <2>4, RecordFacts, CallFacts
    <2> HIDE DEF block
    <2> QED
      BY <2>4, <2>5, FormatFacts
  <1> QED
    BY <1>1, InitInv, NextInv, PTL DEF Spec

-----------------------------------------------------------------------------
(* The scripts of the outputs (Script), which the formats of a block       *)
(* classify one by one.                                                    *)

\* A multisig script as is_multisig finds it.
LEMMA MultisigFacts ==
  ASSUME NEW s, IsScript(s), is_multisig(s)
  PROVE  /\ Len(s) \in Nat /\ Len(s) >= 4 /\ DOMAIN s = 1 .. Len(s)
         /\ instructions(s) = s
         /\ s[Len(s) - 1].op = "PUSHNUM" /\ s[Len(s) - 1].num = Len(s) - 3
         /\ s[1].op = "PUSHNUM"
         /\ s[Len(s)].op \in {"CHECKMULTISIG", "CHECKMULTISIGVERIFY"}
         /\ \A i \in 1 .. Len(s) : IsPush(s[i]) <=> i \in 2 .. Len(s) - 2
         /\ Len(KeyChunks(s)) = Len(s) - 3
         /\ DOMAIN KeyChunks(s) = 1 .. Len(s) - 3
         /\ \A i \in 1 .. Len(s) - 3 : KeyChunks(s)[i] = s[i + 1]
  <1> DEFINE n == Len(s)
  <1>1. n \in Nat /\ DOMAIN s = 1 .. n /\ s \in Seq(ToSet(s))
    BY DEF IsScript
  <1>2. n >= 4
    BY DEF is_multisig
  <1>3. instructions(s) = s
    BY DEF is_multisig, instructions
  <1>4. /\ s[n - 1].op = "PUSHNUM" /\ s[n - 1].num = n - 3
        /\ s[1].op = "PUSHNUM"
    <2>1. ASSUME NEW i \in 1 .. n, get_num_keys(s[i]) >= 1
          PROVE  s[i].op = "PUSHNUM" /\ s[i].num \in Int /\ get_num_keys(s[i]) = s[i].num
      BY <1>1, <2>1 DEF IsScript, get_num_keys, NoNumber, decode_from_op_n
    <2>2. 1 \in 1 .. n /\ n - 1 \in 1 .. n
      BY <1>1, <1>2
    <2>3. /\ get_num_keys(s[1]) >= 1 /\ get_num_keys(s[n - 1]) >= 1
          /\ get_num_keys(s[n - 1]) + 3 = n
      BY DEF is_multisig
    <2> QED
      BY <1>1, <2>1, <2>2, <2>3
  <1>5. s[n].op \in {"CHECKMULTISIG", "CHECKMULTISIGVERIFY"}
    BY DEF is_multisig, Op
  <1>6. \A i \in 2 .. n - 2 : IsPush(s[i])
    BY DEF is_multisig
  <1>7. ASSUME NEW i \in 1 .. n
        PROVE IsPush(s[i]) <=> i \in 2 .. n - 2
    BY <1>1, <1>2, <1>4, <1>5, <1>6 DEF IsPush
  <1>8. KeyChunks(s) = SubSeq(s, 2, n - 2)
    BY <1>1, <1>2, <1>4 DEF KeyChunks, decode_from_op_n
  <1>9. /\ Len(SubSeq(s, 2, n - 2)) = n - 3
        /\ DOMAIN SubSeq(s, 2, n - 2) = 1 .. n - 3
        /\ \A i \in 1 .. n - 3 : SubSeq(s, 2, n - 2)[i] = s[i + 1]
    BY <1>1, <1>2
  <1> HIDE DEF n
  <1> QED
    BY <1>1, <1>2, <1>3, <1>4, <1>5, <1>7, <1>8, <1>9 DEF n

LEMMA MultisigNeverPanics ==
  ASSUME NEW s, IsScript(s), is_multisig(s)
  PROVE  ~multisig_panics(s)
  <1>1. ASSUME NEW t \in ToSet(KeyChunks(s))
        PROVE  IsPush(t)
    <2>1. PICK i \in 1 .. Len(s) - 3 : t = KeyChunks(s)[i]
      BY MultisigFacts DEF ToSet
    <2>2. t = s[i + 1] /\ i + 1 \in 2 .. Len(s) - 2 /\ i + 1 \in 1 .. Len(s)
      BY <2>1, MultisigFacts
    <2> QED
      BY <2>2, MultisigFacts
  <1>2. /\ Len(s) \in Nat /\ Len(s) >= 4 /\ instructions(s) = s
        /\ s[Len(s) - 1].op = "PUSHNUM" /\ s[Len(s) - 1].num = Len(s) - 3
    BY MultisigFacts
  <1> QED
    BY <1>1, <1>2 DEF multisig_panics, decode_from_op_n

\* Both instructions of such a script can be read, and the first is a push.
LEMMA P2pkNeverPanics ==
  ASSUME NEW s, IsScript(s), is_p2pk(s)
  PROVE  ~p2pk_panics(s)
  <1>1. /\ Len(s) = 2 /\ DOMAIN s = 1 .. 2
        /\ s[1].op = "PUSH" /\ s[2].op = "CHECKSIG"
    BY DEF IsScript, is_p2pk, Direct, IsPush, Op
  <1>2. Bad \notin ToSet(s)
    BY <1>1 DEF ToSet, Bad
  <1>3. instructions(s) = s
    BY <1>2 DEF instructions
  <1> QED
    BY <1>1, <1>3 DEF p2pk_panics, IsPush

\* No script passes two of the tests, but a witness program of its two kinds.
LEMMA Exclusive ==
  ASSUME NEW s, IsScript(s)
  PROVE  /\ is_p2wpkh(s) \/ is_p2wsh(s) => is_witness_program(s)
         /\ ~(is_p2wpkh(s) /\ is_p2wsh(s))
         /\ is_p2pk(s) => /\ ~is_p2pkh(s) /\ ~is_p2sh(s) /\ ~is_witness_program(s)
                          /\ ~is_op_return(s) /\ ~is_multisig(s)
         /\ is_p2pkh(s) => /\ ~is_p2sh(s) /\ ~is_witness_program(s)
                           /\ ~is_op_return(s) /\ ~is_multisig(s)
         /\ is_p2sh(s) => /\ ~is_witness_program(s) /\ ~is_op_return(s)
                          /\ ~is_multisig(s)
         /\ is_witness_program(s) => ~is_op_return(s) /\ ~is_multisig(s)
         /\ is_op_return(s) => ~is_multisig(s)
  <1>1. is_p2pk(s) => Len(s) = 2 /\ s[1].op = "PUSH" /\ s[2].op = "CHECKSIG"
    BY DEF is_p2pk, Direct, IsPush, Op
  <1>2. is_p2pkh(s) => Len(s) = 5 /\ s[1].op = "DUP"
    BY DEF is_p2pkh, Op
  <1>3. is_p2sh(s) => Len(s) = 3 /\ s[1].op = "HASH160"
    BY DEF is_p2sh, Op
  <1>4. is_witness_program(s) =>
          Len(s) = 2 /\ s[1].op # "RETURN" /\ s[2].op = "PUSH"
    BY DEF is_witness_program, IsVersion, IsVersion0, Direct, IsPush
  <1>5. is_op_return(s) => s[1].op = "RETURN"
    BY DEF is_op_return, Op
  <1>6. is_multisig(s) => Len(s) \in Nat /\ Len(s) >= 4 /\ s[1].op = "PUSHNUM"
    BY MultisigFacts
  <1>7. /\ is_p2wpkh(s) => is_witness_program(s) /\ s[2].len = 20
        /\ is_p2wsh(s) => is_witness_program(s) /\ s[2].len = 32
    BY DEF is_p2wpkh, is_p2wsh, is_witness_program, IsVersion, Direct
  <1>8. ~(is_p2wpkh(s) /\ is_p2wsh(s))
    BY <1>7
  <1>9. is_p2pk(s) => /\ ~is_p2pkh(s) /\ ~is_p2sh(s) /\ ~is_witness_program(s)
                      /\ ~is_op_return(s) /\ ~is_multisig(s)
    BY <1>1, <1>2, <1>3, <1>4, <1>5, <1>6
  <1>10. is_p2pkh(s) => /\ ~is_p2sh(s) /\ ~is_witness_program(s)
                        /\ ~is_op_return(s) /\ ~is_multisig(s)
    BY <1>2, <1>3, <1>4, <1>5, <1>6
  <1>11. is_p2sh(s) => /\ ~is_witness_program(s) /\ ~is_op_return(s)
                       /\ ~is_multisig(s)
    BY <1>3, <1>4, <1>5, <1>6
  <1>12. is_witness_program(s) => ~is_op_return(s) /\ ~is_multisig(s)
    <2>1. is_witness_program(s) => ~is_op_return(s)
      BY <1>4, <1>5
    <2>2. ASSUME is_witness_program(s), is_multisig(s)
          PROVE  FALSE
      <3>1. Len(s) = 2
        BY <2>2, <1>4
      <3>2. Len(s) >= 4
        BY <2>2, <1>6
      <3> QED
        BY <3>1, <3>2
    <2> QED
      BY <2>1, <2>2
  <1>13. is_op_return(s) => ~is_multisig(s)
    BY <1>5, <1>6
  <1> QED
    BY <1>7, <1>8, <1>9, <1>10, <1>11, <1>12, <1>13

\* The pattern found is one that holds, if any does.
LEMMA PatternFound ==
  ASSUME NEW s
  PROVE  /\ pattern(s) = "NotRecognised" => \A p \in Patterns : ~Holds(p, s)
         /\ pattern(s) # "NotRecognised" =>
              pattern(s) \in Patterns /\ Holds(pattern(s), s)
  BY DEF pattern, Holds, Patterns

\* Any other pattern that holds is that of a witness program.
LEMMA PatternMostSpecific ==
  ASSUME NEW s, IsScript(s),
         NEW p \in Patterns, Holds(p, s), p # pattern(s)
  PROVE  /\ p = "WitnessProgram"
         /\ pattern(s) \in {"Pay2WitnessPublicKeyHash", "Pay2WitnessScriptHash"}
  BY Exclusive DEF pattern, Holds, Patterns

\* What evaluate_script returns: it is done, or has not begun.
Evaluated ==
  /\ AllScripts
  /\ script \in Scripts
  /\ pc \in {"start", "done"}
  /\ pc = "done" => info = ScriptInfo(addresses, pattern(script))

LEMMA EvaluatedInductive ==
  /\ ScriptInit => Evaluated
  /\ Evaluated /\ [ScriptNext]_script_vars => Evaluated'
  <1>1. ScriptInit => Evaluated
    BY ScriptAssumption DEF ScriptInit, Evaluated
  <1>2. ASSUME Evaluated, [ScriptNext]_script_vars
        PROVE  Evaluated'
    <2>1. IsScript(script) /\ AllScripts'
      BY <1>2 DEF Evaluated, AllScripts, IsScript
    <2>2. CASE evaluate_script
      <3>1. /\ pattern(script) = "Pay2PublicKey" => is_p2pk(script)
            /\ pattern(script) = "Pay2MultiSig" => is_multisig(script)
        BY PatternFound DEF Holds
      <3>2. ~panics(script)
        BY <2>1, <3>1, P2pkNeverPanics, MultisigNeverPanics DEF panics
      <3>3. /\ pc' = "done" /\ script' = script
            /\ info' = ScriptInfo(addresses, pattern(script))
        BY <2>2, <3>2 DEF evaluate_script
      <3>4. pattern(script') = pattern(script) /\ addresses' = addresses
        BY <3>3 DEF addresses
      <3> QED
        BY <1>2, <2>1, <3>3, <3>4 DEF Evaluated
    <2>3. CASE stay_evaluated \/ UNCHANGED script_vars
      <3>1. UNCHANGED <<script, pc, info>>
        BY <2>3 DEF stay_evaluated, script_vars
      <3>2. addresses' = addresses /\ pattern(script') = pattern(script)
        BY <3>1 DEF addresses
      <3> QED
        BY <1>2, <2>1, <3>1, <3>2 DEF Evaluated
    <2> QED
      BY <1>2, <2>2, <2>3 DEF ScriptNext
  <1> QED
    BY <1>1, <1>2

(***************************************************************************)
(* No output script reaches an assertion (src/src/parser/script.rs:150,    *)
(* 216) or an "unreachable" branch (script.rs:158, 170, 225) of the        *)
(* helpers of evaluate_script, whatever its instructions are.              *)
(***************************************************************************)
THEOREM ScriptNoPanic == ScriptSpec => []NoPanic
  <1>1. Evaluated => NoPanic
    BY DEF Evaluated, NoPanic
  <1> QED
    BY <1>1, EvaluatedInductive, PTL DEF ScriptSpec

(***************************************************************************)
(* The pattern that evaluate_script (script.rs:67) finds is the only one   *)
(* that the script has, or the kind of witness program that it is.         *)
(***************************************************************************)
THEOREM ScriptMostSpecific == ScriptSpec => []MostSpecific
  <1>1. ASSUME Evaluated PROVE MostSpecific
    <2> SUFFICES ASSUME pc = "done" PROVE MostSpecific
      BY DEF MostSpecific
    <2>1. IsScript(script) /\ info.pattern = pattern(script)
      BY <1>1 DEF Evaluated, AllScripts, ScriptInfo
    <2>2. "NotRecognised" \notin Patterns
      BY DEF Patterns
    <2> DEFINE names == {p \in Patterns : Holds(p, script)}
    <2>3. info.pattern = "NotRecognised" <=> names = {}
      BY <2>1, <2>2, PatternFound
    <2>4. names # {} => info.pattern \in names
      BY <2>1, <2>3, PatternFound
    <2>5. \A p \in names \ {info.pattern} :
            /\ p = "WitnessProgram"
            /\ info.pattern \in {"Pay2WitnessPublicKeyHash", "Pay2WitnessScriptHash"}
      BY <2>1, PatternMostSpecific
    <2> QED
      BY <2>3, <2>4, <2>5 DEF MostSpecific
  <1> QED
    BY <1>1, EvaluatedInductive, PTL DEF ScriptSpec

\* The addresses found for each pattern.
LEMMA AddressFacts ==
  ASSUME NEW s, IsScript(s)
  PROVE  /\ is_p2pkh(s) \/ is_p2sh(s) \/ is_p2wpkh(s) \/ is_p2wsh(s) =>
              Len(from_script(s)) = 1
         /\ is_witness_program(s) /\ ~is_p2wpkh(s) /\ ~is_p2wsh(s) =>
              (Len(from_script(s)) = 0 <=> IsVersion0(s[1]))
         /\ is_op_return(s) => from_script(s) = <<>>
         /\ (\A p \in Patterns : ~Holds(p, s)) => from_script(s) = <<>>
  <1>1. \A a : Len(<<a>>) = 1
    OBVIOUS
  <1>2. Len(<<>>) = 0
    OBVIOUS
  <1> DEFINE w == \/ is_p2wpkh(s) \/ is_p2wsh(s)
                  \/ (is_witness_program(s) /\ ~IsVersion0(s[1]))
  <1>3. is_p2pkh(s) => from_script(s) = <<Address("p2pkh", s[3].data)>>
    BY Exclusive DEF from_script
  <1>4. is_p2sh(s) => from_script(s) = <<Address("p2sh", s[2].data)>>
    BY Exclusive DEF from_script
  <1>5. w => from_script(s) = <<Address("witness", s[2].data)>>
    BY Exclusive DEF from_script
  <1>6. ~is_p2pkh(s) /\ ~is_p2sh(s) /\ ~w => from_script(s) = <<>>
    BY DEF from_script
  <1>7. (\A p \in Patterns : ~Holds(p, s)) =>
           ~is_p2pkh(s) /\ ~is_p2sh(s) /\ ~w
    BY DEF Patterns, Holds
  <1> QED
    BY <1>1, <1>2, <1>3, <1>4, <1>5, <1>6, <1>7, Exclusive

LEMMA MultisigAddresses ==
  ASSUME NEW s, IsScript(s), is_multisig(s)
  PROVE  LET a == multisig_addresses(s)
             keys == 2 .. Len(s) - 2
         IN  /\ Len(a) = (IF \E i \in keys : s[i].data \notin Keys
                          THEN 0 ELSE Len(s) - 3)
             /\ \A i \in DOMAIN a :
                  a[i] = Address("p2pkh", Hash160(s[i + 1].data))
  <1> DEFINE n == Len(s)
             k == KeyChunks(s)
             all == [i \in DOMAIN k |-> Address("p2pkh", Hash160(k[i].data))]
  <1>1. /\ n \in Nat /\ n >= 4 /\ DOMAIN k = 1 .. n - 3
        /\ \A i \in 1 .. n - 3 : k[i] = s[i + 1]
    BY MultisigFacts
  <1>2. (\A i \in DOMAIN k : k[i].data \in Keys) <=> ~(\E i \in 2 .. n - 2 : s[i].data \notin Keys)
    <2>1. ASSUME NEW i \in 2 .. n - 2
          PROVE  i - 1 \in DOMAIN k /\ k[i - 1] = s[i]
      BY <1>1
    <2>2. ASSUME NEW i \in DOMAIN k
          PROVE  i + 1 \in 2 .. n - 2 /\ k[i] = s[i + 1]
      BY <1>1
    <2> HIDE DEF k, n
    <2> QED
      BY <2>1, <2>2
  <1>3. multisig_addresses(s) = IF \A i \in DOMAIN k : k[i].data \in Keys THEN all ELSE <<>>
    BY DEF multisig_addresses
  <1>4. Len(all) = n - 3 /\ DOMAIN all = 1 .. n - 3
    BY <1>1
  <1>5. \A i \in DOMAIN all : all[i] = Address("p2pkh", Hash160(s[i + 1].data))
    BY <1>1
  <1> HIDE DEF all, k
  <1> QED
    BY <1>2, <1>3, <1>4, <1>5

(***************************************************************************)
(* The addresses that evaluate_script (script.rs:67, 149) finds are those  *)
(* that the pattern says, all the keys of a multisig script or none.       *)
(***************************************************************************)
THEOREM ScriptAddressesOfPattern == ScriptSpec => []AddressesOfPattern
  <1>1. ASSUME Evaluated PROVE AddressesOfPattern
    <2> SUFFICES ASSUME pc = "done" PROVE AddressesOfPattern
      BY DEF AddressesOfPattern
    <2> DEFINE p == pattern(script)
               a == info.addresses
    <2>1. IsScript(script) /\ info.pattern = p /\ a = addresses
      BY <1>1 DEF Evaluated, AllScripts, ScriptInfo
    <2>2. p # "NotRecognised" => p \in Patterns /\ Holds(p, script)
      BY PatternFound
    <2>3. CASE p = "Pay2MultiSig"
      <3>1. is_multisig(script)
        BY <2>2, <2>3 DEF Holds
      <3>2. a = multisig_addresses(script)
        BY <2>1, <2>3 DEF addresses
      <3>3. \A i \in DOMAIN script : IsPush(script[i]) <=> i \in 2 .. Len(script) - 2
        BY <2>1, <3>1, MultisigFacts
      <3> QED
        BY <2>1, <2>3, <3>1, <3>2, <3>3, MultisigAddresses DEF AddressesOfPattern
    <2>4. CASE p = "Pay2PublicKey"
      <3>1. a = p2pk_to_address(script)
        BY <2>1, <2>4 DEF addresses
      <3>2. Len(a) = 1
        BY <3>1 DEF p2pk_to_address
      <3> QED
        BY <2>1, <2>4, <3>2 DEF AddressesOfPattern
    <2>5. CASE p \notin {"Pay2MultiSig", "Pay2PublicKey"}
      <3>1. a = from_script(script)
        BY <2>1, <2>5 DEF addresses
      <3>2. p \in {"OpReturn", "NotRecognised"} => a = <<>>
        BY <2>1, <2>2, <3>1, PatternFound, AddressFacts DEF Holds
      <3>3. p = "WitnessProgram" => (Len(a) = 0 <=> IsVersion0(script[1]))
        <4>1. p = "WitnessProgram" =>
                is_witness_program(script) /\ ~is_p2wpkh(script) /\ ~is_p2wsh(script)
          BY DEF pattern
        <4> QED
          BY <2>1, <3>1, <4>1, AddressFacts
      <3>4. p \in Patterns \ {"OpReturn", "WitnessProgram"} => Len(a) = 1
        BY <2>1, <2>2, <2>5, <3>1, AddressFacts DEF Holds, Patterns
      <3> QED
        BY <2>1, <2>2, <2>5, <3>2, <3>3, <3>4 DEF AddressesOfPattern, Patterns
    <2> QED
      BY <2>3, <2>4, <2>5
  <1> QED
    BY <1>1, EvaluatedInductive, PTL DEF ScriptSpec
=============================================================================
