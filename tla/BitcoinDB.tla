----------------------------- MODULE BitcoinDB -----------------------------
(***************************************************************************)
(* BitcoinDB and the queries that go through Bitcoin Core's transaction    *)
(* index (src/src/api.rs, src/src/parser/tx_index.rs and                   *)
(* src/src/parser/block_types/connected_block.rs): opening the database,   *)
(* looking up a transaction and its height, and connecting the inputs of   *)
(* one block or one transaction, in parallel, to the outputs they spend;   *)
(* and the formats that blocks and transactions are returned in            *)
(* (full_block.rs and compact_block.rs beside it).                         *)
(*                                                                         *)
(* The block index and the block files are what BlockIndex and BlkRead     *)
(* give: `Records` is a loaded index, and a position leads to the block    *)
(* stored there.  The LevelDB `txindex` is external: it may lag behind the *)
(* chain, and it may still hold a transaction of a stale block.            *)
(*                                                                         *)
(* A transaction id is the hash of the transaction, so <<txid, n>> is all  *)
(* there is to know of an output.                                          *)
(***************************************************************************)
EXTENDS Integers, Sequences, SequencesExt

CONSTANTS
  Records,        \* block_index.records: the position of each height's block
  Disk,           \* the transactions of the block at each position
  TxIndex,        \* the LevelDB: txid -> position of its block
  Txids,
  GenesisTxid,    \* GENESIS_TXID
  NullOutPoint,   \* the previous_output of a coinbase input
  None,           \* Option::<TxOut>::None
  Pending,        \* a rayon task that has not returned
  IoErrors        \* whether reading a file or the LevelDB may fail

\* An outpoint, and the transactions that are on disk.
OutPoint == [txid : Txids, vout : Nat] \cup {NullOutPoint}
Stored == UNION {ToSet(Disk[pos]) : pos \in DOMAIN Disk}

\* What BlockIndex and Bitcoin Core guarantee: positions are unique, a
\* record leads to a block, and the tx index to one that has the transaction.
ASSUME DbAssumption ==
  /\ Records \in Seq(DOMAIN Disk)
  /\ \A i, j \in DOMAIN Records : Records[i] = Records[j] => i = j
  /\ DOMAIN TxIndex \subseteq Txids
  /\ \A t \in DOMAIN TxIndex :
       /\ TxIndex[t] \in DOMAIN Disk
       /\ \E k \in DOMAIN Disk[TxIndex[t]] : Disk[TxIndex[t]][k].txid = t

\* An id is the hash of one transaction.
ASSUME StoredAssumption ==
  /\ Stored \subseteq [txid : Txids, outs : Nat, ins : Seq(OutPoint)]
  /\ \A pos \in DOMAIN Disk : Disk[pos] \in Seq(Stored)
  /\ \A t1, t2 \in Stored : t1.txid = t2.txid => t1 = t2
  /\ None # Pending /\ {None, Pending} \cap (Txids \X Nat) = {}

\* The chain begins with the genesis block, which has one output.
ASSUME GenesisAssumption ==
  /\ 1 \in DOMAIN Records /\ 1 \in DOMAIN Disk[Records[1]]
  /\ Disk[Records[1]][1].txid = GenesisTxid /\ Disk[Records[1]][1].outs = 1
  /\ \A tx \in Stored : \A i \in DOMAIN tx.ins :
       tx.ins[i] # NullOutPoint /\ tx.ins[i].txid = GenesisTxid => tx.ins[i].vout = 0

VARIABLES
  phase,              \* "new", "tx_db", "files", "ready", "err"
  tx_index,           \* the flag given to new()
  tx_db,              \* whether tx_db is Some
  file_pos_to_height, \* of TxDB: pairs of a position and a height
  call,               \* the query that is running, or NoCall
  transactions,       \* the transactions to connect
  connected_outputs,  \* what the rayon task of each input returned
  reply,              \* the answer to the query, or NoReply
  lost                \* inputs for which a read failed

opened == <<tx_index, tx_db, file_pos_to_height>>
query  == <<call, transactions, connected_outputs, reply, lost>>
vars   == <<phase, opened, query>>

NoCall == [op |-> "none"]
NoReply == [ok |-> FALSE, why |-> "none"]
Ok(v) == [ok |-> TRUE, v |-> v]
Err(why) == [ok |-> FALSE, why |-> why]

-----------------------------------------------------------------------------
(* BitcoinDB::new                                                          *)

Init ==
  /\ phase = "new"
  /\ tx_index \in BOOLEAN
  /\ tx_db = FALSE
  /\ file_pos_to_height = {}
  /\ call = NoCall /\ transactions = <<>> /\ connected_outputs = <<>>
  /\ reply = NoReply /\ lost = {}

\* The data directory exists and BlockIndex::new succeeds, or not.
load_block_index(ok) ==
  /\ phase = "new"
  /\ phase' = IF ok THEN "tx_db" ELSE "err"
  /\ UNCHANGED <<opened, query>>

\* Mutant: the number of the file is left out of the key.
PosKey_without_file(pos) == pos[2]

\* The key of a block in the BTreeMap: (n_file, n_data_pos).
PosKey(pos) == pos

\* TxDB::open; a failure is only logged.
open_tx_db(ok) ==
  /\ phase = "tx_db"
  /\ phase' = "files"
  /\ tx_db' = (tx_index /\ ok)
  /\ file_pos_to_height' =
       IF tx_index /\ ok
       THEN {<<PosKey(Records[i]), i - 1>> :
               i \in {i \in DOMAIN Records :
                        \A j \in DOMAIN Records :
                          PosKey(Records[j]) = PosKey(Records[i]) => j <= i}}
       ELSE {}
  /\ UNCHANGED <<tx_index, query>>

\* BlkFile::new
open_files(ok) ==
  /\ phase = "files"
  /\ phase' = IF ok THEN "ready" ELSE "err"
  /\ UNCHANGED <<opened, query>>

-----------------------------------------------------------------------------
(* Lookups.  Each one is a set of possible results.                        *)

Io == IF IoErrors THEN {Err("Io")} ELSE {}

\* get_block, by height
get_block(h) ==
  IF h + 1 \in DOMAIN Records THEN {Ok(Disk[Records[h + 1]])} \cup Io
  ELSE {Err("BlockIndexRecordNotFound")}

is_genesis_tx(t) == t = GenesisTxid

get_tx_position(t) ==
  (IF t \in DOMAIN TxIndex THEN {Ok(TxIndex[t])}
   ELSE {Err("TransactionRecordNotFound")}) \cup Io

\* The transaction t of the block at pos: n_tx_offset leads to it.
read_transaction(pos, t) ==
  {Ok(Disk[pos][CHOOSE k \in DOMAIN Disk[pos] : Disk[pos][k].txid = t])} \cup Io

\* What f makes of a successful result.
AndThen(results, f(_)) ==
  UNION {IF r.ok THEN f(r.v) ELSE {r} : r \in results}

read_indexed(t) ==
  AndThen(get_tx_position(t), LAMBDA pos : read_transaction(pos, t))

\* Mutant: no special treatment of the genesis transaction.
get_transaction_plain(t) == read_indexed(t)

get_transaction(t) ==
  IF is_genesis_tx(t)
  THEN AndThen(get_block(0), LAMBDA block : {Ok(block[1])})
  ELSE read_indexed(t)

HeightAt(pos) ==
  LET found == {e[2] : e \in {e \in file_pos_to_height : e[1] = PosKey(pos)}}
  IN  IF found = {} THEN {Err("CannotFindHeightForTransaction")}
      ELSE {Ok(h) : h \in found}

get_block_height(t) ==
  IF is_genesis_tx(t) THEN {Ok(0)} ELSE AndThen(get_tx_position(t), HeightAt)

is_coin_base(o) == o = NullOutPoint

\* Transaction::is_coinbase
is_coinbase(tx) == Len(tx.ins) = 1 /\ is_coin_base(tx.ins[1])

\* What an input spends; the null input of a coinbase is left out.
inputs(tx) == IF is_coinbase(tx) THEN <<>> ELSE tx.ins

\* Mutant: the null input of a coinbase transaction stays.
CompactTransaction_with_null(tx) == tx

FullTransaction(tx) == [tx EXCEPT !.ins = inputs(tx)]
CompactTransaction(tx) == [tx EXCEPT !.ins = inputs(tx)]

\* From<Transaction> and From<Block>.
into(format, tx) ==
  CASE format = "full" -> FullTransaction(tx)
    [] format = "compact" -> CompactTransaction(tx)
    [] OTHER -> tx

FullBlock(block) == [k \in DOMAIN block |-> FullTransaction(block[k])]
CompactBlock(block) == [k \in DOMAIN block |-> CompactTransaction(block[k])]

into_block(format, block) ==
  CASE format = "full" -> FullBlock(block)
    [] format = "compact" -> CompactBlock(block)
    [] OTHER -> block

-----------------------------------------------------------------------------
(* Connecting inputs.                                                      *)

\* Mutant: the number of the output is not compared with their count.
Output_unchecked(tx, n) == <<tx.txid, n>>

\* "outpoint exceeds range"
Output(tx, n) == IF n < tx.outs THEN <<tx.txid, n>> ELSE None

\* The results of connect_input: an error of a read becomes None.
connect_input(o) ==
  IF is_coin_base(o) THEN {Ok(None)}
  ELSE IF is_genesis_tx(o.txid)
       THEN AndThen(get_block(0), LAMBDA block : {Ok(<<block[1].txid, 0>>)})
       ELSE AndThen(read_indexed(o.txid),
                    LAMBDA tx : {Ok(Output(tx, o.vout))})

\* The inputs of the first k transactions, one after another.
InsUpTo(txs) ==
  LET f[k \in 0 .. Len(txs)] == IF k = 0 THEN <<>> ELSE f[k - 1] \o txs[k].ins
  IN  f

\* all_tx_in
AllIns(txs) == InsUpTo(txs)[Len(txs)]

\* Mutant: the null input of a coinbase transaction counts.
outpoints_count_all(tx) == Len(tx.ins)

outpoints_count(tx) == IF is_coinbase(tx) THEN 0 ELSE Len(tx.ins)

\* What pop_front returns for the inputs of transaction k.
Popped(txs, outs, k) ==
  LET before == Len(InsUpTo(txs)[k - 1])
  IN  SubSeq(outs, before + 1, before + Len(txs[k].ins))

\* What the loop over popped values pushes: each that is Some.
Pushed(popped) ==
  LET f[i \in 0 .. Len(popped)] ==
        IF i = 0 THEN <<>>
        ELSE IF popped[i] = None THEN f[i - 1] ELSE Append(f[i - 1], popped[i])
  IN  f[Len(popped)]

\* The inputs of transaction k once connected; those of a coinbase are none.
outputs(txs, outs, k) == Pushed(Popped(txs, outs, k))

\* The answer of connect_block_inputs, and of connect_tx_inputs when txs has
\* one element: the first transaction with a missing output ends it.
ConnectReply(txs, outs) ==
  IF \A k \in DOMAIN txs : Len(outputs(txs, outs, k)) = outpoints_count(txs[k])
  THEN Ok([k \in DOMAIN txs |-> [txid |-> txs[k].txid, input |-> outputs(txs, outs, k)]])
  ELSE Err("MissingOutputs")

-----------------------------------------------------------------------------
(* The queries.                                                            *)

Formats == {"library", "full", "compact"}

Calls ==
  [op : {"get_transaction"}, arg : Txids, format : Formats]
  \cup [op : {"get_block"}, arg : 0 .. Len(Records), format : Formats]
  \cup [op : {"get_block_height", "get_connected_transaction"}, arg : Txids]
  \cup [op : {"get_connected_block"}, arg : 0 .. Len(Records)]

answer(r) ==
  /\ reply' = r
  /\ UNCHANGED <<phase, opened, transactions, connected_outputs, lost>>

\* The only query here that does without the tx index.
call_get_block(c) ==
  /\ c.op = "get_block"
  /\ \E r \in AndThen(get_block(c.arg),
                     LAMBDA block : {Ok(into_block(c.format, block))}) :
       answer(r)

call_unavailable(c) ==
  /\ c.op # "get_block" /\ ~tx_db
  /\ answer(Err("TxDbUnavailable"))

call_get_transaction(c) ==
  /\ tx_db /\ c.op = "get_transaction"
  /\ \E r \in AndThen(get_transaction(c.arg), LAMBDA tx : {Ok(into(c.format, tx))}) :
       answer(r)

call_get_block_height(c) ==
  /\ tx_db /\ c.op = "get_block_height"
  /\ \E r \in get_block_height(c.arg) : answer(r)

\* The transactions of the two connected queries.
Fetch(c) ==
  CASE c.op = "get_connected_block" -> get_block(c.arg)
    [] c.op = "get_connected_transaction" ->
         AndThen(get_transaction(c.arg), LAMBDA tx : {Ok(<<tx>>)})
    [] OTHER -> {}

fetch_err(c) ==
  /\ tx_db
  /\ \E r \in Fetch(c) : ~r.ok /\ answer(r)

\* The rayon tasks start.
par_iter(c) ==
  /\ tx_db
  /\ \E r \in Fetch(c) :
       /\ r.ok
       /\ transactions' = r.v
       /\ connected_outputs' = [i \in DOMAIN AllIns(r.v) |-> Pending]
  /\ UNCHANGED <<phase, opened, reply, lost>>

begin(c) ==
  /\ phase = "ready" /\ call = NoCall
  /\ call' = c
  /\ \/ call_get_block(c) \/ call_unavailable(c) \/ call_get_transaction(c)
     \/ call_get_block_height(c) \/ fetch_err(c) \/ par_iter(c)

Running == call # NoCall /\ reply = NoReply

\* The task of input i returns.
task(i) ==
  /\ Running
  /\ connected_outputs[i] = Pending
  /\ \E r \in connect_input(AllIns(transactions)[i]) :
       /\ connected_outputs' = [connected_outputs EXCEPT ![i] = IF r.ok THEN r.v ELSE None]
       /\ lost' = IF ~r.ok /\ r.why = "Io" THEN lost \cup {i} ELSE lost
  /\ UNCHANGED <<phase, opened, call, transactions, reply>>

\* All of them have.
collect ==
  /\ Running
  /\ Pending \notin ToSet(connected_outputs)
  /\ reply' = ConnectReply(transactions, connected_outputs)
  /\ UNCHANGED <<phase, opened, call, transactions, connected_outputs, lost>>

\* The caller has its answer.
return ==
  /\ call # NoCall /\ reply # NoReply
  /\ call' = NoCall /\ transactions' = <<>> /\ connected_outputs' = <<>>
  /\ reply' = NoReply /\ lost' = {}
  /\ UNCHANGED <<phase, opened>>

\* new() returned an error.
stay == phase = "err" /\ UNCHANGED vars

new(ok) == load_block_index(ok) \/ open_tx_db(ok) \/ open_files(ok)

Next ==
  \/ \E ok \in BOOLEAN : new(ok)
  \/ \E c \in Calls : begin(c)
  \/ \E i \in DOMAIN connected_outputs : task(i)
  \/ collect \/ return \/ stay

Spec == Init /\ [][Next]_vars

-----------------------------------------------------------------------------
Has(h, t) == \E k \in DOMAIN Disk[Records[h + 1]] : Disk[Records[h + 1]][k].txid = t

Answered(op) == call # NoCall /\ call.op = op /\ reply # NoReply

\* The transactions on disk with id t.
TxsOf(t) == {tx \in Stored : tx.txid = t}

\* Outpoint o names an output that exists and that the tx index leads to.
Resolvable(o) ==
  /\ o # NullOutPoint
  /\ is_genesis_tx(o.txid) \/ o.txid \in DOMAIN TxIndex
  /\ \E tx \in TxsOf(o.txid) : o.vout < tx.outs

(***************************************************************************)
(* A connected block or transaction has, for each transaction and in the   *)
(* order of the inputs that FullTransaction and CompactTransaction show,   *)
(* exactly the outputs that these name, whatever order the tasks return    *)
(* in: a None in the middle never shifts the outputs of one transaction    *)
(* into another.                                                           *)
(***************************************************************************)
ConnectedExactly ==
  /\ Answered("get_connected_block") \/ Answered("get_connected_transaction")
  /\ reply.ok
  =>
  /\ Len(reply.v) = Len(transactions)
  /\ \A k \in DOMAIN transactions :
       LET tx == transactions[k]
       IN  /\ reply.v[k].txid = tx.txid
           /\ reply.v[k].input =
                [i \in DOMAIN FullTransaction(tx).ins |-> <<tx.ins[i].txid, tx.ins[i].vout>>]
           /\ \A i \in DOMAIN FullTransaction(tx).ins : Resolvable(tx.ins[i])

(***************************************************************************)
(* MissingOutputs is the answer only when some input really has none: its  *)
(* outpoint leads nowhere, or reading the transaction it names failed.     *)
(***************************************************************************)
MissingOnlyIfUnresolved ==
  reply = Err("MissingOutputs") =>
    \/ lost # {}
    \/ \E k \in DOMAIN transactions :
         /\ ~is_coinbase(transactions[k])
         /\ \E i \in DOMAIN transactions[k].ins : ~Resolvable(transactions[k].ins[i])

(***************************************************************************)
(* "Returns the height of the block containing the given transaction ID"   *)
(* (src/src/api.rs:288): the block at that height has the transaction, and *)
(* a transaction that the tx index leads to in the chain has a height      *)
(* unless the index cannot be read.                                        *)
(***************************************************************************)
HeightHasTx ==
  Answered("get_block_height") =>
    /\ reply.ok => reply.v + 1 \in DOMAIN Records /\ Has(reply.v, call.arg)
    /\ reply = Err("CannotFindHeightForTransaction") =>
         TxIndex[call.arg] \notin ToSet(Records)

(***************************************************************************)
(* get_transaction returns the transaction with that id, and says that     *)
(* there is none only for one the tx index does not have: the genesis      *)
(* transaction, which is never in the tx index, is found all the same.     *)
(***************************************************************************)
FindsTransaction ==
  Answered("get_transaction") /\ tx_db =>
    IF reply.ok THEN \E tx \in TxsOf(call.arg) : reply.v = into(call.format, tx)
    ELSE reply = Err("TransactionRecordNotFound") =>
           call.arg \notin DOMAIN TxIndex \cup {GenesisTxid}

(***************************************************************************)
(* "Get a block (in different formats (Block, FullBlock, CompactBlock))"   *)
(* (src/src/api.rs:217): each format has the transactions of the block at  *)
(* that height, in order, and the last two have as many inputs as there    *)
(* are outputs to connect, so that they can be read beside the connected   *)
(* block of the same height.                                               *)
(***************************************************************************)
FormatsAgree ==
  Answered("get_block") /\ reply.ok =>
    LET block == Disk[Records[call.arg + 1]]
    IN  /\ Len(reply.v) = Len(block)
        /\ \A k \in DOMAIN block :
             /\ reply.v[k].txid = block[k].txid
             /\ call.format # "library" => Len(reply.v[k].ins) = outpoints_count(block[k])
=============================================================================
