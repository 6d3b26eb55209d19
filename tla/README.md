# A TLA+ model of bitcoin-explorer

`bitcoin-explorer` (the crate in `src/`) reads the data directory of a stopped
Bitcoin Core node: it loads the block index, finds blocks and transactions in
the `blk*.dat` files, and iterates over the chain in parallel, if asked with
every input replaced by the output it spends. This directory holds TLA+ modules
that model it, TLC configurations that check them on small instances, and
proofs checked by TLAPS. `PROJECT.json` lists the runs, the source lines behind
every definition, the hazards and the theorems.

## The system

| Component | State | Operations | Interacts with |
|---|---|---|---|
| `ConnectedBlockIter` (`iter/connected_block_iter.rs`) | two chained `ParIterSync`, a cache of unspent outputs | `new`, `next`, drop, `null` | calls the two closures below from two pools of threads |
| in-memory UTXO cache (`iter/fetch_connected_async.rs`, `iter/util.rs`) | `Mutex<HashMap<Txid, Arc<Mutex<VecMap>>>>` | `update_unspent_cache`, `connect_outpoints`, `VecMap::{from_vec, remove, is_empty}` | shared by all workers of both pools |
| on-disk UTXO cache (`iter/fetch_connected_async.rs`, feature `on-disk-utxo`) | a temporary RocksDB, one key per output | the same two functions | shared by all workers of both pools |
| `BlockIter` (`iter/block_iter.rs`) | one `ParIterSync` | `new`, `from_range`, `next`, drop | `BitcoinDB::get_block` |
| `BlockIndex` (`parser/block_index.rs`) | `records`, `hash_to_height`, fixed once loaded | `load_block_index`, queries by height and hash | LevelDB `blocks/index` |
| `BlkFile` (`parser/blk_file.rs`) | number -> path, XOR key | scan, `read_raw_block`, `read_block`, `read_transaction` | `XorReader` |
| `XorReader` (`parser/xor.rs`) | position, buffer | `read`, `fill_buf`, `consume`, `seek` | the file |
| `TxDB` (`parser/tx_index.rs`) | `file_pos_to_height` | `open`, `get_tx_position`, `get_block_height` | LevelDB `indexes/txindex`, `BlockIndex` |
| connected queries (`parser/block_types/connected_block.rs`, `api.rs`) | none beyond the call | `get_connected_block`, `get_connected_transaction`, rayon tasks running `connect_input` | `TxDB`, `BlkFile` |
| block formats (`full_block.rs`, `compact_block.rs`) | none | `From<Block>`, `From<Transaction>` | every query and iterator |
| scripts (`parser/script.rs`) | none | `evaluate_script` | every output of every format |
| binary reader (`parser/reader.rs`) | the position of a `Cursor`, the `n` of `read_varint` | `read_varint`, `read_u32`, `read_vec_u8`, `read_block`, `read_transaction`, `read_block_header` | values of both LevelDBs, `XorReader` |
| errors, library surface, integration tests | none | types, re-exports | - |

What is hard here is concurrency and order. Stage 1 of the connected iterator
inserts the outputs of blocks in parallel and ahead of stage 2; stage 2 removes
them in parallel, in three critical sections per input (look up the
transaction, take the output, remove the key of an emptied transaction). An
output must be there when the valid input that spends it looks for it, whatever
the interleaving; an input of bad data must fail; every failure must end the
stream exactly where it belongs, although the threads meet failures out of
order; and all threads must end. The RocksDB variant reads, deletes and fails
in separate operations. The block index must not depend on the order of the
LevelDB scan. The reader must keep its position in the key through short reads, is only right
when it is used in one of two ways, and may meet the end of a file that lost its
tail. Numbers of any length are read into integers of a fixed width, from values
whose layout depends on what was read before. A panic while a script is
classified takes a whole iteration with it.
The connected queries match the results of parallel tasks to inputs by position.

What makes each component correct:

- connected iterator: it is an in-order stream of correctly connected blocks
  that ends only at `end` or at a block that cannot be produced
  (`IsConnectedStream`); no valid block is refused (`NoSpuriousErr`); the cache
  is the UTXO set (`CacheIsUtxoSet`, `StoreIsUtxoSet`); nothing is spent twice
  (`SpentOnce`); all threads end (`Terminates`).
- block iterator: exactly the requested blocks up to the first unreadable one
  (`DeliversPrefix`), and termination.
- block index: one chain to a highest valid block (`IndexIsChain`), panics only
  on a gap (`PanicOnlyOnGap`), consistent lookups (`HashHeightInverse`), and
  the promise of `get_block_count` (`AvailableForQuery`): the records below it
  lead to their blocks on disk.
- block files and reader: all files under their numbers (`AllFilesIndexed`);
  positions lead to exactly what is stored there, or to an error that has its
  reason (`ReadsBack`); each call uses its reader as it must be used
  (`ReaderProtocol`) and returns (`EveryCallReturns`); bytes are decoded with
  the right byte of the key (`Transparent`, `PosSynchronous`).
- binary reader: one encoding per number (`Canonical`), and values read back as
  they were written, or not at all (`DecodesWritten`).
- scripts: no panic (`NoPanic`), a classification that does not depend on the
  order of the tests where it should not (`MostSpecific`), and the addresses
  that go with it (`AddressesOfPattern`).
- queries: `ConnectedExactly`, `MissingOnlyIfUnresolved`, `HeightHasTx`,
  `FindsTransaction`, and formats that have as many inputs as there are outputs
  connected (`FormatsAgree`).

## Modules

- `ParIterSync` - *external*: the contract of the crate `par_iter_sync` as the
  iterators use it. Workers take tasks in order, run a closure, and `next()`
  hands out results in task order; an `Err` ends the stream at its task; a drop
  stops the workers. `Ahead` bounds how far the workers run ahead. Its channels
  are not modelled.
- `BlockChain` - the blocks on disk as two tables per block (transactions,
  inputs) and what a valid input is (`ValidSpend`).
- `ConnectedStream` - the abstract specification of the connected iterator: a
  sequence of connected blocks, no threads, no cache.
- `ConnectedBlockIter` - the pipeline: two instances of `ParIterSync`, `S1` and
  `S2`, the caller, and dropping. `no_more_blocks` is a worker of stage 2 that
  gets `None` from stage 1; `drop_upstream` is the end of the last worker of
  stage 2, which owns stage 1. `broken` is a history variable: the heights at
  which the disk or the store failed.
- `VecMap` - the operations of `iter/util.rs`.
- `InMemUtxo` (extends the pipeline) - one action per critical section:
  `update_unspent_cache` (the `extend` under the lock; the block is read before
  it and touches nothing shared), `connect_get`, `connect_take`,
  `connect_add`/`connect_take_err` (with `RemoveKey`), `connect_return`. `heap`
  holds the `VecMap`s behind the `Arc`s by transaction, so a connector can
  still hold one that is no longer in the map.
- `OnDiskUtxo` (extends the pipeline) - the batch is one action, `multi_get` one
  action per key, `delete` one action per key; each of them may fail, and so
  may creating the store (then `null()`). The place of an input's answer, `pos`,
  is the number of inputs before it that are not null.
- `BlockIndexRecord` - a record, its status flags, `is_valid`, and which fields
  a value has.
- `BlockIndex` (extends it) - the scan, one action per entry in any order, the
  walk, one action per block, and the queries as operators. An entry either
  decodes or not; `RecordReader` has the bytes.
- `RecordReader` (extends `BlockIndexRecord`) - the bytes of one LevelDB value,
  read one action per byte: `read_more` and `read_last` are the two ways through
  the loop of `read_varint`, `read_eof` is a failing `read_u8`. `Shifted` and
  `Cast` keep the widths of `usize`, `u32` and `i32`. What Bitcoin Core writes
  (`Write`) is external.
- `BlkFile` - the scan of the directory in any order.
- `XorReader` - reads of any size; a byte is the pair of its position and the
  byte of the key it was XORed with. The actions are the code's and may be called
  at any time; `Next` is the protocol under which they are right: a new reader,
  one seek, then `read()` alone or `fill_buf()` and `consume()` alone.
- `BlkRead` (extends `XorReader`, instantiates `BlkFile` as `F`) - the calls
  `read_raw_block`, `read_block` and `read_transaction`: open, seek, the length
  through `read_u32`, then `read_exact` over any number of short reads, or the
  decoder of the library, which may use the reader either way. Any of them may
  fail, and a file may end too early.
- `BlockIter` - one `ParIterSync` over a range or a list of heights.
- `BitcoinDB` - opening the database, `get_block` in all formats, the four
  queries that need the tx index, and one action per rayon task. It builds on
  what `BlockIndex` and `BlkRead` show: positions are unique and lead to their
  blocks (`DbAssumption`). The two loops of `connect_block_inputs` are recursive
  functions: `InsUpTo` collects the inputs of the transactions so far, `Pushed`
  keeps what is `Some`.
- `Script` - `evaluate_script` on sequences of instructions; the library's tests
  are external. `panics` is where an assertion or unreachable branch of a helper
  would be reached, and then ends the evaluation.
- `InMemUtxoProofs` (with the lemmas about `VecMap`), `OnDiskUtxoProofs`,
  `BlkReadProofs` (with those about `XorReader` and `BlkFile`), `BlockIndexProofs`
  (with those about `RecordReader`), `BlockIterProofs`, `BitcoinDBProofs` (with those
  about `Script`) - proofs. A proof module extends every module it is about;
  `RecordReader` and `Script` call their specifications `ValueSpec` and `ScriptSpec`
  to stand beside the others. `ConnectedBlockIterProofs` has what
  the two connected iterators share; `ParIterSync` holds its own lemmas.
- `MC*` - the instances: chains, block trees, directories, files, values,
  scripts.

Definitions whose comment begins with "Mutant" are wrong on purpose: each is a
plausible bug of the code, and the property named with it in `PROJECT.json` is
violated when it replaces the real definition.

## Runs

| Run | Checks | Shows |
|---|---|---|
| `in_mem_valid` | `CacheIsUtxoSet`, `IsConnectedStream`, `Terminates` | valid chain, failing reads, `end` past the chain (42k states) |
| `in_mem_bad` | `TypeOK`, `NoSpuriousErr`, `SpentOnce`, `IsConnectedStream` | double spend and spend of nothing (7.5k) |
| `in_mem_twice` | `NewTxNotInUnspent` | *violated*: duplicate coinbase ids |
| `on_disk_valid` | `TypeOK`, `NoSpuriousErr`, `StoreIsUtxoSet`, `IsConnectedStream` | failing store (155k) |
| `on_disk_bad` | `NoSpuriousErr`, `IsConnectedStream`, `Terminates` | bad chain and failing store (31k) |
| `block_index` | `IndexIsChain`, `PanicOnlyOnGap`, `HashHeightInverse`, `AvailableForQuery` | all scan orders of 68 databases, one of them pruned (4.7k) |
| `blk_file` | `AllFilesIndexed`, `ReadsBack`, `Transparent`, `PosSynchronous`, `ReaderProtocol`, `EveryCallReturns` | files and absolute links, a truncated and a missing file, all lengths of reads (9.5k) |
| `blk_file_relative` | `AllFilesIndexed` | *violated*: relative links are skipped |
| `block_iter` | `DeliversPrefix`, `Terminates` | ranges and lists (812) |
| `bitcoin_db` | `ConnectedExactly`, `MissingOnlyIfUnresolved`, `HeightHasTx`, `FindsTransaction`, `FormatsAgree` | tasks in any order, failing reads, all formats (946) |
| `record_reader` | `Canonical`, `DecodesWritten` | whole and cut values, strings nobody wrote (45k) |
| `script` | `NoPanic`, `MostSpecific`, `AddressesOfPattern` | scripts of up to five instructions (16k) |

The two violated properties state what a comment or doc line of the source says;
`PROJECT.json` quotes the lines under "findings". Other lines that the models
disagree with, without a run of their own:

- `api.rs:127` ("Get the maximum height found in block index."): the deprecated
  `get_max_height` returns the number of records, one more than the height of the
  last (`IndexIsChain`).
- `parser/xor.rs:16` ("synchronous with `Seek::stream_position`") holds only with
  a key: without one `pos` stays where the last seek put it, and nothing reads it
  (`PosSynchronous` says so).
- `compact_block.rs:24` and `:82` promise precomputed script types, which
  `CompactTxOut` does not have.
- `evaluate_script` takes a network, but the addresses of p2pk and multisig
  scripts are always those of the main network (`script.rs:166`, `:222`). Every
  caller passes the main network.

**Bounds.** The chains have four blocks. Two workers per stage and `Ahead` = 3
(2 for the larger store runs) let two connectors work on blocks that spend
outputs of one transaction, of each other's blocks and of their own block,
while stage 1 is one or two blocks ahead: every pair of critical sections of
two connectors and an updater interleaves. The valid chain has a transaction
emptied by two blocks (the race for the key), a spend inside one block, and
`End` may exceed the chain. Workers are not declared symmetric because most of
these runs check temporal properties. The block tree has two branches of equal
or different height, with every status of the blocks that matters. `U32Max` is
255 in the runs; only its difference from real positions matters. The key has
three bytes and the buffer four, so that chunks and key never line up; the
largest file has 19 bytes with two blocks of 4 and 5 bytes and headers of 2, so a
length, a block and a transaction all begin in the middle of a key, and `MaxPos`
= 24 lies past the end of every file. A length read from bytes that are no length
may be anything up to it. `RecordReader` keeps two bits of a number per byte
(`Base` = 4) and has a `u32` of five bits and a `usize` of six: what Bitcoin Core
writes takes up to three bytes, and four overflow, as ten of seven bits do in the
code. `Script` has every script of up to two instructions from 19, all of them
with each ending, and the shapes of multisig and key-hash scripts up to five;
longer multisig scripts only repeat keys. Every safety property is also proved for
all bounds; liveness rests on the instances alone.

**Fairness.** Weak fairness for each worker thread (the operating system
schedules threads, and no critical section waits for anything but another
critical section), for the caller's `next()` (the property is about a caller
that keeps asking; it may also drop the iterator at any moment, with no
fairness), and for the drop of stage 1 by the last worker of stage 2, which is
part of that thread's end. In `BlkRead`, weak fairness for the thread that makes
the call: a read that can return bytes or the end of the file does. No fairness is assumed for failures, nor for success
where a failure is possible.

**Deadlock** is checked in all runs; a stopped system repeats its state by an
explicit `stay` or `stay_stopped` step that requires it to be finished.

## Proofs

Checked with `tlapm`, for all values of the constants. Every safety invariant that
a passing run checks is proved, and so are the two refinements of `ConnectedStream`
and the one of `XorReader`. Most of the inductive invariants were checked with TLC
on the runs' instances first.

### What is assumed

The assumptions are about data that the program is given, never about what it
does; TLC evaluates each of them on the instances.

- `ChainAssumption`, `PipelineAssumption`, `InMemAssumption`, `OnDiskAssumption`:
  blocks are well-formed, no block has one transaction twice, `NullOutPoint`,
  `NoTx` and `NoOut` are told apart from data, `End` and `Ahead` are numbers.
- `RequestAssumption`: heights are natural numbers.
- `DatabaseAssumption`: a record is stored under its hash, so there is one of
  each, and heights count from 0. `DiskAssumption`: no two blocks on disk share
  a place; a genesis block that was stored and has no data was pruned, with the
  file that holds it and its successors, and not without a tip.
- `XorAssumption`, `ReadAssumption`, `DirsAssumption`, `WrittenAssumption`: the key
  and the buffer are not empty; positions are those of
  an index; links lead to a file of their own name (`blk_file_relative` has one
  that does not); what the indexes give for a file is where a block or
  transaction starts.
- `DbAssumption`, `StoredAssumption`, `GenesisAssumption`: what `BlockIndex` and
  `BlkRead` show of records and positions; the tx index leads to a block that has
  the transaction; one id is one transaction; height 0 is the genesis block, and
  nothing names an output of it other than its only one (`connect_input` does not
  look at the number of that output).
- `WidthAssumption`, `InputAssumption`: a `usize` holds a `u32`, and the number of
  its values is a multiple of `Base`, as 2^64 is of 128; values are bytes, and one
  that was written is what Bitcoin Core writes of a record whose numbers fit their
  fields, or a beginning of it. `ScriptAssumption`: a script is a finite sequence
  of instructions, `OP_N` is a number from -1 to 16, and only the last instruction
  can be one that cannot be read.

### The connected iterators

- `InMemUtxoProofs!ValidBlocksConnect`: `Spec => []NoSpuriousErr`. For every chain,
  any sets of workers and any `Ahead`, the in-memory iterator reports "bad data"
  for no valid block. `NoSpuriousErr` is not inductive; `IInv` adds what makes it
  so:
  - the contract invariants of both stages (`S1!Inv`, `S2!Inv`) and how they
    are chained (`Chained`): when stage 2 takes block *h*, the outputs of all
    blocks up to *h* are in;
  - `Counted`: each `VecMap`'s counter is its number of occupied slots, so an
    empty counter means that nothing is left;
  - `KeyLeads`, `KeyStays`: a key leads to a transaction of that id, and stays
    while the transaction has outputs;
  - `Remembers`: what a connector knows between critical sections stays true;
    in particular, once empty, a map stays empty, which makes the stale
    `is_empty` answer harmless;
  - `TakenByInput`: an output that is gone was asked for by an input that spends
    it. A valid input is the only one with its outpoint, so before it asks, its
    output is there, the map is not empty, and the key is in place.
- `TypeCorrect`: `Spec => []TypeOK`, from the same invariant; the counter of a
  `VecMap` never goes below zero.
- `NeverSpentTwice`: `Spec => []SpentOnce`. An output is in one place
  (`OnePlace`): in its slot, with one connector that has not added it yet, or
  connected to one input. An empty slot never fills again, so that no second
  connector can take from it.
- `CacheExact`: `Spec => []CacheIsUtxoSet`. To the above it adds the converse
  directions: what was asked for was taken (`AskedTaken`), and a key goes when the
  last output does (`KeyGoes`). The part about keys speaks of transactions with outputs: one without any
  has an empty map from the beginning, and keeps its key.
- `ImplementsStream`: `Spec => IsConnectedStream`, the refinement. `Linked` ties
  the inputs of a block that are connected to outputs they name, and says that a
  block that waits for its turn has them all; then `next()` is the abstract `Emit` or the
  end, and every other step a stutter.
- `OnDiskUtxoProofs`: `ValidBlocksConnect`, `TypeCorrect`, `StoreExact` and
  `ImplementsStream`, the same for RocksDB with any operation failing. There is no
  critical section to rely on: a key leads to an inserted output that it names
  (`StoreLeads`); one that is gone was deleted for an input that spends it
  (`DeletedByInput`, and `SpentIsGone` for the converse); and what a connector has
  read is what its keys name, or nothing, and that only if the block is not valid
  or the store failed for it (`Remembers`). `BrokenShows` ties the failures of the
  store to the blocks at which the stream may end.

### Blocks, index and files

- `BlockIterProofs!BlocksInOrder`: `FairSpec => []DeliversPrefix`, from the
  invariant of `ParIterSync`: the task list is what was asked for (`Asked`), the
  results given to the caller are those of the tasks handed over (`HandedOver`),
  and a task fails only when its block cannot be read (`EndsRightly`).
- `ParIterSync!NoTaskLost`: under the contract, a task that was taken is in
  exactly one place.
- `BlockIndexProofs!LoadedIndexIsChain`, `PanicMeansGap`, `HashesAndHeights`:
  `Spec => []IndexIsChain`, `[]PanicOnlyOnGap` and `[]HashHeightInverse`, for every
  database and every order of the scan. The invariant follows the two phases.
  `Scanned`: the map holds every valid record that was reached, and the highest of
  them is at hand. `Walked`: the walk has gone down one height at a time, each
  block the predecessor of the one before, and everything below is still in the
  map. `Followed`: whatever chain leads back from the highest block, the walk is
  on it, so a walk that gets stuck has found that there is none. `Mapped`:
  `hash_to_height` says what the records say.
- `BlockIndexProofs!CountedAreAvailable`: `Spec => []AvailableForQuery`, for
  pruned nodes too.
- `BlkReadProofs!ReaderTransparent`, `PosFollowsFile`: `Spec => []Transparent` and
  `[]PosSynchronous` of `XorReader`, for files, keys and buffers of any length,
  with or without a key. The invariant says that `pos` is the position of the
  inner reader whenever there is a key, and that the buffer holds exactly the
  bytes between the consumer and the inner reader.
- `BlkReadProofs!CallsKeepProtocol`: `ReadSpec => ReaderProtocol`, that is, the
  calls of `blk_file.rs` implement the specification of `XorReader`: initial
  states map to initial states, and every step of a call is one of the protocol
  or leaves the reader alone. A call that has opened a file has a new reader, and
  one that has sought keeps to one way of reading. `CallsReadTransparently`
  composes this with the reader's own theorem.
- `BlkReadProofs!IndexComplete`: `ReadSpec => []AllFilesIndexed`. What the scan has
  put in the map is exactly what it has seen of numbered files (`ScanInv`).
- `BlkReadProofs!ReadsWhatWasWritten`: `ReadSpec => []ReadsBack`. `OpenRight`: the
  open file is the one of the request. `BeganRight`: reading began where the
  thing starts, after a length that was read right. `BytesRight`: what was read so
  far is the beginning of what was written there. So a call that has all it
  wanted has the whole, and an end of the file before that means that the file
  is too short.

### The queries

- `BitcoinDBProofs!ConnectsExactly`, `MissingIsMissing`: `Spec => []ConnectedExactly`
  and `[]MissingOnlyIfUnresolved`, for every chain and every order in which the
  rayon tasks return. `TasksRight` is the heart: the slot of input *i* of
  transaction *k* lies behind all inputs of the transactions before (`Place`), and
  holds `Pending`, or the output its input names if there is one, or `None`. As
  many slots are popped for a transaction as it has inputs, and as many outputs
  are pushed as inputs are expected exactly if none of them is `None`; for a
  coinbase, whose only slot is `None`, none is expected.
- `HeightsRight`, `FindsTransactions`, `FormatsRight`: `Spec => []HeightHasTx`,
  `[]FindsTransaction` and `[]FormatsAgree`. `Opened` says what the map of `TxDB`
  is once it is open, `ReplyRight` which lookup a reply comes from.

### Values and scripts

- `BlockIndexProofs!VarIntCanonical`: `ValueSpec => []Canonical`, for any bytes, base
  and width. `ReadInv`: as long as no bit was lost, the bytes taken of a number are those that
  Bitcoin Core writes before the last byte of it, for the number they make
  (`Taken`); one more byte makes `Leading` one longer (`TakenMore`), and the last
  one makes an encoding (`TakenLast`). That a shifted `n` and seven
  more bits are a `usize` again needs that its range is a multiple of `Base`
  (`ShiftedFacts`).
- `BlockIndexProofs!RecordDecodesWritten`: `ValueSpec => []DecodesWritten`. It needs
  the other direction, that what was written is read without a loss: no two numbers have the
  same leading bytes (`LeadingInjective`), and a beginning of them stands for a
  number that is not larger (`LeadingPrefix`), so that no number on the way
  overflows (`VarIntMore`) and the last byte gives the number itself (`VarIntEnd`).
  `DecodeInv` then says where the reader is in what was written: what is left is the
  field being read and everything behind it (`InField`, `Behind`), or the header
  (`InHeader`), and what is known is what was written of the fields before (`Known`). The layout depends on the status
  that was read: the next field that is there is the next that was written
  (`FieldNext`).
- `BitcoinDBProofs!ScriptNoPanic`, `ScriptMostSpecific`,
  `ScriptAddressesOfPattern`: `ScriptSpec => []NoPanic`, `[]MostSpecific` and
  `[]AddressesOfPattern` for scripts of every length. A script that `is_multisig`
  accepts has exactly its pushes between the two numbers (`MultisigFacts`), so the
  assertion and both unreachable branches of `multisig_addresses` are out of
  reach, and one that `is_p2pk` accepts starts with a push, so those of
  `p2pk_to_address` are too (`P2pkNeverPanics`); the shapes that the library tests for exclude each other, but for the
  witness programs (`Exclusive`). `Evaluated` is the invariant.

Induction over the length of a sequence goes by least counterexample, and so
does induction over a number: `Induction` in `BitcoinDBProofs` and `StrongInduction`
in `BlockIndexProofs` take a set of numbers, from `WFMin` of the library, so that no operator has to be instantiated. That a recursive function is what its
equation says is shown by building one that satisfies the equation
(`InsUpToUnfolds`, `PushedUnfolds`, `LeadingUnfolds`).

### Only model-checked

- Liveness, `Terminates` and `EveryCallReturns`: fairness and `ENABLED` are out of
  the prover's reach.
- `NewTxNotInUnspent` and the scan of relative links, which are violated.

## Not modelled

- Headers, amounts, witnesses and the text of addresses and errors: they are
  copied or formatted field by field.
- `lib.rs`, module files, Serde attributes: types and re-exports. `read_u256` and
  `read_i32` of `reader.rs` have no caller.
- `tests/test_api.rs`: it needs a data directory of Bitcoin Core.
- The failure flags of a block index status (`BLOCK_FAILED_VALID`), which the code
  does not look at: a block that the operator invalidated may be indexed.
- The inside of `par_iter_sync`, `rayon`, RocksDB and LevelDB: external.
- The deletion of the temporary directory while workers still hold the open
  RocksDB: it depends on the drop order inside the external crates.
- A duplicate id whose first transaction is fully spent at the moment when the
  second is inserted: the key of the second can be removed by a connector of
  the first. It needs an id repeated after BIP30; the properties about the
  cache speak of unique ids.

## Plan

1. (done) `ParIterSync`, `VecMap`, `BlockChain`, `InMemUtxo`, with its proofs.
2. (done) `ConnectedStream` and the refinement; `OnDiskUtxo`.
3. (done) `BlockIndex`, `BlkFile`, `XorReader`, `BlockIter`, `BitcoinDB`.
4. (done) `RecordReader`, `Script`, `BlkRead` as the composition of the files and
   the reader, the block formats.
5. (done) Proofs of the safety of both connected iterators, with the refinement of
   `ConnectedStream`; of the block index, the files, the reader and the queries.
6. (done) Proofs of the scripts, of the numbers and of the values made of them.
7. The inside of `par_iter_sync`, should its source become part of the repository:
   then `ParIterSync` would be the abstract specification that its channels implement.
