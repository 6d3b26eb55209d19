----------------------------- MODULE BlockIndex ----------------------------
(***************************************************************************)
(* The in-memory block index (src/src/parser/block_index.rs): it is loaded *)
(* from Bitcoin Core's LevelDB `blocks/index` by one scan over all entries *)
(* and one walk from the highest valid block back to the genesis block,    *)
(* and then answers the queries of src/src/api.rs.                         *)
(*                                                                         *)
(* An entry is stored under a key, which does not begin with `b` when it   *)
(* is not a block index record, and has a value, which may be undecodable  *)
(* (what is read from its bytes is in RecordReader).                       *)
(* LevelDB is external.  It is scanned in the order of block hashes, which *)
(* says nothing about heights: here, in any order.                         *)
(***************************************************************************)
EXTENDS BlockIndexRecord, Sequences, SequencesExt

CONSTANT
  Databases    \* the databases to load: sets of entries

VARIABLES
  db,                    \* the entries of the database
  phase,                 \* "open", "scan", "walk", "loaded", "err", "panicked"
  todo,                  \* entries the iterator has not reached
  by_hash,               \* block_index_by_block_hash
  max_block,             \* max_height_block_hash: a record, or None
  current_hash, current_height,
  block_index,           \* the records of the walk, highest first
  records,               \* BlockIndex.records
  hash_to_height         \* BlockIndex.hash_to_height, as a set of pairs

vars == <<db, phase, todo, by_hash, max_block, current_hash, current_height,
          block_index, records, hash_to_height>>

None == [hash |-> "none", height |-> -1]

\* The valid records of a database: what the walk is over.
ValidRecords(d) == {r \in {decode(e.value) : e \in {x \in d : x.key = "b"}} : is_valid(r)}

\* A record is stored under the hash of its block, so there is one of each
\* block; heights count from 0.
ASSUME DatabaseAssumption ==
  \A d \in Databases :
    /\ \A r \in ValidRecords(d) : r.height \in Nat
    /\ \A r, s \in ValidRecords(d) : r.hash = s.hash => r = s

\* The entries of the blocks that are on disk.
OnDisk(d) == {e \in d : e.key = "b" /\ HasData(e.value.status)}

\* Each block has a place of its own on disk.  Bitcoin Core counts the
\* transactions of a block when it stores the block.  A genesis block that
\* has lost its data since was pruned, with the file that holds it and its
\* successors, and pruning spares the tip.
ASSUME DiskAssumption ==
  \A d \in Databases :
    /\ \A e \in d : {"hash", "prev", "height", "status", "n_tx", "n_file", "n_data_pos",
                     "n_undo_pos"} \subseteq DOMAIN e.value
    /\ \A x, y \in OnDisk(d) :
         /\ x.value.n_file = y.value.n_file /\ x.value.n_data_pos = y.value.n_data_pos
         => x.value.hash = y.value.hash
    /\ \A e \in d : e.key = "b" /\ e.value.height = 0 /\ e.value.n_tx # 0 =>
         \/ e \in OnDisk(d)
         \/ /\ \E tip \in OnDisk(d) :
                 tip.value.height > 0 /\ Validity(tip.value.status) >= BLOCK_VALID_SCRIPTS
            /\ \A x \in OnDisk(d) : x.value.prev # e.value.hash

Init ==
  /\ db \in Databases
  /\ phase = "open"
  /\ todo = db
  /\ by_hash = {}
  /\ max_block = None
  /\ current_hash = None.hash /\ current_height = -1
  /\ block_index = <<>>
  /\ records = <<>>
  /\ hash_to_height = {}

walk_vars == <<current_hash, current_height, block_index>>
index == <<records, hash_to_height>>

-----------------------------------------------------------------------------
\* Database::open; create_if_missing is false.
open(ok) ==
  /\ phase = "open"
  /\ phase' = IF ok THEN "scan" ELSE "err"
  /\ UNCHANGED <<db, todo, by_hash, max_block, walk_vars, index>>

\* The iterator advances to entry e.
advance(e) == phase = "scan" /\ e \in todo /\ todo' = todo \ {e}

scan_other(e) ==
  /\ advance(e) /\ e.key # "b"
  /\ UNCHANGED <<db, phase, by_hash, max_block, walk_vars, index>>

scan_err(e) ==
  /\ advance(e) /\ e.key = "b" /\ ~e.decodes
  /\ phase' = "err"
  /\ UNCHANGED <<db, by_hash, max_block, walk_vars, index>>

scan_invalid(e) ==
  /\ advance(e) /\ e.key = "b" /\ e.decodes /\ ~is_valid(decode(e.value))
  /\ UNCHANGED <<db, phase, by_hash, max_block, walk_vars, index>>

\* Mutant: the last record wins, not the highest.
Higher_last(r) == TRUE

\* Record r replaces the highest one so far: a later one of the same height
\* does not.
Higher(r) == max_block = None \/ r.height > max_block.height

\* Mutant: only the records that were the highest when found are kept.
scan_valid_if_higher(e) ==
  LET r == decode(e.value)
  IN  /\ advance(e) /\ e.key = "b" /\ e.decodes /\ is_valid(r)
      /\ max_block' = IF Higher(r) THEN r ELSE max_block
      /\ by_hash' = IF Higher(r) THEN by_hash \cup {r} ELSE by_hash
      /\ UNCHANGED <<db, phase, walk_vars, index>>

scan_valid(e) ==
  LET r == decode(e.value)
  IN  /\ advance(e) /\ e.key = "b" /\ e.decodes /\ is_valid(r)
      /\ max_block' = IF Higher(r) THEN r ELSE max_block
      /\ by_hash' = by_hash \cup {r}
      /\ UNCHANGED <<db, phase, walk_vars, index>>

\* The iterator is exhausted.
start_walk ==
  /\ phase = "scan" /\ todo = {} /\ max_block # None
  /\ phase' = "walk"
  /\ current_hash' = max_block.hash /\ current_height' = max_block.height
  /\ UNCHANGED <<db, todo, by_hash, max_block, block_index, index>>

load_nothing ==
  /\ phase = "scan" /\ todo = {} /\ max_block = None
  /\ phase' = "loaded"
  /\ UNCHANGED <<db, todo, by_hash, max_block, walk_vars, index>>

Found == {r \in by_hash : r.hash = current_hash}

walk ==
  /\ phase = "walk" /\ current_height >= 0
  /\ \E r \in Found :
       /\ r.height = current_height
       /\ by_hash' = by_hash \ {r}
       /\ current_hash' = r.prev
       /\ current_height' = current_height - 1
       /\ block_index' = Append(block_index, r)
  /\ UNCHANGED <<db, phase, todo, max_block, index>>

\* "block hash not found in block index!", "some block info missing"
walk_panic ==
  /\ phase = "walk" /\ current_height >= 0
  /\ \A r \in Found : r.height # current_height
  /\ phase' = "panicked"
  /\ UNCHANGED <<db, todo, by_hash, max_block, walk_vars, index>>

\* Mutant: the records stay in the order of the walk.
Ordered_as_walked(s) == s

\* block_index.reverse()
Ordered(s) == Reverse(s)

finish_walk ==
  /\ phase = "walk" /\ current_height < 0
  /\ phase' = "loaded"
  /\ records' = Ordered(block_index)
  /\ hash_to_height' = {<<r.hash, r.height>> : r \in ToSet(block_index)}
  /\ UNCHANGED <<db, todo, by_hash, max_block, walk_vars>>

\* The index never changes again.
stay == phase \in {"loaded", "err", "panicked"} /\ UNCHANGED vars

scan(e) == scan_other(e) \/ scan_err(e) \/ scan_invalid(e) \/ scan_valid(e)

Next ==
  \/ \E ok \in BOOLEAN : open(ok)
  \/ \E e \in todo : scan(e)
  \/ start_walk \/ load_nothing \/ walk \/ walk_panic \/ finish_walk \/ stay

Spec == Init /\ [][Next]_vars

-----------------------------------------------------------------------------
(* The queries of src/src/api.rs; a height is an index into `records`.     *)

NotFound == -1
HasHeight(h) == h + 1 \in DOMAIN records

get_header(h) == records[h + 1]
get_hash_from_height(h) == get_header(h).hash

get_height_from_hash(hash) ==
  IF \E p \in hash_to_height : p[1] = hash
  THEN (CHOOSE p \in hash_to_height : p[1] = hash)[2]
  ELSE NotFound

\* The first height whose block is not downloaded, or all of them.
get_block_count ==
  LET missing == {h \in 0 .. Len(records) - 1 : get_header(h).n_tx = 0}
  IN  IF missing = {} THEN Len(records) ELSE Min(missing)

\* What is on disk: the blocks that Bitcoin Core has data of, each at the
\* position of its record (BlkRead has how it is read).
BlockAt(n_file, n_data_pos) ==
  {e.value.hash : e \in {x \in OnDisk(db) : /\ x.value.n_file = n_file
                                            /\ x.value.n_data_pos = n_data_pos}}

get_raw_block(h) ==
  IF HasHeight(h) THEN BlockAt(get_header(h).n_file, get_header(h).n_data_pos) ELSE {}

-----------------------------------------------------------------------------
Valid == ValidRecords(db)
Highest == {r \in Valid : \A x \in Valid : x.height <= r.height}

\* The records f lead from r back to height 0.
LeadBack(f, r) ==
  /\ f[r.height] = r
  /\ \A h \in 0 .. r.height : f[h].height = h
  /\ \A h \in 1 .. r.height : f[h].prev = f[h - 1].hash

Complete(r) == \E f \in [0 .. r.height -> Valid] : LeadBack(f, r)

(***************************************************************************)
(* A loaded index is one chain of valid records: height h is at index h,   *)
(* every block but the first has its predecessor before it, and the last   *)
(* is one of the highest valid blocks of the database, whatever the order  *)
(* of the scan.                                                            *)
(***************************************************************************)
IndexIsChain ==
  phase = "loaded" =>
    /\ (records = <<>>) <=> (Valid = {})
    /\ records # <<>> => Last(records) \in Highest
    /\ \A i \in DOMAIN records :
         /\ records[i] \in Valid
         /\ records[i].height = i - 1
         /\ i > 1 => records[i].prev = records[i - 1].hash

(***************************************************************************)
(* Loading panics only when the chain of a highest valid block has a gap   *)
(* (a pruned or not yet validated ancestor, or a wrong height): a stale    *)
(* branch, an invalid block or an unrelated entry never causes it.         *)
(***************************************************************************)
PanicOnlyOnGap == phase = "panicked" => \E r \in Highest : ~Complete(r)

(***************************************************************************)
(* get_height_from_hash and get_hash_from_height are inverse to each other *)
(* on the loaded chain, and no block off the chain has a height.           *)
(***************************************************************************)
HashHeightInverse ==
  phase = "loaded" =>
    /\ \A h \in 0 .. Len(records) - 1 :
         get_height_from_hash(get_hash_from_height(h)) = h
    /\ \A r \in Valid : get_height_from_hash(r.hash) # NotFound =>
         HasHeight(r.height) /\ get_header(r.height) = r

(***************************************************************************)
(* "This API guarantee that block 0 to `get_block_count() - 1` have been   *)
(* downloaded and available for query" (src/src/api.rs:140): the record of *)
(* each height leads to a block on disk, and to that of its hash.          *)
(***************************************************************************)
AvailableForQuery ==
  phase = "loaded" =>
    \A h \in 0 .. get_block_count - 1 :
      get_raw_block(h) = {get_hash_from_height(h)}
=============================================================================
