-------------------------- MODULE BlockIndexProofs --------------------------
(***************************************************************************)
(* Loading the block index, for every database and every order of the      *)
(* scan: the index is one chain to a highest valid block, only a gap in    *)
(* such a chain makes it panic, hashes and heights are inverse, and the    *)
(* blocks that get_block_count counts are on disk.  Then RecordReader, for *)
(* every record and every width: read_varint takes the one encoding of     *)
(* what it returns, and what Bitcoin Core wrote is what is read.           *)
(***************************************************************************)
EXTENDS BlockIndex, RecordReader, SequenceTheorems, WellFoundedInduction, TLAPS

DbKnown ==
  /\ db \in Databases
  /\ todo \subseteq db
  /\ by_hash \subseteq Valid

\* During the scan, every valid record that was reached is in the map, and
\* the highest of them is at hand.
Scanned ==
  phase \in {"open", "scan"} =>
    /\ \A e \in db \ todo :
         e.key = "b" /\ is_valid(decode(e.value)) => decode(e.value) \in by_hash
    /\ max_block = None => by_hash = {}
    /\ max_block # None =>
         max_block \in by_hash /\ \A r \in by_hash : r.height <= max_block.height
    /\ block_index = <<>> /\ records = <<>> /\ hash_to_height = {}

\* The walk goes down one height at a time, each block being the
\* predecessor of the one before; what is below is still in the map.
Walked ==
  phase = "walk" =>
    /\ max_block \in Highest
    /\ block_index \in Seq(Valid)
    /\ current_height \in Int /\ current_height >= -1
    /\ Len(block_index) = max_block.height - current_height
    /\ \A i \in 1 .. Len(block_index) : block_index[i].height = max_block.height + 1 - i
    /\ \A i \in 2 .. Len(block_index) : block_index[i - 1].prev = block_index[i].hash
    /\ block_index = <<>> => current_hash = max_block.hash
    /\ block_index # <<>> => current_hash = block_index[Len(block_index)].prev
    /\ \A r \in Valid : r.height <= current_height => r \in by_hash

\* The walk follows any chain that leads back from the highest block.
Followed ==
  phase = "walk" =>
    \A f \in [0 .. max_block.height -> Valid] :
      LeadBack(f, max_block) /\ current_height >= 0 =>
        current_hash = f[current_height].hash

\* hash_to_height has what the records say, and nothing else.
Mapped ==
  phase = "loaded" =>
    /\ records \in Seq(Valid)
    /\ \A i \in DOMAIN records : <<records[i].hash, records[i].height>> \in hash_to_height
    /\ \A p \in hash_to_height : \E i \in DOMAIN records :
         p = <<records[i].hash, records[i].height>>

IInv == DbKnown /\ Scanned /\ Walked /\ Followed /\ Mapped /\ IndexIsChain /\ PanicOnlyOnGap

\* What the assumption says of the database that is being loaded.
LEMMA ValidFacts ==
  ASSUME DbKnown
  PROVE  /\ \A r \in Valid : r.height \in Nat /\ r # None
         /\ \A r, s \in Valid : r.hash = s.hash => r = s
  <1>1. \A r \in Valid : r.height \in Nat
    BY DatabaseAssumption DEF DbKnown, Valid
  <1>2. None.height = -1
    BY DEF None
  <1>3. \A r \in Valid : r # None
    BY <1>1, <1>2
  <1>4. \A r, s \in Valid : r.hash = s.hash => r = s
    BY DatabaseAssumption DEF DbKnown, Valid
  <1> QED
    BY <1>1, <1>3, <1>4

LEMMA InitInv == Init => IInv
  <1> SUFFICES ASSUME Init PROVE IInv
    OBVIOUS
  <1>1. DbKnown /\ Scanned
    BY DEF Init, DbKnown, Scanned
  <1>2. Walked /\ Followed /\ Mapped /\ IndexIsChain /\ PanicOnlyOnGap
    BY DEF Init, Walked, Followed, Mapped, IndexIsChain, PanicOnlyOnGap
  <1> QED
    BY <1>1, <1>2 DEF IInv

\* Steps that end the loading without an index, and those that only open the
\* database, leave nothing to show of the walk and of the index.
LEMMA ScanPhase ==
  ASSUME DbKnown', Scanned', phase' \in {"open", "scan", "err"}
  PROVE  IInv'
  <1>1. Walked' /\ Followed' /\ Mapped' /\ IndexIsChain' /\ PanicOnlyOnGap'
    BY DEF Walked, Followed, Mapped, IndexIsChain, PanicOnlyOnGap
  <1> QED
    BY <1>1 DEF IInv

LEMMA OpenInv ==
  ASSUME IInv, NEW ok \in BOOLEAN, open(ok)
  PROVE  IInv'
  <1>1. DbKnown' /\ phase' \in {"scan", "err"}
    BY DEF IInv, DbKnown, Valid, open
  <1>2. Scanned'
    BY DEF IInv, Scanned, open, walk_vars, index
  <1> QED
    BY <1>1, <1>2, ScanPhase

LEMMA ScanInv ==
  ASSUME IInv, NEW e \in todo, scan(e)
  PROVE  IInv'
  <1>1. /\ phase = "scan" /\ e \in db /\ db' = db /\ todo' = todo \ {e}
        /\ phase' \in {"scan", "err"}
        /\ UNCHANGED <<block_index, records, hash_to_height>>
    BY DEF IInv, DbKnown, scan, scan_other, scan_err, scan_invalid, scan_valid,
       advance, walk_vars, index
  <1>2. Valid' = Valid
    BY <1>1 DEF Valid
  <1>3. CASE scan_other(e) \/ scan_err(e) \/ scan_invalid(e)
    <2>1. UNCHANGED <<by_hash, max_block>>
      BY <1>3 DEF scan_other, scan_err, scan_invalid
    <2>2. DbKnown'
      BY <1>1, <1>2, <2>1 DEF IInv, DbKnown
    <2>3. phase' = "scan" => ~(e.key = "b" /\ is_valid(decode(e.value)))
      BY <1>1, <1>3 DEF scan_other, scan_err, scan_invalid
    <2>4. Scanned'
      BY <1>1, <2>1, <2>3 DEF IInv, Scanned
    <2> QED
      BY <1>1, <2>2, <2>4, ScanPhase
  <1>4. CASE scan_valid(e)
    <2> DEFINE r == decode(e.value)
    <2>1. /\ by_hash' = by_hash \cup {r} /\ max_block' = IF Higher(r) THEN r ELSE max_block
          /\ e.key = "b" /\ is_valid(r)
      BY <1>4 DEF scan_valid
    <2>2. r \in Valid
      BY <1>1, <2>1 DEF Valid, ValidRecords
    <2>3. DbKnown'
      BY <1>1, <1>2, <2>1, <2>2 DEF IInv, DbKnown
    <2>4. \A s \in Valid : s.height \in Nat /\ s # None
      BY ValidFacts DEF IInv
    <2>5. /\ by_hash \subseteq Valid
          /\ max_block = None => by_hash = {}
          /\ max_block # None =>
               max_block \in by_hash /\ \A s \in by_hash : s.height <= max_block.height
          /\ \A x \in db \ todo :
               x.key = "b" /\ is_valid(decode(x.value)) => decode(x.value) \in by_hash
      BY <1>1 DEF IInv, Scanned, DbKnown
    <2> HIDE DEF r
    <2>6. max_block' # None /\ max_block' \in by_hash'
      BY <2>1, <2>2, <2>4, <2>5 DEF Higher
    <2>7. \A s \in by_hash' : s.height <= max_block'.height
      BY <2>1, <2>2, <2>4, <2>5 DEF Higher
    <2>8. \A x \in db' \ todo' :
            x.key = "b" /\ is_valid(decode(x.value)) => decode(x.value) \in by_hash'
      BY <1>1, <2>1, <2>5 DEF r
    <2>9. block_index' = <<>> /\ records' = <<>> /\ hash_to_height' = {}
      BY <1>1 DEF IInv, Scanned
    <2>10. Scanned'
      BY <2>6, <2>7, <2>8, <2>9 DEF Scanned
    <2> QED
      BY <1>1, <2>3, <2>10, ScanPhase
  <1> QED
    BY <1>3, <1>4 DEF scan

\* After the scan the map has all valid records.
LEMMA AllScanned ==
  ASSUME IInv, phase = "scan", todo = {}
  PROVE  by_hash = Valid
  BY DEF IInv, DbKnown, Scanned, Valid, ValidRecords

LEMMA StartWalkInv ==
  ASSUME IInv, start_walk
  PROVE  IInv'
  <1>1. /\ phase = "scan" /\ todo = {} /\ max_block # None /\ phase' = "walk"
        /\ current_hash' = max_block.hash /\ current_height' = max_block.height
        /\ UNCHANGED <<db, todo, by_hash, max_block, block_index>>
    BY DEF start_walk
  <1>2. by_hash = Valid
    BY <1>1, AllScanned
  <1>3. Valid' = Valid /\ Highest' = Highest
    BY <1>1 DEF Valid, Highest
  <1>4. max_block \in Highest /\ block_index = <<>>
    BY <1>1, <1>2 DEF IInv, Scanned, Highest
  <1>5. \A r \in Valid : r.height \in Nat
    BY ValidFacts DEF IInv
  <1>6. max_block \in Valid /\ max_block.height \in Nat
    BY <1>4, <1>5 DEF Highest
  <1>7. DbKnown' /\ Scanned' /\ Mapped' /\ IndexIsChain' /\ PanicOnlyOnGap'
    BY <1>1, <1>3 DEF IInv, DbKnown, Scanned, Mapped, IndexIsChain, PanicOnlyOnGap
  <1>8. Walked'
    <2>1. block_index' = <<>> /\ Len(<<>>) = 0 /\ <<>> \in Seq(Valid)
      BY <1>1, <1>4
    <2> QED
      BY <1>1, <1>2, <1>3, <1>4, <1>6, <2>1 DEF Walked
  <1>9. Followed'
    BY <1>1, <1>3 DEF Followed, LeadBack
  <1> QED
    BY <1>7, <1>8, <1>9 DEF IInv

LEMMA LoadNothingInv ==
  ASSUME IInv, load_nothing
  PROVE  IInv'
  <1>1. /\ phase = "scan" /\ todo = {} /\ max_block = None /\ phase' = "loaded"
        /\ UNCHANGED <<db, todo, by_hash, max_block, block_index, records, hash_to_height>>
    BY DEF load_nothing, walk_vars, index
  <1>2. Valid' = Valid
    BY <1>1 DEF Valid
  <1>3. Valid = {} /\ records = <<>> /\ hash_to_height = {}
    BY <1>1, AllScanned DEF IInv, Scanned
  <1>4. DbKnown' /\ Scanned' /\ Walked' /\ Followed' /\ PanicOnlyOnGap'
    BY <1>1, <1>2 DEF IInv, DbKnown, Scanned, Walked, Followed, PanicOnlyOnGap
  <1>5. DOMAIN <<>> = {} /\ <<>> \in Seq(Valid)
    OBVIOUS
  <1>6. Mapped' /\ IndexIsChain'
    BY <1>1, <1>2, <1>3, <1>5 DEF Mapped, IndexIsChain
  <1> QED
    BY <1>4, <1>6 DEF IInv

LEMMA WalkInv ==
  ASSUME IInv, walk
  PROVE  IInv'
  <1>1. PICK r \in Found :
          /\ r.height = current_height
          /\ by_hash' = by_hash \ {r}
          /\ current_hash' = r.prev
          /\ current_height' = current_height - 1
          /\ block_index' = Append(block_index, r)
    BY DEF walk
  <1>2. /\ phase = "walk" /\ current_height >= 0 /\ phase' = phase
        /\ UNCHANGED <<db, todo, max_block, records, hash_to_height>>
    BY DEF walk, index
  <1>3. Valid' = Valid /\ Highest' = Highest
    BY <1>2 DEF Valid, Highest
  <1>4. r \in Valid /\ r.hash = current_hash
    BY DEF IInv, DbKnown, Found
  <1>5. Walked /\ current_height \in Int /\ max_block \in Valid
    BY <1>2 DEF IInv, Walked, Highest
  <1>6. /\ \A s \in Valid : s.height \in Nat
        /\ \A s, t \in Valid : s.hash = t.hash => s = t
    BY ValidFacts DEF IInv
  <1>7. DbKnown' /\ Scanned' /\ Mapped' /\ IndexIsChain' /\ PanicOnlyOnGap'
    BY <1>1, <1>2, <1>3 DEF IInv, DbKnown, Scanned, Mapped, IndexIsChain, PanicOnlyOnGap
  <1>8. Walked'
    <2> DEFINE len == Len(block_index)
    <2>1. /\ block_index \in Seq(Valid) /\ len \in Nat
          /\ len = max_block.height - current_height
      BY <1>2, <1>5 DEF Walked
    <2>2. /\ block_index' \in Seq(Valid) /\ Len(block_index') = len + 1
          /\ block_index'[len + 1] = r
          /\ \A i \in 1 .. len : block_index'[i] = block_index[i]
      BY <1>1, <1>4, <2>1
    <2>3. block_index' # <<>>
      BY <2>1, <2>2
    <2>4. \A i \in 1 .. len : block_index[i].height = max_block.height + 1 - i
      BY <1>2, <1>5 DEF Walked
    <2>5. \A i \in 2 .. len : block_index[i - 1].prev = block_index[i].hash
      BY <1>2, <1>5 DEF Walked
    <2>6. len > 0 => block_index[len].prev = r.hash
      BY <1>2, <1>4, <1>5, <2>1 DEF Walked
    <2>7. max_block.height \in Nat
      BY <1>5, <1>6
    <2>8. \A s \in Valid : s.height <= current_height => s \in by_hash
      BY <1>2, <1>5 DEF Walked
    <2> HIDE DEF len
    <2>9. \A i \in 1 .. len + 1 : block_index'[i].height = max_block.height + 1 - i
      <3> SUFFICES ASSUME NEW i \in 1 .. len + 1
                   PROVE  block_index'[i].height = max_block.height + 1 - i
        OBVIOUS
      <3>1. CASE i = len + 1
        <4>1. block_index'[i].height = current_height
          BY <3>1, <2>2, <1>1
        <4>2. /\ current_height \in Int /\ len \in Nat /\ max_block.height \in Nat
              /\ len = max_block.height - current_height
          BY <1>5, <2>1, <2>7
        <4>3. max_block.height + 1 - (len + 1) = current_height
          BY <4>2
        <4> QED
          BY <3>1, <4>1, <4>3
      <3>2. CASE i \in 1 .. len
        BY <3>2, <2>2, <2>4
      <3> QED
        BY <3>1, <3>2, <2>1
    <2>10. \A i \in 2 .. len + 1 : block_index'[i - 1].prev = block_index'[i].hash
      <3> SUFFICES ASSUME NEW i \in 2 .. len + 1
                   PROVE  block_index'[i - 1].prev = block_index'[i].hash
        OBVIOUS
      <3>1. CASE i = len + 1
        BY <3>1, <2>1, <2>2, <2>6
      <3>2. CASE i \in 2 .. len
        BY <3>2, <2>1, <2>2, <2>5
      <3> QED
        BY <3>1, <3>2, <2>1
    <2>11. \A s \in Valid : s.height <= current_height - 1 => s \in by_hash \ {r}
      BY <1>1, <1>5, <1>6, <2>8
    <2>12. max_block \in Highest
      BY <1>2, <1>5 DEF Walked
    <2>13. current_hash' = block_index'[Len(block_index')].prev
      BY <1>1, <2>2
    <2>14. current_height' \in Int /\ current_height' >= -1
      BY <1>1, <1>2, <1>5
    <2>15. Len(block_index') = max_block.height - current_height'
      BY <1>1, <1>5, <2>1, <2>2, <2>7
    <2>16. \A s \in Valid : s.height <= current_height' => s \in by_hash'
      BY <1>1, <2>11
    <2>17. \A i \in 1 .. Len(block_index') : block_index'[i].height = max_block.height + 1 - i
      BY <2>2, <2>9
    <2>18. \A i \in 2 .. Len(block_index') : block_index'[i - 1].prev = block_index'[i].hash
      BY <2>2, <2>10
    <2> QED
      BY <1>2, <1>3, <2>2, <2>3, <2>12, <2>13, <2>14, <2>15, <2>16, <2>17, <2>18
      DEF Walked
  <1>9. Followed'
    <2> SUFFICES ASSUME NEW f \in [0 .. max_block.height -> Valid],
                        LeadBack(f, max_block), current_height - 1 >= 0
                 PROVE  r.prev = f[current_height - 1].hash
      BY <1>1, <1>2, <1>3 DEF Followed, LeadBack
    <2>1. max_block.height \in Nat /\ current_height <= max_block.height
      <3>1. Len(block_index) \in Nat /\ Len(block_index) = max_block.height - current_height
        BY <1>2, <1>5 DEF Walked
      <3>2. max_block.height \in Nat
        BY <1>5, <1>6
      <3> QED
        BY <1>5, <3>1, <3>2
    <2>2. current_height \in 1 .. max_block.height
      BY <1>5, <2>1
    <2>3. current_hash = f[current_height].hash
      BY <1>2 DEF IInv, Followed
    <2>4. f[current_height] \in Valid
      BY <2>1, <2>2
    <2>5. r = f[current_height]
      BY <1>4, <1>6, <2>3, <2>4
    <2> QED
      BY <2>2, <2>5 DEF LeadBack
  <1> QED
    BY <1>7, <1>8, <1>9 DEF IInv

\* The walk stops in a gap only: a complete chain of the highest block would
\* have had the record it looks for.
LEMMA WalkPanicInv ==
  ASSUME IInv, walk_panic
  PROVE  IInv'
  <1>1. /\ phase = "walk" /\ current_height >= 0 /\ phase' = "panicked"
        /\ \A r \in Found : r.height # current_height
        /\ UNCHANGED <<db, todo, by_hash, max_block>>
    BY DEF walk_panic
  <1>2. Valid' = Valid /\ Highest' = Highest
    BY <1>1 DEF Valid, Highest
  <1>3. max_block \in Highest /\ current_height \in Int /\ max_block \in Valid
    BY <1>1 DEF IInv, Walked, Highest
  <1>4. \A r \in Valid : r.height \in Nat
    BY ValidFacts DEF IInv
  <1>5. current_height \in 0 .. max_block.height
    <2>1. Len(block_index) \in Nat /\ Len(block_index) = max_block.height - current_height
      BY <1>1 DEF IInv, Walked
    <2> QED
      BY <1>1, <1>3, <1>4, <2>1
  <1>6. ~Complete(max_block)
    <2> SUFFICES ASSUME NEW f \in [0 .. max_block.height -> Valid], LeadBack(f, max_block)
                 PROVE  FALSE
      BY DEF Complete
    <2>1. current_hash = f[current_height].hash
      BY <1>1 DEF IInv, Followed
    <2>2. f[current_height] \in Valid /\ f[current_height].height = current_height
      BY <1>5 DEF LeadBack
    <2>3. f[current_height] \in by_hash
      BY <1>1, <1>3, <2>2 DEF IInv, Walked
    <2> QED
      BY <1>1, <2>1, <2>2, <2>3 DEF Found
  <1>7. PanicOnlyOnGap'
    BY <1>2, <1>3, <1>6 DEF PanicOnlyOnGap, Complete, LeadBack
  <1>8. DbKnown' /\ Scanned' /\ Walked' /\ Followed' /\ Mapped' /\ IndexIsChain'
    BY <1>1, <1>2 DEF IInv, DbKnown, Scanned, Walked, Followed, Mapped, IndexIsChain
  <1> QED
    BY <1>7, <1>8 DEF IInv

LEMMA FinishWalkInv ==
  ASSUME IInv, finish_walk
  PROVE  IInv'
  <1>1. /\ phase = "walk" /\ current_height < 0 /\ phase' = "loaded"
        /\ records' = Ordered(block_index)
        /\ hash_to_height' = {<<r.hash, r.height>> : r \in ToSet(block_index)}
        /\ UNCHANGED <<db, todo, by_hash, max_block>>
    BY DEF finish_walk
  <1>2. Valid' = Valid /\ Highest' = Highest
    BY <1>1 DEF Valid, Highest
  <1> DEFINE len == Len(block_index)
             top == max_block.height
  <1>3. /\ max_block \in Valid /\ max_block \in Highest
        /\ top \in Nat
        /\ block_index \in Seq(Valid)
        /\ len \in Nat /\ len = top + 1
    <2>1. Walked /\ current_height \in Int /\ current_height >= -1
      BY <1>1 DEF IInv, Walked
    <2>2. current_height = -1
      BY <1>1, <2>1
    <2>3. max_block \in Valid /\ max_block \in Highest /\ block_index \in Seq(Valid)
      BY <1>1, <2>1 DEF Walked, Highest
    <2>4. top \in Nat
      BY <2>3, ValidFacts DEF IInv
    <2> QED
      BY <1>1, <2>1, <2>2, <2>3, <2>4 DEF Walked
  <1>4. /\ \A i \in 1 .. len : block_index[i].height = top + 1 - i
        /\ \A i \in 2 .. len : block_index[i - 1].prev = block_index[i].hash
    BY <1>1 DEF IInv, Walked
  <1>5. DOMAIN block_index = 1 .. len /\ \A i \in 1 .. len : block_index[i] \in Valid
    BY <1>3
  <1>6. records' = [i \in 1 .. len |-> block_index[len - i + 1]]
    BY <1>1 DEF Ordered, Reverse
  <1> HIDE DEF len, top
  <1>7. /\ DOMAIN records' = 1 .. len
        /\ \A i \in 1 .. len : records'[i] = block_index[len - i + 1] /\ len - i + 1 \in 1 .. len
    BY <1>3, <1>6
  <1>8. records' \in Seq(Valid) /\ Len(records') = len
    <2>1. \A i \in 1 .. len : block_index[len - i + 1] \in Valid
      BY <1>5, <1>7
    <2> QED
      BY <1>3, <1>6, <2>1
  <1>9. \A i \in 1 .. len : records'[i] \in Valid /\ records'[i].height = i - 1
    BY <1>3, <1>4, <1>5, <1>7
  <1>10. \A i \in 2 .. len : records'[i].prev = records'[i - 1].hash
    <2> SUFFICES ASSUME NEW i \in 2 .. len PROVE records'[i].prev = records'[i - 1].hash
      OBVIOUS
    <2>1. /\ len - i + 2 \in 2 .. len /\ (len - i + 2) - 1 = len - i + 1
          /\ i \in 1 .. len /\ i - 1 \in 1 .. len
          /\ len - (i - 1) + 1 = len - i + 2
      BY <1>3
    <2>2. block_index[(len - i + 2) - 1].prev = block_index[len - i + 2].hash
      BY <1>4, <2>1
    <2>3. records'[i] = block_index[len - i + 1]
      BY <1>7, <2>1
    <2>4. records'[i - 1] = block_index[len - (i - 1) + 1]
      BY <1>7, <2>1
    <2> QED
      BY <2>1, <2>2, <2>3, <2>4
  <1>11. Last(records') \in Highest
    <2>1. Last(records') = records'[len] /\ records'[len] \in Valid /\ records'[len].height = top
      BY <1>3, <1>8, <1>9 DEF Last
    <2> QED
      BY <1>3, <2>1 DEF Highest, top
  <1>12. records' # <<>> /\ Valid # {}
    BY <1>3, <1>8
  <1>13. IndexIsChain'
    BY <1>1, <1>2, <1>3, <1>7, <1>9, <1>10, <1>11, <1>12 DEF IndexIsChain
  <1>14. Mapped'
    <2>1. ToSet(block_index) = {block_index[i] : i \in 1 .. len}
      BY <1>5 DEF ToSet
    <2>2. \A i \in 1 .. len : block_index[i] = records'[len - i + 1] /\ len - i + 1 \in 1 .. len
      BY <1>3, <1>7
    <2>3. \A i \in DOMAIN records' : <<records'[i].hash, records'[i].height>> \in hash_to_height'
      BY <1>1, <1>7, <2>1
    <2>4. \A p \in hash_to_height' : \E i \in DOMAIN records' :
            p = <<records'[i].hash, records'[i].height>>
      BY <1>1, <1>7, <2>1, <2>2
    <2> QED
      BY <1>1, <1>2, <1>8, <2>3, <2>4 DEF Mapped
  <1>15. DbKnown' /\ Scanned' /\ Walked' /\ Followed' /\ PanicOnlyOnGap'
    BY <1>1, <1>2 DEF IInv, DbKnown, Scanned, Walked, Followed, PanicOnlyOnGap
  <1> QED
    BY <1>13, <1>14, <1>15 DEF IInv

LEMMA NextInv ==
  ASSUME IInv, [Next]_vars
  PROVE  IInv'
  <1>1. CASE UNCHANGED vars
    BY <1>1 DEF vars, walk_vars, index, IInv, DbKnown, Scanned, Walked, Followed, Mapped,
       IndexIsChain, PanicOnlyOnGap, Valid, Highest, Complete, LeadBack
  <1>2. CASE Next
    BY <1>1, <1>2, OpenInv, ScanInv, StartWalkInv, LoadNothingInv, WalkInv,
       WalkPanicInv, FinishWalkInv DEF Next, stay
  <1> QED
    BY <1>1, <1>2

\* What follows for the queries: the pair of a hash is that of its record.
LEMMA InverseFromInv == IInv => HashHeightInverse
  <1> SUFFICES ASSUME IInv, phase = "loaded"
               PROVE  /\ \A h \in 0 .. Len(records) - 1 :
                           get_height_from_hash(get_hash_from_height(h)) = h
                      /\ \A r \in Valid : get_height_from_hash(r.hash) # NotFound =>
                           HasHeight(r.height) /\ get_header(r.height) = r
    BY DEF HashHeightInverse
  <1>1. /\ records \in Seq(Valid)
        /\ \A i \in DOMAIN records : <<records[i].hash, records[i].height>> \in hash_to_height
        /\ \A p \in hash_to_height : \E i \in DOMAIN records :
             p = <<records[i].hash, records[i].height>>
    BY DEF IInv, Mapped
  <1>2. \A i \in DOMAIN records : records[i] \in Valid /\ records[i].height = i - 1
    BY DEF IInv, IndexIsChain
  <1>3. \A r, s \in Valid : r.hash = s.hash => r = s
    BY ValidFacts DEF IInv
  <1>4. DOMAIN records = 1 .. Len(records) /\ Len(records) \in Nat
    BY <1>1
  <1>5. ASSUME NEW r \in Valid, \E p \in hash_to_height : p[1] = r.hash
        PROVE  /\ r.height + 1 \in DOMAIN records /\ records[r.height + 1] = r
               /\ get_height_from_hash(r.hash) = r.height
    <2> DEFINE p == CHOOSE p \in hash_to_height : p[1] = r.hash
    <2>1. p \in hash_to_height /\ p[1] = r.hash
      BY <1>5
    <2> HIDE DEF p
    <2>2. PICK i \in DOMAIN records : p = <<records[i].hash, records[i].height>>
      BY <1>1, <2>1
    <2>3. records[i] = r /\ i = r.height + 1
      BY <1>2, <1>3, <1>4, <2>1, <2>2
    <2>4. get_height_from_hash(r.hash) = p[2]
      BY <1>5 DEF get_height_from_hash, p
    <2> QED
      BY <2>2, <2>3, <2>4
  <1>6. ASSUME NEW h \in 0 .. Len(records) - 1
        PROVE  get_height_from_hash(get_hash_from_height(h)) = h
    <2>1. h + 1 \in DOMAIN records /\ records[h + 1] \in Valid /\ records[h + 1].height = h
      BY <1>2, <1>4
    <2>2. \E p \in hash_to_height : p[1] = records[h + 1].hash
      BY <1>1, <2>1
    <2>3. get_height_from_hash(records[h + 1].hash) = records[h + 1].height
      BY <1>5, <2>1, <2>2
    <2> QED
      BY <2>1, <2>3 DEF get_hash_from_height, get_header
  <1>7. ASSUME NEW r \in Valid, get_height_from_hash(r.hash) # NotFound
        PROVE  HasHeight(r.height) /\ get_header(r.height) = r
    <2>1. \E p \in hash_to_height : p[1] = r.hash
      BY <1>7 DEF get_height_from_hash
    <2> QED
      BY <1>5, <2>1 DEF HasHeight, get_header
  <1> QED
    BY <1>6, <1>7

(***************************************************************************)
(* A loaded index is one chain of valid records from height 0 to a highest *)
(* valid block, whatever the database and the order of the scan.           *)
(***************************************************************************)
THEOREM LoadedIndexIsChain == Spec => []IndexIsChain
  <1>1. IInv => IndexIsChain
    BY DEF IInv
  <1> QED
    BY <1>1, InitInv, NextInv, PTL DEF Spec

(***************************************************************************)
(* Loading panics only when the chain of a highest valid block has a gap.  *)
(***************************************************************************)
THEOREM PanicMeansGap == Spec => []PanicOnlyOnGap
  <1>1. IInv => PanicOnlyOnGap
    BY DEF IInv
  <1> QED
    BY <1>1, InitInv, NextInv, PTL DEF Spec

(***************************************************************************)
(* get_height_from_hash and get_hash_from_height are inverse on the chain. *)
(***************************************************************************)
THEOREM HashesAndHeights == Spec => []HashHeightInverse
  BY InverseFromInv, InitInv, NextInv, PTL DEF Spec

\* A set of heights has a lowest one.
LEMMA LeastHeight ==
  ASSUME NEW S \in SUBSET Nat, S # {}
  PROVE  Min(S) \in S /\ \A y \in S : Min(S) <= y
  <1> DEFINE R == {ss \in Nat \X Nat : ss[1] < ss[2]}
  <1>1. IsWellFoundedOn(R, Nat)
    BY NatLessThanWellFounded DEF OpToRel
  <1>2. PICK x \in S : \A y \in S : ~(<<y, x>> \in R)
    BY <1>1, WFMin
  <1>3. ASSUME NEW y \in S PROVE x <= y
    <2>1. x \in Nat /\ y \in Nat /\ <<y, x>> \in Nat \X Nat
      OBVIOUS
    <2>2. ~(<<y, x>>[1] < <<y, x>>[2])
      BY <1>2, <2>1
    <2> QED
      BY <2>1, <2>2
  <1> QED
    BY <1>3 DEF Min

\* Below get_block_count every record has transactions.
LEMMA CountedHaveTx ==
  ASSUME Len(records) \in Nat, NEW h \in 0 .. get_block_count - 1
  PROVE  h \in 0 .. Len(records) - 1 /\ get_header(h).n_tx # 0
  <1> DEFINE missing == {g \in 0 .. Len(records) - 1 : get_header(g).n_tx = 0}
  <1>1. CASE missing = {}
    BY <1>1 DEF get_block_count
  <1>2. CASE missing # {}
    <2>1. missing \in SUBSET Nat
      OBVIOUS
    <2>2. Min(missing) \in missing /\ \A y \in missing : Min(missing) <= y
      BY <1>2, <2>1, LeastHeight
    <2>3. get_block_count = Min(missing)
      BY <1>2 DEF get_block_count
    <2>4. h \in 0 .. Len(records) - 1
      BY <2>2, <2>3
    <2>5. h \notin missing
      BY <2>2, <2>3, <2>4
    <2> QED
      BY <2>4, <2>5
  <1> QED
    BY <1>1, <1>2

\* Decoding keeps what is asked of a record that has data.
LEMMA DecodeFacts ==
  ASSUME DbKnown, NEW e \in db
  PROVE  /\ decode(e.value).hash = e.value.hash
         /\ decode(e.value).status = e.value.status
         /\ decode(e.value).n_tx = e.value.n_tx
         /\ decode(e.value).prev = e.value.prev
         /\ decode(e.value).height = e.value.height
         /\ HasData(e.value.status) =>
              /\ decode(e.value).n_file = e.value.n_file
              /\ decode(e.value).n_data_pos = e.value.n_data_pos
  <1>1. {"hash", "prev", "height", "status", "n_tx", "n_file", "n_data_pos", "n_undo_pos"}
          \subseteq DOMAIN e.value
    BY DiskAssumption DEF DbKnown
  <1>2. HasData(e.value.status) => HasFile(e.value.status)
    BY DEF HasFile, HasData
  <1> QED
    BY <1>1, <1>2 DEF decode

\* Every record with transactions leads to its block: were it pruned, the
\* chain to the highest block would not have been complete.
LEMMA AvailableFromInv == IInv => AvailableForQuery
  <1> SUFFICES ASSUME IInv, phase = "loaded", NEW h \in 0 .. get_block_count - 1
               PROVE  get_raw_block(h) = {get_hash_from_height(h)}
    BY DEF AvailableForQuery
  <1>1. DbKnown /\ db \in Databases
    BY DEF IInv, DbKnown
  <1>2. records \in Seq(Valid) /\ Len(records) \in Nat /\ DOMAIN records = 1 .. Len(records)
    BY DEF IInv, Mapped
  <1>3. h \in 0 .. Len(records) - 1 /\ get_header(h).n_tx # 0
    BY <1>2, CountedHaveTx
  <1> DEFINE r == records[h + 1]
  <1>4. h + 1 \in DOMAIN records /\ r \in Valid /\ r.height = h /\ r.n_tx # 0 /\ h \in Nat
    BY <1>2, <1>3 DEF IInv, IndexIsChain, get_header
  <1>5. PICK e \in db : e.key = "b" /\ r = decode(e.value)
    BY <1>4 DEF Valid, ValidRecords
  <1>6. HasData(r.status)
    <2> SUFFICES ASSUME ~HasData(r.status) PROVE FALSE
      OBVIOUS
    <2>1. h = 0
      BY <1>4 DEF Valid, ValidRecords, is_valid, HasData
    <2>2. /\ \E tip \in OnDisk(db) :
                tip.value.height > 0 /\ Validity(tip.value.status) >= BLOCK_VALID_SCRIPTS
          /\ \A x \in OnDisk(db) : x.value.prev # r.hash
      <3>1. e.value.height = 0 /\ e.value.n_tx # 0 /\ e.value.hash = r.hash /\ e \notin OnDisk(db)
        BY <1>1, <1>4, <1>5, <2>1, DecodeFacts DEF OnDisk
      <3> QED
        BY <1>1, <1>5, <3>1, DiskAssumption
    <2>3. PICK tip \in Valid : tip.height > 0
      <3>1. PICK x \in OnDisk(db) :
              x.value.height > 0 /\ Validity(x.value.status) >= BLOCK_VALID_SCRIPTS
        BY <2>2
      <3>2. x \in db /\ x.key = "b" /\ HasData(x.value.status)
        BY DEF OnDisk
      <3>3. /\ decode(x.value).height = x.value.height
            /\ decode(x.value).status = x.value.status
        BY <1>1, <3>2, DecodeFacts
      <3>4. is_valid(decode(x.value))
        BY <3>1, <3>2, <3>3 DEF is_valid, HasData
      <3>5. decode(x.value) \in Valid
        BY <3>2, <3>4 DEF Valid, ValidRecords
      <3> QED
        BY <3>1, <3>3, <3>5
    <2>4. Last(records) \in Highest /\ Last(records) = records[Len(records)]
      BY <1>2, <1>4 DEF IInv, IndexIsChain, Last
    <2>5. records[Len(records)].height = Len(records) - 1
      BY <1>2, <1>4 DEF IInv, IndexIsChain
    <2>6. tip.height <= Len(records) - 1 /\ tip.height \in Nat
      <3>1. tip.height <= Last(records).height
        BY <2>3, <2>4 DEF Highest
      <3> QED
        BY <1>1, <2>3, <2>4, <2>5, <3>1, ValidFacts
    <2>7. 2 \in DOMAIN records
      BY <1>2, <2>3, <2>6
    <2>8. records[2] \in Valid /\ records[2].height = 1 /\ records[2].prev = r.hash
      <3>1. records[2].height = 2 - 1 /\ records[2].prev = records[2 - 1].hash
        BY <2>7 DEF IInv, IndexIsChain
      <3>2. 2 - 1 = 1 /\ h + 1 = 1
        BY <2>1
      <3> QED
        BY <1>2, <2>7, <3>1, <3>2
    <2>9. PICK x \in db : x.key = "b" /\ records[2] = decode(x.value) /\ is_valid(records[2])
      BY <2>8 DEF Valid, ValidRecords
    <2>10. HasData(x.value.status) /\ x.value.prev = r.hash
      <3>1. x.value.status = records[2].status /\ x.value.prev = r.hash
        BY <1>1, <2>8, <2>9, DecodeFacts
      <3> QED
        BY <2>8, <2>9, <3>1 DEF is_valid, HasData
    <2> QED
      BY <2>2, <2>9, <2>10 DEF OnDisk
  <1> HIDE DEF r
  <1>7. /\ r.hash = e.value.hash /\ r.n_file = e.value.n_file /\ r.n_data_pos = e.value.n_data_pos
        /\ e \in OnDisk(db)
    BY <1>1, <1>5, <1>6, DecodeFacts DEF OnDisk
  <1>8. \A x \in OnDisk(db) :
          x.value.n_file = r.n_file /\ x.value.n_data_pos = r.n_data_pos =>
            x.value.hash = r.hash
    BY <1>1, <1>7, DiskAssumption
  <1>9. BlockAt(r.n_file, r.n_data_pos) = {r.hash}
    BY <1>7, <1>8 DEF BlockAt
  <1> QED
    BY <1>4, <1>9 DEF get_raw_block, get_hash_from_height, get_header, HasHeight, r

(***************************************************************************)
(* Every height below get_block_count leads to a block on disk, which is   *)
(* the block of its hash: also where Bitcoin Core prunes, since a chain    *)
(* that was pruned is not loaded.                                          *)
(***************************************************************************)
THEOREM CountedAreAvailable == Spec => []AvailableForQuery
  BY AvailableFromInv, InitInv, NextInv, PTL DEF Spec

-----------------------------------------------------------------------------
(* The values that the block index and the transaction index are read from *)
(* (RecordReader), byte by byte.                                           *)

LEMMA DivMod ==
  ASSUME NEW b \in Nat, b > 1, NEW k \in Nat
  PROVE  /\ k \div b \in Nat /\ k % b \in 0 .. b - 1
         /\ k = b * (k \div b) + (k % b)
         /\ k >= b => k \div b >= 1 /\ k \div b - 1 < k
         /\ k \div b <= k
  OBVIOUS

LEMMA DivModUnique ==
  ASSUME NEW b \in Nat, b > 1, NEW q \in Nat, NEW c \in 0 .. b - 1
  PROVE  /\ (q * b + c) \div b = q
         /\ (q * b + c) % b = c
  OBVIOUS

LEMMA StrongInduction ==
  ASSUME NEW S \in SUBSET Nat, \A k \in Nat : (\A m \in 0 .. k - 1 : m \in S) => k \in S
  PROVE  S = Nat
  <1> DEFINE Less == {ss \in Nat \X Nat : ss[1] < ss[2]}
  <1> SUFFICES ASSUME Nat \ S # {} PROVE FALSE
    OBVIOUS
  <1>1. IsWellFoundedOn(Less, Nat)
    BY NatLessThanWellFounded DEF OpToRel
  <1>2. PICK x \in Nat \ S : \A y \in Nat \ S : ~(<<y, x>> \in Less)
    BY <1>1, WFMin
  <1>3. \A m \in 0 .. x - 1 : m \in Nat /\ <<m, x>> \in Less
    OBVIOUS
  <1> QED
    BY <1>2, <1>3

\* What Leading writes, in terms of itself.
LeadingOf(f, k) ==
  IF k < Base THEN <<k + Base>> ELSE Append(f[k \div Base - 1], (k % Base) + Base)

\* The recursion of Leading ends: it goes on with a smaller number.
LEMMA LeadingUnfolds ==
  ASSUME Widths, NEW k \in 0 .. UsizeMax
  PROVE  Leading[k] = LeadingOf(Leading, k)
  <1>0. Base \in Nat /\ Base > 1 /\ UsizeMax \in Nat
    BY DEF Widths
  <1> DEFINE Good(f, m) == \A j \in 0 .. m - 1 : f[j] = LeadingOf(f, j)
             S == {m \in Nat : \E f : Good(f, m)}
  <1>1. ASSUME NEW f, NEW g, NEW j \in Nat,
               \A i \in 0 .. j - 1 : f[i] = g[i]
        PROVE  LeadingOf(f, j) = LeadingOf(g, j)
    <2>1. ~(j < Base) => j \div Base - 1 \in 0 .. j - 1
      <3>1. j \div Base \in Nat /\ (j >= Base => j \div Base >= 1 /\ j \div Base - 1 < j)
        BY <1>0, DivMod
      <3> QED
        BY <1>0, <3>1
    <2>2. CASE j < Base
      BY <2>2 DEF LeadingOf
    <2>3. CASE ~(j < Base)
      <3>1. f[j \div Base - 1] = g[j \div Base - 1]
        BY <1>1, <2>1, <2>3
      <3> QED
        BY <2>3, <3>1 DEF LeadingOf
    <2> QED
      BY <2>2, <2>3
  <1>2. ASSUME NEW m \in S
        PROVE  m + 1 \in S
    <2>1. PICK f : Good(f, m)
      OBVIOUS
    <2> DEFINE g == [j \in 0 .. m |-> IF j = m THEN LeadingOf(f, m) ELSE f[j]]
    <2>2. ASSUME NEW j \in 0 .. m
          PROVE  g[j] = LeadingOf(f, j)
      BY <2>1
    <2>3. \A i \in 0 .. m - 1 : g[i] = f[i]
      OBVIOUS
    <2> HIDE DEF g
    <2>4. ASSUME NEW j \in 0 .. m
          PROVE  g[j] = LeadingOf(g, j)
      <3>1. \A i \in 0 .. j - 1 : g[i] = f[i]
        BY <2>3
      <3>2. LeadingOf(g, j) = LeadingOf(f, j)
        BY <1>1, <3>1
      <3> QED
        BY <2>2, <3>2
    <2>5. Good(g, m + 1)
      BY <2>4
    <2>6. m + 1 \in Nat
      OBVIOUS
    <2> HIDE DEF Good
    <2> QED
      BY <2>5, <2>6
  <1>3. 0 \in S
    OBVIOUS
  <1>4. S = Nat
    <2> HIDE DEF S
    <2>1. S \in SUBSET Nat
      BY DEF S
    <2>2. ASSUME NEW m \in Nat, \A i \in 0 .. m - 1 : i \in S
          PROVE  m \in S
      <3>1. CASE m = 0
        BY <1>3, <3>1
      <3>2. CASE m # 0
        <4>1. m - 1 \in S /\ (m - 1) + 1 = m
          BY <2>2, <3>2
        <4> QED
          BY <1>2, <4>1
      <3> QED
        BY <3>1, <3>2
    <2> QED
      BY <2>1, <2>2, StrongInduction
  <1>5. UsizeMax + 1 \in Nat
    BY <1>0
  <1>6. PICK f : Good(f, UsizeMax + 1)
    BY <1>4, <1>5
  <1> DEFINE e == [j \in 0 .. UsizeMax |-> f[j]]
             Body(x) == [j \in 0 .. UsizeMax |->
                           IF j < Base THEN <<j + Base>>
                           ELSE Append(x[j \div Base - 1], (j % Base) + Base)]
  <1>7. e = Body(e)
    <2>1. ASSUME NEW j \in 0 .. UsizeMax
          PROVE  e[j] = LeadingOf(e, j)
      <3>1. e[j] = f[j] /\ f[j] = LeadingOf(f, j)
        BY <1>0, <1>6
      <3>2. \A i \in 0 .. j - 1 : f[i] = e[i]
        BY <1>0
      <3> HIDE DEF e
      <3>3. LeadingOf(f, j) = LeadingOf(e, j)
        BY <1>1, <3>2
      <3> QED
        BY <3>1, <3>3
    <2>2. e = [j \in 0 .. UsizeMax |-> e[j]]
      OBVIOUS
    <2> HIDE DEF e
    <2> QED
      BY <2>1, <2>2 DEF LeadingOf
  <1>8. Leading = Body(Leading)
    <2>1. Leading = CHOOSE x : x = Body(x)
      BY DEF Leading
    <2> HIDE DEF Body, e
    <2> QED
      BY <1>7, <2>1
  <1> QED
    BY <1>8 DEF LeadingOf

\* One number is written from a smaller one.
LEMMA LeadingStep ==
  ASSUME Widths, NEW k \in 0 .. UsizeMax, ~(k < Base)
  PROVE  /\ k \div Base - 1 \in 0 .. k - 1
         /\ k \div Base - 1 \in 0 .. UsizeMax
         /\ Leading[k] = Append(Leading[k \div Base - 1], (k % Base) + Base)
         /\ (k % Base) + Base \in Base .. 2 * Base - 1
  <1>1. Base \in Nat /\ Base > 1 /\ UsizeMax \in Nat /\ k \in Nat
    BY DEF Widths
  <1>2. /\ k \div Base \in Nat /\ k \div Base >= 1 /\ k \div Base - 1 < k
        /\ k % Base \in 0 .. Base - 1
    <2>1. /\ k \div Base \in Nat /\ k % Base \in 0 .. Base - 1
          /\ k >= Base => k \div Base >= 1 /\ k \div Base - 1 < k
      BY <1>1, DivMod
    <2> QED
      BY <1>1, <2>1
  <1>3. Leading[k] = Append(Leading[k \div Base - 1], (k % Base) + Base)
    BY LeadingUnfolds DEF LeadingOf
  <1>4. k \div Base - 1 \in 0 .. k - 1 /\ k \div Base - 1 \in 0 .. UsizeMax
    BY <1>1, <1>2
  <1>5. (k % Base) + Base \in Base .. 2 * Base - 1
    BY <1>1, <1>2
  <1> QED
    BY <1>3, <1>4, <1>5

LEMMA LeadingFirst ==
  ASSUME Widths, NEW k \in 0 .. UsizeMax, k < Base
  PROVE  Leading[k] = <<k + Base>> /\ k + Base \in Base .. 2 * Base - 1
  <1>1. Leading[k] = <<k + Base>>
    BY LeadingUnfolds DEF LeadingOf
  <1> QED
    BY <1>1 DEF Widths

\* All these bytes say that more follow.
LEMMA LeadingBytes ==
  ASSUME Widths, NEW k \in 0 .. UsizeMax
  PROVE  Leading[k] \in Seq(Base .. 2 * Base - 1) /\ Leading[k] # <<>>
  <1> DEFINE More == Base .. 2 * Base - 1
             P(j) == Leading[j] \in Seq(More) /\ Leading[j] # <<>>
             S == {j \in Nat : j \in 0 .. UsizeMax => P(j)}
  <1>1. ASSUME NEW j \in Nat, \A m \in 0 .. j - 1 : m \in S
        PROVE  j \in S
    <2> SUFFICES ASSUME j \in 0 .. UsizeMax PROVE P(j)
      OBVIOUS
    <2> HIDE DEF More
    <2>1. CASE j < Base
      <3>1. Leading[j] = <<j + Base>> /\ j + Base \in More
        BY <2>1, LeadingFirst DEF More
      <3> QED
        BY <3>1
    <2>2. CASE ~(j < Base)
      <3>1. /\ Leading[j] = Append(Leading[j \div Base - 1], (j % Base) + Base)
            /\ (j % Base) + Base \in More
            /\ j \div Base - 1 \in 0 .. j - 1 /\ j \div Base - 1 \in 0 .. UsizeMax
        BY <2>2, LeadingStep DEF More
      <3>2. Leading[j \div Base - 1] \in Seq(More)
        BY <1>1, <3>1
      <3> QED
        BY <3>1, <3>2
    <2> QED
      BY <2>1, <2>2
  <1>2. S = Nat
    <2> HIDE DEF S
    <2>1. S \in SUBSET Nat
      BY DEF S
    <2> QED
      BY <1>1, <2>1, StrongInduction
  <1>3. k \in Nat
    BY DEF Widths
  <1> QED
    BY <1>2, <1>3

\* No two numbers have the same bytes.
LEMMA LeadingInjective ==
  ASSUME Widths, NEW k \in 0 .. UsizeMax, NEW l \in 0 .. UsizeMax,
         Leading[k] = Leading[l]
  PROVE  k = l
  <1> DEFINE P(j) == \A i \in 0 .. UsizeMax : Leading[j] = Leading[i] => j = i
             S == {j \in Nat : j \in 0 .. UsizeMax => P(j)}
  <1>0. Base \in Nat /\ Base > 1 /\ UsizeMax \in Nat
    BY DEF Widths
  <1>1. ASSUME NEW j \in Nat, \A m \in 0 .. j - 1 : m \in S
        PROVE  j \in S
    <2> SUFFICES ASSUME j \in 0 .. UsizeMax,
                        NEW i \in 0 .. UsizeMax, Leading[j] = Leading[i]
                 PROVE  j = i
      OBVIOUS
    <2>1. ASSUME NEW a \in 0 .. UsizeMax, NEW c \in 0 .. UsizeMax, a < Base, ~(c < Base),
                 Leading[a] = Leading[c]
          PROVE  FALSE
      <3>1. Leading[a] = <<a + Base>>
        BY <2>1, LeadingFirst
      <3>2. /\ Leading[c] = Append(Leading[c \div Base - 1], (c % Base) + Base)
            /\ c \div Base - 1 \in 0 .. UsizeMax
        BY <2>1, LeadingStep
      <3>3. /\ Leading[c \div Base - 1] \in Seq(Base .. 2 * Base - 1)
            /\ Leading[c \div Base - 1] # <<>>
        BY <3>2, LeadingBytes
      <3>4. Len(Leading[c \div Base - 1]) >= 1
        BY <3>3
      <3>5. Len(Leading[c]) >= 2
        BY <3>2, <3>3, <3>4
      <3>6. Len(Leading[c]) = 1
        BY <2>1, <3>1
      <3> QED
        BY <3>5, <3>6
    <2>2. CASE j < Base /\ i < Base
      <3>1. <<j + Base>> = <<i + Base>>
        BY <2>2, LeadingFirst
      <3> QED
        BY <1>0, <3>1
    <2>3. CASE ~(j < Base) /\ ~(i < Base)
      <3> DEFINE p == j \div Base - 1
                 q == i \div Base - 1
      <3>1. /\ p \in 0 .. j - 1 /\ p \in 0 .. UsizeMax /\ q \in 0 .. UsizeMax
            /\ Leading[j] = Append(Leading[p], (j % Base) + Base)
            /\ Leading[i] = Append(Leading[q], (i % Base) + Base)
        BY <2>3, LeadingStep
      <3> HIDE DEF p, q
      <3>2. Leading[p] \in Seq(Base .. 2 * Base - 1) /\ Leading[q] \in Seq(Base .. 2 * Base - 1)
        BY <3>1, LeadingBytes
      <3>3. Leading[p] = Leading[q] /\ (j % Base) + Base = (i % Base) + Base
        <4> DEFINE s == Leading[p]
                   t == Leading[q]
                   x == (j % Base) + Base
                   y == (i % Base) + Base
                   More == Base .. 2 * Base - 1
        <4>1. Append(s, x) = Append(t, y) /\ s \in Seq(More) /\ t \in Seq(More)
          BY <3>1, <3>2
        <4> HIDE DEF s, t, x, y, More
        <4>2. s = t /\ x = y
          BY <4>1, AppendInjective
        <4> QED
          BY <4>2 DEF s, t, x, y
      <3>4. p = q
        BY <1>1, <3>1, <3>3
      <3>5. /\ j % Base \in 0 .. Base - 1 /\ i % Base \in 0 .. Base - 1
            /\ j \div Base \in Nat /\ i \div Base \in Nat
            /\ j = Base * (j \div Base) + (j % Base)
            /\ i = Base * (i \div Base) + (i % Base)
        <4>1. j \in Nat /\ i \in Nat
          BY <1>0
        <4>2. /\ j % Base \in 0 .. Base - 1 /\ j \div Base \in Nat
              /\ j = Base * (j \div Base) + (j % Base)
          BY <1>0, <4>1, DivMod
        <4>3. /\ i % Base \in 0 .. Base - 1 /\ i \div Base \in Nat
              /\ i = Base * (i \div Base) + (i % Base)
          BY <1>0, <4>1, DivMod
        <4> QED
          BY <4>2, <4>3
      <3>6. j % Base = i % Base /\ j \div Base = i \div Base
        BY <1>0, <3>3, <3>4, <3>5 DEF p, q
      <3> QED
        BY <3>5, <3>6
    <2> QED
      BY <2>1, <2>2, <2>3
  <1>2. S = Nat
    <2> HIDE DEF S
    <2>1. S \in SUBSET Nat
      BY DEF S
    <2> QED
      BY <1>1, <2>1, StrongInduction
  <1>3. k \in Nat
    BY <1>0
  <1> QED
    BY <1>2, <1>3

\* What comes first of them is what is written of a smaller number.
LEMMA LeadingPrefix ==
  ASSUME Widths, NEW k \in 0 .. UsizeMax, NEW j \in 1 .. Len(Leading[k])
  PROVE  \E p \in 0 .. k : SubSeq(Leading[k], 1, j) = Leading[p]
  <1> DEFINE P(i) == \A h \in 1 .. Len(Leading[i]) :
                       \E p \in 0 .. i : SubSeq(Leading[i], 1, h) = Leading[p]
             S == {i \in Nat : i \in 0 .. UsizeMax => P(i)}
  <1>0. Base \in Nat /\ Base > 1 /\ UsizeMax \in Nat
    BY DEF Widths
  <1>1. ASSUME NEW i \in Nat, \A m \in 0 .. i - 1 : m \in S
        PROVE  i \in S
    <2> SUFFICES ASSUME i \in 0 .. UsizeMax, NEW h \in 1 .. Len(Leading[i])
                 PROVE  \E p \in 0 .. i : SubSeq(Leading[i], 1, h) = Leading[p]
      OBVIOUS
    <2> DEFINE L == Leading[i]
    <2>1. L \in Seq(Base .. 2 * Base - 1) /\ Len(L) \in Nat
      BY LeadingBytes
    <2>2. CASE h = Len(L)
      <3>1. SubSeq(L, 1, h) = L
        BY <2>1, <2>2
      <3>2. i \in 0 .. i
        OBVIOUS
      <3> QED
        BY <3>1, <3>2
    <2>3. CASE h # Len(L)
      <3>1. h < Len(L) /\ Len(L) >= 2
        BY <2>1, <2>3
      <3>2. ~(i < Base)
        <4> SUFFICES ASSUME i < Base PROVE FALSE
          OBVIOUS
        <4>1. L = <<i + Base>>
          BY LeadingFirst
        <4>2. Len(L) = 1
          BY <4>1
        <4> QED
          BY <3>1, <4>2
      <3> DEFINE q == i \div Base - 1
                 M == Leading[q]
      <3>3. q \in 0 .. i - 1 /\ q \in 0 .. UsizeMax /\ L = Append(M, (i % Base) + Base)
        BY <3>2, LeadingStep
      <3> HIDE DEF q
      <3>4. M \in Seq(Base .. 2 * Base - 1) /\ Len(M) \in Nat
        BY <3>3, LeadingBytes
      <3>5. Len(L) = Len(M) + 1
        BY <3>3, <3>4
      <3>6. h \in 1 .. Len(M)
        BY <3>1, <3>4, <3>5
      <3>7. SubSeq(L, 1, h) = SubSeq(M, 1, h)
        <4>1. \A x \in 1 .. h : L[x] = M[x]
          BY <3>3, <3>4, <3>6
        <4> HIDE DEF L, M
        <4>2. /\ SubSeq(L, 1, h) = [x \in 1 .. h |-> L[x]]
              /\ SubSeq(M, 1, h) = [x \in 1 .. h |-> M[x]]
          BY <2>1, <3>1, <3>4, <3>6
        <4> QED
          BY <4>1, <4>2
      <3>8. PICK p \in 0 .. q : SubSeq(M, 1, h) = Leading[p]
        BY <1>1, <3>3, <3>6
      <3>9. p \in 0 .. i
        BY <3>3
      <3> QED
        BY <3>7, <3>8, <3>9
    <2> QED
      BY <2>2, <2>3
  <1>2. S = Nat
    <2> HIDE DEF S
    <2>1. S \in SUBSET Nat
      BY DEF S
    <2> QED
      BY <1>1, <2>1, StrongInduction
  <1>3. k \in Nat
    BY <1>0
  <1> QED
    BY <1>2, <1>3

\* The bytes taken of a number are those that Bitcoin Core writes before its
\* last one, for the number that they make.
Taken(k, s) == IF s = <<>> THEN k = 0 ELSE k \in 1 .. UsizeMax /\ s = Leading[k - 1]

\* The position, the number so far, and the bytes read of it.
Reading ==
  /\ Widths /\ AllInputs
  /\ input \in Inputs
  /\ at \in Nat /\ start \in Nat
  /\ start <= at /\ at <= Len(input.bytes)
  /\ n \in 0 .. UsizeMax
  /\ pc = "varint" /\ exact => Taken(n, SubSeq(input.bytes, start + 1, at))

ReadInv == Reading /\ Canonical

LEMMA ByteParts ==
  ASSUME Widths, NEW b \in Bytes
  PROVE  /\ b >= Base => b % Base = b - Base /\ b - Base \in 0 .. Base - 1
         /\ b < Base => b % Base = b
         /\ b % Base \in 0 .. Base - 1
  <1>1. Base \in Nat /\ Base > 1 /\ b \in Nat /\ b < 2 * Base
    BY DEF Widths, Bytes
  <1>2. b >= Base => b % Base = b - Base
    <2> SUFFICES ASSUME b >= Base PROVE b % Base = b - Base
      OBVIOUS
    <2>1. b - Base \in 0 .. Base - 1 /\ 1 * Base + (b - Base) = b
      BY <1>1
    <2>2. (1 * Base + (b - Base)) % Base = b - Base
      BY <1>1, <2>1, DivModUnique
    <2> QED
      BY <2>1, <2>2
  <1>3. b < Base => b % Base = b
    BY <1>1
  <1>4. b % Base \in 0 .. Base - 1
    BY <1>1, DivMod
  <1> QED
    BY <1>1, <1>2, <1>3, <1>4

\* A usize is a whole number of shifts wide, so | loses nothing.
LEMMA ShiftedFacts ==
  ASSUME Widths, NEW k \in 0 .. UsizeMax, NEW c \in 0 .. Base - 1
  PROVE  /\ ((k * Base) % (UsizeMax + 1)) + c \in 0 .. UsizeMax
         /\ k * Base <= UsizeMax =>
              ((k * Base) % (UsizeMax + 1)) + c = k * Base + c
  <1> DEFINE U == UsizeMax + 1
             w == U \div Base
             q == (k * Base) \div U
             x == (k * Base) % U
  <1>1. Base \in Nat /\ Base > 1 /\ UsizeMax \in Nat /\ k \in Nat /\ U \in Nat /\ U > 0
    BY DEF Widths
  <1>2. w \in Nat /\ U = Base * w
    <2>1. U % Base = 0
      BY DEF Widths
    <2>2. w \in Nat /\ U = Base * w + (U % Base)
      BY <1>1, DivMod
    <2> QED
      BY <1>1, <2>1, <2>2
  <1>3. k * Base \in Nat
    BY <1>1
  <1>4. q \in Nat /\ x \in 0 .. U - 1 /\ k * Base = U * q + x
    <2>1. ASSUME NEW y \in Nat
          PROVE  y \div U \in Nat /\ y % U \in 0 .. U - 1 /\ y = U * (y \div U) + (y % U)
      BY <1>1
    <2> QED
      BY <1>3, <2>1
  <1>5. k * Base <= UsizeMax => x = k * Base
    BY <1>1, <1>3
  <1> HIDE DEF w, q, x
  <1>6. x + c <= UsizeMax
    <2> DEFINE t == k - w * q
    <2>1. t \in Int /\ x = Base * t
      <3>1. Base * (w * q) = U * q
        BY <1>1, <1>2, <1>4
      <3>2. Base * t = Base * k - Base * (w * q)
        BY <1>1, <1>2, <1>4
      <3> QED
        BY <1>1, <1>2, <1>4, <3>1, <3>2
    <2> HIDE DEF t
    <2>2. t < w
      <3>1. t >= w => Base * t >= Base * w
        BY <1>1, <1>2, <2>1
      <3> QED
        BY <1>1, <1>2, <1>4, <2>1, <3>1
    <2>3. Base * t <= Base * w - Base
      <3>1. t <= w - 1 /\ Base * (w - 1) = Base * w - Base
        BY <1>1, <1>2, <2>1, <2>2
      <3>2. Base * t <= Base * (w - 1)
        BY <1>1, <1>2, <2>1, <3>1
      <3> QED
        BY <3>1, <3>2
    <2> QED
      BY <1>1, <1>2, <1>4, <2>1, <2>3
  <1>7. x + c \in 0 .. UsizeMax /\ (k * Base <= UsizeMax => x + c = k * Base + c)
    BY <1>1, <1>4, <1>5, <1>6
  <1> QED
    BY <1>7 DEF x

\* One more byte, of those that say that more follow.
LEMMA TakenMore ==
  ASSUME Widths, NEW s \in Seq(Bytes), NEW k \in 0 .. UsizeMax, Taken(k, s),
         NEW c \in 0 .. Base - 1, k * Base + c \in 0 .. UsizeMax
  PROVE  Append(s, c + Base) = Leading[k * Base + c]
  <1>1. Base \in Nat /\ Base > 1 /\ UsizeMax \in Nat
    BY DEF Widths
  <1>2. CASE s = <<>>
    <2>1. k = 0 /\ k * Base + c = c
      BY <1>1, <1>2 DEF Taken
    <2>2. Leading[c] = <<c + Base>>
      BY <1>1, <2>1, LeadingFirst
    <2> QED
      BY <1>2, <2>1, <2>2
  <1>3. CASE s # <<>>
    <2>1. k \in 1 .. UsizeMax /\ s = Leading[k - 1]
      BY <1>3 DEF Taken
    <2> DEFINE m == k * Base + c
    <2>2. ~(m < Base)
      <3>1. k * Base >= Base
        BY <1>1, <2>1
      <3> QED
        BY <1>1, <2>1, <3>1
    <2>3. m \div Base = k /\ m % Base = c
      BY <1>1, DivModUnique
    <2> HIDE DEF m
    <2>4. Leading[m] = Append(Leading[m \div Base - 1], (m % Base) + Base)
      BY <2>2, LeadingStep DEF m
    <2> QED
      BY <2>1, <2>3, <2>4 DEF m
  <1> QED
    BY <1>2, <1>3

\* The last byte.
LEMMA TakenLast ==
  ASSUME Widths, NEW s \in Seq(Bytes), NEW k \in 0 .. UsizeMax, Taken(k, s),
         NEW c \in 0 .. Base - 1
  PROVE  Append(s, c) = WriteVarInt(k * Base + c)
  <1>1. Base \in Nat /\ Base > 1 /\ UsizeMax \in Nat
    BY DEF Widths
  <1>2. CASE s = <<>>
    <2>1. k = 0 /\ k * Base + c = c
      BY <1>1, <1>2 DEF Taken
    <2>2. c < Base
      BY <1>1
    <2>3. WriteVarInt(c) = <<c>>
      BY <2>2 DEF WriteVarInt
    <2> QED
      BY <1>2, <2>1, <2>3
  <1>3. CASE s # <<>>
    <2>1. k \in 1 .. UsizeMax /\ s = Leading[k - 1]
      BY <1>3 DEF Taken
    <2> DEFINE m == k * Base + c
    <2>2. ~(m < Base)
      <3>1. k * Base >= Base
        BY <1>1, <2>1
      <3> QED
        BY <1>1, <2>1, <3>1
    <2>3. m \div Base = k /\ m % Base = c
      BY <1>1, DivModUnique
    <2> HIDE DEF m
    <2>4. WriteVarInt(m) = Append(Leading[m \div Base - 1], m % Base)
      BY <2>2 DEF WriteVarInt
    <2> QED
      BY <2>1, <2>3, <2>4 DEF m
  <1> QED
    BY <1>2, <1>3

LEMMA SubSeqGrows ==
  ASSUME NEW S, NEW s \in Seq(S), NEW i \in 1 .. Len(s), NEW j \in 0 .. Len(s) - 1, i <= j + 1
  PROVE  /\ SubSeq(s, i, j) \in Seq(S)
         /\ Len(SubSeq(s, i, j)) = j - i + 1
         /\ SubSeq(s, i, j + 1) = Append(SubSeq(s, i, j), s[j + 1])
  OBVIOUS

LEMMA ReadingFacts ==
  ASSUME Reading
  PROVE  /\ Base \in Nat /\ Base > 1 /\ UsizeMax \in Nat /\ HeaderSize \in Nat
         /\ IsInput(input) /\ input.bytes \in Seq(Bytes) /\ Len(input.bytes) \in Nat
         /\ HasByte => /\ Byte \in Bytes /\ at + 1 <= Len(input.bytes)
                       /\ Byte = input.bytes[at + 1]
                       /\ Shifted \in 0 .. UsizeMax
                       /\ n * Base <= UsizeMax => Shifted = n * Base + (Byte % Base)
  <1>1. Base \in Nat /\ Base > 1 /\ UsizeMax \in Nat /\ HeaderSize \in Nat
    BY DEF Reading, Widths
  <1>2. IsInput(input) /\ input.bytes \in Seq(Bytes) /\ Len(input.bytes) \in Nat
    BY DEF Reading, AllInputs, IsInput
  <1>3. ASSUME HasByte
        PROVE  Byte \in Bytes /\ at + 1 <= Len(input.bytes) /\ Byte = input.bytes[at + 1]
    <2>1. at \in Nat /\ at < Len(input.bytes)
      BY <1>3 DEF Reading, HasByte
    <2>2. at + 1 \in 1 .. Len(input.bytes)
      BY <1>2, <2>1
    <2> QED
      BY <1>2, <2>2 DEF Byte
  <1>4. ASSUME HasByte
        PROVE  /\ Shifted \in 0 .. UsizeMax
               /\ n * Base <= UsizeMax => Shifted = n * Base + (Byte % Base)
    <2>1. Widths /\ n \in 0 .. UsizeMax /\ Byte % Base \in 0 .. Base - 1
      BY <1>3, <1>4, ByteParts DEF Reading
    <2> QED
      BY <2>1, ShiftedFacts DEF Shifted
  <1> QED
    BY <1>1, <1>2, <1>3, <1>4

\* The bytes of the number before and after one more.
LEMMA ReadingGrows ==
  ASSUME Reading, HasByte
  PROVE  /\ SubSeq(input.bytes, start + 1, at) \in Seq(Bytes)
         /\ SubSeq(input.bytes, start + 1, at + 1) =
              Append(SubSeq(input.bytes, start + 1, at), Byte)
  <1>1. /\ input.bytes \in Seq(Bytes) /\ Len(input.bytes) \in Nat
        /\ at + 1 <= Len(input.bytes) /\ Byte = input.bytes[at + 1]
    BY ReadingFacts
  <1>2. at \in 0 .. Len(input.bytes) - 1 /\ start + 1 \in 1 .. Len(input.bytes)
        /\ start + 1 <= at + 1
    BY <1>1 DEF Reading
  <1> QED
    BY <1>1, <1>2, SubSeqGrows

LEMMA ReadInit ==
  ASSUME Widths, AllInputs, ValueInit
  PROVE  ReadInv
  <1>1. Base \in Nat /\ Base > 1 /\ UsizeMax \in Nat
    BY DEF Widths
  <1>2. input.bytes \in Seq(Bytes)
    BY DEF ValueInit, AllInputs, IsInput
  <1>3. SubSeq(input.bytes, 0 + 1, 0) = <<>>
    BY <1>2
  <1>4. Taken(0, <<>>)
    BY DEF Taken
  <1>5. WriteVarInt(0) = <<0>>
    BY <1>1 DEF WriteVarInt
  <1>6. /\ input \in Inputs /\ at = 0 /\ start = 0 /\ n = 0
        /\ last = [number |-> 0, bytes |-> <<0>>, exact |-> TRUE]
    BY DEF ValueInit
  <1>7. Canonical
    BY <1>5, <1>6 DEF Canonical
  <1>8. Taken(n, SubSeq(input.bytes, start + 1, at))
    BY <1>3, <1>4, <1>6
  <1>9. 0 <= Len(input.bytes) /\ 0 \in 0 .. UsizeMax
    BY <1>1, <1>2
  <1> QED
    BY <1>6, <1>7, <1>8, <1>9 DEF ReadInv, Reading

\* What read_more makes of the number, as long as no bit is lost.
LEMMA MoreTaken ==
  ASSUME Reading, read_more, exact'
  PROVE  /\ n' = Shifted + 1 /\ n' \in 1 .. UsizeMax
         /\ exact
         /\ Shifted = n * Base + (Byte - Base)
         /\ Taken(n', SubSeq(input.bytes, start + 1, at + 1))
  <1>1. HasByte /\ Byte >= Base /\ pc = "varint"
    BY DEF read_more
  <1>2. exact /\ n * Base <= UsizeMax /\ Shifted < UsizeMax
    BY DEF read_more, Keeps
  <1>3. /\ Base \in Nat /\ Base > 1 /\ UsizeMax \in Nat
        /\ Shifted \in 0 .. UsizeMax
        /\ Byte \in Bytes
        /\ Shifted = n * Base + (Byte % Base)
    BY <1>1, <1>2, ReadingFacts
  <1>4. n' = Shifted + 1
    <2>1. n' = (Shifted + 1) % (UsizeMax + 1)
      BY DEF read_more
    <2> QED
      BY <1>2, <1>3, <2>1
  <1> DEFINE c == Byte - Base
             s == SubSeq(input.bytes, start + 1, at)
  <1>5. Byte % Base = c /\ c \in 0 .. Base - 1 /\ c + Base = Byte
    <2>1. Widths
      BY DEF Reading
    <2>2. Byte % Base = c /\ c \in 0 .. Base - 1
      BY <1>1, <1>3, <2>1, ByteParts
    <2>3. Byte \in Nat
      BY <1>3 DEF Bytes
    <2> QED
      BY <1>3, <2>2, <2>3
  <1>6. Taken(n, s) /\ s \in Seq(Bytes)
    BY <1>1, <1>2, ReadingGrows DEF Reading
  <1>7. n * Base + c = Shifted /\ Widths /\ n \in 0 .. UsizeMax
    BY <1>3, <1>5 DEF Reading
  <1> HIDE DEF c, s
  <1>8. Append(s, c + Base) = Leading[n * Base + c]
    BY <1>3, <1>5, <1>6, <1>7, TakenMore
  <1>9. SubSeq(input.bytes, start + 1, at + 1) = Leading[Shifted]
    BY <1>1, <1>5, <1>7, <1>8, ReadingGrows DEF s
  <1>10. SubSeq(input.bytes, start + 1, at + 1) # <<>>
    BY <1>3, <1>9, LeadingBytes DEF Reading
  <1>11. n' \in 1 .. UsizeMax /\ n' - 1 = Shifted
    BY <1>2, <1>3, <1>4
  <1>12. Taken(n', SubSeq(input.bytes, start + 1, at + 1))
    BY <1>9, <1>10, <1>11 DEF Taken
  <1> QED
    BY <1>2, <1>4, <1>7, <1>11, <1>12 DEF c

LEMMA ReadStep ==
  ASSUME ReadInv, [ValueNext]_value_vars
  PROVE  ReadInv'
  <1> USE DEF ReadInv
  <1>1. (Widths /\ AllInputs)' /\ input' = input
    <2>1. Widths' /\ AllInputs'
      BY DEF Reading, Widths, AllInputs, IsInput
    <2>2. input' = input
      BY DEF ValueNext, value_vars, read_more, read_more_panic, read_last, read_eof,
             read_block_header, stay_read
    <2> QED
      BY <2>1, <2>2
  <1>2. /\ Base \in Nat /\ Base > 1 /\ UsizeMax \in Nat /\ HeaderSize \in Nat
        /\ input.bytes \in Seq(Bytes) /\ Len(input.bytes) \in Nat
    BY ReadingFacts
  <1>3. /\ input \in Inputs /\ at \in Nat /\ start \in Nat /\ start <= at
        /\ at <= Len(input.bytes) /\ n \in 0 .. UsizeMax
    BY DEF Reading
  <1>4. CASE read_more
    <2>1. at' = at + 1 /\ start' = start /\ pc' = "varint" /\ last' = last
      BY <1>4 DEF read_more
    <2>2. HasByte
      BY <1>4 DEF read_more
    <2>3. at + 1 <= Len(input.bytes) /\ Shifted \in 0 .. UsizeMax
      BY <2>2, ReadingFacts
    <2>4. n' \in 0 .. UsizeMax
      <3>1. n' = (Shifted + 1) % (UsizeMax + 1)
        BY <1>4 DEF read_more
      <3> QED
        BY <1>2, <2>3, <3>1
    <2>5. exact' => Taken(n', SubSeq(input.bytes, start + 1, at + 1))
      BY <1>4, MoreTaken
    <2>6. Reading'
      BY <1>1, <1>2, <1>3, <2>1, <2>3, <2>4, <2>5 DEF Reading
    <2>7. Canonical'
      BY <2>1 DEF Canonical
    <2> QED
      BY <2>6, <2>7
  <1>5. CASE read_last
    <2>1. /\ at' = at + 1 /\ start' = at + 1 /\ n' = 0
          /\ last' = [number |-> Shifted, exact |-> Keeps,
                      bytes |-> SubSeq(input.bytes, start + 1, at + 1)]
          /\ HasByte /\ Byte < Base /\ pc = "varint"
      BY <1>5 DEF read_last
    <2>2. at + 1 <= Len(input.bytes) /\ Byte \in Bytes
      BY <2>1, ReadingFacts
    <2>3. SubSeq(input.bytes, (at + 1) + 1, at + 1) = <<>>
      BY <1>2, <1>3
    <2>4. Taken(0, <<>>)
      BY DEF Taken
    <2>5. Reading'
      <3>1. Taken(n', SubSeq(input.bytes, start' + 1, at'))
        BY <2>1, <2>3, <2>4
      <3>2. n' \in 0 .. UsizeMax /\ at' \in Nat /\ start' \in Nat /\ start' <= at'
        BY <1>2, <1>3, <2>1
      <3> QED
        BY <1>1, <1>3, <2>1, <2>2, <3>1, <3>2 DEF Reading
    <2>6. ASSUME Keeps
          PROVE  SubSeq(input.bytes, start + 1, at + 1) = WriteVarInt(Shifted)
      <3>1. exact /\ n * Base <= UsizeMax
        BY <2>6 DEF Keeps
      <3>2. Byte % Base = Byte /\ Byte \in 0 .. Base - 1 /\ Widths
        BY <2>1, <2>2, ByteParts DEF Reading
      <3>3. Shifted = n * Base + Byte
        BY <2>1, <3>1, <3>2, ReadingFacts
      <3> DEFINE s == SubSeq(input.bytes, start + 1, at)
      <3>4. /\ Taken(n, s) /\ s \in Seq(Bytes)
            /\ SubSeq(input.bytes, start + 1, at + 1) = Append(s, Byte)
        BY <2>1, <3>1, ReadingGrows DEF Reading
      <3> HIDE DEF s
      <3>5. Append(s, Byte) = WriteVarInt(n * Base + Byte)
        BY <1>3, <3>2, <3>4, TakenLast
      <3> QED
        BY <3>3, <3>4, <3>5
    <2>7. Canonical'
      BY <2>1, <2>6 DEF Canonical
    <2> QED
      BY <2>5, <2>7
  <1>6. CASE read_block_header
    <2>1. pc' = "done" /\ start' = start /\ n' = n /\ last' = last
      BY <1>6 DEF read_block_header
    <2>2. at' \in Nat /\ at' <= Len(input.bytes) /\ start <= at'
      BY <1>2, <1>3, <1>6 DEF read_block_header
    <2>3. Reading'
      BY <1>1, <1>3, <2>1, <2>2 DEF Reading
    <2>4. Canonical'
      BY <2>1 DEF Canonical
    <2> QED
      BY <2>3, <2>4
  <1>7. CASE read_more_panic \/ read_eof \/ stay_read \/ UNCHANGED value_vars
    <2>1. /\ UNCHANGED <<at, start, n, exact, last>>
          /\ pc' = "varint" => pc = "varint"
      BY <1>7 DEF read_more_panic, read_eof, stay_read, value_vars
    <2>2. Reading'
      BY <1>1, <2>1 DEF Reading
    <2>3. Canonical'
      BY <2>1 DEF Canonical
    <2> QED
      BY <2>2, <2>3
  <1> QED
    BY <1>4, <1>5, <1>6, <1>7 DEF ValueNext

(***************************************************************************)
(* For every width and every byte string, as long as read_varint           *)
(* (src/src/parser/reader.rs:29) loses no bit the bytes it took are the    *)
(* one encoding of the number it returned.                                 *)
(***************************************************************************)
THEOREM VarIntCanonical == ValueSpec => []Canonical
  <1>1. ValueInit => ReadInv
    BY WidthAssumption, InputAssumption, ReadInit
  <1>2. ReadInv /\ [ValueNext]_value_vars => ReadInv'
    BY ReadStep
  <1>3. ReadInv => Canonical
    BY DEF ReadInv
  <1> QED
    BY <1>1, <1>2, <1>3, PTL DEF ValueSpec

-----------------------------------------------------------------------------
\* What is written of r behind a field.
TxBehind(r, f) ==
  CASE f = 1 -> WriteVarInt(r.n_data_pos) \o WriteVarInt(r.n_tx_offset)
    [] f = 2 -> WriteVarInt(r.n_tx_offset)
    [] OTHER -> <<>>

Behind6(r) == If(HasUndo(r.status), WriteVarInt(r.n_undo_pos)) \o r.header
Behind5(r) == If(HasData(r.status), WriteVarInt(r.n_data_pos)) \o Behind6(r)
Behind4(r) == If(HasFile(r.status), WriteVarInt(r.n_file)) \o Behind5(r)
Behind3(r) == WriteVarInt(r.n_tx) \o Behind4(r)
Behind2(r) == WriteVarInt(r.status) \o Behind3(r)
Behind1(r) == WriteVarInt(r.height) \o Behind2(r)

BlockBehind(r, f) ==
  CASE f = 1 -> Behind1(r)
    [] f = 2 -> Behind2(r)
    [] f = 3 -> Behind3(r)
    [] f = 4 -> Behind4(r)
    [] f = 5 -> Behind5(r)
    [] f = 6 -> Behind6(r)
    [] OTHER -> r.header

Behind(r, f) == IF input.kind = "block" THEN BlockBehind(r, f) ELSE TxBehind(r, f)

\* What is known of a record when field f is read.
TxKnown(r, f) ==
  [n_file |-> IF f > 1 THEN r.n_file ELSE 0,
   n_data_pos |-> IF f > 2 THEN r.n_data_pos ELSE 0,
   n_tx_offset |-> IF f > 3 THEN r.n_tx_offset ELSE 0]

BlockKnown(r, f) ==
  [version |-> IF f > 1 THEN r.version ELSE 0,
   height |-> IF f > 2 THEN r.height ELSE 0,
   status |-> IF f > 3 THEN r.status ELSE 0,
   n_tx |-> IF f > 4 THEN r.n_tx ELSE 0,
   n_file |-> IF f > 5 /\ HasFile(r.status) THEN r.n_file ELSE -1,
   n_data_pos |-> IF f > 6 /\ HasData(r.status) THEN r.n_data_pos ELSE U32Max,
   n_undo_pos |-> IF f > 7 /\ HasUndo(r.status) THEN r.n_undo_pos ELSE U32Max,
   header |-> <<>>]

Known(r, f) == IF input.kind = "block" THEN BlockKnown(r, f) ELSE TxKnown(r, f)

Left(s, k) == SubSeq(s, k + 1, Len(s))

\* What was written is read field by field, and nothing of it is lost.
InField ==
  LET r == input.written
      w == WriteVarInt(r[Fields[field]])
  IN  /\ field \in 1 .. Len(Fields)
      /\ IsThere(Fields[field], r)
      /\ Left(Write(input.kind, r), start) = w \o Behind(r, field)
      /\ at - start < Len(w)
      /\ Taken(n, SubSeq(w, 1, at - start))
      /\ exact
      /\ rec = Known(r, field)

InHeader ==
  LET r == input.written
  IN  /\ input.kind = "block"
      /\ Left(Write(input.kind, r), at) = r.header
      /\ rec = Known(r, 8)

Decoding ==
  input.written # NotWritten =>
    /\ pc \in {"varint", "header", "done"}
    /\ pc = "varint" => InField
    /\ pc = "header" => InHeader

DecodeInv == Reading /\ Decoding /\ DecodesWritten

-----------------------------------------------------------------------------
(* What was written is read back.                                          *)

\* The bytes of a number: only the last one says that none follows.
LEMMA VarIntShape ==
  ASSUME Widths, NEW v \in 0 .. UsizeMax
  PROVE  LET w == WriteVarInt(v)
         IN  /\ w \in Seq(Bytes) /\ Len(w) \in Nat /\ Len(w) >= 1
             /\ w[Len(w)] = v % Base
             /\ \A i \in 1 .. Len(w) - 1 : w[i] >= Base
             /\ v < Base => Len(w) = 1
             /\ ~(v < Base) =>
                  /\ Len(w) = Len(Leading[v \div Base - 1]) + 1
                  /\ \A i \in 1 .. Len(w) - 1 : w[i] = Leading[v \div Base - 1][i]
  <1>1. Base \in Nat /\ Base > 1 /\ UsizeMax \in Nat /\ v \in Nat
    BY DEF Widths
  <1>2. v % Base \in 0 .. Base - 1 /\ v % Base \in Bytes
    <2>1. v % Base \in 0 .. Base - 1
      BY <1>1, DivMod
    <2> QED
      BY <1>1, <2>1 DEF Bytes
  <1> DEFINE w == WriteVarInt(v)
  <1>3. CASE v < Base
    <2>1. w = <<v>> /\ v % Base = v
      BY <1>1, <1>3 DEF WriteVarInt
    <2>2. <<v>> \in Seq(Bytes) /\ Len(<<v>>) = 1 /\ <<v>>[1] = v
      BY <1>2, <2>1
    <2> HIDE DEF w
    <2> QED
      BY <1>3, <2>1, <2>2 DEF w
  <1>4. CASE ~(v < Base)
    <2> DEFINE l == Leading[v \div Base - 1]
    <2>1. w = Append(l, v % Base)
      BY <1>4 DEF WriteVarInt
    <2>2. l \in Seq(Base .. 2 * Base - 1)
      <3>1. v \div Base - 1 \in 0 .. UsizeMax
        BY <1>4, LeadingStep
      <3> QED
        BY <3>1, LeadingBytes
    <2>3. \A i \in 1 .. Len(l) : l[i] >= Base /\ l[i] \in Bytes
      BY <1>1, <2>2 DEF Bytes
    <2>4. l \in Seq(Bytes) /\ Len(l) \in Nat
      <3>1. Base .. 2 * Base - 1 \subseteq Bytes
        BY <1>1 DEF Bytes
      <3>2. l \in Seq(Bytes)
        BY <2>2, <3>1, SeqMonotonic
      <3> QED
        BY <3>2
    <2> HIDE DEF l, w
    <2>5. /\ w \in Seq(Bytes) /\ Len(w) = Len(l) + 1
          /\ w[Len(l) + 1] = v % Base
          /\ \A i \in 1 .. Len(l) : w[i] = l[i]
      BY <1>2, <2>1, <2>4
    <2>6. \A i \in 1 .. Len(w) - 1 : i \in 1 .. Len(l) /\ w[i] = l[i] /\ w[i] >= Base
      BY <2>3, <2>4, <2>5
    <2> QED
      BY <1>4, <2>4, <2>5, <2>6 DEF l, w
  <1> QED
    BY <1>3, <1>4

\* Bytes of a number before its last one stand for no more than what they
\* have in it.
LEMMA VarIntSoFar ==
  ASSUME Widths, NEW v \in 0 .. UsizeMax,
         NEW j \in 0 .. Len(WriteVarInt(v)) - 1,
         NEW k \in 0 .. UsizeMax, Taken(k, SubSeq(WriteVarInt(v), 1, j))
  PROVE  /\ k <= v \div Base
         /\ k * Base <= UsizeMax
         /\ j + 1 = Len(WriteVarInt(v)) => k = v \div Base
  <1> DEFINE w == WriteVarInt(v)
             q == v \div Base
  <1>1. Base \in Nat /\ Base > 1 /\ UsizeMax \in Nat /\ v \in Nat
    BY DEF Widths
  <1>2. q \in Nat /\ v = Base * q + (v % Base) /\ v % Base \in 0 .. Base - 1
    BY <1>1, DivMod
  <1>3. w \in Seq(Bytes) /\ Len(w) \in Nat /\ Len(w) >= 1
    BY VarIntShape
  <1>4. v < Base => Len(w) = 1 /\ q = 0
    <2>1. v < Base => Len(w) = 1
      BY VarIntShape
    <2>2. v < Base => q = 0
      BY <1>1
    <2> QED
      BY <2>1, <2>2
  <1>5. k <= q /\ (j + 1 = Len(w) => k = q)
    <2>1. CASE j = 0
      <3>1. SubSeq(w, 1, j) = <<>>
        BY <1>3, <2>1
      <3>2. k = 0
        BY <3>1 DEF Taken
      <3>3. ~(v < Base) => Len(w) # 1
        <4> SUFFICES ASSUME ~(v < Base) PROVE Len(w) # 1
          OBVIOUS
        <4> DEFINE l == Leading[v \div Base - 1]
        <4>1. Len(w) = Len(l) + 1
          BY VarIntShape
        <4>2. v \div Base - 1 \in 0 .. UsizeMax
          BY LeadingStep
        <4>3. l \in Seq(Base .. 2 * Base - 1) /\ l # <<>>
          BY <4>2, LeadingBytes
        <4>4. Len(l) \in Nat /\ Len(l) # 0
          BY <4>3
        <4> HIDE DEF l, w
        <4> QED
          BY <4>1, <4>4
      <3> HIDE DEF w, q
      <3> QED
        BY <1>2, <1>3, <1>4, <2>1, <3>2, <3>3
    <2>2. CASE j # 0
      <3>1. ~(v < Base)
        <4> SUFFICES ASSUME v < Base PROVE FALSE
          OBVIOUS
        <4>1. Len(w) = 1
          BY <1>4
        <4>2. j \in 0 .. 1 - 1
          BY <4>1
        <4> QED
          BY <2>2, <4>2
      <3> DEFINE m == q - 1
                 l == Leading[m]
      <3>2. /\ m \in 0 .. UsizeMax
            /\ Len(w) = Len(l) + 1
            /\ \A i \in 1 .. Len(w) - 1 : w[i] = l[i]
        <4>1. m \in 0 .. UsizeMax
          BY <3>1, LeadingStep
        <4> QED
          BY <3>1, <4>1, VarIntShape
      <3>3. l \in Seq(Base .. 2 * Base - 1) /\ Len(l) \in Nat
        BY <3>2, LeadingBytes
      <3> HIDE DEF l, w
      <3>4. j \in 1 .. Len(l) /\ j \in 1 .. Len(w)
        BY <1>3, <2>2, <3>2, <3>3 DEF w
      <3>5. SubSeq(w, 1, j) = SubSeq(l, 1, j)
        <4>1. /\ SubSeq(w, 1, j) = [x \in 1 .. j |-> w[x]]
              /\ SubSeq(l, 1, j) = [x \in 1 .. j |-> l[x]]
          BY <1>3, <3>3, <3>4
        <4>2. \A x \in 1 .. j : w[x] = l[x]
          BY <1>3, <3>2, <3>3, <3>4
        <4> QED
          BY <4>1, <4>2
      <3>6. PICK p \in 0 .. m : SubSeq(l, 1, j) = Leading[p]
        BY <3>2, <3>4, LeadingPrefix DEF l
      <3>7. SubSeq(l, 1, j) # <<>>
        BY <3>3, <3>4
      <3>8. k \in 1 .. UsizeMax /\ SubSeq(w, 1, j) = Leading[k - 1]
        BY <3>5, <3>7 DEF Taken, w
      <3>9. k - 1 \in 0 .. UsizeMax /\ p \in 0 .. UsizeMax
        BY <1>1, <3>2, <3>8
      <3>10. k - 1 = p
        BY <3>5, <3>6, <3>8, <3>9, LeadingInjective
      <3>11. ASSUME j + 1 = Len(w)
             PROVE  k - 1 = m
        <4>1. j = Len(l)
          BY <1>3, <3>2, <3>3, <3>11
        <4>2. SubSeq(l, 1, j) = l
          BY <3>3, <4>1
        <4>3. Leading[k - 1] = Leading[m]
          BY <3>5, <3>8, <4>2 DEF l
        <4> QED
          BY <3>2, <3>9, <4>3, LeadingInjective
      <3> HIDE DEF q
      <3> QED
        BY <1>2, <3>8, <3>9, <3>10, <3>11
    <2> QED
      BY <2>1, <2>2
  <1>6. k * Base <= UsizeMax
    <2> HIDE DEF q
    <2>1. k * Base <= Base * q
      BY <1>1, <1>2, <1>5
    <2> QED
      BY <1>1, <1>2, <2>1
  <1> QED
    BY <1>5, <1>6

\* A byte that says that more follow is not the last one, and no bit is lost.
LEMMA VarIntMore ==
  ASSUME Widths, NEW v \in 0 .. UsizeMax,
         NEW j \in 0 .. Len(WriteVarInt(v)) - 1,
         NEW k \in 0 .. UsizeMax, Taken(k, SubSeq(WriteVarInt(v), 1, j)),
         WriteVarInt(v)[j + 1] >= Base
  PROVE  LET c == WriteVarInt(v)[j + 1] - Base
         IN  /\ j + 1 < Len(WriteVarInt(v))
             /\ k * Base <= UsizeMax
             /\ k * Base + c < UsizeMax
             /\ Taken(k * Base + c + 1, SubSeq(WriteVarInt(v), 1, j + 1))
  <1> DEFINE w == WriteVarInt(v)
             b == w[j + 1]
             c == b - Base
             s == SubSeq(w, 1, j)
             m == k * Base + c
             q == v \div Base
  <1>1. Base \in Nat /\ Base > 1 /\ UsizeMax \in Nat /\ v \in Nat
    BY DEF Widths
  <1>2. w \in Seq(Bytes) /\ Len(w) \in Nat /\ Len(w) >= 1 /\ w[Len(w)] = v % Base
    BY VarIntShape
  <1>3. v % Base \in 0 .. Base - 1 /\ q \in Nat /\ q <= v
    BY <1>1, DivMod
  <1>4. k * Base <= UsizeMax
    BY VarIntSoFar
  <1> HIDE DEF w
  <1>5. j + 1 < Len(w) /\ j + 1 \in 1 .. Len(w) /\ j \in 0 .. Len(w) - 1
    <2>1. j + 1 # Len(w)
      BY <1>1, <1>2, <1>3 DEF w
    <2> QED
      BY <1>2, <2>1 DEF w
  <1>6. b \in Bytes /\ b \in Nat /\ c \in 0 .. Base - 1 /\ c + Base = b
    <2>1. b \in Bytes
      BY <1>2, <1>5
    <2> HIDE DEF b
    <2>2. b >= Base
      BY DEF b, w
    <2> QED
      BY <1>1, <2>1, <2>2 DEF Bytes
  <1>7. /\ s \in Seq(Bytes)
        /\ SubSeq(w, 1, j + 1) = Append(s, b)
    <2>1. 1 \in 1 .. Len(w) /\ 1 <= j + 1
      BY <1>2, <1>5
    <2> QED
      BY <1>2, <1>5, <2>1, SubSeqGrows
  <1>8. Taken(k, s)
    BY DEF w
  <1> HIDE DEF b, c, s
  <1>9. m \in 0 .. UsizeMax
    <2> DEFINE x == ((k * Base) % (UsizeMax + 1)) + c
    <2>1. x \in 0 .. UsizeMax /\ (k * Base <= UsizeMax => x = m)
      BY <1>6, ShiftedFacts
    <2> HIDE DEF x, m
    <2> QED
      BY <1>4, <2>1
  <1>10. Append(s, b) = Leading[m]
    BY <1>6, <1>7, <1>8, <1>9, TakenMore
  <1> HIDE DEF m
  <1>11. Append(s, b) # <<>>
    BY <1>7
  <1>12. m < UsizeMax
    <2> SUFFICES ASSUME m = UsizeMax PROVE FALSE
      BY <1>1, <1>9
    <2>1. ~(v < Base)
      <3> SUFFICES ASSUME v < Base PROVE FALSE
        OBVIOUS
      <3>1. Len(w) = 1
        BY VarIntShape DEF w
      <3> QED
        BY <1>5, <3>1
    <2> DEFINE l == Leading[q - 1]
    <2>2. /\ q - 1 \in 0 .. UsizeMax /\ q - 1 \in 0 .. v - 1
          /\ Len(w) = Len(l) + 1
          /\ \A i \in 1 .. Len(w) - 1 : w[i] = l[i]
      <3>1. q - 1 \in 0 .. v - 1 /\ q - 1 \in 0 .. UsizeMax
        BY <2>1, LeadingStep
      <3> QED
        BY <2>1, <3>1, VarIntShape DEF w
    <2>3. l \in Seq(Base .. 2 * Base - 1) /\ Len(l) \in Nat
      BY <2>2, LeadingBytes
    <2> HIDE DEF l, q
    <2>4. j + 1 \in 1 .. Len(l)
      BY <1>2, <1>5, <2>2, <2>3
    <2>5. SubSeq(w, 1, j + 1) = SubSeq(l, 1, j + 1)
      <3>1. /\ SubSeq(w, 1, j + 1) = [x \in 1 .. j + 1 |-> w[x]]
            /\ SubSeq(l, 1, j + 1) = [x \in 1 .. j + 1 |-> l[x]]
        BY <1>2, <1>5, <2>3, <2>4
      <3>2. \A x \in 1 .. j + 1 : w[x] = l[x]
        BY <1>2, <2>2, <2>3, <2>4
      <3> QED
        BY <3>1, <3>2
    <2>6. PICK p \in 0 .. q - 1 : SubSeq(l, 1, j + 1) = Leading[p]
      BY <2>2, <2>4, LeadingPrefix DEF l
    <2>7. p \in 0 .. UsizeMax /\ p < v
      BY <1>1, <2>2
    <2>8. m = p
      BY <1>7, <1>9, <1>10, <2>5, <2>6, <2>7, LeadingInjective
    <2> QED
      BY <1>1, <2>7, <2>8
  <1>13. Taken(m + 1, SubSeq(w, 1, j + 1))
    <2>1. m + 1 \in 1 .. UsizeMax /\ (m + 1) - 1 = m
      BY <1>1, <1>9, <1>12
    <2> QED
      BY <1>7, <1>10, <1>11, <2>1 DEF Taken
  <1> QED
    BY <1>4, <1>5, <1>12, <1>13 DEF m, c, b, w

\* The first byte that says that none follows is the last one, and the
\* number is that which was written.
LEMMA VarIntEnd ==
  ASSUME Widths, NEW v \in 0 .. UsizeMax,
         NEW j \in 0 .. Len(WriteVarInt(v)) - 1,
         NEW k \in 0 .. UsizeMax, Taken(k, SubSeq(WriteVarInt(v), 1, j)),
         WriteVarInt(v)[j + 1] < Base
  PROVE  /\ j + 1 = Len(WriteVarInt(v))
         /\ k * Base <= UsizeMax
         /\ k * Base + WriteVarInt(v)[j + 1] = v
  <1> DEFINE w == WriteVarInt(v)
  <1>1. Base \in Nat /\ Base > 1 /\ UsizeMax \in Nat /\ v \in Nat
    BY DEF Widths
  <1>2. /\ w \in Seq(Bytes) /\ Len(w) \in Nat /\ Len(w) >= 1
        /\ w[Len(w)] = v % Base
        /\ \A i \in 1 .. Len(w) - 1 : w[i] >= Base
    BY VarIntShape
  <1>3. j + 1 = Len(w)
    <2> SUFFICES ASSUME j + 1 # Len(w) PROVE FALSE
      OBVIOUS
    <2> HIDE DEF w
    <2>1. j + 1 \in 1 .. Len(w) - 1
      BY <1>2 DEF w
    <2>2. w[j + 1] >= Base /\ w[j + 1] \in Nat
      <3>1. w[j + 1] >= Base
        BY <1>2, <2>1
      <3>2. j + 1 \in 1 .. Len(w)
        BY <1>2, <2>1
      <3>3. w[j + 1] \in Bytes
        BY <1>2, <3>2
      <3> QED
        BY <1>1, <3>1, <3>3 DEF Bytes
    <2> QED
      BY <1>1, <2>2 DEF w
  <1>4. k = v \div Base /\ k * Base <= UsizeMax
    BY <1>3, VarIntSoFar
  <1>5. v = Base * (v \div Base) + (v % Base) /\ v % Base \in 0 .. Base - 1
    BY <1>1, DivMod
  <1>6. w[j + 1] = v % Base
    BY <1>2, <1>3
  <1> HIDE DEF w
  <1>7. k * Base + w[j + 1] = v
    BY <1>1, <1>4, <1>5, <1>6
  <1> QED
    BY <1>3, <1>4, <1>7 DEF w

\* Taking a first part off what is left.
Ahead(s, k, a, b) == Left(s, k) = a \o b

Passed(s, k, a, b) ==
  /\ Len(s) = k + Len(a) + Len(b)
  /\ \A i \in 1 .. Len(a) : s[k + i] = a[i]
  /\ k + Len(a) \in 0 .. Len(s)
  /\ Left(s, k + Len(a)) = b

LEMMA LeftConcat ==
  \A S : \A s, a, b \in Seq(S) : \A k \in 0 .. Len(s) : Ahead(s, k, a, b) => Passed(s, k, a, b)
  <1> TAKE S
  <1> TAKE s, a, b \in Seq(S)
  <1> TAKE k \in 0 .. Len(s)
  <1> HAVE Ahead(s, k, a, b)
  <1>0. Left(s, k) = a \o b
    BY DEF Ahead
  <1>1. Len(s) \in Nat /\ Len(a) \in Nat /\ Len(b) \in Nat
    OBVIOUS
  <1>2. Len(a \o b) = Len(a) + Len(b)
    OBVIOUS
  <1>3. Len(Left(s, k)) = Len(s) - k
    BY <1>1 DEF Left
  <1>4. Len(s) = k + Len(a) + Len(b) /\ k + Len(a) \in 0 .. Len(s)
    BY <1>0, <1>1, <1>2, <1>3
  <1>5. \A i \in 1 .. Len(s) - k : Left(s, k)[i] = s[k + i]
    BY <1>1 DEF Left
  <1>6. \A i \in 1 .. Len(a) : s[k + i] = a[i]
    <2> TAKE i \in 1 .. Len(a)
    <2>1. i \in 1 .. Len(s) - k
      BY <1>1, <1>4
    <2>2. (a \o b)[i] = a[i]
      BY ConcatProperties
    <2> QED
      BY <1>0, <1>5, <2>1, <2>2
  <1>7. Left(s, k + Len(a)) = b
    <2> DEFINE t == Left(s, k + Len(a))
    <2>1. t \in Seq(S) /\ Len(t) = Len(b)
      BY <1>1, <1>4 DEF Left
    <2>2. ASSUME NEW i \in 1 .. Len(b)
          PROVE  t[i] = b[i]
      <3>1. t[i] = s[k + Len(a) + i]
        BY <1>1, <1>4 DEF Left
      <3>2. Len(a) + i \in 1 .. Len(s) - k /\ k + (Len(a) + i) = k + Len(a) + i
        BY <1>1, <1>4
      <3>3. (a \o b)[Len(a) + i] = b[i]
        BY <1>1
      <3> QED
        BY <1>0, <1>5, <3>1, <3>2, <3>3
    <2> HIDE DEF t
    <2>3. t = b
      BY <2>1, <2>2, SeqEqual
    <2> QED
      BY <2>3 DEF t
  <1> QED
    BY <1>4, <1>6, <1>7 DEF Passed

LEMMA NumberTyped ==
  ASSUME Widths, NEW v \in 0 .. U32Max
  PROVE  v \in 0 .. UsizeMax /\ WriteVarInt(v) \in Seq(Bytes)
  <1>1. v \in 0 .. UsizeMax
    BY DEF Widths
  <1> QED
    BY <1>1, VarIntShape

LEMMA RecordTyped ==
  ASSUME Widths
  PROVE  /\ \A r \in BlockRecord :
              /\ r.version \in 0 .. U32Max \div 2 /\ r.height \in 0 .. U32Max \div 2
              /\ r.n_file \in 0 .. U32Max \div 2
              /\ {r.version, r.height, r.status, r.n_tx, r.n_file, r.n_data_pos, r.n_undo_pos}
                   \subseteq 0 .. U32Max
              /\ r.header \in Seq(Bytes) /\ Len(r.header) = HeaderSize
         /\ \A r \in TxPosition :
              /\ r.n_file \in 0 .. U32Max \div 2
              /\ {r.n_file, r.n_data_pos, r.n_tx_offset} \subseteq 0 .. U32Max
  <1>1. U32Max \in Nat
    BY DEF Widths
  <1>2. U32Max \div 2 \in Nat /\ U32Max \div 2 <= U32Max
    BY <1>1
  <1>3. \A v \in 0 .. U32Max \div 2 : v \in 0 .. U32Max
    BY <1>1, <1>2
  <1> HIDE DEF Bytes
  <1>4. ASSUME NEW r \in BlockRecord
        PROVE  /\ r.version \in 0 .. U32Max \div 2 /\ r.height \in 0 .. U32Max \div 2
               /\ r.n_file \in 0 .. U32Max \div 2
               /\ r.status \in 0 .. U32Max /\ r.n_tx \in 0 .. U32Max
               /\ r.n_data_pos \in 0 .. U32Max /\ r.n_undo_pos \in 0 .. U32Max
               /\ r.header \in Seq(Bytes) /\ Len(r.header) = HeaderSize
    BY DEF BlockRecord, U32, I32
  <1>5. ASSUME NEW r \in TxPosition
        PROVE  /\ r.n_file \in 0 .. U32Max \div 2
               /\ r.n_data_pos \in 0 .. U32Max /\ r.n_tx_offset \in 0 .. U32Max
    BY DEF TxPosition, U32, I32
  <1> QED
    BY <1>3, <1>4, <1>5

\* What is behind each field is bytes.
LEMMA BehindTyped ==
  ASSUME Widths
  PROVE  /\ \A r \in BlockRecord :
              /\ Behind1(r) \in Seq(Bytes) /\ Behind2(r) \in Seq(Bytes)
              /\ Behind3(r) \in Seq(Bytes) /\ Behind4(r) \in Seq(Bytes)
              /\ Behind5(r) \in Seq(Bytes) /\ Behind6(r) \in Seq(Bytes)
              /\ r.header \in Seq(Bytes)
         /\ \A r \in TxPosition, f \in 1 .. 3 : TxBehind(r, f) \in Seq(Bytes)
  <1>1. ASSUME NEW r \in BlockRecord
        PROVE  /\ Behind1(r) \in Seq(Bytes) /\ Behind2(r) \in Seq(Bytes)
               /\ Behind3(r) \in Seq(Bytes) /\ Behind4(r) \in Seq(Bytes)
               /\ Behind5(r) \in Seq(Bytes) /\ Behind6(r) \in Seq(Bytes)
               /\ r.header \in Seq(Bytes)
    <2>1. \A v \in {r.version, r.height, r.status, r.n_tx, r.n_file, r.n_data_pos, r.n_undo_pos} :
            WriteVarInt(v) \in Seq(Bytes)
      BY RecordTyped, NumberTyped
    <2>2. \A there, b : b \in Seq(Bytes) => If(there, b) \in Seq(Bytes)
      BY DEF If
    <2>3. r.header \in Seq(Bytes)
      BY RecordTyped
    <2>4. Behind6(r) \in Seq(Bytes)
      BY <2>1, <2>2, <2>3, ConcatProperties DEF Behind6
    <2>5. Behind5(r) \in Seq(Bytes)
      BY <2>1, <2>2, <2>4, ConcatProperties DEF Behind5
    <2>6. Behind4(r) \in Seq(Bytes)
      BY <2>1, <2>2, <2>5, ConcatProperties DEF Behind4
    <2>7. Behind3(r) \in Seq(Bytes)
      BY <2>1, <2>6, ConcatProperties DEF Behind3
    <2>8. Behind2(r) \in Seq(Bytes)
      BY <2>1, <2>7, ConcatProperties DEF Behind2
    <2>9. Behind1(r) \in Seq(Bytes)
      BY <2>1, <2>8, ConcatProperties DEF Behind1
    <2> QED
      BY <2>3, <2>4, <2>5, <2>6, <2>7, <2>8, <2>9
  <1>2. ASSUME NEW r \in TxPosition, NEW f \in 1 .. 3
        PROVE  TxBehind(r, f) \in Seq(Bytes)
    <2>1. /\ WriteVarInt(r.n_data_pos) \in Seq(Bytes)
          /\ WriteVarInt(r.n_tx_offset) \in Seq(Bytes)
      BY RecordTyped, NumberTyped
    <2>2. WriteVarInt(r.n_data_pos) \o WriteVarInt(r.n_tx_offset) \in Seq(Bytes)
      BY <2>1, ConcatProperties
    <2> QED
      BY <2>1, <2>2 DEF TxBehind
  <1> QED
    BY <1>1, <1>2

LEMMA ConcatShift ==
  ASSUME NEW S, NEW p \in Seq(S), NEW x \in Seq(S), NEW t \in Seq(S)
  PROVE  (p \o x) \o t = p \o (x \o t) /\ p \o x \in Seq(S) /\ x \o t \in Seq(S)
  BY ConcatAssociative, ConcatProperties

\* A written value is its first field and what is behind it.
LEMMA WriteFirst ==
  ASSUME Widths
  PROVE  /\ \A r \in BlockRecord :
              WriteBlockRecord(r) = WriteVarInt(r.version) \o Behind1(r)
         /\ \A r \in TxPosition :
              WriteTxPosition(r) = WriteVarInt(r.n_file) \o TxBehind(r, 1)
  <1>2. ASSUME NEW r \in BlockRecord
        PROVE  WriteBlockRecord(r) = WriteVarInt(r.version) \o Behind1(r)
    <2> DEFINE A == WriteVarInt(r.version)
               B == WriteVarInt(r.height)
               C == WriteVarInt(r.status)
               D == WriteVarInt(r.n_tx)
               E == If(HasFile(r.status), WriteVarInt(r.n_file))
               F == If(HasData(r.status), WriteVarInt(r.n_data_pos))
               G == If(HasUndo(r.status), WriteVarInt(r.n_undo_pos))
               H == r.header
    <2>1. WriteBlockRecord(r) = ((((((A \o B) \o C) \o D) \o E) \o F) \o G) \o H
      BY DEF WriteBlockRecord
    <2>2. Behind1(r) = B \o (C \o (D \o (E \o (F \o (G \o H)))))
      BY DEF Behind1, Behind2, Behind3, Behind4, Behind5, Behind6
    <2>3. /\ A \in Seq(Bytes) /\ B \in Seq(Bytes) /\ C \in Seq(Bytes) /\ D \in Seq(Bytes)
          /\ E \in Seq(Bytes) /\ F \in Seq(Bytes) /\ G \in Seq(Bytes) /\ H \in Seq(Bytes)
      <3>1. \A v \in {r.version, r.height, r.status, r.n_tx, r.n_file, r.n_data_pos, r.n_undo_pos} :
              WriteVarInt(v) \in Seq(Bytes)
        BY RecordTyped, NumberTyped
      <3>2. \A there, b : b \in Seq(Bytes) => If(there, b) \in Seq(Bytes)
        BY DEF If
      <3>3. r.header \in Seq(Bytes)
        BY RecordTyped
      <3> QED
        BY <3>1, <3>2, <3>3
    <2> HIDE DEF A, B, C, D, E, F, G, H
    <2> DEFINE P2 == A \o B
               P3 == P2 \o C
               P4 == P3 \o D
               P5 == P4 \o E
               P6 == P5 \o F
               T6 == G \o H
               T5 == F \o T6
               T4 == E \o T5
               T3 == D \o T4
               T2 == C \o T3
    <2> HIDE DEF P2, P3, P4, P5, P6, T2, T3, T4, T5, T6
    <2>4. /\ P2 \in Seq(Bytes) /\ P3 \in Seq(Bytes) /\ P4 \in Seq(Bytes)
          /\ P5 \in Seq(Bytes) /\ P6 \in Seq(Bytes)
      <3>1. P2 \in Seq(Bytes)
        BY <2>3, ConcatProperties DEF P2
      <3>2. P3 \in Seq(Bytes)
        BY <2>3, <3>1, ConcatProperties DEF P3
      <3>3. P4 \in Seq(Bytes)
        BY <2>3, <3>2, ConcatProperties DEF P4
      <3>4. P5 \in Seq(Bytes)
        BY <2>3, <3>3, ConcatProperties DEF P5
      <3>5. P6 \in Seq(Bytes)
        BY <2>3, <3>4, ConcatProperties DEF P6
      <3> QED
        BY <3>1, <3>2, <3>3, <3>4, <3>5
    <2>5. (P6 \o G) \o H = P6 \o T6 /\ T6 \in Seq(Bytes)
      <3>1. P6 \in Seq(Bytes) /\ G \in Seq(Bytes) /\ H \in Seq(Bytes)
        BY <2>3, <2>4
      <3> QED
        BY <3>1, ConcatShift DEF T6
    <2>6. P6 \o T6 = P5 \o T5 /\ T5 \in Seq(Bytes)
      <3>1. P5 \in Seq(Bytes) /\ F \in Seq(Bytes) /\ T6 \in Seq(Bytes)
        BY <2>3, <2>4, <2>5
      <3> QED
        BY <3>1, ConcatShift DEF P6, T5
    <2>7. P5 \o T5 = P4 \o T4 /\ T4 \in Seq(Bytes)
      <3>1. P4 \in Seq(Bytes) /\ E \in Seq(Bytes) /\ T5 \in Seq(Bytes)
        BY <2>3, <2>4, <2>6
      <3> QED
        BY <3>1, ConcatShift DEF P5, T4
    <2>8. P4 \o T4 = P3 \o T3 /\ T3 \in Seq(Bytes)
      <3>1. P3 \in Seq(Bytes) /\ D \in Seq(Bytes) /\ T4 \in Seq(Bytes)
        BY <2>3, <2>4, <2>7
      <3> QED
        BY <3>1, ConcatShift DEF P4, T3
    <2>9. P3 \o T3 = P2 \o T2 /\ T2 \in Seq(Bytes)
      <3>1. P2 \in Seq(Bytes) /\ C \in Seq(Bytes) /\ T3 \in Seq(Bytes)
        BY <2>3, <2>4, <2>8
      <3> QED
        BY <3>1, ConcatShift DEF P3, T2
    <2>10. P2 \o T2 = A \o (B \o T2)
      <3>1. A \in Seq(Bytes) /\ B \in Seq(Bytes) /\ T2 \in Seq(Bytes)
        BY <2>3, <2>9
      <3> QED
        BY <3>1, ConcatShift DEF P2
    <2>11. WriteBlockRecord(r) = (P6 \o G) \o H /\ Behind1(r) = B \o T2
      BY <2>1, <2>2 DEF P2, P3, P4, P5, P6, T2, T3, T4, T5, T6
    <2>12. WriteBlockRecord(r) = A \o Behind1(r)
      BY <2>5, <2>6, <2>7, <2>8, <2>9, <2>10, <2>11
    <2> QED
      BY <2>12 DEF A
  <1>3. ASSUME NEW r \in TxPosition
        PROVE  WriteTxPosition(r) = WriteVarInt(r.n_file) \o TxBehind(r, 1)
    <2>1. \A v \in {r.n_file, r.n_data_pos, r.n_tx_offset} : WriteVarInt(v) \in Seq(Bytes)
      BY RecordTyped, NumberTyped
    <2>2. TxBehind(r, 1) = WriteVarInt(r.n_data_pos) \o WriteVarInt(r.n_tx_offset)
      BY DEF TxBehind
    <2> DEFINE A == WriteVarInt(r.n_file)
               B == WriteVarInt(r.n_data_pos)
               C == WriteVarInt(r.n_tx_offset)
    <2>3. WriteTxPosition(r) = (A \o B) \o C
      BY DEF WriteTxPosition
    <2>4. A \in Seq(Bytes) /\ B \in Seq(Bytes) /\ C \in Seq(Bytes)
      BY <2>1
    <2> HIDE DEF A, B, C
    <2>5. (A \o B) \o C = A \o (B \o C)
      BY <2>4, ConcatShift
    <2> QED
      BY <2>2, <2>3, <2>5 DEF A, B, C
  <1> QED
    BY <1>2, <1>3

LEMMA FieldNames ==
  /\ input.kind = "block" =>
       /\ Len(Fields) = 7
       /\ Fields[1] = "version" /\ Fields[2] = "height" /\ Fields[3] = "status"
       /\ Fields[4] = "n_tx" /\ Fields[5] = "n_file" /\ Fields[6] = "n_data_pos"
       /\ Fields[7] = "n_undo_pos"
  /\ input.kind # "block" =>
       /\ Len(Fields) = 3
       /\ Fields[1] = "n_file" /\ Fields[2] = "n_data_pos" /\ Fields[3] = "n_tx_offset"
  BY DEF Fields

\* What was written of a field fits it.
LEMMA CastFits ==
  ASSUME Widths, NEW v \in 0 .. U32Max
  PROVE  /\ Unsigned(v) = v
         /\ v \in 0 .. U32Max \div 2 => Signed(v) = v
  <1>1. U32Max \in Nat /\ v \in Nat /\ v < U32Max + 1
    BY DEF Widths
  <1>2. v % (U32Max + 1) = v
    BY <1>1
  <1>3. Unsigned(v) = v
    BY <1>2 DEF Unsigned
  <1>4. ASSUME v \in 0 .. U32Max \div 2 PROVE Signed(v) = v
    <2>1. ~(v > U32Max \div 2)
      BY <1>1, <1>4
    <2> QED
      BY <1>3, <2>1 DEF Signed
  <1> QED
    BY <1>3, <1>4

LEMMA FieldFits ==
  ASSUME Widths, IsInput(input), input.written # NotWritten,
         NEW f \in 1 .. Len(Fields)
  PROVE  /\ input.written[Fields[f]] \in 0 .. U32Max
         /\ Cast(Fields[f], input.written[Fields[f]]) = input.written[Fields[f]]
  <1> DEFINE r == input.written
  <1>1. CASE input.kind = "block"
    <2>1. r \in BlockRecord
      BY <1>1 DEF IsInput
    <2>2. f \in 1 .. 7
      BY <1>1, FieldNames
    <2>3. /\ r.version \in 0 .. U32Max \div 2 /\ r.height \in 0 .. U32Max \div 2
          /\ r.n_file \in 0 .. U32Max \div 2
          /\ r.version \in 0 .. U32Max /\ r.height \in 0 .. U32Max /\ r.status \in 0 .. U32Max
          /\ r.n_tx \in 0 .. U32Max /\ r.n_file \in 0 .. U32Max /\ r.n_data_pos \in 0 .. U32Max
          /\ r.n_undo_pos \in 0 .. U32Max
      BY <2>1, RecordTyped
    <2>4. /\ Cast("version", r.version) = r.version
          /\ Cast("height", r.height) = r.height
          /\ Cast("status", r.status) = r.status
          /\ Cast("n_tx", r.n_tx) = r.n_tx
          /\ Cast("n_file", r.n_file) = r.n_file
          /\ Cast("n_data_pos", r.n_data_pos) = r.n_data_pos
          /\ Cast("n_undo_pos", r.n_undo_pos) = r.n_undo_pos
      BY <2>3, CastFits DEF Cast
    <2>5. f = 1 \/ f = 2 \/ f = 3 \/ f = 4 \/ f = 5 \/ f = 6 \/ f = 7
      BY <2>2
    <2> QED
      BY <1>1, <2>3, <2>4, <2>5, FieldNames
  <1>2. CASE input.kind # "block"
    <2>1. r \in TxPosition
      BY <1>2 DEF IsInput
    <2>2. f \in 1 .. 3
      BY <1>2, FieldNames
    <2>3. /\ r.n_file \in 0 .. U32Max \div 2
          /\ r.n_file \in 0 .. U32Max /\ r.n_data_pos \in 0 .. U32Max
          /\ r.n_tx_offset \in 0 .. U32Max
      BY <2>1, RecordTyped
    <2>4. /\ Cast("n_file", r.n_file) = r.n_file
          /\ Cast("n_data_pos", r.n_data_pos) = r.n_data_pos
          /\ Cast("n_tx_offset", r.n_tx_offset) = r.n_tx_offset
      BY <2>3, CastFits DEF Cast
    <2>5. f = 1 \/ f = 2 \/ f = 3
      BY <2>2
    <2> QED
      BY <1>2, <2>3, <2>4, <2>5, FieldNames
  <1> QED
    BY <1>1, <1>2

LEMMA LeastIsMin ==
  ASSUME NEW S \in SUBSET Int, NEW m \in S, \A x \in S : m <= x
  PROVE  Min(S) = m
  <1>1. m \in S /\ \A y \in S : m <= y
    OBVIOUS
  <1>2. ASSUME NEW x \in S, \A y \in S : x <= y PROVE x = m
    BY <1>2
  <1> QED
    BY <1>1, <1>2 DEF Min

\* What follows in a record of a block when a field has been read: the
\* header, or the next field that the status says is there.
LEMMA BlockKnownGrows ==
  ASSUME input.kind = "block", NEW r \in BlockRecord, NEW f \in 1 .. 7,
         IsThere(Fields[f], r)
  PROVE  [BlockKnown(r, f) EXCEPT ![Fields[f]] = r[Fields[f]]] = BlockKnown(r, f + 1)
  <1>1. f = 1 \/ f = 2 \/ f = 3 \/ f = 4 \/ f = 5 \/ f = 6 \/ f = 7
    OBVIOUS
  <1>2. CASE f = 1
    BY <1>2, FieldNames DEF BlockKnown
  <1>3. CASE f = 2
    BY <1>3, FieldNames DEF BlockKnown
  <1>4. CASE f = 3
    BY <1>4, FieldNames DEF BlockKnown
  <1>5. CASE f = 4
    BY <1>5, FieldNames DEF BlockKnown
  <1>6. CASE f = 5
    BY <1>6, FieldNames DEF BlockKnown, IsThere
  <1>7. CASE f = 6
    BY <1>7, FieldNames DEF BlockKnown, IsThere
  <1>8. CASE f = 7
    BY <1>8, FieldNames DEF BlockKnown, IsThere
  <1> QED
    BY <1>1, <1>2, <1>3, <1>4, <1>5, <1>6, <1>7, <1>8

LEMMA BlockSkips ==
  ASSUME Widths, NEW r \in BlockRecord
  PROVE  /\ ~HasUndo(r.status) =>
              Behind6(r) = r.header /\ BlockKnown(r, 7) = BlockKnown(r, 8)
         /\ ~HasData(r.status) =>
              Behind5(r) = Behind6(r) /\ BlockKnown(r, 6) = BlockKnown(r, 7)
         /\ ~HasFile(r.status) =>
              Behind4(r) = Behind5(r) /\ BlockKnown(r, 5) = BlockKnown(r, 6)
  <1>1. \A s \in Seq(Bytes) : <<>> \o s = s
    BY ConcatEmptySeq
  <1>2. \A s : If(FALSE, s) = <<>>
    BY DEF If
  <1>3. ~HasUndo(r.status) => Behind6(r) = <<>> \o r.header
    BY DEF Behind6, If
  <1>4. ~HasData(r.status) => Behind5(r) = <<>> \o Behind6(r)
    BY DEF Behind5, If
  <1>5. ~HasFile(r.status) => Behind4(r) = <<>> \o Behind5(r)
    BY DEF Behind4, If
  <1>6. /\ <<>> \o r.header = r.header
        /\ <<>> \o Behind6(r) = Behind6(r) /\ <<>> \o Behind5(r) = Behind5(r)
    BY <1>1, BehindTyped
  <1>7. /\ ~HasUndo(r.status) => BlockKnown(r, 7) = BlockKnown(r, 8)
        /\ ~HasData(r.status) => BlockKnown(r, 6) = BlockKnown(r, 7)
        /\ ~HasFile(r.status) => BlockKnown(r, 5) = BlockKnown(r, 6)
    BY DEF BlockKnown
  <1> QED
    BY <1>3, <1>4, <1>5, <1>6, <1>7

\* The fields that the status decides upon.
LEMMA BlockLeft ==
  ASSUME input.kind = "block", NEW r, NEW f \in 1 .. 7, NEW g \in f + 1 .. 7
  PROVE  LET there == IsThere(Fields[g], BlockKnown(r, f + 1))
         IN  /\ g <= 4 => there /\ IsThere(Fields[g], r)
             /\ f >= 4 => /\ there <=> IsThere(Fields[g], r)
                          /\ g = 5 => (there <=> HasFile(r.status))
                          /\ g = 6 => (there <=> HasData(r.status))
                          /\ g = 7 => (there <=> HasUndo(r.status))
  <1>1. g = 2 \/ g = 3 \/ g = 4 \/ g = 5 \/ g = 6 \/ g = 7
    OBVIOUS
  <1>2. ASSUME g <= 4, NEW q
        PROVE  IsThere(Fields[g], q)
    <2>1. Fields[g] \notin {"n_file", "n_data_pos", "n_undo_pos"}
      BY <1>1, <1>2, FieldNames
    <2> QED
      BY <2>1 DEF IsThere
  <1>3. f >= 4 => BlockKnown(r, f + 1).status = r.status
    BY DEF BlockKnown
  <1>4. ASSUME NEW q
        PROVE  /\ g = 5 => (IsThere(Fields[g], q) <=> HasFile(q.status))
               /\ g = 6 => (IsThere(Fields[g], q) <=> HasData(q.status))
               /\ g = 7 => (IsThere(Fields[g], q) <=> HasUndo(q.status))
    BY FieldNames DEF IsThere
  <1>5. f >= 4 => g \in {5, 6, 7}
    BY <1>1
  <1>6. g <= 4 => IsThere(Fields[g], BlockKnown(r, f + 1)) /\ IsThere(Fields[g], r)
    BY <1>2
  <1>7. f >= 4 => /\ IsThere(Fields[g], BlockKnown(r, f + 1)) <=> IsThere(Fields[g], r)
                  /\ g = 5 => (IsThere(Fields[g], BlockKnown(r, f + 1)) <=> HasFile(r.status))
                  /\ g = 6 => (IsThere(Fields[g], BlockKnown(r, f + 1)) <=> HasData(r.status))
                  /\ g = 7 => (IsThere(Fields[g], BlockKnown(r, f + 1)) <=> HasUndo(r.status))
    BY <1>3, <1>4, <1>5
  <1> QED
    BY <1>6, <1>7

LEMMA BlockBehindIs ==
  ASSUME input.kind = "block", NEW r
  PROVE  /\ BlockBehind(r, 1) = WriteVarInt(r[Fields[2]]) \o BlockBehind(r, 2)
         /\ BlockBehind(r, 2) = WriteVarInt(r[Fields[3]]) \o BlockBehind(r, 3)
         /\ BlockBehind(r, 3) = WriteVarInt(r[Fields[4]]) \o BlockBehind(r, 4)
         /\ HasFile(r.status) =>
              BlockBehind(r, 4) = WriteVarInt(r[Fields[5]]) \o BlockBehind(r, 5)
         /\ HasData(r.status) =>
              BlockBehind(r, 5) = WriteVarInt(r[Fields[6]]) \o BlockBehind(r, 6)
         /\ HasUndo(r.status) =>
              BlockBehind(r, 6) = WriteVarInt(r[Fields[7]]) \o BlockBehind(r, 7)
         /\ BlockBehind(r, 4) = Behind4(r) /\ BlockBehind(r, 5) = Behind5(r)
         /\ BlockBehind(r, 6) = Behind6(r) /\ BlockBehind(r, 7) = r.header
  <1>1. /\ BlockBehind(r, 1) = Behind1(r) /\ BlockBehind(r, 2) = Behind2(r)
        /\ BlockBehind(r, 3) = Behind3(r) /\ BlockBehind(r, 4) = Behind4(r)
        /\ BlockBehind(r, 5) = Behind5(r) /\ BlockBehind(r, 6) = Behind6(r)
        /\ BlockBehind(r, 7) = r.header
    BY DEF BlockBehind
  <1>2. /\ Behind1(r) = WriteVarInt(r.height) \o Behind2(r)
        /\ Behind2(r) = WriteVarInt(r.status) \o Behind3(r)
        /\ Behind3(r) = WriteVarInt(r.n_tx) \o Behind4(r)
    BY DEF Behind1, Behind2, Behind3
  <1>3. HasFile(r.status) => Behind4(r) = WriteVarInt(r.n_file) \o Behind5(r)
    BY DEF Behind4, If
  <1>4. HasData(r.status) => Behind5(r) = WriteVarInt(r.n_data_pos) \o Behind6(r)
    BY DEF Behind5, If
  <1>5. HasUndo(r.status) => Behind6(r) = WriteVarInt(r.n_undo_pos) \o r.header
    BY DEF Behind6, If
  <1>6. /\ r[Fields[2]] = r.height /\ r[Fields[3]] = r.status /\ r[Fields[4]] = r.n_tx
        /\ r[Fields[5]] = r.n_file /\ r[Fields[6]] = r.n_data_pos
        /\ r[Fields[7]] = r.n_undo_pos
    BY FieldNames
  <1> QED
    BY <1>1, <1>2, <1>3, <1>4, <1>5, <1>6

LEMMA BlockNext ==
  ASSUME Widths, input.kind = "block", NEW r \in BlockRecord, NEW f \in 1 .. 7
  PROVE  LET left == {g \in f + 1 .. 7 : IsThere(Fields[g], BlockKnown(r, f + 1))}
             g == Min(left)
         IN  /\ left = {} =>
                  BlockBehind(r, f) = r.header /\ BlockKnown(r, f + 1) = BlockKnown(r, 8)
             /\ left # {} =>
                  /\ g \in f + 1 .. 7
                  /\ IsThere(Fields[g], r)
                  /\ BlockBehind(r, f) = WriteVarInt(r[Fields[g]]) \o BlockBehind(r, g)
                  /\ BlockKnown(r, f + 1) = BlockKnown(r, g)
  <1> DEFINE left == {g \in f + 1 .. 7 : IsThere(Fields[g], BlockKnown(r, f + 1))}
             Goes(g) == /\ left # {}
                        /\ Min(left) = g
                        /\ g \in f + 1 .. 7
                        /\ IsThere(Fields[g], r)
                        /\ BlockBehind(r, f) = WriteVarInt(r[Fields[g]]) \o BlockBehind(r, g)
                        /\ BlockKnown(r, f + 1) = BlockKnown(r, g)
             Ends == /\ left = {}
                     /\ BlockBehind(r, f) = r.header
                     /\ BlockKnown(r, f + 1) = BlockKnown(r, 8)
  <1>0. left \in SUBSET Int
    OBVIOUS
  <1>1. ASSUME NEW g \in f + 1 .. 7, g \in left, \A x \in left : g <= x
        PROVE  Min(left) = g /\ left # {}
    <2> HIDE DEF left
    <2> QED
      BY <1>0, <1>1, LeastIsMin
  <1>2. CASE f \in {1, 2, 3}
    <2> DEFINE g == f + 1
    <2>1. g \in f + 1 .. 7 /\ g <= 4
      BY <1>2
    <2>2. IsThere(Fields[g], BlockKnown(r, f + 1)) /\ IsThere(Fields[g], r)
      BY <2>1, BlockLeft
    <2>3. Min(left) = g /\ left # {}
      BY <1>1, <2>1, <2>2
    <2>4. BlockBehind(r, f) = WriteVarInt(r[Fields[g]]) \o BlockBehind(r, g)
      <3>1. CASE f = 1
        <4>1. BlockBehind(r, 1) = WriteVarInt(r[Fields[2]]) \o BlockBehind(r, 2)
          BY BlockBehindIs
        <4>2. g = 2
          BY <3>1
        <4> QED
          BY <3>1, <4>1, <4>2
      <3>2. CASE f = 2
        <4>1. BlockBehind(r, 2) = WriteVarInt(r[Fields[3]]) \o BlockBehind(r, 3)
          BY BlockBehindIs
        <4>2. g = 3
          BY <3>2
        <4> QED
          BY <3>2, <4>1, <4>2
      <3>3. CASE f = 3
        <4>1. BlockBehind(r, 3) = WriteVarInt(r[Fields[4]]) \o BlockBehind(r, 4)
          BY BlockBehindIs
        <4>2. g = 4
          BY <3>3
        <4> QED
          BY <3>3, <4>1, <4>2
      <3> QED
        BY <1>2, <3>1, <3>2, <3>3
    <2> HIDE DEF left
    <2>5. Goes(g)
      BY <2>1, <2>2, <2>3, <2>4
    <2> QED
      BY <2>5 DEF left
  <1>3. CASE f >= 4
    <2>1. \A g \in f + 1 .. 7 : /\ g \in left <=> IsThere(Fields[g], r)
                                /\ g = 5 => (g \in left <=> HasFile(r.status))
                                /\ g = 6 => (g \in left <=> HasData(r.status))
                                /\ g = 7 => (g \in left <=> HasUndo(r.status))
      BY <1>3, BlockLeft
    <2>2. \A g \in left : g \in f + 1 .. 7
      OBVIOUS
    <2>3. HasFile(r.status) <=> HasData(r.status) \/ HasUndo(r.status)
      BY DEF HasFile, HasData, HasUndo
    <2> HIDE DEF left
    <2>4. ASSUME f <= 4, HasFile(r.status)
          PROVE  Goes(5)
      <3>1. f = 4 /\ 5 \in left /\ IsThere(Fields[5], r) /\ \A x \in left : 5 <= x
        BY <1>3, <2>1, <2>2, <2>4
      <3>2. Min(left) = 5 /\ left # {}
        BY <1>1, <3>1
      <3>3. BlockBehind(r, 4) = WriteVarInt(r[Fields[5]]) \o BlockBehind(r, 5)
        BY <2>4, BlockBehindIs
      <3>4. f = 4 /\ f + 1 = 5 /\ 5 \in f + 1 .. 7
        BY <2>4, <3>1
      <3> QED
        BY <3>1, <3>2, <3>3, <3>4
    <2>5. ASSUME f = 5, HasData(r.status)
          PROVE  Goes(6)
      <3>1. 6 \in left /\ IsThere(Fields[6], r) /\ \A x \in left : 6 <= x
        BY <2>1, <2>2, <2>5
      <3>2. Min(left) = 6 /\ left # {}
        BY <1>1, <2>5, <3>1
      <3>3. BlockBehind(r, 5) = WriteVarInt(r[Fields[6]]) \o BlockBehind(r, 6)
        BY <2>5, BlockBehindIs
      <3>4. f = 5 /\ f + 1 = 6 /\ 6 \in f + 1 .. 7
        BY <2>5, <3>1
      <3> QED
        BY <3>1, <3>2, <3>3, <3>4
    <2>6. ASSUME f \in {5, 6}, HasUndo(r.status), f = 5 => ~HasData(r.status)
          PROVE  Goes(7)
      <3>1. 7 \in left /\ IsThere(Fields[7], r)
        BY <2>1, <2>6
      <3>2. \A x \in left : 7 <= x
        <4> TAKE x \in left
        <4>1. x \in f + 1 .. 7 /\ x # 5
          BY <2>2, <2>6
        <4>2. x # 6
          BY <2>1, <2>2, <2>6
        <4> QED
          BY <2>6, <4>1, <4>2
      <3>3. Min(left) = 7 /\ left # {}
        BY <1>1, <2>6, <3>1, <3>2
      <3>4. BlockBehind(r, 6) = WriteVarInt(r[Fields[7]]) \o BlockBehind(r, 7)
        BY <2>6, BlockBehindIs
      <3>5. f = 5 => BlockBehind(r, 5) = BlockBehind(r, 6) /\ BlockKnown(r, 6) = BlockKnown(r, 7)
        BY <2>6, BlockSkips, BlockBehindIs
      <3>6. BlockBehind(r, f) = BlockBehind(r, 6) /\ BlockKnown(r, f + 1) = BlockKnown(r, 7)
        BY <2>6, <3>5
      <3> QED
        BY <2>6, <3>1, <3>3, <3>4, <3>6
    <2>7. ASSUME f = 4 => ~HasFile(r.status), f <= 5 => ~HasData(r.status),
                 f <= 6 => ~HasUndo(r.status)
          PROVE  Ends
      <3>1. left = {}
        BY <1>3, <2>1, <2>2, <2>7
      <3>2. f = 4 \/ f = 5 \/ f = 6 \/ f = 7
        BY <1>3
      <3>3. BlockBehind(r, f) = r.header /\ BlockKnown(r, f + 1) = BlockKnown(r, 8)
        <4>1. /\ BlockBehind(r, 4) = Behind4(r) /\ BlockBehind(r, 5) = Behind5(r)
              /\ BlockBehind(r, 6) = Behind6(r) /\ BlockBehind(r, 7) = r.header
          BY BlockBehindIs
        <4>2. f <= 6 => Behind6(r) = r.header /\ BlockKnown(r, 7) = BlockKnown(r, 8)
          BY <2>7, BlockSkips
        <4>3. f <= 5 => Behind5(r) = Behind6(r) /\ BlockKnown(r, 6) = BlockKnown(r, 7)
          BY <2>7, BlockSkips
        <4>4. f = 4 => Behind4(r) = Behind5(r) /\ BlockKnown(r, 5) = BlockKnown(r, 6)
          BY <2>7, BlockSkips
        <4>5. CASE f = 4
          BY <4>1, <4>2, <4>3, <4>4, <4>5
        <4>6. CASE f = 5
          BY <4>1, <4>2, <4>3, <4>6
        <4>7. CASE f = 6
          BY <4>1, <4>2, <4>7
        <4>8. CASE f = 7
          BY <4>1, <4>8
        <4> QED
          BY <3>2, <4>5, <4>6, <4>7, <4>8
      <3> QED
        BY <3>1, <3>3
    <2>8. Goes(5) \/ Goes(6) \/ Goes(7) \/ Ends
      <3>1. f = 4 \/ f = 5 \/ f = 6 \/ f = 7
        BY <1>3
      <3> HIDE DEF Goes, Ends
      <3> QED
        BY <2>3, <2>4, <2>5, <2>6, <2>7, <3>1
    <2> QED
      BY <2>8 DEF left
  <1> QED
    BY <1>2, <1>3

\* The same for the position of a transaction, which has all its fields.
LEMMA TxNext ==
  ASSUME Widths, input.kind # "block", NEW r \in TxPosition, NEW f \in 1 .. 3
  PROVE  LET left == {g \in f + 1 .. 3 : IsThere(Fields[g], TxKnown(r, f + 1))}
             g == Min(left)
         IN  /\ left = {} => f = 3 /\ TxBehind(r, f) = <<>> /\ TxKnown(r, f + 1) = r
             /\ left # {} =>
                  /\ g = f + 1 /\ g \in 1 .. 3
                  /\ TxBehind(r, f) = WriteVarInt(r[Fields[g]]) \o TxBehind(r, g)
  <1> DEFINE left == {g \in f + 1 .. 3 : IsThere(Fields[g], TxKnown(r, f + 1))}
  <1>1. left = f + 1 .. 3
    BY DEF IsThere
  <1>2. CASE f = 3
    <2>1. left = {}
      BY <1>1, <1>2
    <2>2. TxBehind(r, f) = <<>>
      BY <1>2 DEF TxBehind
    <2>3. TxKnown(r, f + 1) = r
      BY <1>2 DEF TxKnown, TxPosition
    <2> HIDE DEF left
    <2> QED
      BY <1>2, <2>1, <2>2, <2>3 DEF left
  <1>3. CASE f # 3
    <2>1. f + 1 \in left /\ left \in SUBSET Int /\ \A x \in left : f + 1 <= x
      BY <1>1, <1>3
    <2> HIDE DEF left
    <2>2. Min(left) = f + 1 /\ left # {}
      BY <2>1, LeastIsMin
    <2>3. TxBehind(r, f) = WriteVarInt(r[Fields[f + 1]]) \o TxBehind(r, f + 1)
      <3>1. r[Fields[2]] = r.n_data_pos /\ r[Fields[3]] = r.n_tx_offset
        BY FieldNames
      <3>2. /\ TxBehind(r, 1) = WriteVarInt(r.n_data_pos) \o TxBehind(r, 2)
            /\ TxBehind(r, 2) = WriteVarInt(r.n_tx_offset) /\ TxBehind(r, 3) = <<>>
        BY DEF TxBehind
      <3>3. WriteVarInt(r.n_tx_offset) \in Seq(Bytes)
        BY RecordTyped, NumberTyped
      <3>4. WriteVarInt(r.n_tx_offset) \o <<>> = WriteVarInt(r.n_tx_offset)
        BY <3>3, ConcatEmptySeq
      <3>5. CASE f = 1
        BY <3>1, <3>2, <3>5
      <3>6. CASE f = 2
        <4>1. TxBehind(r, 2) = WriteVarInt(r[Fields[3]]) \o TxBehind(r, 3)
          BY <3>1, <3>2, <3>4
        <4> QED
          BY <3>6, <4>1
      <3> QED
        BY <1>3, <3>5, <3>6
    <2>4. /\ left # {}
          /\ Min(left) = f + 1 /\ Min(left) \in 1 .. 3
          /\ TxBehind(r, f) = WriteVarInt(r[Fields[Min(left)]]) \o TxBehind(r, Min(left))
      BY <1>3, <2>2, <2>3
    <2> QED
      BY <2>4 DEF left
  <1> QED
    BY <1>2, <1>3

LEMMA TxKnownGrows ==
  ASSUME input.kind # "block", NEW r \in TxPosition, NEW f \in 1 .. 3
  PROVE  [TxKnown(r, f) EXCEPT ![Fields[f]] = r[Fields[f]]] = TxKnown(r, f + 1)
  <1>1. CASE f = 1
    BY <1>1, FieldNames DEF TxKnown
  <1>2. CASE f = 2
    BY <1>2, FieldNames DEF TxKnown
  <1>3. CASE f = 3
    BY <1>3, FieldNames DEF TxKnown
  <1> QED
    BY <1>1, <1>2, <1>3

\* With its header, what is known of a record at the end is what decode says.
LEMMA KnownIsDecoded ==
  ASSUME NEW r \in BlockRecord
  PROVE  [BlockKnown(r, 8) EXCEPT !.header = r.header] = decode(r)
  <1> DEFINE F == {"version", "height", "status", "n_tx", "n_file", "n_data_pos",
                   "n_undo_pos", "header"}
  <1>1. DOMAIN r = F /\ r = [x \in F |-> r[x]]
    BY DEF BlockRecord
  <1> DEFINE d == [version |-> r.version, height |-> r.height, status |-> r.status,
                   n_tx |-> r.n_tx,
                   n_file |-> IF HasFile(r.status) THEN r.n_file ELSE -1,
                   n_data_pos |-> IF HasData(r.status) THEN r.n_data_pos ELSE U32Max,
                   n_undo_pos |-> IF HasUndo(r.status) THEN r.n_undo_pos ELSE U32Max,
                   header |-> r.header]
  <1>2. decode(r) = d
    <2> DEFINE e == decode(r)
    <2>1. DOMAIN e = F /\ e = [x \in F |-> e[x]]
      BY <1>1 DEF decode
    <2>2. /\ e["version"] = r.version /\ e["height"] = r.height /\ e["status"] = r.status
          /\ e["n_tx"] = r.n_tx /\ e["header"] = r.header
          /\ e["n_file"] = d.n_file /\ e["n_data_pos"] = d.n_data_pos
          /\ e["n_undo_pos"] = d.n_undo_pos
      BY <1>1 DEF decode
    <2>3. DOMAIN d = F /\ d = [x \in F |-> d[x]]
      OBVIOUS
    <2>4. \A x \in F : e[x] = d[x]
      BY <2>2
    <2> HIDE DEF e, d, F
    <2>5. e = d
      BY <2>1, <2>3, <2>4
    <2> QED
      BY <2>5 DEF e
  <1>3. [BlockKnown(r, 8) EXCEPT !.header = r.header] = d
    BY DEF BlockKnown
  <1> QED
    BY <1>2, <1>3

LEMMA WrittenFacts ==
  ASSUME Widths, IsInput(input), input.written # NotWritten
  PROVE  LET r == input.written
             all == Write(input.kind, r)
         IN  /\ input.kind = "block" => r \in BlockRecord
             /\ input.kind # "block" => r \in TxPosition
             /\ all \in Seq(Bytes) /\ Len(all) \in Nat
             /\ all = WriteVarInt(r[Fields[1]]) \o Behind(r, 1)
             /\ \A f \in 1 .. Len(Fields) : Behind(r, f) \in Seq(Bytes)
             /\ Len(input.bytes) <= Len(all)
             /\ \A i \in 1 .. Len(input.bytes) : input.bytes[i] = all[i]
             /\ input.bytes = all <=> Len(input.bytes) = Len(all)
  <1> DEFINE r == input.written
             all == Write(input.kind, r)
             b == input.bytes
  <1>1. /\ input.kind = "block" => r \in BlockRecord
        /\ input.kind # "block" => r \in TxPosition
        /\ b \in Seq(Bytes) /\ Len(b) <= Len(all) /\ b = SubSeq(all, 1, Len(b))
    BY DEF IsInput
  <1>2. \A f \in 1 .. Len(Fields) : Behind(r, f) \in Seq(Bytes)
    <2> TAKE f \in 1 .. Len(Fields)
    <2>1. CASE input.kind = "block"
      <3>1. f \in 1 .. 7
        BY <2>1, FieldNames
      <3> QED
        BY <1>1, <2>1, <3>1, BehindTyped DEF Behind, BlockBehind
    <2>2. CASE input.kind # "block"
      <3>1. f \in 1 .. 3
        BY <2>2, FieldNames
      <3> QED
        BY <1>1, <2>2, <3>1, BehindTyped DEF Behind
    <2> QED
      BY <2>1, <2>2
  <1>3. /\ all = WriteVarInt(r[Fields[1]]) \o Behind(r, 1)
        /\ WriteVarInt(r[Fields[1]]) \in Seq(Bytes)
    <2>1. CASE input.kind = "block"
      <3>1. r[Fields[1]] = r.version
        BY <2>1, FieldNames
      <3>2. Behind(r, 1) = Behind1(r)
        BY <2>1 DEF Behind, BlockBehind
      <3>3. all = WriteVarInt(r.version) \o Behind1(r)
        BY <1>1, <2>1, WriteFirst DEF Write
      <3>4. WriteVarInt(r.version) \in Seq(Bytes)
        BY <1>1, <2>1, RecordTyped, NumberTyped
      <3> QED
        BY <3>1, <3>2, <3>3, <3>4
    <2>2. CASE input.kind # "block"
      <3>1. r[Fields[1]] = r.n_file
        BY <2>2, FieldNames
      <3>2. Behind(r, 1) = TxBehind(r, 1)
        BY <2>2 DEF Behind
      <3>3. all = WriteVarInt(r.n_file) \o TxBehind(r, 1)
        BY <1>1, <2>2, WriteFirst DEF Write
      <3>4. WriteVarInt(r.n_file) \in Seq(Bytes)
        BY <1>1, <2>2, RecordTyped, NumberTyped
      <3> QED
        BY <3>1, <3>2, <3>3, <3>4
    <2> QED
      BY <2>1, <2>2
  <1>4. all \in Seq(Bytes) /\ Len(all) \in Nat
    <2>1. 1 \in 1 .. Len(Fields)
      BY FieldNames
    <2>2. Behind(r, 1) \in Seq(Bytes)
      BY <1>2, <2>1
    <2> HIDE DEF all
    <2>3. all \in Seq(Bytes)
      BY <1>3, <2>2, ConcatProperties
    <2> QED
      BY <2>3
  <1> HIDE DEF all
  <1>5. \A i \in 1 .. Len(b) : b[i] = all[i]
    <2>1. Len(b) \in Nat
      BY <1>1
    <2>2. \A i \in 1 .. Len(b) : SubSeq(all, 1, Len(b))[i] = all[i]
      BY <1>1, <1>4, <2>1
    <2> QED
      BY <1>1, <2>2
  <1>6. b = all <=> Len(b) = Len(all)
    <2>1. Len(b) = Len(all) => b = SubSeq(all, 1, Len(all))
      BY <1>1
    <2>2. SubSeq(all, 1, Len(all)) = all
      BY <1>4
    <2> QED
      BY <2>1, <2>2
  <1> QED
    BY <1>1, <1>2, <1>3, <1>4, <1>5, <1>6 DEF all

\* Where the reader is in what was written.
LEMMA InFieldFacts ==
  ASSUME Reading, input.written # NotWritten, InField
  PROVE  LET r == input.written
             all == Write(input.kind, r)
             v == r[Fields[field]]
             w == WriteVarInt(v)
         IN  /\ Widths /\ IsInput(input) /\ field \in 1 .. Len(Fields)
             /\ v \in 0 .. UsizeMax /\ w \in Seq(Bytes) /\ Len(w) \in Nat
             /\ at - start \in 0 .. Len(w) - 1
             /\ n \in 0 .. UsizeMax /\ Taken(n, SubSeq(w, 1, at - start))
             /\ start + Len(w) <= Len(all)
             /\ Left(all, start + Len(w)) = Behind(r, field)
             /\ HasByte => Byte = w[(at - start) + 1]
  <1> DEFINE r == input.written
             all == Write(input.kind, r)
             v == r[Fields[field]]
             w == WriteVarInt(v)
             b == Behind(r, field)
  <1>1. Widths /\ IsInput(input) /\ input.bytes \in Seq(Bytes) /\ Len(input.bytes) \in Nat
    BY ReadingFacts DEF Reading
  <1>2. /\ at \in Nat /\ start \in Nat /\ start <= at /\ at <= Len(input.bytes)
        /\ n \in 0 .. UsizeMax
    BY DEF Reading
  <1>3. /\ field \in 1 .. Len(Fields)
        /\ Left(all, start) = w \o b
        /\ at - start < Len(w)
        /\ Taken(n, SubSeq(w, 1, at - start))
    BY DEF InField
  <1>4. v \in 0 .. UsizeMax /\ w \in Seq(Bytes) /\ Len(w) \in Nat
    <2>1. v \in 0 .. U32Max
      BY <1>1, <1>3, FieldFits
    <2>2. v \in 0 .. UsizeMax /\ w \in Seq(Bytes)
      BY <1>1, <2>1, NumberTyped
    <2> HIDE DEF w
    <2> QED
      BY <2>2
  <1>5. /\ all \in Seq(Bytes) /\ Len(all) \in Nat /\ b \in Seq(Bytes)
        /\ Len(input.bytes) <= Len(all)
        /\ \A i \in 1 .. Len(input.bytes) : input.bytes[i] = all[i]
    BY <1>1, <1>3, WrittenFacts
  <1>6. at - start \in 0 .. Len(w) - 1
    <2> HIDE DEF w
    <2> QED
      BY <1>2, <1>3, <1>4
  <1>7. start \in 0 .. Len(all)
    <2> HIDE DEF all
    <2> QED
      BY <1>1, <1>2, <1>5
  <1> HIDE DEF all, w, b, v
  <1>8. /\ Len(all) = start + Len(w) + Len(b)
        /\ \A i \in 1 .. Len(w) : all[start + i] = w[i]
        /\ start + Len(w) \in 0 .. Len(all)
        /\ Left(all, start + Len(w)) = b
    <2>1. /\ all \in Seq(Bytes) /\ w \in Seq(Bytes) /\ b \in Seq(Bytes)
          /\ start \in 0 .. Len(all)
      BY <1>4, <1>5, <1>7
    <2>2. Ahead(all, start, w, b)
      BY <1>3 DEF Ahead
    <2>3. Passed(all, start, w, b)
      BY <2>1, <2>2, LeftConcat
    <2> QED
      BY <2>3 DEF Passed
  <1>9. start + Len(w) <= Len(all)
    BY <1>5, <1>8
  <1>10. ASSUME HasByte
         PROVE  Byte = w[(at - start) + 1]
    <2>1. at + 1 <= Len(input.bytes) /\ Byte = input.bytes[at + 1]
      BY <1>10, ReadingFacts
    <2>2. at + 1 \in 1 .. Len(input.bytes)
      BY <1>1, <1>2, <2>1
    <2>3. (at - start) + 1 \in 1 .. Len(w) /\ start + ((at - start) + 1) = at + 1
      BY <1>2, <1>4, <1>6
    <2> QED
      BY <1>5, <1>8, <2>1, <2>2, <2>3
  <1> QED
    BY <1>1, <1>2, <1>3, <1>4, <1>6, <1>8, <1>9, <1>10 DEF all, w, b, v

\* A byte before the last one of a field.
LEMMA DecodeMore ==
  ASSUME Reading, input.written # NotWritten, InField, pc = "varint",
         HasByte, Byte >= Base
  PROVE  /\ Shifted # UsizeMax
         /\ read_more => InField'
  <1> DEFINE r == input.written
             v == r[Fields[field]]
             w == WriteVarInt(v)
             j == at - start
             c == w[j + 1] - Base
  <1>1. /\ Widths /\ v \in 0 .. UsizeMax /\ w \in Seq(Bytes) /\ Len(w) \in Nat
        /\ j \in 0 .. Len(w) - 1 /\ n \in 0 .. UsizeMax
        /\ Taken(n, SubSeq(w, 1, j)) /\ Byte = w[j + 1]
    BY InFieldFacts
  <1>2. w[j + 1] >= Base
    BY <1>1
  <1>3. /\ j + 1 < Len(w) /\ n * Base <= UsizeMax /\ n * Base + c < UsizeMax
        /\ Taken(n * Base + c + 1, SubSeq(w, 1, j + 1))
    BY <1>1, <1>2, VarIntMore
  <1>4. Shifted = n * Base + c /\ Shifted \in 0 .. UsizeMax /\ UsizeMax \in Nat
    <2>1. Byte % Base = c
      <3>1. Byte \in Bytes
        BY ReadingFacts
      <3> QED
        BY <1>1, <3>1, ByteParts
    <2>2. Shifted = n * Base + (Byte % Base) /\ Shifted \in 0 .. UsizeMax /\ UsizeMax \in Nat
      BY <1>3, ReadingFacts
    <2> HIDE DEF c
    <2> QED
      BY <2>1, <2>2
  <1> HIDE DEF c, w, v
  <1>5. Shifted < UsizeMax /\ Shifted # UsizeMax
    BY <1>3, <1>4
  <1>6. ASSUME read_more
        PROVE  InField'
    <2>1. /\ at' = at + 1 /\ UNCHANGED <<input, start, field, rec>>
          /\ n' = (Shifted + 1) % (UsizeMax + 1)
          /\ exact' = (Keeps /\ Shifted < UsizeMax)
      BY <1>6 DEF read_more
    <2>2. n' = n * Base + c + 1
      <3>1. n' = Shifted + 1
        BY <1>4, <1>5, <2>1
      <3> QED
        BY <1>4, <3>1
    <2>3. exact'
      <3>1. Keeps
        BY <1>3 DEF Keeps, InField
      <3> QED
        BY <1>5, <2>1, <3>1
    <2>4. at' - start' = j + 1
      BY <2>1 DEF Reading
    <2>5. at' - start' < Len(w) /\ Taken(n', SubSeq(w, 1, at' - start'))
      BY <1>3, <2>2, <2>4
    <2>6. /\ Fields' = Fields
          /\ input' = input /\ field' = field /\ start' = start /\ rec' = rec
          /\ IsThere(Fields[field], r)' <=> IsThere(Fields[field], r)
          /\ Behind(r, field)' = Behind(r, field)
          /\ Known(r, field)' = Known(r, field)
      BY <2>1 DEF Fields, IsThere, Behind, Known
    <2> QED
      BY <2>3, <2>5, <2>6 DEF InField, w, v
  <1> QED
    BY <1>5, <1>6

\* The next field to read, if there is one, is the next field written.
LEMMA FieldNext ==
  ASSUME Widths, IsInput(input), input.written # NotWritten,
         NEW f \in 1 .. Len(Fields)
  PROVE  LET r == input.written
             k == Known(r, f + 1)
             left == {g \in f + 1 .. Len(Fields) : IsThere(Fields[g], k)}
             g == Min(left)
         IN  /\ left # {} =>
                  /\ g \in 1 .. Len(Fields) /\ IsThere(Fields[g], r)
                  /\ Behind(r, f) = WriteVarInt(r[Fields[g]]) \o Behind(r, g)
                  /\ k = Known(r, g)
             /\ left = {} /\ input.kind = "block" =>
                  Behind(r, f) = r.header /\ k = Known(r, 8)
             /\ left = {} /\ input.kind # "block" => Behind(r, f) = <<>> /\ k = r
  <1> DEFINE r == input.written
             k == Known(r, f + 1)
             left == {g \in f + 1 .. Len(Fields) : IsThere(Fields[g], k)}
             g == Min(left)
  <1>1. CASE input.kind = "block"
    <2>1. r \in BlockRecord /\ f \in 1 .. 7 /\ Len(Fields) = 7
      BY <1>1, FieldNames, WrittenFacts
    <2>2. /\ \A i : Behind(r, i) = BlockBehind(r, i)
          /\ \A i : Known(r, i) = BlockKnown(r, i)
      BY <1>1 DEF Behind, Known
    <2>3. left = {i \in f + 1 .. 7 : IsThere(Fields[i], BlockKnown(r, f + 1))}
      BY <2>1, <2>2
    <2> HIDE DEF left
    <2>4. /\ left = {} =>
               BlockBehind(r, f) = r.header /\ BlockKnown(r, f + 1) = BlockKnown(r, 8)
          /\ left # {} =>
               /\ g \in f + 1 .. 7
               /\ IsThere(Fields[g], r)
               /\ BlockBehind(r, f) = WriteVarInt(r[Fields[g]]) \o BlockBehind(r, g)
               /\ BlockKnown(r, f + 1) = BlockKnown(r, g)
      BY <1>1, <2>1, <2>3, BlockNext
    <2>5. left # {} => g \in 1 .. Len(Fields)
      <3> HIDE DEF g
      <3> QED
        BY <2>1, <2>4
    <2> HIDE DEF g
    <2> QED
      BY <1>1, <2>2, <2>4, <2>5 DEF g, left
  <1>2. CASE input.kind # "block"
    <2>1. r \in TxPosition /\ f \in 1 .. 3 /\ Len(Fields) = 3
      BY <1>2, FieldNames, WrittenFacts
    <2>2. /\ \A i : Behind(r, i) = TxBehind(r, i)
          /\ \A i : Known(r, i) = TxKnown(r, i)
      BY <1>2 DEF Behind, Known
    <2>3. left = {i \in f + 1 .. 3 : IsThere(Fields[i], TxKnown(r, f + 1))}
      BY <2>1, <2>2
    <2> HIDE DEF left
    <2>4. /\ left = {} => f = 3 /\ TxBehind(r, f) = <<>> /\ TxKnown(r, f + 1) = r
          /\ left # {} =>
               /\ g = f + 1 /\ g \in 1 .. 3
               /\ TxBehind(r, f) = WriteVarInt(r[Fields[g]]) \o TxBehind(r, g)
      BY <1>2, <2>1, <2>3, TxNext
    <2>5. IsThere(Fields[g], r)
      BY <1>2 DEF IsThere
    <2> HIDE DEF g
    <2> QED
      BY <1>2, <2>1, <2>2, <2>4, <2>5 DEF g, left
  <1> QED
    BY <1>1, <1>2

\* The last byte of a field.
LEMMA LastByte ==
  ASSUME Reading, input.written # NotWritten, InField, HasByte, Byte < Base
  PROVE  LET r == input.written
             all == Write(input.kind, r)
         IN  /\ Widths /\ IsInput(input) /\ field \in 1 .. Len(Fields)
             /\ at + 1 \in Nat /\ at + 1 <= Len(input.bytes)
             /\ Left(all, at + 1) = Behind(r, field)
             /\ [rec EXCEPT ![Fields[field]] = Cast(Fields[field], Shifted)] =
                  Known(r, field + 1)
  <1> DEFINE r == input.written
             all == Write(input.kind, r)
             v == r[Fields[field]]
             w == WriteVarInt(v)
             j == at - start
  <1>1. /\ Widths /\ IsInput(input) /\ field \in 1 .. Len(Fields)
        /\ v \in 0 .. UsizeMax /\ Len(w) \in Nat
        /\ j \in 0 .. Len(w) - 1 /\ n \in 0 .. UsizeMax
        /\ Taken(n, SubSeq(w, 1, j)) /\ Byte = w[j + 1]
        /\ Left(all, start + Len(w)) = Behind(r, field)
    BY InFieldFacts
  <1>2. w[j + 1] < Base
    BY <1>1
  <1>3. j + 1 = Len(w) /\ n * Base <= UsizeMax /\ n * Base + w[j + 1] = v
    BY <1>1, <1>2, VarIntEnd
  <1>4. Shifted = v
    <2>1. Byte \in Bytes /\ Byte % Base = Byte
      <3>1. Byte \in Bytes /\ Base \in Nat
        BY ReadingFacts
      <3>2. Byte \in 0 .. Base - 1
        BY <3>1 DEF Bytes
      <3> QED
        BY <3>1, <3>2
    <2>2. Shifted = n * Base + (Byte % Base)
      BY <1>3, ReadingFacts
    <2> QED
      BY <1>1, <1>3, <2>1, <2>2
  <1>5. at \in Nat /\ start \in Nat /\ at + 1 <= Len(input.bytes)
    BY ReadingFacts DEF Reading
  <1>6. Left(all, at + 1) = Behind(r, field)
    <2> HIDE DEF all, w
    <2>1. start + Len(w) = at + 1
      BY <1>1, <1>3, <1>5
    <2> QED
      BY <1>1, <2>1
  <1>7. Cast(Fields[field], Shifted) = r[Fields[field]]
    BY <1>1, <1>4, FieldFits
  <1>8. rec = Known(r, field) /\ IsThere(Fields[field], r)
    BY DEF InField
  <1>9. [Known(r, field) EXCEPT ![Fields[field]] = r[Fields[field]]] = Known(r, field + 1)
    <2>1. CASE input.kind = "block"
      <3>1. r \in BlockRecord /\ field \in 1 .. 7
        BY <1>1, <2>1, FieldNames, WrittenFacts
      <3> QED
        BY <1>8, <2>1, <3>1, BlockKnownGrows DEF Known
    <2>2. CASE input.kind # "block"
      <3>1. r \in TxPosition /\ field \in 1 .. 3
        BY <1>1, <2>2, FieldNames, WrittenFacts
      <3> QED
        BY <2>2, <3>1, TxKnownGrows DEF Known
    <2> QED
      BY <2>1, <2>2
  <1> HIDE DEF all, w, v
  <1> QED
    BY <1>1, <1>5, <1>6, <1>7, <1>8, <1>9 DEF all

\* A field begins.
LEMMA FieldBegins ==
  ASSUME Reading, input.written # NotWritten, NEW g \in 1 .. Len(Fields)
  PROVE  LET w == WriteVarInt(input.written[Fields[g]])
         IN  Len(w) > 0 /\ Taken(0, SubSeq(w, 1, 0))
  <1> DEFINE v == input.written[Fields[g]]
             w == WriteVarInt(v)
  <1>1. Widths /\ IsInput(input)
    BY ReadingFacts DEF Reading
  <1>2. v \in 0 .. UsizeMax
    BY <1>1, FieldFits, NumberTyped
  <1>3. w \in Seq(Bytes) /\ Len(w) \in Nat /\ Len(w) >= 1
    BY <1>1, <1>2, VarIntShape
  <1> HIDE DEF w
  <1>4. SubSeq(w, 1, 0) = <<>>
    BY <1>3
  <1>5. Taken(0, <<>>)
    BY DEF Taken
  <1>6. Len(w) > 0
    BY <1>3
  <1>7. Taken(0, SubSeq(w, 1, 0))
    BY <1>4, <1>5, Zenon
  <1> QED
    BY <1>6, <1>7 DEF w

LEMMA DecodeInit ==
  ASSUME Widths, AllInputs, ValueInit
  PROVE  DecodeInv
  <1>1. Reading
    BY ReadInit DEF ReadInv
  <1>2. DecodesWritten
    BY DEF ValueInit, DecodesWritten
  <1>3. ASSUME input.written # NotWritten
        PROVE  InField
    <2> DEFINE r == input.written
               all == Write(input.kind, r)
               w == WriteVarInt(r[Fields[1]])
    <2>1. IsInput(input)
      BY <1>1, ReadingFacts
    <2>2. 1 \in 1 .. Len(Fields)
      BY FieldNames
    <2>3. /\ at = 0 /\ start = 0 /\ field = 1 /\ n = 0 /\ exact = TRUE /\ rec = Empty
      BY DEF ValueInit
    <2>4. IsThere(Fields[1], r)
      BY FieldNames DEF IsThere
    <2>5. Left(all, 0) = w \o Behind(r, 1)
      <3>1. all \in Seq(Bytes) /\ all = w \o Behind(r, 1)
        BY <1>3, <2>1, WrittenFacts
      <3> HIDE DEF all
      <3>2. Left(all, 0) = all
        BY <3>1 DEF Left
      <3> QED
        BY <3>1, <3>2
    <2>6. Len(w) > 0 /\ Taken(0, SubSeq(w, 1, 0))
      BY <1>1, <1>3, <2>2, FieldBegins
    <2>7. Empty = Known(r, 1)
      BY DEF Empty, Known, BlockKnown, TxKnown
    <2>8. at - start = 0
      BY <2>3
    <2> HIDE DEF all, w
    <2> QED
      BY <2>2, <2>3, <2>4, <2>5, <2>6, <2>7, <2>8 DEF InField, all, w
  <1>4. pc = "varint"
    BY DEF ValueInit
  <1> QED
    BY <1>1, <1>2, <1>3, <1>4 DEF DecodeInv, Decoding

\* What is written behind a field is read next.
LEMMA DecodeLast ==
  ASSUME Reading, input.written # NotWritten, InField, read_last
  PROVE  Decoding' /\ DecodesWritten'
  <1> DEFINE r == input.written
             all == Write(input.kind, r)
             k == Known(r, field + 1)
             left == {g \in field + 1 .. Len(Fields) : IsThere(Fields[g], k)}
             g == Min(left)
  <1>1. pc = "varint" /\ HasByte /\ Byte < Base
    BY DEF read_last
  <1>2. /\ Widths /\ IsInput(input) /\ field \in 1 .. Len(Fields)
        /\ at + 1 \in Nat /\ at + 1 <= Len(input.bytes)
        /\ Left(all, at + 1) = Behind(r, field)
        /\ [rec EXCEPT ![Fields[field]] = Cast(Fields[field], Shifted)] = k
    BY <1>1, LastByte
  <1>3. /\ at' = at + 1 /\ start' = at + 1 /\ n' = 0 /\ exact' = TRUE /\ rec' = k
        /\ input' = input
        /\ left # {} => field' = g /\ pc' = pc
        /\ left = {} /\ input.kind = "block" => pc' = "header"
        /\ left = {} /\ input.kind # "block" => pc' = "done" /\ reply' = Ok(k)
    BY <1>2 DEF read_last
  <1>4. /\ left # {} =>
             /\ g \in 1 .. Len(Fields) /\ IsThere(Fields[g], r)
             /\ Behind(r, field) = WriteVarInt(r[Fields[g]]) \o Behind(r, g)
             /\ k = Known(r, g)
        /\ left = {} /\ input.kind = "block" =>
             Behind(r, field) = r.header /\ k = Known(r, 8)
        /\ left = {} /\ input.kind # "block" => Behind(r, field) = <<>> /\ k = r
    BY <1>2, FieldNext
  <1>5. /\ all' = all /\ Fields' = Fields
        /\ \A f : (IsThere(f, r)' <=> IsThere(f, r))
        /\ \A f : Behind(r, f)' = Behind(r, f) /\ Known(r, f)' = Known(r, f)
    BY <1>3 DEF Fields, IsThere, Behind, Known
  <1> HIDE DEF left, g, k
  <1>6. CASE left # {}
    <2> DEFINE w == WriteVarInt(r[Fields[g]])
    <2>1. Len(w) > 0 /\ Taken(0, SubSeq(w, 1, 0))
      BY <1>4, <1>6, FieldBegins
    <2>2. at' - start' = 0 /\ field' = g /\ pc' = "varint" /\ rec' = Known(r, g)
      BY <1>1, <1>2, <1>3, <1>4, <1>6
    <2>3. Left(all, start') = w \o Behind(r, g)
      BY <1>2, <1>3, <1>4, <1>6
    <2>4. InField'
      <3>1. (WriteVarInt(r[Fields[field]]))' = w
        BY <1>3, <1>5, <2>2
      <3>2. /\ (Left(all, start))' = w \o Behind(r, g)
            /\ Behind(r, field)' = Behind(r, g)
            /\ Known(r, field)' = Known(r, g)
            /\ IsThere(Fields[field], r)'
            /\ field' \in 1 .. Len(Fields)'
        BY <1>3, <1>4, <1>5, <1>6, <2>2, <2>3
      <3> HIDE DEF all, w
      <3> QED
        BY <1>3, <2>1, <2>2, <3>1, <3>2 DEF InField, all
    <2>5. pc' # "done" /\ pc' # "panicked" /\ pc' # "header"
      BY <2>2
    <2> QED
      BY <2>2, <2>4, <2>5 DEF Decoding, DecodesWritten
  <1>7. CASE left = {} /\ input.kind = "block"
    <2>1. pc' = "header" /\ rec' = Known(r, 8) /\ Left(all, at + 1) = r.header
      BY <1>2, <1>3, <1>4, <1>7
    <2>2. InHeader'
      BY <1>3, <1>5, <1>7, <2>1 DEF InHeader
    <2> QED
      BY <2>1, <2>2 DEF Decoding, DecodesWritten
  <1>8. CASE left = {} /\ input.kind # "block"
    <2>1. pc' = "done" /\ reply' = Ok(r) /\ Left(all, at + 1) = <<>>
      BY <1>2, <1>3, <1>4, <1>8
    <2>2. /\ all \in Seq(Bytes) /\ Len(all) \in Nat /\ Len(input.bytes) <= Len(all)
          /\ input.bytes = all <=> Len(input.bytes) = Len(all)
          /\ Len(input.bytes) \in Nat
      BY <1>2, WrittenFacts, ReadingFacts
    <2>3. at + 1 = Len(all)
      <3> HIDE DEF all
      <3>1. at + 1 \in 0 .. Len(all)
        BY <1>2, <2>2
      <3>2. Len(Left(all, at + 1)) = Len(all) - (at + 1)
        BY <2>2, <3>1 DEF Left
      <3>3. Len(Left(all, at + 1)) = 0
        BY <2>1
      <3> QED
        BY <2>2, <3>1, <3>2, <3>3
    <2>4. input.bytes = all /\ at + 1 = Len(input.bytes)
      <3> HIDE DEF all
      <3> QED
        BY <1>2, <2>2, <2>3
    <2> QED
      BY <1>3, <1>8, <2>1, <2>4 DEF Decoding, DecodesWritten
  <1> QED
    BY <1>6, <1>7, <1>8

\* The value ends before the field does.
LEMMA DecodeEof ==
  ASSUME Reading, input.written # NotWritten, InField, read_eof
  PROVE  Decoding' /\ DecodesWritten'
  <1> DEFINE r == input.written
             all == Write(input.kind, r)
             w == WriteVarInt(r[Fields[field]])
  <1>1. /\ pc' = "done" /\ reply' = Err /\ input' = input /\ at' = at
        /\ ~(at < Len(input.bytes))
    BY DEF read_eof, HasByte
  <1>2. /\ Len(w) \in Nat /\ at - start \in 0 .. Len(w) - 1
        /\ start + Len(w) <= Len(all) /\ Widths /\ IsInput(input)
    BY InFieldFacts
  <1>3. Len(all) \in Nat
    BY <1>2, WrittenFacts
  <1>4. at \in Nat /\ start \in Nat /\ at <= Len(input.bytes) /\ Len(input.bytes) \in Nat
    BY ReadingFacts DEF Reading
  <1>5. Len(input.bytes) < Len(all)
    <2> HIDE DEF all, w
    <2> QED
      BY <1>1, <1>2, <1>3, <1>4
  <1>6. input.bytes # all
    BY <1>3, <1>4, <1>5
  <1> QED
    BY <1>1, <1>6 DEF Decoding, DecodesWritten

\* The header is what was written behind the fields.
LEMMA DecodeHeader ==
  ASSUME Reading, input.written # NotWritten, InHeader, read_block_header
  PROVE  Decoding' /\ DecodesWritten'
  <1> DEFINE r == input.written
             all == Write(input.kind, r)
             b == input.bytes
  <1>1. pc' = "done" /\ input' = input /\ input.kind = "block"
    BY DEF read_block_header, InHeader
  <1>2. Widths /\ IsInput(input) /\ b \in Seq(Bytes) /\ Len(b) \in Nat /\ HeaderSize \in Nat
    BY ReadingFacts DEF Reading
  <1>3. at \in Nat /\ at <= Len(b)
    BY DEF Reading
  <1>4. /\ r \in BlockRecord
        /\ all \in Seq(Bytes) /\ Len(all) \in Nat
        /\ Len(b) <= Len(all)
        /\ \A i \in 1 .. Len(b) : b[i] = all[i]
        /\ b = all <=> Len(b) = Len(all)
    BY <1>1, <1>2, WrittenFacts
  <1>5. r.header \in Seq(Bytes) /\ Len(r.header) = HeaderSize
    BY <1>2, <1>4, RecordTyped
  <1>6. Left(all, at) = r.header /\ rec = BlockKnown(r, 8)
    BY DEF InHeader, Known
  <1> HIDE DEF all
  <1>7. at \in 0 .. Len(all) /\ Len(all) = at + HeaderSize
    <2>1. at \in 0 .. Len(all)
      BY <1>2, <1>3, <1>4
    <2>2. Len(Left(all, at)) = Len(all) - at
      BY <1>4, <2>1 DEF Left
    <2> QED
      BY <1>2, <1>4, <1>5, <1>6, <2>1, <2>2
  <1>8. CASE at + HeaderSize <= Len(b)
    <2>1. Len(b) = Len(all) /\ b = all /\ at + HeaderSize = Len(all)
      BY <1>2, <1>4, <1>7, <1>8
    <2>2. SubSeq(b, at + 1, at + HeaderSize) = r.header
      BY <1>6, <2>1 DEF Left
    <2>3. /\ at' = at + HeaderSize
          /\ reply' = Ok([rec EXCEPT !.header = SubSeq(b, at + 1, at + HeaderSize)])
      BY <1>8 DEF read_block_header
    <2>4. reply' = Ok(decode(r))
      BY <1>4, <1>6, <2>2, <2>3, KnownIsDecoded
    <2>5. at' = Len(b)
      BY <2>1, <2>3
    <2> QED
      BY <1>1, <2>1, <2>4, <2>5 DEF Decoding, DecodesWritten, all
  <1>9. CASE ~(at + HeaderSize <= Len(b))
    <2>1. b # all
      BY <1>2, <1>4, <1>7, <1>9
    <2>2. reply' = Err
      BY <1>9 DEF read_block_header
    <2> QED
      BY <1>1, <2>1, <2>2 DEF Decoding, DecodesWritten, all
  <1> QED
    BY <1>8, <1>9

LEMMA DecodeStep ==
  ASSUME DecodeInv, Canonical, [ValueNext]_value_vars
  PROVE  DecodeInv'
  <1>1. Reading /\ Decoding /\ DecodesWritten
    BY DEF DecodeInv
  <1>2. Reading'
    BY <1>1, ReadStep DEF ReadInv
  <1>3. input' = input
    BY DEF ValueNext, value_vars, read_more, read_more_panic, read_last, read_eof,
           read_block_header, stay_read
  <1>4. CASE input.written = NotWritten
    <2>1. input'.written = NotWritten
      BY <1>3, <1>4
    <2> QED
      BY <1>2, <2>1 DEF DecodeInv, Decoding, DecodesWritten
  <1>5. CASE input.written # NotWritten
    <2>1. ASSUME read_more PROVE Decoding' /\ DecodesWritten'
      <3>1. pc = "varint" /\ pc' = pc /\ HasByte /\ Byte >= Base
        BY <2>1 DEF read_more
      <3>2. InField'
        BY <1>1, <1>5, <2>1, <3>1, DecodeMore DEF Decoding
      <3> QED
        BY <3>1, <3>2 DEF Decoding, DecodesWritten
    <2>2. ASSUME read_more_panic PROVE FALSE
      <3>1. pc = "varint" /\ HasByte /\ Byte >= Base /\ Shifted = UsizeMax
        BY <2>2 DEF read_more_panic
      <3> QED
        BY <1>1, <1>5, <3>1, DecodeMore DEF Decoding
    <2>3. ASSUME read_last PROVE Decoding' /\ DecodesWritten'
      BY <1>1, <1>5, <2>3, DecodeLast DEF Decoding, read_last
    <2>4. ASSUME read_eof PROVE Decoding' /\ DecodesWritten'
      BY <1>1, <1>5, <2>4, DecodeEof DEF Decoding, read_eof
    <2>5. ASSUME read_block_header PROVE Decoding' /\ DecodesWritten'
      BY <1>1, <1>5, <2>5, DecodeHeader DEF Decoding, read_block_header
    <2>6. ASSUME value_vars' = value_vars PROVE Decoding' /\ DecodesWritten'
      <3>1. /\ input' = input /\ pc' = pc /\ at' = at /\ start' = start /\ field' = field
            /\ n' = n /\ exact' = exact /\ rec' = rec /\ reply' = reply
        BY <2>6 DEF value_vars
      <3>2. Fields' = Fields
        BY <3>1 DEF Fields
      <3>3. /\ \A f, r : IsThere(f, r)' <=> IsThere(f, r)
            /\ \A f, r : Behind(r, f)' = Behind(r, f)
            /\ \A f, r : Known(r, f)' = Known(r, f)
        BY <3>1 DEF IsThere, Behind, Known
      <3>4. InField => InField'
        BY <3>1, <3>2, <3>3 DEF InField
      <3>5. InHeader => InHeader'
        BY <3>1, <3>3 DEF InHeader
      <3>6. Decoding'
        BY <1>1, <3>1, <3>4, <3>5 DEF Decoding
      <3> QED
        BY <1>1, <3>1, <3>6 DEF DecodesWritten
    <2> QED
      BY <1>2, <2>1, <2>2, <2>3, <2>4, <2>5, <2>6 DEF DecodeInv, ValueNext, stay_read
  <1> QED
    BY <1>4, <1>5

(***************************************************************************)
(* BlockIndexRecord::decode and TxDB::get_tx_position read back what       *)
(* Bitcoin Core wrote, field by field and with no byte left over, and a    *)
(* value that lost its tail is an error: for every record and position, of *)
(* every width of the numbers (src/src/parser/block_index.rs:54,           *)
(* tx_index.rs:94).                                                        *)
(***************************************************************************)
THEOREM RecordDecodesWritten == ValueSpec => []DecodesWritten
  <1>1. ValueInit => DecodeInv /\ ReadInv
    BY WidthAssumption, InputAssumption, DecodeInit, ReadInit
  <1>2. DecodeInv /\ ReadInv /\ [ValueNext]_value_vars => DecodeInv' /\ ReadInv'
    BY DecodeStep, ReadStep DEF ReadInv
  <1>3. DecodeInv => DecodesWritten
    BY DEF DecodeInv
  <1> QED
    BY <1>1, <1>2, <1>3, PTL DEF ValueSpec
=============================================================================
