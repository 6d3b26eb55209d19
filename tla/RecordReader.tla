--------------------------- MODULE RecordReader ---------------------------
(***************************************************************************)
(* Reading a value of Bitcoin Core's LevelDBs from its bytes: the record   *)
(* of a block (BlockIndexRecord::decode in                                 *)
(* src/src/parser/block_index.rs) and the position of a transaction        *)
(* (TxDB::get_tx_position in src/src/parser/tx_index.rs), both made of the *)
(* variable-length integers of src/src/parser/reader.rs.  Their encoding   *)
(* is Bitcoin Core's (external).                                           *)
(*                                                                         *)
(* A byte is a number below 2 * Base, and one from Base on says that more  *)
(* bytes follow.                                                           *)
(***************************************************************************)
EXTENDS BlockIndexRecord, Sequences, FiniteSetsExt

CONSTANTS
  Base,         \* 128: what a byte holds of a number
  UsizeMax,     \* usize::MAX
  HeaderSize,   \* bytes of a block header
  Inputs        \* values to read: [kind |-> "block" or "tx", bytes |-> ...,
                \*   written |-> what Bitcoin Core wrote, or NotWritten]

\* A usize holds a u32, and its width is one that a shift by a byte's share
\* of it keeps aligned.
Widths ==
  /\ Base \in Nat /\ Base > 1
  /\ U32Max \in Nat /\ UsizeMax \in Nat /\ U32Max <= UsizeMax
  /\ (UsizeMax + 1) % Base = 0
  /\ HeaderSize \in Nat

ASSUME WidthAssumption == Widths

VARIABLES
  input,     \* the value
  pc,        \* "varint", "header", "done", "panicked"
  at,        \* the position of the Cursor
  start,     \* where read_varint began
  field,     \* which field is being read, an index into Fields
  n,         \* the variable n of read_varint
  exact,     \* no bit of n has been lost
  rec,       \* the fields read so far
  last,      \* the latest number that read_varint returned, and its bytes
  reply

value_vars == <<input, pc, at, start, field, n, exact, rec, last, reply>>

NotWritten == [n_file |-> -1]
Err == [ok |-> FALSE]
Ok(r) == [ok |-> TRUE, record |-> r]

-----------------------------------------------------------------------------
(* What Bitcoin Core writes.                                               *)

\* The bytes before the last one of a number: each stands for one more than
\* it would in base Base, so that no number has two encodings.
Leading[k \in 0 .. UsizeMax] ==
  IF k < Base THEN <<k + Base>>
  ELSE Append(Leading[k \div Base - 1], (k % Base) + Base)

WriteVarInt(k) ==
  IF k < Base THEN <<k>> ELSE Append(Leading[k \div Base - 1], k % Base)

If(there, bytes) == IF there THEN bytes ELSE <<>>

WriteBlockRecord(r) ==
  WriteVarInt(r.version) \o WriteVarInt(r.height) \o WriteVarInt(r.status)
    \o WriteVarInt(r.n_tx)
    \o If(HasFile(r.status), WriteVarInt(r.n_file))
    \o If(HasData(r.status), WriteVarInt(r.n_data_pos))
    \o If(HasUndo(r.status), WriteVarInt(r.n_undo_pos))
    \o r.header

WriteTxPosition(r) ==
  WriteVarInt(r.n_file) \o WriteVarInt(r.n_data_pos) \o WriteVarInt(r.n_tx_offset)

Write(kind, r) == IF kind = "block" THEN WriteBlockRecord(r) ELSE WriteTxPosition(r)

Bytes == 0 .. 2 * Base - 1
U32 == 0 .. U32Max
I32 == 0 .. U32Max \div 2    \* what is written of an i32 is not negative

BlockRecord ==
  [version : I32, height : I32, status : U32, n_tx : U32, n_file : I32,
   n_data_pos : U32, n_undo_pos : U32, header : {h \in Seq(Bytes) : Len(h) = HeaderSize}]

TxPosition == [n_file : I32, n_data_pos : U32, n_tx_offset : U32]

\* A value is bytes, and one that was written may have lost its tail.
IsInput(i) ==
  /\ i.kind \in {"block", "tx"}
  /\ i.bytes \in Seq(Bytes)
  /\ i.written # NotWritten =>
       /\ i.written \in (IF i.kind = "block" THEN BlockRecord ELSE TxPosition)
       /\ Len(i.bytes) <= Len(Write(i.kind, i.written))
       /\ i.bytes = SubSeq(Write(i.kind, i.written), 1, Len(i.bytes))

AllInputs == \A i \in Inputs : IsInput(i)

ASSUME InputAssumption == AllInputs

-----------------------------------------------------------------------------
(* What is read.                                                           *)

Fields ==
  IF input.kind = "block"
  THEN <<"version", "height", "status", "n_tx", "n_file", "n_data_pos", "n_undo_pos">>
  ELSE <<"n_file", "n_data_pos", "n_tx_offset">>

\* What a field holds when the status says that it is not there.
Empty ==
  IF input.kind = "block"
  THEN [version |-> 0, height |-> 0, status |-> 0, n_tx |-> 0, n_file |-> -1,
        n_data_pos |-> U32Max, n_undo_pos |-> U32Max, header |-> <<>>]
  ELSE [n_file |-> 0, n_data_pos |-> 0, n_tx_offset |-> 0]

\* Mutant: the position of the undo data is read whenever there is a file.
IsThere_undo_with_file(f, r) ==
  input.kind = "block" =>
    /\ f = "n_file" => HasFile(r.status)
    /\ f = "n_data_pos" => HasData(r.status)
    /\ f = "n_undo_pos" => HasFile(r.status)

IsThere(f, r) ==
  input.kind = "block" =>
    /\ f = "n_file" => HasFile(r.status)
    /\ f = "n_data_pos" => HasData(r.status)
    /\ f = "n_undo_pos" => HasUndo(r.status)

Unsigned(v) == v % (U32Max + 1)
Signed(v) ==
  IF Unsigned(v) > U32Max \div 2 THEN Unsigned(v) - (U32Max + 1) ELSE Unsigned(v)

\* `as i32` and `as u32` keep the low 32 bits.
Cast(f, v) == IF f \in {"version", "height", "n_file"} THEN Signed(v) ELSE Unsigned(v)

ValueInit ==
  /\ input \in Inputs
  /\ pc = "varint"
  /\ at = 0 /\ start = 0 /\ field = 1
  /\ n = 0 /\ exact = TRUE
  /\ rec = Empty
  /\ last = [number |-> 0, bytes |-> <<0>>, exact |-> TRUE]
  /\ reply = Err

\* read_u8 gives the byte behind the position, if there is one.
HasByte == at < Len(input.bytes)
Byte == input.bytes[at + 1]

\* (n << 7) | (ch_data & 0x7F): bits shifted out of a usize are lost.
Shifted == ((n * Base) % (UsizeMax + 1)) + (Byte % Base)
Keeps == exact /\ n * Base <= UsizeMax

\* Mutant: the number is put together as in plain base 128.
read_more_plain ==
  /\ pc = "varint" /\ HasByte /\ Byte >= Base
  /\ at' = at + 1
  /\ n' = Shifted
  /\ exact' = Keeps
  /\ UNCHANGED <<input, pc, start, field, rec, last, reply>>

\* More bytes follow.  n += 1 may overflow: with overflow checks it panics.
read_more ==
  /\ pc = "varint" /\ HasByte /\ Byte >= Base
  /\ at' = at + 1
  /\ n' = (Shifted + 1) % (UsizeMax + 1)
  /\ exact' = (Keeps /\ Shifted < UsizeMax)
  /\ UNCHANGED <<input, pc, start, field, rec, last, reply>>

read_more_panic ==
  /\ pc = "varint" /\ HasByte /\ Byte >= Base
  /\ Shifted = UsizeMax
  /\ pc' = "panicked"
  /\ UNCHANGED <<input, at, start, field, n, exact, rec, last, reply>>

\* The last byte: the number goes to its field, and the next field that is
\* there is read; a record of a block ends with its header.
read_last ==
  LET r == [rec EXCEPT ![Fields[field]] = Cast(Fields[field], Shifted)]
      left == {f \in field + 1 .. Len(Fields) : IsThere(Fields[f], r)}
  IN  /\ pc = "varint" /\ HasByte /\ Byte < Base
      /\ at' = at + 1
      /\ n' = 0 /\ exact' = TRUE
      /\ rec' = r
      /\ start' = at + 1
      /\ last' = [number |-> Shifted, exact |-> Keeps,
                  bytes |-> SubSeq(input.bytes, start + 1, at + 1)]
      /\ IF left # {} THEN
           field' = Min(left) /\ UNCHANGED <<pc, reply>>
         ELSE IF input.kind = "block" THEN
           pc' = "header" /\ UNCHANGED <<field, reply>>
         ELSE
           pc' = "done" /\ reply' = Ok(r) /\ UNCHANGED field
      /\ UNCHANGED input

\* Mutant: the end of the value counts as a last byte.
read_eof_as_end ==
  /\ pc = "varint" /\ ~HasByte
  /\ pc' = "done" /\ reply' = Ok(rec)
  /\ UNCHANGED <<input, at, start, field, n, exact, rec, last>>

\* read_exact: UnexpectedEof
read_eof ==
  /\ pc = "varint" /\ ~HasByte
  /\ pc' = "done" /\ reply' = Err
  /\ UNCHANGED <<input, at, start, field, n, exact, rec, last>>

read_block_header ==
  /\ pc = "header" /\ pc' = "done"
  /\ IF at + HeaderSize <= Len(input.bytes)
     THEN /\ at' = at + HeaderSize
          /\ rec' = [rec EXCEPT !.header = SubSeq(input.bytes, at + 1, at + HeaderSize)]
          /\ reply' = Ok(rec')
     ELSE /\ at' = Len(input.bytes)
          /\ reply' = Err
          /\ UNCHANGED rec
  /\ UNCHANGED <<input, start, field, n, exact, last>>

stay_read == pc \in {"done", "panicked"} /\ UNCHANGED value_vars

ValueNext ==
  \/ read_more \/ read_more_panic \/ read_last \/ read_eof
  \/ read_block_header \/ stay_read

ValueSpec == ValueInit /\ [][ValueNext]_value_vars

-----------------------------------------------------------------------------
(***************************************************************************)
(* read_varint reads back what Bitcoin Core's encoding says, and only      *)
(* that: as long as it loses no bit, the bytes it took are the one         *)
(* encoding of the number it returned (src/src/parser/reader.rs:29).       *)
(***************************************************************************)
Canonical == last.exact => last.bytes = WriteVarInt(last.number)

(***************************************************************************)
(* What Bitcoin Core wrote is read back field by field, with the fields    *)
(* its status leaves out set to -1 and u32::MAX, without overflow and with *)
(* no byte left over; a value that lost its tail is an error, never a      *)
(* record (src/src/parser/block_index.rs:54, tx_index.rs:94).              *)
(***************************************************************************)
DecodesWritten ==
  input.written # NotWritten /\ pc \in {"done", "panicked"} =>
    LET r == input.written
        whole == input.bytes = Write(input.kind, r)
    IN  /\ pc = "done"
        /\ reply = IF ~whole THEN Err
                   ELSE IF input.kind = "block" THEN Ok(decode(r)) ELSE Ok(r)
        /\ whole => at = Len(input.bytes)
=============================================================================
