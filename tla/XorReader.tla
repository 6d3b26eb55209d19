----------------------------- MODULE XorReader -----------------------------
(***************************************************************************)
(* The reader of blk files that Bitcoin Core has XORed with a key          *)
(* (src/src/parser/xor.rs).                                                *)
(*                                                                         *)
(* Byte i of a file was XORed with byte i % MaskLen of the key.  A byte    *)
(* that was read is <<i, k>>: byte i of the file, XORed with byte k of the *)
(* key, or with nothing (k = NoKey).  It is right when k is what Bitcoin   *)
(* Core used.                                                              *)
(*                                                                         *)
(* The reader may be told to do anything at any time, but seek() leaves    *)
(* the buffer as it is and read() goes past it.  Next is the way it has to *)
(* be used: a new reader seeks once, and is then read from with read(), or *)
(* with fill_buf() and consume(), as `style` says.  BlkRead shows that     *)
(* blk_file.rs uses it so.                                                 *)
(***************************************************************************)
EXTENDS Integers, Sequences

CONSTANTS
  MaxPos,     \* no file is longer and no position greater
  MaskLen,    \* XOR_MASK_LEN
  BufLen      \* the length of temp_buf

NoKey == -1

ASSUME XorAssumption ==
  MaxPos \in Nat /\ MaskLen \in Nat \ {0} /\ BufLen \in Nat \ {0}

VARIABLES
  style,        \* "none", "new" until the seek, then "read" or "buf_read"
  len,          \* bytes in the file
  mask,         \* whether XorReader.mask is Some
  inner_pos,    \* the position of the inner reader
  pos,          \* XorReader.pos
  buffer,       \* XorReader.buffer
  next,         \* the position of the next byte the consumer has not seen
  got           \* the bytes the consumer was last given

vars == <<style, len, mask, inner_pos, pos, buffer, next, got>>

Positions == 0 .. MaxPos

KeyAt(i) == IF mask THEN i % MaskLen ELSE NoKey

Init ==
  /\ style = "none"
  /\ len = 0
  /\ mask = FALSE
  /\ inner_pos = 0 /\ pos = 0
  /\ buffer = <<>>
  /\ next = 0
  /\ got = <<>>

-----------------------------------------------------------------------------
\* XorReader::new over a file of n bytes that was just opened; an earlier
\* reader is gone.
new(m, n) ==
  /\ style' = "new"
  /\ len' = n
  /\ mask' = m
  /\ inner_pos' = 0 /\ pos' = 0
  /\ buffer' = <<>>
  /\ next' = 0
  /\ got' = <<>>

\* Mutant: the position is left where it was.
seek_keeps_pos(p, s) ==
  /\ style' = s
  /\ inner_pos' = p /\ next' = p
  /\ UNCHANGED <<len, mask, pos, buffer, got>>

\* seek(SeekFrom::Start(p)): pos is asked from the inner reader.
seek(p, s) ==
  /\ style' = s
  /\ inner_pos' = p /\ next' = p
  /\ pos' = p
  /\ UNCHANGED <<len, mask, buffer, got>>

\* Mutant: the key starts anew with every call.
Chunk_key_restarts(size) ==
  [j \in 1 .. size |-> <<inner_pos + j - 1, KeyAt(j - 1)>>]

\* `size` bytes of the inner reader, each XORed at its own position.
Chunk(size) ==
  [j \in 1 .. size |-> <<inner_pos + j - 1, KeyAt(pos + j - 1)>>]

\* The inner reader gives any number of bytes that are left, and none only
\* at the end; pos only moves with a mask.
Consume(size) ==
  /\ IF size = 0 THEN inner_pos >= len ELSE inner_pos + size <= len
  /\ inner_pos' = inner_pos + size
  /\ pos' = IF mask THEN pos + size ELSE pos

\* read() may return fewer bytes than asked for.  The buffer is not asked.
read(size) ==
  /\ Consume(size)
  /\ got' = Chunk(size)
  /\ next' = inner_pos'
  /\ UNCHANGED <<style, len, mask, buffer>>

\* fill_buf() reads only when the buffer is empty.
fill_buf(size) ==
  /\ buffer = <<>>
  /\ size <= BufLen
  /\ Consume(size)
  /\ buffer' = Chunk(size)
  /\ UNCHANGED <<style, len, mask, next, got>>

\* The consumer takes the first bytes of the buffer.
consume(amt) ==
  /\ amt \in 1 .. Len(buffer)
  /\ got' = SubSeq(buffer, 1, amt)
  /\ buffer' = SubSeq(buffer, amt + 1, Len(buffer))
  /\ next' = next + amt
  /\ UNCHANGED <<style, len, mask, inner_pos, pos>>

Next ==
  \/ \E m \in BOOLEAN, n \in Positions : new(m, n)
  \/ /\ style = "new"
     /\ \E p \in Positions, s \in {"read", "buf_read"} : seek(p, s)
  \/ style = "read" /\ \E n \in Positions : read(n)
  \/ style = "buf_read" /\ \E n \in Positions : fill_buf(n) \/ consume(n)

Spec == Init /\ [][Next]_vars

-----------------------------------------------------------------------------
(***************************************************************************)
(* "Transparent reader for XOR'd blk*.dat files"                           *)
(* (src/src/parser/xor.rs:12): however short the reads are, the consumer   *)
(* gets the bytes from where it sought to in order, none twice and none    *)
(* left out, each XORed with the byte of the key that Bitcoin Core used.   *)
(***************************************************************************)
Transparent ==
  /\ \A j \in DOMAIN got :
       LET i == next - Len(got) + j - 1 IN got[j] = <<i, KeyAt(i)>>
  /\ \A j \in DOMAIN buffer :
       LET i == next + j - 1 IN buffer[j] = <<i, KeyAt(i)>>

(***************************************************************************)
(* "Stream position. This is expected to be synchronous with               *)
(* Seek::stream_position" (src/src/parser/xor.rs:16): it is whenever there *)
(* is a key.  Without one pos is not advanced, and not used.               *)
(***************************************************************************)
PosSynchronous == mask => pos = inner_pos
=============================================================================
