--------------------------- MODULE BlkReadProofs ---------------------------
(***************************************************************************)
(* XorReader is transparent for files, keys and buffers of every length,   *)
(* whatever the sizes of the reads.  With a key this rests on pos being    *)
(* the position of the inner reader whenever a byte is about to be read;   *)
(* without one, pos is not used.  Every call of blk_file.rs uses its       *)
(* reader in the way XorReader asks for, so that what is proved of the     *)
(* reader holds of all that is read; with an index of the directory that   *)
(* is complete, a call returns what was written or a reason why not.       *)
(***************************************************************************)
EXTENDS BlkRead, SequenceTheorems, TLAPS

-----------------------------------------------------------------------------
(* The reader on its own.                                                  *)

ReaderType ==
  /\ style \in {"none", "new", "read", "buf_read"}
  /\ mask \in BOOLEAN
  /\ inner_pos \in Nat
  /\ pos \in Nat
  /\ next \in Nat
  /\ buffer \in Seq(Nat \X Int)
  /\ got \in Seq(Nat \X Int)

\* The bytes that the inner reader is ahead by are in the buffer.
Ahead == next + Len(buffer) = inner_pos

\* What the consumer was given lies before `next`.
Behind == Len(got) <= next

\* Only a reader that has been sought with fill_buf in mind has a buffer.
Unbuffered == style # "buf_read" => buffer = <<>>

\* Nothing is read before the seek.
Unread == style \in {"none", "new"} => got = <<>>

Inv == ReaderType /\ Ahead /\ Behind /\ Unbuffered /\ Unread /\
       PosSynchronous /\ Transparent

\* The byte of the key that stands at any position.
LEMMA KeyType ==
  ASSUME NEW i \in Nat
  PROVE  KeyAt(i) \in Int
  BY XorAssumption DEF KeyAt, NoKey

\* What one call of the inner reader returns, once XORed: the bytes from the
\* position of the inner reader on, each with the right byte of the key.
LEMMA ChunkBytes ==
  ASSUME ReaderType, PosSynchronous, NEW size \in Nat
  PROVE  /\ Chunk(size) \in Seq(Nat \X Int)
         /\ Len(Chunk(size)) = size
         /\ \A j \in 1 .. size :
              Chunk(size)[j] = <<inner_pos + j - 1, KeyAt(inner_pos + j - 1)>>
  <1>1. \A j \in 1 .. size :
          <<inner_pos + j - 1, KeyAt(pos + j - 1)>> \in Nat \X Int
    BY KeyType DEF ReaderType
  <1>2. Chunk(size) \in [1 .. size -> Nat \X Int]
    BY <1>1 DEF Chunk
  <1>3. ASSUME NEW j \in 1 .. size
        PROVE  KeyAt(pos + j - 1) = KeyAt(inner_pos + j - 1)
    BY DEF PosSynchronous, KeyAt
  <1>4. QED
    BY <1>2, <1>3 DEF Chunk

-----------------------------------------------------------------------------
\* A new reader has no bytes.
LEMMA InitInv == Init => Inv
  <1>1. Init => PosSynchronous
    BY DEF Init, PosSynchronous
  <1>2. Init => mask \in BOOLEAN
    BY DEF Init
  <1>3. Init => ReaderType /\ Ahead /\ Behind /\ Unbuffered /\ Unread /\ Transparent
    BY <1>2 DEF Init, ReaderType, Ahead, Behind, Unbuffered, Unread, Transparent
  <1>4. QED
    BY <1>1, <1>3 DEF Inv

\* So does a reader made later.
LEMMA NewInv ==
  ASSUME NEW m \in BOOLEAN, NEW n \in Positions, new(m, n)
  PROVE  Inv'
  BY DEF new, Inv, ReaderType, Ahead, Behind, Unbuffered, Unread,
     PosSynchronous, Transparent

\* seek() moves pos and the inner reader together.
LEMMA SeekInv ==
  ASSUME Inv, NEW p \in Positions, NEW s \in {"read", "buf_read"},
         style = "new", seek(p, s)
  PROVE  Inv'
  <1>1. /\ style' = s /\ inner_pos' = p /\ next' = p /\ pos' = p
        /\ buffer' = buffer /\ got' = got /\ mask' = mask
        /\ p \in Nat
    BY XorAssumption DEF seek, Positions
  <1>2. buffer = <<>>
    BY DEF Inv, Unbuffered, seek
  <1>3. got = <<>>
    BY DEF Inv, Unread, seek
  <1>4. QED
    BY <1>1, <1>2, <1>3 DEF Inv, ReaderType, Ahead, Behind, Unbuffered, Unread,
       PosSynchronous, Transparent

\* read() gives the consumer the bytes up to the new position.
LEMMA ReadInv ==
  ASSUME Inv, NEW size \in Positions, style = "read", read(size)
  PROVE  Inv'
  <1>1. size \in Nat
    BY XorAssumption DEF Positions
  <1>2. ReaderType /\ PosSynchronous /\ buffer = <<>> /\ style = "read"
    BY DEF Inv, Unbuffered, read
  <1>3. /\ inner_pos' = inner_pos + size
        /\ pos' = IF mask THEN pos + size ELSE pos
        /\ got' = Chunk(size)
        /\ next' = inner_pos + size
        /\ style' = style /\ buffer' = buffer /\ mask' = mask
    BY DEF read, Consume
  <1>4. /\ got' \in Seq(Nat \X Int)
        /\ Len(got') = size
        /\ \A j \in 1 .. size :
             got'[j] = <<inner_pos + j - 1, KeyAt(inner_pos + j - 1)>>
    BY <1>1, <1>2, <1>3, ChunkBytes
  <1>5. ReaderType' /\ Ahead' /\ Behind' /\ Unbuffered' /\ Unread'
    BY <1>1, <1>2, <1>3, <1>4 DEF ReaderType, Ahead, Behind, Unbuffered, Unread
  <1>6. PosSynchronous'
    BY <1>2, <1>3 DEF PosSynchronous
  <1>7. Transparent'
    <2>1. DOMAIN got' = 1 .. size
      BY <1>4
    <2>2. \A j \in 1 .. size : next' - Len(got') + j - 1 = inner_pos + j - 1
      BY <1>1, <1>2, <1>3, <1>4 DEF ReaderType
    <2>3. DOMAIN buffer' = {}
      BY <1>2, <1>3
    <2>4. \A j \in DOMAIN got' :
            got'[j] = <<next' - Len(got') + j - 1, KeyAt(next' - Len(got') + j - 1)>>
      BY <1>4, <2>1, <2>2
    <2>5. QED
      BY <1>3, <2>3, <2>4 DEF Transparent, KeyAt
  <1>8. QED
    BY <1>5, <1>6, <1>7 DEF Inv

\* fill_buf() puts the bytes that follow into an empty buffer.
LEMMA FillBufInv ==
  ASSUME Inv, NEW size \in Positions, style = "buf_read", fill_buf(size)
  PROVE  Inv'
  <1>1. size \in Nat
    BY XorAssumption DEF Positions
  <1>2. ReaderType /\ PosSynchronous /\ buffer = <<>> /\ style = "buf_read" /\ next = inner_pos
    BY DEF Inv, Ahead, ReaderType, fill_buf
  <1>3. /\ inner_pos' = inner_pos + size
        /\ pos' = IF mask THEN pos + size ELSE pos
        /\ buffer' = Chunk(size)
        /\ next' = next /\ style' = style /\ got' = got /\ mask' = mask
    BY DEF fill_buf, Consume
  <1>4. /\ buffer' \in Seq(Nat \X Int)
        /\ Len(buffer') = size
        /\ \A j \in 1 .. size :
             buffer'[j] = <<inner_pos + j - 1, KeyAt(inner_pos + j - 1)>>
    BY <1>1, <1>2, <1>3, ChunkBytes
  <1>5. ReaderType' /\ Ahead' /\ Behind' /\ Unbuffered' /\ Unread'
    BY <1>1, <1>2, <1>3, <1>4 DEF Inv, ReaderType, Ahead, Behind, Unbuffered, Unread
  <1>6. PosSynchronous'
    BY <1>2, <1>3 DEF PosSynchronous
  <1>7. Transparent'
    <2>1. DOMAIN buffer' = 1 .. size
      BY <1>4
    <2>2. \A j \in DOMAIN buffer' :
            buffer'[j] = <<next' + j - 1, KeyAt(next' + j - 1)>>
      BY <1>2, <1>3, <1>4, <2>1
    <2>3. QED
      BY <1>3, <2>2 DEF Inv, Transparent, KeyAt
  <1>8. QED
    BY <1>5, <1>6, <1>7 DEF Inv

\* consume() gives the consumer the front of the buffer.
LEMMA ConsumeInv ==
  ASSUME Inv, NEW amt \in Positions, style = "buf_read", consume(amt)
  PROVE  Inv'
  <1>1. amt \in 1 .. Len(buffer) /\ amt \in Nat /\ Len(buffer) \in Nat
    BY DEF consume, Inv, ReaderType
  <1>2. /\ got' = SubSeq(buffer, 1, amt)
        /\ buffer' = SubSeq(buffer, amt + 1, Len(buffer))
        /\ next' = next + amt
        /\ style = "buf_read" /\ style' = style /\ mask' = mask
        /\ inner_pos' = inner_pos /\ pos' = pos
    BY DEF consume
  <1>3. /\ got' \in Seq(Nat \X Int)
        /\ Len(got') = amt
        /\ \A j \in 1 .. amt : got'[j] = buffer[j]
    BY <1>1, <1>2 DEF Inv, ReaderType
  <1>4. /\ buffer' \in Seq(Nat \X Int)
        /\ Len(buffer') = Len(buffer) - amt
        /\ \A j \in 1 .. Len(buffer) - amt : buffer'[j] = buffer[amt + j]
    <2>1. buffer \in Seq(Nat \X Int)
      BY DEF Inv, ReaderType
    <2>2. /\ amt + 1 \in 1 .. Len(buffer) + 1 /\ Len(buffer) \in amt .. Len(buffer)
          /\ (amt + 1) - 1 = amt /\ Len(buffer) - (amt + 1) + 1 = Len(buffer) - amt
      BY <1>1
    <2>3. SubSeq(buffer, amt + 1, Len(buffer)) \in Seq(Nat \X Int)
      <3>1. \A i \in amt + 1 .. Len(buffer) : buffer[i] \in Nat \X Int
        BY <2>1, <1>1
      <3>2. amt + 1 \in Int /\ Len(buffer) \in Int
        BY <1>1
      <3>3. QED
        BY <3>1, <3>2, SubSeqProperties
    <2>4. Len(SubSeq(buffer, amt + 1, Len(buffer))) = Len(buffer) - amt
      <3>1. \A i \in amt + 1 .. Len(buffer) : buffer[i] \in Nat \X Int
        BY <2>1, <1>1
      <3>2. amt + 1 \in Int /\ Len(buffer) \in Int
        BY <1>1
      <3>3. Len(SubSeq(buffer, amt + 1, Len(buffer))) =
              IF amt + 1 <= Len(buffer) THEN Len(buffer) - (amt + 1) + 1 ELSE 0
        BY <3>1, <3>2, SubSeqProperties
      <3>4. QED
        BY <1>1, <3>3
    <2>5. ASSUME NEW j \in 1 .. Len(buffer) - amt
          PROVE  SubSeq(buffer, amt + 1, Len(buffer))[j] = buffer[amt + j]
      <3>1. (amt + 1) + j - 1 = amt + j
        BY <1>1
      <3>2. QED
        BY <2>1, <2>2, <1>1, <3>1, SubSeqProperties
    <2>6. QED
      BY <1>2, <2>3, <2>4, <2>5
  <1>5. ReaderType' /\ Ahead' /\ Behind' /\ Unbuffered' /\ Unread'
    <2>1. next + Len(buffer) = inner_pos /\ next \in Nat /\ Len(got) <= next
      BY DEF Inv, Ahead, Behind, ReaderType
    <2>2. next' \in Nat /\ next' + Len(buffer') = inner_pos' /\ Len(got') <= next'
      <3>1. next' = next + amt /\ inner_pos' = inner_pos
        BY <1>2
      <3>2. Len(buffer') = Len(buffer) - amt /\ Len(got') = amt
        BY <1>3, <1>4
      <3>3. amt \in Nat /\ Len(buffer) \in Nat
        BY <1>1
      <3>4. QED
        BY <2>1, <3>1, <3>2, <3>3
    <2>3. ReaderType'
      BY <1>2, <1>3, <1>4, <2>2 DEF Inv, ReaderType
    <2>4. QED
      BY <1>2, <2>2, <2>3 DEF Ahead, Behind, Unbuffered, Unread
  <1>6. PosSynchronous'
    BY <1>2 DEF Inv, PosSynchronous
  <1>7. Transparent'
    <2>1. \A j \in 1 .. Len(buffer) : buffer[j] = <<next + j - 1, KeyAt(next + j - 1)>>
      BY DEF Inv, Transparent, ReaderType
    <2>2. ASSUME NEW j \in DOMAIN got'
          PROVE  got'[j] = <<next' - Len(got') + j - 1, KeyAt(next' - Len(got') + j - 1)>>
      <3>1. j \in 1 .. amt /\ j \in 1 .. Len(buffer)
        BY <1>1, <1>3
      <3>2. next' - Len(got') + j - 1 = next + j - 1
        BY <1>1, <1>2, <1>3, <3>1 DEF Inv, ReaderType
      <3>3. QED
        BY <1>3, <2>1, <3>1, <3>2
    <2>3. ASSUME NEW j \in DOMAIN buffer'
          PROVE  buffer'[j] = <<next' + j - 1, KeyAt(next' + j - 1)>>
      <3>1. j \in 1 .. Len(buffer) - amt /\ amt + j \in 1 .. Len(buffer)
        BY <1>1, <1>4
      <3>2. next' + j - 1 = next + (amt + j) - 1
        BY <1>1, <1>2, <3>1 DEF Inv, ReaderType
      <3>3. QED
        BY <1>4, <2>1, <3>1, <3>2
    <2>4. QED
      BY <1>2, <2>2, <2>3 DEF Transparent, KeyAt
  <1>8. QED
    BY <1>5, <1>6, <1>7 DEF Inv

-----------------------------------------------------------------------------
\* Every step of the reader keeps the invariant.
LEMMA NextInv ==
  ASSUME Inv, [Next]_vars
  PROVE  Inv'
  <1>1. CASE UNCHANGED vars
    BY <1>1 DEF vars, Inv, ReaderType, Ahead, Behind, Unbuffered, Unread,
       PosSynchronous, Transparent, KeyAt
  <1>2. CASE Next
    BY <1>2, NewInv, SeekInv, ReadInv, FillBufInv, ConsumeInv DEF Next
  <1>3. QED
    BY <1>1, <1>2

(***************************************************************************)
(* XorReader is the "transparent reader" of src/src/parser/xor.rs:12.      *)
(***************************************************************************)
THEOREM ReaderTransparent == Spec => []Transparent
  <1>1. Inv => Transparent
    BY DEF Inv
  <1>2. QED
    BY <1>1, InitInv, NextInv, PTL DEF Spec

(***************************************************************************)
(* The field pos is the position of the file whenever it is used           *)
(* (src/src/parser/xor.rs:16), for every sequence of calls.                *)
(***************************************************************************)
THEOREM PosFollowsFile == Spec => []PosSynchronous
  <1>1. Inv => PosSynchronous
    BY DEF Inv
  <1>2. QED
    BY <1>1, InitInv, NextInv, PTL DEF Spec
-----------------------------------------------------------------------------
(* The calls of blk_file.rs.                                               *)

\* What the index of the files and the request can be.
IndexKnown ==
  /\ dir \in Dirs /\ todo \subseteq dir.entries
  /\ xor_mask \in BOOLEAN
  /\ \A f \in files : f[2].id \in DOMAIN Contents

\* How far the reader of a call is.
ReaderReady ==
  /\ pc # "idle" => phase = "ready"
  /\ pc \in {"open", "seek"} => request \in Requests
  /\ pc = "open" => F!HasFile(request.n_file)
  /\ pc = "seek" => style = "new"
  /\ pc \in {"length", "body", "tx"} => style \in {"read", "buf_read"}

CallInv == IndexKnown /\ ReaderReady

\* A step of the scan only adds paths of the directory.
LEMMA ScanKeepsIndex ==
  ASSUME IndexKnown, F!Next
  PROVE  IndexKnown'
  <1>1. CASE F!read_xor_mask
    BY <1>1 DEF IndexKnown, F!read_xor_mask
  <1>2. CASE \E e \in todo : F!scan_entry(e)
    <2>1. PICK e \in todo : F!scan_entry(e)
      BY <1>2
    <2>2. F!resolve_path(e).id \in DOMAIN Contents
      BY ReadAssumption DEF IndexKnown, F!resolve_path
    <2>3. \A f \in files' : f \in files \/ f[2] = F!resolve_path(e)
      BY <2>1 DEF F!scan_entry, F!insert
    <2>4. todo' \subseteq dir.entries /\ dir' = dir /\ xor_mask' = xor_mask
      BY <2>1 DEF F!scan_entry, IndexKnown
    <2> QED
      BY <2>2, <2>3, <2>4 DEF IndexKnown
  <1>3. CASE F!scan_err
    BY <1>3 DEF IndexKnown, F!scan_err
  <1>4. CASE F!scan_done
    BY <1>4 DEF IndexKnown, F!scan_done
  <1>5. CASE F!stay
    BY <1>5 DEF IndexKnown, F!stay, F!vars
  <1> QED
    BY <1>1, <1>2, <1>3, <1>4, <1>5 DEF F!Next

\* The file that is opened has a length.
LEMMA FileHasSize ==
  ASSUME IndexKnown, NEW i, F!HasFile(i)
  PROVE  Contents[F!File(i)].size \in Positions
  <1>1. (CHOOSE f \in files : f[1] = i) \in files
    BY DEF F!HasFile
  <1>2. F!File(i) \in DOMAIN Contents
    BY <1>1 DEF IndexKnown, F!File
  <1> QED
    BY <1>2, ReadAssumption

LEMMA CallInitInv == ReadInit => CallInv
  <1> SUFFICES ASSUME ReadInit PROVE CallInv
    OBVIOUS
  <1>1. IndexKnown
    BY DEF ReadInit, F!Init, IndexKnown
  <1>2. pc = "idle"
    BY DEF ReadInit
  <1> QED
    BY <1>1, <1>2 DEF CallInv, ReaderReady

\* The scan of the directory runs before any call.
LEMMA ScanStep ==
  ASSUME CallInv, phase # "ready", F!Next, UNCHANGED <<reader_vars, pc, call_vars>>
  PROVE  CallInv' /\ [Next]_vars
  <1>1. IndexKnown'
    BY ScanKeepsIndex DEF CallInv
  <1>2. UNCHANGED vars
    BY DEF reader_vars
  <1>3. ReaderReady'
    BY DEF CallInv, ReaderReady
  <1> QED
    BY <1>1, <1>2, <1>3 DEF CallInv

\* A new reader is made of the file that was found.
LEMMA OpenStep ==
  ASSUME CallInv, open_file
  PROVE  CallInv' /\ [Next]_vars
  <1>1. opened' = F!File(request.n_file) /\ new(xor_mask, Contents[opened'].size)
    BY DEF open_file
  <1>2. xor_mask \in BOOLEAN /\ Contents[opened'].size \in Positions
    BY <1>1, FileHasSize DEF CallInv, IndexKnown, ReaderReady, open_file
  <1>3. Next
    BY <1>1, <1>2 DEF Next
  <1>4. style' = "new"
    BY <1>1 DEF new
  <1>5. IndexKnown' /\ ReaderReady'
    BY <1>4 DEF CallInv, IndexKnown, ReaderReady, open_file, file_vars
  <1> QED
    BY <1>3, <1>5 DEF CallInv

\* The one seek of a reader.
LEMMA SeekStep ==
  ASSUME CallInv,
         seek_block \/ \E s \in {"read", "buf_read"} : seek_tx(s)
  PROVE  CallInv' /\ [Next]_vars
  <1>1. /\ style = "new" /\ request \in Requests /\ phase = "ready"
        /\ UNCHANGED <<file_vars, request>>
        /\ pc' \in {"length", "tx"}
    BY DEF CallInv, ReaderReady, seek_block, seek_tx
  <1>2. PICK p \in Positions, s \in {"read", "buf_read"} : seek(p, s)
    <2>1. CASE seek_block
      BY <2>1, <1>1, ReadAssumption DEF seek_block
    <2>2. CASE \E s \in {"read", "buf_read"} : seek_tx(s)
      BY <2>2, <1>1, ReadAssumption DEF seek_tx
    <2> QED
      BY <2>1, <2>2
  <1>3. Next
    BY <1>1, <1>2 DEF Next
  <1>4. style' \in {"read", "buf_read"}
    BY <1>2 DEF seek
  <1>5. IndexKnown' /\ ReaderReady'
    BY <1>1, <1>4 DEF CallInv, IndexKnown, ReaderReady, file_vars
  <1> QED
    BY <1>3, <1>5 DEF CallInv

\* Reading goes on as it began.
LEMMA ReadStep ==
  ASSUME CallInv,
         \/ \E n \in 1 .. MaxPos : read_some(n) \/ fill_some(n) \/ take_some(n)
         \/ end_of_file
  PROVE  CallInv' /\ [Next]_vars
  <1>1. /\ style \in {"read", "buf_read"} /\ phase = "ready"
        /\ UNCHANGED <<file_vars, request>>
        /\ pc' = pc \/ pc' = "done"
        /\ pc \in {"length", "body", "tx"}
    BY DEF CallInv, ReaderReady, Reading, read_some, fill_some, take_some,
       end_of_file, answer, call_vars
  <1>2. style' = style /\ Next
    <2>1. CASE \E n \in 1 .. MaxPos : read_some(n) \/ fill_some(n) \/ take_some(n)
      <3>1. PICK n \in 1 .. MaxPos : read_some(n) \/ fill_some(n) \/ take_some(n)
        BY <2>1
      <3>2. n \in Positions
        BY XorAssumption DEF Positions
      <3> QED
        BY <3>1, <3>2 DEF Next, read_some, fill_some, take_some, read, fill_buf, consume
    <2>2. CASE end_of_file
      <3>1. 0 \in Positions
        BY XorAssumption DEF Positions
      <3> QED
        BY <2>2, <1>1, <3>1 DEF Next, end_of_file, read, fill_buf
    <2> QED
      BY <2>1, <2>2
  <1>3. IndexKnown' /\ ReaderReady'
    BY <1>1, <1>2 DEF CallInv, IndexKnown, ReaderReady, file_vars
  <1> QED
    BY <1>2, <1>3 DEF CallInv

\* What else happens leaves the reader alone.
LEMMA QuietStep ==
  ASSUME CallInv,
         \/ \E req \in Requests : call(req)
         \/ got_length \/ finish \/ io_err
         \/ UNCHANGED read_vars
  PROVE  CallInv' /\ [Next]_vars
  <1>1. UNCHANGED <<reader_vars, file_vars>>
    BY DEF call, got_length, finish, io_err, answer, read_vars
  <1>2. IndexKnown'
    BY <1>1 DEF CallInv, IndexKnown, file_vars
  <1>3. ReaderReady'
    <2>1. CASE \E req \in Requests : call(req)
      BY <2>1, <1>1 DEF CallInv, ReaderReady, call, F!HasFile, file_vars
    <2>2. CASE got_length
      BY <2>2, <1>1 DEF CallInv, ReaderReady, got_length, file_vars, reader_vars, vars
    <2>3. CASE finish \/ io_err
      BY <2>3, <1>1 DEF CallInv, ReaderReady, Reading, finish, io_err, answer, file_vars
    <2>4. CASE UNCHANGED read_vars
      BY <2>4 DEF CallInv, ReaderReady, F!HasFile, read_vars, file_vars, reader_vars,
         vars, call_vars
    <2> QED
      BY <2>1, <2>2, <2>3, <2>4
  <1> QED
    BY <1>1, <1>2, <1>3 DEF CallInv, reader_vars

LEMMA CallNextInv ==
  ASSUME CallInv, [ReadNext]_read_vars
  PROVE  CallInv' /\ [Next]_vars
  BY ScanStep, OpenStep, SeekStep, ReadStep, QuietStep DEF ReadNext, Serve

(***************************************************************************)
(* Every call uses its reader as XorReader asks for, for all directories,  *)
(* files, requests and lengths of reads.                                   *)
(***************************************************************************)
THEOREM CallsKeepProtocol == ReadSpec => ReaderProtocol
  <1>1. ReadInit => Init
    BY DEF ReadInit
  <1> QED
    BY <1>1, CallInitInv, CallNextInv, PTL DEF ReadSpec, ReaderProtocol, Spec

(***************************************************************************)
(* So the bytes that a call is given are the right ones, in order, none    *)
(* twice and none left out.                                                *)
(***************************************************************************)
THEOREM CallsReadTransparently == ReadSpec => []Transparent
  BY CallsKeepProtocol, ReaderTransparent, PTL DEF ReaderProtocol
-----------------------------------------------------------------------------
(* The index of the files.                                                 *)

\* The entries that the scan has passed are indexed, each under its number;
\* the key is known once the scan begins.
ScanInv ==
  /\ files = {<<e.path.index, e.path>> : e \in F!Numbered \ todo}
  /\ phase = "ready" => todo = {}
  /\ phase # "xor" => xor_mask = (dir.xor = "mask")

LEMMA ScanInitInv == ReadInit => ScanInv
  <1> SUFFICES ASSUME ReadInit PROVE ScanInv
    OBVIOUS
  <1>1. files = {} /\ todo = dir.entries /\ phase = "xor"
    BY DEF ReadInit, F!Init
  <1>2. F!Numbered \ todo = {}
    BY <1>1 DEF F!Numbered
  <1> QED
    BY <1>1, <1>2 DEF ScanInv

\* One entry: a blk file goes in, and no other file had its number.
LEMMA ScanEntryInv ==
  ASSUME IndexKnown, ScanInv, NEW e \in todo, F!scan_entry(e)
  PROVE  ScanInv'
  <1>1. /\ e \in dir.entries /\ dir \in Dirs
        /\ phase = "scan" /\ todo' = todo \ {e}
        /\ UNCHANGED <<dir, phase, xor_mask>>
    BY DEF IndexKnown, F!scan_entry
  <1>2. F!resolve_path(e) = e.path
    BY <1>1, DirsAssumption
  <1>3. files' = IF e \in F!Numbered
                 THEN {f \in files : f[1] # e.path.index} \cup {<<e.path.index, e.path>>}
                 ELSE files
    BY <1>1, <1>2 DEF F!scan_entry, F!parse_blk_index, F!insert, F!Numbered
  <1>4. F!Numbered' = F!Numbered
    BY <1>1 DEF F!Numbered
  <1>5. CASE e \in F!Numbered
    <2>1. ASSUME NEW g \in F!Numbered \ todo
          PROVE  g.path.index # e.path.index
      BY <1>1, <1>5, DirsAssumption DEF F!Numbered
    <2>2. {f \in files : f[1] # e.path.index} = files
      BY <2>1 DEF ScanInv
    <2>3. F!Numbered \ todo' = (F!Numbered \ todo) \cup {e}
      BY <1>1, <1>5
    <2>4. files' = {<<g.path.index, g.path>> : g \in F!Numbered \ todo'}
      BY <1>3, <1>5, <2>2, <2>3 DEF ScanInv
    <2> QED
      BY <1>1, <1>4, <2>4 DEF ScanInv
  <1>6. CASE e \notin F!Numbered
    <2>1. F!Numbered \ todo' = F!Numbered \ todo
      BY <1>1, <1>6
    <2> QED
      BY <1>1, <1>3, <1>4, <1>6, <2>1 DEF ScanInv
  <1> QED
    BY <1>5, <1>6

\* Once the scan is over the index does not change.
LEMMA ScanNextInv ==
  ASSUME IndexKnown, ScanInv, [ReadNext]_read_vars
  PROVE  ScanInv'
  <1>1. CASE UNCHANGED file_vars
    BY <1>1 DEF ScanInv, F!Numbered, file_vars
  <1>2. CASE F!Next
    <2>1. CASE F!read_xor_mask
      BY <2>1 DEF F!read_xor_mask, ScanInv, F!Numbered
    <2>2. CASE \E e \in todo : F!scan_entry(e)
      BY <2>2, ScanEntryInv
    <2>3. CASE F!scan_err
      BY <2>3 DEF F!scan_err, ScanInv, F!Numbered
    <2>4. CASE F!scan_done
      BY <2>4 DEF F!scan_done, ScanInv, F!Numbered
    <2>5. CASE F!stay
      BY <2>5 DEF F!stay, F!vars, ScanInv, F!Numbered
    <2> QED
      BY <1>2, <2>1, <2>2, <2>3, <2>4, <2>5 DEF F!Next
  <1>3. UNCHANGED file_vars \/ F!Next
    BY DEF ReadNext, Serve, read_vars, call, open_file, seek_block, seek_tx, read_some,
       fill_some, take_some, end_of_file, got_length, finish, io_err, answer
  <1> QED
    BY <1>1, <1>2, <1>3

\* After the scan the index has the blk files and nothing else.
LEMMA IndexedFromInv ==
  ASSUME IndexKnown, ScanInv
  PROVE  AllFilesIndexed
  <1> SUFFICES ASSUME phase = "ready"
               PROVE  AllFilesIndexed
    BY DEF AllFilesIndexed, F!AllFilesIndexed
  <1>1. files = {<<e.path.index, e.path>> : e \in F!Numbered}
    BY DEF ScanInv
  <1>2. ASSUME NEW e \in F!Numbered
        PROVE  \E f \in files : f[1] = e.path.index /\ f[2].id = e.path.id
    <2>1. <<e.path.index, e.path>> \in files
      BY <1>1
    <2> QED
      BY <2>1
  <1>3. \A f \in files : \E e \in F!Numbered : f[1] = e.path.index /\ f[2].id = e.path.id
    BY <1>1
  <1> QED
    BY <1>2, <1>3 DEF AllFilesIndexed, F!AllFilesIndexed

(***************************************************************************)
(* "Scan `blocks` folder to build an index of all blk files"               *)
(* (src/src/parser/blk_file.rs:35): it does, for every directory in which  *)
(* numbers are unique and links lead to files of their own names, whatever *)
(* order read_dir returns the entries in.                                  *)
(***************************************************************************)
THEOREM IndexComplete == ReadSpec => []AllFilesIndexed
  <1>1. CallInv => IndexKnown
    BY DEF CallInv
  <1> QED
    BY <1>1, CallInitInv, CallNextInv, ScanInitInv, ScanNextInv, IndexedFromInv, PTL
    DEF ReadSpec

-----------------------------------------------------------------------------
(* What a call returns.                                                    *)

\* What the request is for, in the file that was opened.
Asked == {t \in Things(opened, request.kind) :
            t.pos = request.pos /\ t.offset = request.offset}

\* The bytes s are those of the file from position p on, rightly XORed.
Right(s, p) ==
  /\ s \in Seq(Nat \X Int)
  /\ \A j \in 1 .. Len(s) : s[j] = <<p + j - 1, KeyAt(p + j - 1)>>

\* The file of the request is open, with the key of the directory.
OpenRight ==
  pc \in {"seek", "length", "body", "tx"} =>
    /\ request \in Requests
    /\ \E e \in F!Numbered : e.path.index = request.n_file /\ opened = e.path.id
    /\ mask = (dir.xor = "mask")
    /\ len = Contents[opened].size

\* The bytes of one read_exact or decoder end where the reader stands.
BytesRight ==
  /\ pc \in {"open", "seek"} => bytes = <<>>
  /\ pc \in {"length", "body", "tx"} =>
       /\ want \in Nat /\ Len(bytes) <= want
       /\ Len(bytes) <= next /\ Right(bytes, next - Len(bytes))

\* They began at the length of the block, or at what was asked for.
BeganRight ==
  /\ pc \in {"length", "body"} => request.kind # "transaction"
  /\ pc = "tx" => request.kind = "transaction"
  /\ pc = "length" => want = 4 /\ next - Len(bytes) = request.pos - 4
  /\ pc \in {"body", "tx"} =>
       \A t \in Asked : want = t.size /\ next - Len(bytes) = t.at

ReplyInv == OpenRight /\ BytesRight /\ BeganRight /\ ReadsBack

\* All that is known in a state.
FullInv == Inv /\ CallInv /\ ScanInv /\ ReplyInv

-----------------------------------------------------------------------------
\* Things have places and sizes.
LEMMA ThingFacts ==
  ASSUME NEW id \in DOMAIN Contents, NEW kind, NEW t \in Things(id, kind)
  PROVE  /\ t.at \in Nat /\ t.size \in Nat /\ t.pos \in Nat /\ t.offset \in Nat
         /\ t.at = IF kind = "transaction" THEN t.pos + t.offset + HEADER_SIZE ELSE t.pos
  <1>1. CASE kind = "transaction"
    <2>0. PICK b \in Contents[id].blocks :
            \E x \in b.txs : t = [at |-> b.pos + HEADER_SIZE + x.offset, size |-> x.size,
                                  pos |-> b.pos, offset |-> x.offset]
      BY <1>1 DEF Things
    <2>1. PICK x \in b.txs :
            t = [at |-> b.pos + HEADER_SIZE + x.offset, size |-> x.size,
                 pos |-> b.pos, offset |-> x.offset]
      BY <2>0
    <2>2. /\ b.pos \in Nat /\ x.offset \in Nat /\ x.size \in Nat /\ HEADER_SIZE \in Nat
      BY WrittenAssumption
    <2> QED
      BY <1>1, <2>1, <2>2
  <1>2. CASE kind # "transaction"
    <2>1. PICK b \in Contents[id].blocks :
            t = [at |-> b.pos, size |-> b.size, pos |-> b.pos, offset |-> 0]
      BY <1>2 DEF Things
    <2>2. b.pos \in Nat /\ b.size \in Nat
      BY WrittenAssumption
    <2> QED
      BY <1>2, <2>1, <2>2
  <1> QED
    BY <1>1, <1>2

\* Where a thing starts says how long it is.
LEMMA OneSize ==
  ASSUME NEW id \in DOMAIN Contents, NEW kind,
         NEW t1 \in Things(id, kind), NEW t2 \in Things(id, kind), t1.at = t2.at
  PROVE  t1.size = t2.size
  <1>1. CASE kind = "transaction"
    BY <1>1, WrittenAssumption
  <1>2. CASE kind # "transaction"
    <2>1. Things(id, kind) = Things(id, "block")
      BY <1>2 DEF Things
    <2> QED
      BY <2>1, WrittenAssumption
  <1> QED
    BY <1>1, <1>2

\* A number has one file, and the index of a finished scan leads to it.
LEMMA OneEntry ==
  ASSUME IndexKnown, NEW e1 \in F!Numbered, NEW e2 \in F!Numbered,
         e1.path.index = e2.path.index
  PROVE  e1 = e2
  BY DirsAssumption DEF IndexKnown, F!Numbered

LEMMA EntryOf ==
  ASSUME ScanInv, phase = "ready", NEW i
  PROVE  /\ F!HasFile(i) <=> \E e \in F!Numbered : e.path.index = i
         /\ F!HasFile(i) => \E e \in F!Numbered : e.path.index = i /\ F!File(i) = e.path.id
  <1>1. files = {<<e.path.index, e.path>> : e \in F!Numbered}
    BY DEF ScanInv
  <1>2. ASSUME NEW e \in F!Numbered, e.path.index = i
        PROVE  F!HasFile(i)
    <2>1. <<e.path.index, e.path>> \in files
      BY <1>1
    <2> QED
      BY <1>2, <2>1 DEF F!HasFile
  <1>3. ASSUME F!HasFile(i)
        PROVE  \E e \in F!Numbered : e.path.index = i /\ F!File(i) = e.path.id
    <2> DEFINE f == CHOOSE f \in files : f[1] = i
    <2>1. f \in files /\ f[1] = i
      BY <1>3 DEF F!HasFile
    <2>2. F!File(i) = f[2].id
      BY DEF F!File
    <2> HIDE DEF f
    <2>3. PICK e \in F!Numbered : f = <<e.path.index, e.path>>
      BY <1>1, <2>1
    <2> QED
      BY <2>1, <2>2, <2>3
  <1> QED
    BY <1>2, <1>3

\* The request is for something of the file that is open.
LEMMA AskedFacts ==
  ASSUME IndexKnown, OpenRight, pc \in {"seek", "length", "body", "tx"}
  PROVE  /\ Asked # {} /\ opened \in DOMAIN Contents
         /\ request.pos \in Nat /\ request.offset \in Nat /\ HEADER_SIZE \in Nat
         /\ \A t \in Asked :
              /\ t.at \in Nat /\ t.size \in Nat
              /\ t.at = IF request.kind = "transaction"
                        THEN request.pos + request.offset + HEADER_SIZE ELSE request.pos
         /\ \A t1, t2 \in Asked : t1.at = t2.at /\ t1.size = t2.size
         /\ \A e \in F!Numbered : e.path.index = request.n_file => e.path.id = opened
  <1>1. PICK e \in F!Numbered : e.path.index = request.n_file /\ opened = e.path.id
    BY DEF OpenRight
  <1>2. /\ request \in Requests /\ dir \in Dirs /\ e \in dir.entries
        /\ e.path.index # NoIndex /\ e.path.file
    BY DEF OpenRight, IndexKnown, F!Numbered
  <1>3. opened \in DOMAIN Contents
    BY <1>1, <1>2, ReadAssumption
  <1>4. Asked # {}
    BY <1>1, <1>2, WrittenAssumption DEF Asked
  <1>5. ASSUME NEW t \in Asked
        PROVE  /\ t.at \in Nat /\ t.size \in Nat
               /\ request.pos \in Nat /\ request.offset \in Nat
               /\ t.at = IF request.kind = "transaction"
                         THEN request.pos + request.offset + HEADER_SIZE ELSE request.pos
    BY <1>3, ThingFacts DEF Asked
  <1>6. ASSUME NEW t1 \in Asked, NEW t2 \in Asked
        PROVE  t1.at = t2.at /\ t1.size = t2.size
    <2>1. t1.at = t2.at
      BY <1>5
    <2>2. t1 \in Things(opened, request.kind) /\ t2 \in Things(opened, request.kind)
      BY DEF Asked
    <2> QED
      BY <1>3, <2>1, <2>2, OneSize
  <1>7. \A g \in F!Numbered : g.path.index = request.n_file => g.path.id = opened
    BY <1>1, OneEntry
  <1>8. HEADER_SIZE \in Nat
    BY WrittenAssumption
  <1> QED
    BY <1>3, <1>4, <1>5, <1>6, <1>7, <1>8

\* Bytes that are right with the key of the directory are as written.
LEMMA RightIsWritten ==
  ASSUME NEW p \in Nat, NEW s, Right(s, p), mask = (dir.xor = "mask")
  PROVE  s = Written(p, Len(s))
  <1>1. s \in Seq(Nat \X Int) /\ DOMAIN s = 1 .. Len(s) /\ s = [j \in 1 .. Len(s) |-> s[j]]
    BY DEF Right
  <1>2. \A j \in 1 .. Len(s) :
          s[j] = <<p + j - 1, IF dir.xor = "mask" THEN (p + j - 1) % MaskLen ELSE NoKey>>
    BY DEF Right, KeyAt
  <1> QED
    BY <1>1, <1>2 DEF Written

\* What is read next goes on with the bytes.
LEMMA RightGoesOn ==
  ASSUME NEW s, NEW g, NEW p \in Nat, Right(s, p), Right(g, p + Len(s))
  PROVE  Right(s \o g, p) /\ Len(s \o g) = Len(s) + Len(g)
  <1>1. s \in Seq(Nat \X Int) /\ g \in Seq(Nat \X Int)
    BY DEF Right
  <1>2. /\ s \o g \in Seq(Nat \X Int) /\ Len(s \o g) = Len(s) + Len(g)
        /\ Len(s) \in Nat /\ Len(g) \in Nat
    BY <1>1
  <1>3. ASSUME NEW j \in 1 .. Len(s \o g)
        PROVE  (s \o g)[j] = <<p + j - 1, KeyAt(p + j - 1)>>
    <2>1. CASE j <= Len(s)
      <3>1. (s \o g)[j] = s[j] /\ j \in 1 .. Len(s)
        BY <1>1, <1>2, <2>1
      <3> QED
        BY <3>1 DEF Right
    <2>2. CASE j > Len(s)
      <3>1. (s \o g)[j] = g[j - Len(s)] /\ j - Len(s) \in 1 .. Len(g)
        BY <1>1, <1>2, <2>2
      <3>2. (p + Len(s)) + (j - Len(s)) - 1 = p + j - 1
        BY <1>2
      <3>3. g[j - Len(s)] =
              <<(p + Len(s)) + (j - Len(s)) - 1, KeyAt((p + Len(s)) + (j - Len(s)) - 1)>>
        BY <3>1 DEF Right
      <3> QED
        BY <3>1, <3>2, <3>3
    <2>3. j \in Nat /\ Len(s) \in Nat
      BY <1>2
    <2> QED
      BY <2>1, <2>2, <2>3
  <1> QED
    BY <1>2, <1>3 DEF Right

-----------------------------------------------------------------------------
\* No call has begun.
LEMMA ReplyInitInv == ReadInit => ReplyInv
  <1> SUFFICES ASSUME ReadInit PROVE ReplyInv
    OBVIOUS
  <1>1. pc = "idle"
    BY DEF ReadInit
  <1> QED
    BY <1>1 DEF ReplyInv, OpenRight, BytesRight, BeganRight, ReadsBack

\* The scan is over when the first call comes.
LEMMA ScanKeepsReply ==
  ASSUME FullInv, phase # "ready", UNCHANGED <<reader_vars, pc, call_vars>>
  PROVE  ReplyInv'
  <1>1. pc' = "idle"
    BY DEF FullInv, CallInv, ReaderReady
  <1> QED
    BY <1>1 DEF ReplyInv, OpenRight, BytesRight, BeganRight, ReadsBack

\* A file that is not found is not there.
LEMMA CallReply ==
  ASSUME FullInv, NEW req \in Requests, call(req)
  PROVE  ReplyInv'
  <1>1. /\ phase = "ready" /\ request' = req /\ bytes' = <<>>
        /\ UNCHANGED file_vars
    BY DEF call
  <1>2. F!Numbered' = F!Numbered
    BY <1>1 DEF F!Numbered, file_vars
  <1>3. CASE F!HasFile(req.n_file)
    <2>1. pc' = "open"
      BY <1>3 DEF call
    <2> QED
      BY <1>1, <2>1 DEF ReplyInv, OpenRight, BytesRight, BeganRight, ReadsBack
  <1>4. CASE ~F!HasFile(req.n_file)
    <2>1. pc' = "done" /\ reply' = [ok |-> FALSE, why |-> "BlockFileNotFound"]
      BY <1>4 DEF call, Fail
    <2>2. {e \in F!Numbered : e.path.index = req.n_file} = {}
      BY <1>1, <1>4, EntryOf DEF FullInv
    <2>3. reply'.ok = FALSE /\ reply'.why = "BlockFileNotFound"
      BY <2>1
    <2>4. ReadsBack'
      BY <1>1, <1>2, <2>2, <2>3 DEF ReadsBack
    <2> QED
      BY <2>1, <2>4 DEF ReplyInv, OpenRight, BytesRight, BeganRight
  <1> QED
    BY <1>3, <1>4

\* The reader is over the file of the request, with the key that was read.
LEMMA OpenReply ==
  ASSUME FullInv, open_file
  PROVE  ReplyInv'
  <1>1. /\ pc = "open" /\ pc' = "seek"
        /\ opened' = F!File(request.n_file)
        /\ mask' = xor_mask /\ len' = Contents[opened'].size
        /\ UNCHANGED <<dir, request, bytes>>
    BY DEF open_file, new, file_vars
  <1>2. phase = "ready" /\ request \in Requests /\ F!HasFile(request.n_file)
    BY <1>1 DEF FullInv, CallInv, ReaderReady
  <1>3. \E e \in F!Numbered : e.path.index = request.n_file /\ opened' = e.path.id
    BY <1>1, <1>2, EntryOf DEF FullInv
  <1>4. F!Numbered' = F!Numbered
    BY <1>1 DEF F!Numbered
  <1>5. mask' = (dir'.xor = "mask")
    BY <1>1, <1>2 DEF FullInv, ScanInv
  <1>6. OpenRight'
    BY <1>1, <1>2, <1>3, <1>4, <1>5 DEF OpenRight
  <1>7. BytesRight'
    BY <1>1 DEF FullInv, ReplyInv, BytesRight
  <1> QED
    BY <1>1, <1>6, <1>7 DEF ReplyInv, BeganRight, ReadsBack

\* What stays as it is while a file is open.
LEMMA OpenStays ==
  ASSUME FullInv, pc \in {"seek", "length", "body", "tx"},
         UNCHANGED <<file_vars, request, opened, mask, len>>
  PROVE  OpenRight' /\ Asked' = Asked
  BY DEF FullInv, ReplyInv, OpenRight, Asked, F!Numbered, file_vars

\* The length of a block stands before it.
LEMMA SeekBlockReply ==
  ASSUME FullInv, seek_block
  PROVE  ReplyInv'
  <1>1. /\ pc = "seek" /\ pc' = "length" /\ want' = 4
        /\ request.kind # "transaction" /\ request \in Requests
        /\ next' = request.pos - 4 /\ bytes' = bytes
        /\ UNCHANGED <<file_vars, request, opened, mask, len>>
    BY DEF seek_block, seek, FullInv, ReplyInv, OpenRight
  <1>2. OpenRight'
    BY <1>1, OpenStays
  <1>3. bytes' = <<>> /\ Len(bytes') = 0
    BY <1>1 DEF FullInv, ReplyInv, BytesRight
  <1>4. request.pos - 4 \in Nat
    BY <1>1, ReadAssumption, XorAssumption DEF Positions
  <1>5. BytesRight'
    BY <1>1, <1>3, <1>4 DEF BytesRight, Right
  <1>6. BeganRight'
    BY <1>1, <1>3, <1>4 DEF BeganRight
  <1> QED
    BY <1>1, <1>2, <1>5, <1>6 DEF ReplyInv, ReadsBack

\* The decoder asks for the transaction that starts there.
LEMMA SeekTxReply ==
  ASSUME FullInv, NEW s \in {"read", "buf_read"}, seek_tx(s)
  PROVE  ReplyInv'
  <1> DEFINE p == request.pos + request.offset + HEADER_SIZE
  <1>1. /\ pc = "seek" /\ pc' = "tx" /\ want' \in TxSize(p)
        /\ request.kind = "transaction"
        /\ next' = p /\ bytes' = bytes
        /\ UNCHANGED <<file_vars, request, opened, mask, len>>
    BY DEF seek_tx, seek
  <1>2. OpenRight' /\ Asked' = Asked
    BY <1>1, OpenStays
  <1>3. IndexKnown /\ OpenRight
    BY DEF FullInv, CallInv, ReplyInv
  <1>4. bytes' = <<>> /\ Len(bytes') = 0
    BY <1>1 DEF FullInv, ReplyInv, BytesRight
  <1>5. p \in Nat
    BY <1>1, <1>3, AskedFacts
  <1>6. ASSUME NEW t \in Asked
        PROVE  want' = t.size /\ t.at = p /\ t.size \in Nat
    <2>1. t.at = p /\ t.size \in Nat /\ t \in Things(opened, "transaction")
          /\ opened \in DOMAIN Contents
      BY <1>1, <1>3, AskedFacts DEF Asked
    <2>2. \A u \in Things(opened, "transaction") : u.at = p => u.size = t.size
      BY <2>1, OneSize
    <2>3. TxSize(p) = {t.size}
      <3> HIDE DEF p
      <3> QED
        BY <2>1, <2>2 DEF TxSize
    <2> QED
      BY <1>1, <2>1, <2>3
  <1>7. Asked # {}
    BY <1>1, <1>3, AskedFacts
  <1>8. want' \in Nat
    BY <1>6, <1>7
  <1> HIDE DEF p
  <1>9. BytesRight'
    BY <1>1, <1>4, <1>5, <1>8 DEF BytesRight, Right
  <1>10. BeganRight'
    BY <1>1, <1>2, <1>4, <1>5, <1>6 DEF BeganRight
  <1> QED
    BY <1>1, <1>2, <1>9, <1>10 DEF ReplyInv, ReadsBack

\* The bytes of one more read go on where the bytes before them ended.
LEMMA GivenReply ==
  ASSUME FullInv, Inv', pc \in {"length", "body", "tx"},
         Len(got') <= Missing, next' = next + Len(got'), bytes' = bytes \o got',
         UNCHANGED <<file_vars, pc, request, opened, want, mask, len>>
  PROVE  ReplyInv'
  <1>1. OpenRight' /\ Asked' = Asked
    BY OpenStays
  <1>2. /\ want \in Nat /\ Len(bytes) <= want /\ Len(bytes) <= next
        /\ Right(bytes, next - Len(bytes)) /\ bytes \in Seq(Nat \X Int)
        /\ next \in Nat
    BY DEF FullInv, ReplyInv, BytesRight, Right, Inv, ReaderType
  <1>3. /\ Len(bytes) \in Nat /\ next - Len(bytes) \in Nat
        /\ (next - Len(bytes)) + Len(bytes) = next
    BY <1>2
  <1>4. got' \in Seq(Nat \X Int) /\ Len(got') \in Nat
    BY DEF Inv, ReaderType
  <1>5. Right(got', next)
    <2>1. \A j \in 1 .. Len(got') :
            got'[j] = <<next' - Len(got') + j - 1, KeyAt(next' - Len(got') + j - 1)>>
      BY <1>4 DEF Inv, Transparent, KeyAt
    <2>2. next' - Len(got') = next
      BY <1>2, <1>4
    <2> QED
      BY <1>4, <2>1, <2>2 DEF Right
  <1>6. Right(bytes', next - Len(bytes)) /\ Len(bytes') = Len(bytes) + Len(got')
    BY <1>2, <1>3, <1>5, RightGoesOn
  <1>7. /\ Len(bytes') <= want /\ Len(bytes') <= next'
        /\ next' - Len(bytes') = next - Len(bytes)
    BY <1>2, <1>3, <1>4, <1>6 DEF Missing
  <1>8. BytesRight'
    BY <1>2, <1>6, <1>7 DEF BytesRight, Right, KeyAt
  <1>9. BeganRight'
    BY <1>1, <1>7 DEF FullInv, ReplyInv, BeganRight
  <1> QED
    BY <1>1, <1>8, <1>9 DEF ReplyInv, ReadsBack

LEMMA ReadReply ==
  ASSUME FullInv, Inv', NEW n \in 1 .. MaxPos,
         read_some(n) \/ fill_some(n) \/ take_some(n)
  PROVE  ReplyInv'
  <1>1. n \in Nat /\ pc \in {"length", "body", "tx"}
    BY DEF Reading, read_some, fill_some, take_some
  <1>2. ReaderType /\ PosSynchronous /\ Ahead /\ Unbuffered
    BY DEF FullInv, Inv
  <1>3. CASE read_some(n)
    <2>1. Len(got') = n
      BY <1>1, <1>2, <1>3, ChunkBytes DEF read_some, read
    <2>2. next' = next + n
      BY <1>2, <1>3 DEF read_some, read, Consume, Ahead, Unbuffered, ReaderType
    <2> QED
      BY <1>1, <1>3, <2>1, <2>2, GivenReply DEF read_some, read
  <1>4. CASE take_some(n)
    <2>1. n \in 1 .. Len(buffer) /\ got' = SubSeq(buffer, 1, n) /\ next' = next + n
      BY <1>4 DEF take_some, consume
    <2>2. Len(got') = n
      BY <1>1, <1>2, <2>1 DEF ReaderType
    <2> QED
      BY <1>1, <1>4, <2>1, <2>2, GivenReply DEF take_some, consume
  <1>5. CASE fill_some(n)
    <2>1. UNCHANGED <<file_vars, pc, request, opened, want, bytes, reply, mask, len, next>>
      BY <1>5 DEF fill_some, fill_buf, call_vars
    <2>2. OpenRight' /\ Asked' = Asked
      BY <1>1, <2>1, OpenStays
    <2>3. BytesRight' /\ BeganRight'
      BY <2>1, <2>2 DEF FullInv, ReplyInv, BytesRight, BeganRight, Right, KeyAt
    <2> QED
      BY <1>1, <2>1, <2>2, <2>3 DEF ReplyInv, ReadsBack
  <1> QED
    BY <1>3, <1>4, <1>5

\* A reply ends the call: only ReadsBack remains to be shown.
LEMMA AnswerReply ==
  ASSUME NEW r, answer(r), ReadsBack'
  PROVE  ReplyInv'
  <1>1. pc' = "done"
    BY DEF answer
  <1> QED
    BY <1>1 DEF ReplyInv, OpenRight, BytesRight, BeganRight

\* The file ends before all was read only when it has lost the bytes.
LEMMA EofReply ==
  ASSUME FullInv, end_of_file
  PROVE  ReplyInv'
  <1>1. /\ pc \in {"length", "body", "tx"} /\ Len(bytes) < want
        /\ reply' = [ok |-> FALSE, why |-> "UnexpectedEof"]
        /\ answer(Fail("UnexpectedEof"))
        /\ UNCHANGED <<file_vars, request, opened>> /\ dir' = dir
    BY DEF end_of_file, Reading, answer, Fail, file_vars
  <1>2. IndexKnown /\ OpenRight
    BY DEF FullInv, CallInv, ReplyInv
  <1>3. next >= Contents[opened].size
    <2>1. ReaderType /\ Ahead /\ Unbuffered /\ len = Contents[opened].size
      BY <1>1, <1>2 DEF FullInv, Inv, OpenRight
    <2>2. inner_pos >= len /\ buffer = <<>>
      <3>1. CASE style = "read"
        BY <2>1, <3>1 DEF end_of_file, read, Consume, Unbuffered
      <3>2. CASE style # "read"
        BY <2>1, <3>2 DEF end_of_file, fill_buf, Consume
      <3> QED
        BY <3>1, <3>2
    <2> QED
      BY <2>1, <2>2 DEF ReaderType, Ahead
  <1>4. Contents[opened].size \in Nat /\ next \in Nat /\ Len(bytes) \in Nat /\ want \in Nat
    <2>1. opened \in DOMAIN Contents
      BY <1>1, <1>2, AskedFacts
    <2> QED
      BY <1>1, <2>1, ReadAssumption, XorAssumption
      DEF Positions, FullInv, Inv, ReaderType, ReplyInv, BytesRight, Right
  <1>5. ASSUME NEW t \in Asked
        PROVE  t.at + t.size > Contents[opened].size
    <2>1. /\ t.at \in Nat /\ t.size \in Nat /\ request.pos \in Nat
          /\ request.kind # "transaction" => t.at = request.pos
      BY <1>1, <1>2, AskedFacts
    <2>2. CASE pc = "length"
      <3>1. /\ want = 4 /\ next - Len(bytes) = request.pos - 4
            /\ request.kind # "transaction"
        BY <2>2 DEF FullInv, ReplyInv, BeganRight
      <3> QED
        BY <1>1, <1>3, <1>4, <2>1, <3>1
    <2>3. CASE pc \in {"body", "tx"}
      <3>1. want = t.size /\ next - Len(bytes) = t.at
        BY <2>3 DEF FullInv, ReplyInv, BeganRight
      <3> QED
        BY <1>1, <1>3, <1>4, <2>1, <3>1
    <2> QED
      BY <1>1, <2>2, <2>3
  <1>6. F!Numbered' = F!Numbered
    BY <1>1 DEF F!Numbered
  <1>7. ASSUME NEW e \in F!Numbered, e.path.index = request.n_file,
               NEW t \in Things(e.path.id, request.kind),
               t.pos = request.pos, t.offset = request.offset
        PROVE  t.at + t.size > Contents[e.path.id].size
    <2>1. e.path.id = opened
      BY <1>1, <1>2, <1>7, AskedFacts
    <2>2. t \in Asked
      BY <1>7, <2>1 DEF Asked
    <2> QED
      BY <1>5, <2>1, <2>2
  <1>8. reply'.ok = FALSE /\ reply'.why = "UnexpectedEof"
    BY <1>1
  <1>9. ReadsBack'
    BY <1>1, <1>6, <1>7, <1>8 DEF ReadsBack
  <1> QED
    BY <1>1, <1>9, AnswerReply

\* Four right bytes before a block are its length.
LEMMA LengthReply ==
  ASSUME FullInv, got_length
  PROVE  ReplyInv'
  <1>1. /\ pc = "length" /\ pc' = "body" /\ Len(bytes) = want /\ bytes' = <<>>
        /\ want' \in LittleEndian(bytes)
        /\ UNCHANGED <<file_vars, request, opened, mask, len, next>>
    BY DEF got_length, reader_vars, vars
  <1>2. OpenRight' /\ Asked' = Asked
    BY <1>1, OpenStays
  <1>3. IndexKnown /\ OpenRight /\ next \in Nat
    BY DEF FullInv, CallInv, ReplyInv, Inv, ReaderType
  <1>4. /\ Len(bytes) = 4 /\ next - 4 = request.pos - 4 /\ next - 4 \in Nat
        /\ request.kind # "transaction"
        /\ Right(bytes, next - 4) /\ mask = (dir.xor = "mask")
    BY <1>1, <1>3 DEF FullInv, ReplyInv, BytesRight, BeganRight, OpenRight
  <1>5. bytes = Written(next - 4, 4)
    BY <1>4, RightIsWritten
  <1>6. opened \in DOMAIN Contents /\ request.pos \in Nat /\ next = request.pos
    BY <1>1, <1>3, <1>4, AskedFacts
  <1>7. ASSUME NEW t \in Asked
        PROVE  want' = t.size /\ t.at = next /\ t.size \in Nat
    <2>1. t.at = request.pos /\ t.size \in Nat
      BY <1>1, <1>3, <1>4, AskedFacts
    <2>2. PICK b \in Contents[opened].blocks :
            t = [at |-> b.pos, size |-> b.size, pos |-> b.pos, offset |-> 0]
      BY <1>4 DEF Asked, Things
    <2>3. b.pos = next /\ b.size = t.size
      BY <1>6, <2>1, <2>2
    <2>4. ASSUME NEW c \in Contents[opened].blocks, bytes = Written(c.pos - 4, 4)
          PROVE  c.size = t.size
      <3>1. c.pos \in Nat
        BY <1>6, WrittenAssumption
      <3>2. bytes[1][1] = next - 4
        BY <1>4 DEF Right
      <3>3. bytes[1][1] = c.pos - 4
        <4>1. 1 \in 1 .. 4
          OBVIOUS
        <4>2. Written(c.pos - 4, 4)[1][1] = c.pos - 4 + 1 - 1
          BY <4>1 DEF Written
        <4> QED
          BY <2>4, <3>1, <4>2
      <3>4. c.pos = next
        BY <1>3, <3>1, <3>2, <3>3
      <3>5. [at |-> c.pos, size |-> c.size, pos |-> c.pos, offset |-> 0]
              \in Things(opened, request.kind)
        BY <1>4 DEF Things
      <3>6. t \in Things(opened, request.kind)
        BY DEF Asked
      <3> QED
        BY <1>6, <2>1, <3>4, <3>5, <3>6, OneSize
    <2>5. bytes = Written(b.pos - 4, 4)
      BY <1>5, <2>3
    <2>6. LittleEndian(bytes) = {t.size}
      BY <2>3, <2>4, <2>5 DEF LittleEndian
    <2> QED
      BY <1>1, <1>6, <2>1, <2>6
  <1>8. Asked # {}
    BY <1>1, <1>3, AskedFacts
  <1>9. want' \in Nat
    BY <1>7, <1>8
  <1>10. Len(bytes') = 0
    BY <1>1
  <1>11. BytesRight'
    BY <1>1, <1>3, <1>9, <1>10 DEF BytesRight, Right
  <1>12. BeganRight'
    BY <1>1, <1>2, <1>3, <1>4, <1>7, <1>10 DEF BeganRight
  <1> QED
    BY <1>1, <1>2, <1>11, <1>12 DEF ReplyInv, ReadsBack

\* All the bytes are those of what was asked for, and they decode.
LEMMA FinishReply ==
  ASSUME FullInv, finish
  PROVE  ReplyInv'
  <1>1. /\ pc \in {"body", "tx"} /\ Len(bytes) = want
        /\ UNCHANGED <<file_vars, request, opened, bytes>> /\ dir' = dir
        /\ pc' = "done"
    BY DEF finish, answer, file_vars
  <1>2. IndexKnown /\ OpenRight
    BY DEF FullInv, CallInv, ReplyInv
  <1>3. PICK t \in Asked : TRUE
    BY <1>1, <1>2, AskedFacts
  <1>4. want = t.size /\ next - Len(bytes) = t.at /\ t.at \in Nat
        /\ Right(bytes, t.at) /\ mask = (dir.xor = "mask")
    BY <1>1, <1>2, <1>3, AskedFacts
    DEF FullInv, ReplyInv, BytesRight, BeganRight, OpenRight
  <1>5. bytes = Written(t.at, t.size)
    BY <1>1, <1>4, RightIsWritten
  <1>6. t \in Things(opened, request.kind) /\ t.pos = request.pos /\ t.offset = request.offset
    BY DEF Asked
  <1>7. Decodes
    BY <1>5, <1>6 DEF Decodes
  <1>8. reply' = [ok |-> TRUE, file |-> opened, bytes |-> bytes]
    BY <1>7 DEF finish, answer
  <1>9. PICK e \in F!Numbered : e.path.index = request.n_file /\ opened = e.path.id
    BY <1>1, <1>2 DEF OpenRight
  <1>10. F!Numbered' = F!Numbered /\ Written(t.at, t.size)' = Written(t.at, t.size)
    BY <1>1 DEF F!Numbered, Written
  <1>11. reply'.ok = TRUE /\ reply'.file = opened /\ reply'.bytes = bytes
    BY <1>8
  <1>12. ReadsBack'
    <2>1. e \in {g \in F!Numbered : g.path.index = request.n_file}'
      BY <1>1, <1>9, <1>10
    <2>2. t \in {u \in Things(e.path.id, request.kind) :
                   u.pos = request.pos /\ u.offset = request.offset}'
      BY <1>1, <1>6, <1>9
    <2>3. reply'.file = e.path.id /\ reply'.bytes = Written(t.at, t.size)'
      BY <1>5, <1>9, <1>10, <1>11
    <2> QED
      BY <2>1, <2>2, <2>3, <1>11 DEF ReadsBack
  <1> QED
    BY <1>1, <1>12 DEF ReplyInv, OpenRight, BytesRight, BeganRight

LEMMA IoErrReply ==
  ASSUME io_err
  PROVE  ReplyInv'
  <1>1. reply' = [ok |-> FALSE, why |-> "Io"] /\ answer(Fail("Io"))
    BY DEF io_err, answer, Fail
  <1>2. reply'.ok = FALSE /\ reply'.why = "Io"
    BY <1>1
  <1>3. ReadsBack'
    BY <1>2 DEF ReadsBack
  <1> QED
    BY <1>1, <1>3, AnswerReply

\* Nothing happens.
LEMMA StutterReply ==
  ASSUME ReplyInv, UNCHANGED read_vars
  PROVE  ReplyInv'
  <1>1. UNCHANGED <<pc, request, opened, want, bytes, reply, dir, mask, len, next>>
    BY DEF read_vars, reader_vars, vars, file_vars, call_vars
  <1>2. /\ F!Numbered' = F!Numbered /\ Asked' = Asked
        /\ \A p, size : Written(p, size)' = Written(p, size)
    BY <1>1 DEF F!Numbered, Asked, Written
  <1>3. OpenRight'
    BY <1>1, <1>2 DEF ReplyInv, OpenRight
  <1>4. BytesRight'
    BY <1>1 DEF ReplyInv, BytesRight, Right, KeyAt
  <1>5. BeganRight'
    BY <1>1, <1>2 DEF ReplyInv, BeganRight
  <1>6. ReadsBack'
    BY <1>1, <1>2 DEF ReplyInv, ReadsBack
  <1> QED
    BY <1>3, <1>4, <1>5, <1>6 DEF ReplyInv

LEMMA FullInitInv == ReadInit => FullInv
  <1>1. ReadInit => Init
    BY DEF ReadInit
  <1> QED
    BY <1>1, InitInv, CallInitInv, ScanInitInv, ReplyInitInv DEF FullInv

LEMMA FullNextInv ==
  ASSUME FullInv, [ReadNext]_read_vars
  PROVE  FullInv'
  <1>1. Inv /\ CallInv /\ IndexKnown /\ ScanInv /\ ReplyInv
    BY DEF FullInv, CallInv
  <1>2. CallInv' /\ [Next]_vars
    BY <1>1, CallNextInv
  <1>3. Inv'
    BY <1>1, <1>2, NextInv
  <1>4. ScanInv'
    BY <1>1, ScanNextInv
  <1>5. ReplyInv'
    BY <1>1, <1>3, ScanKeepsReply, CallReply, OpenReply, SeekBlockReply, SeekTxReply,
       ReadReply, EofReply, LengthReply, FinishReply, IoErrReply, StutterReply
    DEF ReadNext, Serve
  <1> QED
    BY <1>2, <1>3, <1>4, <1>5 DEF FullInv

(***************************************************************************)
(* What a call returns is exactly the block or transaction that Bitcoin    *)
(* Core wrote at the position its indexes give, for all files, keys,       *)
(* lengths of reads and sizes of the buffer; a call fails only by an I/O   *)
(* error or where the file is gone or has lost the bytes, and it never     *)
(* returns a part (src/src/parser/blk_file.rs:96, 116).                    *)
(***************************************************************************)
THEOREM ReadsWhatWasWritten == ReadSpec => []ReadsBack
  <1>1. FullInv => ReadsBack
    BY DEF FullInv, ReplyInv
  <1> QED
    BY <1>1, FullInitInv, FullNextInv, PTL DEF ReadSpec
=============================================================================
