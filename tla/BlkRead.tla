------------------------------ MODULE BlkRead ------------------------------
(***************************************************************************)
(* Reading raw blocks, blocks and transactions from the blk files          *)
(* (src/src/parser/blk_file.rs, with reader.rs for the reads it makes),    *)
(* byte by byte: the index of the files, F, and on top of it calls that    *)
(* each open a file and drive an XorReader over it.  A read may be short,  *)
(* fail, or meet the end of a file that lost its tail.                     *)
(*                                                                         *)
(* A byte is right when it was XORed with what Bitcoin Core XORed it with. *)
(* What four bytes mean as a length, and which bytes decode, is known for  *)
(* the bytes that Bitcoin Core wrote; other bytes may mean anything.       *)
(***************************************************************************)
EXTENDS XorReader

CONSTANTS
  Dirs, NoIndex,    \* as in BlkFile
  HEADER_SIZE,      \* bytes in a block header
  Contents,         \* per file, its size and the blocks written to it
  Requests          \* what the block index and the tx index may ask for

VARIABLES
  dir, phase, todo, files, xor_mask,    \* the index of the files
  pc,         \* "idle", "open", "seek", "length", "body", "tx", "done"
  request,    \* the request being served
  opened,     \* the file that is open
  want,       \* the number of bytes that read_exact or a decoder asks for
  bytes,      \* those of them read so far
  reply

F == INSTANCE BlkFile

\* A name in a directory leads to contents, and positions are those that
\* Bitcoin Core's indexes give: a block has its length before it.
ASSUME ReadAssumption ==
  /\ \A d \in Dirs : \A e \in d.entries :
       {e.path.id, e.target.id} \subseteq DOMAIN Contents
  /\ \A id \in DOMAIN Contents : Contents[id].size \in Positions
  /\ \A r \in Requests :
       IF r.kind = "transaction" THEN r.pos + r.offset + HEADER_SIZE \in Positions
       ELSE r.pos - 4 \in Positions

reader_vars == vars
file_vars == <<dir, phase, todo, files, xor_mask>>
call_vars == <<request, opened, want, bytes, reply>>
read_vars == <<reader_vars, file_vars, pc, call_vars>>

None == [ok |-> FALSE, why |-> "none"]
Fail(why) == [ok |-> FALSE, why |-> why]

ReadInit ==
  /\ F!Init /\ Init
  /\ pc = "idle"
  /\ request = [kind |-> "none"]
  /\ opened = NoIndex
  /\ want = 0 /\ bytes = <<>>
  /\ reply = None

-----------------------------------------------------------------------------
(* What Bitcoin Core wrote.                                                *)

\* `size` bytes from position p on, as Bitcoin Core XORed them.
Written(p, size) ==
  [j \in 1 .. size |->
     <<p + j - 1, IF dir.xor = "mask" THEN (p + j - 1) % MaskLen ELSE NoKey>>]

\* The things of a file: where each starts and how long it is.
Things(id, kind) ==
  IF kind = "transaction"
  THEN UNION {{[at |-> b.pos + HEADER_SIZE + t.offset, size |-> t.size,
                pos |-> b.pos, offset |-> t.offset] : t \in b.txs} :
              b \in Contents[id].blocks}
  ELSE {[at |-> b.pos, size |-> b.size, pos |-> b.pos, offset |-> 0] :
        b \in Contents[id].blocks}

\* The directories Bitcoin Core keeps: no two blk files have one number, and
\* a link leads to a file of its own name.  (With links that do not, BlkFile
\* is checked on its own.)
ASSUME DirsAssumption ==
  \A d \in Dirs :
    /\ \A e \in d.entries : F!resolve_path(e) = e.path
    /\ \A e1, e2 \in d.entries :
         e1.path.index = e2.path.index => e1 = e2 \/ e1.path.index = NoIndex

\* Bitcoin Core's indexes are right: what they give for a file that is there
\* is where a block or transaction of that file starts, and no two start at
\* one place.
ASSUME WrittenAssumption ==
  /\ HEADER_SIZE \in Nat
  /\ \A id \in DOMAIN Contents :
       /\ \A b \in Contents[id].blocks :
            /\ b.pos \in Nat /\ b.size \in Nat
            /\ \A t \in b.txs : t.offset \in Nat /\ t.size \in Nat
       /\ \A kind \in {"block", "transaction"} : \A t1, t2 \in Things(id, kind) :
            t1.at = t2.at => t1.size = t2.size
  /\ \A r \in Requests, d \in Dirs : \A e \in d.entries :
       e.path.index = r.n_file /\ e.path.index # NoIndex /\ e.path.file =>
         \E t \in Things(e.path.id, r.kind) : t.pos = r.pos /\ t.offset = r.offset

\* The number that four bytes are.
LittleEndian(four) ==
  LET known == {b.size : b \in {b \in Contents[opened].blocks :
                                  four = Written(b.pos - 4, 4)}}
  IN  IF known = {} THEN Positions ELSE known

\* How many bytes the decoder of a transaction will ask for.
TxSize(p) ==
  LET known == {t.size : t \in {t \in Things(opened, "transaction") : t.at = p}}
  IN  IF known = {} THEN Positions ELSE known

\* Whether bytes decode as what was asked for; raw bytes always do.
Decodes ==
  request.kind = "raw_block" \/
  \E t \in Things(opened, request.kind) : bytes = Written(t.at, t.size)

-----------------------------------------------------------------------------
(* The calls.                                                              *)

answer(r) ==
  /\ pc' = "done" /\ reply' = r
  /\ UNCHANGED <<file_vars, request, opened, want>>

\* read_raw_block, read_block or read_transaction looks its file up.
call(req) ==
  /\ phase = "ready" /\ pc \in {"idle", "done"}
  /\ request' = req
  /\ bytes' = <<>>
  /\ IF F!HasFile(req.n_file)
     THEN pc' = "open" /\ reply' = None
     ELSE pc' = "done" /\ reply' = Fail("BlockFileNotFound")
  /\ UNCHANGED <<reader_vars, file_vars, opened, want>>

\* Mutant: the reader of an earlier call is used again for the same file.
open_file_once ==
  /\ pc = "open" /\ pc' = "seek"
  /\ opened' = F!File(request.n_file)
  /\ IF opened = opened' THEN UNCHANGED reader_vars
     ELSE new(xor_mask, Contents[opened'].size)
  /\ UNCHANGED <<file_vars, request, want, bytes, reply>>

\* XorReader::new(File::open(blk_path)?, self.xor_mask)
open_file ==
  /\ pc = "open" /\ pc' = "seek"
  /\ opened' = F!File(request.n_file)
  /\ new(xor_mask, Contents[opened'].size)
  /\ UNCHANGED <<file_vars, request, want, bytes, reply>>

\* Mutant: the length is taken to stand at the position of the index.
seek_block_at ==
  /\ pc = "seek" /\ request.kind # "transaction"
  /\ seek(request.pos, "read")
  /\ pc' = "length" /\ want' = 4
  /\ UNCHANGED <<file_vars, request, opened, bytes, reply>>

\* The length of a block is in the four bytes before it.
seek_block ==
  /\ pc = "seek" /\ request.kind # "transaction"
  /\ seek(request.pos - 4, "read")
  /\ pc' = "length" /\ want' = 4
  /\ UNCHANGED <<file_vars, request, opened, bytes, reply>>

\* The decoder of transactions (external) may use read() or fill_buf().
seek_tx(style_of_decoder) ==
  /\ pc = "seek" /\ request.kind = "transaction"
  /\ LET p == request.pos + request.offset + HEADER_SIZE
     IN  seek(p, style_of_decoder) /\ want' \in TxSize(p)
  /\ pc' = "tx"
  /\ UNCHANGED <<file_vars, request, opened, bytes, reply>>

Reading == pc \in {"length", "body", "tx"} /\ Len(bytes) < want
Missing == want - Len(bytes)

\* read_exact goes on with what is missing after a short read.
read_some(n) ==
  /\ Reading /\ style = "read"
  /\ n <= Missing
  /\ read(n)
  /\ bytes' = bytes \o got'
  /\ UNCHANGED <<file_vars, pc, request, opened, want, reply>>

fill_some(n) ==
  /\ Reading /\ style = "buf_read"
  /\ fill_buf(n)
  /\ UNCHANGED <<file_vars, pc, call_vars>>

take_some(n) ==
  /\ Reading /\ style = "buf_read"
  /\ n <= Missing
  /\ consume(n)
  /\ bytes' = bytes \o got'
  /\ UNCHANGED <<file_vars, pc, request, opened, want, reply>>

\* Mutant: read_exact asks again when it is given nothing.
end_of_file_retry ==
  /\ Reading
  /\ IF style = "read" THEN read(0) ELSE fill_buf(0)
  /\ UNCHANGED <<file_vars, pc, call_vars>>

\* Mutant: what was read before the end of the file is returned.
end_of_file_short ==
  /\ Reading
  /\ IF style = "read" THEN read(0) ELSE fill_buf(0)
  /\ answer([ok |-> TRUE, file |-> opened, bytes |-> bytes])
  /\ UNCHANGED bytes

\* The file ends before all was read: UnexpectedEof.
end_of_file ==
  /\ Reading
  /\ IF style = "read" THEN read(0) ELSE fill_buf(0)
  /\ answer(Fail("UnexpectedEof"))
  /\ UNCHANGED bytes

\* read_vec_u8 makes room for as many bytes as read_u32 returned.
got_length ==
  /\ pc = "length" /\ Len(bytes) = want
  /\ pc' = "body" /\ bytes' = <<>>
  /\ want' \in LittleEndian(bytes)
  /\ UNCHANGED <<reader_vars, file_vars, request, opened, reply>>

\* The bytes of a block are decoded from a Cursor over them.
finish ==
  /\ pc \in {"body", "tx"} /\ Len(bytes) = want
  /\ answer(IF Decodes THEN [ok |-> TRUE, file |-> opened, bytes |-> bytes]
            ELSE Fail("Decode"))
  /\ UNCHANGED <<reader_vars, bytes>>

\* open, seek or read fails; the reader is dropped.
io_err ==
  /\ pc \in {"open", "seek"} \/ Reading
  /\ answer(Fail("Io"))
  /\ bytes' = <<>>
  /\ UNCHANGED reader_vars

\* The thread of the caller goes on with its call.
Serve ==
  \/ open_file \/ seek_block \/ got_length \/ finish
  \/ \E s \in {"read", "buf_read"} : seek_tx(s)
  \/ \E n \in 1 .. MaxPos : read_some(n) \/ fill_some(n) \/ take_some(n)
  \/ end_of_file

ReadNext ==
  \/ /\ phase # "ready" /\ F!Next
     /\ UNCHANGED <<reader_vars, pc, call_vars>>
  \/ \E req \in Requests : call(req)
  \/ Serve \/ io_err

ReadSpec == ReadInit /\ [][ReadNext]_read_vars /\ WF_read_vars(Serve)

-----------------------------------------------------------------------------
\* "Scan `blocks` folder to build an index of all blk files"
\* (src/src/parser/blk_file.rs:35), see BlkFile.
AllFilesIndexed == F!AllFilesIndexed

(***************************************************************************)
(* A position that Bitcoin Core's indexes give leads to exactly the block  *)
(* or transaction written there, with its file, however short the reads    *)
(* are; or the call fails, by an I/O error or because the file has lost    *)
(* the bytes or is not there.  Never is a part returned as a whole, and    *)
(* nothing at all for a record without data (blk_file.rs:96, 116).         *)
(***************************************************************************)
ReadsBack ==
  pc = "done" =>
    LET Asked(e) == {t \in Things(e.path.id, request.kind) :
                       t.pos = request.pos /\ t.offset = request.offset}
        Entries == {e \in F!Numbered : e.path.index = request.n_file}
    IN  CASE reply.ok ->
               \E e \in Entries : \E t \in Asked(e) :
                 /\ reply.file = e.path.id
                 /\ reply.bytes = Written(t.at, t.size)
          [] ~reply.ok ->
               \/ reply.why = "Io"
               \/ reply.why = "BlockFileNotFound" /\ Entries = {}
               \/ /\ reply.why = "UnexpectedEof"
                  /\ \A e \in Entries : \A t \in Asked(e) :
                       t.at + t.size > Contents[e.path.id].size

(***************************************************************************)
(* Every call uses its reader as XorReader asks for: new, one seek, and    *)
(* one way of reading.  Otherwise seek() at src/src/parser/xor.rs:75 would *)
(* leave bytes of the old position in the buffer.                          *)
(***************************************************************************)
ReaderProtocol == Spec

(***************************************************************************)
(* Every call returns, also where a file ends before the bytes that were   *)
(* asked for: short reads get on with it, and an empty one ends it.        *)
(***************************************************************************)
EveryCallReturns == (pc \notin {"idle", "done"}) ~> (pc = "done")
=============================================================================
