-------------------------- MODULE ConnectedStream --------------------------
(***************************************************************************)
(* What `db.connected_block_iter(end)` promises its caller                 *)
(* (src/src/api.rs, src/src/iter/connected_block_iter.rs): the blocks      *)
(* 0, 1, 2, ... in order, each with its inputs replaced by the outputs     *)
(* they spend, up to `end` or to the first block that cannot be produced.  *)
(* No threads, no cache.                                                   *)
(***************************************************************************)
EXTENDS BlockChain

CONSTANTS
  End,     \* the argument of connected_block_iter
  NoOut    \* stands where a coinbase input has no connected output

VARIABLES
  stream,  \* the connected blocks handed to the caller so far
  status,  \* "open", "none" (next() returned None), "dropped"
  broken   \* heights at which reading the disk or the UTXO store failed

vars == <<stream, status, broken>>

\* The height next() is asked for.
Turn == Len(stream)

\* What an input may be connected to.
Candidates(h, c) ==
  IF Blocks[h].ins[c] = NullOutPoint THEN {NoOut} ELSE Referents(Blocks[h].ins[c])

\* The connected forms of block h: one when every input is a ValidSpend.
Connections(h) ==
  LET ins == DOMAIN Blocks[h].ins
  IN  {b \in [ins -> UNION {Candidates(h, c) : c \in ins}] :
         \A c \in ins : b[c] \in Candidates(h, c)}

\* The store of unspent outputs may fail to open: then no block is produced.
Init == stream = <<>> /\ status = "open" /\ broken \in {{}, Heights}

Emit ==
  /\ status = "open"
  /\ Turn < End /\ Turn \in Heights /\ Turn \notin broken
  /\ \E b \in Connections(Turn) : stream' = Append(stream, b)
  /\ UNCHANGED <<status, broken>>

\* The only reasons to stop before `end`.
CannotProduce(h) == h \notin Heights \/ h \in broken \/ ~ValidBlock(h)

Finish ==
  /\ status = "open"
  /\ Turn = End \/ CannotProduce(Turn)
  /\ status' = "none"
  /\ UNCHANGED <<stream, broken>>

Drop == status = "open" /\ status' = "dropped" /\ UNCHANGED <<stream, broken>>

Break(h) == broken' = broken \cup {h} /\ UNCHANGED <<stream, status>>

Next == Emit \/ Finish \/ Drop \/ \E h \in Heights : Break(h)

Spec == Init /\ [][Next]_vars

\* A caller that keeps calling next() is answered every time.
FairSpec == Spec /\ WF_vars(Emit \/ Finish)
=============================================================================
