---------------------- MODULE ConnectedBlockIterProofs ----------------------
(***************************************************************************)
(* What both variants of the connected iterator need: facts about the      *)
(* chain, and why the pipeline is a ConnectedStream as soon as stage 2     *)
(* only finishes blocks that are rightly connected.                        *)
(***************************************************************************)
EXTENDS ConnectedBlockIter, SequenceTheorems, TLAPS

-----------------------------------------------------------------------------
(* Facts about the chain.                                                  *)

\* Positions of transactions and inputs are pairs of a height and an index.
LEMMA PosFacts ==
  /\ \A p \in TxPos : /\ p[1] \in Heights
                      /\ p[2] \in DOMAIN Blocks[p[1]].txs
                      /\ p = <<p[1], p[2]>>
  /\ \A h \in Heights : \A i \in DOMAIN Blocks[h].txs : <<h, i>> \in TxPos
  /\ \A h \in Heights : \A c \in DOMAIN Blocks[h].ins : <<h, c>> \in InPos
  BY DEF TxPos, InPos

\* The elements of a sequence over S are in S.
LEMMA SeqElement ==
  ASSUME NEW S, NEW s \in Seq(S), NEW i \in DOMAIN s
  PROVE  s[i] \in S /\ i \in Nat \ {0}
  OBVIOUS

\* The types of what is read from the chain.
LEMMA ChainTypes ==
  /\ Heights \subseteq Nat
  /\ \A p \in TxPos : TxAt(p).txid \in Txids /\ TxAt(p).outs \in Nat
  /\ \A h \in Heights : \A c \in DOMAIN Blocks[h].ins :
       Blocks[h].ins[c] \in OutPoint \cup {NullOutPoint}
  /\ \A h \in Heights : DOMAIN Blocks[h].ins \subseteq Nat \ {0}
  <1>1. Heights \subseteq Nat
    BY ChainAssumption DEF Heights
  <1>2. ASSUME NEW h \in Heights
        PROVE  /\ Blocks[h].txs \in Seq([txid : Txids, outs : Nat])
               /\ Blocks[h].ins \in Seq(OutPoint \cup {NullOutPoint})
    BY <1>2, ChainAssumption DEF Block
  <1>3. ASSUME NEW h \in Heights, NEW i \in DOMAIN Blocks[h].txs
        PROVE  Blocks[h].txs[i] \in [txid : Txids, outs : Nat]
    BY <1>2, <1>3, SeqElement
  <1>4. ASSUME NEW h \in Heights, NEW c \in DOMAIN Blocks[h].ins
        PROVE  Blocks[h].ins[c] \in OutPoint \cup {NullOutPoint} /\ c \in Nat \ {0}
    BY <1>2, <1>4, SeqElement
  <1>5. QED
    BY <1>1, <1>3, <1>4, PosFacts DEF TxAt

-----------------------------------------------------------------------------
(* The stream that the caller sees.                                        *)

\* The stages are chained: what stage 1 has handed over, stage 2 has taken.
Chained ==
  /\ fetched2 = handed1
  /\ handed1 <= Count
  /\ done1 \subseteq Heights

\* Stage 1 ends for a reason, or with the whole iterator.
EndsRightly ==
  /\ fetched1 <= End
  /\ \A h \in failed1 : h \notin Heights \/ h \in broken
  /\ status1 = "none" => handed1 = End \/ handed1 \notin Heights \/ handed1 \in broken
  /\ status1 = "dropped" => status2 # "open"

\* A block that stage 2 has finished is rightly connected, and one that it
\* has refused cannot be produced.
Finished ==
  /\ \A h \in done2 : h \notin broken /\ output_block[h] \in Stream!Connections(h)
  /\ \A h \in failed2 : ~ValidBlock(h) \/ h \in broken

StreamReady == S1!Inv /\ S2!Inv /\ Chained /\ EndsRightly /\ Finished

\* The blocks that were handed over, as the sequence the caller has seen.
Seen == [i \in 1 .. handed2 |-> output_block[i - 1]]

\* The stream is one of the same chain.
LEMMA SameChain ==
  /\ Stream!Heights = Heights
  /\ \A h : Stream!ValidBlock(h) <=> ValidBlock(h)
  <1>1. Stream!Heights = Heights /\ Stream!TxPos = TxPos /\ Stream!InPos = InPos
    BY DEF Heights, Stream!Heights, TxPos, Stream!TxPos, InPos, Stream!InPos
  <1>2. \A q : Stream!ValidSpend(q) <=> ValidSpend(q)
    BY <1>1 DEF ValidSpend, Stream!ValidSpend, TxAt, Stream!TxAt, InAt, Stream!InAt,
       Slots, Stream!Slots
  <1> QED
    BY <1>1, <1>2 DEF ValidBlock, Stream!ValidBlock

\* The caller has seen as many blocks as were handed over.
LEMMA SeenLength ==
  ASSUME handed2 \in Nat
  PROVE  Len(Seen) = handed2 /\ DOMAIN Seen = 1 .. handed2
  BY DEF Seen

\* A new iterator has handed over nothing.
LEMMA StreamInit ==
  ASSUME IterInit, broken \in {{}, Heights}
  PROVE  Stream!Init
  <1>1. handed2 = 0 /\ status2 = "open"
    BY DEF IterInit, S2!Init
  <1>2. 1 .. 0 = {}
    OBVIOUS
  <1>3. Seen = <<>>
    BY <1>1, <1>2 DEF Seen
  <1> QED
    BY <1>1, <1>3, SameChain DEF Stream!Init, Seen

\* next() returning a block is Emit.
LEMMA EmitStep ==
  ASSUME StreamReady, next_some
  PROVE  Stream!Emit
  <1>1. /\ status2 = "open" /\ handed2 \in done2 /\ handed2' = handed2 + 1
        /\ UNCHANGED <<status2, broken, output_block>>
    BY DEF next_some, S2!next_some
  <1>2. /\ handed2 \in Nat /\ handed1 \in Nat /\ fetched1 \in Nat
        /\ handed2 < fetched2 /\ fetched2 = handed1 /\ handed1 <= fetched1
        /\ handed1 <= Count /\ fetched1 <= End
    BY <1>1 DEF StreamReady, S1!Inv, S2!Inv, S1!TypeInv, S2!TypeInv, S1!Exclusive,
       S2!Exclusive, S2!Pending, Chained, EndsRightly
  <1>3. handed2 < End /\ handed2 \in Heights
    BY <1>2, ChainAssumption, PipelineAssumption DEF Heights
  <1>4. handed2 \notin broken /\ output_block[handed2] \in Stream!Connections(handed2)
    BY <1>1 DEF StreamReady, Finished
  <1>5. Seen' = Append(Seen, output_block[handed2])
    <2> DEFINE n == handed2
               S == {output_block[i - 1] : i \in 1 .. n + 1}
    <2>1. n \in Nat
      BY <1>2
    <2>2. Seen \in Seq(S) /\ Len(Seen) = n
      <3>1. Seen \in [1 .. n -> S]
        BY <2>1 DEF Seen
      <3>2. Len(Seen) = n /\ DOMAIN Seen = 1 .. n
        BY <2>1, SeenLength
      <3>3. Seen \in Seq(S)
        BY <2>1, <3>1, SeqDef
      <3> QED
        BY <3>2, <3>3
    <2>3. Seen' = [i \in 1 .. n + 1 |-> output_block[i - 1]]
      BY <1>1 DEF Seen
    <2>4. Append(Seen, output_block[n]) =
            [i \in 1 .. n + 1 |-> IF i = n + 1 THEN output_block[n] ELSE Seen[i]]
      BY <2>2
    <2>5. \A i \in 1 .. n + 1 :
            output_block[i - 1] = IF i = n + 1 THEN output_block[n] ELSE Seen[i]
      BY <2>1 DEF Seen
    <2> QED
      BY <2>3, <2>4, <2>5
  <1>6. Stream!Turn = handed2
    BY <1>2, SeenLength DEF Stream!Turn, Seen
  <1> QED
    BY <1>1, <1>3, <1>4, <1>5, <1>6, SameChain DEF Stream!Emit, Seen

\* next() returning None is Finish.
LEMMA FinishStep ==
  ASSUME StreamReady, next_none
  PROVE  Stream!Finish
  <1>1. /\ status2 = "open" /\ status2' = "none"
        /\ UNCHANGED <<handed2, broken, output_block>>
        /\ handed2 \in failed2 \/ (handed2 = fetched2 /\ status1 # "open")
    BY DEF next_none, S2!next_none
  <1>2. Stream!Turn = handed2
    BY SeenLength DEF Stream!Turn, Seen, StreamReady, S2!Inv, S2!TypeInv
  <1>3. handed2 = End \/ Stream!CannotProduce(handed2)
    <2>1. CASE handed2 \in failed2
      BY <2>1, SameChain DEF StreamReady, Finished, Stream!CannotProduce
    <2>2. CASE handed2 = fetched2 /\ status1 # "open"
      <3>1. status1 = "none" /\ handed1 = handed2
        BY <1>1, <2>2 DEF StreamReady, S1!Inv, S1!TypeInv, EndsRightly, Chained
      <3> QED
        BY <3>1, SameChain DEF StreamReady, EndsRightly, Stream!CannotProduce
    <2> QED
      BY <1>1, <2>1, <2>2
  <1> QED
    BY <1>1, <1>2, <1>3 DEF Stream!Finish

\* Any other step leaves what the caller has seen alone; it may drop the
\* iterator or meet a failure of the disk.
LEMMA OtherStep ==
  ASSUME StreamReady, UNCHANGED handed2,
         \A h \in Heights : h < handed2 => output_block'[h] = output_block[h],
         \/ UNCHANGED <<status2, broken>>
         \/ status2 = "open" /\ status2' = "dropped" /\ UNCHANGED broken
         \/ UNCHANGED status2 /\ \E h \in Heights : broken' = broken \cup {h}
  PROVE  [Stream!Next]_(Stream!vars)
  <1>1. handed2 \in Nat /\ handed2 <= Count
    BY ChainAssumption
    DEF StreamReady, S2!Inv, S2!TypeInv, S2!Exclusive, Chained, S1!Inv, S1!TypeInv
  <1>2. \A i \in 1 .. handed2 : output_block'[i - 1] = output_block[i - 1]
    BY <1>1, ChainAssumption DEF Heights
  <1>3. Seen' = Seen
    BY <1>2 DEF Seen
  <1> QED
    BY <1>3, SameChain DEF Seen, Stream!Next, Stream!vars, Stream!Drop, Stream!Break

\* Stage 1 ends rightly whatever happens to the cache: a step takes one of
\* n heights, reads a block or fails, moves a block on, or is the caller's.
LEMMA EndsStep ==
  ASSUME S1!Inv, EndsRightly, NEW n \in 0 .. End, n = End \/ Heights \subseteq broken,
         \/ \E u \in Updaters : \/ next_height(u, n)
                               \/ block_ok(u)
                               \/ /\ S1!return_err(u) /\ Breaks(job1[u])
                                  /\ UNCHANGED stage2
         \/ \E v \in Connectors : next_block(v) \/ no_more_blocks(v, n)
         \/ caller
         \/ UNCHANGED <<stage1, status2>> /\ broken \subseteq broken'
  PROVE  EndsRightly'
  <1>1. fetched1 \in Nat /\ handed1 \in Nat /\ End \in Nat
    BY PipelineAssumption DEF S1!Inv, S1!TypeInv
  <1>2. ASSUME NEW u \in Updaters, next_height(u, n) PROVE EndsRightly'
    BY <1>1, <1>2 DEF next_height, S1!fetch, EndsRightly, stage2
  <1>3. ASSUME NEW u \in Updaters, block_ok(u) PROVE EndsRightly'
    BY <1>3 DEF block_ok, S1!return_ok, EndsRightly, stage2
  <1>4. ASSUME NEW u \in Updaters, S1!return_err(u), Breaks(job1[u]), UNCHANGED stage2
        PROVE  EndsRightly'
    BY <1>4 DEF S1!return_err, Breaks, EndsRightly, stage2
  <1>5. ASSUME NEW v \in Connectors, next_block(v) PROVE EndsRightly'
    BY <1>5 DEF next_block, S1!next_some, S2!fetch, EndsRightly
  <1>6. ASSUME NEW v \in Connectors, no_more_blocks(v, n) PROVE EndsRightly'
    <2>1. /\ UNCHANGED <<fetched1, failed1, handed1, status2, broken>> /\ status1' = "none"
          /\ handed1 \in failed1 \/ (handed1 = fetched1 /\ fetched1 = n)
      BY <1>6 DEF no_more_blocks, S1!next_none, stage2
    <2> QED
      BY <2>1 DEF EndsRightly
  <1>7. CASE caller
    BY <1>7 DEF caller, next_some, next_none, drop_iter, drop_upstream, S2!next_some,
       S2!next_none, S2!drop, S1!drop, EndsRightly, stage1, stage2
  <1>8. CASE UNCHANGED <<stage1, status2>> /\ broken \subseteq broken'
    BY <1>8 DEF EndsRightly, stage1
  <1> QED
    BY <1>2, <1>3, <1>4, <1>5, <1>6, <1>7, <1>8
=============================================================================
