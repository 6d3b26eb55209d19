-------------------------- MODULE BlockIterProofs --------------------------
(***************************************************************************)
(* BlockIter hands over what was asked for, up to the first block that     *)
(* cannot be read, for any request, number of workers and bound on how far *)
(* they run ahead.                                                         *)
(***************************************************************************)
EXTENDS BlockIter, SequenceTheorems, TLAPS

\* The task iterator is the list of what was asked for.
Asked ==
  /\ heights \in Seq(Nat)
  /\ Len(heights) = NumWanted
  /\ \A i \in 1 .. Len(heights) : heights[i] = Wanted(i)

\* The caller has the results of the tasks that were handed over.
HandedOver ==
  /\ out \in Seq(Nat)
  /\ Len(out) = handed
  /\ \A i \in 1 .. handed : out[i] = heights[i]
  /\ fetched <= Len(heights)

\* A task fails when its block cannot be read, and only a failed task or the
\* end of the list ends the iterator.
EndsRightly ==
  /\ \A t \in failed : HeightOf(t) \in broken
  /\ status = "none" => handed \in failed \/ handed = Len(heights)

IInv == P!Inv /\ Asked /\ HandedOver /\ EndsRightly

\* from_range gives the heights of the range, and none when it is empty.
LEMMA RangeAsked ==
  ASSUME NEW start \in Nat, NEW end \in Nat
  PROVE  /\ from_range(start, end) \in Seq(Nat)
         /\ Len(from_range(start, end)) = IF end > start THEN end - start ELSE 0
         /\ \A i \in 1 .. Len(from_range(start, end)) :
              from_range(start, end)[i] = start + i - 1
  <1>1. CASE end <= start
    <2>1. from_range(start, end) = <<>>
      BY <1>1 DEF from_range
    <2> QED
      BY <1>1, <2>1
  <1>2. CASE end > start
    <2>1. from_range(start, end) = [i \in 1 .. end - start |-> start + i - 1]
      <3>1. ~(end <= start)
        BY <1>2
      <3>2. from_range(start, end) = HeightRange(start, end)
        BY <3>1 DEF from_range
      <3> QED
        BY <3>2 DEF HeightRange
    <2>2. end - start \in Nat /\ \A i \in 1 .. end - start : start + i - 1 \in Nat
      BY <1>2
    <2> DEFINE n == end - start
               s == [i \in 1 .. n |-> start + i - 1]
    <2>3. s \in [1 .. n -> Nat] /\ n \in Nat
      BY <2>2
    <2>4. s \in Seq(Nat) /\ Len(s) = n
      BY <2>3
    <2>5. \A i \in 1 .. n : s[i] = start + i - 1
      OBVIOUS
    <2> QED
      BY <1>2, <2>1, <2>4, <2>5
  <1> QED
    BY <1>1, <1>2

LEMMA InitInv == Init => IInv
  <1> SUFFICES ASSUME Init PROVE IInv
    OBVIOUS
  <1>1. P!Inv
    BY P!InitInv DEF Init
  <1>2. Asked
    <2>1. CASE request.kind = "range"
      <3>1. request.start \in Nat /\ request.end \in Nat
        BY <2>1, RequestAssumption DEF Init
      <3>2. heights = from_range(request.start, request.end)
        BY <2>1 DEF Init
      <3> QED
        BY <2>1, <3>1, <3>2, RangeAsked DEF Asked, NumWanted, Wanted
    <2>2. CASE request.kind # "range"
      BY <2>2, RequestAssumption DEF Init, Asked, NumWanted, Wanted
    <2> QED
      BY <2>1, <2>2
  <1>3. HandedOver /\ EndsRightly
    BY <1>2 DEF Init, P!Init, Asked, HandedOver, EndsRightly
  <1> QED
    BY <1>1, <1>2, <1>3 DEF IInv

LEMMA WorkerInv ==
  ASSUME IInv, NEW w \in Workers, worker(w)
  PROVE  IInv'
  <1>1. UNCHANGED <<request, heights, out>> /\ handed' = handed /\ status' = status
    BY DEF worker, take_height, get_block, get_block_err, P!fetch, P!return_ok, P!return_err
  <1>2. P!Inv'
    BY P!FetchInv, P!ReturnOkInv, P!ReturnErrInv
    DEF IInv, worker, take_height, get_block, get_block_err
  <1>3. Asked'
    BY <1>1 DEF IInv, Asked, NumWanted, Wanted
  <1>4. fetched' <= Len(heights)
    BY DEF IInv, Asked, HandedOver, P!Inv, P!TypeInv, worker, take_height, get_block,
       get_block_err, P!fetch, P!return_ok, P!return_err
  <1>5. HandedOver'
    BY <1>1, <1>4 DEF IInv, HandedOver
  <1>6. EndsRightly'
    <2>1. CASE take_height(w) \/ get_block(w)
      BY <1>1, <2>1 DEF IInv, EndsRightly, HeightOf, take_height, get_block, P!fetch,
         P!return_ok
    <2>2. CASE get_block_err(w)
      BY <1>1, <2>2 DEF IInv, EndsRightly, HeightOf, get_block_err, P!return_err
    <2> QED
      BY <2>1, <2>2 DEF worker
  <1> QED
    BY <1>2, <1>3, <1>5, <1>6 DEF IInv

\* next() gives the block of the first task that was not handed over.
LEMMA NextSomeInv ==
  ASSUME IInv, next_some
  PROVE  IInv'
  <1>1. /\ P!next_some /\ out' = Append(out, HeightOf(handed))
        /\ UNCHANGED <<request, heights, broken>>
    BY DEF next_some
  <1>2. P!Inv'
    BY <1>1, P!NextSomeInv DEF IInv
  <1>3. Asked'
    BY <1>1 DEF IInv, Asked, NumWanted, Wanted
  <1>4. /\ status = "open" /\ status' = status /\ failed' = failed
        /\ fetched' = fetched /\ handed' = handed + 1 /\ handed \in done
    BY <1>1 DEF P!next_some
  <1>5. handed \in Nat /\ fetched \in Nat /\ handed < fetched /\ fetched <= Len(heights)
    BY <1>4 DEF IInv, P!Inv, P!TypeInv, P!Exclusive, P!Pending, HandedOver
  <1>6. heights[handed + 1] \in Nat
    BY <1>5 DEF IInv, Asked
  <1>7. HandedOver'
    <2>1. out \in Seq(Nat) /\ Len(out) = handed /\ \A i \in 1 .. handed : out[i] = heights[i]
      BY DEF IInv, HandedOver
    <2>2. /\ out' \in Seq(Nat) /\ Len(out') = handed + 1
          /\ \A i \in 1 .. handed + 1 : out'[i] = heights[i]
      BY <1>1, <1>5, <1>6, <2>1 DEF HeightOf
    <2> QED
      BY <1>1, <1>4, <1>5, <2>2 DEF HandedOver
  <1>8. EndsRightly'
    BY <1>1, <1>4 DEF IInv, EndsRightly, HeightOf
  <1> QED
    BY <1>2, <1>3, <1>7, <1>8 DEF IInv

\* next() returns None, or the iterator is dropped.
LEMMA EndInv ==
  ASSUME IInv, next_none \/ drop_iter
  PROVE  IInv'
  <1>1. UNCHANGED <<request, heights, out, broken, fetched, failed, handed>>
    BY DEF next_none, drop_iter, P!next_none, P!drop
  <1>2. P!Inv'
    BY P!NextNoneInv DEF IInv, next_none, drop_iter
  <1>3. Asked' /\ HandedOver'
    BY <1>1 DEF IInv, Asked, HandedOver, NumWanted, Wanted
  <1>4. status' = "none" => handed \in failed \/ handed = Len(heights)
    BY DEF next_none, drop_iter, P!next_none, P!drop
  <1>5. EndsRightly'
    BY <1>1, <1>4 DEF IInv, EndsRightly, HeightOf
  <1> QED
    BY <1>2, <1>3, <1>5 DEF IInv

LEMMA NextInv ==
  ASSUME IInv, [Next]_vars
  PROVE  IInv'
  <1>1. CASE UNCHANGED vars
    <2>1. UNCHANGED P!vars
      BY <1>1 DEF vars, iter, P!vars
    <2>2. P!Inv'
      BY <2>1, P!UnchangedInv DEF IInv
    <2> QED
      BY <1>1, <2>2 DEF vars, iter, IInv, Asked, HandedOver, EndsRightly, NumWanted,
         Wanted, HeightOf
  <1>2. CASE Next
    BY <1>1, <1>2, WorkerInv, NextSomeInv, EndInv DEF Next, stay_stopped
  <1> QED
    BY <1>1, <1>2

(***************************************************************************)
(* The caller of block_iter or iter_heights gets exactly the blocks before *)
(* the first one that cannot be read, in the order it asked for them.      *)
(***************************************************************************)
THEOREM BlocksInOrder == FairSpec => []DeliversPrefix
  <1>1. IInv => DeliversPrefix
    <2> SUFFICES ASSUME IInv PROVE DeliversPrefix
      OBVIOUS
    <2>1. /\ handed \in Nat /\ fetched \in Nat /\ handed <= fetched
          /\ fetched <= Len(heights) /\ Len(heights) = NumWanted
          /\ Len(out) = handed /\ DOMAIN out = 1 .. handed
      BY DEF IInv, P!Inv, P!TypeInv, P!Exclusive, HandedOver, Asked
    <2>2. \A i \in 1 .. handed : out[i] = Wanted(i)
      BY <2>1 DEF IInv, HandedOver, Asked
    <2>3. ASSUME status = "none", Len(out) # NumWanted
          PROVE  Wanted(Len(out) + 1) \in broken
      <3>1. handed \in failed
        BY <2>1, <2>3 DEF IInv, EndsRightly
      <3>2. handed + 1 \in 1 .. Len(heights)
        BY <2>1, <2>3
      <3> QED
        BY <2>1, <3>1, <3>2 DEF IInv, EndsRightly, HeightOf, Asked
    <2> QED
      BY <2>1, <2>2, <2>3 DEF DeliversPrefix
  <1> QED
    BY <1>1, InitInv, NextInv, PTL DEF FairSpec
=============================================================================
