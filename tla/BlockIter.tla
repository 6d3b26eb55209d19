----------------------------- MODULE BlockIter -----------------------------
(***************************************************************************)
(* BlockIter (src/src/iter/block_iter.rs): blocks of a range of heights,   *)
(* or of any list of heights, read in parallel and delivered in order.     *)
(***************************************************************************)
EXTENDS Integers, Sequences

CONSTANTS
  Requests,     \* calls of block_iter and iter_heights
  Count,        \* block_index.records.len()
  Workers,      \* worker threads
  Ahead,        \* bound: tasks the iterator may run ahead of its caller
  IoErrors      \* whether reading a block file may fail

ASSUME RequestAssumption ==
  \A r \in Requests :
    IF r.kind = "range" THEN r.start \in Nat /\ r.end \in Nat
    ELSE r.heights \in Seq(Nat)

VARIABLES
  request,      \* the call that made the iterator
  heights,      \* the task iterator, as a list
  fetched, job, done, failed, handed, status,    \* the parallel iterator
  out,          \* the heights of the blocks handed to the caller
  broken        \* heights whose block file could not be read

iter == <<fetched, job, done, failed, handed, status>>
vars == <<request, heights, iter, out, broken>>

P == INSTANCE ParIterSync

\* A range start .. end - 1 as a list.
HeightRange(start, end) == [i \in 1 .. end - start |-> start + i - 1]

\* Mutant: the end is included.
from_range_inclusive(start, end) == IF end <= start THEN <<>> ELSE HeightRange(start, end + 1)

from_range(start, end) == IF end <= start THEN <<>> ELSE HeightRange(start, end)

\* BlockIter::new and from_range: the worker threads start.
Init ==
  /\ request \in Requests
  /\ heights = IF request.kind = "range" THEN from_range(request.start, request.end)
               ELSE request.heights
  /\ P!Init
  /\ out = <<>>
  /\ broken = {}

\* Task t is the block at this height.
HeightOf(t) == heights[t + 1]

get_block_fails(h) == h \notin 0 .. Count - 1

take_height(w) ==
  /\ P!fetch(w, fetched < Len(heights))
  /\ UNCHANGED <<request, heights, out, broken>>

get_block(w) ==
  /\ job[w] # P!Idle /\ ~get_block_fails(HeightOf(job[w]))
  /\ P!return_ok(w)
  /\ UNCHANGED <<request, heights, out, broken>>

\* The height is not in the index, or the file cannot be read.
get_block_err(w) ==
  /\ job[w] # P!Idle
  /\ get_block_fails(HeightOf(job[w])) \/ IoErrors
  /\ P!return_err(w)
  /\ broken' = broken \cup {HeightOf(job[w])}
  /\ UNCHANGED <<request, heights, out>>

next_some ==
  /\ P!next_some
  /\ out' = Append(out, HeightOf(handed))
  /\ UNCHANGED <<request, heights, broken>>

\* Mutant: next() waits for the block that could not be read.
next_none_at_end_only ==
  /\ handed = fetched
  /\ P!next_none(fetched = Len(heights))
  /\ UNCHANGED <<request, heights, out, broken>>

next_none ==
  /\ P!next_none(fetched = Len(heights))
  /\ UNCHANGED <<request, heights, out, broken>>

drop_iter == P!drop /\ UNCHANGED <<request, heights, out, broken>>

Stopped == status # "open" /\ P!AllIdle
stay_stopped == Stopped /\ UNCHANGED vars

worker(w) == take_height(w) \/ get_block(w) \/ get_block_err(w)

Next ==
  \/ \E w \in Workers : worker(w)
  \/ next_some \/ next_none \/ drop_iter \/ stay_stopped

\* Every thread is scheduled, and the caller keeps calling next().
FairSpec ==
  /\ Init /\ [][Next]_vars
  /\ \A w \in Workers : WF_vars(worker(w))
  /\ WF_vars(next_some \/ next_none)

-----------------------------------------------------------------------------
\* What the caller asked for.
Wanted(i) == IF request.kind = "range" THEN request.start + i - 1 ELSE request.heights[i]
NumWanted ==
  CASE request.kind # "range" -> Len(request.heights)
    [] request.kind = "range" /\ request.end > request.start -> request.end - request.start
    [] OTHER -> 0

(***************************************************************************)
(* The caller gets the blocks it asked for in the order it asked for them, *)
(* duplicates included, and next() returns None only when it has them all  *)
(* or when the next one cannot be read: a failure further on, which the    *)
(* workers may meet first, cuts nothing off.                               *)
(***************************************************************************)
DeliversPrefix ==
  /\ Len(out) <= NumWanted
  /\ \A i \in DOMAIN out : out[i] = Wanted(i)
  /\ status = "none" => \/ Len(out) = NumWanted
                        \/ Wanted(Len(out) + 1) \in broken

(***************************************************************************)
(* A caller that keeps calling next() gets to the end, and all workers end *)
(* when it has or when it drops the iterator.                              *)
(***************************************************************************)
Terminates == <>[]Stopped
=============================================================================
