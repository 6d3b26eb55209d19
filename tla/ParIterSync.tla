---------------------------- MODULE ParIterSync ----------------------------
(***************************************************************************)
(* External: the crate `par_iter_sync`, as src/src/iter/ uses it.          *)
(*                                                                         *)
(* `tasks.into_par_iter_sync(closure)` dispatches worker threads that take *)
(* tasks from the task iterator in order, run the closure on them          *)
(* concurrently, and hand the results to `next()` in task order.  A        *)
(* closure that returns Err ends the stream at its task.  Dropping the     *)
(* iterator stops the workers from taking new tasks.                       *)
(*                                                                         *)
(* Tasks are numbered 0, 1, 2, ... in the order of the task iterator.  The *)
(* module that instantiates this one says what a task is, when the task    *)
(* iterator has one to give, and what the closure does.                    *)
(***************************************************************************)
EXTENDS Integers, TLAPS

CONSTANTS
  Workers,   \* the worker threads dispatched by the constructor
  Ahead      \* bound: how many tasks may be taken and not yet handed over

VARIABLES
  fetched,   \* number of tasks taken from the task iterator
  job,       \* job[w]: the task worker w runs the closure on, or Idle
  done,      \* tasks whose result waits for its turn
  failed,    \* tasks whose closure returned Err
  handed,    \* number of results handed to the caller of next()
  status     \* "open", "none" (next() returned None) or "dropped"

vars == <<fetched, job, done, failed, handed, status>>

Idle == -1

Init ==
  /\ fetched = 0
  /\ job = [w \in Workers |-> Idle]
  /\ done = {}
  /\ failed = {}
  /\ handed = 0
  /\ status = "open"

-----------------------------------------------------------------------------
\* Worker w takes the next task of the iterator, if it gives one (`given`).
fetch(w, given) ==
  /\ status = "open"
  /\ job[w] = Idle
  /\ fetched - handed < Ahead
  /\ given
  /\ job' = [job EXCEPT ![w] = fetched]
  /\ fetched' = fetched + 1
  /\ UNCHANGED <<done, failed, handed, status>>

\* The closure of worker w returns Ok: the result waits for its turn.
return_ok(w) ==
  /\ job[w] # Idle
  /\ done' = done \cup {job[w]}
  /\ job' = [job EXCEPT ![w] = Idle]
  /\ UNCHANGED <<fetched, failed, handed, status>>

\* The closure of worker w returns Err.
return_err(w) ==
  /\ job[w] # Idle
  /\ failed' = failed \cup {job[w]}
  /\ job' = [job EXCEPT ![w] = Idle]
  /\ UNCHANGED <<fetched, done, handed, status>>

\* next() returns Some: the result of task number `handed`, never another.
next_some ==
  /\ status = "open"
  /\ handed \in done
  /\ done' = done \ {handed}
  /\ handed' = handed + 1
  /\ UNCHANGED <<fetched, job, failed, status>>

\* next() returns None, and does so from now on: the task whose turn it is
\* failed, or there is none because the task iterator is exhausted.
next_none(exhausted) ==
  /\ status = "open"
  /\ \/ handed \in failed
     \/ handed = fetched /\ exhausted
  /\ status' = "none"
  /\ UNCHANGED <<fetched, job, done, failed, handed>>

\* The iterator is dropped.
drop ==
  /\ status = "open"
  /\ status' = "dropped"
  /\ UNCHANGED <<fetched, job, done, failed, handed>>

Next ==
  \/ \E w \in Workers : \/ \E given \in BOOLEAN : fetch(w, given)
                        \/ return_ok(w)
                        \/ return_err(w)
  \/ next_some
  \/ \E exhausted \in BOOLEAN : next_none(exhausted)
  \/ drop

Spec == Init /\ [][Next]_vars

\* No worker runs the closure.
AllIdle == \A w \in Workers : job[w] = Idle

-----------------------------------------------------------------------------
(***************************************************************************)
(* What the users of the iterator build on: a task that was taken and not  *)
(* handed over is in exactly one place (waiting, failed, or with exactly   *)
(* one worker), and a task that was handed over is in none.                *)
(***************************************************************************)
Pending == handed .. fetched - 1

TypeInv ==
  /\ fetched \in Nat
  /\ handed \in Nat
  /\ job \in [Workers -> Nat \cup {Idle}]
  /\ done \in SUBSET Nat
  /\ failed \in SUBSET Nat
  /\ status \in {"open", "none", "dropped"}

Exclusive ==
  /\ handed <= fetched
  /\ done \cup failed \subseteq Pending
  /\ done \cap failed = {}
  /\ \A w \in Workers : job[w] # Idle => job[w] \in Pending \ (done \cup failed)
  /\ \A v, w \in Workers : job[v] = job[w] /\ job[v] # Idle => v = w

NoneLost ==
  \A t \in Pending : t \in done \cup failed \/ \E w \in Workers : job[w] = t

Inv == TypeInv /\ Exclusive /\ NoneLost

-----------------------------------------------------------------------------
\* The iterator starts in Inv.
LEMMA InitInv == Init => Inv
  BY DEF Init, Inv, TypeInv, Exclusive, NoneLost, Pending, Idle

\* fetch gives the new task to one worker only, and it is the last one.
LEMMA FetchInv ==
  ASSUME Inv, NEW w \in Workers, NEW given, fetch(w, given)
  PROVE  Inv'
  BY DEF Inv, TypeInv, Exclusive, NoneLost, Pending, Idle, fetch

\* return_ok moves a task from its worker to those that wait.
LEMMA ReturnOkInv ==
  ASSUME Inv, NEW w \in Workers, return_ok(w)
  PROVE  Inv'
  <1>1. TypeInv'
    BY DEF Inv, TypeInv, return_ok, Idle
  <1>2. Pending' = Pending
    BY DEF return_ok, Pending
  <1>3. Exclusive'
    BY <1>2 DEF Inv, TypeInv, Exclusive, return_ok, Idle, Pending
  <1>4. ASSUME NEW t \in Pending
        PROVE  t \in done' \cup failed' \/ \E v \in Workers : job'[v] = t
    <2>1. CASE t \in done \cup failed \cup {job[w]}
      BY <2>1 DEF return_ok
    <2>2. CASE t \notin done \cup failed \cup {job[w]}
      <3>1. PICK v \in Workers : job[v] = t
        BY <2>2 DEF Inv, NoneLost
      <3>2. v # w
        BY <2>2, <3>1
      <3>3. job'[v] = t
        BY <3>1, <3>2 DEF return_ok, Inv, TypeInv
      <3>4. QED
        BY <3>3
    <2>3. QED
      BY <2>1, <2>2
  <1>5. QED
    BY <1>1, <1>2, <1>3, <1>4 DEF Inv, NoneLost

\* return_err moves a task from its worker to the failed ones.
LEMMA ReturnErrInv ==
  ASSUME Inv, NEW w \in Workers, return_err(w)
  PROVE  Inv'
  <1>1. TypeInv'
    BY DEF Inv, TypeInv, return_err, Idle
  <1>2. Pending' = Pending
    BY DEF return_err, Pending
  <1>3. Exclusive'
    BY <1>2 DEF Inv, TypeInv, Exclusive, return_err, Idle, Pending
  <1>4. ASSUME NEW t \in Pending
        PROVE  t \in done' \cup failed' \/ \E v \in Workers : job'[v] = t
    <2>1. CASE t \in done \cup failed \cup {job[w]}
      BY <2>1 DEF return_err
    <2>2. CASE t \notin done \cup failed \cup {job[w]}
      <3>1. PICK v \in Workers : job[v] = t
        BY <2>2 DEF Inv, NoneLost
      <3>2. v # w
        BY <2>2, <3>1
      <3>3. job'[v] = t
        BY <3>1, <3>2 DEF return_err, Inv, TypeInv
      <3>4. QED
        BY <3>3
    <2>3. QED
      BY <2>1, <2>2
  <1>5. QED
    BY <1>1, <1>2, <1>3, <1>4 DEF Inv, NoneLost

\* next() hands over the first pending task, which leaves Pending.
LEMMA NextSomeInv ==
  ASSUME Inv, next_some
  PROVE  Inv'
  BY DEF Inv, TypeInv, Exclusive, NoneLost, Pending, Idle, next_some

\* next() returning None, and drop, move no task.
LEMMA NextNoneInv ==
  ASSUME Inv, NEW exhausted, next_none(exhausted) \/ drop
  PROVE  Inv'
  BY DEF Inv, TypeInv, Exclusive, NoneLost, Pending, Idle, next_none, drop

\* A step that leaves the iterator alone.
LEMMA UnchangedInv ==
  ASSUME Inv, UNCHANGED vars
  PROVE  Inv'
  BY DEF Inv, TypeInv, Exclusive, NoneLost, Pending, Idle, vars

(***************************************************************************)
(* No task is lost, run twice or handed over twice, whatever the closure   *)
(* returns and whenever the iterator is dropped.                           *)
(***************************************************************************)
THEOREM NoTaskLost == Spec => []Inv
  <1>1. Inv /\ [Next]_vars => Inv'
    BY FetchInv, ReturnOkInv, ReturnErrInv, NextSomeInv, NextNoneInv, UnchangedInv
    DEF Next
  <1>2. QED
    BY <1>1, InitInv, PTL DEF Spec
=============================================================================
