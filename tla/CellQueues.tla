------------------------------ MODULE CellQueues ------------------------------
(***************************************************************************)
(* What the queues of nemesis promise to their users.  Every process owns  *)
(* a queue of free cells and a queue of received cells.  Any process may   *)
(* enqueue a cell it holds, only the owner dequeues.  A queue is one       *)
(* sequence; its last cells may still be out of the owner's sight, because *)
(* some enqueuer has not finished.                                         *)
(***************************************************************************)
EXTENDS Naturals, Sequences

CONSTANTS Proc,         \* the processes of a node
          Cell,         \* the cells of the shared region
          Elements,     \* Elements[p]: the cells p starts with, in order
          Null          \* MPID_NEM_REL_NULL

Queue == {"free", "recv"} \X Proc
Owner(q) == q[2]

VARIABLES ready,        \* ready[q]: the cells the owner can see
          arriving,     \* arriving[q]: the cells behind them
          held          \* held[p]: the cell p has in hand, or Null

Init == /\ ready = [q \in Queue |-> IF q[1] = "free" THEN Elements[q[2]] ELSE <<>>]
        /\ arriving = [q \in Queue |-> <<>>]
        /\ held = [p \in Proc |-> Null]

Enqueue(p, q) == /\ held[p] # Null
                 /\ held' = [held EXCEPT ![p] = Null]
                 /\ arriving' = [arriving EXCEPT ![q] = Append(@, held[p])]
                 /\ UNCHANGED ready

(***************************************************************************)
(* An enqueuer finishes: the cells up to the next unfinished one appear.   *)
(***************************************************************************)
Appear(q) == \E n \in 1..Len(arriving[q]) :
  /\ UNCHANGED held
  /\ arriving' = [arriving EXCEPT ![q] = SubSeq(@, n + 1, Len(@))]
  /\ ready' = [ready EXCEPT ![q] = @ \o SubSeq(arriving[q], 1, n)]

Dequeue(q) == /\ held[Owner(q)] = Null
              /\ ready[q] # <<>>
              /\ held' = [held EXCEPT ![Owner(q)] = Head(ready[q])]
              /\ ready' = [ready EXCEPT ![q] = Tail(@)]
              /\ UNCHANGED arriving

Next == \E q \in Queue : \/ \E p \in Proc : Enqueue(p, q)
                         \/ Appear(q)
                         \/ Dequeue(q)

Spec == Init /\ [][Next]_<<ready, arriving, held>>
===============================================================================
