------------------------------- MODULE NemQueue -------------------------------
(***************************************************************************)
(* The lock-free queue of the nemesis channel, from                        *)
(* channels/nemesis/nemesis/include/mpid_nem_queue.h, one access to shared *)
(* memory per action.  Any process may enqueue; the owner alone dequeues   *)
(* and keeps a private head of its own (MPID_NEM_USE_SHADOW_HEAD).  The    *)
(* clients are those of the channel: a process takes a cell from its free  *)
(* queue and puts it on the receive queue of another one, which returns it *)
(* to the free queue of its home.  Accesses to memory take effect in the   *)
(* order of the program.                                                   *)
(***************************************************************************)
EXTENDS Naturals, FiniteSets, SequencesExt

CONSTANTS Proc,         \* the processes of a node
          Cell,         \* the cells of the shared region
          Elements,     \* Elements[p]: the cells of p
          Dest,         \* Dest[p]: the processes p sends to
          Null          \* MPID_NEM_REL_NULL

(* every cell is one element of one process *)
ASSUME NemQueueAssumption ==
  /\ IsFiniteSet(Proc) /\ IsFiniteSet(Cell) /\ Null \notin Cell
  /\ Elements \in [Proc -> Seq(Cell)]
  /\ \A c \in Cell : \E p \in Proc : \E i \in DOMAIN Elements[p] : Elements[p][i] = c
  /\ \A p, r \in Proc : \A i \in DOMAIN Elements[p], j \in DOMAIN Elements[r] :
       Elements[p][i] = Elements[r][j] => p = r /\ i = j
  /\ Dest \in [Proc -> SUBSET Proc]

Queue == {"free", "recv"} \X Proc
Owner(q) == q[2]
Home(c) == CHOOSE p \in Proc : \E i \in DOMAIN Elements[p] : Elements[p][i] = c

VARIABLES head, tail, my_head,  \* the fields of each queue
          next,                 \* next[c]: the link of each cell
          pc,                   \* where each process is in an operation
          queue,                \* the queue it operates on
          cell,                 \* its local variable e, or element
          prev                  \* its local variable r_prev

shared == <<head, tail, my_head, next>>
vars == <<head, tail, my_head, next, pc, queue, cell, prev>>

Linked(s, c) == LET i == CHOOSE i \in DOMAIN s : s[i] = c
                IN IF i = Len(s) THEN Null ELSE s[i + 1]

(***************************************************************************)
(* MPID_nem_init enqueues the cells of every process on its free queue.    *)
(***************************************************************************)
Init ==
  LET full(q) == q[1] = "free" /\ Elements[q[2]] # <<>> IN
  /\ head = [q \in Queue |-> IF full(q) THEN Elements[q[2]][1] ELSE Null]
  /\ tail = [q \in Queue |-> IF full(q) THEN Last(Elements[q[2]]) ELSE Null]
  /\ my_head = [q \in Queue |-> Null]
  /\ next = [c \in Cell |-> Linked(Elements[Home(c)], c)]
  /\ pc = [p \in Proc |-> "idle"]
  /\ queue = [p \in Proc |-> <<"free", p>>]
  /\ cell = [p \in Proc |-> Null]
  /\ prev = [p \in Proc |-> Null]

Goto(p, where) == pc' = [pc EXCEPT ![p] = where]

-----------------------------------------------------------------------------
(***************************************************************************)
(* MPID_nem_queue_empty, when it answers 0 (otherwise nothing changes):    *)
(* the test, the copy to the private head and the reset of the shared one. *)
(* MPID_nem_queue_dequeue is called only after that.                       *)
(***************************************************************************)
queue_empty_untested(p, q) ==
  /\ pc[p] = "idle" /\ Owner(q) = p
  /\ Goto(p, IF my_head[q] # Null THEN "dequeue" ELSE "shadow")
  /\ queue' = [queue EXCEPT ![p] = q]
  /\ UNCHANGED <<shared, cell, prev>>

queue_empty(p, q) ==
  /\ pc[p] = "idle" /\ Owner(q) = p
  /\ \/ my_head[q] # Null /\ Goto(p, "dequeue")
     \/ my_head[q] = Null /\ head[q] # Null /\ Goto(p, "shadow")
  /\ queue' = [queue EXCEPT ![p] = q]
  /\ UNCHANGED <<shared, cell, prev>>

CopyHead(p) ==
  /\ pc[p] = "shadow"
  /\ my_head' = [my_head EXCEPT ![queue[p]] = head[queue[p]]]
  /\ Goto(p, "reset")
  /\ UNCHANGED <<head, tail, next, queue, cell, prev>>

ResetHead(p) ==
  /\ pc[p] = "reset"
  /\ head' = [head EXCEPT ![queue[p]] = Null]
  /\ Goto(p, "dequeue")
  /\ UNCHANGED <<tail, my_head, next, queue, cell, prev>>

(***************************************************************************)
(* MPID_nem_queue_dequeue.  The private head is taken, and the link of its *)
(* cell read once.                                                         *)
(***************************************************************************)
TakeNext(p, e) ==
  /\ my_head' = [my_head EXCEPT ![queue[p]] = next[e]]
  /\ next' = [next EXCEPT ![e] = Null]
  /\ Goto(p, "holding")

queue_dequeue(p) ==
  LET q == queue[p]
      e == my_head[q]
  IN /\ pc[p] = "dequeue"
     /\ cell' = [cell EXCEPT ![p] = e]
     /\ \/ next[e] # Null /\ TakeNext(p, e)
        \/ /\ next[e] = Null
           /\ my_head' = [my_head EXCEPT ![q] = Null]
           /\ Goto(p, "cas")
           /\ UNCHANGED next
     /\ UNCHANGED <<head, tail, queue, prev>>

(***************************************************************************)
(* The cell seemed to be the last one: the queue is emptied if it still is *)
(* the tail, otherwise an enqueuer is about to link its cell to it.        *)
(***************************************************************************)
CAS_tail_no_wait(p) ==
  /\ pc[p] = "cas"
  /\ tail' = [tail EXCEPT ![queue[p]] = IF @ = cell[p] THEN Null ELSE @]
  /\ Goto(p, "holding")
  /\ UNCHANGED <<head, my_head, next, queue, cell, prev>>

CAS_tail(p) ==
  /\ pc[p] = "cas"
  /\ tail' = [tail EXCEPT ![queue[p]] = IF @ = cell[p] THEN Null ELSE @]
  /\ Goto(p, IF tail[queue[p]] = cell[p] THEN "holding" ELSE "spin")
  /\ UNCHANGED <<head, my_head, next, queue, cell, prev>>

SpinOnNext(p) ==
  /\ pc[p] = "spin"
  /\ next[cell[p]] # Null
  /\ TakeNext(p, cell[p])
  /\ UNCHANGED <<head, tail, queue, cell, prev>>

-----------------------------------------------------------------------------
(***************************************************************************)
(* MPID_nem_queue_enqueue: the tail is swapped, then the cell is linked to *)
(* the one before it.  A cell from the free queue is sent, a received cell *)
(* is released to its home.                                                *)
(***************************************************************************)
Targets(p) == IF queue[p][1] = "free" THEN {<<"recv", d>> : d \in Dest[p]}
                                      ELSE {<<"free", Home(cell[p])>>}

queue_enqueue(p, q) ==
  /\ pc[p] = "holding"
  /\ q \in Targets(p)
  /\ prev' = [prev EXCEPT ![p] = tail[q]]
  /\ tail' = [tail EXCEPT ![q] = cell[p]]
  /\ queue' = [queue EXCEPT ![p] = q]
  /\ Goto(p, "link")
  /\ UNCHANGED <<head, my_head, next, cell>>

LinkCell_head_if_unseen(p) ==
  /\ pc[p] = "link"
  /\ IF head[queue[p]] = Null
     THEN head' = [head EXCEPT ![queue[p]] = cell[p]] /\ UNCHANGED next
     ELSE next' = [next EXCEPT ![prev[p]] = cell[p]] /\ UNCHANGED head
  /\ cell' = [cell EXCEPT ![p] = Null]
  /\ Goto(p, "idle")
  /\ UNCHANGED <<tail, my_head, queue, prev>>

LinkCell(p) ==
  /\ pc[p] = "link"
  /\ IF prev[p] = Null
     THEN head' = [head EXCEPT ![queue[p]] = cell[p]] /\ UNCHANGED next
     ELSE next' = [next EXCEPT ![prev[p]] = cell[p]] /\ UNCHANGED head
  /\ cell' = [cell EXCEPT ![p] = Null]
  /\ Goto(p, "idle")
  /\ UNCHANGED <<tail, my_head, queue, prev>>

Step(p) == \/ CopyHead(p) \/ ResetHead(p)
           \/ queue_dequeue(p) \/ CAS_tail(p) \/ SpinOnNext(p)
           \/ \E q \in Queue : queue_enqueue(p, q)
           \/ LinkCell(p)

Next == \E p \in Proc : Step(p) \/ \E q \in Queue : queue_empty(p, q)

Spec == Init /\ [][Next]_vars

(***************************************************************************)
(* A process in the middle of an operation goes on, and the progress loop  *)
(* polls the receive queue again and again, whatever else it does.         *)
(***************************************************************************)
FairSpec == Spec /\ \A p \in Proc : /\ WF_vars(Step(p))
                                    /\ SF_vars(queue_empty(p, <<"recv", p>>))

-----------------------------------------------------------------------------
(***************************************************************************)
(* The refinement.  The cells of a queue in the order of the swaps: from   *)
(* the head, along the links and, where a link is missing, along the       *)
(* previous tail remembered by the enqueuer that has still to write it.    *)
(***************************************************************************)
Path(c, succ) ==
  LET nth[n \in Nat] == IF n = 0 THEN c
                         ELSE IF nth[n - 1] = Null THEN Null ELSE succ[nth[n - 1]]
      length == Cardinality({n \in 0..(Cardinality(Cell) - 1) : nth[n] # Null})
  IN [i \in 1..length |-> nth[i - 1]]

Linking(q, c) == {p \in Proc : pc[p] = "link" /\ queue[p] = q /\ prev[p] = c}
Pending(q, c) == LET s == {cell[p] : p \in Linking(q, c)}
                 IN IF s = {} THEN Null ELSE CHOOSE d \in s : TRUE

First(q) == IF pc[Owner(q)] \in {"cas", "spin"} /\ queue[Owner(q)] = q
            THEN cell[Owner(q)]
            ELSE IF my_head[q] # Null THEN my_head[q] ELSE head[q]

Ready(q) == Path(First(q), next)
Arriving(q) ==
  LET succ == [c \in Cell |-> IF next[c] # Null THEN next[c] ELSE Pending(q, c)]
  IN Path(Pending(q, IF Ready(q) = <<>> THEN Null ELSE Last(Ready(q))), succ)

Queues == INSTANCE CellQueues WITH
            ready <- [q \in Queue |-> Ready(q)],
            arriving <- [q \in Queue |-> Arriving(q)],
            held <- [p \in Proc |-> IF pc[p] = "holding" THEN cell[p] ELSE Null]

(***************************************************************************)
(* The queues are what their users take them for: no cell is lost,         *)
(* doubled or overtaken, whatever the interleaving of the enqueuers with   *)
(* each other and with the owner that empties the queue.                   *)
(***************************************************************************)
ImplementsQueues == Queues!Spec

-----------------------------------------------------------------------------
(***************************************************************************)
(* The types; and a queue that tested nonempty has a cell to dequeue.      *)
(***************************************************************************)
TypeOK ==
  /\ head \in [Queue -> Cell \cup {Null}]
  /\ tail \in [Queue -> Cell \cup {Null}]
  /\ my_head \in [Queue -> Cell \cup {Null}]
  /\ next \in [Cell -> Cell \cup {Null}]
  /\ pc \in [Proc -> {"idle", "shadow", "reset", "dequeue", "cas", "spin", "holding", "link"}]
  /\ queue \in [Proc -> Queue]
  /\ cell \in [Proc -> Cell \cup {Null}]
  /\ prev \in [Proc -> Cell \cup {Null}]
  /\ \A p \in Proc : pc[p] \in {"dequeue", "reset"} => my_head[queue[p]] # Null

(***************************************************************************)
(* A cell that is sent comes back: the receiver gets it, even if it waits  *)
(* for the link of an enqueuer, and its home finds it on the free queue.   *)
(***************************************************************************)
CellsReturn ==
  \A c \in Cell : (\E p \in Proc : tail[<<"recv", p>>] = c)
                   ~> Contains(Ready(<<"free", Home(c)>>), c)
===============================================================================
