----------------------------- MODULE ContextAlloc -----------------------------
(***************************************************************************)
(* What the allocation of context ids promises.  Every process has a pool  *)
(* of numbers.  A collective call takes one number, which every caller had *)
(* free, out of all their pools at once; each process gives its number     *)
(* back on its own, and only a number that it holds.                       *)
(***************************************************************************)
CONSTANTS Proc,         \* the processes
          Group,        \* the sets of processes that may call together
          Pool          \* Pool[p]: the numbers p starts with

VARIABLES free,         \* free[p]: the numbers of its pool p does not use
          held          \* held[p]: the numbers p has taken

Init == /\ free = Pool
        /\ held = [p \in Proc |-> {}]

Take(g) ==
  LET pool == free
      common == {n \in UNION {pool[p] : p \in g} : \A p \in g : n \in pool[p]}
  IN \E n \in common :
       /\ free' = [p \in Proc |-> pool[p] \ (IF p \in g THEN {n} ELSE {})]
       /\ held' = [p \in Proc |-> held[p] \cup (IF p \in g THEN {n} ELSE {})]

GiveBack(p) == \E n \in held[p] :
  /\ held' = [held EXCEPT ![p] = @ \ {n}]
  /\ free' = [free EXCEPT ![p] = @ \cup {n}]

Next == \/ \E g \in Group : Take(g)
        \/ \E p \in Proc : GiveBack(p)

Spec == Init /\ [][Next]_<<free, held>>
===============================================================================
