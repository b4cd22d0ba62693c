----------------------------- MODULE NemQueue_proofs -----------------------------
(***************************************************************************)
(* Proofs about NemQueue, for any number of processes and cells: a queue   *)
(* that tested nonempty has a cell, and the queues, whatever the           *)
(* interleaving of their accesses to memory, implement CellQueues.         *)
(*                                                                         *)
(* The invariant says that the cells of a queue are one sequence, in the   *)
(* order of the swaps of the tail.  The link to each cell of it (the head  *)
(* for the first one, the link of the cell before it for the others) has   *)
(* been written unless the cell is still in the hands of its enqueuer.     *)
(***************************************************************************)
EXTENDS NemQueue, FiniteSetTheorems, WellFoundedInduction, TLAPS

Places == {"idle", "shadow", "reset", "dequeue", "cas", "spin", "holding", "link"}

TypeInv ==
  /\ head \in [Queue -> Cell \cup {Null}]
  /\ tail \in [Queue -> Cell \cup {Null}]
  /\ my_head \in [Queue -> Cell \cup {Null}]
  /\ next \in [Cell -> Cell \cup {Null}]
  /\ pc \in [Proc -> Places]
  /\ queue \in [Proc -> Queue]
  /\ cell \in [Proc -> Cell \cup {Null}]
  /\ prev \in [Proc -> Cell \cup {Null}]

-----------------------------------------------------------------------------
(***************************************************************************)
(* One queue, whose cells are s.                                           *)
(***************************************************************************)
At(p, S, q) == pc[p] \in S /\ queue[p] = q

(* the cell c of q is not linked yet *)
Unlinked(q, c) == \E p \in Proc : At(p, {"link"}, q) /\ cell[p] = c

Before(s, i) == IF i = 1 THEN Null ELSE s[i - 1]
Link(q, s, i) == IF i = 1 THEN First(q) ELSE next[s[i - 1]]

LinksInv(q, s) ==
  /\ \A i \in 1..Len(s) : Link(q, s, i) = IF Unlinked(q, s[i]) THEN Null ELSE s[i]
  /\ IF s = <<>> THEN First(q) = Null /\ tail[q] = Null
                 ELSE next[s[Len(s)]] = Null /\ tail[q] = s[Len(s)]

(* a cell to be linked is in the queue, and r_prev is the one before it *)
EnqueuersInv(q, s) ==
  \A p \in Proc : At(p, {"link"}, q) =>
                    \E i \in 1..Len(s) : cell[p] = s[i] /\ prev[p] = Before(s, i)

(* the two heads: both are set only between the copy and the reset *)
HeadsInv(q) ==
  LET p == Owner(q) IN
  /\ At(p, {"shadow"}, q) => head[q] # Null
  /\ At(p, {"reset", "dequeue"}, q) => my_head[q] # Null
  /\ At(p, {"cas", "spin"}, q) => my_head[q] = Null /\ cell[p] \in Cell
  /\ head[q] # Null => my_head[q] = Null \/ At(p, {"reset"}, q)
  /\ head[q] # Null => ~At(p, {"cas", "spin"}, q)

QueueInv(q, s) == LinksInv(q, s) /\ EnqueuersInv(q, s) /\ HeadsInv(q)

(***************************************************************************)
(* All queues: a cell is at one place, in a queue or in hand, and only the *)
(* owner dequeues.                                                         *)
(***************************************************************************)
Distinct(z) == \A q, r \in Queue : \A i \in 1..Len(z[q]), j \in 1..Len(z[r]) :
                 z[q][i] = z[r][j] => q = r /\ i = j

InHand(z) ==
  /\ \A p \in Proc : pc[p] \in {"holding", "link"} => cell[p] \in Cell
  /\ \A p \in Proc : pc[p] = "holding" =>
       next[cell[p]] = Null /\ \A q \in Queue : \A i \in 1..Len(z[q]) : z[q][i] # cell[p]
  /\ \A p, r \in Proc : pc[p] \in {"holding", "link"} /\ pc[r] \in {"holding", "link"} =>
       (cell[p] = cell[r] => p = r)

OwnersInv == \A p \in Proc : pc[p] \in {"shadow", "reset", "dequeue", "cas", "spin"} =>
               Owner(queue[p]) = p

LineInv(z) == /\ TypeInv /\ OwnersInv /\ Distinct(z) /\ InHand(z)
              /\ \A q \in Queue : QueueInv(q, z[q])

Lines == [Queue -> Seq(Cell)]

QueuesInv == \E z \in Lines : LineInv(z)

-----------------------------------------------------------------------------
(***************************************************************************)
(* Numbers, and the path along the links.                                  *)
(***************************************************************************)
LEMMA Constants ==
  IsFiniteSet(Proc) /\ IsFiniteSet(Cell) /\ Null \notin Cell /\ Elements \in [Proc -> Seq(Cell)]
BY NemQueueAssumption

LEMMA Intervals ==
  ASSUME NEW n \in Nat
  PROVE  /\ IsFiniteSet(1..n) /\ Cardinality(1..n) = n
         /\ Cardinality(0..(n - 1)) = n
<1>1. 1 \in Int /\ 0 \in Int /\ n \in Int /\ n - 1 \in Int
  OBVIOUS
<1>2. /\ IsFiniteSet(1..n)
      /\ Cardinality(1..n) = IF 1 > n THEN 0 ELSE n - 1 + 1
      /\ Cardinality(0..(n - 1)) = IF 0 > n - 1 THEN 0 ELSE (n - 1) - 0 + 1
  BY <1>1, FS_Interval, Zenon
<1>3. QED
  BY <1>2

LEMMA Positive == \A k \in Nat : 0 < k <=> k # 0
OBVIOUS

LEMMA Least ==
  ASSUME NEW B \in SUBSET Nat, B # {}
  PROVE  \E m \in B : \A n \in B : m <= n
<1> DEFINE R == OpToRel(<, Nat)
<1>1. \A x, y \in Nat : <<y, x>> \in R <=> y < x
  BY ZenonT(60) DEF OpToRel
<1>2. IsWellFoundedOn(R, Nat)
  BY NatLessThanWellFounded
<1> HIDE DEF R
<1>3. PICK m \in B : \A n \in B : ~(<<n, m>> \in R)
  BY <1>2, WFMin
<1>4. ASSUME NEW n \in B PROVE m <= n
  <2>1. ~(n < m)
    BY <1>1, <1>3
  <2>2. QED
    BY <2>1
<1>5. QED
  BY <1>4

(* the cells met on the way from c along succ *)
Walks(w, c, succ) == w = [n \in Nat |-> IF n = 0 THEN c
                                        ELSE IF w[n - 1] = Null THEN Null ELSE succ[w[n - 1]]]
Walk(c, succ) == CHOOSE w : w = [n \in Nat |-> IF n = 0 THEN c
                                        ELSE IF w[n - 1] = Null THEN Null ELSE succ[w[n - 1]]]

LEMMA PathWalk ==
  ASSUME NEW c, NEW succ
  PROVE  Path(c, succ) =
           LET w == Walk(c, succ)
           IN [i \in 1..Cardinality({n \in 0..(Cardinality(Cell) - 1) : w[n] # Null}) |-> w[i - 1]]
BY DEF Path, Walk

LEMMA WalkUnique ==
  ASSUME NEW c, NEW succ, NEW v, Walks(v, c, succ), NEW w, Walks(w, c, succ)
  PROVE  v = w
<1> DEFINE B == {n \in Nat : v[n] # w[n]}
<1>1. /\ v = [n \in Nat |-> v[n]] /\ w = [n \in Nat |-> w[n]]
      /\ v[0] = c /\ w[0] = c
      /\ \A n \in Nat \ {0} : /\ v[n] = IF v[n - 1] = Null THEN Null ELSE succ[v[n - 1]]
                              /\ w[n] = IF w[n - 1] = Null THEN Null ELSE succ[w[n - 1]]
  BY DEF Walks
<1>2. CASE B # {}
  <2>1. PICK m \in B : \A n \in B : m <= n
    BY <1>2, Least
  <2>2. m # 0 /\ m \in Nat
    BY <1>1
  <2>3. m - 1 \in Nat /\ ~(m <= m - 1)
    BY <2>2
  <2>4. v[m - 1] = w[m - 1]
    BY <2>1, <2>3
  <2>5. v[m] = w[m]
    BY <1>1, <2>2, <2>4
  <2>6. QED
    BY <2>5
<1>3. CASE B = {}
  <2>1. \A n \in Nat : v[n] = w[n]
    BY <1>3
  <2>2. QED
    BY <1>1, <2>1
<1>4. QED
  BY <1>2, <1>3

(* the path from the head of s, if the links are those of s, is s *)
IsChain(succ, s, c) ==
  /\ c = IF s = <<>> THEN Null ELSE s[1]
  /\ \A i \in 1..Len(s) : succ[s[i]] = IF i = Len(s) THEN Null ELSE s[i + 1]

LEMMA PathIs ==
  ASSUME NEW s \in Seq(Cell), \A i, j \in 1..Len(s) : s[i] = s[j] => i = j,
         NEW c, NEW succ, IsChain(succ, s, c)
  PROVE  Path(c, succ) = s
<1> DEFINE f == [n \in Nat |-> IF n < Len(s) THEN s[n + 1] ELSE Null]
           M == {n \in 0..(Cardinality(Cell) - 1) : f[n] # Null}
<1>1. Len(s) \in Nat /\ DOMAIN s = 1..Len(s) /\ (s = <<>> <=> Len(s) = 0)
      /\ \A i \in 1..Len(s) : s[i] \in Cell /\ s[i] # Null
  BY Constants
<1>2. /\ \A n \in Nat : f[n] = IF n < Len(s) THEN s[n + 1] ELSE Null
      /\ f = [n \in Nat |-> f[n]]
  OBVIOUS
<1> HIDE DEF f, M
<1>3. Walk(c, succ) = f
  <2>1. ASSUME NEW n \in Nat
        PROVE  f[n] = IF n = 0 THEN c
                      ELSE IF f[n - 1] = Null THEN Null ELSE succ[f[n - 1]]
    <3>1. CASE n = 0
      <4>1. Len(s) \in Nat
        BY <1>1
      <4>2. f[n] = IF Len(s) = 0 THEN Null ELSE s[1]
        BY <1>2, <3>1, <4>1, Positive
      <4>3. QED
        BY <1>1, <3>1, <4>2 DEF IsChain
    <3>2. CASE n # 0 /\ n - 1 < Len(s)
      <4>1. n - 1 \in Nat /\ n \in 1..Len(s) /\ (n - 1) + 1 = n /\ (n < Len(s) <=> n # Len(s))
        <5>1. Len(s) \in Nat
          BY <1>1
        <5>2. QED
          BY ONLY <3>2, <5>1, n \in Nat
      <4>2. f[n - 1] = s[n] /\ s[n] # Null
        BY <1>1, <1>2, <3>2, <4>1
      <4>3. succ[s[n]] = IF n = Len(s) THEN Null ELSE s[n + 1]
        BY <4>1 DEF IsChain
      <4>4. f[n] = succ[s[n]]
        BY <1>2, <4>1, <4>3
      <4>5. QED
        BY <3>2, <4>2, <4>4
    <3>3. CASE n # 0 /\ ~(n - 1 < Len(s))
      <4>1. n - 1 \in Nat /\ ~(n < Len(s))
        BY <1>1, <3>3
      <4>2. f[n - 1] = Null /\ f[n] = Null
        BY <1>2, <3>3, <4>1
      <4>3. QED
        BY <3>3, <4>2
    <3>4. QED
      BY <3>1, <3>2, <3>3
  <2>2. Walks(f, c, succ)
    BY <1>2, <2>1 DEF Walks
  <2>3. Walks(Walk(c, succ), c, succ)
    BY <2>2 DEF Walk, Walks
  <2>4. QED
    BY <2>2, <2>3, WalkUnique
<1>4. Len(s) <= Cardinality(Cell) /\ Cardinality(Cell) \in Nat
  <2>1. s \in [1..Len(s) -> Cell]
    BY <1>1
  <2>2. s \in Injection(1..Len(s), Cell)
    BY <2>1 DEF Injection, IsInjective
  <2>3. IsFiniteSet(1..Len(s)) /\ Cardinality(1..Len(s)) = Len(s)
    BY ONLY <1>1, Intervals
  <2>4. QED
    BY <2>2, <2>3, Constants, FS_Injection, FS_CardinalityType
<1>5. M = 0..(Len(s) - 1)
  BY <1>1, <1>2, <1>4 DEF M
<1>6. Cardinality(M) = Len(s)
  <2>1. Cardinality(0..(Len(s) - 1)) = Len(s)
    BY ONLY <1>1, Intervals
  <2>2. QED
    BY ONLY <1>5, <2>1
<1>7. Path(c, succ) = [i \in 1..Len(s) |-> f[i - 1]]
  BY <1>3, <1>6, PathWalk DEF M
<1>8. \A i \in 1..Len(s) : f[i - 1] = s[i]
  BY <1>1, <1>2
<1>9. s = [i \in 1..Len(s) |-> s[i]]
  BY <1>1
<1>10. QED
  BY <1>7, <1>8, <1>9

-----------------------------------------------------------------------------
(***************************************************************************)
(* What a step of p on the queue q leaves alone.                           *)
(***************************************************************************)
Working == {"shadow", "reset", "dequeue", "cas", "spin", "link"}

OthersStay(p) == \A r \in Proc : r # p =>
  pc'[r] = pc[r] /\ queue'[r] = queue[r] /\ cell'[r] = cell[r] /\ prev'[r] = prev[r]

(* p is not at work on q, neither before nor after *)
Elsewhere(p, q) == /\ ~(pc[p] \in Working /\ queue[p] = q)
                   /\ ~(pc'[p] \in Working /\ queue'[p] = q)

QueueStays(q, s) ==
  /\ head'[q] = head[q] /\ tail'[q] = tail[q] /\ my_head'[q] = my_head[q]
  /\ \A i \in 1..Len(s) : next'[s[i]] = next[s[i]]

LEMMA Owners == \A q \in Queue : Owner(q) \in Proc
BY DEF Queue, Owner

LEMMA OtherQueue ==
  ASSUME NEW p \in Proc, OthersStay(p), NEW q \in Queue, Elsewhere(p, q),
         NEW s \in Seq(Cell), QueueStays(q, s), QueueInv(q, s)
  PROVE  QueueInv(q, s)' /\ \A c : Unlinked(q, c)' <=> Unlinked(q, c)
<1>1. ASSUME NEW S \in SUBSET Working, NEW r \in Proc PROVE At(r, S, q)' <=> At(r, S, q)
  BY <1>1 DEF At, Elsewhere, OthersStay, Working
<1>2. \A r \in Proc : At(r, Working, q) => cell'[r] = cell[r] /\ prev'[r] = prev[r]
  BY DEF At, Elsewhere, OthersStay
<1>3. {"link"} \in SUBSET Working /\ {"shadow"} \in SUBSET Working /\ {"reset"} \in SUBSET Working
      /\ {"reset", "dequeue"} \in SUBSET Working /\ {"cas", "spin"} \in SUBSET Working
  BY DEF Working
<1>4. \A r \in Proc : At(r, {"link"}, q) \/ At(r, {"cas", "spin"}, q) => At(r, Working, q)
  BY <1>3 DEF At
<1>5. \A c : Unlinked(q, c)' <=> Unlinked(q, c)
  BY <1>1, <1>2, <1>3, <1>4 DEF Unlinked
<1>6. First(q)' = First(q)
  <2>1. At(Owner(q), {"cas", "spin"}, q)' <=> At(Owner(q), {"cas", "spin"}, q)
    BY <1>1, <1>3, Owners
  <2>2. At(Owner(q), {"cas", "spin"}, q) => cell'[Owner(q)] = cell[Owner(q)]
    BY <1>2, <1>4, Owners
  <2>3. QED
    BY <2>1, <2>2 DEF First, At, QueueStays
<1>7. LinksInv(q, s)'
  <2>1. ASSUME NEW i \in 1..Len(s) PROVE Link(q, s, i)' = Link(q, s, i)
    <3>1. i # 1 => i - 1 \in 1..Len(s)
      OBVIOUS
    <3>2. QED
      BY <1>6, <3>1 DEF Link, QueueStays
  <2>2. s # <<>> => Len(s) \in 1..Len(s)
    OBVIOUS
  <2>3. QED
    BY <1>5, <1>6, <2>1, <2>2 DEF QueueInv, LinksInv, QueueStays
<1>8. EnqueuersInv(q, s)'
  BY <1>1, <1>2, <1>3, <1>4 DEF QueueInv, EnqueuersInv, Before
<1>9. HeadsInv(q)'
  BY <1>1, <1>2, <1>3, <1>4, Owners DEF QueueInv, HeadsInv, QueueStays
<1>10. QED
  BY <1>5, <1>7, <1>8, <1>9 DEF QueueInv

-----------------------------------------------------------------------------
(***************************************************************************)
(* A step of the owner p of q that takes no cell: it goes to w, and e, h   *)
(* and m are its cell and the two heads after it.                          *)
(***************************************************************************)
Dequeuing == {"shadow", "reset", "dequeue", "cas", "spin"}

OwnerStep(p, q, w, e, h, m) ==
  /\ pc' = [pc EXCEPT ![p] = w] /\ queue' = [queue EXCEPT ![p] = q]
  /\ cell' = [cell EXCEPT ![p] = e]
  /\ head' = [head EXCEPT ![q] = h] /\ my_head' = [my_head EXCEPT ![q] = m]
  /\ UNCHANGED <<tail, next, prev>>

Held(p) == IF pc[p] = "holding" THEN cell[p] ELSE Null

(* the sequences stay, and so does what their owners see *)
Still == /\ \A q \in Queue : \A c : Unlinked(q, c)' <=> Unlinked(q, c)
         /\ \A p \in Proc : Held(p)' = Held(p)

LEMMA PcTypes ==
  /\ Dequeuing \in SUBSET Places /\ Working \in SUBSET Places
  /\ \A w \in Dequeuing : w \in Places /\ w \in Working /\ w \notin {"holding", "link", "idle"}
BY DEF Dequeuing, Places, Working

LEMMA OwnerQuiet ==
  ASSUME NEW z \in Lines, LineInv(z), NEW p \in Proc, NEW q \in Queue, Owner(q) = p,
         pc[p] = "idle" \/ (pc[p] \in Dequeuing /\ queue[p] = q),
         NEW w \in Dequeuing, NEW e \in Cell \cup {Null}, NEW h \in Cell \cup {Null},
         NEW m \in Cell \cup {Null}, OwnerStep(p, q, w, e, h, m),
         First(q)' = First(q), HeadsInv(q)'
  PROVE  LineInv(z)' /\ Still
<1>1. TypeInv /\ OwnersInv /\ Distinct(z) /\ InHand(z) /\ \A r \in Queue : QueueInv(r, z[r])
  BY DEF LineInv
<1>2. /\ pc'[p] = w /\ queue'[p] = q /\ cell'[p] = e /\ prev'[p] = prev[p]
      /\ OthersStay(p)
  BY <1>1 DEF TypeInv, OwnerStep, OthersStay
<1>3. \A r \in Queue : r # q => head'[r] = head[r] /\ my_head'[r] = my_head[r]
  BY <1>1 DEF TypeInv, OwnerStep
<1>4. tail' = tail /\ next' = next
  BY DEF OwnerStep
<1>5. pc[p] \notin {"holding", "link"} /\ pc'[p] \notin {"holding", "link"}
  BY <1>2, PcTypes DEF Dequeuing
<1>6. TypeInv'
  BY <1>1, PcTypes DEF TypeInv, OwnerStep
<1>7. OwnersInv'
  BY <1>1, <1>2 DEF OwnersInv, OthersStay
<1>8. Distinct(z)'
  BY <1>1 DEF Distinct
<1>9. InHand(z)'
  BY <1>1, <1>2, <1>4, <1>5 DEF InHand, OthersStay
<1>10. ASSUME NEW r \in Queue, r # q
       PROVE  QueueInv(r, z[r])' /\ \A c : Unlinked(r, c)' <=> Unlinked(r, c)
  <2>1. Elsewhere(p, r)
    BY <1>2, <1>10 DEF Elsewhere, Dequeuing, Working
  <2>2. QueueStays(r, z[r])
    BY <1>3, <1>4, <1>10 DEF QueueStays
  <2>3. z[r] \in Seq(Cell)
    BY DEF Lines
  <2>4. QED
    BY <1>1, <1>2, <2>1, <2>2, <2>3, OtherQueue
<1>11. \A r \in Proc : /\ At(r, {"link"}, q)' <=> At(r, {"link"}, q)
                       /\ At(r, {"link"}, q) => cell'[r] = cell[r] /\ prev'[r] = prev[r]
  BY <1>2, <1>5 DEF At, OthersStay
<1>12. \A c : Unlinked(q, c)' <=> Unlinked(q, c)
  BY <1>11 DEF Unlinked
<1>13. QueueInv(q, z[q])'
  <2>1. LinksInv(q, z[q])'
    <3>1. \A i : Link(q, z[q], i)' = Link(q, z[q], i)
      BY <1>4 DEF Link
    <3>2. QED
      BY <1>1, <1>4, <1>12, <3>1 DEF QueueInv, LinksInv
  <2>2. EnqueuersInv(q, z[q])'
    BY <1>1, <1>11 DEF QueueInv, EnqueuersInv, Before
  <2>3. QED
    BY <2>1, <2>2 DEF QueueInv
<1>14. Still
  <2>1. \A r \in Queue : \A c : Unlinked(r, c)' <=> Unlinked(r, c)
    BY <1>10, <1>12
  <2>2. \A r \in Proc : Held(r)' = Held(r)
    BY <1>2, <1>5 DEF Held, OthersStay
  <2>3. QED
    BY <2>1, <2>2 DEF Still
<1>15. QED
  BY <1>6, <1>7, <1>8, <1>9, <1>10, <1>13, <1>14 DEF LineInv

LEMMA EmptyStep ==
  ASSUME NEW z \in Lines, LineInv(z), NEW p \in Proc, NEW q \in Queue, queue_empty(p, q)
  PROVE  LineInv(z)' /\ Still
<1>1. TypeInv /\ HeadsInv(q) /\ pc[p] = "idle" /\ Owner(q) = p
  BY DEF LineInv, QueueInv, queue_empty
<1>2. PICK w \in {"dequeue", "shadow"} :
        /\ pc' = [pc EXCEPT ![p] = w]
        /\ IF w = "dequeue" THEN my_head[q] # Null ELSE my_head[q] = Null /\ head[q] # Null
  BY DEF queue_empty, Goto
<1>3. OwnerStep(p, q, w, cell[p], head[q], my_head[q])
  BY <1>1, <1>2 DEF queue_empty, shared, OwnerStep, TypeInv
<1>4. First(q)' = First(q)
  BY <1>1, <1>2, <1>3 DEF OwnerStep, First, TypeInv
<1>5. HeadsInv(q)'
  BY <1>1, <1>2, <1>3 DEF OwnerStep, HeadsInv, TypeInv, At
<1>6. w \in Dequeuing /\ cell[p] \in Cell \cup {Null} /\ head[q] \in Cell \cup {Null}
      /\ my_head[q] \in Cell \cup {Null}
  BY <1>1 DEF TypeInv, Dequeuing
<1>7. QED
  BY <1>1, <1>3, <1>4, <1>5, <1>6, OwnerQuiet

LEMMA OwnerFacts ==
  ASSUME NEW z \in Lines, LineInv(z), NEW p \in Proc, pc[p] \in Dequeuing, NEW q, q = queue[p]
  PROVE  /\ q \in Queue /\ Owner(q) = p /\ TypeInv /\ QueueInv(q, z[q])
         /\ cell[p] \in Cell \cup {Null} /\ head[q] \in Cell \cup {Null}
         /\ my_head[q] \in Cell \cup {Null}
<1>1. TypeInv /\ OwnersInv /\ \A r \in Queue : QueueInv(r, z[r])
  BY DEF LineInv
<1>2. QED
  BY <1>1 DEF TypeInv, OwnersInv, Dequeuing

LEMMA CopyStep ==
  ASSUME NEW z \in Lines, LineInv(z), NEW p \in Proc, CopyHead(p)
  PROVE  LineInv(z)' /\ Still
<1>1. PICK q : q = queue[p]
  OBVIOUS
<1>2. pc[p] = "shadow" /\ pc[p] \in Dequeuing
  BY DEF CopyHead, Dequeuing
<1>3. /\ q \in Queue /\ Owner(q) = p /\ TypeInv /\ HeadsInv(q)
      /\ cell[p] \in Cell \cup {Null} /\ head[q] \in Cell \cup {Null}
  BY <1>1, <1>2, OwnerFacts DEF QueueInv
<1>4. OwnerStep(p, q, "reset", cell[p], head[q], head[q])
  BY <1>1, <1>3 DEF CopyHead, Goto, OwnerStep, TypeInv
<1>5. head[q] # Null /\ my_head[q] = Null
  BY <1>1, <1>2, <1>3 DEF HeadsInv, At
<1>6. First(q)' = First(q)
  BY <1>1, <1>2, <1>3, <1>4, <1>5 DEF OwnerStep, First, TypeInv
<1>7. HeadsInv(q)'
  BY <1>1, <1>3, <1>4, <1>5 DEF OwnerStep, HeadsInv, TypeInv, At
<1>8. "reset" \in Dequeuing
  BY DEF Dequeuing
<1>9. QED
  BY <1>1, <1>2, <1>3, <1>4, <1>6, <1>7, <1>8, OwnerQuiet

LEMMA ResetStep ==
  ASSUME NEW z \in Lines, LineInv(z), NEW p \in Proc, ResetHead(p)
  PROVE  LineInv(z)' /\ Still
<1>1. PICK q : q = queue[p]
  OBVIOUS
<1>2. pc[p] = "reset" /\ pc[p] \in Dequeuing
  BY DEF ResetHead, Dequeuing
<1>3. /\ q \in Queue /\ Owner(q) = p /\ TypeInv /\ HeadsInv(q)
      /\ cell[p] \in Cell \cup {Null} /\ my_head[q] \in Cell \cup {Null}
  BY <1>1, <1>2, OwnerFacts DEF QueueInv
<1>4. OwnerStep(p, q, "dequeue", cell[p], Null, my_head[q])
  BY <1>1, <1>3 DEF ResetHead, Goto, OwnerStep, TypeInv
<1>5. my_head[q] # Null
  BY <1>1, <1>2, <1>3 DEF HeadsInv, At
<1>6. First(q)' = First(q)
  BY <1>1, <1>2, <1>3, <1>4, <1>5 DEF OwnerStep, First, TypeInv
<1>7. HeadsInv(q)'
  BY <1>1, <1>3, <1>4, <1>5 DEF OwnerStep, HeadsInv, TypeInv, At
<1>8. "dequeue" \in Dequeuing
  BY DEF Dequeuing
<1>9. QED
  BY <1>1, <1>2, <1>3, <1>4, <1>6, <1>7, <1>8, OwnerQuiet

(* the cell at the private head seems to be the last one *)
LEMMA SeemsLastStep ==
  ASSUME NEW z \in Lines, LineInv(z), NEW p \in Proc, queue_dequeue(p),
         next[my_head[queue[p]]] = Null
  PROVE  LineInv(z)' /\ Still
<1>1. PICK q, e : q = queue[p] /\ e = my_head[q]
  OBVIOUS
<1>2. pc[p] = "dequeue" /\ pc[p] \in Dequeuing
  BY DEF queue_dequeue, Dequeuing
<1>3. /\ q \in Queue /\ Owner(q) = p /\ TypeInv /\ HeadsInv(q)
      /\ e \in Cell \cup {Null} /\ head[q] \in Cell \cup {Null}
  BY <1>1, <1>2, OwnerFacts DEF QueueInv
<1>4. OwnerStep(p, q, "cas", e, head[q], Null)
  BY <1>1, <1>3 DEF queue_dequeue, Goto, OwnerStep, TypeInv
<1>5. my_head[q] # Null /\ head[q] = Null
  BY <1>1, <1>2, <1>3 DEF HeadsInv, At
<1>6. First(q)' = First(q)
  BY <1>1, <1>2, <1>3, <1>4, <1>5 DEF OwnerStep, First, TypeInv
<1>7. HeadsInv(q)'
  BY <1>1, <1>3, <1>4, <1>5 DEF OwnerStep, HeadsInv, TypeInv, At
<1>8. "cas" \in Dequeuing
  BY DEF Dequeuing
<1>9. QED
  BY <1>1, <1>2, <1>3, <1>4, <1>6, <1>7, <1>8, OwnerQuiet

(* another cell is about to be linked to it *)
LEMMA NotLastStep ==
  ASSUME NEW z \in Lines, LineInv(z), NEW p \in Proc, CAS_tail(p),
         tail[queue[p]] # cell[p]
  PROVE  LineInv(z)' /\ Still
<1>1. PICK q : q = queue[p]
  OBVIOUS
<1>2. pc[p] = "cas" /\ pc[p] \in Dequeuing
  BY DEF CAS_tail, Dequeuing
<1>3. /\ q \in Queue /\ Owner(q) = p /\ TypeInv /\ HeadsInv(q)
      /\ cell[p] \in Cell \cup {Null} /\ head[q] \in Cell \cup {Null}
      /\ my_head[q] \in Cell \cup {Null}
  BY <1>1, <1>2, OwnerFacts DEF QueueInv
<1>4. OwnerStep(p, q, "spin", cell[p], head[q], my_head[q])
  BY <1>1, <1>3 DEF CAS_tail, Goto, OwnerStep, TypeInv
<1>5. First(q)' = First(q)
  BY <1>1, <1>2, <1>3, <1>4 DEF OwnerStep, First, TypeInv
<1>6. HeadsInv(q)'
  BY <1>1, <1>2, <1>3, <1>4 DEF OwnerStep, HeadsInv, TypeInv, At
<1>7. "spin" \in Dequeuing
  BY DEF Dequeuing
<1>8. QED
  BY <1>1, <1>2, <1>3, <1>4, <1>5, <1>6, <1>7, OwnerQuiet

-----------------------------------------------------------------------------
(***************************************************************************)
(* The owner p of q takes its first cell e.                                *)
(***************************************************************************)
OwnerTakes(p, q, e) ==
  /\ pc' = [pc EXCEPT ![p] = "holding"] /\ cell' = [cell EXCEPT ![p] = e]
  /\ my_head' = [my_head EXCEPT ![q] = next[e]] /\ next' = [next EXCEPT ![e] = Null]
  /\ tail' = [tail EXCEPT ![q] = IF @ = e THEN Null ELSE @]
  /\ UNCHANGED <<head, queue, prev>>

(* s has lost its first cell *)
Popped(s, t) == /\ Len(t) = Len(s) - 1 /\ Len(s) > 0
                /\ \A i \in 1..Len(t) : i + 1 \in 1..Len(s) /\ t[i] = s[i + 1]
                /\ \A i \in 1..Len(s) : i # 1 => i - 1 \in 1..Len(t) /\ t[i - 1] = s[i]

LEMMA TailPopped ==
  ASSUME NEW s \in Seq(Cell), s # <<>>
  PROVE  Tail(s) \in Seq(Cell) /\ Popped(s, Tail(s))
BY DEF Popped

Taken(z, u, p, q, e) ==
  /\ z[q] # <<>> /\ e = z[q][1] /\ ~Unlinked(q, e)
  /\ LineInv(u)'
  /\ \A r \in Queue : \A c : Unlinked(r, c)' <=> Unlinked(r, c)
  /\ Held(p) = Null /\ Held(p)' = e /\ \A r \in Proc : r # p => Held(r)' = Held(r)

LEMMA TakeStep ==
  ASSUME NEW z \in Lines, LineInv(z), NEW p \in Proc, pc[p] \in Dequeuing,
         NEW q, q = queue[p], NEW e \in Cell, First(q) = e, head[q] = Null,
         next[e] # Null \/ tail[q] = e, OwnerTakes(p, q, e),
         NEW u, u = [z EXCEPT ![q] = Tail(@)]
  PROVE  u \in Lines /\ Taken(z, u, p, q, e)
<1>1. /\ q \in Queue /\ Owner(q) = p
      /\ TypeInv /\ OwnersInv /\ Distinct(z) /\ InHand(z) /\ \A r \in Queue : QueueInv(r, z[r])
  BY OwnerFacts DEF LineInv
<1>2. PICK s : s = z[q]
  OBVIOUS
<1>3. PICK t : t = Tail(s)
  OBVIOUS
<1>4. s \in Seq(Cell) /\ LinksInv(q, s) /\ EnqueuersInv(q, s) /\ HeadsInv(q) /\ e # Null
  BY <1>1, <1>2, Constants DEF Lines, QueueInv
<1>5. s # <<>>
  BY <1>4 DEF LinksInv
<1>6. t \in Seq(Cell) /\ Popped(s, t)
  BY <1>3, <1>4, <1>5, TailPopped
<1>7. Len(s) \in Nat /\ Len(t) \in Nat /\ 1 \in 1..Len(s) /\ Len(s) \in 1..Len(s)
      /\ \A i \in 1..Len(s) : s[i] \in Cell
  BY <1>4, <1>5
<1>8. e = s[1] /\ ~Unlinked(q, e)
  BY <1>4, <1>7 DEF LinksInv, Link
<1>9. \A i, j \in 1..Len(s) : s[i] = s[j] => i = j
  BY <1>1, <1>2 DEF Distinct
<1>10. u \in Lines /\ u[q] = t /\ \A r \in Queue : r # q => u[r] = z[r]
  BY <1>1, <1>2, <1>3, <1>6 DEF Lines
<1>11. /\ pc'[p] = "holding" /\ cell'[p] = e /\ queue'[p] = q /\ prev'[p] = prev[p]
       /\ OthersStay(p)
  BY <1>1 DEF TypeInv, OwnerTakes, OthersStay
<1>12. /\ \A r \in Queue : head'[r] = head[r]
       /\ \A r \in Queue : r # q => my_head'[r] = my_head[r] /\ tail'[r] = tail[r]
       /\ my_head'[q] = next[e] /\ tail'[q] = IF tail[q] = e THEN Null ELSE tail[q]
       /\ next'[e] = Null /\ \A c \in Cell : c # e => next'[c] = next[c]
  BY <1>1 DEF TypeInv, OwnerTakes
<1>13. TypeInv'
  <2>1. next[e] \in Cell \cup {Null}
    BY <1>1 DEF TypeInv
  <2>2. "holding" \in Places
    BY DEF Places
  <2>3. QED
    BY <1>1, <2>1, <2>2 DEF TypeInv, OwnerTakes
<1>14. OwnersInv'
  BY <1>1, <1>11 DEF OwnersInv, OthersStay
<1>15. pc[p] \notin {"link", "holding"}
  BY DEF Dequeuing
<1>16. \A r \in Queue : \A c : Unlinked(r, c)' <=> Unlinked(r, c)
  BY <1>11, <1>15 DEF Unlinked, At, OthersStay
<1>17. \A r \in Queue : \A i \in 1..Len(z[r]) : z[r][i] = e => r = q /\ i = 1
  BY <1>1, <1>2, <1>7, <1>8 DEF Distinct
<1>18. ASSUME NEW r \in Queue, NEW j \in 1..Len(u[r])
       PROVE  /\ u[r][j] # e
              /\ \E i \in 1..Len(z[r]) : u[r][j] = z[r][i] /\ i = (IF r = q THEN j + 1 ELSE j)
  <2>1. CASE r = q
    <3>1. j + 1 \in 1..Len(s) /\ t[j] = s[j + 1] /\ j + 1 # 1
      BY <1>6, <1>10, <2>1 DEF Popped
    <3>2. QED
      BY <1>2, <1>10, <1>17, <2>1, <3>1
  <2>2. CASE r # q
    BY <1>10, <1>17, <2>2
  <2>3. QED
    BY <2>1, <2>2
<1>19. Distinct(u)'
  <2>1. ASSUME NEW r \in Queue, NEW y \in Queue, NEW i \in 1..Len(u[r]), NEW j \in 1..Len(u[y]),
               u[r][i] = u[y][j]
        PROVE  r = y /\ i = j
    <3>1. PICK k \in 1..Len(z[r]) : u[r][i] = z[r][k] /\ k = (IF r = q THEN i + 1 ELSE i)
      BY <1>18
    <3>2. PICK l \in 1..Len(z[y]) : u[y][j] = z[y][l] /\ l = (IF y = q THEN j + 1 ELSE j)
      BY <1>18
    <3>3. r = y /\ k = l
      BY <1>1, <2>1, <3>1, <3>2 DEF Distinct
    <3>4. QED
      BY <3>1, <3>2, <3>3
  <2>2. QED
    BY <2>1 DEF Distinct
<1>20. ASSUME NEW r \in Proc, r # p, pc[r] \in {"holding", "link"} PROVE cell[r] # e
  <2>1. CASE pc[r] = "holding"
    BY <1>1, <1>2, <1>7, <1>8, <2>1 DEF InHand
  <2>2. CASE pc[r] = "link"
    <3>1. PICK y : y = queue[r]
      OBVIOUS
    <3>2. y \in Queue /\ At(r, {"link"}, y)
      BY <1>1, <2>2, <3>1 DEF TypeInv, At
    <3>3. PICK i \in 1..Len(z[y]) : cell[r] = z[y][i]
      BY <1>1, <3>2 DEF QueueInv, EnqueuersInv
    <3>4. QED
      BY <1>8, <1>17, <3>2, <3>3 DEF Unlinked
  <2>3. QED
    BY <1>20, <2>1, <2>2
<1>21. InHand(u)'
  <2>1. \A r \in Proc : pc'[r] \in {"holding", "link"} => cell'[r] \in Cell
    BY <1>1, <1>11 DEF InHand, OthersStay
  <2>2. ASSUME NEW r \in Proc, pc'[r] = "holding"
        PROVE  /\ next'[cell'[r]] = Null
               /\ \A y \in Queue : \A i \in 1..Len(u[y]) : u[y][i] # cell'[r]
    <3>1. CASE r = p
      BY <1>11, <1>12, <1>18, <3>1
    <3>2. CASE r # p
      <4>1. pc[r] = "holding" /\ cell'[r] = cell[r]
        BY <1>11, <2>2, <3>2 DEF OthersStay
      <4>2. cell[r] # e /\ cell[r] \in Cell
        BY <1>1, <1>20, <3>2, <4>1 DEF InHand
      <4>3. next'[cell[r]] = Null
        BY <1>1, <1>12, <4>1, <4>2 DEF InHand
      <4>4. \A y \in Queue : \A i \in 1..Len(u[y]) : u[y][i] # cell[r]
        BY <1>1, <1>18, <4>1 DEF InHand
      <4>5. QED
        BY <4>1, <4>3, <4>4
    <3>3. QED
      BY <3>1, <3>2
  <2>3. ASSUME NEW r \in Proc, NEW y \in Proc, pc'[r] \in {"holding", "link"},
               pc'[y] \in {"holding", "link"}, cell'[r] = cell'[y]
        PROVE  r = y
    BY <1>1, <1>11, <1>20, <2>3 DEF InHand, OthersStay
  <2>4. QED
    BY <2>1, <2>2, <2>3 DEF InHand
<1>22. ASSUME NEW r \in Queue, r # q PROVE QueueInv(r, u[r])'
  <2>1. Elsewhere(p, r)
    BY <1>11, <1>22 DEF Elsewhere, Working
  <2>2. z[r] \in Seq(Cell)
    BY DEF Lines
  <2>3. \A i \in 1..Len(z[r]) : z[r][i] \in Cell /\ z[r][i] # e
    BY <1>17, <1>22, <2>2
  <2>4. QueueStays(r, z[r])
    BY <1>12, <1>22, <2>3 DEF QueueStays
  <2>5. QueueInv(r, z[r])'
    BY <1>1, <1>11, <2>1, <2>2, <2>4, OtherQueue
  <2>6. QED
    BY <1>10, <1>22, <2>5
<1>23. Len(s) = 1 => next[e] = Null /\ tail[q] = e
  BY <1>4, <1>5, <1>8 DEF LinksInv
<1>24. Len(s) # 1 => 2 \in 1..Len(s) /\ next[e] = s[2] /\ ~Unlinked(q, s[2]) /\ tail[q] # e
  <2>1. ASSUME Len(s) # 1 PROVE 2 \in 1..Len(s) /\ Len(s) # 1 /\ 2 - 1 = 1
    <3>1. Len(s) \in Nat /\ Len(s) > 0
      BY <1>7
    <3>2. \A n \in Nat : n > 0 /\ n # 1 => 2 \in 1..n /\ 2 - 1 = 1
      OBVIOUS
    <3>3. QED
      BY <2>1, <3>1, <3>2
  <2>2. ASSUME Len(s) # 1 PROVE tail[q] # e
    BY <1>4, <1>5, <1>7, <1>8, <1>9, <2>1, <2>2 DEF LinksInv
  <2>3. ASSUME Len(s) # 1 PROVE next[e] = Link(q, s, 2)
    BY <1>8, <2>1, <2>3 DEF Link
  <2>4. QED
    BY <1>4, <2>1, <2>2, <2>3 DEF LinksInv
<1>25. QueueInv(q, t)'
  <2>1. First(q)' = next[e]
    BY <1>1, <1>11, <1>12 DEF First
  <2>2. Len(s) = 1 <=> t = <<>>
    BY <1>6, <1>7 DEF Popped
  <2>3. ASSUME NEW i \in 1..Len(t)
        PROVE  Link(q, t, i)' = IF Unlinked(q, t[i]) THEN Null ELSE t[i]
    <3>1. Len(s) # 1 /\ i + 1 \in 1..Len(s) /\ t[i] = s[i + 1] /\ i + 1 # 1
      BY <1>6, <1>7, <2>2 DEF Popped
    <3>2. CASE i = 1
      BY <1>24, <2>1, <3>1, <3>2 DEF Link
    <3>3. CASE i # 1
      <4>1. i - 1 \in 1..Len(t) /\ i \in 1..Len(s) /\ (i - 1) + 1 = i /\ (i + 1) - 1 = i
        BY <1>7, <3>1, <3>3
      <4>2. t[i - 1] = s[i] /\ s[i] # e /\ s[i] \in Cell
        BY <1>6, <1>7, <1>8, <1>9, <3>3, <4>1 DEF Popped
      <4>3. Link(q, t, i)' = next[s[i]]
        BY <1>12, <3>3, <4>2 DEF Link
      <4>4. next[s[i]] = Link(q, s, i + 1)
        BY <3>1, <4>1 DEF Link
      <4>5. QED
        BY <1>4, <3>1, <4>3, <4>4 DEF LinksInv
    <3>4. QED
      BY <3>2, <3>3
  <2>4. IF t = <<>> THEN First(q)' = Null /\ tail'[q] = Null
                    ELSE next'[t[Len(t)]] = Null /\ tail'[q] = t[Len(t)]
    <3>1. CASE Len(s) = 1
      BY <1>12, <1>23, <2>1, <2>2, <3>1
    <3>2. CASE Len(s) # 1
      <4>1. Len(t) \in 1..Len(t) /\ Len(t) + 1 = Len(s) /\ Len(s) \in 1..Len(s) /\ Len(s) # 1
        BY <1>6, <1>7, <3>2 DEF Popped
      <4>2. t[Len(t)] = s[Len(s)] /\ s[Len(s)] # e /\ s[Len(s)] \in Cell
        BY <1>6, <1>7, <1>8, <1>9, <4>1 DEF Popped
      <4>3. next[s[Len(s)]] = Null /\ tail[q] = s[Len(s)]
        BY <1>4, <1>5 DEF LinksInv
      <4>4. QED
        BY <1>12, <2>2, <3>2, <4>2, <4>3
    <3>3. QED
      BY <3>1, <3>2
  <2>5. LinksInv(q, t)'
    BY <1>1, <1>16, <2>3, <2>4 DEF LinksInv
  <2>6. EnqueuersInv(q, t)'
    <3>1. ASSUME NEW r \in Proc, At(r, {"link"}, q)'
          PROVE  \E i \in 1..Len(t) : cell'[r] = t[i] /\ prev'[r] = Before(t, i)
      <4>1. r # p /\ At(r, {"link"}, q) /\ cell'[r] = cell[r] /\ prev'[r] = prev[r]
        BY <1>11, <3>1 DEF At, OthersStay
      <4>2. PICK i \in 1..Len(s) : cell[r] = s[i] /\ prev[r] = Before(s, i)
        BY <1>4, <4>1 DEF EnqueuersInv
      <4>3. Unlinked(q, s[i])
        BY <4>1, <4>2 DEF Unlinked
      <4>4. i # 1 /\ i # 2
        BY <1>8, <1>24, <4>2, <4>3
      <4>5. i - 1 \in 1..Len(t) /\ t[i - 1] = s[i] /\ i - 1 # 1
        BY <1>6, <4>4 DEF Popped
      <4>6. (i - 1) - 1 \in 1..Len(t) /\ t[(i - 1) - 1] = s[i - 1]
        <5>1. i - 1 \in 1..Len(s) /\ i - 1 # 1
          BY <1>7, <4>4
        <5>2. QED
          BY <1>6, <5>1 DEF Popped
      <4>7. QED
        BY <4>1, <4>2, <4>4, <4>5, <4>6 DEF Before
    <3>2. QED
      BY <3>1 DEF EnqueuersInv
  <2>7. HeadsInv(q)'
    BY <1>1, <1>11, <1>12 DEF HeadsInv, At
  <2>8. QED
    BY <2>5, <2>6, <2>7 DEF QueueInv
<1>26. LineInv(u)'
  BY <1>10, <1>13, <1>14, <1>19, <1>21, <1>22, <1>25 DEF LineInv
<1>27. Held(p) = Null /\ Held(p)' = e /\ \A r \in Proc : r # p => Held(r)' = Held(r)
  BY <1>11, <1>15 DEF Held, OthersStay
<1>28. QED
  BY <1>2, <1>5, <1>8, <1>10, <1>16, <1>26, <1>27 DEF Taken

(* what each dequeue does: it takes a cell, or the queue stays as it is *)
Takes(z, p) == \E u \in Lines, q \in Queue, e \in Cell :
                 Owner(q) = p /\ u = [z EXCEPT ![q] = Tail(@)] /\ Taken(z, u, p, q, e)

LEMMA TakesOne ==
  ASSUME NEW z \in Lines, LineInv(z), NEW p \in Proc, pc[p] \in Dequeuing,
         NEW q, q = queue[p], NEW e \in Cell, First(q) = e, head[q] = Null,
         next[e] # Null \/ tail[q] = e, OwnerTakes(p, q, e)
  PROVE  Takes(z, p)
<1>1. PICK u : u = [z EXCEPT ![q] = Tail(@)]
  OBVIOUS
<1>2. u \in Lines /\ Taken(z, u, p, q, e)
  BY <1>1, TakeStep
<1>3. q \in Queue /\ Owner(q) = p
  BY OwnerFacts
<1>4. QED
  BY <1>1, <1>2, <1>3 DEF Takes

(* the tail is not the first cell if that one has a link *)
LEMMA LinkedNotLast ==
  ASSUME NEW q, NEW s \in Seq(Cell), QueueInv(q, s), NEW e \in Cell, First(q) = e, next[e] # Null
  PROVE  tail[q] # e
<1>1. s # <<>> /\ e # Null
  BY Constants DEF QueueInv, LinksInv
<1>2. tail[q] = s[Len(s)] /\ next[s[Len(s)]] = Null
  BY <1>1 DEF QueueInv, LinksInv
<1>3. QED
  BY <1>2

LEMMA DequeueStep ==
  ASSUME NEW z \in Lines, LineInv(z), NEW p \in Proc, queue_dequeue(p),
         next[my_head[queue[p]]] # Null
  PROVE  Takes(z, p)
<1>1. PICK q, e : q = queue[p] /\ e = my_head[q]
  OBVIOUS
<1>2. pc[p] = "dequeue" /\ pc[p] \in Dequeuing
  BY DEF queue_dequeue, Dequeuing
<1>3. /\ q \in Queue /\ Owner(q) = p /\ TypeInv /\ HeadsInv(q) /\ QueueInv(q, z[q])
      /\ e \in Cell \cup {Null}
  BY <1>1, <1>2, OwnerFacts DEF QueueInv
<1>4. e # Null /\ head[q] = Null
  BY <1>1, <1>2, <1>3 DEF HeadsInv, At
<1>5. e \in Cell /\ First(q) = e /\ next[e] # Null
  BY <1>1, <1>2, <1>3, <1>4 DEF First
<1>6. tail[q] # e
  BY <1>3, <1>5, LinkedNotLast DEF Lines
<1>7. OwnerTakes(p, q, e)
  BY <1>1, <1>3, <1>5, <1>6 DEF queue_dequeue, TakeNext, Goto, OwnerTakes, TypeInv
<1>8. QED
  BY <1>1, <1>2, <1>4, <1>5, <1>7, TakesOne

LEMMA SpinStep ==
  ASSUME NEW z \in Lines, LineInv(z), NEW p \in Proc, SpinOnNext(p)
  PROVE  Takes(z, p)
<1>1. PICK q, e : q = queue[p] /\ e = cell[p]
  OBVIOUS
<1>2. pc[p] = "spin" /\ pc[p] \in Dequeuing /\ next[e] # Null
  BY <1>1 DEF SpinOnNext, Dequeuing
<1>3. q \in Queue /\ Owner(q) = p /\ TypeInv /\ HeadsInv(q) /\ QueueInv(q, z[q])
  BY <1>1, <1>2, OwnerFacts DEF QueueInv
<1>4. e \in Cell /\ head[q] = Null
  BY <1>1, <1>2, <1>3 DEF HeadsInv, At
<1>5. First(q) = e
  BY <1>1, <1>2, <1>3 DEF First
<1>6. tail[q] # e
  BY <1>2, <1>3, <1>4, <1>5, LinkedNotLast DEF Lines
<1>7. OwnerTakes(p, q, e)
  BY <1>1, <1>3, <1>4, <1>6 DEF SpinOnNext, TakeNext, Goto, OwnerTakes, TypeInv
<1>8. QED
  BY <1>1, <1>2, <1>4, <1>5, <1>7, TakesOne

(* the cell was the last one, and the queue is empty now *)
LEMMA LastStep ==
  ASSUME NEW z \in Lines, LineInv(z), NEW p \in Proc, CAS_tail(p), tail[queue[p]] = cell[p]
  PROVE  Takes(z, p)
<1>1. PICK q, e : q = queue[p] /\ e = cell[p]
  OBVIOUS
<1>2. pc[p] = "cas" /\ pc[p] \in Dequeuing /\ tail[q] = e
  BY <1>1 DEF CAS_tail, Dequeuing
<1>3. q \in Queue /\ Owner(q) = p /\ TypeInv /\ HeadsInv(q) /\ LinksInv(q, z[q])
  BY <1>1, <1>2, OwnerFacts DEF QueueInv
<1>4. e \in Cell /\ head[q] = Null /\ my_head[q] = Null
  BY <1>1, <1>2, <1>3 DEF HeadsInv, At
<1>5. First(q) = e
  BY <1>1, <1>2, <1>3 DEF First
<1>6. next[e] = Null
  BY <1>2, <1>3, <1>4, Constants DEF LinksInv
<1>7. OwnerTakes(p, q, e)
  BY <1>1, <1>2, <1>3, <1>4, <1>6 DEF CAS_tail, Goto, OwnerTakes, TypeInv
<1>8. QED
  BY <1>1, <1>2, <1>4, <1>5, <1>7, TakesOne

-----------------------------------------------------------------------------
(***************************************************************************)
(* p, which holds c, swaps the tail of q.                                  *)
(***************************************************************************)
Pushed(s, t, c) == /\ Len(t) = Len(s) + 1 /\ t[Len(s) + 1] = c /\ Len(s) + 1 \in 1..Len(t)
                   /\ \A i \in 1..Len(s) : i \in 1..Len(t) /\ t[i] = s[i] /\ i # Len(s) + 1
                   /\ \A i \in 1..Len(t) : i \in 1..Len(s) \/ i = Len(s) + 1

LEMMA AppendPushed ==
  ASSUME NEW s \in Seq(Cell), NEW c \in Cell
  PROVE  Append(s, c) \in Seq(Cell) /\ Pushed(s, Append(s, c), c)
BY DEF Pushed

Enqueued(z, u, p, q, c) ==
  /\ LineInv(u)'
  /\ \A r \in Queue : \A d : Unlinked(r, d)' <=> (Unlinked(r, d) \/ (r = q /\ d = c))
  /\ Held(p) = c /\ Held(p)' = Null /\ \A r \in Proc : r # p => Held(r)' = Held(r)

LEMMA EnqueueStep ==
  ASSUME NEW z \in Lines, LineInv(z), NEW p \in Proc, NEW q \in Queue, queue_enqueue(p, q),
         NEW c, c = cell[p], NEW u, u = [z EXCEPT ![q] = Append(@, c)]
  PROVE  u \in Lines /\ c \in Cell /\ Enqueued(z, u, p, q, c)
<1>1. TypeInv /\ OwnersInv /\ Distinct(z) /\ InHand(z) /\ \A r \in Queue : QueueInv(r, z[r])
  BY DEF LineInv
<1>2. /\ pc[p] = "holding" /\ pc' = [pc EXCEPT ![p] = "link"]
      /\ prev' = [prev EXCEPT ![p] = tail[q]] /\ tail' = [tail EXCEPT ![q] = c]
      /\ queue' = [queue EXCEPT ![p] = q]
      /\ head' = head /\ my_head' = my_head /\ next' = next /\ cell' = cell
  BY DEF queue_enqueue, Goto
<1>3. c \in Cell /\ next[c] = Null /\ \A r \in Queue : \A i \in 1..Len(z[r]) : z[r][i] # c
  BY <1>1, <1>2 DEF InHand
<1>4. PICK s : s = z[q]
  OBVIOUS
<1>5. PICK t : t = Append(s, c)
  OBVIOUS
<1>6. s \in Seq(Cell) /\ LinksInv(q, s) /\ EnqueuersInv(q, s) /\ HeadsInv(q)
  BY <1>1, <1>4 DEF Lines, QueueInv
<1>7. t \in Seq(Cell) /\ Pushed(s, t, c)
  BY <1>3, <1>5, <1>6, AppendPushed
<1>8. Len(s) \in Nat /\ (s # <<>> => Len(s) \in 1..Len(s)) /\ (s = <<>> <=> Len(s) = 0)
  BY <1>6
<1>9. u \in Lines /\ u[q] = t /\ \A r \in Queue : r # q => u[r] = z[r]
  BY <1>4, <1>5, <1>7 DEF Lines
<1>10. /\ pc'[p] = "link" /\ cell'[p] = c /\ queue'[p] = q /\ prev'[p] = tail[q]
       /\ OthersStay(p)
  BY <1>1, <1>2 DEF TypeInv, OthersStay
<1>11. TypeInv'
  <2>1. tail[q] \in Cell \cup {Null} /\ "link" \in Places
    BY <1>1 DEF TypeInv, Places
  <2>2. QED
    BY <1>1, <1>2, <1>3, <2>1 DEF TypeInv
<1>12. OwnersInv'
  BY <1>1, <1>10 DEF OwnersInv, OthersStay
<1>13. \A r \in Queue : \A d : Unlinked(r, d)' <=> (Unlinked(r, d) \/ (r = q /\ d = c))
  BY <1>2, <1>10 DEF Unlinked, At, OthersStay
<1>14. ASSUME NEW r \in Queue, NEW j \in 1..Len(u[r])
       PROVE  IF r = q /\ j = Len(s) + 1 THEN u[r][j] = c
              ELSE j \in 1..Len(z[r]) /\ u[r][j] = z[r][j]
  BY <1>4, <1>7, <1>9 DEF Pushed
<1>15. Distinct(u)'
  <2>1. ASSUME NEW r \in Queue, NEW y \in Queue, NEW i \in 1..Len(u[r]), NEW j \in 1..Len(u[y]),
               u[r][i] = u[y][j]
        PROVE  r = y /\ i = j
    <3>1. CASE r = q /\ i = Len(s) + 1
      BY <1>3, <1>14, <2>1, <3>1
    <3>2. CASE y = q /\ j = Len(s) + 1
      BY <1>3, <1>14, <2>1, <3>2
    <3>3. CASE ~(r = q /\ i = Len(s) + 1) /\ ~(y = q /\ j = Len(s) + 1)
      BY <1>1, <1>14, <2>1, <3>3 DEF Distinct
    <3>4. QED
      BY <3>1, <3>2, <3>3
  <2>2. QED
    BY <2>1 DEF Distinct
<1>16. InHand(u)'
  <2>1. \A r \in Proc : pc'[r] \in {"holding", "link"} <=> pc[r] \in {"holding", "link"}
    BY <1>2, <1>10 DEF OthersStay
  <2>2. ASSUME NEW r \in Proc, pc'[r] = "holding"
        PROVE  \A y \in Queue : \A i \in 1..Len(u[y]) : u[y][i] # cell[r]
    <3>1. r # p /\ pc[r] = "holding"
      BY <1>10, <2>2 DEF OthersStay
    <3>2. cell[r] # c
      BY <1>1, <1>2, <3>1 DEF InHand
    <3>3. QED
      BY <1>1, <1>14, <3>1, <3>2 DEF InHand
  <2>3. \A r \in Proc : pc'[r] = "holding" => next[cell[r]] = Null
    BY <1>1, <1>2, <1>10 DEF InHand, OthersStay
  <2>4. QED
    BY <1>1, <1>2, <2>1, <2>2, <2>3 DEF InHand
<1>17. ASSUME NEW r \in Queue, r # q PROVE QueueInv(r, u[r])'
  <2>1. Elsewhere(p, r)
    BY <1>2, <1>10, <1>17 DEF Elsewhere, Working
  <2>2. z[r] \in Seq(Cell)
    BY DEF Lines
  <2>3. QueueStays(r, z[r])
    BY <1>1, <1>2, <1>17 DEF QueueStays, TypeInv
  <2>4. QueueInv(r, z[r])'
    BY <1>1, <1>10, <2>1, <2>2, <2>3, OtherQueue
  <2>5. QED
    BY <1>9, <1>17, <2>4
<1>18. QueueInv(q, t)'
  <2>1. First(q)' = First(q)
    BY <1>2, <1>10 DEF First, OthersStay
  <2>2. ASSUME NEW i \in 1..Len(t)
        PROVE  Link(q, t, i)' = IF Unlinked(q, t[i])' THEN Null ELSE t[i]
    <3>1. CASE i = Len(s) + 1
      <4>1. Unlinked(q, t[i])'
        BY <1>7, <1>13, <3>1 DEF Pushed
      <4>2. CASE s = <<>>
        <5>1. i = 1 /\ First(q) = Null
          BY <1>6, <1>8, <3>1, <4>2 DEF LinksInv
        <5>2. QED
          BY <2>1, <4>1, <5>1 DEF Link
      <4>3. CASE s # <<>>
        <5>1. next[s[Len(s)]] = Null
          BY <1>6, <4>3 DEF LinksInv
        <5>2. i # 1 /\ i - 1 = Len(s) /\ t[i - 1] = s[Len(s)]
          BY <1>7, <1>8, <3>1, <4>3 DEF Pushed
        <5>3. QED
          BY <1>2, <4>1, <5>1, <5>2 DEF Link
      <4>4. QED
        BY <4>2, <4>3
    <3>2. CASE i # Len(s) + 1
      <4>1. i \in 1..Len(s) /\ t[i] = s[i] /\ (i # 1 => i - 1 \in 1..Len(s))
        BY <1>7, <3>2 DEF Pushed
      <4>2. i # 1 => t[i - 1] = s[i - 1]
        BY <1>7, <4>1 DEF Pushed
      <4>3. Unlinked(q, t[i])' <=> Unlinked(q, s[i])
        BY <1>3, <1>4, <1>13, <4>1
      <4>4. Link(q, t, i)' = Link(q, s, i)
        BY <1>2, <2>1, <4>2 DEF Link
      <4>5. QED
        BY <1>6, <4>1, <4>3, <4>4 DEF LinksInv
    <3>3. QED
      BY <3>1, <3>2
  <2>3. t # <<>> /\ t[Len(t)] = c /\ next'[c] = Null /\ tail'[q] = c
    BY <1>1, <1>2, <1>3, <1>5, <1>6, <1>7 DEF Pushed, TypeInv
  <2>4. LinksInv(q, t)'
    BY <2>2, <2>3 DEF LinksInv
  <2>5. EnqueuersInv(q, t)'
    <3>1. ASSUME NEW r \in Proc, At(r, {"link"}, q)'
          PROVE  \E i \in 1..Len(t) : cell'[r] = t[i] /\ prev'[r] = Before(t, i)
      <4>1. CASE r = p
        <5>1. tail[q] = Before(t, Len(s) + 1)
          <6>1. CASE s = <<>>
            BY <1>6, <1>8, <6>1 DEF LinksInv, Before
          <6>2. CASE s # <<>>
            <7>1. Len(s) + 1 # 1 /\ (Len(s) + 1) - 1 = Len(s) /\ t[Len(s)] = s[Len(s)]
              BY <1>7, <1>8, <6>2 DEF Pushed
            <7>2. QED
              BY <1>6, <6>2, <7>1 DEF LinksInv, Before
          <6>3. QED
            BY <6>1, <6>2
        <5>2. QED
          BY <1>7, <1>10, <4>1, <5>1 DEF Pushed
      <4>2. CASE r # p
        <5>1. At(r, {"link"}, q) /\ cell'[r] = cell[r] /\ prev'[r] = prev[r]
          BY <1>10, <3>1, <4>2 DEF At, OthersStay
        <5>2. PICK i \in 1..Len(s) : cell[r] = s[i] /\ prev[r] = Before(s, i)
          BY <1>6, <5>1 DEF EnqueuersInv
        <5>3. i \in 1..Len(t) /\ t[i] = s[i] /\ (i # 1 => i - 1 \in 1..Len(s))
          BY <1>7 DEF Pushed
        <5>4. Before(t, i) = Before(s, i)
          BY <1>7, <5>3 DEF Pushed, Before
        <5>5. QED
          BY <5>1, <5>2, <5>3, <5>4
      <4>3. QED
        BY <4>1, <4>2
    <3>2. QED
      BY <3>1 DEF EnqueuersInv
  <2>6. HeadsInv(q)'
    BY <1>1, <1>2, <1>6, <1>10, Owners DEF HeadsInv, At, OthersStay
  <2>7. QED
    BY <2>4, <2>5, <2>6 DEF QueueInv
<1>19. LineInv(u)'
  BY <1>9, <1>11, <1>12, <1>15, <1>16, <1>17, <1>18 DEF LineInv
<1>20. Held(p) = c /\ Held(p)' = Null /\ \A r \in Proc : r # p => Held(r)' = Held(r)
  BY <1>2, <1>10 DEF Held, OthersStay
<1>21. QED
  BY <1>3, <1>9, <1>13, <1>19, <1>20 DEF Enqueued

-----------------------------------------------------------------------------
(***************************************************************************)
(* p links its cell c, the one at i, to the cell before it in q.           *)
(***************************************************************************)
LinkedAt(z, p, q, i) ==
  /\ i \in 1..Len(z[q]) /\ Unlinked(q, z[q][i])
  /\ LineInv(z)'
  /\ \A r \in Queue : \A d : Unlinked(r, d)' <=> (Unlinked(r, d) /\ ~(r = q /\ d = z[q][i]))
  /\ \A r \in Proc : Held(r)' = Held(r)

LEMMA LinkStep ==
  ASSUME NEW z \in Lines, LineInv(z), NEW p \in Proc, LinkCell(p)
  PROVE  \E q \in Queue : \E i \in 1..Len(z[q]) : LinkedAt(z, p, q, i)
<1>1. TypeInv /\ OwnersInv /\ Distinct(z) /\ InHand(z) /\ \A r \in Queue : QueueInv(r, z[r])
  BY DEF LineInv
<1>2. PICK q, c : q = queue[p] /\ c = cell[p]
  OBVIOUS
<1>3. PICK s : s = z[q]
  OBVIOUS
<1>4. q \in Queue /\ pc[p] = "link" /\ At(p, {"link"}, q)
  BY <1>1, <1>2 DEF TypeInv, At, LinkCell
<1>5. s \in Seq(Cell) /\ LinksInv(q, s) /\ EnqueuersInv(q, s) /\ HeadsInv(q)
  BY <1>1, <1>3, <1>4 DEF Lines, QueueInv
<1>6. PICK i \in 1..Len(s) : c = s[i] /\ prev[p] = Before(s, i)
  BY <1>2, <1>4, <1>5 DEF EnqueuersInv
<1>7. /\ s # <<>> /\ Len(s) \in 1..Len(s) /\ \A j \in 1..Len(s) : s[j] \in Cell /\ s[j] # Null
      /\ \A j \in 1..Len(s) : j # 1 => j - 1 \in 1..Len(s)
      /\ \A j, k \in 1..Len(s) : s[j] = s[k] => j = k
  BY <1>1, <1>3, <1>4, <1>5, <1>6, Constants DEF Distinct
<1>8. Unlinked(q, s[i]) /\ Link(q, s, i) = Null
  BY <1>2, <1>4, <1>5, <1>6 DEF Unlinked, LinksInv
<1>9. /\ pc' = [pc EXCEPT ![p] = "idle"] /\ cell' = [cell EXCEPT ![p] = Null]
      /\ tail' = tail /\ my_head' = my_head /\ queue' = queue /\ prev' = prev
      /\ i = 1 => head' = [head EXCEPT ![q] = c] /\ next' = next
      /\ i # 1 => next' = [next EXCEPT ![s[i - 1]] = c] /\ head' = head
  BY <1>2, <1>6, <1>7 DEF LinkCell, Goto, Before
<1>10. pc'[p] = "idle" /\ OthersStay(p)
  BY <1>1, <1>9 DEF TypeInv, OthersStay
<1>11. /\ \A d \in Cell : (i = 1 \/ d # s[i - 1]) => next'[d] = next[d]
       /\ \A r \in Queue : (i # 1 \/ r # q) => head'[r] = head[r]
       /\ i = 1 => head'[q] = c
       /\ i # 1 => next'[s[i - 1]] = c
  BY <1>1, <1>4, <1>7, <1>9 DEF TypeInv
<1>12. TypeInv'
  <2>1. "idle" \in Places /\ c \in Cell
    BY <1>6, <1>7 DEF Places
  <2>2. QED
    BY <1>1, <1>9, <2>1 DEF TypeInv
<1>13. OwnersInv'
  BY <1>1, <1>9, <1>10 DEF OwnersInv, OthersStay
<1>14. Distinct(z)'
  BY <1>1 DEF Distinct
<1>15. InHand(z)'
  <2>1. \A r \in Proc : pc'[r] \in {"holding", "link"} => r # p
    BY <1>10
  <2>2. \A r \in Proc : r # p => pc'[r] = pc[r] /\ cell'[r] = cell[r]
    BY <1>10 DEF OthersStay
  <2>3. ASSUME NEW r \in Proc, pc[r] = "holding" PROVE next'[cell[r]] = Null
    <3>1. cell[r] \in Cell /\ next[cell[r]] = Null /\ \A j \in 1..Len(s) : s[j] # cell[r]
      BY <1>1, <1>3, <1>4, <2>3 DEF InHand
    <3>2. i = 1 \/ cell[r] # s[i - 1]
      BY <1>7, <3>1
    <3>3. QED
      BY <1>11, <3>1, <3>2
  <2>4. QED
    BY <1>1, <2>1, <2>2, <2>3 DEF InHand
<1>16. ASSUME NEW r \in Proc, r # p, At(r, {"link"}, q) PROVE cell[r] # c
  BY <1>1, <1>2, <1>4, <1>16 DEF InHand, At
<1>17. \A r \in Queue : \A d : Unlinked(r, d)' <=> (Unlinked(r, d) /\ ~(r = q /\ d = c))
  <2>1. ASSUME NEW r \in Queue, NEW d, Unlinked(r, d)'
        PROVE  Unlinked(r, d) /\ ~(r = q /\ d = c)
    <3>1. PICK y \in Proc : At(y, {"link"}, r)' /\ cell'[y] = d
      BY <2>1 DEF Unlinked
    <3>2. y # p /\ At(y, {"link"}, r) /\ cell[y] = d
      BY <1>10, <3>1 DEF At, OthersStay
    <3>3. QED
      BY <1>16, <3>2 DEF Unlinked
  <2>2. ASSUME NEW r \in Queue, NEW d, Unlinked(r, d), ~(r = q /\ d = c)
        PROVE  Unlinked(r, d)'
    <3>1. PICK y \in Proc : At(y, {"link"}, r) /\ cell[y] = d
      BY <2>2 DEF Unlinked
    <3>2. y # p
      BY <1>2, <2>2, <3>1 DEF At
    <3>3. QED
      BY <1>10, <3>1, <3>2 DEF Unlinked, At, OthersStay
  <2>3. QED
    BY <2>1, <2>2
<1>18. ASSUME NEW r \in Queue, r # q PROVE QueueInv(r, z[r])'
  <2>1. Elsewhere(p, r)
    BY <1>2, <1>9, <1>18 DEF Elsewhere
  <2>2. z[r] \in Seq(Cell)
    BY DEF Lines
  <2>3. ASSUME NEW j \in 1..Len(z[r]) PROVE next'[z[r][j]] = next[z[r][j]]
    <3>1. z[r][j] \in Cell /\ \A k \in 1..Len(s) : z[r][j] # s[k]
      BY <1>1, <1>3, <1>4, <1>18, <2>2 DEF Distinct
    <3>2. i = 1 \/ z[r][j] # s[i - 1]
      BY <1>7, <3>1
    <3>3. QED
      BY <1>11, <3>1, <3>2
  <2>4. QueueStays(r, z[r])
    BY <1>9, <1>11, <1>18, <2>3 DEF QueueStays
  <2>5. QED
    BY <1>1, <1>10, <2>1, <2>2, <2>4, OtherQueue
<1>19. QueueInv(q, s)'
  <2>1. i = 1 => First(q) = Null
    BY <1>8 DEF Link
  <2>2. i = 1 => my_head[q] = Null /\ head[q] = Null /\ ~At(Owner(q), {"cas", "spin"}, q)
    BY <1>5, <2>1, Constants DEF First, HeadsInv, At
  <2>3. \A S : At(Owner(q), S, q)' => (At(Owner(q), S, q) \/ (Owner(q) = p /\ "idle" \in S))
    BY <1>9, <1>10, Owners, <1>4 DEF At, OthersStay
  <2>4. At(Owner(q), {"cas", "spin"}, q)' <=> At(Owner(q), {"cas", "spin"}, q)
    BY <1>2, <1>4, <1>9, <1>10, Owners DEF At, OthersStay
  <2>5. At(Owner(q), {"cas", "spin"}, q) => cell'[Owner(q)] = cell[Owner(q)]
    BY <1>2, <1>4, <1>10, Owners DEF At, OthersStay
  <2>6. i # 1 => First(q)' = First(q)
    BY <1>4, <1>9, <1>11, <2>4, <2>5 DEF First, At
  <2>7. i = 1 => First(q)' = c
    BY <1>4, <1>9, <1>11, <2>2, <2>4 DEF First, At
  <2>8. ASSUME NEW j \in 1..Len(s)
        PROVE  Link(q, s, j)' = IF Unlinked(q, s[j])' THEN Null ELSE s[j]
    <3>1. CASE j = i
      <4>1. ~Unlinked(q, s[j])'
        BY <1>4, <1>6, <1>17, <3>1
      <4>2. Link(q, s, j)' = c
        BY <1>11, <2>7, <3>1 DEF Link
      <4>3. QED
        BY <1>6, <3>1, <4>1, <4>2
    <3>2. CASE j # i
      <4>1. Unlinked(q, s[j])' <=> Unlinked(q, s[j])
        BY <1>4, <1>6, <1>7, <1>17, <3>2
      <4>2. Link(q, s, j)' = Link(q, s, j)
        <5>1. CASE j = 1
          BY <2>6, <3>2, <5>1 DEF Link
        <5>2. CASE j # 1
          <6>1. j - 1 \in 1..Len(s) /\ (i # 1 => i - 1 \in 1..Len(s) /\ j - 1 # i - 1)
            BY <1>7, <3>2, <5>2
          <6>2. s[j - 1] \in Cell /\ (i = 1 \/ s[j - 1] # s[i - 1])
            BY <1>7, <6>1
          <6>3. QED
            BY <1>11, <5>2, <6>2 DEF Link
        <5>3. QED
          BY <5>1, <5>2
      <4>3. QED
        BY <1>5, <4>1, <4>2 DEF LinksInv
    <3>3. QED
      BY <3>1, <3>2
  <2>9. next'[s[Len(s)]] = Null /\ tail'[q] = s[Len(s)]
    <3>1. next[s[Len(s)]] = Null /\ tail[q] = s[Len(s)]
      BY <1>5, <1>7 DEF LinksInv
    <3>2. i # 1 => i - 1 \in 1..Len(s) /\ i - 1 # Len(s)
      BY <1>7
    <3>3. i = 1 \/ s[Len(s)] # s[i - 1]
      BY <1>7, <3>2
    <3>4. QED
      BY <1>7, <1>9, <1>11, <3>1, <3>3
  <2>10. LinksInv(q, s)'
    BY <1>7, <2>8, <2>9 DEF LinksInv
  <2>11. EnqueuersInv(q, s)'
    <3>1. \A r \in Proc : At(r, {"link"}, q)' =>
            At(r, {"link"}, q) /\ cell'[r] = cell[r] /\ prev'[r] = prev[r]
      BY <1>10 DEF At, OthersStay
    <3>2. QED
      BY <1>5, <3>1 DEF EnqueuersInv, Before
  <2>12. HeadsInv(q)'
    <3>1. CASE i = 1
      <4>1. ~At(Owner(q), {"shadow"}, q) /\ ~At(Owner(q), {"reset", "dequeue"}, q)
        BY <1>5, <2>2, <3>1 DEF HeadsInv
      <4>2. /\ ~At(Owner(q), {"shadow"}, q)' /\ ~At(Owner(q), {"reset", "dequeue"}, q)'
            /\ ~At(Owner(q), {"cas", "spin"}, q)'
        BY <2>2, <2>3, <2>4, <3>1, <4>1
      <4>3. my_head'[q] = Null
        BY <1>9, <2>2, <3>1
      <4>4. QED
        BY <4>2, <4>3 DEF HeadsInv
    <3>2. CASE i # 1
      <4>1. head'[q] = head[q] /\ my_head'[q] = my_head[q]
        BY <1>4, <1>9, <1>11, <3>2
      <4>2. CASE Owner(q) = p
        BY <1>5, <1>10, <4>1, <4>2, <1>4 DEF HeadsInv, At
      <4>3. CASE Owner(q) # p
        BY <1>5, <1>4, <1>10, <4>1, <4>3, Owners DEF HeadsInv, At, OthersStay
      <4>4. QED
        BY <4>2, <4>3
    <3>3. QED
      BY <3>1, <3>2
  <2>13. QED
    BY <2>10, <2>11, <2>12 DEF QueueInv
<1>20. LineInv(z)'
  BY <1>3, <1>12, <1>13, <1>14, <1>15, <1>18, <1>19 DEF LineInv
<1>21. \A r \in Proc : Held(r)' = Held(r)
  BY <1>4, <1>10 DEF Held, OthersStay
<1>22. QED
  BY <1>3, <1>4, <1>6, <1>8, <1>17, <1>20, <1>21 DEF LinkedAt

-----------------------------------------------------------------------------
(***************************************************************************)
(* The invariant.                                                          *)
(***************************************************************************)
LEMMA FirstElements ==
  ASSUME NEW p \in Proc, NEW i \in 1..Len(Elements[p])
  PROVE  /\ Elements[p][i] \in Cell
         /\ Linked(Elements[Home(Elements[p][i])], Elements[p][i]) =
              IF i = Len(Elements[p]) THEN Null ELSE Elements[p][i + 1]
<1>1. /\ Elements[p] \in Seq(Cell) /\ \A r \in Proc : DOMAIN Elements[r] = 1..Len(Elements[r])
      /\ \A r \in Proc : \A k \in DOMAIN Elements[p], j \in DOMAIN Elements[r] :
           Elements[p][k] = Elements[r][j] => p = r /\ k = j
  BY NemQueueAssumption
<1>2. PICK c : c = Elements[p][i]
  OBVIOUS
<1>3. Home(c) = p
  BY <1>1, <1>2 DEF Home
<1>4. (CHOOSE k \in DOMAIN Elements[p] : Elements[p][k] = c) = i
  BY <1>1, <1>2
<1>5. c \in Cell
  BY <1>1, <1>2
<1>6. Linked(Elements[p], c) = IF i = Len(Elements[p]) THEN Null ELSE Elements[p][i + 1]
  <2> DEFINE at == CHOOSE j \in DOMAIN Elements[p] : Elements[p][j] = c
  <2>1. at = i
    BY <1>4
  <2>2. Linked(Elements[p], c) = IF at = Len(Elements[p]) THEN Null ELSE Elements[p][at + 1]
    BY Zenon DEF Linked
  <2> HIDE DEF at
  <2>3. QED
    BY <2>1, <2>2
<1>7. QED
  BY <1>2, <1>3, <1>5, <1>6

LEMMA InitLine ==
  ASSUME Init, NEW z, z = [q \in Queue |-> IF q[1] = "free" THEN Elements[q[2]] ELSE <<>>]
  PROVE  z \in Lines /\ LineInv(z)
<1>1. z = [q \in Queue |-> IF q[1] = "free" THEN Elements[q[2]] ELSE <<>>]
  OBVIOUS
<1>2. \A q \in Queue : Owner(q) \in Proc /\ q[2] = Owner(q)
  BY Owners DEF Owner
<1>3. \A p \in Proc : Elements[p] \in Seq(Cell)
  BY Constants
<1>4. z \in Lines
  BY <1>1, <1>2, <1>3 DEF Lines
<1>5. \A q \in Queue : z[q] = <<>> \/ (q[1] = "free" /\ z[q] = Elements[Owner(q)])
  BY <1>1, <1>2
<1>6. \A p \in Proc : pc[p] = "idle"
  BY DEF Init
<1>7. TypeInv
  <2>1. ASSUME NEW p \in Proc, Elements[p] # <<>>
        PROVE  Elements[p][1] \in Cell /\ Last(Elements[p]) \in Cell
    BY <1>3, <2>1 DEF Last
  <2>2. head \in [Queue -> Cell \cup {Null}]
    BY <1>2, <2>1 DEF Init
  <2>3. tail \in [Queue -> Cell \cup {Null}]
    BY <1>2, <2>1 DEF Init
  <2>4. ASSUME NEW c \in Cell PROVE Linked(Elements[Home(c)], c) \in Cell \cup {Null}
    <3>0. PICK p \in Proc : \E i \in DOMAIN Elements[p] : Elements[p][i] = c
      BY NemQueueAssumption
    <3>1. PICK i \in DOMAIN Elements[p] : Elements[p][i] = c
      BY <3>0
    <3>2. i \in 1..Len(Elements[p])
      BY <1>3
    <3>3. i # Len(Elements[p]) => i + 1 \in 1..Len(Elements[p])
      BY <1>3, <3>2
    <3>4. QED
      BY <3>1, <3>2, <3>3, FirstElements
  <2>5. next \in [Cell -> Cell \cup {Null}]
    BY <2>4 DEF Init
  <2>6. my_head \in [Queue -> Cell \cup {Null}] /\ cell \in [Proc -> Cell \cup {Null}]
        /\ prev \in [Proc -> Cell \cup {Null}] /\ pc \in [Proc -> Places]
    BY DEF Init, Places
  <2>7. queue \in [Proc -> Queue]
    BY DEF Init, Queue
  <2>8. QED
    BY <2>2, <2>3, <2>5, <2>6, <2>7 DEF TypeInv
<1>8. OwnersInv /\ InHand(z)
  BY <1>6 DEF OwnersInv, InHand
<1>9. Distinct(z)
  <2>1. ASSUME NEW q \in Queue, NEW r \in Queue, NEW i \in 1..Len(z[q]), NEW j \in 1..Len(z[r]),
               z[q][i] = z[r][j]
        PROVE  q = r /\ i = j
    <3>1. q[1] = "free" /\ r[1] = "free" /\ z[q] = Elements[Owner(q)] /\ z[r] = Elements[Owner(r)]
      BY <1>5
    <3>2. i \in DOMAIN Elements[Owner(q)] /\ j \in DOMAIN Elements[Owner(r)]
      BY <1>2, <1>3, <3>1
    <3>3. Owner(q) = Owner(r) /\ i = j
      BY <1>2, <2>1, <3>1, <3>2, NemQueueAssumption, SMTT(30)
    <3>4. QED
      BY <3>1, <3>3 DEF Queue, Owner
  <2>2. QED
    BY <2>1 DEF Distinct
<1>10. ASSUME NEW q \in Queue PROVE QueueInv(q, z[q])
  <2>1. PICK s : s = z[q]
    OBVIOUS
  <2>2. s \in Seq(Cell)
    BY <1>4, <2>1 DEF Lines
  <2>3. my_head[q] = Null /\ First(q) = head[q] /\ \A c : ~Unlinked(q, c)
    BY <1>2, <1>6 DEF Init, First, Unlinked, At
  <2>4. CASE s = <<>>
    <3>1. head[q] = Null /\ tail[q] = Null
      BY <1>1, <1>2, <2>1, <2>4 DEF Init
    <3>2. LinksInv(q, s)
      BY <2>3, <2>4, <3>1 DEF LinksInv
    <3>3. EnqueuersInv(q, s) /\ HeadsInv(q)
      BY <1>2, <1>6, <2>3 DEF EnqueuersInv, HeadsInv, At
    <3>4. QED
      BY <2>1, <3>2, <3>3 DEF QueueInv
  <2>5. CASE s # <<>>
    <3>1. PICK p \in Proc : p = Owner(q)
      BY <1>2
    <3>2. s = Elements[p] /\ q[1] = "free" /\ q[2] = p
      BY <1>2, <1>5, <2>1, <2>5, <3>1
    <3>3. head[q] = s[1] /\ tail[q] = s[Len(s)]
      BY <2>5, <3>2 DEF Init, Last
    <3>4. ASSUME NEW i \in 1..Len(s)
          PROVE  s[i] \in Cell /\ next[s[i]] = IF i = Len(s) THEN Null ELSE s[i + 1]
      BY <3>2, FirstElements DEF Init
    <3>5. ASSUME NEW i \in 1..Len(s) PROVE Link(q, s, i) = s[i]
      <4>1. CASE i = 1
        BY <2>3, <3>3, <4>1 DEF Link
      <4>2. CASE i # 1
        <5>1. i - 1 \in 1..Len(s) /\ i - 1 # Len(s) /\ (i - 1) + 1 = i
          BY <2>2, <4>2
        <5>2. QED
          BY <3>4, <4>2, <5>1 DEF Link
      <4>3. QED
        BY <4>1, <4>2
    <3>6. Len(s) \in 1..Len(s)
      BY <2>2, <2>5
    <3>7. LinksInv(q, s)
      BY <2>3, <2>5, <3>3, <3>4, <3>5, <3>6 DEF LinksInv
    <3>8. EnqueuersInv(q, s) /\ HeadsInv(q)
      BY <1>2, <1>6, <2>3 DEF EnqueuersInv, HeadsInv, At
    <3>9. QED
      BY <2>1, <3>7, <3>8 DEF QueueInv
  <2>6. QED
    BY <2>4, <2>5
<1>11. LineInv(z)
  BY <1>7, <1>8, <1>9, <1>10 DEF LineInv
<1>12. QED
  BY <1>4, <1>11

LEMMA InitLines == Init => QueuesInv
BY InitLine DEF QueuesInv

(***************************************************************************)
(* What a step does to the sequences.                                      *)
(***************************************************************************)
Enqueues(z, p) == \E u \in Lines, q \in Queue, c \in Cell :
                    u = [z EXCEPT ![q] = Append(@, c)] /\ Enqueued(z, u, p, q, c)
Links(z, p) == \E q \in Queue : \E i \in 1..Len(z[q]) : LinkedAt(z, p, q, i)

LEMMA NextLine ==
  ASSUME NEW z \in Lines, LineInv(z), [Next]_vars
  PROVE  \/ LineInv(z)' /\ Still
         \/ \E p \in Proc : Takes(z, p) \/ Enqueues(z, p) \/ Links(z, p)
<1>1. CASE UNCHANGED vars
  <2>1. UNCHANGED <<head, tail, my_head, next, pc, queue, cell, prev>>
    BY <1>1 DEF vars
  <2>2. LineInv(z)'
    <3>1. TypeInv' /\ OwnersInv' /\ InHand(z)' /\ Distinct(z)'
      <4>1. TypeInv' /\ OwnersInv'
        BY <2>1 DEF LineInv, TypeInv, OwnersInv
      <4>2. InHand(z)'
        BY <2>1 DEF LineInv, InHand
      <4>3. Distinct(z)'
        BY DEF LineInv, Distinct
      <4>4. QED
        BY <4>1, <4>2, <4>3
    <3>2. ASSUME NEW q \in Queue PROVE QueueInv(q, z[q])'
      <4>1. \A c : Unlinked(q, c)' <=> Unlinked(q, c)
        BY <2>1 DEF Unlinked, At
      <4>2. \A i : Link(q, z[q], i)' = Link(q, z[q], i)
        BY <2>1 DEF Link, First
      <4>3. First(q)' = First(q)
        BY <2>1 DEF First
      <4>4. LinksInv(q, z[q])'
        BY <2>1, <4>1, <4>2, <4>3 DEF LineInv, QueueInv, LinksInv
      <4>5. EnqueuersInv(q, z[q])' /\ HeadsInv(q)'
        BY <2>1 DEF LineInv, QueueInv, EnqueuersInv, HeadsInv, At, Before
      <4>6. QED
        BY <4>4, <4>5 DEF QueueInv
    <3>3. QED
      BY <3>1, <3>2 DEF LineInv
  <2>3. Still
    BY <2>1 DEF Still, Unlinked, At, Held
  <2>4. QED
    BY <2>2, <2>3
<1>2. ASSUME NEW p \in Proc, Step(p)
      PROVE  \/ LineInv(z)' /\ Still
             \/ Takes(z, p) \/ Enqueues(z, p) \/ Links(z, p)
  <2>1. CASE CopyHead(p)
    BY <2>1, CopyStep
  <2>2. CASE ResetHead(p)
    BY <2>2, ResetStep
  <2>3. CASE queue_dequeue(p)
    BY <2>3, SeemsLastStep, DequeueStep
  <2>4. CASE CAS_tail(p)
    BY <2>4, NotLastStep, LastStep
  <2>5. CASE SpinOnNext(p)
    BY <2>5, SpinStep
  <2>6. ASSUME NEW q \in Queue, queue_enqueue(p, q) PROVE Enqueues(z, p)
    <3>1. PICK c, u : c = cell[p] /\ u = [z EXCEPT ![q] = Append(@, c)]
      OBVIOUS
    <3>2. u \in Lines /\ c \in Cell /\ Enqueued(z, u, p, q, c)
      BY <2>6, <3>1, EnqueueStep
    <3>3. QED
      BY <3>1, <3>2 DEF Enqueues
  <2>7. CASE LinkCell(p)
    BY <2>7, LinkStep DEF Links
  <2>8. QED
    BY <1>2, <2>1, <2>2, <2>3, <2>4, <2>5, <2>6, <2>7 DEF Step
<1>3. ASSUME NEW p \in Proc, NEW q \in Queue, queue_empty(p, q)
      PROVE  LineInv(z)' /\ Still
  BY <1>3, EmptyStep
<1>4. QED
  BY <1>1, <1>2, <1>3 DEF Next

LEMMA StepLine == QueuesInv /\ [Next]_vars => QueuesInv'
<1> SUFFICES ASSUME QueuesInv, [Next]_vars PROVE QueuesInv'
  OBVIOUS
<1>1. PICK z \in Lines : LineInv(z)
  BY DEF QueuesInv
<1>2. \E u \in Lines : LineInv(u)'
  BY <1>1, NextLine DEF Takes, Taken, Enqueues, Enqueued, Links, LinkedAt
<1>3. QED
  BY <1>2 DEF QueuesInv, Lines

(***************************************************************************)
(* The cells of every queue form a sequence, linked except where an        *)
(* enqueuer has not finished.                                              *)
(***************************************************************************)
THEOREM LinesAlways == Spec => []QueuesInv
BY InitLines, StepLine, PTL DEF Spec

(***************************************************************************)
(* The types; and a process that goes on to dequeue has a cell to take.    *)
(***************************************************************************)
THEOREM NonemptyHasCell == Spec => []TypeOK
<1>1. QueuesInv => TypeOK
  <2> SUFFICES ASSUME QueuesInv PROVE TypeOK
    OBVIOUS
  <2>1. PICK z \in Lines : LineInv(z)
    BY DEF QueuesInv
  <2>2. TypeInv /\ OwnersInv /\ \A q \in Queue : HeadsInv(q)
    BY <2>1 DEF LineInv, QueueInv
  <2>3. ASSUME NEW p \in Proc, pc[p] \in {"dequeue", "reset"} PROVE my_head[queue[p]] # Null
    <3>1. queue[p] \in Queue /\ Owner(queue[p]) = p
      BY <2>2, <2>3 DEF TypeInv, OwnersInv
    <3>2. QED
      BY <2>2, <2>3, <3>1 DEF HeadsInv, At
  <2>4. QED
    BY <2>2, <2>3 DEF TypeOK, TypeInv, Places
<1>2. QED
  BY <1>1, LinesAlways, PTL

-----------------------------------------------------------------------------
(***************************************************************************)
(* The refinement.  The owner of a queue sees its cells up to the first    *)
(* one that is not linked.                                                 *)
(***************************************************************************)
Waiting(q) == {c \in Cell : Unlinked(q, c)}

(* n cells of s are seen if those in U are not linked *)
Seen(U, s, n) == /\ n \in 0..Len(s) /\ \A i \in 1..n : s[i] \notin U
                 /\ n < Len(s) => s[n + 1] \in U

LEMMA SeenExists ==
  ASSUME NEW U, NEW s \in Seq(Cell)
  PROVE  \E n \in Nat : Seen(U, s, n)
<1> DEFINE B == {n \in Nat : n < Len(s) /\ s[n + 1] \in U}
<1>1. CASE B = {}
  <2>1. \A i \in 1..Len(s) : i - 1 \in Nat /\ i - 1 < Len(s) /\ (i - 1) + 1 = i
    OBVIOUS
  <2>2. Seen(U, s, Len(s))
    BY <1>1, <2>1 DEF Seen
  <2>3. QED
    BY <2>2
<1>2. CASE B # {}
  <2>1. PICK n \in B : \A k \in B : n <= k
    BY <1>2, Least
  <2>2. ASSUME NEW i \in 1..n PROVE s[i] \notin U
    <3>1. i - 1 \in Nat /\ i - 1 < Len(s) /\ (i - 1) + 1 = i /\ ~(n <= i - 1)
      BY <2>1
    <3>2. QED
      BY <2>1, <3>1
  <2>3. n \in Nat /\ n \in 0..Len(s) /\ s[n + 1] \in U
    BY <2>1
  <2>4. Seen(U, s, n)
    BY <2>2, <2>3 DEF Seen
  <2>5. QED
    BY <2>3, <2>4
<1>3. QED
  BY <1>1, <1>2

(* f and the links nx lead along s up to a cell in U *)
Chained(s, U, f, nx) ==
  /\ \A i \in 1..Len(s) : (IF i = 1 THEN f ELSE nx[s[i - 1]]) = IF s[i] \in U THEN Null ELSE s[i]
  /\ IF s = <<>> THEN f = Null ELSE nx[s[Len(s)]] = Null

LEMMA SubSeqFacts ==
  ASSUME NEW s \in Seq(Cell), NEW n \in 0..Len(s)
  PROVE  /\ SubSeq(s, 1, n) \in Seq(Cell) /\ Len(SubSeq(s, 1, n)) = n
         /\ \A i \in 1..n : SubSeq(s, 1, n)[i] = s[i]
         /\ SubSeq(s, n + 1, Len(s)) \in Seq(Cell) /\ Len(SubSeq(s, n + 1, Len(s))) = Len(s) - n
         /\ \A i \in 1..(Len(s) - n) : SubSeq(s, n + 1, Len(s))[i] = s[n + i]
BY SMTT(30)

LEMMA SeenPath ==
  ASSUME NEW s \in Seq(Cell), \A i, j \in 1..Len(s) : s[i] = s[j] => i = j,
         NEW U, NEW f, NEW nx, Chained(s, U, f, nx), NEW n \in Nat, Seen(U, s, n)
  PROVE  Path(f, nx) = SubSeq(s, 1, n)
<1>1. PICK t : t = SubSeq(s, 1, n)
  OBVIOUS
<1>2. n \in 0..Len(s) /\ Len(s) \in Nat
  BY DEF Seen
<1>3. t \in Seq(Cell) /\ Len(t) = n /\ \A i \in 1..n : t[i] = s[i] /\ i \in 1..Len(s)
  BY <1>1, <1>2, SubSeqFacts
<1>4. \A i, j \in 1..Len(t) : t[i] = t[j] => i = j
  BY <1>3
<1>5. f = IF t = <<>> THEN Null ELSE t[1]
  <2>1. CASE n = 0
    <3>1. t = <<>>
      BY <1>3, <2>1
    <3>2. f = Null
      <4>1. CASE s = <<>>
        BY <4>1 DEF Chained
      <4>2. CASE s # <<>>
        <5>1. 1 \in 1..Len(s) /\ s[1] \in U
          BY <1>2, <2>1, <4>2 DEF Seen
        <5>2. QED
          BY <5>1 DEF Chained
      <4>3. QED
        BY <4>1, <4>2
    <3>3. QED
      BY <3>1, <3>2
  <2>2. CASE n # 0
    <3>1. 1 \in 1..n /\ t # <<>>
      BY <1>2, <1>3, <2>2
    <3>2. s[1] \notin U /\ 1 \in 1..Len(s) /\ t[1] = s[1]
      BY <1>3, <3>1 DEF Seen
    <3>3. QED
      BY <3>1, <3>2 DEF Chained
  <2>3. QED
    BY <2>1, <2>2
<1>6. ASSUME NEW i \in 1..Len(t)
      PROVE  nx[t[i]] = IF i = Len(t) THEN Null ELSE t[i + 1]
  <2>1. t[i] = s[i] /\ i \in 1..Len(s)
    BY <1>3
  <2>2. CASE i = Len(s)
    <3>1. s # <<>> /\ i = Len(t)
      BY <1>2, <1>3, <2>1, <2>2
    <3>2. QED
      BY <2>1, <2>2, <3>1 DEF Chained
  <2>3. CASE i # Len(s)
    <3>1. i + 1 \in 1..Len(s) /\ i + 1 # 1 /\ (i + 1) - 1 = i
      BY <1>2, <2>1, <2>3
    <3>2. nx[s[i]] = IF s[i + 1] \in U THEN Null ELSE s[i + 1]
      BY <3>1 DEF Chained
    <3>3. CASE i = n
      <4>1. n < Len(s)
        BY <1>2, <2>3, <3>3
      <4>2. s[i + 1] \in U
        BY <3>3, <4>1 DEF Seen
      <4>3. QED
        BY <1>3, <2>1, <3>2, <3>3, <4>2
    <3>4. CASE i # n
      <4>1. i + 1 \in 1..n
        BY <1>2, <1>3, <3>4
      <4>2. s[i + 1] \notin U /\ t[i + 1] = s[i + 1]
        BY <1>3, <4>1 DEF Seen
      <4>3. QED
        BY <1>3, <2>1, <3>2, <3>4, <4>2
    <3>5. QED
      BY <3>3, <3>4
  <2>4. QED
    BY <2>2, <2>3
<1>7. IsChain(nx, t, f)
  BY <1>5, <1>6 DEF IsChain
<1>8. t \in Seq(Cell)
  BY <1>3
<1>9. Path(f, nx) = t
  BY ONLY <1>4, <1>7, <1>8, PathIs
<1>10. QED
  BY <1>1, <1>9

(* pending leads to each cell in U *)
Leads(pending, s, U) ==
  /\ \A i \in 1..Len(s) : s[i] \in U => pending[Before(s, i)] = s[i]
  /\ \A c \in Cell \cup {Null} :
       (\A i \in 1..Len(s) : s[i] \in U => c # Before(s, i)) => pending[c] = Null

Different(s) == \A i, j \in 1..Len(s) : s[i] = s[j] => i = j

(* the rest of the queue, along the enqueuers where a link is missing *)
LEMMA SeenRest ==
  ASSUME NEW s \in Seq(Cell), Different(s),
         NEW U, NEW f, NEW nx, Chained(s, U, f, nx), NEW n \in Nat, Seen(U, s, n),
         NEW pending, Leads(pending, s, U),
         NEW c, c = (IF n = 0 THEN Null ELSE s[n])
  PROVE  Path(pending[c], [d \in Cell |-> IF nx[d] # Null THEN nx[d] ELSE pending[d]])
           = SubSeq(s, n + 1, Len(s))
<1>1. PICK t : t = SubSeq(s, n + 1, Len(s))
  OBVIOUS
<1>2. n \in 0..Len(s) /\ Len(s) \in Nat
  BY DEF Seen
<1>3. /\ t \in Seq(Cell) /\ Len(t) = Len(s) - n
      /\ \A i \in 1..Len(t) : t[i] = s[n + i] /\ n + i \in 1..Len(s)
  BY <1>1, <1>2, SubSeqFacts
<1>4. \A i, j \in 1..Len(t) : t[i] = t[j] => i = j
  BY <1>2, <1>3 DEF Different
<1>5. \A i \in 1..Len(s) : s[i] \in Cell /\ s[i] # Null
  BY Constants
<1>6. \A i, j \in 1..Len(s) : j # 1 /\ s[i] = Before(s, j) => i = j - 1
  BY <1>5 DEF Before, Different
<1>7. \A i \in 1..Len(s) : s[i] # Before(s, 1)
  BY <1>5 DEF Before
<1>8. pending[c] = IF t = <<>> THEN Null ELSE t[1]
  <2>1. CASE n = Len(s)
    <3>1. t = <<>>
      BY <1>2, <1>3, <2>1
    <3>2. ASSUME NEW i \in 1..Len(s), s[i] \in U PROVE FALSE
      BY <2>1, <3>2 DEF Seen
    <3>3. c \in Cell \cup {Null}
      BY <1>2, <1>5
    <3>4. QED
      BY <3>1, <3>2, <3>3 DEF Leads
  <2>2. CASE n # Len(s)
    <3>1. n < Len(s) /\ 1 \in 1..Len(t) /\ n + 1 \in 1..Len(s) /\ t # <<>>
      <4>1. n < Len(s) /\ n + 1 \in 1..Len(s)
        BY <1>2, <2>2
      <4>2. Len(t) \in Nat /\ Len(t) > 0
        BY <1>3, <4>1
      <4>3. QED
        BY <4>1, <4>2
    <3>2. s[n + 1] \in U /\ t[1] = s[n + 1]
      BY <1>3, <3>1 DEF Seen
    <3>3. c = Before(s, n + 1)
      BY <1>2 DEF Before
    <3>4. QED
      BY <3>1, <3>2, <3>3 DEF Leads
  <2>3. QED
    BY <2>1, <2>2
<1> DEFINE succ == [d \in Cell |-> IF nx[d] # Null THEN nx[d] ELSE pending[d]]
<1>9. ASSUME NEW i \in 1..Len(t)
      PROVE  succ[t[i]] = IF i = Len(t) THEN Null ELSE t[i + 1]
  <2>1. PICK k \in 1..Len(s) : k = n + i /\ t[i] = s[k]
    BY <1>3
  <2>2. succ[s[k]] = IF nx[s[k]] # Null THEN nx[s[k]] ELSE pending[s[k]]
    BY <1>5
  <2>3. CASE k = Len(s)
    <3>1. i = Len(t) /\ s # <<>>
      <4>1. i \in Nat /\ n + i = Len(s)
        BY <2>1, <2>3
      <4>2. i = Len(s) - n
        BY <1>2, <4>1
      <4>3. s # <<>>
        BY <2>1
      <4>4. QED
        BY <1>3, <4>2, <4>3
    <3>2. nx[s[k]] = Null
      BY <2>3, <3>1 DEF Chained
    <3>3. \A j \in 1..Len(s) : s[k] # Before(s, j)
      BY <1>6, <1>7, <2>3
    <3>4. pending[s[k]] = Null
      BY <1>5, <3>3 DEF Leads
    <3>5. QED
      BY <2>1, <2>2, <3>1, <3>2, <3>4
  <2>4. CASE k # Len(s)
    <3>1. k + 1 \in 1..Len(s) /\ k + 1 # 1 /\ (k + 1) - 1 = k
      BY <1>2, <2>1, <2>4
    <3>2. nx[s[k]] = IF s[k + 1] \in U THEN Null ELSE s[k + 1]
      BY <3>1 DEF Chained
    <3>3. s[k + 1] \in U => pending[s[k]] = s[k + 1]
      BY <3>1 DEF Before, Leads
    <3>4. succ[s[k]] = s[k + 1]
      BY <1>5, <2>2, <3>1, <3>2, <3>3
    <3>5. i + 1 \in 1..Len(t) /\ i # Len(t) /\ n + (i + 1) = k + 1
      <4>1. Len(s) \in Nat /\ n \in Nat /\ i \in Nat /\ i > 0 /\ Len(t) = Len(s) - n
            /\ k = n + i /\ k <= Len(s)
        BY <1>2, <1>3, <2>1
      <4>2. \A a, b, x \in Nat : x > 0 /\ b + x <= a /\ b + x # a =>
              x + 1 \in 1..(a - b) /\ x # a - b /\ b + (x + 1) = (b + x) + 1
        OBVIOUS
      <4>3. QED
        BY <2>4, <4>1, <4>2
    <3>6. QED
      BY <1>3, <2>1, <3>4, <3>5
  <2>5. QED
    BY <2>3, <2>4
<1> HIDE DEF succ
<1>10. IsChain(succ, t, pending[c])
  BY <1>8, <1>9 DEF IsChain
<1>11. Path(pending[c], succ) = t
  BY <1>3, <1>4, <1>10, PathIs
<1>12. QED
  BY <1>1, <1>11 DEF succ

LEMMA PendingOne ==
  ASSUME NEW z \in Lines, LineInv(z), NEW q \in Queue, NEW s, s = z[q]
  PROVE  /\ \A i \in 1..Len(s) : s[i] \in Waiting(q) => Pending(q, Before(s, i)) = s[i]
         /\ \A c : (\A i \in 1..Len(s) : s[i] \in Waiting(q) => c # Before(s, i))
                     => Pending(q, c) = Null
<1>1. /\ s \in Seq(Cell) /\ EnqueuersInv(q, s)
      /\ \A i, j \in 1..Len(s) : s[i] = s[j] => i = j
  BY DEF LineInv, QueueInv, Lines, Distinct
<1>2. \A i \in 1..Len(s) : s[i] \in Cell /\ s[i] # Null /\ (i # 1 => i - 1 \in 1..Len(s))
  BY <1>1, Constants
<1>3. \A i, j \in 1..Len(s) : Before(s, i) = Before(s, j) => i = j
  BY <1>1, <1>2 DEF Before
<1>4. ASSUME NEW c, NEW p \in Linking(q, c)
      PROVE  \E i \in 1..Len(s) : cell[p] = s[i] /\ c = Before(s, i) /\ s[i] \in Waiting(q)
  <2>1. p \in Proc /\ At(p, {"link"}, q) /\ prev[p] = c
    BY DEF Linking, At
  <2>2. PICK i \in 1..Len(s) : cell[p] = s[i] /\ prev[p] = Before(s, i)
    BY <1>1, <2>1 DEF EnqueuersInv
  <2>3. s[i] \in Waiting(q)
    BY <1>2, <2>1, <2>2 DEF Waiting, Unlinked
  <2>4. QED
    BY <2>1, <2>2, <2>3
<1>5. ASSUME NEW i \in 1..Len(s), s[i] \in Waiting(q) PROVE Pending(q, Before(s, i)) = s[i]
  <2>1. PICK p \in Proc : At(p, {"link"}, q) /\ cell[p] = s[i]
    BY <1>5 DEF Waiting, Unlinked
  <2>2. prev[p] = Before(s, i)
    BY <1>1, <2>1 DEF EnqueuersInv
  <2>3. p \in Linking(q, Before(s, i))
    BY <2>1, <2>2 DEF Linking, At
  <2>4. \A r \in Linking(q, Before(s, i)) : cell[r] = s[i]
    BY <1>3, <1>4
  <2>5. {cell[r] : r \in Linking(q, Before(s, i))} = {s[i]}
    BY <2>1, <2>3, <2>4
  <2>6. QED
    BY <2>5 DEF Pending
<1>6. ASSUME NEW c, \A i \in 1..Len(s) : s[i] \in Waiting(q) => c # Before(s, i)
      PROVE  Pending(q, c) = Null
  <2>1. Linking(q, c) = {}
    BY <1>4, <1>6
  <2>2. QED
    BY <2>1 DEF Pending
<1>7. QED
  BY <1>5, <1>6

View(z) == \A q \in Queue : \A n \in Nat : Seen(Waiting(q), z[q], n) =>
             Ready(q) = SubSeq(z[q], 1, n) /\ Arriving(q) = SubSeq(z[q], n + 1, Len(z[q]))

LEMMA LineView ==
  ASSUME NEW z \in Lines, LineInv(z)
  PROVE  View(z)
<1> SUFFICES ASSUME NEW q \in Queue, NEW n \in Nat, Seen(Waiting(q), z[q], n)
             PROVE  Ready(q) = SubSeq(z[q], 1, n) /\ Arriving(q) = SubSeq(z[q], n + 1, Len(z[q]))
  BY DEF View
<1>1. PICK s : s = z[q]
  OBVIOUS
<1>2. /\ s \in Seq(Cell) /\ LinksInv(q, s) /\ \A i, j \in 1..Len(s) : s[i] = s[j] => i = j
      /\ Seen(Waiting(q), s, n)
  BY <1>1 DEF LineInv, QueueInv, Lines, Distinct
<1>3. Chained(s, Waiting(q), First(q), next)
  <2>1. \A i \in 1..Len(s) : s[i] \in Waiting(q) <=> Unlinked(q, s[i])
    BY <1>2 DEF Waiting
  <2>2. QED
    BY <1>2, <2>1 DEF LinksInv, Link, Chained
<1>4. Ready(q) = SubSeq(s, 1, n)
  <2>1. \A i, j \in 1..Len(s) : s[i] = s[j] => i = j
    BY <1>2
  <2>2. Path(First(q), next) = SubSeq(s, 1, n)
    BY <1>2, <1>3, <2>1, SeenPath
  <2>3. QED
    BY <2>2 DEF Ready
<1>5. PICK c : c = IF n = 0 THEN Null ELSE s[n]
  OBVIOUS
<1>6. c = (IF Ready(q) = <<>> THEN Null ELSE Last(Ready(q))) /\ c \in Cell \cup {Null}
  <2>1. n \in 0..Len(s)
    BY <1>2 DEF Seen
  <2>2. Len(Ready(q)) = n /\ \A i \in 1..n : Ready(q)[i] = s[i] /\ s[i] \in Cell
    BY <1>2, <1>4, <2>1, SubSeqFacts
  <2>3. CASE n = 0
    <3>1. Ready(q) = <<>>
      BY <1>2, <1>4, <2>1, <2>2, <2>3, SubSeqFacts
    <3>2. QED
      BY <1>5, <2>3, <3>1
  <2>4. CASE n # 0
    <3>1. n \in 1..n /\ Ready(q) # <<>>
      BY <2>2, <2>4
    <3>2. QED
      BY <1>5, <2>2, <2>4, <3>1 DEF Last
  <2>5. QED
    BY <2>3, <2>4
<1>7. PICK pending : pending = [d \in Cell \cup {Null} |-> Pending(q, d)]
  OBVIOUS
<1>8. \A d \in Cell \cup {Null} : pending[d] = Pending(q, d)
  BY <1>7
<1>9. \A i \in 1..Len(s) : Before(s, i) \in Cell \cup {Null}
  BY <1>2 DEF Before
<1>10. \A i \in 1..Len(s) : s[i] \in Waiting(q) => pending[Before(s, i)] = s[i]
  BY <1>1, <1>8, <1>9, PendingOne
<1>11. \A d \in Cell \cup {Null} :
         (\A i \in 1..Len(s) : s[i] \in Waiting(q) => d # Before(s, i)) => pending[d] = Null
  BY <1>1, <1>8, PendingOne
<1>12. Path(pending[c], [d \in Cell |-> IF next[d] # Null THEN next[d] ELSE pending[d]])
         = SubSeq(s, n + 1, Len(s))
  <2>1. Different(s)
    BY <1>2 DEF Different
  <2>2. s \in Seq(Cell) /\ Seen(Waiting(q), s, n)
    BY <1>2
  <2>3. Leads(pending, s, Waiting(q))
    BY <1>10, <1>11 DEF Leads
  <2>4. QED
    BY ONLY <1>3, <1>5, <2>1, <2>2, <2>3, n \in Nat, SeenRest
<1>13. /\ pending[c] = Pending(q, IF Ready(q) = <<>> THEN Null ELSE Last(Ready(q)))
       /\ [d \in Cell |-> IF next[d] # Null THEN next[d] ELSE pending[d]] =
            [d \in Cell |-> IF next[d] # Null THEN next[d] ELSE Pending(q, d)]
  BY <1>6, <1>8
<1>14. Arriving(q) = SubSeq(s, n + 1, Len(s))
  BY <1>12, <1>13 DEF Arriving
<1>15. QED
  BY <1>1, <1>4, <1>14

(* what the owner sees after a dequeue, an enqueue and a link *)
LEMMA SameParts ==
  ASSUME NEW s \in Seq(Cell), NEW t \in Seq(Cell), Len(s) = Len(t),
         \A i \in 1..Len(s) : s[i] = t[i]
  PROVE  s = t
OBVIOUS

LEMMA ConcatFacts ==
  ASSUME NEW s \in Seq(Cell), NEW t \in Seq(Cell), NEW n \in Nat, n = Len(s),
         NEW k \in Nat, k = Len(t)
  PROVE  /\ s \o t \in Seq(Cell) /\ Len(s \o t) = n + k
         /\ \A i \in 1..(n + k) : (s \o t)[i] = IF i <= n THEN s[i] ELSE t[i - n]
OBVIOUS

LEMMA TailSeen ==
  ASSUME NEW s \in Seq(Cell), s # <<>>, NEW U, s[1] \notin U, NEW n \in Nat, Seen(U, s, n)
  PROVE  /\ n - 1 \in Nat /\ Seen(U, Tail(s), n - 1)
         /\ SubSeq(s, 1, n) # <<>> /\ Head(SubSeq(s, 1, n)) = s[1]
         /\ SubSeq(Tail(s), 1, n - 1) = Tail(SubSeq(s, 1, n))
         /\ SubSeq(Tail(s), (n - 1) + 1, Len(Tail(s))) = SubSeq(s, n + 1, Len(s))
<1>1. n \in 0..Len(s) /\ Len(s) \in Nat /\ Len(s) > 0
  BY DEF Seen
<1>2. n # 0
  BY <1>1 DEF Seen
<1>3. PICK t : t = Tail(s)
  OBVIOUS
<1>4. t \in Seq(Cell) /\ Len(t) = Len(s) - 1 /\ \A i \in 1..Len(t) : t[i] = s[i + 1]
  BY <1>3
<1>5. PICK m \in Nat : m = n - 1 /\ n = m + 1 /\ m \in 0..Len(t)
  BY <1>1, <1>2, <1>4
<1>6. PICK a, b : a = SubSeq(s, 1, n) /\ b = SubSeq(s, n + 1, Len(s))
  OBVIOUS
<1>7. /\ a \in Seq(Cell) /\ Len(a) = n /\ \A i \in 1..n : a[i] = s[i]
      /\ b \in Seq(Cell) /\ Len(b) = Len(s) - n /\ \A i \in 1..(Len(s) - n) : b[i] = s[n + i]
  BY <1>1, <1>6, SubSeqFacts
<1>8. PICK c, d : c = SubSeq(t, 1, m) /\ d = SubSeq(t, m + 1, Len(t))
  OBVIOUS
<1>9. /\ c \in Seq(Cell) /\ Len(c) = m /\ \A i \in 1..m : c[i] = t[i]
      /\ d \in Seq(Cell) /\ Len(d) = Len(t) - m /\ \A i \in 1..(Len(t) - m) : d[i] = t[m + i]
  BY <1>4, <1>5, <1>8, SubSeqFacts, SMTT(30)
<1>10. a # <<>> /\ Head(a) = s[1]
  BY <1>2, <1>7
<1>11. Tail(a) \in Seq(Cell) /\ Len(Tail(a)) = m /\ \A i \in 1..m : Tail(a)[i] = a[i + 1]
  BY <1>5, <1>7, <1>10
<1>12. c = Tail(a)
  <2>1. ASSUME NEW i \in 1..m PROVE c[i] = Tail(a)[i]
    <3>1. i \in 1..Len(t) /\ i + 1 \in 1..n
      BY <1>4, <1>5
    <3>2. c[i] = t[i] /\ t[i] = s[i + 1]
      BY <1>4, <1>9, <3>1
    <3>3. Tail(a)[i] = a[i + 1] /\ a[i + 1] = s[i + 1]
      BY <1>7, <1>11, <3>1
    <3>4. QED
      BY <3>2, <3>3
  <2>2. QED
    BY <1>9, <1>11, <2>1, SameParts
<1>13. d = b
  <2>1. Len(d) = Len(b) /\ Len(d) = Len(s) - n
    BY <1>1, <1>4, <1>5, <1>7, <1>9
  <2>2. ASSUME NEW i \in 1..Len(d) PROVE d[i] = b[i]
    <3>1. Len(t) - m = Len(s) - n
      BY <1>1, <1>4, <1>5
    <3>2. i \in 1..(Len(t) - m) /\ i \in 1..(Len(s) - n) /\ m + i \in 1..Len(t) /\ (m + i) + 1 = n + i
      BY <1>1, <1>4, <1>5, <2>1, <3>1
    <3>3. d[i] = t[m + i]
      BY <1>9, <3>2
    <3>4. b[i] = s[n + i]
      BY <1>7, <3>2
    <3>5. t[m + i] = s[n + i]
      BY <1>4, <3>2
    <3>6. QED
      BY <3>3, <3>4, <3>5
  <2>3. QED
    BY <1>7, <1>9, <2>1, <2>2, SameParts
<1>14. Seen(U, t, m)
  <2>1. ASSUME NEW i \in 1..m PROVE t[i] \notin U
    <3>1. i \in 1..Len(t) /\ i + 1 \in 1..n
      BY <1>4, <1>5
    <3>2. QED
      BY <1>4, <3>1 DEF Seen
  <2>2. ASSUME m < Len(t) PROVE t[m + 1] \in U
    <3>1. m + 1 \in 1..Len(t) /\ (m + 1) + 1 = n + 1 /\ n < Len(s)
      BY <1>1, <1>4, <1>5, <2>2
    <3>2. QED
      BY <1>4, <3>1 DEF Seen
  <2>3. QED
    BY <1>5, <2>1, <2>2 DEF Seen
<1>15. QED
  BY <1>3, <1>5, <1>6, <1>8, <1>10, <1>12, <1>13, <1>14

LEMMA AppendSeen ==
  ASSUME NEW s \in Seq(Cell), NEW c \in Cell, \A i \in 1..Len(s) : s[i] # c,
         NEW U, NEW n \in Nat, Seen(U, s, n)
  PROVE  /\ Seen(U \cup {c}, Append(s, c), n)
         /\ SubSeq(Append(s, c), 1, n) = SubSeq(s, 1, n)
         /\ SubSeq(Append(s, c), n + 1, Len(Append(s, c))) = Append(SubSeq(s, n + 1, Len(s)), c)
<1>1. n \in 0..Len(s) /\ Len(s) \in Nat
  BY DEF Seen
<1>2. PICK t : t = Append(s, c)
  OBVIOUS
<1>3. /\ t \in Seq(Cell) /\ Len(t) = Len(s) + 1 /\ t[Len(s) + 1] = c
      /\ \A i \in 1..Len(s) : t[i] = s[i]
  BY <1>2
<1>4. n \in 0..Len(t)
  BY <1>1, <1>3
<1>5. PICK a, b : a = SubSeq(s, 1, n) /\ b = SubSeq(s, n + 1, Len(s))
  OBVIOUS
<1>6. /\ a \in Seq(Cell) /\ Len(a) = n /\ \A i \in 1..n : a[i] = s[i]
      /\ b \in Seq(Cell) /\ Len(b) = Len(s) - n /\ \A i \in 1..(Len(s) - n) : b[i] = s[n + i]
  BY <1>1, <1>5, SubSeqFacts
<1>7. PICK d, e : d = SubSeq(t, 1, n) /\ e = SubSeq(t, n + 1, Len(t))
  OBVIOUS
<1>8. /\ d \in Seq(Cell) /\ Len(d) = n /\ \A i \in 1..n : d[i] = t[i]
      /\ e \in Seq(Cell) /\ Len(e) = Len(t) - n /\ \A i \in 1..(Len(t) - n) : e[i] = t[n + i]
  BY <1>3, <1>4, <1>7, SubSeqFacts
<1>9. d = a
  <2>1. \A i \in 1..n : i \in 1..Len(s)
    BY <1>1
  <2>2. \A i \in 1..n : d[i] = a[i]
    BY <1>3, <1>6, <1>8, <2>1
  <2>3. QED
    BY <1>6, <1>8, <2>2, SameParts
<1>10. PICK g : g = Append(b, c)
  OBVIOUS
<1>11. /\ g \in Seq(Cell) /\ Len(g) = Len(b) + 1 /\ g[Len(b) + 1] = c
       /\ \A i \in 1..Len(b) : g[i] = b[i]
  BY <1>6, <1>10
<1>12. e = g
  <2>1. Len(e) = Len(g) /\ Len(e) = (Len(s) - n) + 1 /\ Len(s) - n \in Nat
    BY <1>1, <1>3, <1>6, <1>8, <1>11
  <2>2. ASSUME NEW i \in 1..Len(e) PROVE e[i] = g[i]
    <3>1. i \in 1..(Len(t) - n) /\ e[i] = t[n + i]
      BY <1>8
    <3>2. CASE i = (Len(s) - n) + 1
      <4>1. n + i = Len(s) + 1 /\ i = Len(b) + 1
        BY <1>1, <1>6, <3>2
      <4>2. QED
        BY <1>3, <1>11, <3>1, <4>1
    <3>3. CASE i # (Len(s) - n) + 1
      <4>1. i \in 1..(Len(s) - n) /\ n + i \in 1..Len(s)
        BY <1>1, <2>1, <3>3
      <4>2. i \in 1..Len(b) /\ b[i] = s[n + i]
        BY <1>6, <4>1
      <4>3. QED
        BY <1>3, <1>11, <3>1, <4>1, <4>2
    <3>4. QED
      BY <3>2, <3>3
  <2>3. QED
    BY <1>8, <1>11, <2>1, <2>2, SameParts
<1>13. Seen(U \cup {c}, t, n)
  <2>1. ASSUME NEW i \in 1..n PROVE t[i] \notin U \cup {c}
    <3>1. i \in 1..Len(s)
      BY <1>1
    <3>2. QED
      BY <1>3, <3>1 DEF Seen
  <2>2. t[n + 1] \in U \cup {c}
    <3>1. CASE n = Len(s)
      BY <1>3, <3>1
    <3>2. CASE n # Len(s)
      <4>1. n < Len(s) /\ n + 1 \in 1..Len(s)
        BY <1>1, <3>2
      <4>2. QED
        BY <1>3, <4>1 DEF Seen
    <3>3. QED
      BY <3>1, <3>2
  <2>3. QED
    BY <1>4, <2>1, <2>2 DEF Seen
<1>14. QED
  BY <1>2, <1>5, <1>7, <1>9, <1>10, <1>12, <1>13

(* an enqueuer finished: U became V *)
Fewer(V, U) == V \subseteq U

(* the first m - n cells of a, those after the first n of s, appear *)
Appeared(s, a, n, m) ==
  /\ m - n \in 1..Len(a)
  /\ SubSeq(s, 1, m) = SubSeq(s, 1, n) \o SubSeq(a, 1, m - n)
  /\ SubSeq(s, m + 1, Len(s)) = SubSeq(a, (m - n) + 1, Len(a))

LEMMA LinkSeen ==
  ASSUME NEW s \in Seq(Cell), NEW U, NEW V, Fewer(V, U), NEW n \in Nat, Seen(U, s, n),
         NEW m \in Nat, Seen(V, s, m), m # n,
         NEW a, a = SubSeq(s, n + 1, Len(s))
  PROVE  Appeared(s, a, n, m)
<1>1. n \in 0..Len(s) /\ Len(s) \in Nat /\ m \in 0..Len(s)
  BY DEF Seen
<1>2. n < m
  <2>1. ASSUME m < n PROVE FALSE
    <3>1. m + 1 \in 1..n /\ m < Len(s)
      BY <1>1, <2>1
    <3>2. s[m + 1] \in V /\ s[m + 1] \notin U
      BY <3>1 DEF Seen
    <3>3. QED
      BY <3>2 DEF Fewer
  <2>2. QED
    BY <2>1
<1>3. PICK k \in Nat : k = m - n /\ m = n + k /\ k > 0
  BY <1>2
<1>4. a \in Seq(Cell) /\ Len(a) = Len(s) - n /\ \A i \in 1..(Len(s) - n) : a[i] = s[n + i]
  BY <1>1, SubSeqFacts
<1>5. k \in 1..Len(a) /\ k \in 0..Len(a)
  BY <1>1, <1>3, <1>4
<1>6. PICK b, c, d, e, f : /\ b = SubSeq(s, 1, n) /\ c = SubSeq(s, 1, m)
                           /\ d = SubSeq(s, m + 1, Len(s))
                           /\ e = SubSeq(a, 1, k) /\ f = SubSeq(a, k + 1, Len(a))
  OBVIOUS
<1>7. /\ b \in Seq(Cell) /\ Len(b) = n /\ \A i \in 1..n : b[i] = s[i]
      /\ c \in Seq(Cell) /\ Len(c) = m /\ \A i \in 1..m : c[i] = s[i]
      /\ d \in Seq(Cell) /\ Len(d) = Len(s) - m /\ \A i \in 1..(Len(s) - m) : d[i] = s[m + i]
  BY <1>1, <1>6, SubSeqFacts
<1>8. /\ e \in Seq(Cell) /\ Len(e) = k /\ \A i \in 1..k : e[i] = a[i]
      /\ f \in Seq(Cell) /\ Len(f) = Len(a) - k /\ \A i \in 1..(Len(a) - k) : f[i] = a[k + i]
  BY <1>4, <1>5, <1>6, SubSeqFacts
<1>9. c = b \o e
  <2>1. /\ b \o e \in Seq(Cell) /\ Len(b \o e) = n + k
        /\ \A i \in 1..(n + k) : (b \o e)[i] = IF i <= n THEN b[i] ELSE e[i - n]
    <3>1. b \in Seq(Cell) /\ e \in Seq(Cell) /\ n \in Nat /\ k \in Nat /\ n = Len(b) /\ k = Len(e)
      BY <1>7, <1>8
    <3>2. QED
      BY ONLY <3>1, ConcatFacts
  <2>2. ASSUME NEW i \in 1..m PROVE c[i] = (b \o e)[i]
    <3>1. CASE i <= n
      <4>1. i \in 1..n /\ i \in 1..(n + k)
        BY <1>3, <3>1
      <4>2. QED
        BY <1>7, <2>1, <3>1, <4>1
    <3>2. CASE ~(i <= n)
      <4>1. i - n \in 1..k /\ i - n \in 1..(Len(s) - n) /\ n + (i - n) = i /\ i \in 1..(n + k)
        BY <1>1, <1>3, <3>2
      <4>2. e[i - n] = a[i - n]
        BY <1>8, <4>1
      <4>3. a[i - n] = s[i]
        BY <1>4, <4>1
      <4>4. c[i] = s[i] /\ (b \o e)[i] = e[i - n]
        BY <1>7, <2>1, <3>2, <4>1
      <4>5. QED
        BY <4>2, <4>3, <4>4
    <3>3. QED
      BY <3>1, <3>2
  <2>3. QED
    BY <1>3, <1>7, <2>1, <2>2, SameParts
<1>10. d = f
  <2>1. Len(d) = Len(f) /\ Len(a) - k = Len(s) - m
    BY <1>1, <1>3, <1>4, <1>7, <1>8
  <2>2. ASSUME NEW i \in 1..Len(d) PROVE d[i] = f[i]
    <3>1. i \in 1..(Len(s) - m) /\ i \in 1..(Len(a) - k)
      BY <1>7, <2>1
    <3>2. k + i \in 1..(Len(s) - n) /\ n + (k + i) = m + i
      BY <1>1, <1>3, <3>1
    <3>3. d[i] = s[m + i] /\ f[i] = a[k + i]
      BY <1>7, <1>8, <3>1
    <3>4. a[k + i] = s[m + i]
      BY <1>4, <3>2
    <3>5. QED
      BY <3>3, <3>4
  <2>3. QED
    BY <1>7, <1>8, <2>1, <2>2, SameParts
<1>11. QED
  BY <1>3, <1>5, <1>6, <1>9, <1>10 DEF Appeared

LEMMA ViewThen ==
  ASSUME NEW u \in Lines, View(u)', NEW q \in Queue, NEW W, W = Waiting(q)',
         NEW n \in Nat, Seen(W, u[q], n)
  PROVE  Ready(q)' = SubSeq(u[q], 1, n) /\ Arriving(q)' = SubSeq(u[q], n + 1, Len(u[q]))
BY DEF View, Seen

(* a queue on which nothing happens *)
LEMMA SameView ==
  ASSUME NEW z \in Lines, NEW u \in Lines, View(z), View(u)', NEW q \in Queue, u[q] = z[q],
         Waiting(q)' = Waiting(q)
  PROVE  Ready(q)' = Ready(q) /\ Arriving(q)' = Arriving(q)
<1>1. PICK W : W = Waiting(q)
  OBVIOUS
<1>2. z[q] \in Seq(Cell)
  BY DEF Lines
<1>3. PICK n \in Nat : Seen(W, z[q], n)
  BY <1>2, SeenExists
<1>4. Ready(q) = SubSeq(z[q], 1, n) /\ Arriving(q) = SubSeq(z[q], n + 1, Len(z[q]))
  BY <1>1, <1>3 DEF View
<1>5. Ready(q)' = SubSeq(u[q], 1, n) /\ Arriving(q)' = SubSeq(u[q], n + 1, Len(u[q]))
  BY <1>1, <1>3, ViewThen
<1>6. QED
  BY <1>4, <1>5

LEMMA TakesView ==
  ASSUME NEW z \in Lines, LineInv(z), NEW u \in Lines, View(z), View(u)', NEW p \in Proc,
         NEW q \in Queue, NEW e \in Cell, Owner(q) = p, u = [z EXCEPT ![q] = Tail(@)],
         Taken(z, u, p, q, e)
  PROVE  Queues!Dequeue(q)
<1>1. /\ z[q] # <<>> /\ e = z[q][1] /\ ~Unlinked(q, e)
      /\ \A r \in Queue : \A c : Unlinked(r, c)' <=> Unlinked(r, c)
      /\ Held(p) = Null /\ Held(p)' = e /\ \A r \in Proc : r # p => Held(r)' = Held(r)
  BY DEF Taken
<1>2. \A r \in Queue : Waiting(r)' = Waiting(r)
  BY <1>1 DEF Waiting
<1>3. PICK s : s = z[q]
  OBVIOUS
<1>4. s \in Seq(Cell) /\ u[q] = Tail(s) /\ \A r \in Queue : r # q => u[r] = z[r]
  BY <1>3 DEF Lines
<1>5. PICK W : W = Waiting(q)
  OBVIOUS
<1>6. PICK n \in Nat : Seen(W, s, n)
  BY <1>4, SeenExists
<1>7. s # <<>> /\ s[1] \notin W
  BY <1>1, <1>3, <1>5 DEF Waiting
<1>8. /\ n - 1 \in Nat /\ Seen(W, Tail(s), n - 1)
      /\ SubSeq(s, 1, n) # <<>> /\ Head(SubSeq(s, 1, n)) = s[1]
      /\ SubSeq(Tail(s), 1, n - 1) = Tail(SubSeq(s, 1, n))
      /\ SubSeq(Tail(s), (n - 1) + 1, Len(Tail(s))) = SubSeq(s, n + 1, Len(s))
  BY <1>4, <1>6, <1>7, TailSeen
<1>9. Ready(q) = SubSeq(s, 1, n) /\ Arriving(q) = SubSeq(s, n + 1, Len(s))
  BY <1>3, <1>5, <1>6 DEF View
<1>10. /\ Ready(q)' = SubSeq(Tail(s), 1, n - 1)
       /\ Arriving(q)' = SubSeq(Tail(s), (n - 1) + 1, Len(Tail(s)))
  <2>1. PICK m \in Nat : m = n - 1
    BY <1>8
  <2>2. W = Waiting(q)' /\ Seen(W, u[q], m)
    BY <1>2, <1>4, <1>5, <1>8, <2>1
  <2>3. Ready(q)' = SubSeq(u[q], 1, m) /\ Arriving(q)' = SubSeq(u[q], m + 1, Len(u[q]))
    BY ONLY u \in Lines, View(u)', q \in Queue, m \in Nat, <2>2, ViewThen
  <2>4. QED
    BY <1>4, <2>1, <2>3
<1>11. /\ Ready(q) # <<>> /\ Head(Ready(q)) = e
       /\ Ready(q)' = Tail(Ready(q)) /\ Arriving(q)' = Arriving(q)
  BY <1>1, <1>3, <1>8, <1>9, <1>10
<1>12. \A r \in Queue : r # q => Ready(r)' = Ready(r) /\ Arriving(r)' = Arriving(r)
  BY <1>2, <1>4, SameView
<1>13. [r \in Queue |-> Ready(r)]' = [[r \in Queue |-> Ready(r)] EXCEPT ![q] = Tail(@)]
  BY <1>11, <1>12
<1>14. [r \in Queue |-> Arriving(r)]' = [r \in Queue |-> Arriving(r)]
  BY <1>11, <1>12
<1>15. [r \in Proc |-> Held(r)]' = [[r \in Proc |-> Held(r)] EXCEPT ![p] = e]
  BY <1>1
<1>16. Queues!Owner(q) = p
  BY DEF Queues!Owner, Owner
<1>17. QED
  BY <1>1, <1>11, <1>13, <1>14, <1>15, <1>16 DEF Queues!Dequeue, Held

LEMMA EnqueuesView ==
  ASSUME NEW z \in Lines, LineInv(z), NEW u \in Lines, View(z), View(u)', NEW p \in Proc,
         NEW q \in Queue, NEW c \in Cell, u = [z EXCEPT ![q] = Append(@, c)],
         Enqueued(z, u, p, q, c)
  PROVE  Queues!Enqueue(p, q)
<1>1. /\ LineInv(u)'
      /\ \A r \in Queue : \A d : Unlinked(r, d)' <=> (Unlinked(r, d) \/ (r = q /\ d = c))
      /\ Held(p) = c /\ Held(p)' = Null /\ \A r \in Proc : r # p => Held(r)' = Held(r)
  BY DEF Enqueued
<1>2. PICK W : W = Waiting(q)
  OBVIOUS
<1>3. /\ Waiting(q)' = W \cup {c}
      /\ \A r \in Queue : r # q => Waiting(r)' = Waiting(r)
  BY <1>1, <1>2 DEF Waiting
<1>4. PICK s : s = z[q]
  OBVIOUS
<1>5. s \in Seq(Cell) /\ u[q] = Append(s, c) /\ \A r \in Queue : r # q => u[r] = z[r]
  BY <1>4 DEF Lines
<1>6. PICK n \in Nat : Seen(W, s, n)
  BY <1>5, SeenExists
<1>7. \A i \in 1..Len(s) : s[i] # c
  <2>1. \A i, j \in 1..Len(u[q]) : u[q][i] = u[q][j] => i = j
    BY <1>1 DEF LineInv, Distinct
  <2>2. Pushed(s, u[q], c)
    BY <1>5, AppendPushed
  <2>3. QED
    BY <2>1, <2>2 DEF Pushed
<1>8. PICK t : t = Append(s, c)
  OBVIOUS
<1>9. /\ Seen(W \cup {c}, t, n) /\ SubSeq(t, 1, n) = SubSeq(s, 1, n)
      /\ SubSeq(t, n + 1, Len(t)) = Append(SubSeq(s, n + 1, Len(s)), c)
  BY <1>5, <1>6, <1>7, <1>8, AppendSeen
<1>10. Ready(q) = SubSeq(s, 1, n) /\ Arriving(q) = SubSeq(s, n + 1, Len(s))
  BY <1>2, <1>4, <1>6 DEF View
<1>11. Ready(q)' = SubSeq(t, 1, n) /\ Arriving(q)' = SubSeq(t, n + 1, Len(t))
  <2>1. u[q] = t
    BY <1>5, <1>8
  <2>2. PICK V : V = W \cup {c}
    OBVIOUS
  <2>3. V = Waiting(q)' /\ Seen(V, u[q], n)
    BY <1>3, <1>9, <2>1, <2>2
  <2>4. Ready(q)' = SubSeq(u[q], 1, n) /\ Arriving(q)' = SubSeq(u[q], n + 1, Len(u[q]))
    BY ONLY u \in Lines, View(u)', q \in Queue, n \in Nat, <2>3, ViewThen
  <2>5. QED
    BY <2>1, <2>4
<1>12. Ready(q)' = Ready(q) /\ Arriving(q)' = Append(Arriving(q), c)
  BY <1>9, <1>10, <1>11
<1>13. \A r \in Queue : r # q => Ready(r)' = Ready(r) /\ Arriving(r)' = Arriving(r)
  BY <1>3, <1>5, SameView
<1>14. [r \in Queue |-> Ready(r)]' = [r \in Queue |-> Ready(r)]
  BY <1>12, <1>13
<1>15. [r \in Queue |-> Arriving(r)]' = [[r \in Queue |-> Arriving(r)] EXCEPT ![q] = Append(@, c)]
  BY <1>12, <1>13
<1>16. [r \in Proc |-> Held(r)]' = [[r \in Proc |-> Held(r)] EXCEPT ![p] = Null]
  BY <1>1
<1>17. [r \in Proc |-> Held(r)][p] = c /\ c # Null
  BY <1>1, Constants
<1>18. QED
  BY <1>14, <1>15, <1>16, <1>17 DEF Queues!Enqueue, Held

LEMMA LinksView ==
  ASSUME NEW z \in Lines, LineInv(z), View(z), View(z)', NEW p \in Proc,
         NEW q \in Queue, NEW i \in 1..Len(z[q]), LinkedAt(z, p, q, i)
  PROVE  \/ Queues!Appear(q)
         \/ /\ [r \in Queue |-> Ready(r)]' = [r \in Queue |-> Ready(r)]
            /\ [r \in Queue |-> Arriving(r)]' = [r \in Queue |-> Arriving(r)]
            /\ [r \in Proc |-> Held(r)]' = [r \in Proc |-> Held(r)]
<1>1. /\ \A r \in Queue : \A d : Unlinked(r, d)' <=> (Unlinked(r, d) /\ ~(r = q /\ d = z[q][i]))
      /\ \A r \in Proc : Held(r)' = Held(r)
  BY DEF LinkedAt
<1>2. PICK W, V : W = Waiting(q) /\ V = Waiting(q)'
  OBVIOUS
<1>3. V \in SUBSET W /\ \A r \in Queue : r # q => Waiting(r)' = Waiting(r)
  BY <1>1, <1>2 DEF Waiting
<1>4. PICK s : s = z[q]
  OBVIOUS
<1>5. s \in Seq(Cell)
  BY <1>4 DEF Lines
<1>6. PICK n \in Nat : Seen(W, s, n)
  BY <1>5, SeenExists
<1>7. PICK m \in Nat : Seen(V, s, m)
  BY <1>5, SeenExists
<1>8. PICK a : a = SubSeq(s, n + 1, Len(s))
  OBVIOUS
<1>9. Ready(q) = SubSeq(s, 1, n) /\ Arriving(q) = a
  BY <1>2, <1>4, <1>6, <1>8 DEF View
<1>10. Ready(q)' = SubSeq(s, 1, m) /\ Arriving(q)' = SubSeq(s, m + 1, Len(s))
  <2>1. V = Waiting(q)' /\ Seen(V, z[q], m)
    BY <1>2, <1>4, <1>7
  <2>2. Ready(q)' = SubSeq(z[q], 1, m) /\ Arriving(q)' = SubSeq(z[q], m + 1, Len(z[q]))
    BY ONLY z \in Lines, View(z)', q \in Queue, m \in Nat, <2>1, ViewThen
  <2>3. QED
    BY <1>4, <2>2
<1>11. \A r \in Queue : r # q => Ready(r)' = Ready(r) /\ Arriving(r)' = Arriving(r)
  BY <1>3, SameView
<1>12. [r \in Proc |-> Held(r)]' = [r \in Proc |-> Held(r)]
  BY <1>1
<1>13. CASE m = n
  <2>1. Ready(q)' = Ready(q) /\ Arriving(q)' = Arriving(q)
    BY <1>8, <1>9, <1>10, <1>13
  <2>2. QED
    BY <1>11, <1>12, <2>1
<1>14. CASE m # n
  <2>1. /\ m - n \in 1..Len(a)
        /\ SubSeq(s, 1, m) = SubSeq(s, 1, n) \o SubSeq(a, 1, m - n)
        /\ SubSeq(s, m + 1, Len(s)) = SubSeq(a, (m - n) + 1, Len(a))
    <3>1. Fewer(V, W)
      BY <1>3 DEF Fewer
    <3>2. Appeared(s, a, n, m)
      BY ONLY <1>5, <1>6, <1>7, <1>8, <1>14, <3>1, n \in Nat, m \in Nat, LinkSeen
    <3>3. QED
      BY <3>2 DEF Appeared
  <2>2. PICK k \in 1..Len(a) : k = m - n
    BY <2>1
  <2>3. /\ Ready(q)' = Ready(q) \o SubSeq(Arriving(q), 1, k)
        /\ Arriving(q)' = SubSeq(Arriving(q), k + 1, Len(Arriving(q)))
        /\ k \in 1..Len(Arriving(q))
    BY <1>9, <1>10, <2>1, <2>2
  <2>4. [r \in Queue |-> Ready(r)]' =
          [[r \in Queue |-> Ready(r)] EXCEPT ![q] = @ \o SubSeq([r \in Queue |-> Arriving(r)][q], 1, k)]
    BY <1>11, <2>3
  <2>5. [r \in Queue |-> Arriving(r)]' =
          [[r \in Queue |-> Arriving(r)] EXCEPT ![q] = SubSeq(@, k + 1, Len(@))]
    BY <1>11, <2>3
  <2>6. k \in 1..Len([r \in Queue |-> Arriving(r)][q])
    BY <2>3
  <2>7. QED
    BY <1>12, <2>4, <2>5, <2>6 DEF Queues!Appear, Held
<1>15. QED
  BY <1>13, <1>14

(* what the owners see, for whichever sequences fit the state *)
Viewable == \A z \in Lines : LineInv(z) => View(z)

LEMMA AlwaysViewable == Viewable
BY LineView DEF Viewable

LEMMA ViewsThen ==
  ASSUME NEW u \in Lines, Viewable', LineInv(u)'
  PROVE  View(u)'
<1>1. Lines' = Lines
  BY DEF Lines, Queue
<1>2. QED
  BY <1>1 DEF Viewable

LEMMA InitQueues == Init => Queues!Init
<1> SUFFICES ASSUME Init PROVE Queues!Init
  OBVIOUS
<1>1. PICK z : z = [q \in Queue |-> IF q[1] = "free" THEN Elements[q[2]] ELSE <<>>]
  OBVIOUS
<1>2. z \in Lines /\ LineInv(z)
  BY <1>1, InitLine
<1>3. View(z)
  BY <1>2, LineView
<1>4. \A q \in Queue : Waiting(q) = {}
  BY DEF Init, Waiting, Unlinked, At
<1>5. ASSUME NEW q \in Queue PROVE Ready(q) = z[q] /\ Arriving(q) = <<>>
  <2>1. PICK s, W : s = z[q] /\ W = Waiting(q)
    OBVIOUS
  <2>2. s \in Seq(Cell) /\ W = {}
    BY <1>2, <1>4, <2>1 DEF Lines
  <2>3. PICK n \in Nat : n = Len(s)
    BY <2>2
  <2>4. Seen(W, s, n)
    BY <2>2, <2>3 DEF Seen
  <2>5. Ready(q) = SubSeq(s, 1, n) /\ Arriving(q) = SubSeq(s, n + 1, Len(s))
    BY <1>3, <2>1, <2>4 DEF View
  <2>6. SubSeq(s, 1, n) = s /\ SubSeq(s, n + 1, Len(s)) = <<>>
    BY ONLY <2>2, <2>3
  <2>7. QED
    BY <2>1, <2>5, <2>6
<1>6. [q \in Queue |-> Ready(q)] = z
  BY <1>1, <1>5
<1>7. [q \in Queue |-> Arriving(q)] = [q \in Queue |-> <<>>]
  BY <1>5
<1>8. \A p \in Proc : Held(p) = Null
  BY DEF Init, Held
<1>9. [p \in Proc |-> Held(p)] = [p \in Proc |-> Null]
  BY <1>8
<1>10. Queues!Queue = Queue
  BY DEF Queues!Queue, Queue
<1>11. QED
  BY <1>1, <1>6, <1>7, <1>9, <1>10 DEF Queues!Init, Held

Abstract == <<[q \in Queue |-> Ready(q)], [q \in Queue |-> Arriving(q)],
              [p \in Proc |-> IF pc[p] = "holding" THEN cell[p] ELSE Null]>>

LEMMA StepQueues == Viewable /\ Viewable' /\ QueuesInv /\ [Next]_vars => [Queues!Next]_Abstract
<1> SUFFICES ASSUME Viewable, Viewable', QueuesInv, [Next]_vars PROVE [Queues!Next]_Abstract
  OBVIOUS
<1>1. PICK z \in Lines : LineInv(z)
  BY DEF QueuesInv
<1>2. View(z)
  BY <1>1 DEF Viewable
<1>3. Queues!Queue = Queue
  BY DEF Queues!Queue, Queue
<1>4. CASE LineInv(z)' /\ Still
  <2>1. View(z)'
    BY <1>4, ViewsThen
  <2>2. \A q \in Queue : Waiting(q)' = Waiting(q)
    BY <1>4 DEF Still, Waiting
  <2>3. \A q \in Queue : Ready(q)' = Ready(q) /\ Arriving(q)' = Arriving(q)
    BY <1>2, <2>1, <2>2, SameView
  <2>4. \A p \in Proc : Held(p)' = Held(p)
    BY <1>4 DEF Still
  <2>5. [q \in Queue |-> Ready(q)]' = [q \in Queue |-> Ready(q)]
        /\ [q \in Queue |-> Arriving(q)]' = [q \in Queue |-> Arriving(q)]
    BY <2>3
  <2>6. [p \in Proc |-> Held(p)]' = [p \in Proc |-> Held(p)]
    BY <2>4
  <2>7. QED
    BY <2>5, <2>6 DEF Abstract, Held
<1>5. ASSUME NEW p \in Proc, Takes(z, p) PROVE \E q \in Queue : Queues!Dequeue(q)
  <2>1. PICK u \in Lines, q \in Queue, e \in Cell :
          Owner(q) = p /\ u = [z EXCEPT ![q] = Tail(@)] /\ Taken(z, u, p, q, e)
    BY <1>5 DEF Takes
  <2>2. View(u)'
    BY <2>1, ViewsThen DEF Taken
  <2>3. QED
    BY <1>1, <1>2, <2>1, <2>2, TakesView
<1>6. ASSUME NEW p \in Proc, Enqueues(z, p) PROVE \E q \in Queue : Queues!Enqueue(p, q)
  <2>1. PICK u \in Lines, q \in Queue, c \in Cell :
          u = [z EXCEPT ![q] = Append(@, c)] /\ Enqueued(z, u, p, q, c)
    BY <1>6 DEF Enqueues
  <2>2. View(u)'
    BY <2>1, ViewsThen DEF Enqueued
  <2>3. QED
    BY <1>1, <1>2, <2>1, <2>2, EnqueuesView
<1>7. ASSUME NEW p \in Proc, Links(z, p)
      PROVE  (\E q \in Queue : Queues!Appear(q)) \/ UNCHANGED Abstract
  <2>1. PICK q \in Queue : \E i \in 1..Len(z[q]) : LinkedAt(z, p, q, i)
    BY <1>7 DEF Links
  <2>2. PICK i \in 1..Len(z[q]) : LinkedAt(z, p, q, i)
    BY <2>1
  <2>3. View(z)'
    BY <2>2, ViewsThen DEF LinkedAt
  <2>4. \/ Queues!Appear(q)
        \/ /\ [r \in Queue |-> Ready(r)]' = [r \in Queue |-> Ready(r)]
           /\ [r \in Queue |-> Arriving(r)]' = [r \in Queue |-> Arriving(r)]
           /\ [r \in Proc |-> Held(r)]' = [r \in Proc |-> Held(r)]
    BY <1>1, <1>2, <2>2, <2>3, LinksView
  <2>5. QED
    BY <2>4 DEF Abstract, Held
<1>8. QED
  BY <1>1, <1>3, <1>4, <1>5, <1>6, <1>7, NextLine DEF Queues!Next

(***************************************************************************)
(* Whatever the interleaving of the enqueuers with each other and with the *)
(* owner that empties the queue, no cell is lost, doubled or overtaken.    *)
(***************************************************************************)
THEOREM QueuesKeepCells == Spec => ImplementsQueues
<1>1. Viewable
  BY AlwaysViewable
<1>2. QED
  BY <1>1, InitQueues, StepQueues, LinesAlways, PTL
     DEF Spec, ImplementsQueues, Queues!Spec, Abstract
===============================================================================
