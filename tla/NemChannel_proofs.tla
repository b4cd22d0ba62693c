---------------------------- MODULE NemChannel_proofs ----------------------------
(***************************************************************************)
(* Proofs about NemChannel, for any number of processes, cells and         *)
(* messages: no cell is lost, the assertions of the progress engine hold,  *)
(* and every pair of processes has a channel in order although one way     *)
(* overtakes the other.                                                    *)
(*                                                                         *)
(* The invariant says, for each pair, that the packets in flight are those *)
(* whose sequence numbers lie between the two counters, one of each, and   *)
(* that the two parts of a large message follow each other.                *)
(***************************************************************************)
EXTENDS NemChannel, FiniteSetTheorems, FunctionTheorems, SequenceTheorems,
        WellFoundedInduction, TLAPS

-----------------------------------------------------------------------------
(***************************************************************************)
(* Items in the order of their places.                                     *)
(***************************************************************************)
IsItems(S) == /\ IsFiniteSet(S)
              /\ \A x \in S : x.place \in Nat /\ x.msg \in Msg
              /\ \A x, y \in S : x.place = y.place => x = y

Rank(S, x) == Cardinality(Before(S, x))

LEMMA RankTypes ==
  ASSUME NEW S, IsItems(S), NEW x \in S
  PROVE  /\ Cardinality(S) \in Nat
         /\ IsFiniteSet(Before(S, x))
         /\ Rank(S, x) \in 1..Cardinality(S)
<1>1. Before(S, x) \in SUBSET S /\ x \in Before(S, x)
  BY DEF Before, IsItems
<1>2. IsFiniteSet(S) /\ IsFiniteSet(Before(S, x)) /\ Cardinality(Before(S, x)) <= Cardinality(S)
  BY <1>1, FS_Subset DEF IsItems
<1>3. Cardinality(S) \in Nat /\ Cardinality(Before(S, x)) \in Nat
  BY <1>2, FS_CardinalityType
<1>4. Cardinality(Before(S, x)) # 0
  BY <1>1, <1>2, FS_EmptySet
<1>5. QED
  BY <1>2, <1>3, <1>4 DEF Rank

LEMMA RankOrder ==
  ASSUME NEW S, IsItems(S), NEW x \in S, NEW y \in S
  PROVE  Rank(S, x) = Rank(S, y) => x = y
<1>1. ASSUME NEW u \in S, NEW v \in S, Rank(S, u) = Rank(S, v), u.place <= v.place
      PROVE  u = v
  <2>1. Before(S, u) \in SUBSET Before(S, v)
    BY <1>1 DEF Before, IsItems
  <2>2. Before(S, u) = Before(S, v)
    BY <1>1, <2>1, RankTypes, FS_Subset DEF Rank
  <2>3. v \in Before(S, u)
    BY <2>2 DEF Before, IsItems
  <2>4. QED
    BY <1>1, <2>3 DEF Before, IsItems
<1>2. x.place <= y.place \/ y.place <= x.place
  BY DEF IsItems
<1>3. QED
  BY <1>1, <1>2

(* every number up to the size of S is the rank of one element *)
LEMMA Ranked ==
  ASSUME NEW S, IsItems(S), NEW n \in 1..Cardinality(S)
  PROVE  \E x \in S : Rank(S, x) = n
<1> DEFINE f == [x \in S |-> Rank(S, x)]
           T == 1..Cardinality(S)
<1>1. IsFiniteSet(S) /\ Cardinality(S) \in Nat
  BY FS_CardinalityType DEF IsItems
<1>2. f \in [S -> T]
  BY RankTypes
<1>3. \A x, y \in S : f[x] = f[y] => x = y
  BY RankOrder
<1>4. f \in Injection(S, T)
  BY <1>2, <1>3 DEF Injection, IsInjective
<1>5. IsFiniteSet(T) /\ Cardinality(T) = Cardinality(S)
  BY <1>1, FS_Interval
<1> HIDE DEF f, T
<1>6. f \in Surjection(S, T)
  BY <1>4, <1>5, FS_Injection
<1>7. \E x \in S : f[x] = n
  BY <1>6 DEF Surjection, T
<1>8. QED
  BY <1>7 DEF f

LEMMA InOrderAt ==
  ASSUME NEW S, IsItems(S), NEW x \in S, NEW n, n = Rank(S, x)
  PROVE  InOrder(S)[n] = x.msg
<1>1. n \in 1..Cardinality(S)
  BY RankTypes
<1>2. (CHOOSE y \in S : Cardinality(Before(S, y)) = n) = x
  BY RankOrder DEF Rank
<1>3. QED
  BY <1>1, <1>2 DEF InOrder

LEMMA SeqFunction ==
  ASSUME NEW s \in Seq(Msg), NEW n, Len(s) = n
  PROVE  s = [i \in 1..n |-> s[i]]
BY s \in [1..Len(s) -> Msg], LenProperties

(* a sequence is InOrder(S) if it has the items of S at their ranks *)
LEMMA InOrderIs ==
  ASSUME NEW S, IsItems(S), NEW s, s = [n \in 1..Cardinality(S) |-> s[n]],
         \A x \in S : s[Rank(S, x)] = x.msg
  PROVE  InOrder(S) = s
<1>1. ASSUME NEW n \in 1..Cardinality(S) PROVE InOrder(S)[n] = s[n]
  <2>1. PICK x \in S : Rank(S, x) = n
    BY Ranked
  <2>2. QED
    BY <2>1, InOrderAt
<1>2. InOrder(S) = [n \in 1..Cardinality(S) |-> InOrder(S)[n]]
  BY DEF InOrder
<1>3. QED
  BY <1>1, <1>2

LEMMA InOrderSeq ==
  ASSUME NEW S, IsItems(S)
  PROVE  InOrder(S) \in Seq(Msg) /\ Len(InOrder(S)) = Cardinality(S)
<1>1. Cardinality(S) \in Nat
  BY FS_CardinalityType DEF IsItems
<1>2. \A n \in 1..Cardinality(S) : InOrder(S)[n] \in Msg
  <2> TAKE n \in 1..Cardinality(S)
  <2>1. PICK x \in S : Rank(S, x) = n
    BY Ranked
  <2>2. QED
    BY <2>1, InOrderAt DEF IsItems
<1>3. InOrder(S) = [n \in 1..Cardinality(S) |-> InOrder(S)[n]]
  BY DEF InOrder
<1>4. QED
  BY <1>1, <1>2, <1>3

(* the order does not depend on the places themselves *)
LEMMA Relabel ==
  ASSUME NEW S, IsItems(S), NEW T, NEW f \in [S -> T],
         \A y \in T : \E x \in S : f[x] = y,
         \A x \in S : f[x].msg = x.msg /\ f[x].place \in Nat,
         \A x, y \in S : x.place < y.place => f[x].place < f[y].place
  PROVE  IsItems(T) /\ InOrder(T) = InOrder(S)
<1>1. \A x, y \in S : x.place \in Nat /\ y.place \in Nat
  BY DEF IsItems
<1>2. \A x, y \in S : f[x].place = f[y].place => x = y
  <2> SUFFICES ASSUME NEW x \in S, NEW y \in S, f[x].place = f[y].place PROVE x = y
    OBVIOUS
  <2>1. ~(x.place < y.place) /\ ~(y.place < x.place)
    OBVIOUS
  <2>2. QED
    BY <1>1, <2>1 DEF IsItems
<1>3. f \in Bijection(S, T)
  BY <1>2 DEF Bijection, Injection, Surjection, IsInjective
<1>4. IsFiniteSet(T) /\ Cardinality(T) = Cardinality(S)
  BY <1>3, FS_Bijection DEF IsItems, ExistsBijection
<1>5. IsItems(T)
  <2>1. ASSUME NEW u \in T, NEW v \in T
        PROVE  u.place \in Nat /\ u.msg \in Msg /\ (u.place = v.place => u = v)
    <3>1. PICK x \in S, y \in S : f[x] = u /\ f[y] = v
      OBVIOUS
    <3>2. QED
      BY <1>2, <3>1 DEF IsItems
  <2>2. QED
    BY <1>4, <2>1 DEF IsItems
<1>6. ASSUME NEW x \in S PROVE Rank(T, f[x]) = Rank(S, x)
  <2> DEFINE g == [y \in Before(S, x) |-> f[y]]
  <2>1. \A y \in S : y.place <= x.place <=> f[y].place <= f[x].place
    <3> TAKE y \in S
    <3>1. x.place \in Nat /\ y.place \in Nat /\ f[x].place \in Nat /\ f[y].place \in Nat
      BY <1>1
    <3>2. x.place < y.place => f[x].place < f[y].place
      OBVIOUS
    <3>3. y.place < x.place => f[y].place < f[x].place
      OBVIOUS
    <3>4. x.place = y.place => x = y
      BY DEF IsItems
    <3>5. QED
      BY <3>1, <3>2, <3>3, <3>4
  <2>2. g \in [Before(S, x) -> Before(T, f[x])]
    BY <2>1 DEF Before
  <2>3. \A v \in Before(T, f[x]) : \E y \in Before(S, x) : g[y] = v
    BY <2>1 DEF Before
  <2>4. \A y, z \in Before(S, x) : g[y] = g[z] => y = z
    BY <1>2 DEF Before
  <2> HIDE DEF g
  <2>5. g \in Bijection(Before(S, x), Before(T, f[x]))
    BY <2>2, <2>3, <2>4 DEF Bijection, Injection, Surjection, IsInjective
  <2>6. QED
    BY <2>5, RankTypes, FS_Bijection DEF ExistsBijection, Rank
<1>7. ASSUME NEW y \in T PROVE InOrder(S)[Rank(T, y)] = y.msg
  <2>1. PICK x \in S : f[x] = y
    OBVIOUS
  <2>2. QED
    BY <1>6, <2>1, InOrderAt
<1>8. InOrder(S) = [n \in 1..Cardinality(T) |-> InOrder(S)[n]]
  BY <1>4 DEF InOrder
<1>9. InOrder(T) = InOrder(S)
  <2> DEFINE s == InOrder(S)
  <2>1. s = [n \in 1..Cardinality(T) |-> s[n]] /\ \A y \in T : s[Rank(T, y)] = y.msg
    BY <1>7, <1>8
  <2> HIDE DEF s
  <2>2. InOrder(T) = s
    BY ONLY <1>5, <2>1, InOrderIs
  <2>3. QED
    BY <2>2 DEF s
<1>10. QED
  BY <1>5, <1>9

LEMMA AddLast ==
  ASSUME NEW S, IsItems(S), NEW z, z.place \in Nat, z.msg \in Msg,
         \A x \in S : x.place < z.place
  PROVE  IsItems(S \cup {z}) /\ InOrder(S \cup {z}) = Append(InOrder(S), z.msg)
<1> DEFINE T == S \cup {z}
           s == Append(InOrder(S), z.msg)
<1>1. z \notin S
  OBVIOUS
<1>2. IsFiniteSet(T) /\ Cardinality(T) = Cardinality(S) + 1 /\ Cardinality(S) \in Nat
  BY <1>1, FS_AddElement, FS_CardinalityType DEF IsItems
<1>3. IsItems(T)
  BY <1>2 DEF IsItems
<1>4. Len(InOrder(S)) = Cardinality(S) /\ InOrder(S) \in Seq(Msg)
  BY InOrderSeq
<1>5. \A x \in T : s[Rank(T, x)] = x.msg
  <2> TAKE x \in T
  <2>1. CASE x = z
    <3>1. Before(T, x) = T
      BY <2>1 DEF Before, IsItems
    <3>2. Rank(T, x) = Len(InOrder(S)) + 1
      BY <1>2, <1>4, <3>1 DEF Rank
    <3>3. QED
      BY <1>4, <2>1, <3>2
  <2>2. CASE x \in S
    <3>1. Before(T, x) = Before(S, x)
      BY <2>2 DEF Before, IsItems
    <3>2. Rank(T, x) = Rank(S, x) /\ Rank(S, x) \in 1..Cardinality(S)
      BY <2>2, <3>1, RankTypes DEF Rank
    <3>3. InOrder(S)[Rank(S, x)] = x.msg
      BY <2>2, InOrderAt
    <3>4. QED
      BY <1>2, <1>4, <3>2, <3>3
  <2>3. QED
    BY <2>1, <2>2
<1>6. s = [n \in 1..Cardinality(T) |-> s[n]]
  <2>1. s \in Seq(Msg) /\ Len(s) = Cardinality(T)
    BY <1>2, <1>4
  <2>2. QED
    BY <2>1, SeqFunction
<1> HIDE DEF T, s
<1>7. InOrder(T) = s
  BY <1>3, <1>5, <1>6, InOrderIs
<1>8. QED
  BY <1>3, <1>7 DEF T, s

LEMMA DropFirst ==
  ASSUME NEW S, IsItems(S), NEW z \in S, \A x \in S : z.place <= x.place
  PROVE  /\ IsItems(S \ {z})
         /\ InOrder(S) # <<>> /\ InOrder(S \ {z}) = Tail(InOrder(S))
<1> DEFINE T == S \ {z}
           s == Tail(InOrder(S))
<1>1. IsFiniteSet(T) /\ Cardinality(T) = Cardinality(S) - 1 /\ Cardinality(S) \in Nat
  <2>1. IsFiniteSet(S)
    BY DEF IsItems
  <2>2. IsFiniteSet(T) /\ Cardinality(T) = Cardinality(S) - 1
    BY <2>1, FS_RemoveElement
  <2>3. Cardinality(S) \in Nat
    BY <2>1, FS_CardinalityType
  <2>4. QED
    BY ONLY <2>2, <2>3
<1>2. IsItems(T)
  BY <1>1 DEF IsItems
<1>3. Len(InOrder(S)) = Cardinality(S) /\ InOrder(S) \in Seq(Msg) /\ Cardinality(S) > 0
  BY <1>1, InOrderSeq, RankTypes
<1>4. ASSUME NEW x \in T PROVE s[Rank(T, x)] = x.msg
  <2>1. Before(T, x) = Before(S, x) \ {z} /\ z \in Before(S, x)
    BY DEF Before, IsItems
  <2>2. Rank(T, x) = Rank(S, x) - 1 /\ Rank(S, x) \in 1..Cardinality(S)
    BY <2>1, RankTypes, FS_RemoveElement DEF Rank
  <2>3. Rank(T, x) \in 1..Cardinality(T)
    BY <1>2, RankTypes
  <2>4. InOrder(S)[Rank(S, x)] = x.msg
    BY InOrderAt
  <2>5. QED
    BY <1>1, <1>3, <2>2, <2>3, <2>4
<1>5. s = [n \in 1..Cardinality(T) |-> s[n]]
  <2>1. s \in Seq(Msg) /\ Len(s) = Cardinality(T)
    BY <1>1, <1>3
  <2>2. QED
    BY <2>1, SeqFunction
<1>6. InOrder(S) # <<>>
  BY <1>3
<1> HIDE DEF T, s
<1>7. InOrder(T) = s
  BY <1>2, <1>4, <1>5, InOrderIs
<1>8. QED
  BY <1>2, <1>6, <1>7 DEF T, s

-----------------------------------------------------------------------------
(***************************************************************************)
(* Sequence numbers, which wrap around: the next one, and how far one is   *)
(* behind another.                                                         *)
(***************************************************************************)
Seqno == 0..(SeqnoMod - 1)
Succ(s) == (s + 1) % SeqnoMod
Dist(s, r) == (s + SeqnoMod - r) % SeqnoMod

LEMMA Constants ==
  /\ N \in Nat /\ N > 0 /\ Cells \in Nat /\ Cells > 0
  /\ SeqnoMod \in Nat /\ SeqnoMod > Cells + 1
  /\ Dest \in [Proc -> SUBSET Proc]
  /\ 0 \in Proc /\ 0 \in Seqno /\ Succ(0) \in Seqno
<1>1. \A M \in Nat : M > 2 => (0 + 1) % M = 1
  OBVIOUS
<1>2. QED
  BY <1>1, NemChannelAssumption DEF Proc, Seqno, Succ

LEMMA Numbers ==
  ASSUME NEW s \in Seqno, NEW r \in Seqno
  PROVE  /\ Succ(s) \in Seqno
         /\ Succ(s) = IF s = SeqnoMod - 1 THEN 0 ELSE s + 1
         /\ Dist(s, r) \in Seqno
         /\ Dist(s, r) = IF r <= s THEN s - r ELSE s + SeqnoMod - r
<1>1. ASSUME NEW M \in Nat, M > 0, NEW x \in 0..(M - 1)
      PROVE  x % M = x /\ (x + M) % M = x
  OBVIOUS
<1>2. SeqnoMod \in Nat /\ SeqnoMod > 0
  BY Constants
<1>3. Succ(s) = IF s = SeqnoMod - 1 THEN 0 ELSE s + 1
  BY <1>1, <1>2 DEF Succ, Seqno
<1>4. QED
  BY <1>1, <1>2, <1>3 DEF Dist, Seqno

LEMMA Distances ==
  ASSUME NEW s \in Seqno, NEW r \in Seqno, NEW t \in Seqno
  PROVE  /\ Dist(s, s) = 0
         /\ Dist(s, r) = 0 => s = r
         /\ Dist(s, r) = Dist(t, r) => s = t
         /\ Dist(s, r) < SeqnoMod - 1 => Dist(Succ(s), r) = Dist(s, r) + 1
         /\ Dist(s, r) > 0 => Dist(s, Succ(r)) = Dist(s, r) - 1
         /\ Succ(s) = Succ(t) => s = t
         /\ Dist(s, r) < Dist(t, r) => Dist(Succ(s), r) = Dist(s, r) + 1
         /\ Succ(s) = r => Dist(s, r) = SeqnoMod - 1
<1> DEFINE Is(a, b) == Dist(a, b) = IF b <= a THEN a - b ELSE a + SeqnoMod - b
           Next1(a) == /\ Succ(a) = IF a = SeqnoMod - 1 THEN 0 ELSE a + 1
                       /\ Succ(a) \in 0..(SeqnoMod - 1)
<1>1. SeqnoMod \in Nat /\ SeqnoMod > 2 /\ s \in 0..(SeqnoMod - 1) /\ r \in 0..(SeqnoMod - 1) /\ t \in 0..(SeqnoMod - 1)
  BY Constants DEF Seqno
<1>2. Next1(s) /\ Next1(r) /\ Next1(t)
  BY Numbers DEF Seqno
<1>3. Is(s, s) /\ Is(s, r) /\ Is(t, r)
  BY Numbers
<1>4. Is(Succ(s), r) /\ Is(s, Succ(r))
  BY Numbers, <1>2 DEF Seqno
<1>5. QED
  BY <1>1, <1>2, <1>3, <1>4

LEMMA Ages ==
  ASSUME NEW s \in Seqno, NEW r \in Seqno
  PROVE  /\ Dist(s, r) \in Nat /\ Dist(s, r) < SeqnoMod /\ Dist(s, s) = 0
         /\ s # r => Dist(s, r) > 0
         /\ Succ(s) \in Seqno /\ Succ(s) # s
<1>1. SeqnoMod \in Nat /\ SeqnoMod > 2
  BY Constants
<1>2. Dist(s, r) \in Seqno /\ Succ(s) \in Seqno
  BY Numbers
<1>3. (Dist(s, r) = 0 => s = r) /\ Dist(s, s) = 0
  BY Distances
<1>4. s \in Nat /\ Succ(s) = IF s = SeqnoMod - 1 THEN 0 ELSE s + 1
  BY <1>1, Numbers DEF Seqno
<1>5. Succ(s) # s
  BY <1>1, <1>4
<1>6. QED
  BY <1>1, <1>2, <1>3, <1>5 DEF Seqno

-----------------------------------------------------------------------------
(***************************************************************************)
(* The packets between one pair of processes: F those in flight, B the one *)
(* in the fastbox, r and t the sequence numbers of receiver and sender, A  *)
(* the message that is being received, H the one of which the second part  *)
(* is to be sent.                                                          *)
(***************************************************************************)
Numbered(F, r, t) ==
  /\ \A k, l \in F : k.seqno = l.seqno => k = l
  /\ \A k \in F : Dist(k.seqno, r) < Dist(t, r)
  /\ \A n \in 0..(Dist(t, r) - 1) : \E k \in F : Dist(k.seqno, r) = n

(* the first part of m is just before s, the second part is at s *)
Begun(F, A, r, m, s) ==
  \/ s = r /\ m \in A
  \/ \E k \in F : Succ(k.seqno) = s /\ k.part = 1 /\ k.msg = m
Continued(F, H, t, m, s) ==
  \/ s = t /\ m \in H
  \/ \E k \in F : k.seqno = s /\ k.part = 2 /\ k.msg = m

Whole(F, B, r, t, A, H) ==
  /\ \A k \in F : /\ k.part <= Parts(k.msg)
                  /\ k.part < Parts(k.msg) => Continued(F, H, t, k.msg, Succ(k.seqno))
                  /\ k.part = 2 => Begun(F, A, r, k.msg, k.seqno)
  /\ \A m \in A : Parts(m) = 2 /\ Continued(F, H, t, m, r)
  /\ \A m \in H : Parts(m) = 2 /\ Begun(F, A, r, m, t)
  /\ \A k \in B : k \in F /\ Parts(k.msg) = 1

Stream(F, B, r, t, A, H) == Numbered(F, r, t) /\ Whole(F, B, r, t, A, H)

LEMMA PartsTypes ==
  /\ \A m : Parts(m) \in {1, 2}
  /\ \A k \in Packets : k.seqno \in Seqno /\ k.part \in {1, 2} /\ k.src \in Proc
BY Constants DEF Parts, Packets, Seqno

(* k can follow with number t, if H is left to send and C is the fastbox then *)
Follows(F, B, r, t, H, k, C) ==
  /\ F \in SUBSET Packets /\ r \in Seqno /\ t \in Seqno /\ Dist(t, r) < SeqnoMod - 1
  /\ k \in Packets /\ k.seqno = t
  /\ \/ k.part = 1 /\ H = {}
     \/ k.part = 2 /\ H = {k.msg}
  /\ C \subseteq B \/ (C \subseteq B \cup {k} /\ Parts(k.msg) = 1)
More(k) == IF k.part < Parts(k.msg) THEN {k.msg} ELSE {}

(* a packet is sent: the next number, and the next part *)
LEMMA Sent ==
  ASSUME NEW F, NEW B, NEW r, NEW t, NEW A, NEW H, NEW k, NEW C,
         Stream(F, B, r, t, A, H), Follows(F, B, r, t, H, k, C)
  PROVE  /\ \A l \in F : l.seqno # k.seqno
         /\ Stream(F \cup {k}, C, r, Succ(t), A, More(k))
<1> DEFINE G == F \cup {k}
           u == Succ(t)
           I == More(k)
<1>0. /\ F \in SUBSET Packets /\ r \in Seqno /\ t \in Seqno /\ Dist(t, r) < SeqnoMod - 1
      /\ k \in Packets /\ k.seqno = t
      /\ \/ k.part = 1 /\ H = {}
         \/ k.part = 2 /\ H = {k.msg}
      /\ C \subseteq B \/ (C \subseteq B \cup {k} /\ Parts(k.msg) = 1)
  BY DEF Follows
<1>1. \A l \in F : l.seqno # k.seqno
  <2>1. Dist(t, r) \in Nat /\ \A l \in F : Dist(l.seqno, r) < Dist(t, r)
    BY <1>0, Ages DEF Stream, Numbered
  <2>2. QED
    BY <1>0, <2>1
<1>2. u \in Seqno /\ Dist(u, r) = Dist(t, r) + 1 /\ Dist(t, r) \in Nat
  BY <1>0, Ages, Distances
<1>3. \A l \in Packets : l.seqno \in Seqno /\ Dist(l.seqno, r) \in Nat
  BY <1>0, PartsTypes, Ages
<1>4. Numbered(G, r, u)
  <2>1. \A l, j \in G : l.seqno = j.seqno => l = j
    BY <1>1 DEF Stream, Numbered
  <2>2. \A l \in G : Dist(l.seqno, r) < Dist(u, r)
    BY <1>0, <1>2, <1>3 DEF Stream, Numbered
  <2>3. ASSUME NEW n \in 0..(Dist(u, r) - 1) PROVE \E l \in G : Dist(l.seqno, r) = n
    <3>1. CASE n = Dist(t, r)
      BY <1>0, <3>1
    <3>2. CASE n # Dist(t, r)
      <4>1. n \in 0..(Dist(t, r) - 1)
        BY <1>2, <3>2
      <4>2. QED
        BY <4>1 DEF Stream, Numbered
    <3>3. QED
      BY <3>1, <3>2
  <2>4. QED
    BY <2>1, <2>2, <2>3 DEF Numbered
<1>5. \A m, s : Continued(F, H, t, m, s) => Continued(G, I, u, m, s)
  BY <1>0 DEF Continued
<1>6. \A m, s : Begun(F, A, r, m, s) => Begun(G, A, r, m, s)
  BY DEF Begun
<1>7. /\ k.part <= Parts(k.msg)
      /\ k.part < Parts(k.msg) => Continued(G, I, u, k.msg, Succ(k.seqno))
  BY <1>0, PartsTypes DEF Stream, Whole, Continued, More
<1>8. k.part = 2 => Begun(G, A, r, k.msg, k.seqno)
  <2>1. k.part = 2 => k.msg \in H
    BY <1>0
  <2>2. k.msg \in H => Begun(F, A, r, k.msg, t)
    BY DEF Stream, Whole
  <2>3. QED
    BY <1>0, <1>6, <2>1, <2>2
<1>9. \A m \in I : Parts(m) = 2 /\ Begun(G, A, r, m, u)
  BY <1>0, PartsTypes DEF Begun, More
<1>10. \A l \in C : l \in G /\ Parts(l.msg) = 1
  BY <1>0 DEF Stream, Whole
<1> HIDE DEF G, u, I
<1>11. Whole(G, C, r, u, A, I)
  <2>1. \A l \in F : /\ l.part <= Parts(l.msg)
                     /\ l.part < Parts(l.msg) => Continued(G, I, u, l.msg, Succ(l.seqno))
                     /\ l.part = 2 => Begun(G, A, r, l.msg, l.seqno)
    BY <1>5, <1>6 DEF Stream, Whole
  <2>2. \A m \in A : Parts(m) = 2 /\ Continued(G, I, u, m, r)
    BY <1>5 DEF Stream, Whole
  <2>3. \A l \in G : l \in F \/ l = k
    BY DEF G
  <2>4. \A l \in G : /\ l.part <= Parts(l.msg)
                     /\ l.part < Parts(l.msg) => Continued(G, I, u, l.msg, Succ(l.seqno))
                     /\ l.part = 2 => Begun(G, A, r, l.msg, l.seqno)
    BY <1>7, <1>8, <2>1, <2>3
  <2>5. QED
    BY <1>9, <1>10, <2>2, <2>4 DEF Whole
<1>12. QED
  BY <1>1, <1>4, <1>11 DEF Stream, G, u, I

(* k opens a message if A is none, or else it continues that one in a cell *)
Continues(A, B, k) == /\ A = {} => k.part = 1
                      /\ \A m \in A : k.part = 2 /\ k.msg = m /\ k \notin B

(* the packet with the expected number is received: it is the right one *)
LEMMA Received ==
  ASSUME NEW F \in SUBSET Packets, NEW B, NEW r \in Seqno, NEW t \in Seqno, NEW A, NEW H,
         Stream(F, B, r, t, A, H), NEW k \in F, k.seqno = r
  PROVE  /\ Continues(A, B, k)
         /\ Stream(F \ {k}, B \ {k}, Succ(r), t, More(k), H)
<1> DEFINE G == F \ {k}
           u == Succ(r)
           D == More(k)
<1>1. \A l \in F : l.seqno \in Seqno /\ l.part \in {1, 2} /\ (l.seqno = r => l = k)
  BY PartsTypes DEF Stream, Numbered
<1>2. u \in Seqno /\ u # r /\ Dist(t, r) \in Nat /\ Dist(t, r) > 0 /\ t # r
  <2>1. Dist(k.seqno, r) = 0 /\ Dist(k.seqno, r) < Dist(t, r)
    BY Ages DEF Stream, Numbered
  <2>2. QED
    BY <2>1, Ages
<1>3. \A l \in F : Succ(l.seqno) # r
  <2>1. \A l \in F : Dist(l.seqno, r) < Dist(t, r) /\ Dist(l.seqno, r) \in Nat
    BY <1>1, Ages DEF Stream, Numbered
  <2>2. Dist(t, r) < SeqnoMod /\ Dist(t, r) \in Nat /\ SeqnoMod \in Nat
    BY Ages, Constants
  <2>3. QED
    BY <1>1, <2>1, <2>2, Distances
<1>4. ASSUME NEW l \in G
      PROVE  l.seqno \in Seqno /\ Dist(l.seqno, u) = Dist(l.seqno, r) - 1 /\ Dist(l.seqno, r) > 0
  <2>1. l.seqno \in Seqno /\ l.seqno # r
    BY <1>1
  <2>2. Dist(l.seqno, r) \in Nat /\ Dist(l.seqno, r) # 0
    BY <2>1, Ages
  <2>3. QED
    BY <2>1, <2>2, Distances
<1>5. Dist(t, u) = Dist(t, r) - 1
  BY <1>2, Distances
<1>6. Numbered(G, u, t)
  <2>1. \A l, j \in G : l.seqno = j.seqno => l = j
    BY DEF Stream, Numbered
  <2>2. ASSUME NEW l \in G PROVE Dist(l.seqno, u) < Dist(t, u)
    <3>1. Dist(l.seqno, r) < Dist(t, r)
      BY DEF Stream, Numbered
    <3>2. Dist(l.seqno, r) \in Int
      BY <1>4, Ages
    <3>3. QED
      BY <1>2, <1>4, <1>5, <3>1, <3>2
  <2>3. ASSUME NEW n \in 0..(Dist(t, u) - 1) PROVE \E l \in G : Dist(l.seqno, u) = n
    <3>1. n + 1 \in 0..(Dist(t, r) - 1)
      BY <1>2, <1>5
    <3>2. PICK l \in F : Dist(l.seqno, r) = n + 1
      BY <3>1 DEF Stream, Numbered
    <3>3. Dist(k.seqno, r) = 0
      BY Distances
    <3>4. l \in G
      BY <3>2, <3>3
    <3>5. QED
      BY <1>4, <3>2, <3>4
  <2>4. QED
    BY <2>1, <2>2, <2>3 DEF Numbered
<1>7. \A m \in A : k.part = 2 /\ k.msg = m /\ k \notin B
  BY <1>1, <1>2 DEF Stream, Whole, Continued
<1>8. A = {} => k.part = 1
  BY <1>1, <1>3 DEF Stream, Whole, Begun
<1>9. \A m, s : Continued(F, H, t, m, s) /\ s # r => Continued(G, H, t, m, s)
  BY DEF Continued
<1>10. \A m, s : Begun(F, A, r, m, s) /\ s # r /\ Parts(m) = 2 => Begun(G, D, u, m, s)
  BY <1>1, PartsTypes DEF Begun, More
<1>11. \A m \in D : Parts(m) = 2 /\ Continued(G, H, t, m, u)
  <2> SUFFICES ASSUME k.part < Parts(k.msg) PROVE Parts(k.msg) = 2 /\ Continued(G, H, t, k.msg, u)
    BY DEF More
  <2>1. Parts(k.msg) = 2
    BY <1>1, PartsTypes
  <2>2. Continued(F, H, t, k.msg, u)
    BY DEF Stream, Whole
  <2>3. QED
    BY <1>2, <1>9, <2>1, <2>2
<1>12. \A m \in H : Parts(m) = 2 /\ Begun(G, D, u, m, t)
  BY <1>2, <1>10 DEF Stream, Whole
<1>13. ASSUME NEW l \in G
       PROVE  /\ l.part <= Parts(l.msg)
              /\ l.part < Parts(l.msg) => Continued(G, H, t, l.msg, Succ(l.seqno))
              /\ l.part = 2 => Begun(G, D, u, l.msg, l.seqno)
  <2>1. Succ(l.seqno) # r /\ l.seqno # r /\ l.part <= Parts(l.msg)
    BY <1>1, <1>3 DEF Stream, Whole
  <2>2. l.part < Parts(l.msg) => Continued(F, H, t, l.msg, Succ(l.seqno))
    BY DEF Stream, Whole
  <2>3. l.part = 2 => Parts(l.msg) = 2 /\ Begun(F, A, r, l.msg, l.seqno)
    BY <2>1, PartsTypes DEF Stream, Whole
  <2>4. QED
    BY <1>9, <1>10, <2>1, <2>2, <2>3
<1>14. \A l \in B \ {k} : l \in G /\ Parts(l.msg) = 1
  BY DEF Stream, Whole
<1> HIDE DEF G, u, D
<1>15. Whole(G, B \ {k}, u, t, D, H)
  BY <1>11, <1>12, <1>13, <1>14 DEF Whole
<1>16. QED
  BY <1>6, <1>7, <1>8, <1>15 DEF Stream, Continues, G, u, D

-----------------------------------------------------------------------------
(***************************************************************************)
(* The receive queue of a process, as the sequence Q of its cells: those   *)
(* of p, when a cell is added and when the first one is taken.             *)
(***************************************************************************)
From(Q, p) == {k \in ToSet(Q) : k.src = p}
Distinct(Q) == \A i, j \in DOMAIN Q : i # j /\ Q[i].src = Q[j].src => Q[i].seqno # Q[j].seqno

LEMMA QueueAppend ==
  ASSUME NEW Q \in Seq(Packets), NEW k \in Packets, NEW p
  PROVE  /\ Append(Q, k) \in Seq(Packets)
         /\ From(Append(Q, k), p) = From(Q, p) \cup (IF k.src = p THEN {k} ELSE {})
         /\ (Distinct(Q) /\ \A l \in From(Q, k.src) : l.seqno # k.seqno) => Distinct(Append(Q, k))
<1> DEFINE R == Append(Q, k)
<1>1. /\ R \in Seq(Packets) /\ DOMAIN R = 1..(Len(Q) + 1) /\ R[Len(Q) + 1] = k
      /\ Len(Q) \in Nat /\ DOMAIN Q = 1..Len(Q) /\ \A i \in 1..Len(Q) : R[i] = Q[i]
  OBVIOUS
<1> HIDE DEF R
<1>2. ToSet(R) = ToSet(Q) \cup {k}
  <2>1. ASSUME NEW l \in ToSet(R) PROVE l \in ToSet(Q) \cup {k}
    BY <1>1, <2>1 DEF ToSet
  <2>2. ToSet(Q) \subseteq ToSet(R)
    BY <1>1 DEF ToSet
  <2>3. k \in ToSet(R)
    BY <1>1 DEF ToSet
  <2>4. QED
    BY <2>1, <2>2, <2>3
<1>3. From(R, p) = From(Q, p) \cup (IF k.src = p THEN {k} ELSE {})
  BY <1>2 DEF From
<1>4. ASSUME Distinct(Q), \A l \in From(Q, k.src) : l.seqno # k.seqno PROVE Distinct(R)
  <2>1. \A i \in DOMAIN Q : Q[i].src = k.src => Q[i].seqno # k.seqno
    BY <1>4 DEF From, ToSet
  <2>2. QED
    BY <1>1, <1>4, <2>1 DEF Distinct
<1>5. QED
  BY <1>1, <1>3, <1>4 DEF R

LEMMA QueueTail ==
  ASSUME NEW Q \in Seq(Packets), Q # <<>>, Distinct(Q), NEW p
  PROVE  /\ Head(Q) \in Packets /\ Head(Q) \in From(Q, Head(Q).src)
         /\ Tail(Q) \in Seq(Packets) /\ Distinct(Tail(Q))
         /\ From(Tail(Q), p) = From(Q, p) \ {Head(Q)}
<1> DEFINE R == Tail(Q)
           k == Head(Q)
<1>1. /\ R \in Seq(Packets) /\ DOMAIN R = 1..(Len(Q) - 1) /\ k = Q[1] /\ k \in Packets
      /\ Len(Q) \in Nat /\ Len(Q) > 0 /\ DOMAIN Q = 1..Len(Q)
      /\ \A i \in 1..(Len(Q) - 1) : R[i] = Q[i + 1]
  OBVIOUS
<1> HIDE DEF R, k
<1>2. Distinct(R)
  <2>1. ASSUME NEW i \in DOMAIN R, NEW j \in DOMAIN R, i # j, R[i].src = R[j].src
        PROVE  R[i].seqno # R[j].seqno
    <3>1. i + 1 \in DOMAIN Q /\ j + 1 \in DOMAIN Q /\ i + 1 # j + 1
      BY <1>1, <2>1
    <3>2. R[i] = Q[i + 1] /\ R[j] = Q[j + 1]
      BY <1>1
    <3>3. QED
      BY <2>1, <3>1, <3>2 DEF Distinct
  <2>2. QED
    BY <2>1 DEF Distinct
<1>3. ASSUME NEW l PROVE l \in ToSet(R) <=> l \in ToSet(Q) /\ l # k
  <2>1. ASSUME l \in ToSet(R) PROVE l \in ToSet(Q) /\ l # k
    <3>1. PICK i \in 1..(Len(Q) - 1) : l = R[i]
      BY <1>1, <2>1 DEF ToSet
    <3>2. l = Q[i + 1] /\ i + 1 \in DOMAIN Q /\ i + 1 # 1 /\ 1 \in DOMAIN Q
      BY <1>1, <3>1
    <3>3. QED
      BY <1>1, <3>2 DEF ToSet, Distinct
  <2>2. ASSUME l \in ToSet(Q), l # k PROVE l \in ToSet(R)
    <3>1. PICK i \in 1..Len(Q) : l = Q[i]
      BY <1>1, <2>2 DEF ToSet
    <3>2. i # 1 /\ i - 1 \in DOMAIN R /\ R[i - 1] = Q[i]
      BY <1>1, <2>2, <3>1
    <3>3. QED
      BY <3>1, <3>2 DEF ToSet
  <2>3. QED
    BY <2>1, <2>2
<1>4. From(R, p) = From(Q, p) \ {k}
  BY <1>3 DEF From
<1>5. k \in From(Q, k.src)
  BY <1>1 DEF From, ToSet
<1>6. QED
  BY <1>1, <1>2, <1>4, <1>5 DEF R, k

-----------------------------------------------------------------------------
(***************************************************************************)
(* The send queue of a process: a message that has been sent in part can   *)
(* only be its head.  Rest is what is left of a message to d.              *)
(***************************************************************************)
Entry == [dst : Proc, msg : Msg, part : 1..2]

SendqOK(s) == \A i \in DOMAIN s : /\ s[i].part <= Parts(s[i].msg)
                                  /\ i > 1 => s[i].part = 1
Rest(s, d) == {s[i].msg : i \in {j \in DOMAIN s : s[j].dst = d /\ s[j].part = 2}}

LEMMA SendqAppend ==
  ASSUME NEW s \in Seq(Entry), SendqOK(s), NEW e \in Entry, e.part = 1, NEW d
  PROVE  Append(s, e) \in Seq(Entry) /\ SendqOK(Append(s, e)) /\ Rest(Append(s, e), d) = Rest(s, d)
<1> DEFINE u == Append(s, e)
<1>1. /\ u \in Seq(Entry) /\ Len(s) \in Nat /\ DOMAIN s = 1..Len(s)
      /\ DOMAIN u = 1..(Len(s) + 1) /\ u[Len(s) + 1] = e
      /\ \A i \in 1..Len(s) : u[i] = s[i]
  OBVIOUS
<1> HIDE DEF u
<1>2. SendqOK(u)
  BY <1>1, PartsTypes DEF SendqOK
<1>3. \A i \in DOMAIN u : u[i].part = 2 => i \in DOMAIN s
  BY <1>1
<1>4. Rest(u, d) = Rest(s, d)
  <2>1. Rest(u, d) \subseteq Rest(s, d)
    BY <1>1, <1>3 DEF Rest
  <2>2. Rest(s, d) \subseteq Rest(u, d)
    BY <1>1 DEF Rest
  <2>3. QED
    BY <2>1, <2>2
<1>5. QED
  BY <1>1, <1>2, <1>4 DEF u

LEMMA SendqHead ==
  ASSUME NEW s \in Seq(Entry), SendqOK(s), s # <<>>, NEW d
  PROVE  /\ Head(s) \in Entry /\ Head(s).part <= Parts(Head(s).msg) /\ s[1] = Head(s)
         /\ Rest(s, d) = IF Head(s).part = 2 /\ Head(s).dst = d THEN {Head(s).msg} ELSE {}
         /\ Tail(s) \in Seq(Entry) /\ SendqOK(Tail(s)) /\ Rest(Tail(s), d) = {}
<1>1. /\ Len(s) \in Nat /\ Len(s) > 0 /\ DOMAIN s = 1..Len(s) /\ Head(s) = s[1] /\ s[1] \in Entry
      /\ Tail(s) \in Seq(Entry) /\ DOMAIN Tail(s) = 1..(Len(s) - 1)
      /\ \A i \in 1..(Len(s) - 1) : Tail(s)[i] = s[i + 1]
  OBVIOUS
<1>0. \A i \in DOMAIN s : i \in Nat /\ i >= 1 /\ (i # 1 => s[i].part = 1)
  <2> TAKE i \in DOMAIN s
  <2>1. i \in Nat /\ i >= 1
    BY <1>1
  <2>2. i > 1 => s[i].part = 1
    BY DEF SendqOK
  <2>3. QED
    BY <2>1, <2>2
<1>2. \A i \in DOMAIN Tail(s) : Tail(s)[i].part = 1
  <2> TAKE i \in DOMAIN Tail(s)
  <2>1. i + 1 \in DOMAIN s /\ i + 1 # 1 /\ Tail(s)[i] = s[i + 1]
    BY <1>1
  <2>2. QED
    BY <1>0, <2>1
<1>3. SendqOK(Tail(s)) /\ Rest(Tail(s), d) = {}
  BY <1>2, PartsTypes DEF SendqOK, Rest
<1>4. \A i \in DOMAIN s : s[i].part = 2 => i = 1
  BY <1>0
<1>5. Rest(s, d) = IF s[1].part = 2 /\ s[1].dst = d THEN {s[1].msg} ELSE {}
  BY <1>1, <1>4 DEF Rest
<1>6. s[1].part <= Parts(s[1].msg)
  BY <1>1 DEF SendqOK
<1>7. QED
  BY <1>1, <1>3, <1>5, <1>6

(* the first part of the head has been sent *)
LEMMA SendqAdvance ==
  ASSUME NEW s \in Seq(Entry), SendqOK(s), s # <<>>, NEW d,
         Head(s).part < Parts(Head(s).msg), NEW u, u = [s EXCEPT ![1].part = @ + 1]
  PROVE  /\ u \in Seq(Entry) /\ SendqOK(u)
         /\ Rest(u, d) = IF Head(s).dst = d THEN {Head(s).msg} ELSE {}
<1>1. /\ Len(s) \in Nat /\ Len(s) > 0 /\ DOMAIN s = 1..Len(s) /\ Head(s) = s[1]
      /\ \A i \in 1..Len(s) : s[i] \in Entry
  OBVIOUS
<1>2. s[1].part = 1 /\ Parts(s[1].msg) = 2 /\ s[1].dst \in Proc /\ s[1].msg \in Msg
  BY <1>1, PartsTypes DEF Entry
<1> DEFINE e == [s[1] EXCEPT !.part = @ + 1]
<1>3. e \in Entry /\ e.part = 2 /\ e.dst = s[1].dst /\ e.msg = s[1].msg
  BY <1>1, <1>2 DEF Entry
<1>4. u = [s EXCEPT ![1] = e]
  OBVIOUS
<1> HIDE DEF e
<1>5. u \in Seq(Entry) /\ Len(u) = Len(s) /\ u[1] = e /\ \A i \in 2..Len(s) : u[i] = s[i]
  BY <1>1, <1>3, <1>4
<1>6. DOMAIN u = 1..Len(s)
  BY <1>1, <1>5
<1>7. \A i \in 1..Len(s) : i # 1 => u[i] = s[i] /\ s[i].part = 1
  <2> TAKE i \in 1..Len(s)
  <2>1. i > 1 => s[i].part = 1
    BY <1>1 DEF SendqOK
  <2>2. QED
    BY <1>1, <1>5, <2>1
<1>8. SendqOK(u)
  BY <1>1, <1>2, <1>3, <1>5, <1>6, <1>7 DEF SendqOK
<1>9. Rest(u, d) = IF e.dst = d THEN {e.msg} ELSE {}
  <2>1. 1 \in DOMAIN u
    BY ONLY <1>1, <1>6
  <2>2. \A i \in DOMAIN u : u[i].part = 2 => i = 1
    BY <1>6, <1>7
  <2>3. u[1] = e /\ e.part = 2
    BY <1>3, <1>5, Zenon
  <2>4. Rest(u, d) = {u[i].msg : i \in {j \in {1} : u[j].dst = d}}
    BY ONLY <2>1, <2>2, <2>3 DEF Rest
  <2>5. QED
    BY ONLY <2>3, <2>4
<1>10. QED
  BY <1>1, <1>3, <1>5, <1>8, <1>9

-----------------------------------------------------------------------------
(***************************************************************************)
(* The messages of one pair: A the one that is being received, F the       *)
(* packets in flight, r and t the two sequence numbers, s the send queue   *)
(* of the sender, q the receiver.                                          *)
(***************************************************************************)
Current(A) == {Item(0, m) : m \in A}
Flying(F, r) == {Item(1 + Dist(k.seqno, r), k.msg) : k \in {j \in F : j.part = 1}}
Waiting(s, q) ==
  {Item(SeqnoMod + i, s[i].msg) : i \in {j \in DOMAIN s : s[j].dst = q /\ s[j].part = 1}}
Pieces(A, F, r, s, q) == Current(A) \cup Flying(F, r) \cup Waiting(s, q)

PiecesOK(A, F, r, t, s) ==
  /\ F \in SUBSET Packets /\ IsFiniteSet(F) /\ r \in Seqno /\ t \in Seqno /\ Numbered(F, r, t)
  /\ A \in SUBSET Msg /\ \A m, n \in A : m = n
  /\ s \in Seq(Entry)

LEMMA ItemFields == \A i, m : Item(i, m).place = i /\ Item(i, m).msg = m
BY DEF Item

LEMMA FlyingPlaces ==
  ASSUME NEW A, NEW F, NEW r, NEW t, NEW s, PiecesOK(A, F, r, t, s), NEW k \in F
  PROVE  /\ Dist(k.seqno, r) \in Nat /\ Dist(k.seqno, r) < Dist(t, r) /\ k.msg \in Msg
         /\ k.seqno \in Seqno /\ Dist(t, r) \in Nat /\ Dist(t, r) < SeqnoMod
<1>1. k \in Packets /\ r \in Seqno /\ t \in Seqno /\ Dist(k.seqno, r) < Dist(t, r)
  BY DEF PiecesOK, Numbered
<1>2. k.seqno \in Seqno /\ k.msg \in Msg
  BY <1>1, PartsTypes DEF Packets
<1>3. QED
  BY <1>1, <1>2, Ages

(* what is being received comes before what flies, and that before what waits *)
LEMMA Places ==
  ASSUME NEW A, NEW F, NEW r, NEW t, NEW s, PiecesOK(A, F, r, t, s), NEW q
  PROVE  /\ \A x \in Current(A) : x.place = 0 /\ x.msg \in A /\ x.msg \in Msg
         /\ \A x \in Flying(F, r) : x.place \in 1..Dist(t, r) /\ x.msg \in Msg
         /\ \A x \in Waiting(s, q) : x.place \in Nat /\ x.place > SeqnoMod /\ x.msg \in Msg
         /\ Dist(t, r) \in Nat /\ Dist(t, r) < SeqnoMod /\ SeqnoMod \in Nat
<1>1. Dist(t, r) \in Nat /\ Dist(t, r) < SeqnoMod /\ SeqnoMod \in Nat
  BY Ages, Constants DEF PiecesOK
<1>2. \A x \in Current(A) : x.place = 0 /\ x.msg \in A /\ x.msg \in Msg
  BY ItemFields DEF Current, PiecesOK
<1>3. ASSUME NEW x \in Flying(F, r) PROVE x.place \in 1..Dist(t, r) /\ x.msg \in Msg
  <2>1. PICK k \in F : x = Item(1 + Dist(k.seqno, r), k.msg)
    BY DEF Flying
  <2>2. Dist(k.seqno, r) \in Nat /\ Dist(k.seqno, r) < Dist(t, r) /\ k.msg \in Msg
    BY FlyingPlaces
  <2>3. QED
    BY <1>1, <2>1, <2>2, ItemFields
<1>4. ASSUME NEW x \in Waiting(s, q)
      PROVE  x.place \in Nat /\ x.place > SeqnoMod /\ x.msg \in Msg
  <2>1. PICK i \in DOMAIN s : x = Item(SeqnoMod + i, s[i].msg)
    BY DEF Waiting
  <2>2. i \in Nat /\ i > 0 /\ s[i].msg \in Msg
    <3>1. s \in Seq(Entry)
      BY DEF PiecesOK
    <3>2. i \in 1..Len(s) /\ s[i] \in Entry
      BY <3>1
    <3>3. QED
      BY <3>2 DEF Entry
  <2>3. QED
    BY <1>1, <2>1, <2>2, ItemFields
<1>5. QED
  BY <1>1, <1>2, <1>3, <1>4

LEMMA PiecesItems ==
  ASSUME NEW A, NEW F, NEW r, NEW t, NEW s, PiecesOK(A, F, r, t, s), NEW q
  PROVE  IsItems(Pieces(A, F, r, s, q))
<1> DEFINE S == Pieces(A, F, r, s, q)
<1>1. IsFiniteSet(S)
  <2>1. IsFiniteSet(Current(A))
    <3>1. CASE A = {}
      <4>1. Current(A) = {}
        BY <3>1 DEF Current
      <4>2. QED
        BY <4>1, FS_EmptySet
    <3>2. CASE A # {}
      <4>1. PICK m \in A : \A n \in A : n = m
        BY <3>2 DEF PiecesOK
      <4>2. Current(A) = {Item(0, m)}
        BY <4>1 DEF Current
      <4>3. QED
        BY <4>2, FS_Singleton
    <3>3. QED
      BY <3>1, <3>2
  <2>2. IsFiniteSet(Flying(F, r))
    <3> DEFINE G == {j \in F : j.part = 1}
               f == [k \in G |-> Item(1 + Dist(k.seqno, r), k.msg)]
    <3>1. IsFiniteSet(G)
      BY FS_Subset DEF PiecesOK
    <3>2. f \in Surjection(G, Flying(F, r))
      BY DEF Flying, Surjection
    <3>3. QED
      BY <3>1, <3>2, FS_Surjection
  <2>3. IsFiniteSet(Waiting(s, q))
    <3> DEFINE G == {j \in DOMAIN s : s[j].dst = q /\ s[j].part = 1}
               f == [i \in G |-> Item(SeqnoMod + i, s[i].msg)]
    <3>1. IsFiniteSet(G)
      <4>1. DOMAIN s = 1..Len(s) /\ Len(s) \in Nat
        BY DEF PiecesOK
      <4>2. IsFiniteSet(1..Len(s)) /\ G \subseteq 1..Len(s)
        BY <4>1, FS_Interval
      <4>3. QED
        BY <4>2, FS_Subset
    <3>2. f \in Surjection(G, Waiting(s, q))
      BY DEF Waiting, Surjection
    <3>3. QED
      BY <3>1, <3>2, FS_Surjection
  <2>4. QED
    BY <2>1, <2>2, <2>3, FS_Union DEF Pieces
<1>2. \A x \in S : x.place \in Nat /\ x.msg \in Msg
  BY Places DEF Pieces
<1>3. ASSUME NEW x \in Flying(F, r), NEW y \in Flying(F, r), x.place = y.place PROVE x = y
  <2>1. PICK k \in F : x = Item(1 + Dist(k.seqno, r), k.msg)
    BY DEF Flying
  <2>2. PICK l \in F : y = Item(1 + Dist(l.seqno, r), l.msg)
    BY DEF Flying
  <2>3. Dist(k.seqno, r) = Dist(l.seqno, r)
    BY <1>3, <2>1, <2>2, FlyingPlaces, ItemFields
  <2>4. k.seqno = l.seqno
    <3>1. k.seqno \in Seqno /\ l.seqno \in Seqno /\ r \in Seqno
      BY FlyingPlaces DEF PiecesOK
    <3>2. QED
      BY ONLY <2>3, <3>1, Distances
  <2>5. k = l
    BY <2>4 DEF PiecesOK, Numbered
  <2>6. QED
    BY <2>1, <2>2, <2>5
<1>4. ASSUME NEW x \in Waiting(s, q), NEW y \in Waiting(s, q), x.place = y.place PROVE x = y
  <2>1. PICK i \in DOMAIN s : x = Item(SeqnoMod + i, s[i].msg)
    BY DEF Waiting
  <2>2. PICK j \in DOMAIN s : y = Item(SeqnoMod + j, s[j].msg)
    BY DEF Waiting
  <2>3. i \in Nat /\ j \in Nat /\ SeqnoMod \in Nat
    BY Constants DEF PiecesOK
  <2>4. i = j
    BY <1>4, <2>1, <2>2, <2>3, ItemFields
  <2>5. QED
    BY <2>1, <2>2, <2>4
<1>5. ASSUME NEW x \in Current(A), NEW y \in Current(A) PROVE x = y
  BY DEF Current, PiecesOK
<1>6. \A x, y \in S : x.place = y.place => x = y
  <2> SUFFICES ASSUME NEW x \in S, NEW y \in S, x.place = y.place PROVE x = y
    OBVIOUS
  <2>1. \/ x \in Current(A) /\ y \in Current(A)
        \/ x \in Flying(F, r) /\ y \in Flying(F, r)
        \/ x \in Waiting(s, q) /\ y \in Waiting(s, q)
    BY Places DEF Pieces
  <2>2. QED
    BY <1>3, <1>4, <1>5, <2>1
<1>7. QED
  BY <1>1, <1>2, <1>6 DEF IsItems

(* the items of S at the places that g gives them *)
Image(g, S) == {Item(g[x.place], x.msg) : x \in S}

LEMMA ImageUnion ==
  ASSUME NEW g, NEW S, NEW T
  PROVE  Image(g, S \cup T) = Image(g, S) \cup Image(g, T)
BY DEF Image

LEMMA ImageSame ==
  ASSUME NEW g, NEW S, \A x \in S : g[x.place] = x.place /\ Item(x.place, x.msg) = x
  PROVE  Image(g, S) = S
<1>1. \A x \in S : Item(g[x.place], x.msg) = x
  OBVIOUS
<1>2. QED
  BY <1>1 DEF Image

(* the order stays when the places move and keep their order *)
Keeps(g, S) == \A x, y \in S : x.place < y.place => g[x.place] < g[y.place]

LEMMA Moved ==
  ASSUME NEW S, IsItems(S), NEW g \in [Nat -> Nat], Keeps(g, S)
  PROVE  IsItems(Image(g, S)) /\ InOrder(Image(g, S)) = InOrder(S)
<1> DEFINE T == Image(g, S)
           f == [x \in S |-> Item(g[x.place], x.msg)]
<1>1. f \in [S -> T] /\ \A y \in T : \E x \in S : f[x] = y
  BY DEF Image
<1>2. \A x \in S : f[x].msg = x.msg /\ f[x].place = g[x.place] /\ f[x].place \in Nat
  BY ItemFields DEF IsItems
<1> HIDE DEF f, T
<1>3. \A x, y \in S : x.place < y.place => f[x].place < f[y].place
  BY <1>2 DEF Keeps
<1>4. IsItems(T) /\ InOrder(T) = InOrder(S)
  BY <1>1, <1>2, <1>3, Relabel
<1>5. QED
  BY <1>4 DEF T

(* a message is started: it waits behind all others for its destination *)
LEMMA PiecesStarted ==
  ASSUME NEW A, NEW F, NEW r, NEW t, NEW s, PiecesOK(A, F, r, t, s),
         NEW e \in Entry, e.part = 1, NEW q
  PROVE  /\ q # e.dst => Pieces(A, F, r, Append(s, e), q) = Pieces(A, F, r, s, q)
         /\ q = e.dst => InOrder(Pieces(A, F, r, Append(s, e), q)) =
                           Append(InOrder(Pieces(A, F, r, s, q)), e.msg)
<1> DEFINE u == Append(s, e)
           n == Len(s) + 1
           z == Item(SeqnoMod + n, e.msg)
           S == Pieces(A, F, r, s, q)
<1>1. s \in Seq(Entry) /\ e.msg \in Msg /\ SeqnoMod \in Nat
  BY Constants DEF PiecesOK, Entry
<1>2. /\ DOMAIN s = 1..Len(s) /\ DOMAIN u = 1..n /\ u[n] = e /\ Len(s) \in Nat /\ n \in Nat
      /\ \A i \in 1..Len(s) : u[i] = s[i]
  BY <1>1
<1> HIDE DEF u
<1>3. Waiting(u, q) = Waiting(s, q) \cup (IF q = e.dst THEN {z} ELSE {})
  <2> HIDE DEF z
  <2>1. ASSUME NEW x \in Waiting(u, q) PROVE x \in Waiting(s, q) \/ (q = e.dst /\ x = z)
    <3>1. PICK i \in DOMAIN u : u[i].dst = q /\ u[i].part = 1 /\ x = Item(SeqnoMod + i, u[i].msg)
      BY DEF Waiting
    <3>2. CASE i = n
      BY <1>2, <3>1, <3>2 DEF z
    <3>3. CASE i # n
      <4>1. i \in DOMAIN s /\ u[i] = s[i]
        BY <1>2, <3>1, <3>3
      <4>2. QED
        BY <3>1, <4>1 DEF Waiting
    <3>4. QED
      BY <3>2, <3>3
  <2>2. ASSUME NEW x \in Waiting(s, q) PROVE x \in Waiting(u, q)
    <3>1. PICK i \in DOMAIN s : s[i].dst = q /\ s[i].part = 1 /\ x = Item(SeqnoMod + i, s[i].msg)
      BY DEF Waiting
    <3>2. i \in DOMAIN u /\ u[i] = s[i]
      BY <1>2
    <3>3. QED
      BY <3>1, <3>2 DEF Waiting
  <2>3. q = e.dst => z \in Waiting(u, q)
    <3>1. n \in DOMAIN u
      BY <1>2
    <3>2. QED
      BY <1>2, <3>1 DEF Waiting, z
  <2>4. QED
    BY <2>1, <2>2, <2>3
<1>4. \A x \in S : x.place < SeqnoMod + n
  <2>1. ASSUME NEW x \in Waiting(s, q) PROVE x.place < SeqnoMod + n
    <3>1. PICK i \in DOMAIN s : x = Item(SeqnoMod + i, s[i].msg)
      BY DEF Waiting
    <3>2. i \in 1..Len(s)
      BY <1>2
    <3>3. QED
      BY <1>1, <1>2, <3>1, <3>2, ItemFields
  <2>2. QED
    BY <1>1, <1>2, <2>1, Places DEF Pieces
<1>5. IsItems(S)
  BY PiecesItems
<1>6. q # e.dst => Pieces(A, F, r, u, q) = S
  BY <1>3 DEF Pieces
<1>7. q = e.dst => Pieces(A, F, r, u, q) = S \cup {z}
  BY <1>3 DEF Pieces
<1>8. z.place = SeqnoMod + n /\ z.msg = e.msg /\ z.place \in Nat
  BY <1>1, <1>2, ItemFields
<1> HIDE DEF S, z, n
<1>9. InOrder(S \cup {z}) = Append(InOrder(S), z.msg)
  BY <1>1, <1>4, <1>5, <1>8, AddLast
<1>10. QED
  BY <1>6, <1>7, <1>8, <1>9 DEF S, u

(* u has the whole messages of s, but for its first one, c places further *)
Shifted(s, u, c) ==
  /\ \A j \in DOMAIN u : u[j].part = 1 =>
       j \in Nat /\ j + c \in DOMAIN s /\ j + c > 1 /\ u[j] = s[j + c]
  /\ \A i \in DOMAIN s : i > 1 => i - c \in DOMAIN u /\ u[i - c] = s[i]

LEMMA SendqShift ==
  ASSUME NEW s \in Seq(Entry), s # <<>>,
         NEW u, u = Tail(s) \/ (Head(s).part = 1 /\ u = [s EXCEPT ![1].part = @ + 1])
  PROVE  \E c \in {0, 1} : Shifted(s, u, c)
<1>1. /\ DOMAIN s = 1..Len(s) /\ Len(s) \in Nat /\ Len(s) > 0 /\ Head(s) = s[1] /\ s[1] \in Entry
  OBVIOUS
<1>2. CASE u = Tail(s)
  <2> DEFINE n == Len(s) - 1
  <2>1. DOMAIN u = 1..n /\ n \in Nat /\ \A j \in 1..n : u[j] = s[j + 1]
    BY <1>1, <1>2
  <2>2. \A j \in 1..n : j \in Nat /\ j + 1 \in 1..Len(s) /\ j + 1 > 1
    BY <1>1
  <2>3. \A i \in 1..Len(s) : i > 1 => i - 1 \in 1..n /\ (i - 1) + 1 = i
    BY <1>1
  <2> HIDE DEF n
  <2>4. \A j \in DOMAIN u : j \in Nat /\ j + 1 \in DOMAIN s /\ j + 1 > 1 /\ u[j] = s[j + 1]
    BY ONLY <1>1, <2>1, <2>2
  <2>5. \A i \in DOMAIN s : i > 1 => i - 1 \in DOMAIN u /\ u[i - 1] = s[i]
    BY ONLY <1>1, <2>1, <2>3
  <2>6. Shifted(s, u, 1)
    BY ONLY <2>4, <2>5 DEF Shifted
  <2>7. QED
    BY <2>6
<1>3. CASE Head(s).part = 1 /\ u = [s EXCEPT ![1].part = @ + 1]
  <2> DEFINE e == [s[1] EXCEPT !.part = @ + 1]
  <2>0. s[1].part = 1 /\ s[1] \in Entry
    BY <1>1, <1>3
  <2>1. e.part = 2
    BY ONLY <2>0 DEF Entry
  <2>2. u = [s EXCEPT ![1] = e]
    BY <1>3
  <2> HIDE DEF e
  <2>3. DOMAIN u = DOMAIN s /\ u[1] = e /\ \A i \in 1..Len(s) : i # 1 => u[i] = s[i]
    BY ONLY <1>1, <2>2
  <2>4. \A j \in 1..Len(s) : j \in Nat /\ j + 0 = j /\ j - 0 = j /\ (j # 1 => j > 1)
    BY ONLY <1>1
  <2>5. \A j \in DOMAIN u : u[j].part = 1 => j # 1
    BY <2>1, <2>3
  <2>6. Shifted(s, u, 0)
    BY ONLY <1>1, <2>3, <2>4, <2>5 DEF Shifted
  <2>7. 0 \in {0, 1}
    OBVIOUS
  <2>8. QED
    BY ONLY <2>6, <2>7, ZenonT(60)
<1>4. QED
  BY <1>2, <1>3

(* a part of the head of the send queue goes into flight *)
LEMMA PiecesSent ==
  ASSUME NEW A, NEW F, NEW r, NEW t, NEW s, PiecesOK(A, F, r, t, s), SendqOK(s), s # <<>>,
         NEW e, e = Head(s), NEW k, k.seqno = t, k.part = e.part, k.msg = e.msg, NEW q,
         NEW G, G = F \cup (IF q = e.dst THEN {k} ELSE {}),
         NEW u, u = Tail(s) \/ (e.part = 1 /\ u = [s EXCEPT ![1].part = @ + 1])
  PROVE  InOrder(Pieces(A, G, r, u, q)) = InOrder(Pieces(A, F, r, s, q))
<1> DEFINE D == Dist(t, r)
           S == Pieces(A, F, r, s, q)
           New == IF q = e.dst /\ e.part = 1 THEN {Item(1 + D, e.msg)} ELSE {}
<1>1. s \in Seq(Entry) /\ SeqnoMod \in Nat /\ D \in Nat /\ D < SeqnoMod
  BY Constants, Places DEF PiecesOK
<1>2. /\ DOMAIN s = 1..Len(s) /\ Len(s) \in Nat /\ Len(s) > 0 /\ s[1] = e /\ e \in Entry
      /\ \A i \in 1..Len(s) : i > 1 => s[i].part = 1
  BY <1>1 DEF SendqOK
<1>3. PICK c \in {0, 1} :
        /\ \A j \in DOMAIN u : u[j].part = 1 =>
             j \in Nat /\ j + c \in DOMAIN s /\ j + c > 1 /\ u[j] = s[j + c]
        /\ \A i \in DOMAIN s : i > 1 => i - c \in DOMAIN u /\ u[i - c] = s[i]
  <2>1. u = Tail(s) \/ (Head(s).part = 1 /\ u = [s EXCEPT ![1].part = @ + 1])
    OBVIOUS
  <2>2. \E c \in {0, 1} : Shifted(s, u, c)
    BY ONLY <1>1, <2>1, s # <<>>, SendqShift
  <2>3. QED
    BY <2>2 DEF Shifted
<1> DEFINE g == [n \in Nat |-> IF n <= SeqnoMod THEN n
                               ELSE IF n = SeqnoMod + 1 THEN 1 + D ELSE n - c]
<1>4. g \in [Nat -> Nat]
  BY <1>1
<1>5. Keeps(g, S)
  <2> SUFFICES ASSUME NEW x \in S, NEW y \in S, x.place < y.place PROVE g[x.place] < g[y.place]
    BY DEF Keeps
  <2>1. /\ x.place \in Nat /\ (x.place <= D \/ x.place > SeqnoMod)
        /\ y.place \in Nat /\ (y.place <= D \/ y.place > SeqnoMod)
    <3>1. ASSUME NEW w \in S PROVE w.place \in Nat /\ (w.place <= D \/ w.place > SeqnoMod)
      <4>1. w \in Current(A) \/ w \in Flying(F, r) \/ w \in Waiting(s, q)
        BY DEF Pieces
      <4>2. w.place = 0 \/ w.place \in 1..D \/ (w.place \in Nat /\ w.place > SeqnoMod)
        BY <4>1, Places
      <4>3. QED
        BY <1>1, <4>2
    <3>2. QED
      BY <3>1
  <2>2. QED
    BY <1>1, <2>1
<1>6. \A x \in Current(A) \cup Flying(F, r) : g[x.place] = x.place /\ Item(x.place, x.msg) = x
  <2>1. \A x \in Current(A) \cup Flying(F, r) : x.place \in Nat /\ x.place <= SeqnoMod
    BY <1>1, Places
  <2>2. \A x \in Current(A) \cup Flying(F, r) : Item(x.place, x.msg) = x
    BY ItemFields DEF Current, Flying
  <2>3. QED
    BY <2>1, <2>2
<1>7. Flying(G, r) = Flying(F, r) \cup New
  BY DEF Flying
<1>8. ASSUME NEW x \in Waiting(s, q) PROVE Item(g[x.place], x.msg) \in New \cup Waiting(u, q)
  <2>1. PICK i \in DOMAIN s : s[i].dst = q /\ s[i].part = 1 /\ x = Item(SeqnoMod + i, s[i].msg)
    BY DEF Waiting
  <2>2. i \in Nat /\ i > 0
    BY <1>2
  <2>3. CASE i = 1
    <3>1. g[x.place] = 1 + D
      BY <1>1, <2>1, <2>3, ItemFields
    <3>2. QED
      BY <1>2, <2>1, <2>3, <3>1, ItemFields
  <2>4. CASE i > 1
    <3>1. g[x.place] = SeqnoMod + (i - c)
      BY <1>1, <2>1, <2>2, <2>4, ItemFields
    <3>2. i - c \in DOMAIN u /\ u[i - c] = s[i]
      BY <1>3, <2>4
    <3>3. Item(SeqnoMod + (i - c), u[i - c].msg) \in Waiting(u, q)
      BY <2>1, <3>2 DEF Waiting
    <3>4. QED
      BY <2>1, <3>1, <3>2, <3>3, ItemFields
  <2>5. QED
    BY <2>2, <2>3, <2>4
<1>9. ASSUME NEW y \in New \cup Waiting(u, q)
      PROVE  \E x \in Waiting(s, q) : y = Item(g[x.place], x.msg)
  <2>1. CASE y \in New
    <3> DEFINE x == Item(SeqnoMod + 1, s[1].msg)
    <3>1. 1 \in DOMAIN s /\ x \in Waiting(s, q)
      BY <1>2, <2>1 DEF Waiting
    <3>2. x.place = SeqnoMod + 1 /\ x.msg = e.msg
      BY <1>2, ItemFields
    <3>3. y = Item(1 + D, e.msg)
      BY <2>1
    <3> HIDE DEF x
    <3>4. g[x.place] = 1 + D
      BY <1>1, <3>2
    <3>5. QED
      BY <3>1, <3>2, <3>3, <3>4
  <2>2. CASE y \in Waiting(u, q)
    <3>1. PICK j \in DOMAIN u : u[j].dst = q /\ u[j].part = 1 /\ y = Item(SeqnoMod + j, u[j].msg)
      BY <2>2 DEF Waiting
    <3> DEFINE x == Item(SeqnoMod + (j + c), s[j + c].msg)
    <3>2. j \in Nat /\ j + c \in DOMAIN s /\ j + c > 1 /\ u[j] = s[j + c]
      BY <1>3, <3>1
    <3>3. x \in Waiting(s, q)
      BY <3>1, <3>2 DEF Waiting
    <3>4. x.place = SeqnoMod + (j + c) /\ x.msg = u[j].msg
      BY <3>2, ItemFields
    <3> HIDE DEF x
    <3>5. g[x.place] = SeqnoMod + j
      BY <1>1, <3>2, <3>4
    <3>6. QED
      BY <3>1, <3>3, <3>4, <3>5
  <2>3. QED
    BY <2>1, <2>2
<1> HIDE DEF g, D, New
<1>10. Pieces(A, G, r, u, q) = Image(g, S)
  <2>1. Image(g, Current(A) \cup Flying(F, r)) = Current(A) \cup Flying(F, r)
    BY <1>6, ImageSame
  <2>2. Image(g, Waiting(s, q)) = New \cup Waiting(u, q)
    BY <1>8, <1>9 DEF Image
  <2>3. Image(g, S) = Image(g, Current(A) \cup Flying(F, r)) \cup Image(g, Waiting(s, q))
    BY ImageUnion DEF Pieces
  <2>4. QED
    BY <1>7, <2>1, <2>2, <2>3 DEF Pieces
<1>11. IsItems(S)
  BY PiecesItems
<1> HIDE DEF S
<1>12. InOrder(Pieces(A, G, r, u, q)) = InOrder(S)
  BY <1>4, <1>5, <1>10, <1>11, Moved
<1>13. QED
  BY <1>12 DEF S

(* when k is taken, the others in flight move one place forward *)
LEMMA FlyingRest ==
  ASSUME NEW A, NEW F, NEW r, NEW t, NEW s, PiecesOK(A, F, r, t, s), NEW k \in F, k.seqno = r,
         NEW l \in F \ {k}
  PROVE  Dist(l.seqno, r) \in Nat /\ Dist(l.seqno, r) > 0 /\ Dist(l.seqno, r) < SeqnoMod
         /\ Dist(l.seqno, Succ(r)) = Dist(l.seqno, r) - 1
<1>1. /\ l.seqno \in Seqno /\ r \in Seqno /\ l.seqno # r /\ SeqnoMod \in Nat
      /\ Dist(l.seqno, r) \in Nat /\ Dist(l.seqno, r) < SeqnoMod
  <2>1. l.seqno \in Seqno /\ Dist(l.seqno, r) \in Nat /\ Dist(l.seqno, r) < Dist(t, r)
        /\ Dist(t, r) \in Nat /\ Dist(t, r) < SeqnoMod
    BY FlyingPlaces
  <2>2. r \in Seqno /\ l.seqno # r
    BY DEF PiecesOK, Numbered
  <2>3. SeqnoMod \in Nat
    BY Constants
  <2>4. QED
    BY <2>1, <2>2, <2>3
<1>2. Dist(l.seqno, r) > 0
  BY ONLY <1>1, Ages
<1>3. Dist(l.seqno, Succ(r)) = Dist(l.seqno, r) - 1
  BY ONLY <1>1, <1>2, Distances
<1>4. QED
  BY <1>1, <1>2, <1>3

Forward(g, F, k, r) ==
  /\ \A x \in Flying(F \ {k}, r) : x.place \in Nat /\ x.place > 1
  /\ Flying(F \ {k}, Succ(r)) = Image(g, Flying(F \ {k}, r))
  /\ Flying(F, r) = Flying(F \ {k}, r) \cup (IF k.part = 1 THEN {Item(1, k.msg)} ELSE {})

LEMMA FlyingShift ==
  ASSUME NEW A, NEW F, NEW r, NEW t, NEW s, PiecesOK(A, F, r, t, s), NEW k \in F, k.seqno = r,
         NEW g, g = [n \in Nat |-> IF n \in 1..SeqnoMod THEN n - 1 ELSE n]
  PROVE  Forward(g, F, k, r)
<1> DEFINE G == F \ {k}
<1>1. \A l \in G : /\ Dist(l.seqno, r) \in Nat /\ Dist(l.seqno, r) > 0 /\ Dist(l.seqno, r) < SeqnoMod
                   /\ Dist(l.seqno, Succ(r)) = Dist(l.seqno, r) - 1
  BY FlyingRest
<1>2. SeqnoMod \in Nat
  BY Constants
<1>3. ASSUME NEW l \in G
      PROVE  /\ Item(1 + Dist(l.seqno, r), l.msg).place = 1 + Dist(l.seqno, r)
             /\ 1 + Dist(l.seqno, r) \in Nat /\ 1 + Dist(l.seqno, r) > 1
             /\ g[1 + Dist(l.seqno, r)] = 1 + Dist(l.seqno, Succ(r))
  <2>1. Dist(l.seqno, r) \in Nat /\ Dist(l.seqno, r) > 0 /\ Dist(l.seqno, r) < SeqnoMod
        /\ Dist(l.seqno, Succ(r)) = Dist(l.seqno, r) - 1
    BY <1>1
  <2>2. Item(1 + Dist(l.seqno, r), l.msg).place = 1 + Dist(l.seqno, r)
    BY ItemFields
  <2>3. 1 + Dist(l.seqno, r) \in 1..SeqnoMod /\ 1 + Dist(l.seqno, r) \in Nat
    BY <1>2, <2>1
  <2>4. g[1 + Dist(l.seqno, r)] = (1 + Dist(l.seqno, r)) - 1
    BY <2>3
  <2>5. QED
    BY <2>1, <2>2, <2>3, <2>4
<1>4. \A x \in Flying(G, r) : x.place \in Nat /\ x.place > 1
  BY <1>3 DEF Flying
<1>5. Flying(G, Succ(r)) = Image(g, Flying(G, r))
  <2>1. ASSUME NEW l \in G
        PROVE  LET x == Item(1 + Dist(l.seqno, r), l.msg) IN
               Item(g[x.place], x.msg) = Item(1 + Dist(l.seqno, Succ(r)), l.msg)
    BY <1>3, ItemFields
  <2>2. ASSUME NEW y \in Flying(G, Succ(r)) PROVE \E x \in Flying(G, r) : y = Item(g[x.place], x.msg)
    <3>1. PICK l \in G : l.part = 1 /\ y = Item(1 + Dist(l.seqno, Succ(r)), l.msg)
      BY DEF Flying
    <3>2. Item(1 + Dist(l.seqno, r), l.msg) \in Flying(G, r)
      BY <3>1 DEF Flying
    <3>3. QED
      BY <2>1, <3>1, <3>2
  <2>3. ASSUME NEW x \in Flying(G, r) PROVE Item(g[x.place], x.msg) \in Flying(G, Succ(r))
    <3>1. PICK l \in G : l.part = 1 /\ x = Item(1 + Dist(l.seqno, r), l.msg)
      BY DEF Flying
    <3>2. Item(1 + Dist(l.seqno, Succ(r)), l.msg) \in Flying(G, Succ(r))
      BY <3>1 DEF Flying
    <3>3. QED
      BY <2>1, <3>1, <3>2
  <2>4. QED
    BY <2>2, <2>3 DEF Image
<1>6. Flying(F, r) = Flying(G, r) \cup (IF k.part = 1 THEN {Item(1, k.msg)} ELSE {})
  <2>1. Dist(k.seqno, r) = 0
    BY Ages DEF PiecesOK
  <2>2. 1 + Dist(k.seqno, r) = 1
    BY <2>1
  <2>3. QED
    BY <2>2 DEF Flying
<1>7. QED
  BY <1>4, <1>5, <1>6 DEF Forward

(* nothing is delivered, or the first message of the sequence *)
FirstGoes(before, after) == \/ after = before
                            \/ before # <<>> /\ after = Tail(before)

(* k is received: it opens a message, or the oldest one is complete *)
LEMMA PiecesReceived ==
  ASSUME NEW A, NEW F, NEW r, NEW t, NEW s, PiecesOK(A, F, r, t, s), NEW k \in F, k.seqno = r,
         NEW B, Continues(A, B, k), k.part <= Parts(k.msg), NEW q
  PROVE  FirstGoes(InOrder(Pieces(A, F, r, s, q)),
                   InOrder(Pieces(More(k), F \ {k}, Succ(r), s, q)))
<1> PICK g : g = [n \in Nat |-> IF n \in 1..SeqnoMod THEN n - 1 ELSE n]
  OBVIOUS
<1> DEFINE G == F \ {k}
           S == Pieces(A, F, r, s, q)
           T == Pieces(More(k), G, Succ(r), s, q)
           W == Waiting(s, q)
           L == Flying(G, r)
<1>1. SeqnoMod \in Nat /\ SeqnoMod > 1 /\ k.part \in {1, 2} /\ Parts(k.msg) \in {1, 2} /\ k.msg \in Msg
  <2>1. SeqnoMod \in Nat /\ SeqnoMod > 1
    BY Constants
  <2>2. k \in Packets /\ k.msg \in Msg
    BY FlyingPlaces DEF PiecesOK
  <2>3. QED
    BY <2>1, <2>2, PartsTypes
<1>2. g \in [Nat -> Nat]
  BY <1>1
<1>3. /\ \A x \in L : x.place \in Nat /\ x.place > 1
      /\ Flying(G, Succ(r)) = Image(g, L)
      /\ Flying(F, r) = L \cup (IF k.part = 1 THEN {Item(1, k.msg)} ELSE {})
  BY FlyingShift DEF Forward
<1>4. /\ \A x \in W : x.place \in Nat /\ x.place > SeqnoMod
      /\ \A x \in W : g[x.place] = x.place /\ Item(x.place, x.msg) = x
  <2>1. \A x \in W : x.place \in Nat /\ x.place > SeqnoMod
    BY Places
  <2>2. \A x \in W : Item(x.place, x.msg) = x
    BY ItemFields DEF Waiting
  <2>3. QED
    BY <1>1, <2>1, <2>2
<1>5. IsItems(S)
  BY PiecesItems
<1>6. \A n, m \in Nat : n > 0 /\ m > 0 /\ n < m => g[n] < g[m]
  BY <1>1
<1>7. ASSUME NEW X, X \subseteq L \cup W \cup {Item(1, k.msg)}
      PROVE  Keeps(g, X)
  <2>1. \A x \in X : x.place \in Nat /\ x.place > 0
    <3> TAKE x \in X
    <3>1. x \in L => x.place \in Nat /\ x.place > 0
      BY <1>3
    <3>2. x \in W => x.place \in Nat /\ x.place > 0
      BY <1>1, <1>4
    <3>3. x = Item(1, k.msg) => x.place = 1
      BY ItemFields
    <3>4. QED
      BY <1>7, <3>1, <3>2, <3>3
  <2>2. QED
    BY <1>6, <2>1 DEF Keeps
<1>8. Image(g, L \cup W) = Flying(G, Succ(r)) \cup W
  <2>1. Image(g, W) = W
    BY <1>4, ImageSame
  <2>2. Image(g, L \cup W) = Image(g, L) \cup Image(g, W)
    BY ImageUnion
  <2>3. QED
    BY <1>3, <2>1, <2>2
<1>9. CASE k.part < Parts(k.msg)
  <2>1. k.part = 1 /\ More(k) = {k.msg}
    BY <1>1, <1>9 DEF More
  <2>2. A = {}
    BY <2>1 DEF Continues
  <2> DEFINE z == Item(1, k.msg)
  <2>3. S = L \cup W \cup {z}
    BY <1>3, <2>1, <2>2 DEF Pieces, Current
  <2>4. T = {Item(0, k.msg)} \cup Flying(G, Succ(r)) \cup W
    BY <2>1 DEF Pieces, Current
  <2>5. Item(g[z.place], z.msg) = Item(0, k.msg)
    <3>1. z.place = 1 /\ z.msg = k.msg
      BY ItemFields
    <3>2. 1 \in Nat /\ 1 \in 1..SeqnoMod
      BY <1>1
    <3>3. g[1] = 0
      BY <3>2
    <3> HIDE DEF z
    <3>4. QED
      BY <3>1, <3>3
  <2> HIDE DEF S, T, L, W, z
  <2>6. T = Image(g, S)
    <3>1. Image(g, S) = Image(g, L \cup W) \cup Image(g, {z})
      BY <2>3, ImageUnion
    <3>2. Image(g, {z}) = {Item(0, k.msg)}
      BY <2>5 DEF Image
    <3>3. QED
      BY <1>8, <2>4, <3>1, <3>2
  <2>7. Keeps(g, S)
    BY <1>7, <2>3 DEF z
  <2>8. InOrder(T) = InOrder(S)
    BY <1>2, <1>5, <2>6, <2>7, Moved
  <2>9. QED
    BY <2>8 DEF FirstGoes, S, T, G
<1>10. CASE ~(k.part < Parts(k.msg))
  <2> DEFINE z == IF k.part = 1 THEN Item(1, k.msg) ELSE Item(0, k.msg)
  <2>1. S = L \cup W \cup {z} /\ z.place \in {0, 1}
    <3>1. CASE k.part = 1
      <4>1. A = {}
        BY <3>1 DEF Continues
      <4>2. QED
        BY <1>3, <3>1, <4>1, ItemFields DEF Pieces, Current
    <3>2. CASE k.part = 2
      <4>1. A = {k.msg}
        BY <3>2 DEF Continues
      <4>2. QED
        BY <1>3, <3>2, <4>1, ItemFields DEF Pieces, Current
    <3>3. QED
      BY <1>1, <3>1, <3>2
  <2>2. T = Flying(G, Succ(r)) \cup W
    BY <1>10 DEF More, Pieces, Current
  <2> HIDE DEF S, T, L, W, z
  <2>3. z \notin L \cup W
    <3>1. \A x \in L \cup W : x.place \in Nat /\ x.place > 1
      BY <1>1, <1>3, <1>4
    <3>2. QED
      BY <2>1, <3>1
  <2>4. z \in S /\ S \ {z} = L \cup W
    BY <2>1, <2>3
  <2>5. \A x \in S : z.place <= x.place
    BY <1>1, <1>3, <1>4, <2>1
  <2>6. /\ IsItems(S \ {z})
        /\ InOrder(S) # <<>> /\ InOrder(S \ {z}) = Tail(InOrder(S))
    BY ONLY <1>5, <2>4, <2>5, DropFirst
  <2>7. T = Image(g, S \ {z})
    BY <1>8, <2>2, <2>4
  <2>8. Keeps(g, S \ {z})
    BY <1>7, <2>4
  <2>9. InOrder(T) = InOrder(S \ {z})
    BY <1>2, <2>6, <2>7, <2>8, Moved
  <2>10. QED
    BY <2>6, <2>9 DEF FirstGoes, S, T, G
<1>11. QED
  BY <1>9, <1>10

-----------------------------------------------------------------------------
(***************************************************************************)
(* The invariant.                                                          *)
(***************************************************************************)
TypeInv ==
  /\ pc \in [Proc -> {"out", "start", "send", "all"}]
  /\ sendq \in [Proc -> Seq(Entry)]
  /\ fbox \in [Proc -> [Proc -> Packets \cup {None}]]
  /\ arriving \in [Proc -> Seq(Packets)] /\ ready \in [Proc -> Seq(Packets)]
  /\ free \in [Proc -> Nat] /\ returning \in [Proc -> Nat]
  /\ send_seqno \in [Proc -> [Proc -> Seqno]] /\ recv_seqno \in [Proc -> [Proc -> Seqno]]
  /\ recv_active \in [Proc -> [Proc -> Packets \cup {None}]]
  /\ all_poll \in [Proc -> Proc] /\ tosend \in [Proc -> Nat]

InQueue(q) == ready[q] \o arriving[q]
Box(p, q) == {fbox[p][q]} \ {None}
Half(p, q) == {k.msg : k \in {recv_active[q][p]} \ {None}}

(* every cell of p is in one place *)
CellInv(p) == /\ IsFiniteSet(CellsInQueues(p))
              /\ free[p] + returning[p] + Cardinality(CellsInQueues(p)) = Cells

PairInv(p, q) ==
  /\ Stream(InFlight(p, q), Box(p, q), recv_seqno[q][p], send_seqno[p][q], Half(p, q),
            Rest(sendq[p], q))
  /\ \A k \in InCells(p, q), l \in Box(p, q) : k.seqno # l.seqno
  /\ \A l \in Box(p, q) : l.src = p
  /\ recv_active[q][p] # None => recv_active[q][p].part = 1

ChanInv == /\ TypeInv
           /\ \A p \in Proc : SendqOK(sendq[p]) /\ Distinct(InQueue(p)) /\ CellInv(p)
           /\ \A p, q \in Proc : PairInv(p, q)

LEMMA PacketNotNone == \A k \in Packets : k # None
BY DEF Packets, None

LEMMA InFlightTypes ==
  ASSUME TypeInv, NEW p \in Proc, NEW q \in Proc
  PROVE  /\ InQueue(q) \in Seq(Packets) /\ InCells(p, q) = From(InQueue(q), p)
         /\ InCells(p, q) \in SUBSET Packets /\ Box(p, q) \in SUBSET Packets
         /\ InFlight(p, q) = InCells(p, q) \cup Box(p, q)
         /\ InFlight(p, q) \in SUBSET Packets
         /\ recv_seqno[q][p] \in Seqno /\ send_seqno[p][q] \in Seqno
<1>1. ready[q] \in Seq(Packets) /\ arriving[q] \in Seq(Packets)
  BY DEF TypeInv
<1>2. InQueue(q) \in Seq(Packets)
  BY <1>1 DEF InQueue
<1>3. ToSet(InQueue(q)) \subseteq Packets
  BY <1>2 DEF ToSet
<1>4. QED
  BY <1>2, <1>3 DEF TypeInv, From, InCells, InQueue, InFlight, Box

(***************************************************************************)
(* The numbers in use fit into the cells and one fastbox.                  *)
(***************************************************************************)
LEMMA FewInFlight ==
  ASSUME ChanInv, NEW p \in Proc, NEW q \in Proc, NEW n, n = Dist(send_seqno[p][q], recv_seqno[q][p])
  PROVE  /\ IsFiniteSet(InFlight(p, q))
         /\ n <= Cardinality(CellsInQueues(p)) + (IF fbox[p][q] = None THEN 0 ELSE 1)
<1> DEFINE F == InFlight(p, q)
           C == InCells(p, q)
           D == CellsInQueues(p)
           r == recv_seqno[q][p]
<1>1. TypeInv /\ PairInv(p, q) /\ CellInv(p)
  BY DEF ChanInv
<1>2. IsFiniteSet(D) /\ n \in Nat /\ C \subseteq Packets /\ F \subseteq Packets /\ r \in Seqno
  BY <1>1, InFlightTypes, Ages DEF CellInv
<1>3. IsFiniteSet(C) /\ Cardinality(C) <= Cardinality(D)
  <2> DEFINE f == [k \in C |-> <<q, k>>]
  <2>1. \A k \in C : f[k] \in D
    BY DEF CellsInQueues
  <2>2. f \in Injection(C, D)
    BY <2>1 DEF Injection, IsInjective
  <2>3. QED
    BY <1>2, <2>2, FS_Injection
<1>4. IsFiniteSet(F) /\ Cardinality(F) <= Cardinality(C) + (IF fbox[p][q] = None THEN 0 ELSE 1)
  <2>1. CASE fbox[p][q] = None
    <3>1. F = C
      BY <2>1 DEF InFlight
    <3>2. QED
      BY <1>3, <2>1, <3>1, FS_CardinalityType
  <2>2. CASE fbox[p][q] # None
    <3>1. F = C \cup {fbox[p][q]}
      BY <2>2 DEF InFlight
    <3> HIDE DEF F, C
    <3>2. IsFiniteSet(F) /\ (Cardinality(F) = Cardinality(C) \/ Cardinality(F) = Cardinality(C) + 1)
      BY <1>3, <3>1, FS_AddElement
    <3>3. Cardinality(C) \in Nat
      BY <1>3, FS_CardinalityType
    <3>4. QED
      BY <2>2, <3>2, <3>3
  <2>3. QED
    BY <2>1, <2>2
<1>5. n <= Cardinality(F)
  <2> DEFINE S == 0..(n - 1)
             g == [a \in S |-> CHOOSE k \in F : Dist(k.seqno, r) = a]
  <2>1. \A a \in S : \E k \in F : Dist(k.seqno, r) = a
    BY <1>1 DEF PairInv, Stream, Numbered
  <2>2. \A a \in S : g[a] \in F /\ Dist(g[a].seqno, r) = a
    BY <2>1
  <2> HIDE DEF g
  <2>3. g \in [S -> F]
    BY <2>2 DEF g
  <2>4. g \in Injection(S, F)
    BY <2>2, <2>3 DEF Injection, IsInjective
  <2>5. Cardinality(S) = n
    BY <1>2, FS_Interval
  <2> HIDE DEF S
  <2>6. QED
    BY <1>4, <2>4, <2>5, FS_Injection
<1>6. QED
  BY <1>2, <1>3, <1>4, <1>5, FS_CardinalityType

-----------------------------------------------------------------------------
(***************************************************************************)
(* What a step leaves alone.                                               *)
(***************************************************************************)
LEMMA SamePair ==
  ASSUME NEW p \in Proc, NEW q \in Proc, PairInv(p, q), UNCHANGED InCells(p, q),
         UNCHANGED <<fbox[p][q], recv_seqno[q][p], send_seqno[p][q], recv_active[q][p]>>,
         UNCHANGED Rest(sendq[p], q)
  PROVE  PairInv(p, q)'
<1>1. UNCHANGED <<InFlight(p, q), Box(p, q), Half(p, q)>>
  BY DEF InFlight, Box, Half
<1>2. QED
  BY <1>1 DEF PairInv

LEMMA SameCells ==
  ASSUME NEW p \in Proc, CellInv(p), \A q \in Proc : UNCHANGED InCells(p, q),
         (free[p] + returning[p])' = free[p] + returning[p]
  PROVE  CellInv(p)'
<1>1. CellsInQueues(p)' = CellsInQueues(p)
  BY DEF CellsInQueues
<1>2. QED
  BY <1>1 DEF CellInv

LEMMA CellAdded ==
  ASSUME TypeInv, NEW p \in Proc, CellInv(p), NEW d \in Proc, NEW k, k \notin InCells(p, d),
         \A q \in Proc : InCells(p, q)' = InCells(p, q) \cup (IF q = d THEN {k} ELSE {}),
         (free[p] + returning[p])' = free[p] + returning[p] - 1
  PROVE  CellInv(p)'
<1> DEFINE S == CellsInQueues(p)
           x == <<d, k>>
<1>1. S' = S \cup {x}
  BY DEF CellsInQueues
<1>2. x \notin S
  BY DEF CellsInQueues
<1>3. /\ free[p] \in Nat /\ returning[p] \in Nat /\ free[p] + returning[p] \in Nat
      /\ Cardinality(S) \in Nat /\ IsFiniteSet(S)
  <2>1. IsFiniteSet(S) /\ free[p] \in Nat /\ returning[p] \in Nat
    BY DEF TypeInv, CellInv
  <2>2. QED
    BY <2>1, FS_CardinalityType
<1> HIDE DEF x
<1>4. IsFiniteSet(S') /\ Cardinality(S') = Cardinality(S) + 1
  BY <1>1, <1>2, <1>3, FS_AddElement
<1>5. (free[p] + returning[p])' + Cardinality(S)' = Cells
  <2>1. free[p] + returning[p] + Cardinality(S) = Cells
    BY DEF CellInv
  <2>2. (free[p] + returning[p])' = free[p] + returning[p] - 1
    OBVIOUS
  <2>3. QED
    BY ONLY <1>3, <1>4, <2>1, <2>2
<1>6. QED
  BY <1>4, <1>5 DEF CellInv

LEMMA CellRemoved ==
  ASSUME TypeInv, NEW p \in Proc, CellInv(p), NEW d \in Proc, NEW k \in InCells(p, d),
         \A q \in Proc : InCells(p, q)' = InCells(p, q) \ (IF q = d THEN {k} ELSE {}),
         (free[p] + returning[p])' = free[p] + returning[p] + 1
  PROVE  CellInv(p)'
<1> DEFINE S == CellsInQueues(p)
           x == <<d, k>>
<1>1. S' = S \ {x}
  BY DEF CellsInQueues
<1>2. x \in S
  BY DEF CellsInQueues
<1>3. /\ free[p] \in Nat /\ returning[p] \in Nat /\ free[p] + returning[p] \in Nat
      /\ Cardinality(S) \in Nat /\ IsFiniteSet(S)
  <2>1. IsFiniteSet(S) /\ free[p] \in Nat /\ returning[p] \in Nat
    BY DEF TypeInv, CellInv
  <2>2. QED
    BY <2>1, FS_CardinalityType
<1> HIDE DEF x
<1>4. IsFiniteSet(S') /\ Cardinality(S') = Cardinality(S) - 1
  BY <1>1, <1>2, <1>3, FS_RemoveElement
<1>5. (free[p] + returning[p])' + Cardinality(S)' = Cells
  BY <1>3, <1>4 DEF CellInv
<1>6. QED
  BY <1>4, <1>5 DEF CellInv

(***************************************************************************)
(* The messages that each process has not got, and what a step does to     *)
(* them.                                                                   *)
(***************************************************************************)
LEMMA UndeliveredPieces ==
  ASSUME NEW p \in Proc, NEW q \in Proc
  PROVE  /\ Undelivered(p, q) =
              Pieces(Half(p, q), InFlight(p, q), recv_seqno[q][p], sendq[p], q)
         /\ Undelivered(p, q)' =
              Pieces(Half(p, q)', InFlight(p, q)', recv_seqno'[q][p], sendq'[p], q)
<1>1. /\ {Item(0, k.msg) : k \in {recv_active[q][p]} \ {None}} = Current(Half(p, q))
      /\ {Item(0, k.msg) : k \in {recv_active'[q][p]} \ {None}} = Current(Half(p, q)')
  BY DEF Current, Half
<1>2. \A k : Age(p, q, k) = Dist(k.seqno, recv_seqno[q][p])
             /\ Age(p, q, k)' = Dist(k.seqno, recv_seqno'[q][p])
  BY DEF Age, Dist
<1>3. /\ {Item(1 + Age(p, q, k), k.msg) : k \in {j \in InFlight(p, q) : j.part = 1}} =
            Flying(InFlight(p, q), recv_seqno[q][p])
      /\ {Item(1 + Age(p, q, k)', k.msg) : k \in {j \in InFlight(p, q)' : j.part = 1}} =
            Flying(InFlight(p, q)', recv_seqno'[q][p])
  BY <1>2 DEF Flying
<1>4. QED
  BY <1>1, <1>3 DEF Undelivered, Pieces, Waiting

LEMMA PiecesNow ==
  ASSUME ChanInv, NEW p \in Proc, NEW q \in Proc
  PROVE  PiecesOK(Half(p, q), InFlight(p, q), recv_seqno[q][p], send_seqno[p][q], sendq[p])
<1>1. TypeInv /\ PairInv(p, q)
  BY DEF ChanInv
<1>2. /\ InFlight(p, q) \in SUBSET Packets
      /\ recv_seqno[q][p] \in Seqno /\ send_seqno[p][q] \in Seqno
  BY <1>1, InFlightTypes
<1>3. IsFiniteSet(InFlight(p, q))
  BY FewInFlight
<1>4. Half(p, q) \in SUBSET Msg /\ \A m, n \in Half(p, q) : m = n
  <2>1. recv_active[q][p] \in Packets \cup {None}
    BY <1>1 DEF TypeInv
  <2>2. QED
    BY <2>1 DEF Half, Packets
<1>5. Numbered(InFlight(p, q), recv_seqno[q][p], send_seqno[p][q])
  BY <1>1 DEF PairInv, Stream
<1>6. sendq[p] \in Seq(Entry)
  BY <1>1 DEF TypeInv
<1>7. QED
  BY <1>2, <1>3, <1>4, <1>5, <1>6 DEF PiecesOK

Rests(p, q) == UNCHANGED InOrder(Undelivered(p, q))
NothingMoves == \A p, q \in Proc : Rests(p, q)

Grows(p, q) == \E m \in Msg : InOrder(Undelivered(p, q))' = Append(InOrder(Undelivered(p, q)), m)
Shrinks(p, q) == /\ InOrder(Undelivered(p, q)) # <<>>
                 /\ InOrder(Undelivered(p, q))' = Tail(InOrder(Undelivered(p, q)))
OneMoves(p, q) == /\ \A x, y \in Proc : ~(x = p /\ y = q) => Rests(x, y)
                  /\ Grows(p, q) \/ Shrinks(p, q) \/ Rests(p, q)

LEMMA SameUndelivered ==
  ASSUME NEW p \in Proc, NEW q \in Proc, UNCHANGED InFlight(p, q), sendq'[p] = sendq[p],
         UNCHANGED <<recv_seqno[q][p], recv_active[q][p]>>
  PROVE  Rests(p, q)
<1>1. UNCHANGED Half(p, q)
  BY DEF Half
<1>2. Undelivered(p, q)' = Undelivered(p, q)
  BY <1>1, UndeliveredPieces
<1>3. QED
  BY <1>2 DEF Rests, InOrder, Before

(***************************************************************************)
(* A step that touches neither the packets in flight nor their numbers.    *)
(***************************************************************************)
LEMMA QuietStep ==
  ASSUME ChanInv, TypeInv', \A q \in Proc : UNCHANGED InQueue(q),
         UNCHANGED <<fbox, send_seqno, recv_seqno, recv_active>>,
         \A p \in Proc : (free[p] + returning[p])' = free[p] + returning[p],
         \A p \in Proc : SendqOK(sendq[p])' /\ \A q \in Proc : UNCHANGED Rest(sendq[p], q)
  PROVE  ChanInv'
<1>1. \A p, q \in Proc : UNCHANGED InCells(p, q)
  BY DEF InCells, InQueue
<1>2. ASSUME NEW p \in Proc, NEW q \in Proc PROVE PairInv(p, q)'
  <2>1. PairInv(p, q) /\ UNCHANGED InCells(p, q) /\ UNCHANGED Rest(sendq[p], q)
    BY <1>1 DEF ChanInv
  <2>2. UNCHANGED <<fbox[p][q], recv_seqno[q][p], send_seqno[p][q], recv_active[q][p]>>
    OBVIOUS
  <2>3. QED
    BY <2>1, <2>2, SamePair
<1>3. ASSUME NEW p \in Proc PROVE CellInv(p)' /\ Distinct(InQueue(p))' /\ SendqOK(sendq[p])'
  <2>1. CellInv(p) /\ Distinct(InQueue(p))
    BY DEF ChanInv
  <2>2. CellInv(p)'
    BY <1>1, <2>1, SameCells
  <2>3. Distinct(InQueue(p))'
    BY <2>1 DEF Distinct
  <2>4. QED
    BY <2>2, <2>3
<1>4. QED
  BY <1>2, <1>3 DEF ChanInv

(* the cells of every receive queue stay the same *)
LEMMA QueueStep ==
  ASSUME ChanInv, TypeInv', \A q \in Proc : UNCHANGED InQueue(q),
         UNCHANGED <<sendq, fbox, send_seqno, recv_seqno, recv_active>>,
         \A p \in Proc : (free[p] + returning[p])' = free[p] + returning[p]
  PROVE  ChanInv' /\ NothingMoves
<1>1. \A p \in Proc : SendqOK(sendq[p])' /\ \A q \in Proc : UNCHANGED Rest(sendq[p], q)
  BY DEF ChanInv
<1>2. \A p, q \in Proc : UNCHANGED <<InFlight(p, q), recv_seqno[q][p], recv_active[q][p]>>
  BY DEF InFlight, InCells, InQueue
<1>3. NothingMoves
  BY <1>2, SameUndelivered DEF NothingMoves
<1>4. QED
  BY <1>1, <1>3, QuietStep

LEMMA iStartMsgStep ==
  ASSUME ChanInv, NEW p \in Proc, NEW q \in Proc, NEW m \in Msg, iStartMsg(p, q, m)
  PROVE  ChanInv' /\ OneMoves(p, q)
<1> DEFINE e == [dst |-> q, msg |-> m, part |-> 1]
<1>1. TypeInv /\ sendq[p] \in Seq(Entry) /\ SendqOK(sendq[p]) /\ e \in Entry /\ e.part = 1
  <2>1. TypeInv /\ SendqOK(sendq[p])
    BY DEF ChanInv
  <2>2. e \in Entry /\ e.part = 1
    BY DEF Entry
  <2>3. sendq[p] \in Seq(Entry)
    BY <2>1 DEF TypeInv
  <2>4. QED
    BY <2>1, <2>2, <2>3
<1>2. \A r \in Proc : sendq'[r] = IF r = p THEN Append(sendq[p], e) ELSE sendq[r]
  BY <1>1 DEF iStartMsg, TypeInv
<1>3. /\ Append(sendq[p], e) \in Seq(Entry) /\ SendqOK(Append(sendq[p], e))
      /\ \A d : Rest(Append(sendq[p], e), d) = Rest(sendq[p], d)
  BY <1>1, SendqAppend
<1> HIDE DEF e
<1>4. ASSUME NEW r \in Proc
      PROVE  SendqOK(sendq[r])' /\ \A d \in Proc : UNCHANGED Rest(sendq[r], d)
  <2>1. SendqOK(sendq[r])
    BY DEF ChanInv
  <2>2. CASE r = p
    BY <1>2, <1>3, <2>2
  <2>3. CASE r # p
    <3>1. sendq'[r] = sendq[r]
      BY <1>2, <2>3
    <3>2. QED
      BY <2>1, <3>1
  <2>4. QED
    BY <2>2, <2>3
<1>5. TypeInv'
  <2>1. sendq' \in [Proc -> Seq(Entry)]
    BY <1>1, <1>2, <1>3 DEF iStartMsg, TypeInv
  <2>2. pc' \in [Proc -> {"out", "start", "send", "all"}]
    BY <1>1 DEF iStartMsg, TypeInv, Goto
  <2>3. tosend' \in [Proc -> Nat]
    BY <1>1, SMTT(30) DEF iStartMsg, TypeInv
  <2>4. QED
    BY <1>1, <2>1, <2>2, <2>3 DEF iStartMsg, TypeInv, queues
<1>6. UNCHANGED <<fbox, send_seqno, recv_seqno, recv_active, free, returning, ready, arriving>>
  BY DEF iStartMsg, queues
<1>7. \A r \in Proc : UNCHANGED InQueue(r) /\ (free[r] + returning[r])' = free[r] + returning[r]
  BY <1>6 DEF InQueue
<1>8. ChanInv'
  BY <1>4, <1>5, <1>6, <1>7, QuietStep
<1>9. \A x, y \in Proc : UNCHANGED <<InFlight(x, y), recv_seqno[y][x], recv_active[y][x]>>
  BY <1>6 DEF InFlight, InCells
<1>10. \A x, y \in Proc : x # p => Rests(x, y)
  BY <1>2, <1>9, SameUndelivered
<1>11. ASSUME NEW y \in Proc
       PROVE  (y # q => Rests(p, y)) /\ (y = q => Grows(p, q))
  <2> DEFINE A == Half(p, y)
             F == InFlight(p, y)
             r == recv_seqno[y][p]
             t == send_seqno[p][y]
             s == sendq[p]
             U == Undelivered(p, y)
  <2>1. PiecesOK(A, F, r, t, s) /\ U = Pieces(A, F, r, s, y)
    BY PiecesNow, UndeliveredPieces
  <2>2. Undelivered(p, y)' = Pieces(A, F, r, Append(s, e), y)
    <3>1. UNCHANGED Half(p, y)
      BY <1>9 DEF Half
    <3>2. Undelivered(p, y)' = Pieces(Half(p, y)', InFlight(p, y)', recv_seqno'[y][p], sendq'[p], y)
      BY UndeliveredPieces
    <3>3. QED
      BY <1>2, <1>9, <3>1, <3>2
  <2> HIDE DEF A, F, r, t, s
  <2>3. /\ y # e.dst => Pieces(A, F, r, Append(s, e), y) = Pieces(A, F, r, s, y)
        /\ y = e.dst => InOrder(Pieces(A, F, r, Append(s, e), y)) =
                          Append(InOrder(Pieces(A, F, r, s, y)), e.msg)
    BY ONLY <1>1, <2>1, PiecesStarted
  <2>4. e.dst = q /\ e.msg = m
    BY DEF e
  <2> HIDE DEF U
  <2>5. y # q => Undelivered(p, y)' = U
    BY <2>1, <2>2, <2>3, <2>4
  <2>6. y = q => InOrder(Undelivered(p, y)') = Append(InOrder(U), m)
    BY <2>1, <2>2, <2>3, <2>4
  <2>7. InOrder(Undelivered(p, y))' = InOrder(Undelivered(p, y)')
    BY DEF InOrder, Before
  <2>8. QED
    BY <2>5, <2>6, <2>7 DEF Rests, Grows, U
<1>12. QED
  BY <1>8, <1>10, <1>11 DEF OneMoves

-----------------------------------------------------------------------------
(***************************************************************************)
(* Sending.                                                                *)
(***************************************************************************)
LEMMA SetEntry ==
  ASSUME NEW S, NEW T \in [Proc -> [Proc -> S]], NEW p \in Proc, NEW q \in Proc, NEW v \in S
  PROVE  /\ Set(T, p, q, v) \in [Proc -> [Proc -> S]]
         /\ \A x, y \in Proc : Set(T, p, q, v)[x][y] = IF x = p /\ y = q THEN v ELSE T[x][y]
BY DEF Set

LEMMA BumpEntry ==
  ASSUME NEW T \in [Proc -> [Proc -> Seqno]], NEW p \in Proc, NEW q \in Proc
  PROVE  /\ Bump(T, p, q) \in [Proc -> [Proc -> Seqno]]
         /\ \A x, y \in Proc :
              Bump(T, p, q)[x][y] = IF x = p /\ y = q THEN Succ(T[p][q]) ELSE T[x][y]
<1>1. Succ(T[p][q]) \in Seqno
  BY Ages
<1>2. Bump(T, p, q) = Set(T, p, q, Succ(T[p][q]))
  BY DEF Bump, Succ
<1>3. QED
  BY <1>1, <1>2 DEF Set

(* the entry at the head of the send queue, and its packet *)
LEMMA HeadFacts ==
  ASSUME ChanInv, NEW p \in Proc, NEW e, Sending(p, e)
  PROVE  /\ e \in Entry /\ e.dst \in Proc /\ e.part \in {1, 2} /\ e.part <= Parts(e.msg)
         /\ sendq[p] \in Seq(Entry) /\ sendq[p] # <<>> /\ e = Head(sendq[p]) /\ SendqOK(sendq[p])
         /\ \A q : Rest(sendq[p], q) = IF e.part = 2 /\ e.dst = q THEN {e.msg} ELSE {}
         /\ Tail(sendq[p]) \in Seq(Entry) /\ SendqOK(Tail(sendq[p]))
         /\ \A q : Rest(Tail(sendq[p]), q) = {}
         /\ Packet(p, e) \in Packets /\ Packet(p, e).src = p
         /\ Packet(p, e).seqno = send_seqno[p][e.dst]
         /\ Packet(p, e).part = e.part /\ Packet(p, e).msg = e.msg
<1>1. sendq[p] \in Seq(Entry) /\ SendqOK(sendq[p])
  BY DEF ChanInv, TypeInv
<1>2. sendq[p] # <<>> /\ e = Head(sendq[p])
  BY DEF Sending
<1>3. e \in Entry /\ e.part <= Parts(e.msg)
  BY <1>1, <1>2, SendqHead
<1>4. /\ \A q : Rest(sendq[p], q) = IF e.part = 2 /\ e.dst = q THEN {e.msg} ELSE {}
      /\ Tail(sendq[p]) \in Seq(Entry) /\ SendqOK(Tail(sendq[p]))
      /\ \A q : Rest(Tail(sendq[p]), q) = {}
  BY <1>1, <1>2, SendqHead
<1>5. e.dst \in Proc /\ e.part \in 1..2 /\ e.msg \in Msg
  BY <1>3 DEF Entry
<1>6. send_seqno[p][e.dst] \in 0..(SeqnoMod - 1)
  <2>1. send_seqno \in [Proc -> [Proc -> Seqno]]
    BY DEF ChanInv, TypeInv
  <2>2. send_seqno[p] \in [Proc -> Seqno]
    BY ONLY <2>1, p \in Proc
  <2>3. send_seqno[p][e.dst] \in Seqno
    BY ONLY <1>5, <2>2
  <2>4. QED
    BY ONLY <2>3 DEF Seqno
<1>7. Packet(p, e) \in Packets
  BY <1>5, <1>6 DEF Packet, Packets
<1>8. /\ Packet(p, e).src = p /\ Packet(p, e).seqno = send_seqno[p][e.dst]
      /\ Packet(p, e).part = e.part /\ Packet(p, e).msg = e.msg
  BY DEF Packet
<1>9. e.part \in {1, 2}
  BY <1>5
<1>10. QED
  BY <1>1, <1>2, <1>3, <1>4, <1>5, <1>7, <1>8, <1>9, Zenon

LEMMA HeadRest ==
  ASSUME ChanInv, NEW p \in Proc, NEW e, Sending(p, e), NEW q
  PROVE  /\ q # e.dst => Rest(sendq[p], q) = {}
         /\ e.part = 1 => Rest(sendq[p], q) = {}
         /\ e.part = 2 => Rest(sendq[p], e.dst) = {e.msg}
<1>1. sendq[p] \in Seq(Entry) /\ SendqOK(sendq[p])
  BY DEF ChanInv, TypeInv
<1>2. sendq[p] # <<>> /\ e = Head(sendq[p])
  BY DEF Sending
<1>3. QED
  BY <1>1, <1>2, SendqHead

LEMMA SentStream ==
  ASSUME ChanInv, NEW p \in Proc, NEW e, Sending(p, e),
         fbox[p][e.dst] = None \/ free[p] > 0,
         NEW C, \/ C = Box(p, e.dst)
                \/ C = {Packet(p, e)} /\ Parts(e.msg) = 1
  PROVE  /\ \A l \in InFlight(p, e.dst) : l.seqno # send_seqno[p][e.dst]
         /\ Stream(InFlight(p, e.dst) \cup {Packet(p, e)}, C, recv_seqno[e.dst][p],
                   Succ(send_seqno[p][e.dst]), Half(p, e.dst), More(Packet(p, e)))
<1> DEFINE d == e.dst
           k == Packet(p, e)
           r == recv_seqno[d][p]
           t == send_seqno[p][d]
           F == InFlight(p, d)
           B == Box(p, d)
           A == Half(p, d)
           H == Rest(sendq[p], d)
<1>1. /\ d \in Proc /\ k \in Packets /\ k.seqno = t /\ k.part = e.part /\ k.msg = e.msg
      /\ k.part \in {1, 2} /\ H = IF e.part = 2 THEN {e.msg} ELSE {}
  <2>1. /\ d \in Proc /\ k \in Packets /\ k.seqno = t /\ k.part = e.part /\ k.msg = e.msg
        /\ e.part \in {1, 2}
    BY HeadFacts, Zenon
  <2>2. /\ e.part = 1 => H = {}
        /\ e.part = 2 => H = {e.msg}
    BY HeadRest
  <2>3. QED
    BY ONLY <2>1, <2>2
<1>2. TypeInv /\ PairInv(p, d) /\ CellInv(p)
  BY <1>1 DEF ChanInv
<1>3. F \in SUBSET Packets /\ r \in Seqno /\ t \in Seqno
  BY <1>1, <1>2, InFlightTypes
<1>4. Dist(t, r) < SeqnoMod - 1
  <2> DEFINE c == Cardinality(CellsInQueues(p))
  <2>1. Dist(t, r) \in Nat /\ c \in Nat /\ free[p] \in Nat /\ returning[p] \in Nat
    BY <1>2, <1>3, Ages, FS_CardinalityType DEF CellInv, TypeInv
  <2>2. Dist(t, r) <= c + (IF fbox[p][d] = None THEN 0 ELSE 1)
    BY <1>1, FewInFlight
  <2>3. free[p] + returning[p] + c = Cells
    BY <1>2 DEF CellInv
  <2>4. SeqnoMod \in Nat /\ Cells \in Nat /\ SeqnoMod > Cells + 1
    BY Constants
  <2>5. fbox[p][d] = None \/ free[p] > 0
    OBVIOUS
  <2> HIDE DEF c
  <2>6. QED
    BY ONLY <2>1, <2>2, <2>3, <2>4, <2>5
<1>5. Stream(F, B, r, t, A, H)
  BY <1>2 DEF PairInv
<1>6. Follows(F, B, r, t, H, k, C)
  <2>1. \/ k.part = 1 /\ H = {}
        \/ k.part = 2 /\ H = {k.msg}
    BY <1>1
  <2>2. C \subseteq B \/ (C \subseteq B \cup {k} /\ Parts(k.msg) = 1)
    BY <1>1
  <2> HIDE DEF d, k, r, t, F, B, A, H
  <2>3. QED
    BY <1>1, <1>3, <1>4, <2>1, <2>2 DEF Follows
<1> HIDE DEF d, k, r, t, F, B, A, H
<1>7. /\ \A l \in F : l.seqno # k.seqno
      /\ Stream(F \cup {k}, C, r, Succ(t), A, More(k))
  BY ONLY <1>5, <1>6, Sent
<1>8. QED
  BY <1>1, <1>7 DEF d, k, r, t, F, B, A, H

(***************************************************************************)
(* A packet has been sent, in a cell or in the fastbox.                    *)
(***************************************************************************)
HeadSent(p, e, s) ==
  /\ \A x \in Proc : x # p => s[x] = sendq[x]
  /\ SendqOK(s[p])
  /\ \A q : Rest(s[p], q) = IF q = e.dst THEN More(Packet(p, e)) ELSE {}

InFlightSent(p, e) ==
  /\ \A x, y \in Proc : ~(x = p /\ y = e.dst) => UNCHANGED <<InCells(x, y), fbox[x][y]>>
  /\ \/ /\ InCells(p, e.dst)' = InCells(p, e.dst) \cup {Packet(p, e)}
        /\ Box(p, e.dst)' = Box(p, e.dst)
     \/ /\ InCells(p, e.dst)' = InCells(p, e.dst) /\ Box(p, e.dst)' = {Packet(p, e)}
        /\ Parts(e.msg) = 1 /\ fbox[p][e.dst] = None

LEMMA SentInv ==
  ASSUME ChanInv, NEW p \in Proc, NEW e, Sending(p, e),
         fbox[p][e.dst] = None \/ free[p] > 0,
         HeadSent(p, e, sendq'), InFlightSent(p, e),
         send_seqno' = Bump(send_seqno, p, e.dst), UNCHANGED <<recv_seqno, recv_active>>
  PROVE  /\ \A x \in Proc : SendqOK(sendq'[x])
         /\ \A x, y \in Proc : PairInv(x, y)'
<1> DEFINE d == e.dst
           k == Packet(p, e)
<1>0. /\ \A x \in Proc : x # p => sendq'[x] = sendq[x]
      /\ SendqOK(sendq'[p]) /\ \A q : Rest(sendq'[p], q) = IF q = d THEN More(k) ELSE {}
      /\ \A x, y \in Proc : ~(x = p /\ y = d) => UNCHANGED <<InCells(x, y), fbox[x][y]>>
      /\ \/ InCells(p, d)' = InCells(p, d) \cup {k} /\ Box(p, d)' = Box(p, d)
         \/ /\ InCells(p, d)' = InCells(p, d) /\ Box(p, d)' = {k}
            /\ Parts(e.msg) = 1 /\ fbox[p][d] = None
  BY DEF HeadSent, InFlightSent
<1>1. /\ d \in Proc /\ k \in Packets /\ k.src = p /\ k.msg = e.msg
      /\ k.seqno = send_seqno[p][d]
  BY HeadFacts, Zenon
<1> HIDE DEF d, k
<1>2. /\ \A x, y \in Proc : send_seqno'[x][y] =
           IF x = p /\ y = d THEN Succ(send_seqno[p][d]) ELSE send_seqno[x][y]
      /\ \A x, y \in Proc : UNCHANGED <<recv_seqno[x][y], recv_active[x][y]>>
  <2>1. send_seqno \in [Proc -> [Proc -> Seqno]]
    BY DEF ChanInv, TypeInv
  <2>2. \A x, y \in Proc : Bump(send_seqno, p, d)[x][y] =
           IF x = p /\ y = d THEN Succ(send_seqno[p][d]) ELSE send_seqno[x][y]
    <3>1. p \in Proc /\ d \in Proc
      BY <1>1
    <3>2. QED
      BY ONLY <2>1, <3>1 DEF Bump, Set, Succ
  <2>3. send_seqno' = Bump(send_seqno, p, d)
    BY DEF d
  <2>4. QED
    BY <2>2, <2>3
<1>3. /\ \A l \in InFlight(p, d) : l.seqno # k.seqno
      /\ Stream(InFlight(p, d) \cup {k}, Box(p, d)', recv_seqno[d][p],
                Succ(send_seqno[p][d]), Half(p, d), More(k))
  <2>1. \/ Box(p, d)' = Box(p, e.dst)
        \/ Box(p, d)' = {Packet(p, e)} /\ Parts(e.msg) = 1
    BY <1>0 DEF d, k
  <2>2. ASSUME NEW C, \/ C = Box(p, e.dst)
                      \/ C = {Packet(p, e)} /\ Parts(e.msg) = 1
        PROVE  /\ \A l \in InFlight(p, e.dst) : l.seqno # send_seqno[p][e.dst]
               /\ Stream(InFlight(p, e.dst) \cup {Packet(p, e)}, C, recv_seqno[e.dst][p],
                         Succ(send_seqno[p][e.dst]), Half(p, e.dst), More(Packet(p, e)))
    BY <2>2, SentStream
  <2>3. QED
    BY <1>1, <2>1, <2>2 DEF d, k
<1>4. PairInv(p, d)'
  <2>1. /\ \A j \in InCells(p, d), l \in Box(p, d) : j.seqno # l.seqno
        /\ \A l \in Box(p, d) : l.src = p
        /\ recv_active[d][p] # None => recv_active[d][p].part = 1
    BY <1>1 DEF ChanInv, PairInv
  <2>2. InFlight(p, d) = InCells(p, d) \cup Box(p, d)
    BY DEF InFlight, Box
  <2>3. InFlight(p, d)' = InFlight(p, d) \cup {k}
    <3>1. InFlight(p, d)' = InCells(p, d)' \cup Box(p, d)'
      BY DEF InFlight, Box
    <3>2. fbox[p][d] = None => Box(p, d) = {}
      BY DEF Box
    <3>3. QED
      BY <1>0, <2>2, <3>1, <3>2
  <2>4. Half(p, d)' = Half(p, d) /\ Rest(sendq[p], d)' = More(k)
    BY <1>0, <1>1, <1>2 DEF Half
  <2>5. /\ Stream(InFlight(p, d), Box(p, d), recv_seqno[d][p], send_seqno[p][d], Half(p, d),
                  Rest(sendq[p], d))'
    BY <1>1, <1>2, <1>3, <2>3, <2>4
  <2>6. \A j \in InCells(p, d)', l \in Box(p, d)' : j.seqno # l.seqno
    BY <1>0, <1>3, <2>1, <2>2
  <2>7. \A l \in Box(p, d)' : l.src = p
    BY <1>0, <1>1, <2>1
  <2>8. (recv_active[d][p] # None => recv_active[d][p].part = 1)'
    BY <1>1, <1>2, <2>1
  <2>9. QED
    BY <2>5, <2>6, <2>7, <2>8 DEF PairInv
<1>5. ASSUME NEW x \in Proc, NEW y \in Proc, ~(x = p /\ y = d) PROVE PairInv(x, y)'
  <2>1. PairInv(x, y)
    BY DEF ChanInv
  <2>2. UNCHANGED InCells(x, y)
    BY <1>0, <1>5
  <2>3. UNCHANGED <<fbox[x][y], recv_seqno[y][x], send_seqno[x][y], recv_active[y][x]>>
    BY <1>0, <1>2, <1>5
  <2>4. UNCHANGED Rest(sendq[x], y)
    <3>1. CASE x = p
      <4>1. d # y => Rest(sendq[p], y) = {}
        BY HeadRest DEF d
      <4>2. Rest(sendq'[p], y) = {}
        BY <1>0, <1>5, <3>1
      <4>3. d # y
        BY <1>5, <3>1
      <4>4. QED
        BY <3>1, <4>1, <4>2, <4>3
    <3>2. CASE x # p
      BY <1>0, <3>2
    <3>3. QED
      BY <3>1, <3>2
  <2>5. QED
    BY <2>1, <2>2, <2>3, <2>4, SamePair
<1>6. ASSUME NEW x \in Proc PROVE SendqOK(sendq'[x])
  <2>1. SendqOK(sendq[x])
    BY DEF ChanInv
  <2>2. QED
    BY <1>0, <2>1
<1>7. QED
  BY <1>4, <1>5, <1>6

LEMMA SentRests ==
  ASSUME ChanInv, NEW p \in Proc, NEW e, Sending(p, e), InFlightSent(p, e),
         UNCHANGED <<recv_seqno, recv_active>>,
         \A x \in Proc : x # p => sendq'[x] = sendq[x],
         \/ sendq'[p] = Tail(sendq[p])
         \/ e.part = 1 /\ sendq'[p] = [sendq[p] EXCEPT ![1].part = @ + 1]
  PROVE  NothingMoves
<1>1. /\ sendq[p] \in Seq(Entry) /\ sendq[p] # <<>> /\ e = Head(sendq[p]) /\ SendqOK(sendq[p])
      /\ e.dst \in Proc
      /\ Packet(p, e).seqno = send_seqno[p][e.dst]
      /\ Packet(p, e).part = e.part /\ Packet(p, e).msg = e.msg
  BY HeadFacts, Zenon
<1>2. \A x, y \in Proc : InFlight(x, y)' =
        InFlight(x, y) \cup (IF x = p /\ y = e.dst THEN {Packet(p, e)} ELSE {})
  <2> TAKE x \in Proc, y \in Proc
  <2>1. /\ InFlight(x, y) = InCells(x, y) \cup Box(x, y)
        /\ InFlight(x, y)' = InCells(x, y)' \cup Box(x, y)'
    BY DEF InFlight, Box
  <2>2. CASE x = p /\ y = e.dst
    <3>1. fbox[p][e.dst] = None => Box(p, e.dst) = {}
      BY DEF Box
    <3>2. \/ /\ InCells(p, e.dst)' = InCells(p, e.dst) \cup {Packet(p, e)}
             /\ Box(p, e.dst)' = Box(p, e.dst)
          \/ /\ InCells(p, e.dst)' = InCells(p, e.dst)
             /\ Box(p, e.dst)' = {Packet(p, e)} /\ fbox[p][e.dst] = None
      BY DEF InFlightSent
    <3>3. QED
      BY <2>1, <2>2, <3>1, <3>2
  <2>3. CASE ~(x = p /\ y = e.dst)
    <3>1. UNCHANGED <<InCells(x, y), fbox[x][y]>>
      BY <2>3 DEF InFlightSent
    <3>2. Box(x, y)' = Box(x, y)
      BY <3>1 DEF Box
    <3>3. QED
      BY <2>1, <2>3, <3>1, <3>2
  <2>4. QED
    BY <2>2, <2>3
<1>3. \A x, y \in Proc : UNCHANGED <<recv_seqno[y][x], recv_active[y][x]>>
  OBVIOUS
<1>4. ASSUME NEW x \in Proc, NEW y \in Proc, x # p PROVE Rests(x, y)
  <2>1. UNCHANGED InFlight(x, y) /\ sendq'[x] = sendq[x]
    <3>1. InFlight(x, y)' = InFlight(x, y) \cup
            (IF x = p /\ y = e.dst THEN {Packet(p, e)} ELSE {})
      BY <1>2
    <3>2. QED
      BY <1>4, <3>1
  <2>2. QED
    BY <1>3, <2>1, SameUndelivered
<1>5. ASSUME NEW y \in Proc PROVE Rests(p, y)
  <2> DEFINE A == Half(p, y)
             F == InFlight(p, y)
             r == recv_seqno[y][p]
             t == send_seqno[p][y]
             s == sendq[p]
             U == Undelivered(p, y)
  <2>1. PiecesOK(A, F, r, t, s) /\ U = Pieces(A, F, r, s, y)
    BY PiecesNow, UndeliveredPieces
  <2>2. PICK u, G : /\ u = sendq'[p] /\ G = InFlight(p, y)'
    OBVIOUS
  <2>3. Undelivered(p, y)' = Pieces(A, G, r, u, y)
    <3>1. UNCHANGED Half(p, y)
      BY <1>3 DEF Half
    <3>2. Undelivered(p, y)' = Pieces(Half(p, y)', InFlight(p, y)', recv_seqno'[y][p], sendq'[p], y)
      BY UndeliveredPieces
    <3>3. QED
      BY <1>3, <2>2, <3>1, <3>2
  <2>4. PICK j : /\ j.seqno = t /\ j.part = e.part /\ j.msg = e.msg
                 /\ G = F \cup (IF y = e.dst THEN {j} ELSE {})
    <3>1. CASE y = e.dst
      BY <1>1, <1>2, <2>2, <3>1
    <3>2. CASE y # e.dst
      <4> DEFINE j == [seqno |-> t, part |-> e.part, msg |-> e.msg]
      <4>1. j.seqno = t /\ j.part = e.part /\ j.msg = e.msg
        OBVIOUS
      <4>2. G = F
        BY <1>2, <2>2, <3>2
      <4> HIDE DEF j, F, t
      <4>3. QED
        BY <3>2, <4>1, <4>2
    <3>3. QED
      BY <3>1, <3>2
  <2>5. u = Tail(s) \/ (e.part = 1 /\ u = [s EXCEPT ![1].part = @ + 1])
    BY <2>2
  <2>6. SendqOK(s) /\ s # <<>> /\ e = Head(s)
    BY <1>1
  <2> HIDE DEF A, F, r, t, s
  <2>7. InOrder(Pieces(A, G, r, u, y)) = InOrder(Pieces(A, F, r, s, y))
    BY ONLY <2>1, <2>4, <2>5, <2>6, PiecesSent
  <2> HIDE DEF U
  <2>8. InOrder(Undelivered(p, y)') = InOrder(U)
    BY <2>1, <2>3, <2>7
  <2>9. InOrder(Undelivered(p, y))' = InOrder(Undelivered(p, y)')
    BY DEF InOrder, Before
  <2>10. QED
    BY <2>8, <2>9 DEF Rests, U
<1>6. QED
  BY <1>4, <1>5 DEF NothingMoves

LEMMA SendFastboxStep ==
  ASSUME ChanInv, NEW p \in Proc, NEW e, SendFastbox(p, e)
  PROVE  ChanInv' /\ NothingMoves
<1> DEFINE d == e.dst
           k == Packet(p, e)
<1>1. TypeInv /\ Sending(p, e) /\ fbox[p][d] = None /\ Fits(p, e)
  BY DEF ChanInv, SendFastbox
<1>2. /\ d \in Proc /\ k \in Packets /\ e.part = 1 /\ Parts(e.msg) = 1
      /\ Tail(sendq[p]) \in Seq(Entry) /\ SendqOK(Tail(sendq[p]))
      /\ \A q : Rest(Tail(sendq[p]), q) = {}
      /\ k.part = e.part /\ k.msg = e.msg
  BY <1>1, HeadFacts DEF Fits
<1>3. /\ fbox' = Set(fbox, p, d, k) /\ send_seqno' = Bump(send_seqno, p, d)
      /\ UNCHANGED <<arriving, ready, free, returning, recv_seqno, recv_active, all_poll, tosend>>
      /\ sendq' = [sendq EXCEPT ![p] = Tail(@)] /\ Goto(p, "out")
  BY DEF SendFastbox, queues
<1> HIDE DEF d, k
<1>4. /\ fbox' \in [Proc -> [Proc -> Packets \cup {None}]]
      /\ \A x, y \in Proc : fbox'[x][y] = IF x = p /\ y = d THEN k ELSE fbox[x][y]
  BY <1>1, <1>2, <1>3 DEF TypeInv, Set
<1>5. /\ sendq' \in [Proc -> Seq(Entry)] /\ sendq'[p] = Tail(sendq[p])
      /\ \A x \in Proc : x # p => sendq'[x] = sendq[x]
  BY <1>1, <1>2, <1>3 DEF TypeInv
<1>6. TypeInv'
  <2>1. pc' \in [Proc -> {"out", "start", "send", "all"}]
    BY <1>1, <1>3 DEF TypeInv, Goto
  <2>2. send_seqno' \in [Proc -> [Proc -> Seqno]]
    BY <1>1, <1>2, <1>3, BumpEntry DEF TypeInv
  <2>3. QED
    BY <1>1, <1>3, <1>4, <1>5, <2>1, <2>2 DEF TypeInv
<1>7. \A x, y \in Proc : UNCHANGED <<InQueue(y), InCells(x, y)>>
  BY <1>3 DEF InQueue, InCells
<1>8. /\ \A x \in Proc : SendqOK(sendq'[x])
      /\ \A x, y \in Proc : PairInv(x, y)'
      /\ NothingMoves
  <2>1. \A q : Rest(sendq'[p], q) = IF q = d THEN More(k) ELSE {}
    <3>1. More(k) = {}
      BY <1>2 DEF More
    <3>2. QED
      BY <1>2, <1>5, <3>1
  <2>2. Box(p, d)' = {k}
    BY <1>2, <1>4, PacketNotNone DEF Box
  <2>3. \A x, y \in Proc : ~(x = p /\ y = d) => UNCHANGED <<InCells(x, y), fbox[x][y]>>
    BY <1>4, <1>7
  <2>4. InCells(p, d)' = InCells(p, d) /\ SendqOK(sendq'[p])
    BY <1>2, <1>5, <1>7
  <2>5. HeadSent(p, e, sendq')
    BY <1>5, <2>1, <2>4 DEF HeadSent, d, k
  <2>6. InFlightSent(p, e)
    BY <1>1, <1>2, <2>2, <2>3, <2>4 DEF InFlightSent, d, k
  <2>7. send_seqno' = Bump(send_seqno, p, e.dst) /\ fbox[p][e.dst] = None
    BY <1>1, <1>3 DEF d
  <2>8. UNCHANGED <<recv_seqno, recv_active>>
    BY <1>3
  <2>9. NothingMoves
    BY <1>1, <1>5, <2>6, <2>8, SentRests
  <2>10. QED
    BY <1>1, <2>5, <2>6, <2>7, <2>8, <2>9, SentInv
<1>9. ASSUME NEW x \in Proc PROVE CellInv(x)' /\ Distinct(InQueue(x))'
  <2>1. CellInv(x) /\ Distinct(InQueue(x))
    BY DEF ChanInv
  <2>2. CellInv(x)'
    BY <1>3, <1>7, <2>1, SameCells
  <2>3. QED
    BY <1>7, <2>1, <2>2
<1>10. QED
  BY <1>6, <1>8, <1>9 DEF ChanInv

LEMMA ConcatAppend ==
  ASSUME NEW s \in Seq(Packets), NEW u \in Seq(Packets), NEW k \in Packets
  PROVE  s \o Append(u, k) = Append(s \o u, k)
OBVIOUS

LEMMA SendCellStep ==
  ASSUME ChanInv, NEW p \in Proc, NEW e, SendCell(p, e)
  PROVE  ChanInv' /\ NothingMoves
<1> DEFINE d == e.dst
           k == Packet(p, e)
<1>1. TypeInv /\ Sending(p, e) /\ free[p] > 0
  BY DEF ChanInv, SendCell, UseQueue
<1>2. /\ d \in Proc /\ k \in Packets /\ k.src = p /\ k.seqno = send_seqno[p][d]
      /\ e.part \in {1, 2} /\ e.part <= Parts(e.msg) /\ k.part = e.part /\ k.msg = e.msg
  BY <1>1, HeadFacts, Zenon
<1>3. /\ Tail(sendq[p]) \in Seq(Entry) /\ SendqOK(Tail(sendq[p]))
      /\ \A q : Rest(Tail(sendq[p]), q) = {}
      /\ sendq[p] \in Seq(Entry) /\ sendq[p] # <<>> /\ e = Head(sendq[p]) /\ SendqOK(sendq[p])
  BY <1>1, HeadFacts, Zenon
<1>4. /\ free' = [free EXCEPT ![p] = @ - 1]
      /\ arriving' = [arriving EXCEPT ![d] = Append(@, k)]
      /\ send_seqno' = Bump(send_seqno, p, d)
      /\ UNCHANGED <<fbox, ready, returning, recv_seqno, recv_active, all_poll, tosend>>
      /\ \/ /\ e.part < Parts(e.msg) /\ pc' = pc
            /\ sendq' = [sendq EXCEPT ![p][1].part = @ + 1]
         \/ /\ ~(e.part < Parts(e.msg)) /\ pc' = [pc EXCEPT ![p] = "out"]
            /\ sendq' = [sendq EXCEPT ![p] = Tail(@)]
  BY DEF SendCell, Goto
<1> HIDE DEF d, k
<1>5. /\ sendq' \in [Proc -> Seq(Entry)] /\ HeadSent(p, e, sendq')
  <2>1. PICK u \in Seq(Entry) : /\ sendq' = [sendq EXCEPT ![p] = u] /\ SendqOK(u)
                                /\ \A q : Rest(u, q) = IF q = d THEN More(k) ELSE {}
    <3>1. CASE e.part < Parts(e.msg)
      <4> DEFINE u == [sendq[p] EXCEPT ![1].part = @ + 1]
      <4>1. u \in Seq(Entry) /\ SendqOK(u) /\ \A q : Rest(u, q) = IF d = q THEN {e.msg} ELSE {}
        BY <1>3, <3>1, SendqAdvance DEF d
      <4>2. sendq' = [sendq EXCEPT ![p] = u]
        BY <1>4, <3>1
      <4>3. More(k) = {e.msg}
        BY <1>2, <3>1 DEF More
      <4> HIDE DEF u
      <4>4. QED
        BY <4>1, <4>2, <4>3
    <3>2. CASE ~(e.part < Parts(e.msg))
      <4>1. sendq' = [sendq EXCEPT ![p] = Tail(sendq[p])]
        BY <1>4, <3>2
      <4>2. More(k) = {}
        BY <1>2, <3>2 DEF More
      <4>3. QED
        BY <1>3, <4>1, <4>2
    <3>3. QED
      BY <3>1, <3>2
  <2>2. sendq' \in [Proc -> Seq(Entry)] /\ sendq'[p] = u /\ \A x \in Proc : x # p => sendq'[x] = sendq[x]
    BY <1>1, <2>1 DEF TypeInv
  <2>3. QED
    BY <2>1, <2>2 DEF HeadSent, d, k
<1>6. \A x \in Proc : arriving'[x] = IF x = d THEN Append(arriving[d], k) ELSE arriving[x]
  BY <1>1, <1>2, <1>4 DEF TypeInv
<1>7. /\ InQueue(d)' = Append(InQueue(d), k) /\ \A y \in Proc : y # d => UNCHANGED InQueue(y)
      /\ InQueue(d) \in Seq(Packets)
  <2>1. ready[d] \in Seq(Packets) /\ arriving[d] \in Seq(Packets) /\ InQueue(d) \in Seq(Packets)
    BY <1>1, <1>2, InFlightTypes DEF TypeInv
  <2>2. InQueue(d)' = ready[d] \o Append(arriving[d], k)
    BY <1>2, <1>4, <1>6 DEF InQueue
  <2>3. InQueue(d)' = Append(InQueue(d), k)
    BY <1>2, <2>1, <2>2, ConcatAppend DEF InQueue
  <2>4. \A y \in Proc : y # d => UNCHANGED InQueue(y)
    BY <1>4, <1>6 DEF InQueue
  <2>5. QED
    BY <2>1, <2>3, <2>4
<1>8. TypeInv'
  <2>0. pc' \in [Proc -> {"out", "start", "send", "all"}]
    BY <1>1, <1>4 DEF TypeInv
  <2>1. free' \in [Proc -> Nat]
    <3>1. free \in [Proc -> Nat] /\ free[p] - 1 \in Nat
      BY <1>1 DEF TypeInv
    <3>2. QED
      BY <1>4, <3>1
  <2>2. send_seqno' \in [Proc -> [Proc -> Seqno]]
    BY <1>1, <1>2, <1>4, BumpEntry DEF TypeInv
  <2>3. arriving' \in [Proc -> Seq(Packets)]
    BY <1>1, <1>2, <1>4 DEF TypeInv
  <2>4. QED
    BY <1>1, <1>4, <1>5, <2>0, <2>1, <2>2, <2>3 DEF TypeInv
<1>9. \A x, y \in Proc :
        InCells(x, y)' = InCells(x, y) \cup (IF x = p /\ y = d THEN {k} ELSE {})
  <2> TAKE x \in Proc, y \in Proc
  <2>1. CASE y = d
    <3>1. From(Append(InQueue(d), k), x) = From(InQueue(d), x) \cup (IF k.src = x THEN {k} ELSE {})
      BY <1>2, <1>7, QueueAppend
    <3>2. InCells(x, d)' = From(InQueue(d)', x) /\ InCells(x, d) = From(InQueue(d), x)
      BY DEF InCells, From, InQueue
    <3>3. QED
      BY <1>2, <1>7, <2>1, <3>1, <3>2
  <2>2. CASE y # d
    <3>1. UNCHANGED InQueue(y)
      BY <1>7, <2>2
    <3>2. QED
      BY <2>2, <3>1 DEF InCells, InQueue
  <2>3. QED
    BY <2>1, <2>2
<1>10. \A l \in InCells(p, d) : l.seqno # k.seqno
  <2>1. ASSUME NEW C, C = Box(p, e.dst)
        PROVE  \A l \in InFlight(p, e.dst) : l.seqno # send_seqno[p][e.dst]
    BY <1>1, <2>1, SentStream
  <2>2. QED
    BY <1>2, <2>1 DEF InFlight, d
<1>11. /\ \A x \in Proc : SendqOK(sendq'[x])
       /\ \A x, y \in Proc : PairInv(x, y)'
       /\ NothingMoves
  <2>1. InFlightSent(p, e)
    <3>1. \A x, y \in Proc : ~(x = p /\ y = d) => UNCHANGED <<InCells(x, y), fbox[x][y]>>
      <4> TAKE x \in Proc, y \in Proc
      <4>1. InCells(x, y)' = InCells(x, y) \cup (IF x = p /\ y = d THEN {k} ELSE {})
        BY <1>9
      <4>2. fbox'[x][y] = fbox[x][y]
        BY <1>4
      <4>3. QED
        BY <4>1, <4>2
    <3>2. InCells(p, d)' = InCells(p, d) \cup {k} /\ Box(p, d)' = Box(p, d)
      BY <1>2, <1>4, <1>9 DEF Box
    <3>3. QED
      BY <3>1, <3>2 DEF InFlightSent, d, k
  <2>2. send_seqno' = Bump(send_seqno, p, e.dst)
    BY <1>4 DEF d
  <2>3. UNCHANGED <<recv_seqno, recv_active>>
    BY <1>4
  <2>4. NothingMoves
    <3>1. \/ sendq'[p] = Tail(sendq[p])
          \/ e.part = 1 /\ sendq'[p] = [sendq[p] EXCEPT ![1].part = @ + 1]
      <4>1. sendq \in [Proc -> Seq(Entry)]
        BY <1>1 DEF TypeInv
      <4>2. e.part < Parts(e.msg) => e.part = 1
        BY <1>2, PartsTypes
      <4>3. QED
        BY <1>4, <4>1, <4>2
    <3>2. \A x \in Proc : x # p => sendq'[x] = sendq[x]
      BY <1>5 DEF HeadSent
    <3>3. QED
      BY <1>1, <2>1, <2>3, <3>1, <3>2, SentRests
  <2>5. QED
    BY <1>1, <1>5, <2>1, <2>2, <2>3, <2>4, SentInv
<1>12. ASSUME NEW x \in Proc PROVE Distinct(InQueue(x))'
  <2>1. Distinct(InQueue(x))
    BY DEF ChanInv
  <2>2. CASE x = d
    <3>1. \A l \in From(InQueue(d), k.src) : l.seqno # k.seqno
      BY <1>2, <1>10 DEF InCells, From, InQueue
    <3>2. Distinct(Append(InQueue(d), k))
      BY <1>2, <1>7, <2>1, <2>2, <3>1, QueueAppend
    <3>3. QED
      BY <1>7, <2>2, <3>2 DEF Distinct
  <2>3. CASE x # d
    <3>1. UNCHANGED InQueue(x)
      BY <1>7, <2>3
    <3>2. QED
      BY <2>1, <3>1 DEF Distinct
  <2>4. QED
    BY <2>2, <2>3
<1>13. ASSUME NEW x \in Proc PROVE CellInv(x)'
  <2>1. CellInv(x)
    BY DEF ChanInv
  <2>2. CASE x = p
    <3>1. k \notin InCells(p, d)
      BY <1>10
    <3>2. \A q \in Proc : InCells(p, q)' = InCells(p, q) \cup (IF q = d THEN {k} ELSE {})
      BY <1>9
    <3>3. (free[p] + returning[p])' = free[p] + returning[p] - 1
      <4>1. free \in [Proc -> Nat] /\ returning \in [Proc -> Nat]
        BY <1>1 DEF TypeInv
      <4>2. free[p] \in Nat /\ returning[p] \in Nat
        BY ONLY <4>1, p \in Proc
      <4>3. free'[p] = free[p] - 1 /\ returning'[p] = returning[p]
        BY <1>4, <4>1
      <4>4. QED
        BY ONLY <4>2, <4>3
    <3>4. QED
      BY <1>1, <1>2, <2>1, <2>2, <3>1, <3>2, <3>3, CellAdded
  <2>3. CASE x # p
    <3>1. \A q \in Proc : UNCHANGED InCells(x, q)
      BY <1>9, <2>3
    <3>2. (free[x] + returning[x])' = free[x] + returning[x]
      BY <1>1, <1>4, <2>3 DEF TypeInv
    <3>3. QED
      BY <2>1, <3>1, <3>2, SameCells
  <2>4. QED
    BY <2>2, <2>3
<1>14. QED
  BY <1>8, <1>11, <1>12, <1>13 DEF ChanInv

LEMMA SendAgainStep ==
  ASSUME ChanInv, NEW p \in Proc, NEW e, SendAgain(p, e)
  PROVE  ChanInv' /\ NothingMoves
<1>1. /\ UNCHANGED <<sendq, fbox, arriving, ready, free, returning, send_seqno, recv_seqno,
                     recv_active, all_poll, tosend>>
      /\ pc' = [pc EXCEPT ![p] = "out"]
  BY DEF SendAgain, queues, Goto
<1>2. TypeInv'
  BY <1>1 DEF ChanInv, TypeInv
<1>3. \A x \in Proc : UNCHANGED InQueue(x) /\ (free[x] + returning[x])' = free[x] + returning[x]
  BY <1>1 DEF InQueue
<1>4. QED
  BY <1>1, <1>2, <1>3, QueueStep

-----------------------------------------------------------------------------
(***************************************************************************)
(* Receiving: q takes a packet of p, from a cell or from the fastbox.      *)
(***************************************************************************)
Taken(p, q, k) ==
  /\ \A x, y \in Proc : ~(x = p /\ y = q) => UNCHANGED <<InCells(x, y), fbox[x][y]>>
  /\ InCells(p, q)' = InCells(p, q) \ {k} /\ Box(p, q)' = Box(p, q) \ {k}

LEMMA TakenTables ==
  ASSUME TypeInv, NEW p \in Proc, NEW q \in Proc, NEW k \in Packets, k.src = p, handle_pkt(q, k)
  PROVE  /\ recv_seqno' \in [Proc -> [Proc -> Seqno]]
         /\ recv_active' \in [Proc -> [Proc -> Packets \cup {None}]]
         /\ \A x, y \in Proc : recv_seqno'[y][x] =
              IF x = p /\ y = q THEN Succ(recv_seqno[q][p]) ELSE recv_seqno[y][x]
         /\ \A x, y \in Proc : ~(x = p /\ y = q) => recv_active'[y][x] = recv_active[y][x]
         /\ recv_active'[q][p] = IF k.part < Parts(k.msg) THEN k ELSE None
<1>1. /\ recv_seqno \in [Proc -> [Proc -> Seqno]]
      /\ recv_active \in [Proc -> [Proc -> Packets \cup {None}]]
  BY DEF TypeInv
<1>2. /\ recv_seqno' = Bump(recv_seqno, q, p)
      /\ recv_active' = Set(recv_active, q, p, IF k.part < Parts(k.msg) THEN k ELSE None)
  BY DEF handle_pkt
<1>3. /\ recv_seqno' \in [Proc -> [Proc -> Seqno]]
      /\ \A x, y \in Proc : recv_seqno'[y][x] =
              IF x = p /\ y = q THEN Succ(recv_seqno[q][p]) ELSE recv_seqno[y][x]
  <2>1. Succ(recv_seqno[q][p]) \in Seqno
    BY <1>1, Ages
  <2>2. QED
    BY ONLY <1>1, <1>2, <2>1, p \in Proc, q \in Proc DEF Bump, Set, Succ
<1>4. /\ recv_active' \in [Proc -> [Proc -> Packets \cup {None}]]
      /\ \A x, y \in Proc : ~(x = p /\ y = q) => recv_active'[y][x] = recv_active[y][x]
      /\ recv_active'[q][p] = IF k.part < Parts(k.msg) THEN k ELSE None
  BY <1>1, <1>2 DEF Set
<1>5. QED
  BY <1>3, <1>4

LEMMA ReceivedInv ==
  ASSUME ChanInv, NEW p \in Proc, NEW q \in Proc, NEW k \in InFlight(p, q), k.src = p,
         recv_seqno_matches(q, k), handle_pkt(q, k), Taken(p, q, k), UNCHANGED <<sendq, send_seqno>>
  PROVE  /\ \A x, y \in Proc : PairInv(x, y)'
         /\ OneMoves(p, q)
<1> DEFINE F == InFlight(p, q)
           B == Box(p, q)
           r == recv_seqno[q][p]
           t == send_seqno[p][q]
           A == Half(p, q)
           H == Rest(sendq[p], q)
<1>1. TypeInv /\ PairInv(p, q)
  BY DEF ChanInv
<1>2. F \in SUBSET Packets /\ r \in Seqno /\ t \in Seqno /\ k \in Packets /\ k.seqno = r
  BY <1>1, InFlightTypes DEF recv_seqno_matches
<1>3. /\ \A x, y \in Proc : recv_seqno'[y][x] = IF x = p /\ y = q THEN Succ(r) ELSE recv_seqno[y][x]
      /\ \A x, y \in Proc : ~(x = p /\ y = q) => recv_active'[y][x] = recv_active[y][x]
      /\ recv_active'[q][p] = IF k.part < Parts(k.msg) THEN k ELSE None
  BY <1>1, <1>2, TakenTables
<1>4. /\ \A x, y \in Proc : ~(x = p /\ y = q) => UNCHANGED <<InCells(x, y), fbox[x][y]>>
      /\ InCells(p, q)' = InCells(p, q) \ {k} /\ B' = B \ {k}
  BY DEF Taken
<1>5. F = InCells(p, q) \cup B /\ F' = InCells(p, q)' \cup B' /\ F' = F \ {k}
  <2>1. F = InCells(p, q) \cup B /\ F' = InCells(p, q)' \cup B'
    BY DEF InFlight, Box
  <2>2. QED
    BY <1>4, <2>1
<1>6. Half(p, q)' = More(k) /\ (recv_active'[q][p] # None => recv_active'[q][p].part = 1)
  <2>1. k.part < Parts(k.msg) => k.part = 1
    BY <1>2, PartsTypes
  <2>2. k # None
    BY <1>2, PacketNotNone
  <2>3. QED
    BY <1>3, <2>1, <2>2 DEF Half, More
<1>7. Stream(F \ {k}, B \ {k}, Succ(r), t, More(k), H) /\ Continues(A, B, k)
  <2>1. Stream(F, B, r, t, A, H) /\ k \in F
    BY <1>1 DEF PairInv
  <2> HIDE DEF F, B, r, t, A, H
  <2>2. Stream(F \ {k}, B \ {k}, Succ(r), t, More(k), H)
    BY ONLY <1>2, <2>1, Received
  <2>3. Continues(A, B, k)
    BY ONLY <1>2, <2>1, Received
  <2>4. QED
    BY <2>2, <2>3
<1>8. PairInv(p, q)'
  <2>1. Stream(F, B, r, t, A, H)'
    BY <1>3, <1>4, <1>5, <1>6, <1>7
  <2>2. \A l \in InCells(p, q)', j \in B' : l.seqno # j.seqno
    BY <1>1, <1>4 DEF PairInv
  <2>3. \A l \in B' : l.src = p
    BY <1>1, <1>4 DEF PairInv
  <2>4. QED
    BY <1>6, <2>1, <2>2, <2>3 DEF PairInv
<1>9. ASSUME NEW x \in Proc, NEW y \in Proc, ~(x = p /\ y = q) PROVE PairInv(x, y)'
  <2>1. PairInv(x, y)
    BY DEF ChanInv
  <2>2. UNCHANGED InCells(x, y)
    BY <1>4, <1>9
  <2>3. UNCHANGED <<fbox[x][y], recv_seqno[y][x], send_seqno[x][y], recv_active[y][x]>>
    BY <1>3, <1>4, <1>9
  <2>4. UNCHANGED Rest(sendq[x], y)
    OBVIOUS
  <2>5. QED
    BY <2>1, <2>2, <2>3, <2>4, SamePair
<1>10. ASSUME NEW x \in Proc, NEW y \in Proc, ~(x = p /\ y = q) PROVE Rests(x, y)
  <2>1. UNCHANGED <<InCells(x, y), fbox[x][y], recv_seqno[y][x], recv_active[y][x]>>
    BY <1>3, <1>4, <1>10
  <2>2. UNCHANGED InFlight(x, y)
    BY <2>1 DEF InFlight
  <2>3. QED
    BY <2>1, <2>2, SameUndelivered
<1>11. Shrinks(p, q) \/ Rests(p, q)
  <2> DEFINE s == sendq[p]
             U == Undelivered(p, q)
             V == Pieces(More(k), F \ {k}, Succ(r), s, q)
  <2>1. PiecesOK(A, F, r, t, s) /\ U = Pieces(A, F, r, s, q)
    BY PiecesNow, UndeliveredPieces
  <2>2. U' = V
    <3>1. U' = Pieces(A', F', recv_seqno'[q][p], sendq'[p], q)
      BY UndeliveredPieces
    <3>2. A' = More(k) /\ F' = F \ {k} /\ recv_seqno'[q][p] = Succ(r) /\ sendq' = sendq
      BY <1>3, <1>5, <1>6
    <3>3. QED
      BY <3>1, <3>2
  <2>3. k \in F /\ k.part <= Parts(k.msg)
    BY <1>1 DEF PairInv, Stream, Whole
  <2>4. \/ InOrder(V) = InOrder(U)
        \/ InOrder(U) # <<>> /\ InOrder(V) = Tail(InOrder(U))
    <3> HIDE DEF A, F, r, t, s, B
    <3>1. FirstGoes(InOrder(Pieces(A, F, r, s, q)),
                    InOrder(Pieces(More(k), F \ {k}, Succ(r), s, q)))
      BY ONLY <1>2, <1>7, <2>1, <2>3, PiecesReceived
    <3>2. QED
      BY <2>1, <3>1 DEF FirstGoes
  <2> HIDE DEF V
  <2>5. InOrder(U)' = InOrder(U')
    BY DEF InOrder, Before
  <2>6. InOrder(U)' = InOrder(V)
    BY <2>2, <2>5
  <2>7. QED
    BY <2>4, <2>6 DEF Rests, Shrinks
<1>12. QED
  BY <1>8, <1>9, <1>10, <1>11 DEF OneMoves

LEMMA TakeFastboxStep ==
  ASSUME ChanInv, NEW p \in Proc, NEW q \in Proc, TakeFastbox(q, p)
  PROVE  ChanInv' /\ OneMoves(p, q)
<1> DEFINE k == fbox[p][q]
<1>1. TypeInv /\ k # None /\ recv_seqno_matches(q, k) /\ PairInv(p, q)
  BY DEF ChanInv, TakeFastbox, InFastbox
<1>2. /\ handle_pkt(q, k) /\ fbox' = Set(fbox, p, q, None) /\ ThenSend(q)
      /\ UNCHANGED <<sendq, arriving, ready, free, returning, send_seqno, all_poll, tosend>>
  BY DEF TakeFastbox, queues
<1>3. /\ k \in Packets /\ Box(p, q) = {k} /\ k \in InFlight(p, q) /\ k.src = p
      /\ k \notin InCells(p, q)
  <2>1. k \in Packets
    BY <1>1 DEF TypeInv
  <2>2. Box(p, q) = {k}
    BY <1>1 DEF Box
  <2>3. QED
    BY <1>1, <2>1, <2>2 DEF InFlight, PairInv
<1>4. /\ fbox' \in [Proc -> [Proc -> Packets \cup {None}]]
      /\ \A x, y \in Proc : fbox'[x][y] = IF x = p /\ y = q THEN None ELSE fbox[x][y]
  BY <1>1, <1>2 DEF TypeInv, Set
<1>5. \A x, y \in Proc : UNCHANGED <<InQueue(y), InCells(x, y)>>
  BY <1>2 DEF InQueue, InCells
<1>6. TypeInv'
  <2>1. pc' \in [Proc -> {"out", "start", "send", "all"}]
    BY <1>1, <1>2 DEF TypeInv, ThenSend, Goto
  <2>2. /\ recv_seqno' \in [Proc -> [Proc -> Seqno]]
        /\ recv_active' \in [Proc -> [Proc -> Packets \cup {None}]]
    BY <1>1, <1>2, <1>3, TakenTables
  <2>3. QED
    BY <1>1, <1>2, <1>4, <2>1, <2>2 DEF TypeInv
<1>7. (\A x, y \in Proc : PairInv(x, y)') /\ OneMoves(p, q)
  <2>1. Taken(p, q, k)
    <3>1. \A x, y \in Proc : ~(x = p /\ y = q) => UNCHANGED <<InCells(x, y), fbox[x][y]>>
      BY <1>4, <1>5
    <3>2. InCells(p, q)' = InCells(p, q) \ {k} /\ Box(p, q)' = Box(p, q) \ {k}
      BY <1>3, <1>4, <1>5 DEF Box
    <3>3. QED
      BY <3>1, <3>2 DEF Taken
  <2>2. UNCHANGED <<sendq, send_seqno>>
    BY <1>2
  <2> HIDE DEF k
  <2>3. QED
    BY <1>1, <1>2, <1>3, <2>1, <2>2, ReceivedInv
<1>8. ASSUME NEW x \in Proc PROVE CellInv(x)' /\ Distinct(InQueue(x))' /\ SendqOK(sendq[x])'
  <2>1. CellInv(x) /\ Distinct(InQueue(x)) /\ SendqOK(sendq[x])
    BY DEF ChanInv
  <2>2. CellInv(x)'
    BY <1>2, <1>5, <2>1, SameCells
  <2>3. Distinct(InQueue(x))' /\ SendqOK(sendq[x])'
    BY <1>2, <1>5, <2>1
  <2>4. QED
    BY <2>2, <2>3
<1>9. QED
  BY <1>6, <1>7, <1>8 DEF ChanInv

LEMMA ConcatTail ==
  ASSUME NEW s \in Seq(Packets), NEW u \in Seq(Packets), s # <<>>
  PROVE  s \o u # <<>> /\ Head(s \o u) = Head(s) /\ Tail(s \o u) = Tail(s) \o u
<1>1. Len(s) \in Nat /\ Len(s) > 0 /\ Len(u) \in Nat
  OBVIOUS
<1>2. s \o u \in Seq(Packets) /\ Tail(s) \in Seq(Packets) /\ Len(s \o u) = Len(s) + Len(u)
  OBVIOUS
<1>3. s \o u # <<>> /\ Head(s \o u) = Head(s)
  BY <1>1, <1>2
<1>4. Tail(s \o u) = Tail(s) \o u
  BY <1>1, <1>2, <1>3
<1>5. QED
  BY <1>3, <1>4

LEMMA TakeCellStep ==
  ASSUME ChanInv, NEW q \in Proc, TakeCell(q)
  PROVE  ChanInv' /\ \E p \in Proc : OneMoves(p, q)
<1> DEFINE Q == InQueue(q)
<1>0. ready[q] \in Seq(Packets) /\ ready[q] # <<>>
  BY DEF ChanInv, TypeInv, TakeCell, QueueMatches
<1> PICK k \in Packets, p \in Proc : k = Head(ready[q]) /\ p = k.src
  <2>1. Head(ready[q]) \in Packets
    BY <1>0
  <2>2. QED
    BY <2>1, PartsTypes
<1>1. /\ TypeInv /\ ready[q] \in Seq(Packets) /\ arriving[q] \in Seq(Packets) /\ ready[q] # <<>>
      /\ recv_seqno_matches(q, k) /\ Q \in Seq(Packets) /\ Distinct(Q)
  BY InFlightTypes DEF ChanInv, TypeInv, TakeCell, QueueMatches
<1>2. /\ handle_pkt(q, k) /\ returning' = Released(k)
      /\ ready' = [ready EXCEPT ![q] = Tail(@)] /\ ThenSend(q)
      /\ UNCHANGED <<sendq, fbox, arriving, free, send_seqno, all_poll, tosend>>
  BY DEF TakeCell
<1>3. k = Head(Q) /\ Q # <<>> /\ Tail(Q) = Tail(ready[q]) \o arriving[q]
  BY <1>1, ConcatTail DEF InQueue
<1> HIDE DEF Q
<1>4. /\ k \in Packets /\ p \in Proc /\ k \in From(Q, p) /\ Distinct(Tail(Q))
      /\ \A x : From(Tail(Q), x) = From(Q, x) \ {k}
  <2>1. /\ Head(Q) \in Packets /\ Head(Q) \in From(Q, Head(Q).src) /\ Distinct(Tail(Q))
        /\ \A x : From(Tail(Q), x) = From(Q, x) \ {Head(Q)}
    BY <1>1, <1>3, QueueTail
  <2>2. QED
    BY <1>3, <2>1, PartsTypes
<1>5. /\ ready' \in [Proc -> Seq(Packets)] /\ InQueue(q)' = Tail(Q)
      /\ \A y \in Proc : y # q => UNCHANGED InQueue(y)
  <2>1. Tail(ready[q]) \in Seq(Packets)
    BY <1>1
  <2>2. /\ ready' \in [Proc -> Seq(Packets)] /\ ready'[q] = Tail(ready[q])
        /\ \A y \in Proc : y # q => ready'[y] = ready[y]
    BY <1>1, <1>2, <2>1 DEF TypeInv
  <2>3. QED
    BY <1>2, <1>3, <2>2 DEF InQueue
<1>6. k \in InCells(p, q) /\ k.src = p
  BY <1>4 DEF From, InCells, InQueue, Q
<1>7. \A x, y \in Proc :
        InCells(x, y)' = InCells(x, y) \ (IF x = p /\ y = q THEN {k} ELSE {})
  <2> TAKE x \in Proc, y \in Proc
  <2>1. CASE y = q
    <3>1. InCells(x, q)' = From(InQueue(q)', x) /\ InCells(x, q) = From(Q, x)
      BY DEF InCells, From, InQueue, Q
    <3>2. InCells(x, q)' = InCells(x, q) \ {k}
      BY <1>4, <1>5, <3>1
    <3>3. x # p => k \notin InCells(x, q)
      BY <1>6 DEF InCells
    <3>4. QED
      BY <2>1, <3>2, <3>3
  <2>2. CASE y # q
    <3>1. UNCHANGED InQueue(y)
      BY <1>5, <2>2
    <3>2. QED
      BY <2>2, <3>1 DEF InCells, InQueue
  <2>3. QED
    BY <2>1, <2>2
<1>8. TypeInv'
  <2>1. pc' \in [Proc -> {"out", "start", "send", "all"}]
    BY <1>1, <1>2 DEF TypeInv, ThenSend, Goto
  <2>2. /\ recv_seqno' \in [Proc -> [Proc -> Seqno]]
        /\ recv_active' \in [Proc -> [Proc -> Packets \cup {None}]]
    BY <1>1, <1>2, <1>4, <1>6, TakenTables
  <2>3. returning' \in [Proc -> Nat]
    <3>1. returning \in [Proc -> Nat]
      BY <1>1 DEF TypeInv
    <3>2. returning[p] + 1 \in Nat
      BY ONLY <3>1, p \in Proc
    <3>3. QED
      BY <1>2, <3>1, <3>2 DEF Released
  <2>4. QED
    BY <1>1, <1>2, <1>5, <2>1, <2>2, <2>3 DEF TypeInv
<1>9. (\A x, y \in Proc : PairInv(x, y)') /\ OneMoves(p, q)
  <2>1. Taken(p, q, k)
    <3>1. \A x, y \in Proc : ~(x = p /\ y = q) => UNCHANGED <<InCells(x, y), fbox[x][y]>>
      <4> TAKE x \in Proc, y \in Proc
      <4>1. InCells(x, y)' = InCells(x, y) \ (IF x = p /\ y = q THEN {k} ELSE {})
        BY <1>7
      <4>2. fbox'[x][y] = fbox[x][y]
        BY <1>2
      <4>3. QED
        BY <4>1, <4>2
    <3>2. InCells(p, q)' = InCells(p, q) \ {k}
      BY <1>4, <1>7
    <3>3. k \notin Box(p, q) /\ Box(p, q)' = Box(p, q)
      BY <1>2, <1>4, <1>6 DEF ChanInv, PairInv, Box
    <3>4. QED
      BY <3>1, <3>2, <3>3 DEF Taken
  <2>2. UNCHANGED <<sendq, send_seqno>> /\ k \in InFlight(p, q)
    BY <1>2, <1>6 DEF InFlight
  <2>3. QED
    BY <1>1, <1>2, <1>4, <1>6, <2>1, <2>2, ReceivedInv
<1>10. ASSUME NEW x \in Proc PROVE CellInv(x)'
  <2>1. CellInv(x)
    BY DEF ChanInv
  <2>2. CASE x = p
    <3>1. \A y \in Proc : InCells(p, y)' = InCells(p, y) \ (IF y = q THEN {k} ELSE {})
      BY <1>4, <1>7
    <3>2. (free[p] + returning[p])' = free[p] + returning[p] + 1
      <4>1. free[p] \in Nat /\ returning \in [Proc -> Nat] /\ returning[p] \in Nat
        BY <1>1, <1>4 DEF TypeInv
      <4>2. returning'[p] = returning[p] + 1 /\ free' = free
        BY <1>2, <1>4, <4>1 DEF Released
      <4>3. QED
        BY <4>1, <4>2
    <3>3. QED
      BY <1>1, <1>4, <1>6, <2>1, <2>2, <3>1, <3>2, CellRemoved
  <2>3. CASE x # p
    <3>1. \A y \in Proc : UNCHANGED InCells(x, y)
      <4> TAKE y \in Proc
      <4>1. InCells(x, y)' = InCells(x, y) \ (IF x = p /\ y = q THEN {k} ELSE {})
        BY <1>7
      <4>2. QED
        BY <2>3, <4>1
    <3>2. (free[x] + returning[x])' = free[x] + returning[x]
      BY <1>1, <1>2, <2>3 DEF TypeInv, Released
    <3>3. QED
      BY <2>1, <3>1, <3>2, SameCells
  <2>4. QED
    BY <2>2, <2>3
<1>11. ASSUME NEW x \in Proc PROVE Distinct(InQueue(x))' /\ SendqOK(sendq[x])'
  <2>1. Distinct(InQueue(x)) /\ SendqOK(sendq[x])
    BY DEF ChanInv
  <2>2. SendqOK(sendq[x])'
    BY <1>2, <2>1
  <2>3. Distinct(InQueue(x))'
    BY <1>4, <1>5, <2>1 DEF Distinct
  <2>4. QED
    BY <2>2, <2>3
<1>12. QED
  BY <1>8, <1>9, <1>10, <1>11 DEF ChanInv

-----------------------------------------------------------------------------
(***************************************************************************)
(* Polling, and the queues.                                                *)
(***************************************************************************)
LEMMA LeastOf ==
  ASSUME NEW S, S # {}, NEW f \in [S -> Nat]
  PROVE  \E x \in S : \A y \in S : f[x] <= f[y]
<1> DEFINE V == {f[x] : x \in S}
           R == OpToRel(<, Nat)
<1>1. \A x, y \in Nat : <<y, x>> \in R <=> y < x
  BY ZenonT(60) DEF OpToRel
<1>2. IsWellFoundedOn(R, Nat) /\ V \in SUBSET Nat /\ V # {}
  BY NatLessThanWellFounded
<1> HIDE DEF R
<1>3. PICK v \in V : \A w \in V : ~(<<w, v>> \in R)
  BY <1>2, WFMin
<1>4. ASSUME NEW w \in V PROVE v <= w
  <2>1. v \in Nat /\ w \in Nat
    BY <1>2
  <2>2. ~(w < v)
    BY <1>1, <1>3, <2>1
  <2>3. QED
    BY <2>1, <2>2
<1>5. PICK x \in S : f[x] = v
  OBVIOUS
<1>6. QED
  BY <1>4, <1>5

LEMMA NextPollType ==
  ASSUME TypeInv, NEW q \in Proc
  PROVE  NextPoll(q) \in Proc
<1>1. Senders(q) \subseteq Proc /\ Senders(q) # {}
  BY Constants DEF Senders
<1>2. \A p \in Senders(q) : After(q, p) \in Nat
  <2> TAKE p \in Senders(q)
  <2>1. p \in 0..(N - 1) /\ all_poll[q] \in 0..(N - 1) /\ N \in Nat /\ N > 0
    BY <1>1, Constants DEF TypeInv, Proc
  <2>2. p + N - all_poll[q] - 1 \in Nat
    BY <2>1
  <2>3. \A a \in Nat : a % N \in Nat
    BY <2>1
  <2>4. QED
    BY <2>2, <2>3 DEF After
<1>3. \E p \in Senders(q) : \A r \in Senders(q) : After(q, p) <= After(q, r)
  <2> DEFINE f == [p \in Senders(q) |-> After(q, p)]
  <2>1. f \in [Senders(q) -> Nat]
    BY <1>2
  <2>2. \E p \in Senders(q) : \A r \in Senders(q) : f[p] <= f[r]
    <3> HIDE DEF f
    <3>1. QED
      BY <1>1, <2>1, LeastOf
  <2>3. QED
    BY <2>2
<1>4. NextPoll(q) \in Senders(q)
  BY <1>3 DEF NextPoll
<1>5. QED
  BY <1>1, <1>4

LEMMA QueueFailsStep ==
  ASSUME ChanInv, NEW q \in Proc, QueueFails(q)
  PROVE  ChanInv' /\ NothingMoves
<1>1. /\ UNCHANGED <<sendq, fbox, arriving, ready, free, returning, send_seqno, recv_seqno,
                     recv_active, all_poll, tosend>>
      /\ pc' = [pc EXCEPT ![q] = "all"]
  BY DEF QueueFails, queues, Goto
<1>2. TypeInv'
  BY <1>1 DEF ChanInv, TypeInv
<1>3. \A x \in Proc : UNCHANGED InQueue(x) /\ (free[x] + returning[x])' = free[x] + returning[x]
  BY <1>1 DEF InQueue
<1>4. QED
  BY <1>1, <1>2, <1>3, QueueStep

LEMMA PollAllStep ==
  ASSUME ChanInv, NEW q \in Proc, poll_all_fboxes(q)
  PROVE  ChanInv' /\ (NothingMoves \/ \E p \in Proc : OneMoves(p, q))
<1>1. TypeInv /\ all_poll[q] \in Proc
  BY DEF ChanInv, TypeInv
<1>2. CASE TakeFastbox(q, all_poll[q])
  BY <1>1, <1>2, TakeFastboxStep
<1>3. CASE /\ all_poll' = [all_poll EXCEPT ![q] = NextPoll(q)]
           /\ ThenSend(q)
           /\ UNCHANGED <<sendq, fbox, queues, send_seqno, recv_seqno, recv_active, tosend>>
  <2>1. UNCHANGED <<sendq, fbox, arriving, ready, free, returning, send_seqno, recv_seqno,
                    recv_active, tosend>>
    BY <1>3 DEF queues
  <2>2. all_poll' \in [Proc -> Proc]
    <3>1. NextPoll(q) \in Proc
      BY <1>1, NextPollType
    <3>2. QED
      BY <1>1, <1>3, <3>1 DEF TypeInv
  <2>3. pc' \in [Proc -> {"out", "start", "send", "all"}]
    BY <1>1, <1>3 DEF TypeInv, ThenSend, Goto
  <2>4. TypeInv'
    BY <1>1, <2>1, <2>2, <2>3 DEF TypeInv
  <2>5. \A x \in Proc : UNCHANGED InQueue(x) /\ (free[x] + returning[x])' = free[x] + returning[x]
    BY <2>1 DEF InQueue
  <2>6. QED
    BY <2>1, <2>4, <2>5, QueueStep
<1>4. QED
  BY <1>2, <1>3 DEF poll_all_fboxes

LEMMA ConcatShift ==
  ASSUME NEW s \in Seq(Packets), NEW u \in Seq(Packets), u # <<>>
  PROVE  /\ Head(u) \in Packets /\ Tail(u) \in Seq(Packets)
         /\ Append(s, Head(u)) \o Tail(u) = s \o u
<1>1. Head(u) \in Packets /\ Tail(u) \in Seq(Packets) /\ Len(u) \in Nat /\ Len(u) > 0
  OBVIOUS
<1>2. Append(s, Head(u)) \o Tail(u) = s \o u
  <2> DEFINE w == Append(s, Head(u)) \o Tail(u)
             z == s \o u
  <2>1. w \in Seq(Packets) /\ z \in Seq(Packets) /\ Len(w) = Len(z)
    BY <1>1
  <2>2. \A i \in 1..Len(z) : w[i] = z[i]
    BY <1>1
  <2>3. QED
    BY <2>1, <2>2
<1>3. QED
  BY <1>1, <1>2

LEMMA CellAppearsStep ==
  ASSUME ChanInv, NEW q \in Proc, CellAppears(q)
  PROVE  ChanInv' /\ NothingMoves
<1>1. TypeInv /\ ready[q] \in Seq(Packets) /\ arriving[q] \in Seq(Packets) /\ arriving[q] # <<>>
  BY DEF ChanInv, TypeInv, CellAppears
<1>2. /\ ready' = [ready EXCEPT ![q] = Append(@, Head(arriving[q]))]
      /\ arriving' = [arriving EXCEPT ![q] = Tail(@)]
      /\ UNCHANGED <<pc, sendq, fbox, free, returning, send_seqno, recv_seqno, recv_active,
                     all_poll, tosend>>
  BY DEF CellAppears
<1>3. /\ Append(ready[q], Head(arriving[q])) \in Seq(Packets) /\ Tail(arriving[q]) \in Seq(Packets)
      /\ Append(ready[q], Head(arriving[q])) \o Tail(arriving[q]) = ready[q] \o arriving[q]
  <2> DEFINE s == ready[q]
             u == arriving[q]
  <2>1. s \in Seq(Packets) /\ u \in Seq(Packets) /\ u # <<>>
    BY <1>1
  <2> HIDE DEF s, u
  <2>2. /\ Head(u) \in Packets /\ Tail(u) \in Seq(Packets)
        /\ Append(s, Head(u)) \o Tail(u) = s \o u
    BY ONLY <2>1, ConcatShift
  <2>3. Append(s, Head(u)) \in Seq(Packets)
    BY <2>1, <2>2
  <2>4. QED
    BY <2>2, <2>3 DEF s, u
<1>4. /\ ready' \in [Proc -> Seq(Packets)] /\ arriving' \in [Proc -> Seq(Packets)]
      /\ \A x \in Proc : x # q => ready'[x] = ready[x] /\ arriving'[x] = arriving[x]
      /\ ready'[q] = Append(ready[q], Head(arriving[q])) /\ arriving'[q] = Tail(arriving[q])
  BY <1>1, <1>2, <1>3 DEF TypeInv
<1>5. TypeInv'
  BY <1>1, <1>2, <1>4 DEF TypeInv
<1>6. \A x \in Proc : UNCHANGED InQueue(x)
  BY <1>3, <1>4 DEF InQueue
<1>7. \A x \in Proc : (free[x] + returning[x])' = free[x] + returning[x]
  BY <1>2
<1>8. QED
  BY <1>2, <1>5, <1>6, <1>7, QueueStep

LEMMA CellReturnsStep ==
  ASSUME ChanInv, NEW p \in Proc, CellReturns(p)
  PROVE  ChanInv' /\ NothingMoves
<1>1. TypeInv /\ free[p] \in Nat /\ returning[p] \in Nat /\ returning[p] > 0
  BY DEF ChanInv, TypeInv, CellReturns
<1>2. /\ returning' = [returning EXCEPT ![p] = @ - 1] /\ free' = [free EXCEPT ![p] = @ + 1]
      /\ UNCHANGED <<pc, sendq, fbox, arriving, ready, send_seqno, recv_seqno, recv_active,
                     all_poll, tosend>>
  BY DEF CellReturns
<1>3. /\ free' \in [Proc -> Nat] /\ returning' \in [Proc -> Nat]
      /\ \A x \in Proc : x # p => free'[x] = free[x] /\ returning'[x] = returning[x]
      /\ free'[p] = free[p] + 1 /\ returning'[p] = returning[p] - 1
  <2>1. free[p] + 1 \in Nat /\ returning[p] - 1 \in Nat
    BY <1>1
  <2>2. QED
    BY <1>1, <1>2, <2>1 DEF TypeInv
<1>4. TypeInv'
  BY <1>1, <1>2, <1>3 DEF TypeInv
<1>5. \A x \in Proc : UNCHANGED InQueue(x)
  BY <1>2 DEF InQueue
<1>6. \A x \in Proc : (free[x] + returning[x])' = free[x] + returning[x]
  BY <1>1, <1>3
<1>7. QED
  BY <1>2, <1>4, <1>5, <1>6, QueueStep

-----------------------------------------------------------------------------
(***************************************************************************)
(* The invariant holds at first and after every step.                      *)
(***************************************************************************)
LEMMA EmptyStream ==
  Stream({}, {}, 0, 0, {}, {})
<1>1. Dist(0, 0) = 0
  BY Constants, Ages
<1>2. QED
  BY <1>1 DEF Stream, Numbered, Whole

LEMMA InitChan == Init => ChanInv
<1> SUFFICES ASSUME Init PROVE ChanInv
  OBVIOUS
<1>1. /\ pc = [p \in Proc |-> "out"] /\ sendq = [p \in Proc |-> <<>>]
      /\ fbox = [p \in Proc |-> [q \in Proc |-> None]]
      /\ arriving = [p \in Proc |-> <<>>] /\ ready = [p \in Proc |-> <<>>]
      /\ free = [p \in Proc |-> Cells] /\ returning = [p \in Proc |-> 0]
      /\ send_seqno = [p \in Proc |-> [q \in Proc |-> 0]]
      /\ recv_seqno = [p \in Proc |-> [q \in Proc |-> 0]]
      /\ recv_active = [p \in Proc |-> [q \in Proc |-> None]]
      /\ all_poll = [p \in Proc |-> 0] /\ tosend \in [Proc -> Nat]
  BY NemChannelAssumption DEF Init, Pairs
<1>2. TypeInv
  <2>1. 0 \in Proc /\ 0 \in Seqno /\ Cells \in Nat
    BY Constants
  <2>2. <<>> \in Seq(Entry) /\ <<>> \in Seq(Packets)
    OBVIOUS
  <2>3. QED
    BY <1>1, <2>1, <2>2 DEF TypeInv
<1>3. \A q \in Proc : InQueue(q) = <<>>
  BY <1>1 DEF InQueue
<1>4. \A p, q \in Proc : InCells(p, q) = {}
  <2> TAKE p \in Proc, q \in Proc
  <2>1. ready[q] \o arriving[q] = <<>>
    BY <1>3 DEF InQueue
  <2>2. ToSet(<<>>) = {}
    BY DEF ToSet
  <2>3. QED
    BY <2>1, <2>2 DEF InCells
<1>5. ASSUME NEW p \in Proc PROVE SendqOK(sendq[p]) /\ Distinct(InQueue(p)) /\ CellInv(p)
  <2>1. SendqOK(sendq[p]) /\ Distinct(InQueue(p))
    BY <1>1, <1>3 DEF SendqOK, Distinct
  <2>2. CellsInQueues(p) = {}
    BY <1>4 DEF CellsInQueues
  <2>3. free[p] + returning[p] + 0 = Cells
    BY <1>1, Constants
  <2>4. CellInv(p)
    BY <2>2, <2>3, FS_EmptySet DEF CellInv
  <2>5. QED
    BY <2>1, <2>4
<1>6. ASSUME NEW p \in Proc, NEW q \in Proc PROVE PairInv(p, q)
  <2>1. /\ Box(p, q) = {} /\ InFlight(p, q) = {} /\ Half(p, q) = {} /\ Rest(sendq[p], q) = {}
        /\ recv_seqno[q][p] = 0 /\ send_seqno[p][q] = 0 /\ recv_active[q][p] = None
    BY <1>1, <1>4 DEF Box, InFlight, Half, Rest
  <2>2. QED
    BY <1>4, <2>1, EmptyStream DEF PairInv
<1>7. QED
  BY <1>2, <1>5, <1>6 DEF ChanInv

Moves == NothingMoves \/ \E p, q \in Proc : OneMoves(p, q)

LEMMA NextChan == ChanInv /\ [Next]_vars => ChanInv' /\ Moves
<1> SUFFICES ASSUME ChanInv, [Next]_vars PROVE ChanInv' /\ Moves
  OBVIOUS
<1>1. ASSUME NEW p \in Proc, NEW q \in Proc, NEW m \in Msg, iStartMsg(p, q, m)
      PROVE  ChanInv' /\ Moves
  BY <1>1, iStartMsgStep DEF Moves
<1>2. ASSUME NEW p \in Proc, Send(p) PROVE ChanInv' /\ Moves
  BY <1>2, SendFastboxStep, SendCellStep, SendAgainStep DEF Send, Moves
<1>3. ASSUME NEW p \in Proc, NEW q \in Proc, poll_fboxes(p, q) PROVE ChanInv' /\ Moves
  BY <1>3, TakeFastboxStep DEF poll_fboxes, Moves
<1>4. ASSUME NEW p \in Proc, TakeCell(p) \/ QueueFails(p) \/ poll_all_fboxes(p)
      PROVE  ChanInv' /\ Moves
  BY <1>4, TakeCellStep, QueueFailsStep, PollAllStep DEF Moves
<1>5. ASSUME NEW p \in Proc, CellAppears(p) \/ CellReturns(p) PROVE ChanInv' /\ Moves
  BY <1>5, CellAppearsStep, CellReturnsStep DEF Moves
<1>6. CASE UNCHANGED vars
  <2>1. UNCHANGED <<pc, sendq, fbox, arriving, ready, free, returning, send_seqno, recv_seqno,
                    recv_active, all_poll, tosend>>
    BY <1>6 DEF vars, queues
  <2>2. TypeInv'
    BY <2>1 DEF ChanInv, TypeInv
  <2>3. \A x \in Proc : UNCHANGED InQueue(x) /\ (free[x] + returning[x])' = free[x] + returning[x]
    BY <2>1 DEF InQueue
  <2>4. QED
    BY <2>1, <2>2, <2>3, QueueStep DEF Moves
<1>7. QED
  BY <1>1, <1>2, <1>3, <1>4, <1>5, <1>6 DEF Next, Progress

(***************************************************************************)
(* The packets in flight between two processes are always those between    *)
(* their two counters.                                                     *)
(***************************************************************************)
THEOREM ChanAlways == Spec => []ChanInv
BY InitChan, NextChan, PTL DEF Spec

(***************************************************************************)
(* No cell is lost, however the processes take and return them; and every  *)
(* variable keeps its type.                                                *)
(***************************************************************************)
THEOREM NoCellLost == Spec => []TypeOK
<1>1. ChanInv => TypeOK
  <2> SUFFICES ASSUME ChanInv PROVE TypeOK
    OBVIOUS
  <2>1. TypeInv /\ \A p \in Proc : CellInv(p)
    BY DEF ChanInv
  <2>2. /\ pc \in [Proc -> {"out", "start", "send", "all"}]
        /\ \A p, q \in Proc : fbox[p][q] \in Packets \cup {None}
        /\ \A p, q \in Proc : recv_active[p][q] \in Packets \cup {None}
        /\ \A p \in Proc : all_poll[p] \in Proc
    BY <2>1 DEF TypeInv
  <2>3. \A p \in Proc : free[p] + returning[p] + Cardinality(CellsInQueues(p)) = Cells
    BY <2>1 DEF CellInv
  <2>4. QED
    BY <2>2, <2>3 DEF TypeOK
<1>2. QED
  BY <1>1, ChanAlways, PTL

(***************************************************************************)
(* The assertions of the progress engine: the packet with the expected     *)
(* number continues the message that is being received, or opens one.      *)
(***************************************************************************)
THEOREM ReceiveAssertions == Spec => []AssertionsHold
<1>1. ChanInv => AssertionsHold
  <2> SUFFICES ASSUME ChanInv, NEW p \in Proc, NEW q \in Proc, NEW k \in InFlight(p, q),
                      recv_seqno_matches(q, k)
               PROVE  IF recv_active[q][p] = None THEN k.part = 1
                      ELSE /\ k # fbox[p][q]
                           /\ k.msg = recv_active[q][p].msg
                           /\ k.part = recv_active[q][p].part + 1
    BY DEF AssertionsHold
  <2> DEFINE F == InFlight(p, q)
             B == Box(p, q)
             r == recv_seqno[q][p]
             t == send_seqno[p][q]
             A == Half(p, q)
             H == Rest(sendq[p], q)
  <2>1. TypeInv /\ PairInv(p, q)
    BY DEF ChanInv
  <2>2. F \in SUBSET Packets /\ r \in Seqno /\ t \in Seqno /\ k \in Packets /\ k.src = p
    BY <2>1, InFlightTypes DEF PairInv, InCells
  <2>3. Stream(F, B, r, t, A, H) /\ k \in F /\ k.seqno = r
    BY <2>1, <2>2 DEF PairInv, recv_seqno_matches
  <2>4. /\ A = {} => k.part = 1
        /\ \A m \in A : k.part = 2 /\ k.msg = m /\ k \notin B
    <3> HIDE DEF F, B, r, t, A, H
    <3>1. Continues(A, B, k)
      BY ONLY <2>2, <2>3, Received
    <3>2. QED
      BY <3>1 DEF Continues
  <2>5. CASE recv_active[q][p] = None
    <3>1. A = {}
      BY <2>5 DEF Half
    <3>2. QED
      BY <2>4, <2>5, <3>1
  <2>6. CASE recv_active[q][p] # None
    <3>1. recv_active[q][p].msg \in A /\ recv_active[q][p].part = 1
      BY <2>1, <2>6 DEF Half, PairInv
    <3>2. k.part = 2 /\ k.msg = recv_active[q][p].msg /\ k \notin B
      BY <2>4, <3>1
    <3>3. k # fbox[p][q]
      BY <2>2, <3>2, PacketNotNone DEF Box
    <3>4. QED
      BY <2>6, <3>1, <3>2, <3>3
  <2>7. QED
    BY <2>5, <2>6
<1>2. QED
  BY <1>1, ChanAlways, PTL

(***************************************************************************)
(* The channel: although a message in the fastbox may pass cells that were *)
(* sent before it, and a cell may appear late, each process gets the       *)
(* messages of every other one whole, once and in the order in which they  *)
(* were started.                                                           *)
(***************************************************************************)
THEOREM ChannelKeepsOrder == Spec => ImplementsChannel
<1>1. Init => Channel!Init
  <2> SUFFICES ASSUME Init PROVE Chan = [p \in Proc |-> [q \in Proc |-> <<>>]]
    BY DEF Channel!Init
  <2>1. ChanInv
    BY InitChan
  <2>2. ASSUME NEW p \in Proc, NEW q \in Proc PROVE InOrder(Undelivered(p, q)) = <<>>
    <3>1. sendq[p] = <<>> /\ fbox[p][q] = None /\ recv_active[q][p] = None
          /\ arriving[q] = <<>> /\ ready[q] = <<>>
      BY DEF Init, Pairs
    <3>2. InFlight(p, q) = {}
      BY <3>1 DEF InFlight, InCells, ToSet
    <3>3. Undelivered(p, q) = {}
      BY <3>1, <3>2 DEF Undelivered
    <3>4. IsItems({}) /\ Cardinality({}) = 0
      BY FS_EmptySet DEF IsItems
    <3>5. InOrder({}) \in Seq(Msg) /\ Len(InOrder({})) = 0
      BY <3>4, InOrderSeq
    <3>6. QED
      BY <3>3, <3>5
  <2>3. QED
    BY <2>2 DEF Chan
<1>2. ChanInv /\ [Next]_vars => [Channel!Next]_Chan
  <2> SUFFICES ASSUME ChanInv, [Next]_vars PROVE Channel!Next \/ Chan' = Chan
    OBVIOUS
  <2> DEFINE new == [p \in Proc |-> [q \in Proc |-> InOrder(Undelivered(p, q))']]
  <2>1. Chan' = new
    BY DEF Chan
  <2>2. CASE NothingMoves
    <3>1. new = Chan
      BY <2>2 DEF Chan, NothingMoves, Rests
    <3>2. QED
      BY <2>1, <3>1
  <2>3. ASSUME NEW p \in Proc, NEW q \in Proc, OneMoves(p, q) PROVE Channel!Next \/ Chan' = Chan
    <3>1. Chan[p][q] = InOrder(Undelivered(p, q)) /\ new[p][q] = InOrder(Undelivered(p, q))'
      BY DEF Chan
    <3>2. new = [Chan EXCEPT ![p][q] = InOrder(Undelivered(p, q))']
      BY <2>3 DEF Chan, OneMoves, Rests
    <3>3. CASE Rests(p, q)
      <4>1. new = Chan
        BY <2>3, <3>3 DEF Chan, OneMoves, Rests
      <4>2. QED
        BY <2>1, <4>1
    <3>4. CASE Grows(p, q) \/ Shrinks(p, q)
      <4>1. \/ \E m \in Msg : new[p][q] = Append(Chan[p][q], m)
            \/ Chan[p][q] # <<>> /\ new[p][q] = Tail(Chan[p][q])
        BY <3>1, <3>4 DEF Shrinks, Grows
      <4>2. new = [Chan EXCEPT ![p][q] = new[p][q]]
        BY <3>1, <3>2
      <4> HIDE DEF new
      <4>3. \E x, y \in Proc :
               /\ \/ \E m \in Msg : new[x][y] = Append(Chan[x][y], m)
                  \/ Chan[x][y] # <<>> /\ new[x][y] = Tail(Chan[x][y])
               /\ new = [Chan EXCEPT ![x][y] = new[x][y]]
        BY <4>1, <4>2
      <4>4. QED
        BY <2>1, <4>3 DEF Channel!Next
    <3>5. QED
      BY <2>3, <3>3, <3>4 DEF OneMoves
  <2>4. QED
    BY <2>2, <2>3, NextChan DEF Moves
<1>3. QED
  BY <1>1, <1>2, ChanAlways, PTL DEF Spec, ImplementsChannel, Channel!Spec

=============================================================================
