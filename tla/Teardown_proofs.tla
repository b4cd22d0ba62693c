--------------------------- MODULE Teardown_proofs ---------------------------
(***************************************************************************)
(* The reference counts of module Teardown are exact in every state, for   *)
(* every number of calls: VCRTs count their communicators, VCs their VCRTs *)
(* and the connection, process groups the VCs in use.                      *)
(***************************************************************************)
EXTENDS Teardown, FiniteSetTheorems, SequenceTheorems, TLAPS

-----------------------------------------------------------------------------
(***************************************************************************)
(* The inductive invariant.  Which communicators a program has follows     *)
(* from the calls it made: Live(cs, n) after the first n of them.          *)
(***************************************************************************)
Makes == {"connect", "dup", "merge"}
Ends == {"free", "disconnect"}
OnComm == {"dup", "merge", "send", "free", "disconnect"}
CallRecord == [op : OnComm \cup {"connect", "finalize"}, comm : Nat]
              \cup [op : {"send"}, comm : Nat, from : Proc]

Live(cs, n) == {k \in 1..n : /\ cs[k].op \in Makes
                             /\ \A j \in (k + 1)..n : ~(cs[j].op \in Ends /\ cs[j].comm = k)}

(* A call has its effect on the communicators before its last phase.       *)
Done(p) == IF phase[p] \in {"sync", "closing", "finalized"} THEN at[p] + 1 ELSE at[p]

PhaseOf(op) ==
  CASE op = "connect" -> {"exchange", "sync"}
    [] op \in {"dup", "merge", "send"} -> {"vc", "wait"}
    [] op = "disconnect" -> {"closing"}
    [] op = "finalize" -> {"closing", "finalized"}
    [] OTHER -> {}

(* The programs name only communicators that they have at that point.      *)
CallInv ==
  /\ calls \in Seq(CallRecord)
  /\ Len(calls) <= MaxCalls
  /\ \A k \in 1..Len(calls) : calls[k].op \in OnComm => calls[k].comm \in Live(calls, k - 1)

(* Where a program is.                                                     *)
PlaceInv(p) ==
  /\ at[p] \in 0..Len(calls)
  /\ phase[p] # "idle" => at[p] < Len(calls) /\ phase[p] \in PhaseOf(calls[at[p] + 1].op)
  /\ DOMAIN comm[p] = Live(calls, Done(p))
  /\ \A c \in DOMAIN comm[p] : comm[p][c] \in 1..Done(p)

(***************************************************************************)
(* The reference counts of one program as values: g is its record of the   *)
(* peer's group, v its counts of VCRTs, f its communicators.               *)
(***************************************************************************)
Group == [known : BOOLEAN, ref : Nat, vcref : Nat]
Users(f, t) == {c \in DOMAIN f : f[c] = t}
Tables(v) == {t \in Comm : v[t] > 0}

Refs(g, v, f, closing) ==
  /\ \A t \in Comm : v[t] = Cardinality(Users(f, t))
  /\ \/ g.vcref = Cardinality(Tables(v)) + 1
     \/ g.vcref = 0 /\ Tables(v) = {}
  /\ g.ref = IF g.vcref > 0 \/ closing THEN 1 ELSE 0
  /\ g.known <=> g.ref > 0

(***************************************************************************)
(* Before it finalizes, a program closes a VC only inside a disconnect.    *)
(* What it has open when it finalizes is closed by then or keeps its VC,   *)
(* so that no release follows.                                             *)
(***************************************************************************)
Finalizing(p) == In(p, "finalize") /\ phase[p] # "idle"

CountInv(p) ==
  /\ ~Finalizing(p) =>
       /\ ~ClosingVC(p) => Refs(pg[p], vcrt[p], comm[p], FALSE) /\ outstanding[p] = 0
       /\ ClosingVC(p) => /\ Refs(pg[p], vcrt[p], comm[p], TRUE) /\ outstanding[p] = 1
                          /\ phase[p] = "closing" /\ pg[p].vcref = 0
  /\ Finalizing(p) => (pg[p].vcref = 0 => ~pg[p].known)

Phases == {"idle", "exchange", "sync", "vc", "wait", "closing", "finalized"}

TypeInv ==
  /\ vcState \in [Proc -> [Proc -> Close!VCStates]]
  /\ outstanding \in [Proc -> Int]
  /\ pg \in [Proc -> Group]
  /\ vcrt \in [Proc -> [Comm -> Nat]]
  /\ at \in [Proc -> Nat]
  /\ phase \in [Proc -> Phases]
  /\ unread \in [Proc -> Nat]
  /\ comm = [p \in Proc |-> comm[p]]

TeardownInv == TypeInv /\ CallInv /\ \A p \in Proc : PlaceInv(p) /\ CountInv(p)

-----------------------------------------------------------------------------
(***************************************************************************)
(* The two programs are each other's peer.                                 *)
(***************************************************************************)
LEMMA PeerFacts == ASSUME NEW p \in Proc PROVE Peer(p) \in Proc /\ Peer(p) # p
<1>1. \E q \in Proc : q # p
  <2>1. SUFFICES ASSUME Proc \ {p} = {} PROVE FALSE
    OBVIOUS
  <2>2. Cardinality(Proc \ {p}) = 1
    BY FS_RemoveElement, TeardownAssumption
  <2>3. QED
    BY <2>1, <2>2, FS_EmptySet
<1>2. QED
  BY <1>1 DEF Peer

(***************************************************************************)
(* What a call does to the communicators a program has.                    *)
(***************************************************************************)
LEMMA LiveStep ==
  ASSUME NEW cs, NEW n \in Nat
  PROVE  /\ Live(cs, n) \subseteq 1..n
         /\ cs[n + 1].op \in Makes => Live(cs, n + 1) = Live(cs, n) \cup {n + 1}
         /\ cs[n + 1].op \in Ends => Live(cs, n + 1) = Live(cs, n) \ {cs[n + 1].comm}
         /\ cs[n + 1].op \notin Makes \cup Ends => Live(cs, n + 1) = Live(cs, n)
<1>1. 1..(n + 1) = 1..n \cup {n + 1} /\ n + 1 \notin 1..n
  OBVIOUS
<1>2. \A k \in 1..n : (k + 1)..(n + 1) = (k + 1)..n \cup {n + 1}
  OBVIOUS
<1>3. (n + 2)..(n + 1) = {}
  OBVIOUS
<1>4. Live(cs, n) \subseteq 1..n
  BY DEF Live
<1>5. CASE cs[n + 1].op \in Makes
  <2>1. cs[n + 1].op \notin Ends
    BY <1>5 DEF Makes, Ends
  <2>2. n + 1 \in Live(cs, n + 1)
    BY <1>1, <1>3, <1>5 DEF Live
  <2>3. \A k \in 1..n : k \in Live(cs, n + 1) <=> k \in Live(cs, n)
    BY <1>1, <1>2, <2>1 DEF Live
  <2>4. Live(cs, n + 1) \subseteq 1..(n + 1)
    BY DEF Live
  <2>5. QED
    BY <1>1, <1>4, <1>5, <2>1, <2>2, <2>3, <2>4
<1>6. CASE cs[n + 1].op \notin Makes
  <2>1. n + 1 \notin Live(cs, n + 1)
    BY <1>6 DEF Live
  <2>2. \A k \in 1..n : k \in Live(cs, n + 1) <=>
          k \in Live(cs, n) /\ ~(cs[n + 1].op \in Ends /\ cs[n + 1].comm = k)
    BY <1>1, <1>2 DEF Live
  <2>3. Live(cs, n + 1) \subseteq 1..(n + 1)
    BY DEF Live
  <2>4. QED
    BY <1>1, <1>4, <1>6, <2>1, <2>2, <2>3
<1>7. QED
  BY <1>5, <1>6, <1>4

LEMMA LiveAppend ==
  ASSUME NEW cs \in Seq(CallRecord), NEW c, NEW n \in 0..Len(cs)
  PROVE  Live(Append(cs, c), n) = Live(cs, n)
<1>1. \A k \in 1..n : Append(cs, c)[k] = cs[k]
  OBVIOUS
<1>2. \A k \in 1..n : \A j \in (k + 1)..n : j \in 1..n
  OBVIOUS
<1>3. QED
  BY <1>1, <1>2 DEF Live

-----------------------------------------------------------------------------
Extend(f, n, t) == [c \in DOMAIN f \cup {n} |-> IF c = n THEN t ELSE f[c]]
Without(f, n) == [c \in DOMAIN f \ {n} |-> f[c]]
First(v, t) == [v EXCEPT ![t] = 1]
More(v, t) == [v EXCEPT ![t] = @ + 1]
Less(v, t) == [v EXCEPT ![t] = @ - 1]
Dup(g) == Dup_vcr([g EXCEPT !.known = TRUE])
Release(g, d) == [g EXCEPT !.vcref = VC_release(@, d)]

LEMMA TablesFinite == ASSUME NEW v PROVE IsFiniteSet(Tables(v)) /\ Cardinality(Tables(v)) \in Nat
<1>1. IsFiniteSet(Comm)
  BY FS_Interval, TeardownAssumption DEF Comm
<1>2. Tables(v) \in SUBSET Comm
  BY DEF Tables
<1>3. QED
  BY <1>1, <1>2, FS_Subset, FS_CardinalityType

LEMMA UsersFinite ==
  ASSUME NEW f, IsFiniteSet(DOMAIN f), NEW t
  PROVE  IsFiniteSet(Users(f, t)) /\ Cardinality(Users(f, t)) \in Nat
<1>1. Users(f, t) \in SUBSET DOMAIN f
  BY DEF Users
<1>2. QED
  BY <1>1, FS_Subset, FS_CardinalityType

(***************************************************************************)
(* A communicator more, and one less.                                      *)
(***************************************************************************)
LEMMA ExtendUsers ==
  ASSUME NEW f, IsFiniteSet(DOMAIN f), NEW n, n \notin DOMAIN f, NEW t
  PROVE  /\ Cardinality(Users(Extend(f, n, t), t)) = Cardinality(Users(f, t)) + 1
         /\ \A s : s # t => Users(Extend(f, n, t), s) = Users(f, s)
<1>1. Users(Extend(f, n, t), t) = Users(f, t) \cup {n}
  BY DEF Users, Extend
<1>2. n \notin Users(f, t)
  BY DEF Users
<1>3. \A s : s # t => Users(Extend(f, n, t), s) = Users(f, s)
  BY DEF Users, Extend
<1>4. QED
  BY <1>1, <1>2, <1>3, UsersFinite, FS_AddElement

LEMMA WithoutUsers ==
  ASSUME NEW f, IsFiniteSet(DOMAIN f), NEW n \in DOMAIN f
  PROVE  /\ Cardinality(Users(Without(f, n), f[n])) = Cardinality(Users(f, f[n])) - 1
         /\ \A s : s # f[n] => Users(Without(f, n), s) = Users(f, s)
<1>1. Users(Without(f, n), f[n]) = Users(f, f[n]) \ {n}
  BY DEF Users, Without
<1>2. n \in Users(f, f[n])
  BY DEF Users
<1>3. \A s : s # f[n] => Users(Without(f, n), s) = Users(f, s)
  BY DEF Users, Without
<1>4. QED
  BY <1>1, <1>2, <1>3, UsersFinite, FS_RemoveElement

(***************************************************************************)
(* MPI_Comm_connect and MPI_Intercomm_merge: a table and a communicator.   *)
(***************************************************************************)
LEMMA NewTableRefs ==
  ASSUME NEW g \in Group, NEW v \in [Comm -> Nat], NEW f, IsFiniteSet(DOMAIN f),
         NEW n \in Comm, n \notin DOMAIN f, \A c \in DOMAIN f : f[c] # n,
         Refs(g, v, f, FALSE)
  PROVE  Dup(g) \in Group /\ Refs(Dup(g), First(v, n), Extend(f, n, n), FALSE)
<1> DEFINE h == Dup(g)
           w == First(v, n)
<1>1. v[n] = 0 /\ Users(f, n) = {}
  <2>1. Users(f, n) = {}
    BY DEF Users
  <2>2. QED
    BY <2>1, FS_EmptySet DEF Refs
<1>2. Tables(w) = Tables(v) \cup {n} /\ n \notin Tables(v)
  BY <1>1 DEF Tables, First
<1>3. Cardinality(Tables(w)) = Cardinality(Tables(v)) + 1
  BY <1>2, TablesFinite, FS_AddElement
<1>4. \A t \in Comm : w[t] = Cardinality(Users(Extend(f, n, n), t))
  BY <1>1, ExtendUsers, FS_EmptySet DEF Refs, First
<1>5. /\ h \in Group
      /\ h.vcref = IF g.vcref = 0 THEN 2 ELSE g.vcref + 1
      /\ h.ref = IF g.vcref = 0 THEN g.ref + 1 ELSE g.ref
      /\ h.known = TRUE
  <2> DEFINE k == [g EXCEPT !.known = TRUE]
  <2>1. k \in Group /\ k.vcref = g.vcref /\ k.ref = g.ref /\ k.known = TRUE
    BY DEF Group
  <2>a. h = Dup_vcr(k)
    BY DEF Dup
  <2> HIDE DEF k, h
  <2>2. CASE k.vcref = 0
    <3>1. Dup_vcr(k) = [known |-> TRUE, ref |-> k.ref + 1, vcref |-> 2]
      BY <2>1, <2>2 DEF Dup_vcr, Group
    <3>2. QED
      BY <2>1, <2>2, <3>1, <2>a DEF Group
  <2>3. CASE k.vcref # 0
    <3>1. Dup_vcr(k) = [k EXCEPT !.vcref = @ + 1]
      BY <2>3 DEF Dup_vcr
    <3>2. QED
      BY <2>1, <2>3, <3>1, <2>a DEF Group
  <2>4. QED
    BY <2>2, <2>3
<1>6. Cardinality(Tables(v)) \in Nat /\ (Tables(v) = {} => Cardinality(Tables(v)) = 0)
  BY TablesFinite, FS_EmptySet
<1>7. h.vcref = Cardinality(Tables(w)) + 1
  BY <1>3, <1>5, <1>6 DEF Refs
<1>8. h.ref = 1
  BY <1>5, <1>6 DEF Refs, Group
<1> HIDE DEF h, w
<1>9. QED
  <2>1. h.vcref > 0
    BY <1>3, <1>6, <1>7
  <2>2. Refs(h, w, Extend(f, n, n), FALSE)
    BY <1>4, <1>5, <1>7, <1>8, <2>1 DEF Refs
  <2>3. QED
    BY <1>5, <2>1, <2>2 DEF h, w

(***************************************************************************)
(* MPI_Comm_dup: a communicator of a table there is.                       *)
(***************************************************************************)
LEMMA ShareTableRefs ==
  ASSUME NEW g \in Group, NEW v \in [Comm -> Nat], NEW f, IsFiniteSet(DOMAIN f),
         NEW n, n \notin DOMAIN f, NEW c \in DOMAIN f, f[c] \in Comm, NEW closing,
         Refs(g, v, f, closing)
  PROVE  Refs(g, More(v, f[c]), Extend(f, n, f[c]), closing)
<1> DEFINE w == More(v, f[c])
<1>1. v[f[c]] > 0
  <2>1. c \in Users(f, f[c])
    BY DEF Users
  <2>2. QED
    BY <2>1, UsersFinite, FS_EmptySet DEF Refs
<1>2. Tables(w) = Tables(v)
  BY <1>1 DEF Tables, More
<1>3. \A t \in Comm : w[t] = Cardinality(Users(Extend(f, n, f[c]), t))
  BY ExtendUsers DEF Refs, More
<1> HIDE DEF w
<1>4. QED
  BY <1>2, <1>3 DEF Refs, w

(***************************************************************************)
(* MPIDI_PG_release_ref of a group whose last VC is no longer used.        *)
(***************************************************************************)
LEMMA LastRefs ==
  ASSUME NEW g \in Group, NEW v, NEW f, Refs(g, v, f, TRUE), g.vcref = 0
  PROVE  PG_release(g) \in Group /\ Refs(PG_release(g), v, f, FALSE)
<1>1. g.ref = 1 /\ Tables(v) = {}
  <2>1. Cardinality(Tables(v)) \in Nat
    BY TablesFinite
  <2>2. QED
    BY <2>1 DEF Refs
<1>2. PG_release(g) = NoGroup
  BY <1>1 DEF PG_release
<1>3. NoGroup \in Group /\ NoGroup.vcref = 0 /\ NoGroup.ref = 0 /\ NoGroup.known = FALSE
  BY DEF NoGroup, Group
<1>4. QED
  BY <1>1, <1>2, <1>3 DEF Refs

(***************************************************************************)
(* MPID_VCRT_Release: a table loses a user; after the last one the VC      *)
(* loses a table, and stays unless this is a disconnect.                   *)
(***************************************************************************)
LEMMA ReleaseRefs ==
  ASSUME NEW g \in Group, NEW v \in [Comm -> Nat], NEW f, IsFiniteSet(DOMAIN f),
         NEW n \in DOMAIN f, f[n] \in Comm, Refs(g, v, f, FALSE), NEW d \in BOOLEAN
  PROVE  /\ Less(v, f[n]) \in [Comm -> Nat]
         /\ Release(g, d) \in Group
         /\ v[f[n]] # 1 => Refs(g, Less(v, f[n]), Without(f, n), FALSE)
         /\ v[f[n]] = 1 /\ Release(g, d).vcref # 0 =>
              Refs(Release(g, d), Less(v, f[n]), Without(f, n), FALSE)
         /\ v[f[n]] = 1 /\ Release(g, d).vcref = 0 =>
              d /\ Refs(Release(g, d), Less(v, f[n]), Without(f, n), TRUE)
<1> DEFINE w == Less(v, f[n])
           h == Release(g, d)
           m == Without(f, n)
<1>1. /\ v[f[n]] \in Nat \ {0}
      /\ w \in [Comm -> Nat]
      /\ \A t \in Comm : w[t] = Cardinality(Users(m, t))
      /\ g.vcref = Cardinality(Tables(v)) + 1 /\ g.vcref >= 2 /\ g.ref = 1 /\ g.known
      /\ v[f[n]] # 1 => Tables(w) = Tables(v)
      /\ v[f[n]] = 1 => Cardinality(Tables(w)) = Cardinality(Tables(v)) - 1
  <2>1. v[f[n]] \in Nat \ {0}
    <3>1. n \in Users(f, f[n])
      BY DEF Users
    <3>2. QED
      BY <3>1, UsersFinite, FS_EmptySet DEF Refs
  <2>2. w \in [Comm -> Nat]
    BY <2>1 DEF Less
  <2>3. \A t \in Comm : w[t] = Cardinality(Users(Without(f, n), t))
    BY WithoutUsers DEF Refs, Less
  <2>4. f[n] \in Tables(v)
    BY <2>1 DEF Tables
  <2>5. g.vcref = Cardinality(Tables(v)) + 1 /\ g.vcref >= 2 /\ g.ref = 1 /\ g.known
    <3>1. Cardinality(Tables(v)) \in Nat \ {0}
      BY <2>4, TablesFinite, FS_EmptySet
    <3>2. QED
      BY <2>4, <3>1 DEF Refs, Group
  <2>6. v[f[n]] # 1 => Tables(w) = Tables(v)
    BY <2>1, <2>4 DEF Tables, Less
  <2>7. ASSUME v[f[n]] = 1 PROVE Cardinality(Tables(w)) = Cardinality(Tables(v)) - 1
    <3>1. Tables(w) = Tables(v) \ {f[n]}
      BY <2>1, <2>7 DEF Tables, Less
    <3>2. IsFiniteSet(Tables(v))
      BY TablesFinite
    <3>3. QED
      BY ONLY <2>4, <3>1, <3>2, FS_RemoveElement
  <2>8. QED
    BY <2>1, <2>2, <2>3, <2>5, <2>6, <2>7
<1>2. h \in Group /\ h.vcref = VC_release(g.vcref, d) /\ h.ref = g.ref /\ h.known = g.known
  <2>1. VC_release(g.vcref, d) \in Nat
    BY <1>1 DEF VC_release, Group
  <2>2. QED
    BY <2>1 DEF Group, Release
<1>3. /\ IsFiniteSet(Tables(v)) /\ Cardinality(Tables(v)) \in Nat
      /\ IsFiniteSet(Tables(w)) /\ Cardinality(Tables(w)) \in Nat
      /\ Cardinality(Tables(w)) = 0 <=> Tables(w) = {}
  BY TablesFinite, FS_EmptySet
<1> HIDE DEF w, h, m
<1>4. v[f[n]] # 1 => Refs(g, w, m, FALSE)
  BY <1>1, <1>3 DEF Refs, Group
<1>5. ASSUME v[f[n]] = 1, h.vcref # 0 PROVE Refs(h, w, m, FALSE)
  <2>1. h.vcref = Cardinality(Tables(w)) + 1 /\ h.vcref > 0
    BY <1>1, <1>2, <1>3, <1>5 DEF VC_release, Group
  <2>2. QED
    BY <1>1, <1>2, <2>1 DEF Refs
<1>6. ASSUME v[f[n]] = 1, h.vcref = 0 PROVE d /\ Refs(h, w, m, TRUE)
  <2>1. d /\ Tables(w) = {}
    BY <1>1, <1>2, <1>3, <1>6 DEF VC_release, Group
  <2>2. QED
    BY <1>1, <1>2, <1>6, <2>1 DEF Refs
<1>7. QED
  BY <1>1, <1>2, <1>4, <1>5, <1>6 DEF w, h, m

-----------------------------------------------------------------------------
(***************************************************************************)
(* What the steps of the close protocol do to the VC of p and to its       *)
(* count of closes.                                                        *)
(***************************************************************************)
VC(p) == vcState[p][Peer(p)]
MoveVC(p) == \E s \in Close!VCStates : vcState' = [vcState EXCEPT ![p][Peer(p)] = s]

LEMMA MoveFacts ==
  ASSUME TypeInv, NEW p \in Proc, MoveVC(p)
  PROVE  /\ vcState' \in [Proc -> [Proc -> Close!VCStates]]
         /\ \A q \in Proc \ {p} : VC(q)' = VC(q)
BY PeerFacts DEF TypeInv, MoveVC, VC

LEMMA SetVC ==
  ASSUME TypeInv, NEW p \in Proc, NEW s \in Close!VCStates,
         vcState' = Close!Set(vcState, p, Peer(p), s)
  PROVE  MoveVC(p) /\ VC(p)' = s
BY PeerFacts DEF TypeInv, MoveVC, VC, Close!Set

LEMMA SameVC ==
  ASSUME TypeInv, NEW p \in Proc, vcState' = vcState
  PROVE  MoveVC(p) /\ VC(p)' = VC(p)
<1>1. VC(p) \in Close!VCStates /\ vcState = [vcState EXCEPT ![p][Peer(p)] = VC(p)]
  BY PeerFacts DEF TypeInv, VC
<1>2. QED
  BY <1>1 DEF MoveVC, VC

LEMMA GetVC ==
  ASSUME TypeInv, NEW p \in Proc, Comm_get_vc(p)
  PROVE  /\ MoveVC(p) /\ outstanding' = outstanding
         /\ VC(p)' = IF VC(p) = "INACTIVE" THEN "ACTIVE" ELSE VC(p)
BY SetVC, SameVC DEF Comm_get_vc, VC, Close!VCStates

LEMMA SendCloseVC ==
  ASSUME TypeInv, NEW p \in Proc, Close!VC_SendClose(p, Peer(p))
  PROVE  /\ MoveVC(p)
         /\ VC(p) \in {"ACTIVE", "REMOTE_CLOSE"}
         /\ VC(p)' \in {"LOCAL_CLOSE", "CLOSE_ACKED"}
         /\ outstanding' = [outstanding EXCEPT ![p] = @ + 1]
BY SetVC DEF Close!VC_SendClose, VC, Close!VCStates

LEMMA RecvVC ==
  ASSUME TypeInv, NEW p \in Proc,
         \/ Close!RecvOpen(p, Peer(p)) \/ Close!RecvData(p, Peer(p))
         \/ Close!PktHandler_Close(p, Peer(p))
  PROVE  /\ MoveVC(p) /\ outstanding' = outstanding
         /\ VC(p)' \in {"LOCAL_CLOSE", "CLOSE_ACKED"} <=> VC(p) \in {"LOCAL_CLOSE", "CLOSE_ACKED"}
<1>1. CASE Close!RecvOpen(p, Peer(p))
  BY <1>1, SetVC, SameVC DEF Close!RecvOpen, VC, Close!VCStates
<1>2. CASE Close!RecvData(p, Peer(p))
  <2>1. vcState' = vcState /\ outstanding' = outstanding
    BY <1>2 DEF Close!RecvData
  <2>2. QED
    BY <2>1, SameVC
<1>3. CASE Close!PktHandler_Close(p, Peer(p))
  BY <1>3, SetVC DEF Close!PktHandler_Close, Close!CloseExpected, Close!CloseState, VC, Close!VCStates
<1>4. QED
  BY <1>1, <1>2, <1>3

LEMMA TerminateVC ==
  ASSUME TypeInv, NEW p \in Proc, Close!Handle_connection(p, Peer(p))
  PROVE  /\ MoveVC(p)
         /\ VC(p) = "CLOSE_ACKED" /\ VC(p)' = "INACTIVE"
         /\ outstanding' = [outstanding EXCEPT ![p] = @ - 1]
BY SetVC DEF Close!Handle_connection, VC, Close!VCStates

-----------------------------------------------------------------------------
(***************************************************************************)
(* A step of p leaves what the invariant says of the other program alone.  *)
(***************************************************************************)
Alone(p) ==
  /\ TypeInv'
  /\ calls' = calls
  /\ \A q \in Proc \ {p} :
       /\ at'[q] = at[q] /\ phase'[q] = phase[q] /\ comm'[q] = comm[q]
       /\ pg'[q] = pg[q] /\ vcrt'[q] = vcrt[q]
       /\ outstanding'[q] = outstanding[q] /\ VC(q)' = VC(q)

Step(p) == Alone(p) /\ PlaceInv(p)' /\ CountInv(p)'

LEMMA OthersKeep ==
  ASSUME TeardownInv, NEW p \in Proc, Step(p)
  PROVE  TeardownInv'
<1>1. CallInv'
  BY DEF TeardownInv, CallInv, Step, Alone
<1>2. ASSUME NEW q \in Proc \ {p} PROVE PlaceInv(q)' /\ CountInv(q)'
  <2>1. PlaceInv(q) /\ CountInv(q)
    BY DEF TeardownInv
  <2>2. /\ at'[q] = at[q] /\ phase'[q] = phase[q] /\ comm'[q] = comm[q]
        /\ pg'[q] = pg[q] /\ vcrt'[q] = vcrt[q] /\ calls' = calls
        /\ outstanding'[q] = outstanding[q] /\ vcState'[q][Peer(q)] = vcState[q][Peer(q)]
    BY DEF Step, Alone, VC
  <2>3. PlaceInv(q)'
    BY <2>1, <2>2 DEF PlaceInv, Done
  <2>4. Finalizing(q)' <=> Finalizing(q)
    BY <2>2 DEF Finalizing, In, CallNo
  <2>5. ClosingVC(q)' <=> ClosingVC(q)
    BY <2>2 DEF ClosingVC
  <2>6. CountInv(q)'
    BY <2>1, <2>2, <2>4, <2>5 DEF CountInv
  <2>7. QED
    BY <2>3, <2>6
<1>3. QED
  BY <1>1, <1>2 DEF TeardownInv, Step, Alone

(***************************************************************************)
(* What the invariant says of p between two steps.                         *)
(***************************************************************************)
Op(p) == calls[at[p] + 1].op

LEMMA Here ==
  ASSUME TeardownInv, NEW p \in Proc, at[p] < Len(calls)
  PROVE  /\ at[p] \in Nat /\ at[p] + 1 \in 1..Len(calls) /\ at[p] + 1 \in Comm
         /\ Op(p) \in OnComm \cup {"connect", "finalize"}
         /\ Op(p) \in OnComm => CommOf(p) \in Live(calls, at[p])
         /\ \A op : In(p, op) <=> Op(p) = op
<1>1. at[p] \in Nat /\ at[p] + 1 \in 1..Len(calls) /\ Len(calls) \in Nat
  BY DEF TeardownInv, PlaceInv, CallInv
<1>2. at[p] + 1 \in Comm
  BY <1>1, TeardownAssumption DEF Comm, TeardownInv, CallInv
<1>3. calls[at[p] + 1] \in CallRecord
  BY <1>1 DEF TeardownInv, CallInv
<1>4. Op(p) \in OnComm => CommOf(p) \in Live(calls, at[p])
  BY <1>1 DEF TeardownInv, CallInv, CommOf, CallNo, Op
<1>5. QED
  BY <1>1, <1>2, <1>3, <1>4 DEF CallRecord, OnComm, Op, In, CallNo

(***************************************************************************)
(* A step of another call than MPI_Finalize.                               *)
(***************************************************************************)
LEMMA NotFinalizing ==
  ASSUME TeardownInv, NEW p \in Proc, Op(p) # "finalize",
         (\E ph \in Phases : Goto(p, ph)) \/ Return(p)
  PROVE  ~Finalizing(p) /\ ~Finalizing(p)'
<1>1. ~Finalizing(p)
  BY DEF Finalizing, In, CallNo, Op
<1>2. ASSUME NEW ph \in Phases, Goto(p, ph) PROVE ~Finalizing(p)'
  <2>1. at' = at /\ calls' = calls
    BY <1>2 DEF Goto
  <2>2. QED
    BY <2>1 DEF Finalizing, In, CallNo, Op
<1>3. ASSUME Return(p) PROVE ~Finalizing(p)'
  BY <1>3 DEF TeardownInv, TypeInv, Return, Finalizing
<1>4. QED
  BY <1>1, <1>2, <1>3

(***************************************************************************)
(* A new table and its communicator, where the caller has no VC closing.   *)
(***************************************************************************)
LEMMA NewVCRTStep ==
  ASSUME TeardownInv, NEW p \in Proc, NewVCRT(p), at[p] < Len(calls), Done(p) = at[p],
         ~Finalizing(p), ~ClosingVC(p), Op(p) \in Makes
  PROVE  /\ pg' \in [Proc -> Group] /\ vcrt' \in [Proc -> [Comm -> Nat]]
         /\ comm' = [q \in Proc |-> comm'[q]]
         /\ \A q \in Proc \ {p} : pg'[q] = pg[q] /\ vcrt'[q] = vcrt[q] /\ comm'[q] = comm[q]
         /\ Refs(pg'[p], vcrt'[p], comm'[p], FALSE)
         /\ DOMAIN comm'[p] = Live(calls, at[p] + 1)
         /\ \A c \in DOMAIN comm'[p] : comm'[p][c] \in 1..(at[p] + 1)
<1> DEFINE n == at[p] + 1
<1>1. at[p] \in Nat /\ n \in 1..Len(calls) /\ n \in Comm
  BY Here
<1>2. TypeInv /\ PlaceInv(p) /\ CountInv(p)
  BY DEF TeardownInv
<1>3. /\ vcrt' = [vcrt EXCEPT ![p] = First(vcrt[p], n)]
      /\ pg' = [pg EXCEPT ![p] = Dup(pg[p])]
      /\ comm' = [comm EXCEPT ![p] = Extend(comm[p], n, n)]
  <2>1. /\ vcrt' = [vcrt EXCEPT ![p][n] = 1]
        /\ pg' = [pg EXCEPT ![p] = Dup(pg[p])]
        /\ comm' = [comm EXCEPT ![p] = Extend(comm[p], n, n)]
    BY DEF NewVCRT, NewComm, CallNo, Extend, Dup
  <2>2. QED
    BY <1>2, <2>1 DEF TypeInv, First
<1>4. DOMAIN comm[p] = Live(calls, at[p]) /\ DOMAIN comm[p] \subseteq 1..at[p]
  BY <1>1, <1>2, LiveStep DEF PlaceInv
<1>5. /\ IsFiniteSet(DOMAIN comm[p]) /\ n \notin DOMAIN comm[p]
      /\ \A c \in DOMAIN comm[p] : comm[p][c] # n
  <2>1. IsFiniteSet(1..at[p])
    BY <1>1, FS_Interval
  <2>2. QED
    BY <1>1, <1>2, <1>4, <2>1, FS_Subset DEF PlaceInv
<1>6. Refs(pg[p], vcrt[p], comm[p], FALSE) /\ pg[p] \in Group /\ vcrt[p] \in [Comm -> Nat]
  BY <1>2 DEF CountInv, TypeInv
<1>7. pg'[p] \in Group /\ Refs(pg'[p], vcrt'[p], comm'[p], FALSE)
  BY <1>1, <1>2, <1>3, <1>5, <1>6, NewTableRefs DEF TypeInv
<1>8. DOMAIN comm'[p] = Live(calls, n)
  BY <1>1, <1>2, <1>3, <1>4, LiveStep DEF Extend, TypeInv, Op
<1>9. \A c \in DOMAIN comm'[p] : comm'[p][c] \in 1..n
  BY <1>1, <1>2, <1>3 DEF Extend, TypeInv, PlaceInv
<1>10. First(vcrt[p], n) \in [Comm -> Nat]
  BY <1>6 DEF First
<1>11. QED
  BY <1>2, <1>3, <1>7, <1>8, <1>9, <1>10 DEF TypeInv

(***************************************************************************)
(* MPI_Comm_connect and MPI_Comm_accept.                                   *)
(***************************************************************************)
LEMMA ConnectStep ==
  ASSUME TeardownInv, NEW p \in Proc, Connect(p)
  PROVE  Step(p)
<1>1. /\ at[p] < Len(calls) /\ Op(p) = "connect"
      /\ at[p] \in Nat /\ at[p] + 1 \in 1..Len(calls) /\ at[p] + 1 \in Comm
  BY Here DEF Connect, In
<1>2. ~Finalizing(p) /\ ~Finalizing(p)'
  BY <1>1, NotFinalizing DEF Connect, Phases
<1>3. TypeInv /\ PlaceInv(p) /\ CountInv(p)
  BY DEF TeardownInv
<1>4. vcState' = vcState /\ outstanding' = outstanding /\ unread' = unread /\ calls' = calls
  BY DEF Connect, closeVars, Goto, Return
<1>5. VC(p)' = VC(p) /\ (\A q \in Proc : VC(q)' = VC(q)) /\ (ClosingVC(p)' <=> ClosingVC(p))
  BY <1>4 DEF VC, ClosingVC
<1>6. CASE phase[p] = "idle" /\ Goto(p, "exchange") /\ UNCHANGED <<pg, vcrt, comm>>
  <2>1. /\ phase' = [phase EXCEPT ![p] = "exchange"] /\ at' = at
        /\ pg' = pg /\ vcrt' = vcrt /\ comm' = comm
    BY <1>6 DEF Goto
  <2>2. Alone(p)
    BY <1>3, <1>4, <1>5, <2>1 DEF Alone, TypeInv, Phases
  <2>3. Done(p)' = Done(p)
    BY <1>3, <1>6, <2>1 DEF Done, TypeInv
  <2>4. PlaceInv(p)'
    BY <1>1, <1>3, <1>4, <2>1, <2>3 DEF PlaceInv, PhaseOf, Op, TypeInv
  <2>5. CountInv(p)'
    BY <1>2, <1>3, <1>4, <1>5, <1>6, <2>1 DEF CountInv
  <2>6. QED
    BY <2>2, <2>4, <2>5 DEF Step
<1>7. CASE phase[p] = "exchange" /\ NewVCRT(p) /\ Goto(p, "sync")
  <2>1. phase' = [phase EXCEPT ![p] = "sync"] /\ at' = at
    BY <1>7 DEF Goto
  <2>2. Done(p) = at[p] /\ Done(p)' = at[p] + 1
    BY <1>3, <1>4, <1>7, <2>1 DEF Done, TypeInv
  <2>3. ~ClosingVC(p) /\ outstanding[p] = 0
    BY <1>2, <1>3, <1>7 DEF CountInv
  <2>4. /\ pg' \in [Proc -> Group] /\ vcrt' \in [Proc -> [Comm -> Nat]]
        /\ comm' = [q \in Proc |-> comm'[q]]
        /\ \A q \in Proc \ {p} : pg'[q] = pg[q] /\ vcrt'[q] = vcrt[q] /\ comm'[q] = comm[q]
        /\ Refs(pg'[p], vcrt'[p], comm'[p], FALSE)
        /\ DOMAIN comm'[p] = Live(calls, at[p] + 1)
        /\ \A c \in DOMAIN comm'[p] : comm'[p][c] \in 1..(at[p] + 1)
    BY <1>1, <1>2, <1>7, <2>2, <2>3, NewVCRTStep DEF Makes
  <2>5. Alone(p)
    BY <1>3, <1>4, <1>5, <2>1, <2>4 DEF Alone, TypeInv, Phases
  <2>6. PlaceInv(p)'
    BY <1>1, <1>3, <1>4, <2>1, <2>2, <2>4 DEF PlaceInv, PhaseOf, Op, TypeInv
  <2>7. CountInv(p)'
    BY <1>2, <1>4, <1>5, <2>3, <2>4 DEF CountInv
  <2>8. QED
    BY <2>5, <2>6, <2>7 DEF Step
<1>8. CASE phase[p] = "sync" /\ Return(p) /\ UNCHANGED <<pg, vcrt, comm>>
  <2>1. /\ phase' = [phase EXCEPT ![p] = "idle"] /\ at' = [at EXCEPT ![p] = @ + 1]
        /\ pg' = pg /\ vcrt' = vcrt /\ comm' = comm
    BY <1>8 DEF Return
  <2>2. Alone(p)
    BY <1>3, <1>4, <1>5, <2>1 DEF Alone, TypeInv, Phases
  <2>3. Done(p)' = Done(p)
    BY <1>3, <1>8, <2>1 DEF Done, TypeInv
  <2>4. PlaceInv(p)'
    BY <1>1, <1>3, <1>4, <2>1, <2>3 DEF PlaceInv, TypeInv
  <2>5. CountInv(p)'
    BY <1>2, <1>3, <1>4, <1>5, <1>8, <2>1 DEF CountInv
  <2>6. QED
    BY <2>2, <2>4, <2>5 DEF Step
<1>9. QED
  BY <1>6, <1>7, <1>8 DEF Connect

(***************************************************************************)
(* Steps that change no reference; steps inside a call, and its end.       *)
(***************************************************************************)
LEMMA SameCounts ==
  ASSUME NEW p, ~Finalizing(p), ~Finalizing(p)', CountInv(p),
         pg'[p] = pg[p], vcrt'[p] = vcrt[p], comm'[p] = comm[p],
         outstanding'[p] = outstanding[p], ClosingVC(p)' <=> ClosingVC(p),
         ClosingVC(p) => phase'[p] = "closing"
  PROVE  CountInv(p)'
BY DEF CountInv

LEMMA InsideCall ==
  ASSUME TeardownInv, NEW p \in Proc, at[p] < Len(calls), calls' = calls, at' = at,
         comm'[p] = comm[p], phase'[p] \in PhaseOf(Op(p)), Done(p)' = Done(p)
  PROVE  PlaceInv(p)'
BY DEF TeardownInv, PlaceInv, Op

LEMMA EndOfCall ==
  ASSUME TeardownInv, NEW p \in Proc, at[p] < Len(calls), calls' = calls, Return(p),
         DOMAIN comm'[p] = Live(calls, at[p] + 1),
         \A c \in DOMAIN comm'[p] : comm'[p][c] \in 1..(at[p] + 1)
  PROVE  PlaceInv(p)'
<1>1. at'[p] = at[p] + 1 /\ phase'[p] = "idle" /\ at[p] \in 0..Len(calls) /\ Len(calls) \in Nat
  BY DEF TeardownInv, TypeInv, Return, PlaceInv, CallInv
<1>2. Done(p)' = at[p] + 1
  BY <1>1 DEF Done
<1>3. QED
  BY <1>1, <1>2 DEF PlaceInv

(***************************************************************************)
(* A message.                                                              *)
(***************************************************************************)
LEMMA SendRecvStep ==
  ASSUME TeardownInv, NEW p \in Proc, SendRecv(p)
  PROVE  Step(p)
<1>1. /\ at[p] < Len(calls) /\ Op(p) = "send"
      /\ at[p] \in Nat /\ at[p] + 1 \in 1..Len(calls)
      /\ CommOf(p) \in Live(calls, at[p])
  BY Here DEF SendRecv, In, OnComm
<1>2. ~Finalizing(p) /\ ~Finalizing(p)'
  BY <1>1, NotFinalizing DEF SendRecv, Phases
<1>3. TypeInv /\ PlaceInv(p) /\ CountInv(p)
  BY DEF TeardownInv
<1>4. pg' = pg /\ vcrt' = vcrt /\ comm' = comm /\ calls' = calls
  BY DEF SendRecv, Goto, Return
<1>5. phase[p] \in {"idle", "vc", "wait"}
  BY DEF SendRecv
<1>6. ~ClosingVC(p)
  BY <1>2, <1>3, <1>5 DEF CountInv
<1>7. /\ MoveVC(p) /\ outstanding' = outstanding
      /\ ~ClosingVC(p)'
  <2>1. CASE Comm_get_vc(p)
    BY <1>3, <1>6, <2>1, GetVC DEF ClosingVC, VC
  <2>2. CASE UNCHANGED <<vcState, outstanding>>
    BY <1>3, <1>6, <2>2, SameVC DEF ClosingVC, VC
  <2>3. QED
    BY <2>1, <2>2 DEF SendRecv, SendData, closeVars
<1>8. /\ vcState' \in [Proc -> [Proc -> Close!VCStates]]
      /\ \A q \in Proc \ {p} : VC(q)' = VC(q)
  BY <1>3, <1>7, MoveFacts
<1>9. unread' \in [Proc -> Nat]
  <2>1. CASE Receive(p)
    BY <1>3, <2>1 DEF Receive, TypeInv
  <2>2. CASE unread' = unread
    BY <1>3, <2>2 DEF TypeInv
  <2>3. QED
    BY <2>1, <2>2 DEF SendRecv
<1>10. CountInv(p)'
  BY <1>2, <1>3, <1>4, <1>6, <1>7, SameCounts
<1>11. Done(p) = at[p]
  BY <1>5 DEF Done
<1>12. CASE \E ph \in {"vc", "wait"} : Goto(p, ph)
  <2>1. at' = at /\ \E ph \in {"vc", "wait"} : phase' = [phase EXCEPT ![p] = ph]
    BY <1>12 DEF Goto
  <2>2. Alone(p)
    BY <1>3, <1>4, <1>7, <1>8, <1>9, <2>1 DEF Alone, TypeInv, Phases
  <2>3. phase'[p] \in {"vc", "wait"} /\ Done(p)' = Done(p)
    BY <1>3, <1>11, <2>1 DEF Done, TypeInv
  <2>4. PlaceInv(p)'
    BY <1>1, <1>4, <2>1, <2>3, InsideCall DEF PhaseOf
  <2>5. QED
    BY <1>10, <2>2, <2>4 DEF Step
<1>13. CASE Return(p)
  <2>1. at' = [at EXCEPT ![p] = @ + 1] /\ phase' = [phase EXCEPT ![p] = "idle"]
    BY <1>13 DEF Return
  <2>2. Alone(p)
    BY <1>3, <1>4, <1>7, <1>8, <1>9, <2>1 DEF Alone, TypeInv, Phases
  <2>3. DOMAIN comm[p] = Live(calls, at[p] + 1)
    BY <1>1, <1>3, <1>11, LiveStep DEF PlaceInv, Op, Makes, Ends
  <2>4. \A c \in DOMAIN comm[p] : comm[p][c] \in 1..(at[p] + 1)
    BY <1>1, <1>3, <1>11 DEF PlaceInv
  <2>5. PlaceInv(p)'
    BY <1>1, <1>4, <1>13, <2>3, <2>4, EndOfCall
  <2>6. QED
    BY <1>10, <2>2, <2>5 DEF Step
<1>14. QED
  BY <1>12, <1>13 DEF SendRecv

(***************************************************************************)
(* MPI_Comm_dup and MPI_Intercomm_merge.                                   *)
(***************************************************************************)
LEMMA DupMergeStep ==
  ASSUME TeardownInv, NEW p \in Proc, DupMerge(p)
  PROVE  Step(p)
<1>1. /\ at[p] < Len(calls) /\ Op(p) \in {"dup", "merge"}
      /\ at[p] \in Nat /\ at[p] + 1 \in 1..Len(calls) /\ at[p] + 1 \in Comm
      /\ CommOf(p) \in Live(calls, at[p])
  BY Here DEF DupMerge, In, OnComm
<1>2. ~Finalizing(p) /\ ~Finalizing(p)'
  BY <1>1, NotFinalizing DEF DupMerge, Phases
<1>3. TypeInv /\ PlaceInv(p) /\ CountInv(p)
  BY DEF TeardownInv
<1>4. phase[p] \in {"idle", "vc", "wait"} /\ calls' = calls
  BY DEF DupMerge, Goto, Return
<1>5. ~ClosingVC(p)
  BY <1>2, <1>3, <1>4 DEF CountInv
<1>6. Done(p) = at[p]
  BY <1>4 DEF Done
<1>7. MoveVC(p) /\ outstanding' = outstanding /\ ~ClosingVC(p)'
  <2>1. CASE Comm_get_vc(p)
    BY <1>3, <1>5, <2>1, GetVC DEF ClosingVC, VC
  <2>2. CASE UNCHANGED <<vcState, outstanding>>
    BY <1>3, <1>5, <2>2, SameVC DEF ClosingVC, VC
  <2>3. QED
    BY <2>1, <2>2 DEF DupMerge, SendData, closeVars
<1>8. /\ vcState' \in [Proc -> [Proc -> Close!VCStates]]
      /\ \A q \in Proc \ {p} : VC(q)' = VC(q)
  BY <1>3, <1>7, MoveFacts
<1>9. CASE /\ \E ph \in {"vc", "wait"} : Goto(p, ph)
           /\ UNCHANGED <<pg, vcrt, comm, unread>>
  <2>1. at' = at /\ \E ph \in {"vc", "wait"} : phase' = [phase EXCEPT ![p] = ph]
    BY <1>9 DEF Goto
  <2>2. Alone(p)
    BY <1>3, <1>4, <1>7, <1>8, <1>9, <2>1 DEF Alone, TypeInv, Phases
  <2>3. phase'[p] \in {"vc", "wait"} /\ Done(p)' = Done(p)
    BY <1>3, <1>6, <2>1 DEF Done, TypeInv
  <2>4. PlaceInv(p)'
    BY <1>1, <1>4, <1>9, <2>1, <2>3, InsideCall DEF PhaseOf
  <2>5. CountInv(p)'
    BY <1>2, <1>3, <1>5, <1>7, <1>9, SameCounts
  <2>6. QED
    BY <2>2, <2>4, <2>5 DEF Step
<1>10. CASE phase[p] = "wait" /\ Receive(p) /\ NewFrom(p) /\ Return(p)
  <2>1. at' = [at EXCEPT ![p] = @ + 1] /\ phase' = [phase EXCEPT ![p] = "idle"]
    BY <1>10 DEF Return
  <2>2. unread' \in [Proc -> Nat]
    BY <1>3, <1>10 DEF Receive, TypeInv
  <2>3. /\ pg' \in [Proc -> Group] /\ vcrt' \in [Proc -> [Comm -> Nat]]
        /\ comm' = [q \in Proc |-> comm'[q]]
        /\ \A q \in Proc \ {p} : pg'[q] = pg[q] /\ vcrt'[q] = vcrt[q] /\ comm'[q] = comm[q]
        /\ Refs(pg'[p], vcrt'[p], comm'[p], FALSE)
        /\ DOMAIN comm'[p] = Live(calls, at[p] + 1)
        /\ \A c \in DOMAIN comm'[p] : comm'[p][c] \in 1..(at[p] + 1)
    <3>1. CASE NewVCRT(p)
      BY <1>1, <1>2, <1>5, <1>6, <3>1, NewVCRTStep DEF Makes
    <3>2. CASE In(p, "dup")
      <4> DEFINE n == at[p] + 1
                 c == CommOf(p)
                 t == comm[p][c]
      <4>1. /\ vcrt' = [vcrt EXCEPT ![p] = More(vcrt[p], t)] /\ pg' = pg
            /\ comm' = [comm EXCEPT ![p] = Extend(comm[p], n, t)]
        <5>1. /\ vcrt' = [vcrt EXCEPT ![p][t] = @ + 1] /\ pg' = pg
              /\ comm' = [comm EXCEPT ![p] = Extend(comm[p], n, t)]
          BY <1>10, <3>2 DEF NewFrom, NewComm, CallNo, Extend, In
        <5>2. QED
          BY <1>3, <5>1 DEF TypeInv, More
      <4>2. DOMAIN comm[p] = Live(calls, at[p]) /\ DOMAIN comm[p] \subseteq 1..at[p]
        BY <1>1, <1>3, <1>6, LiveStep DEF PlaceInv
      <4>3. IsFiniteSet(DOMAIN comm[p]) /\ n \notin DOMAIN comm[p]
        <5>1. IsFiniteSet(1..at[p])
          BY <1>1, FS_Interval
        <5>2. QED
          BY <1>1, <4>2, <5>1, FS_Subset
      <4>4. c \in DOMAIN comm[p] /\ t \in 1..at[p] /\ t \in Comm
        BY <1>1, <1>3, <1>6, <4>2, TeardownAssumption DEF PlaceInv, Comm
      <4>5. Refs(pg[p], vcrt[p], comm[p], FALSE) /\ pg[p] \in Group /\ vcrt[p] \in [Comm -> Nat]
        BY <1>2, <1>3, <1>5 DEF CountInv, TypeInv
      <4>6. Refs(pg[p], More(vcrt[p], t), Extend(comm[p], n, t), FALSE)
        BY <4>3, <4>4, <4>5, ShareTableRefs
      <4>7. vcrt'[p] = More(vcrt[p], t) /\ comm'[p] = Extend(comm[p], n, t)
        BY <1>3, <4>1 DEF TypeInv
      <4>8. DOMAIN comm'[p] = Live(calls, n)
        BY <1>1, <4>2, <4>7, LiveStep DEF Extend, Op, Makes
      <4>9. \A k \in DOMAIN comm'[p] : comm'[p][k] \in 1..n
        BY <1>1, <1>3, <1>6, <4>4, <4>7 DEF Extend, PlaceInv
      <4>10. More(vcrt[p], t) \in [Comm -> Nat]
        BY <4>4, <4>5 DEF More
      <4>11. QED
        BY <1>3, <4>1, <4>6, <4>7, <4>8, <4>9, <4>10 DEF TypeInv
    <3>3. QED
      BY <1>10, <3>1, <3>2 DEF NewFrom
  <2>4. Alone(p)
    <3>1. at' \in [Proc -> Nat] /\ phase' \in [Proc -> Phases]
      BY <1>1, <1>3, <2>1 DEF TypeInv, Phases
    <3>2. TypeInv'
      BY <1>3, <1>7, <1>8, <2>2, <2>3, <3>1 DEF TypeInv
    <3>3. QED
      BY <1>3, <1>4, <1>7, <1>8, <2>1, <2>3, <3>2 DEF Alone, TypeInv
  <2>5. PlaceInv(p)'
    BY <1>1, <1>4, <1>10, <2>3, EndOfCall
  <2>6. outstanding'[p] = 0
    BY <1>2, <1>3, <1>5, <1>7 DEF CountInv
  <2>7. CountInv(p)'
    BY <1>2, <1>7, <2>3, <2>6 DEF CountInv
  <2>8. QED
    BY <2>4, <2>5, <2>7 DEF Step
<1>11. QED
  BY <1>9, <1>10 DEF DupMerge

(***************************************************************************)
(* A communicator is freed, or disconnected (d): either the program is     *)
(* left without a VC that is closing, or it has just begun to close it.    *)
(***************************************************************************)
LEMMA VCRTReleaseStep ==
  ASSUME TeardownInv, NEW p \in Proc, NEW d \in BOOLEAN,
         VCRT_Release(p, comm[p][CommOf(p)], d), FreeComm(p),
         at[p] < Len(calls), Done(p) = at[p], Op(p) \in Ends,
         ~Finalizing(p), ~ClosingVC(p)
  PROVE  /\ pg' \in [Proc -> Group] /\ vcrt' \in [Proc -> [Comm -> Nat]]
         /\ comm' = [q \in Proc |-> comm'[q]]
         /\ outstanding' \in [Proc -> Int]
         /\ MoveVC(p)
         /\ \A q \in Proc \ {p} : /\ pg'[q] = pg[q] /\ vcrt'[q] = vcrt[q] /\ comm'[q] = comm[q]
                                  /\ outstanding'[q] = outstanding[q]
         /\ DOMAIN comm'[p] = Live(calls, at[p] + 1)
         /\ \A c \in DOMAIN comm'[p] : comm'[p][c] \in 1..(at[p] + 1)
         /\ \/ /\ ~ClosingVC(p)' /\ outstanding'[p] = 0
               /\ Refs(pg'[p], vcrt'[p], comm'[p], FALSE)
            \/ /\ d /\ ClosingVC(p)' /\ outstanding'[p] = 1
               /\ Refs(pg'[p], vcrt'[p], comm'[p], TRUE) /\ pg'[p].vcref = 0
<1> DEFINE c == CommOf(p)
           t == comm[p][c]
           w == Less(vcrt[p], t)
           h == Release(pg[p], d)
           m == Without(comm[p], c)
<1>1. /\ at[p] \in Nat /\ at[p] + 1 \in 1..Len(calls)
      /\ c \in Live(calls, at[p])
  BY Here DEF Ends, OnComm
<1>2. TypeInv /\ PlaceInv(p) /\ CountInv(p)
  BY DEF TeardownInv
<1>3. /\ DOMAIN comm[p] = Live(calls, at[p]) /\ DOMAIN comm[p] \subseteq 1..at[p]
      /\ c \in DOMAIN comm[p] /\ t \in 1..at[p] /\ t \in Comm
      /\ IsFiniteSet(DOMAIN comm[p])
  <2>1. DOMAIN comm[p] = Live(calls, at[p]) /\ DOMAIN comm[p] \subseteq 1..at[p]
    BY <1>1, <1>2, LiveStep DEF PlaceInv
  <2>2. t \in 1..at[p]
    BY <1>1, <1>2, <2>1 DEF PlaceInv
  <2>3. t \in Comm
    BY <1>1, <2>2, TeardownAssumption DEF Comm, TeardownInv, CallInv
  <2>4. IsFiniteSet(1..at[p])
    BY <1>1, FS_Interval
  <2>5. QED
    BY <1>1, <2>1, <2>2, <2>3, <2>4, FS_Subset
<1>4. /\ Refs(pg[p], vcrt[p], comm[p], FALSE) /\ outstanding[p] = 0
      /\ pg[p] \in Group /\ vcrt[p] \in [Comm -> Nat]
  BY <1>2 DEF CountInv, TypeInv
<1>5. /\ w \in [Comm -> Nat]
      /\ h \in Group
      /\ vcrt[p][t] # 1 => Refs(pg[p], w, m, FALSE)
      /\ vcrt[p][t] = 1 /\ h.vcref # 0 => Refs(h, w, m, FALSE)
      /\ vcrt[p][t] = 1 /\ h.vcref = 0 => d /\ Refs(h, w, m, TRUE)
  <2>1. /\ pg[p] \in Group /\ vcrt[p] \in [Comm -> Nat] /\ IsFiniteSet(DOMAIN comm[p])
        /\ c \in DOMAIN comm[p] /\ comm[p][c] \in Comm
        /\ Refs(pg[p], vcrt[p], comm[p], FALSE) /\ d \in BOOLEAN
    BY <1>3, <1>4
  <2>2. QED
    BY ONLY <2>1, ReleaseRefs, ZenonT(60)
<1>6. /\ vcrt' = [vcrt EXCEPT ![p] = w] /\ comm' = [comm EXCEPT ![p] = m]
  <2>1. vcrt' = [vcrt EXCEPT ![p][t] = @ - 1]
    BY DEF VCRT_Release
  <2>2. comm' = [comm EXCEPT ![p] = m]
    BY DEF FreeComm, Without
  <2>3. QED
    BY <1>2, <2>1, <2>2 DEF TypeInv, Less
<1>7. /\ SendCloseIf((vcrt[p][t] = 1 /\ h.vcref = 0) /\ VC(p) # "INACTIVE", p)
      /\ pg' = IF vcrt[p][t] # 1 THEN pg
               ELSE [pg EXCEPT ![p] = IF (vcrt[p][t] = 1 /\ h.vcref = 0) /\ VC(p) = "INACTIVE"
                                        THEN PG_release(h) ELSE h]
  BY DEF VCRT_Release, LeavesGroup, VC, Release
<1>8. DOMAIN m = Live(calls, at[p] + 1)
  BY <1>1, <1>3, LiveStep DEF Without, Op, CommOf, CallNo
<1>9. \A k \in DOMAIN m : m[k] \in 1..(at[p] + 1)
  BY <1>1, <1>2, <1>3 DEF Without, PlaceInv
<1>10. vcrt'[p] = w /\ comm'[p] = m
  BY <1>2, <1>6 DEF TypeInv
<1> HIDE DEF w, h, m
<1>11. ASSUME NEW g \in Group, pg' = [pg EXCEPT ![p] = g],
              UNCHANGED closeVars, Refs(g, w, m, FALSE)
       PROVE  /\ pg' \in [Proc -> Group] /\ \A q \in Proc \ {p} : pg'[q] = pg[q]
              /\ outstanding' \in [Proc -> Int]
              /\ MoveVC(p)
              /\ \A q \in Proc \ {p} : outstanding'[q] = outstanding[q]
              /\ ~ClosingVC(p)' /\ outstanding'[p] = 0
              /\ Refs(pg'[p], w, m, FALSE)
  <2>1. vcState' = vcState /\ outstanding' = outstanding
    BY <1>11 DEF closeVars
  <2>2. MoveVC(p) /\ ~ClosingVC(p)'
    BY <1>2, <2>1, SameVC DEF ClosingVC
  <2>3. pg'[p] = g
    BY <1>2, <1>11 DEF TypeInv
  <2>4. QED
    BY <1>2, <1>4, <1>11, <2>1, <2>2, <2>3 DEF TypeInv
<1>12. CASE vcrt[p][t] # 1
  <2>1. UNCHANGED closeVars
    BY <1>7, <1>12 DEF SendCloseIf
  <2>2. pg' = [pg EXCEPT ![p] = pg[p]] /\ pg[p] \in Group /\ Refs(pg[p], w, m, FALSE)
    BY <1>2, <1>4, <1>5, <1>7, <1>12 DEF TypeInv
  <2>3. QED
    BY <1>2, <1>5, <1>6, <1>8, <1>9, <1>10, <1>11, <2>1, <2>2 DEF TypeInv
<1>13. CASE vcrt[p][t] = 1 /\ h.vcref # 0
  <2>1. UNCHANGED closeVars
    BY <1>7, <1>13 DEF SendCloseIf
  <2>2. pg' = [pg EXCEPT ![p] = h] /\ h \in Group /\ Refs(h, w, m, FALSE)
    BY <1>5, <1>7, <1>13
  <2>3. QED
    BY <1>2, <1>5, <1>6, <1>8, <1>9, <1>10, <1>11, <2>1, <2>2 DEF TypeInv
<1>14. CASE vcrt[p][t] = 1 /\ h.vcref = 0 /\ VC(p) = "INACTIVE"
  <2>1. UNCHANGED closeVars
    BY <1>7, <1>14 DEF SendCloseIf
  <2>2. /\ pg' = [pg EXCEPT ![p] = PG_release(h)]
        /\ PG_release(h) \in Group /\ Refs(PG_release(h), w, m, FALSE)
    BY <1>5, <1>7, <1>14, LastRefs
  <2>3. QED
    BY <1>2, <1>5, <1>6, <1>8, <1>9, <1>10, <1>11, <2>1, <2>2 DEF TypeInv
<1>15. CASE vcrt[p][t] = 1 /\ h.vcref = 0 /\ VC(p) # "INACTIVE"
  <2>1. Close!VC_SendClose(p, Peer(p))
    BY <1>7, <1>15 DEF SendCloseIf
  <2>2. pg' = [pg EXCEPT ![p] = h] /\ h \in Group /\ Refs(h, w, m, TRUE) /\ d
    BY <1>5, <1>7, <1>15
  <2>3. /\ MoveVC(p) /\ ClosingVC(p)' /\ outstanding' = [outstanding EXCEPT ![p] = @ + 1]
    BY <1>2, <2>1, SendCloseVC DEF ClosingVC, VC
  <2>4. outstanding' \in [Proc -> Int] /\ outstanding'[p] = 1 /\ pg'[p] = h
    BY <1>2, <1>4, <2>2, <2>3 DEF TypeInv
  <2>5. QED
    BY <1>2, <1>5, <1>6, <1>8, <1>9, <1>10, <1>15, <2>2, <2>3, <2>4 DEF TypeInv
<1>16. QED
  BY <1>12, <1>13, <1>14, <1>15

(***************************************************************************)
(* MPI_Comm_free, which never closes a VC.                                 *)
(***************************************************************************)
LEMMA Comm_freeStep ==
  ASSUME TeardownInv, NEW p \in Proc, Comm_free(p)
  PROVE  Step(p)
<1>1. /\ at[p] < Len(calls) /\ Op(p) = "free" /\ phase[p] = "idle"
      /\ VCRT_Release(p, comm[p][CommOf(p)], FALSE) /\ FreeComm(p) /\ Return(p)
      /\ unread' = unread /\ calls' = calls
  BY Here DEF Comm_free, In, Return
<1>2. ~Finalizing(p) /\ ~Finalizing(p)' /\ Done(p) = at[p]
  BY <1>1, NotFinalizing DEF Done
<1>3. TypeInv /\ PlaceInv(p) /\ CountInv(p)
  BY DEF TeardownInv
<1>4. ~ClosingVC(p)
  BY <1>1, <1>2, <1>3 DEF CountInv
<1>5. /\ pg' \in [Proc -> Group] /\ vcrt' \in [Proc -> [Comm -> Nat]]
      /\ comm' = [q \in Proc |-> comm'[q]]
      /\ outstanding' \in [Proc -> Int]
      /\ MoveVC(p)
      /\ \A q \in Proc \ {p} : /\ pg'[q] = pg[q] /\ vcrt'[q] = vcrt[q] /\ comm'[q] = comm[q]
                               /\ outstanding'[q] = outstanding[q]
      /\ DOMAIN comm'[p] = Live(calls, at[p] + 1)
      /\ \A c \in DOMAIN comm'[p] : comm'[p][c] \in 1..(at[p] + 1)
      /\ ~ClosingVC(p)' /\ outstanding'[p] = 0
      /\ Refs(pg'[p], vcrt'[p], comm'[p], FALSE)
  BY <1>1, <1>2, <1>4, VCRTReleaseStep DEF Ends
<1>6. at' = [at EXCEPT ![p] = @ + 1] /\ phase' = [phase EXCEPT ![p] = "idle"]
  BY <1>1 DEF Return
<1>7. Alone(p)
  BY <1>1, <1>3, <1>5, <1>6, MoveFacts DEF Alone, TypeInv, Phases
<1>8. PlaceInv(p)'
  BY <1>1, <1>5, EndOfCall
<1>9. CountInv(p)'
  BY <1>2, <1>5 DEF CountInv
<1>10. QED
  BY <1>7, <1>8, <1>9 DEF Step

(***************************************************************************)
(* MPI_Comm_disconnect: the close of the VC is over when it returns.       *)
(***************************************************************************)
LEMMA Comm_disconnectStep ==
  ASSUME TeardownInv, NEW p \in Proc, Comm_disconnect(p)
  PROVE  Step(p)
<1>1. at[p] < Len(calls) /\ Op(p) = "disconnect" /\ unread' = unread /\ at[p] \in Nat
  BY Here DEF Comm_disconnect, In
<1>2. ~Finalizing(p) /\ ~Finalizing(p)'
  BY <1>1, NotFinalizing DEF Comm_disconnect, Phases
<1>3. TypeInv /\ PlaceInv(p) /\ CountInv(p)
  BY DEF TeardownInv
<1>4. CASE /\ phase[p] = "idle" /\ VCRT_Release(p, comm[p][CommOf(p)], TRUE)
           /\ FreeComm(p) /\ Goto(p, "closing")
  <2>1. ~ClosingVC(p) /\ Done(p) = at[p]
    BY <1>2, <1>3, <1>4 DEF CountInv, Done
  <2>2. at' = at /\ phase' = [phase EXCEPT ![p] = "closing"] /\ calls' = calls
    BY <1>4 DEF Goto
  <2>3. /\ pg' \in [Proc -> Group] /\ vcrt' \in [Proc -> [Comm -> Nat]]
        /\ comm' = [q \in Proc |-> comm'[q]]
        /\ outstanding' \in [Proc -> Int]
        /\ MoveVC(p)
        /\ \A q \in Proc \ {p} : /\ pg'[q] = pg[q] /\ vcrt'[q] = vcrt[q] /\ comm'[q] = comm[q]
                                 /\ outstanding'[q] = outstanding[q]
        /\ DOMAIN comm'[p] = Live(calls, at[p] + 1)
        /\ \A c \in DOMAIN comm'[p] : comm'[p][c] \in 1..(at[p] + 1)
        /\ \/ /\ ~ClosingVC(p)' /\ outstanding'[p] = 0
              /\ Refs(pg'[p], vcrt'[p], comm'[p], FALSE)
           \/ /\ ClosingVC(p)' /\ outstanding'[p] = 1
              /\ Refs(pg'[p], vcrt'[p], comm'[p], TRUE) /\ pg'[p].vcref = 0
    BY <1>1, <1>2, <1>4, <2>1, VCRTReleaseStep DEF Ends
  <2>4. Alone(p)
    BY <1>1, <1>3, <2>2, <2>3, MoveFacts DEF Alone, TypeInv, Phases
  <2>5. phase'[p] = "closing"
    BY <1>3, <2>2 DEF TypeInv
  <2>6. PlaceInv(p)'
    BY <1>1, <1>3, <2>2, <2>3, <2>5 DEF PlaceInv, PhaseOf, Op, Done
  <2>7. CountInv(p)'
    BY <1>2, <2>3, <2>5 DEF CountInv
  <2>8. QED
    BY <2>4, <2>6, <2>7 DEF Step
<1>5. CASE /\ phase[p] = "closing" /\ WaitForClose(p) /\ Return(p)
           /\ UNCHANGED <<closeVars, pg, vcrt, comm>>
  <2>1. at' = [at EXCEPT ![p] = @ + 1] /\ phase' = [phase EXCEPT ![p] = "idle"] /\ calls' = calls
    BY <1>5 DEF Return
  <2>2. vcState' = vcState /\ outstanding' = outstanding
    BY <1>5 DEF closeVars
  <2>3. ~ClosingVC(p) /\ ~ClosingVC(p)'
    BY <1>2, <1>3, <1>5, <2>2 DEF CountInv, WaitForClose, ClosingVC
  <2>4. Alone(p)
    BY <1>1, <1>3, <1>5, <2>1, <2>2 DEF Alone, TypeInv, Phases, VC
  <2>5. PlaceInv(p)'
    BY <1>1, <1>3, <1>5, <2>1, EndOfCall DEF PlaceInv, Done
  <2>6. CountInv(p)'
    BY <1>2, <1>3, <1>5, <2>2, <2>3, SameCounts
  <2>7. QED
    BY <2>4, <2>5, <2>6 DEF Step
<1>6. QED
  BY <1>4, <1>5 DEF Comm_disconnect

(***************************************************************************)
(* MPI_Finalize: a VC without references has left its group by then.       *)
(***************************************************************************)
LEMMA FinalizeStep ==
  ASSUME TeardownInv, NEW p \in Proc, Finalize(p)
  PROVE  Step(p)
<1>1. /\ at[p] < Len(calls) /\ Op(p) = "finalize" /\ at[p] \in Nat
      /\ vcrt' = vcrt /\ comm' = comm /\ unread' = unread
  BY Here DEF Finalize, In
<1>2. TypeInv /\ PlaceInv(p) /\ CountInv(p)
  BY DEF TeardownInv
<1>3. Live(calls, at[p] + 1) = Live(calls, at[p])
  BY <1>1, LiveStep DEF Op, Makes, Ends
<1>4. ASSUME NEW ph \in {"closing", "finalized"}, Goto(p, ph), NEW g \in Group,
             pg' = [pg EXCEPT ![p] = g], g.vcref = 0 => ~g.known,
             MoveVC(p), outstanding' \in [Proc -> Int],
             \A q \in Proc \ {p} : outstanding'[q] = outstanding[q]
      PROVE  Step(p)
  <2>1. at' = at /\ phase' = [phase EXCEPT ![p] = ph] /\ calls' = calls
    BY <1>4 DEF Goto
  <2>2. phase'[p] = ph /\ pg'[p] = g
    BY <1>2, <1>4, <2>1 DEF TypeInv
  <2>3. Alone(p)
    BY <1>1, <1>2, <1>4, <2>1, MoveFacts DEF Alone, TypeInv, Phases
  <2>4. PlaceInv(p)'
    BY <1>1, <1>2, <1>3, <2>1, <2>2 DEF PlaceInv, PhaseOf, Op, Done
  <2>5. Finalizing(p)'
    BY <1>1, <2>1, <2>2 DEF Finalizing, In, CallNo, Op
  <2>6. CountInv(p)'
    BY <1>4, <2>2, <2>5 DEF CountInv
  <2>7. QED
    BY <2>3, <2>4, <2>6 DEF Step
<1>5. CASE /\ phase[p] = "idle" /\ Goto(p, "closing")
           /\ SendCloseIf(VC(p) \in {"ACTIVE", "REMOTE_CLOSE"}, p)
           /\ pg' = IF VC(p) = "INACTIVE" /\ pg[p].vcref # 0
                      THEN [pg EXCEPT ![p].ref = @ - 1] ELSE pg
  <2>1. Refs(pg[p], vcrt[p], comm[p], FALSE) /\ pg[p] \in Group
    BY <1>2, <1>5 DEF CountInv, Finalizing, TypeInv
  <2>2. /\ MoveVC(p) /\ outstanding' \in [Proc -> Int]
        /\ \A q \in Proc \ {p} : outstanding'[q] = outstanding[q]
    <3>1. CASE UNCHANGED closeVars
      BY <1>2, <3>1, SameVC DEF closeVars, TypeInv
    <3>2. CASE Close!VC_SendClose(p, Peer(p))
      BY <1>2, <3>2, SendCloseVC DEF TypeInv
    <3>3. QED
      BY <1>5, <3>1, <3>2 DEF SendCloseIf
  <2>3. CASE VC(p) = "INACTIVE" /\ pg[p].vcref # 0
    <3> DEFINE g == [pg[p] EXCEPT !.ref = @ - 1]
    <3>1. pg[p].vcref > 0 /\ pg[p].ref = 1
      BY <2>1, <2>3 DEF Refs, Group
    <3>2. g \in Group /\ g.vcref # 0
      BY <2>1, <2>3, <3>1 DEF Group
    <3>3. pg' = [pg EXCEPT ![p] = g]
      BY <1>2, <1>5, <2>3 DEF TypeInv
    <3> HIDE DEF g
    <3>4. QED
      BY <1>4, <1>5, <2>2, <3>2, <3>3
  <2>4. CASE ~(VC(p) = "INACTIVE" /\ pg[p].vcref # 0)
    <3>1. pg' = [pg EXCEPT ![p] = pg[p]]
      BY <1>2, <1>5, <2>4 DEF TypeInv
    <3>2. pg[p].vcref = 0 => ~pg[p].known
      BY <2>1 DEF Refs, Group
    <3>3. QED
      BY <1>4, <1>5, <2>1, <2>2, <3>1, <3>2
  <2>5. QED
    BY <2>3, <2>4
<1>6. CASE /\ phase[p] = "closing" /\ Goto(p, "finalized")
           /\ pg' = [pg EXCEPT ![p] = NoGroup] /\ UNCHANGED closeVars
  <2>1. MoveVC(p) /\ outstanding' = outstanding
    BY <1>2, <1>6, SameVC DEF closeVars
  <2>2. NoGroup \in Group /\ ~NoGroup.known
    BY DEF NoGroup, Group
  <2>3. QED
    BY <1>2, <1>4, <1>6, <2>1, <2>2 DEF TypeInv
<1>7. QED
  BY <1>5, <1>6 DEF Finalize, VC

(***************************************************************************)
(* The progress engine: the end of a close releases the group of the VC.   *)
(***************************************************************************)
LEMMA ProgressStep ==
  ASSUME TeardownInv, NEW p \in Proc, Progress(p)
  PROVE  Step(p)
<1>1. /\ pg[p].known
      /\ vcrt' = vcrt /\ comm' = comm /\ calls' = calls /\ at' = at /\ phase' = phase
  BY DEF Progress, progVars
<1>2. TypeInv /\ PlaceInv(p) /\ CountInv(p)
  BY DEF TeardownInv
<1>3. PlaceInv(p)'
  BY <1>1, <1>2 DEF PlaceInv, Done
<1>4. Finalizing(p)' <=> Finalizing(p)
  BY <1>1 DEF Finalizing, In, CallNo
<1>5. unread' \in [Proc -> Nat]
  <2>1. unread' = unread \/ unread' = [unread EXCEPT ![p] = @ + 1]
    BY DEF Progress
  <2>2. QED
    BY <1>2, <2>1 DEF TypeInv
<1>6. CASE /\ \/ Close!RecvOpen(p, Peer(p)) \/ Close!RecvData(p, Peer(p))
              \/ Close!PktHandler_Close(p, Peer(p))
           /\ pg' = pg
  <2>1. /\ MoveVC(p) /\ outstanding' = outstanding
        /\ ClosingVC(p)' <=> ClosingVC(p)
    BY <1>2, <1>6, RecvVC DEF ClosingVC, VC
  <2>2. Alone(p)
    BY <1>1, <1>2, <1>5, <1>6, <2>1, MoveFacts DEF Alone, TypeInv
  <2>3. CountInv(p)'
    BY <1>1, <1>2, <1>4, <1>6, <2>1 DEF CountInv
  <2>4. QED
    BY <1>3, <2>2, <2>3 DEF Step
<1>7. CASE Close!Handle_connection(p, Peer(p)) /\ Handle_connection(p)
  <2>1. /\ MoveVC(p) /\ outstanding' = [outstanding EXCEPT ![p] = @ - 1]
        /\ ClosingVC(p) /\ ~ClosingVC(p)'
    BY <1>2, <1>7, TerminateVC DEF ClosingVC, VC
  <2>2. CASE Finalizing(p)
    <3>1. pg[p].vcref # 0
      BY <1>1, <1>2, <2>2 DEF CountInv
    <3>2. pg' = pg
      BY <1>7, <3>1 DEF Handle_connection
    <3>3. Alone(p)
      BY <1>1, <1>2, <1>5, <2>1, <3>2, MoveFacts DEF Alone, TypeInv
    <3>4. CountInv(p)'
      BY <1>2, <1>4, <2>2, <3>1, <3>2 DEF CountInv
    <3>5. QED
      BY <1>3, <3>3, <3>4 DEF Step
  <2>3. CASE ~Finalizing(p)
    <3>1. /\ Refs(pg[p], vcrt[p], comm[p], TRUE) /\ outstanding[p] = 1
          /\ pg[p].vcref = 0 /\ pg[p] \in Group
      BY <1>2, <2>1, <2>3 DEF CountInv, TypeInv
    <3>2. pg' = [pg EXCEPT ![p] = PG_release(pg[p])]
      BY <1>7, <3>1 DEF Handle_connection
    <3>3. PG_release(pg[p]) \in Group /\ Refs(PG_release(pg[p]), vcrt[p], comm[p], FALSE)
      BY <3>1, LastRefs
    <3>4. pg'[p] = PG_release(pg[p]) /\ outstanding'[p] = 0
      BY <1>2, <2>1, <3>1, <3>2 DEF TypeInv
    <3>5. Alone(p)
      BY <1>1, <1>2, <1>5, <2>1, <3>2, <3>3, MoveFacts DEF Alone, TypeInv
    <3>6. CountInv(p)'
      BY <1>1, <1>4, <2>1, <2>3, <3>3, <3>4 DEF CountInv
    <3>7. QED
      BY <1>3, <3>5, <3>6 DEF Step
  <2>4. QED
    BY <2>2, <2>3
<1>8. QED
  BY <1>6, <1>7 DEF Progress

(***************************************************************************)
(* The programs choose their next call.                                    *)
(***************************************************************************)
LEMMA ChooseStep ==
  ASSUME TeardownInv, NEW p \in Proc, Choose(p)
  PROVE  TeardownInv'
<1> DEFINE n == Len(calls)
<1>1. /\ phase[p] = "idle" /\ at[p] = n /\ n < MaxCalls /\ n \in Nat
      /\ vcState' = vcState /\ outstanding' = outstanding
      /\ pg' = pg /\ vcrt' = vcrt /\ comm' = comm
      /\ at' = at /\ phase' = phase /\ unread' = unread
  BY DEF Choose, closeVars, TeardownInv, CallInv
<1>2. PICK c \in CallsOf(p) : calls' = Append(calls, c)
  BY DEF Choose
<1>3. TypeInv /\ CallInv /\ \A q \in Proc : PlaceInv(q) /\ CountInv(q)
  BY DEF TeardownInv
<1>4. DOMAIN comm[p] = Live(calls, n) /\ Live(calls, n) \subseteq 1..n
  BY <1>1, <1>3, LiveStep DEF PlaceInv, Done
<1>5. c \in CallRecord /\ (c.op \in OnComm => c.comm \in Live(calls, n))
  BY <1>1, <1>2, <1>4 DEF CallsOf, On, Sent, CallRecord, OnComm
<1>6. /\ calls' \in Seq(CallRecord) /\ Len(calls') = n + 1
      /\ \A k \in 1..n : calls'[k] = calls[k]
      /\ calls'[n + 1] = c
  BY <1>2, <1>3, <1>5 DEF CallInv
<1>7. \A k \in 0..n : Live(calls', k) = Live(calls, k)
  BY <1>2, <1>3, LiveAppend DEF CallInv
<1>8. CallInv'
  <2>1. ASSUME NEW k \in 1..(n + 1), calls'[k].op \in OnComm
        PROVE  calls'[k].comm \in Live(calls', k - 1)
    <3>1. k - 1 \in 0..n
      BY <1>1
    <3>2. Live(calls', k - 1) = Live(calls, k - 1)
      BY <1>7, <3>1
    <3>3. CASE k = n + 1
      BY <1>1, <1>5, <1>6, <2>1, <3>2, <3>3
    <3>4. CASE k \in 1..n
      BY <1>3, <1>6, <2>1, <3>2, <3>4 DEF CallInv
    <3>5. QED
      BY <1>1, <3>3, <3>4
  <2>2. QED
    BY <1>1, <1>6, <2>1, TeardownAssumption DEF CallInv
<1>9. ASSUME NEW q \in Proc PROVE PlaceInv(q)' /\ CountInv(q)'
  <2>1. PlaceInv(q) /\ CountInv(q)
    BY <1>3
  <2>2. at[q] \in 0..n /\ (phase[q] # "idle" => at[q] < n /\ calls'[at[q] + 1] = calls[at[q] + 1])
    BY <1>1, <1>6, <2>1 DEF PlaceInv
  <2>3. Done(q)' = Done(q) /\ Done(q) \in 0..n
    BY <1>1, <2>2 DEF Done
  <2>4. PlaceInv(q)'
    BY <1>1, <1>6, <1>7, <2>1, <2>2, <2>3 DEF PlaceInv
  <2>5. Finalizing(q)' <=> Finalizing(q)
    BY <1>1, <1>6, <2>2 DEF Finalizing, In, CallNo
  <2>6. ClosingVC(q)' <=> ClosingVC(q)
    BY <1>1 DEF ClosingVC
  <2>7. CountInv(q)'
    BY <1>1, <2>1, <2>5, <2>6 DEF CountInv
  <2>8. QED
    BY <2>4, <2>7
<1>10. TypeInv'
  BY <1>1, <1>3 DEF TypeInv
<1>11. QED
  BY <1>8, <1>9, <1>10 DEF TeardownInv

-----------------------------------------------------------------------------
LEMMA InitTeardownInv == Init => TeardownInv
<1> SUFFICES ASSUME Init PROVE TeardownInv
  OBVIOUS
<1>1. TypeInv
  <2>1. vcState \in [Proc -> [Proc -> Close!VCStates]] /\ outstanding \in [Proc -> Int]
    BY DEF Init, Close!Init, Close!VCStates
  <2>2. QED
    BY <2>1 DEF Init, TypeInv, Group, NoGroup, Phases
<1>2. CallInv
  BY TeardownAssumption DEF Init, CallInv
<1>3. ASSUME NEW p \in Proc PROVE PlaceInv(p) /\ CountInv(p)
  <2>1. at[p] = 0 /\ phase[p] = "idle" /\ comm[p] = <<>> /\ calls = <<>>
    BY DEF Init
  <2>2. pg[p] = NoGroup /\ vcrt[p] = [t \in Comm |-> 0] /\ outstanding[p] = 0
    BY DEF Init, Close!Init
  <2>3. ~ClosingVC(p) /\ ~Finalizing(p)
    BY <2>1, PeerFacts DEF Init, Close!Init, ClosingVC, Finalizing
  <2>4. \A t \in Comm : Users(<<>>, t) = {}
    BY DEF Users
  <2>5. Tables(vcrt[p]) = {}
    BY <2>2 DEF Tables
  <2>6. Refs(pg[p], vcrt[p], comm[p], FALSE)
    <3>1. \A t \in Comm : vcrt[p][t] = Cardinality(Users(comm[p], t))
      BY <2>1, <2>2, <2>4, FS_EmptySet
    <3>2. pg[p].vcref = 0 /\ pg[p].ref = 0 /\ pg[p].known = FALSE
      BY <2>2 DEF NoGroup
    <3>3. QED
      BY <2>5, <3>1, <3>2 DEF Refs
  <2>7. PlaceInv(p)
    BY <2>1 DEF PlaceInv, Done, Live
  <2>8. CountInv(p)
    BY <2>2, <2>3, <2>6 DEF CountInv
  <2>9. QED
    BY <2>7, <2>8
<1>4. QED
  BY <1>1, <1>2, <1>3 DEF TeardownInv

(***************************************************************************)
(* Every step preserves the invariant.                                     *)
(***************************************************************************)
LEMMA StepTeardownInv == TeardownInv /\ [Next]_vars => TeardownInv'
<1> SUFFICES ASSUME TeardownInv, [Next]_vars PROVE TeardownInv'
  OBVIOUS
<1>1. CASE UNCHANGED vars
  BY <1>1 DEF vars, closeVars, progVars, TeardownInv, TypeInv, CallInv, PlaceInv, CountInv,
              Done, Finalizing, In, CallNo, ClosingVC
<1>2. ASSUME NEW p \in Proc, Choose(p) PROVE TeardownInv'
  BY <1>2, ChooseStep
<1>3. ASSUME NEW p \in Proc, Call(p) PROVE TeardownInv'
  <2>1. Step(p)
    BY <1>3, ConnectStep, SendRecvStep, DupMergeStep, Comm_freeStep, Comm_disconnectStep,
       FinalizeStep DEF Call
  <2>2. QED
    BY <2>1, OthersKeep
<1>4. ASSUME NEW p \in Proc, Progress(p) PROVE TeardownInv'
  BY <1>4, ProgressStep, OthersKeep
<1>5. QED
  BY <1>1, <1>2, <1>3, <1>4 DEF Next

(***************************************************************************)
(* The invariant gives the counts of RefsInv.                              *)
(***************************************************************************)
LEMMA TeardownInvRefs == TeardownInv => RefsInv
<1> SUFFICES ASSUME TeardownInv PROVE RefsInv
  OBVIOUS
<1>1. TypeInv /\ CallInv /\ \A p \in Proc : PlaceInv(p) /\ CountInv(p)
  BY DEF TeardownInv
<1>2. ASSUME NEW p \in Proc
      PROVE  /\ at[p] \in 0..MaxCalls /\ at[p] <= Len(calls)
             /\ DOMAIN comm[p] \subseteq Comm /\ \A c \in DOMAIN comm[p] : comm[p][c] \in Comm
  <2>1. /\ at[p] \in 0..Len(calls) /\ Len(calls) \in 0..MaxCalls
        /\ Done(p) \in 0..Len(calls)
    BY <1>1, TeardownAssumption DEF PlaceInv, CallInv, Done
  <2>2. 1..Done(p) \subseteq Comm
    BY <2>1, TeardownAssumption DEF Comm
  <2>3. QED
    BY <1>1, <2>1, <2>2, LiveStep, TeardownAssumption DEF PlaceInv
<1>3. TypeOK
  BY <1>1, <1>2 DEF TypeOK, TypeInv, Group
<1>4. ASSUME NEW p \in Proc, ~In(p, "finalize")
      PROVE  LET tables == {t \in Comm : vcrt[p][t] > 0} IN
             /\ \A t \in Comm : vcrt[p][t] = Cardinality({c \in DOMAIN comm[p] : comm[p][c] = t})
             /\ \/ pg[p].vcref = Cardinality(tables) + 1
                \/ pg[p].vcref = 0 /\ tables = {}
             /\ pg[p].ref = IF pg[p].vcref > 0 \/ ClosingVC(p) THEN 1 ELSE 0
             /\ pg[p].known <=> pg[p].ref > 0
  <2>1. ~Finalizing(p)
    BY <1>4 DEF Finalizing
  <2>2. CASE ClosingVC(p)
    BY <1>1, <2>1, <2>2 DEF CountInv, Refs, Users, Tables
  <2>3. CASE ~ClosingVC(p)
    BY <1>1, <2>1, <2>3 DEF CountInv, Refs, Users, Tables
  <2>4. QED
    BY <2>2, <2>3
<1>5. QED
  BY <1>3, <1>4 DEF RefsInv, RefsExact

(***************************************************************************)
(* VCRTs, VCs and process groups are referred to by exactly what they      *)
(* count, whatever calls the two programs make and however the close       *)
(* protocol interleaves with them (MPID_VCRT_Add_ref, MPID_VCRT_Release,   *)
(* MPIDI_PG_Dup_vcr, MPIDI_PG_release_ref).                                *)
(***************************************************************************)
THEOREM RefsAlwaysExact == Spec => []RefsInv
<1>1. Spec => []TeardownInv
  BY InitTeardownInv, StepTeardownInv, PTL DEF Spec
<1>2. QED
  BY <1>1, TeardownInvRefs, PTL

===============================================================================
