------------------------- MODULE TeardownClose_proofs -------------------------
(***************************************************************************)
(* Two programs that make the calls of MPI use the close protocol as it    *)
(* must be used, and no packet or event meets a process group that was     *)
(* destroyed.  Teardown_proofs counts the references of each program; here *)
(* the two programs are related: the messages of their calls are on the    *)
(* wires, and with them goes the argument that a message is never sent to  *)
(* a process without a communicator.  The wires themselves obey the        *)
(* invariant of VCClose, which CP proves.                                  *)
(***************************************************************************)
EXTENDS Teardown_proofs

CP == INSTANCE VCClose_proofs

-----------------------------------------------------------------------------
(***************************************************************************)
(* The facts of VCClose_proofs are about an instance of its own, with the  *)
(* same definitions as Close.                                              *)
(***************************************************************************)

LEMMA SameCardinality ==
  /\ \A S : CP!Cardinality(S) = Cardinality(S)
  /\ \A S : Close!Cardinality(S) = Cardinality(S)
  /\ \A S : CP!IsFiniteSet(S) <=> IsFiniteSet(S)
<1>1. \A S : CP!Cardinality(S) = Cardinality(S)
  BY DEF CP!Cardinality, Cardinality
<1>2. \A S : Close!Cardinality(S) = Cardinality(S)
  BY DEF Close!Cardinality, Cardinality
<1>3. \A S : CP!IsFiniteSet(S) <=> IsFiniteSet(S)
  BY DEF CP!IsFiniteSet, IsFiniteSet
<1>4. QED
  BY <1>1, <1>2, <1>3

LEMMA SamePackets ==
  /\ CP!Open = Close!Open /\ CP!Data = Close!Data /\ \A a : CP!Close(a) = Close!Close(a)
  /\ CP!Packets = Close!Packets /\ CP!VCStates = Close!VCStates
  /\ \A p : CP!Peers(p) = Close!Peers(p)
BY DEF CP!VCStates, Close!VCStates, CP!Packets, Close!Packets,
   CP!Open, Close!Open, CP!Data, Close!Data, CP!Close, Close!Close, CP!Peers, Close!Peers

LEMMA SamePair ==
  ASSUME NEW x, NEW y, NEW wxy, NEW wyx, NEW tx, NEW ty
  PROVE  CP!PairInv(x, y, wxy, wyx, tx, ty) <=> Close!PairInv(x, y, wxy, wyx, tx, ty)
<1>1. \A s, e : CP!Has(s, e) <=> Close!Has(s, e)
  BY DEF CP!Has, Close!Has
<1>2. \A s : CP!OnlyTrue(s) <=> Close!OnlyTrue(s)
  BY SamePackets DEF CP!OnlyTrue, Close!OnlyTrue
<1>3. \A s : CP!WireOrder(s) <=> Close!WireOrder(s)
  BY SamePackets DEF CP!WireOrder, Close!WireOrder
<1>4. CP!OpenFirst(x, y, wxy) <=> Close!OpenFirst(x, y, wxy)
  BY SamePackets DEF CP!OpenFirst, Close!OpenFirst
<1>5. CP!FalseInFlight(x, y, wxy, wyx) <=> Close!FalseInFlight(x, y, wxy, wyx)
  BY SamePackets, <1>1 DEF CP!FalseInFlight, Close!FalseInFlight
<1>6. CP!TrueInFlight(x, y, wxy, ty) <=> Close!TrueInFlight(x, y, wxy, ty)
  BY SamePackets, <1>1 DEF CP!TrueInFlight, Close!TrueInFlight
<1>7. CP!EndInv(x, y, wxy, wyx, tx) <=> Close!EndInv(x, y, wxy, wyx, tx)
  BY SamePackets, <1>1, <1>2 DEF CP!EndInv, Close!EndInv
<1>8. QED
  BY <1>3, <1>4, <1>5, <1>6, <1>7 DEF CP!PairInv, Close!PairInv

LEMMA SameInv == CP!IInv <=> Close!IInv
<1>1. CP!TypeOK <=> Close!TypeOK
  BY SamePackets DEF CP!TypeOK, Close!TypeOK
<1>2. CP!VCInv <=> Close!VCInv
  BY SamePackets, SamePair DEF CP!VCInv, Close!VCInv
<1>3. CP!OutstandingExact <=> Close!OutstandingExact
  <2>1. \A p : CP!Closing(p) = Close!Closing(p)
    BY SamePackets DEF CP!Closing, Close!Closing
  <2>2. QED
    BY <2>1, SameCardinality DEF CP!OutstandingExact, Close!OutstandingExact
<1>4. QED
  BY <1>1, <1>2, <1>3 DEF CP!IInv, Close!IInv

LEMMA SameNext == CP!Next <=> Close!Next
<1>1. /\ \A w, p, q, v : CP!Set(w, p, q, v) = Close!Set(w, p, q, v)
      /\ \A s, e : CP!CloseExpected(s, e) <=> Close!CloseExpected(s, e)
      /\ \A s, e : CP!CloseState(s, e) = Close!CloseState(s, e)
  BY DEF CP!Set, Close!Set, CP!CloseExpected, Close!CloseExpected, CP!CloseState, Close!CloseState
<1>2. /\ \A w, p, q, v : CP!Send(w, p, q, v) = Close!Send(w, p, q, v)
      /\ \A w, p, q : CP!Consume(w, p, q) = Close!Consume(w, p, q)
  BY <1>1 DEF CP!Send, Close!Send, CP!Consume, Close!Consume
<1>3. \A s : CP!DataInFlight(s) = Close!DataInFlight(s)
  BY SameCardinality, SamePackets DEF CP!DataInFlight, Close!DataInFlight
<1>4. ASSUME NEW p, NEW q
      PROVE  /\ CP!Comm_get_vc(p, q) <=> Close!Comm_get_vc(p, q)
             /\ CP!SendData(p, q) <=> Close!SendData(p, q)
             /\ CP!VC_SendClose(p, q) <=> Close!VC_SendClose(p, q)
             /\ CP!RecvOpen(p, q) <=> Close!RecvOpen(p, q)
             /\ CP!RecvData(p, q) <=> Close!RecvData(p, q)
             /\ CP!PktHandler_Close(p, q) <=> Close!PktHandler_Close(p, q)
             /\ CP!Handle_connection(p, q) <=> Close!Handle_connection(p, q)
  <2>1. CP!Comm_get_vc(p, q) <=> Close!Comm_get_vc(p, q)
    BY <1>1, <1>2, SamePackets DEF CP!Comm_get_vc, Close!Comm_get_vc
  <2>2. CP!SendData(p, q) <=> Close!SendData(p, q)
    BY <1>2, <1>3, SamePackets DEF CP!SendData, Close!SendData
  <2>3. CP!VC_SendClose(p, q) <=> Close!VC_SendClose(p, q)
    BY <1>1, <1>2, SamePackets DEF CP!VC_SendClose, Close!VC_SendClose, CP!CloseAck, Close!CloseAck
  <2>4. CP!RecvOpen(p, q) <=> Close!RecvOpen(p, q)
    BY <1>1, <1>2, SamePackets DEF CP!RecvOpen, Close!RecvOpen
  <2>5. CP!RecvData(p, q) <=> Close!RecvData(p, q)
    BY <1>2, SamePackets DEF CP!RecvData, Close!RecvData
  <2>6. CP!PktHandler_Close(p, q) <=> Close!PktHandler_Close(p, q)
    BY <1>1, <1>2, SamePackets DEF CP!PktHandler_Close, Close!PktHandler_Close,
       CP!Answers, Close!Answers, CP!Terminates, Close!Terminates
  <2>7. CP!Handle_connection(p, q) <=> Close!Handle_connection(p, q)
    BY <1>1 DEF CP!Handle_connection, Close!Handle_connection
  <2>8. QED
    BY <2>1, <2>2, <2>3, <2>4, <2>5, <2>6, <2>7
<1>5. QED
  BY <1>4, SamePackets DEF CP!Next, Close!Next

LEMMA CloseNext ==
  ASSUME Close!IInv, [Close!Next]_closeVars PROVE Close!IInv'
<1>1. CP!IInv /\ [CP!Next]_(CP!vars)
  BY SameInv, SameNext DEF closeVars, CP!vars
<1>2. CP!IInv'
  <2>1. CP!IsFiniteSet(Proc) /\ MaxData \in Nat /\ MaxOpen \in Nat
    BY SameCardinality, TeardownAssumption
  <2>2. QED
    BY <1>1, <2>1, CP!NextInv
<1>3. QED
  BY <1>2, SameInv, PTL

-----------------------------------------------------------------------------
(***************************************************************************)
(* The inductive invariant.  The messages of the calls: p sends one in     *)
(* these calls of the two programs.                                        *)
(***************************************************************************)
Sends(p, c) == c.op \in {"dup", "merge"} \/ (c.op = "send" /\ c.from = p)

SendsUpTo(cs, p, n) == {k \in 1..n : Sends(p, cs[k])}
Messages(cs, p, n) == Cardinality(SendsUpTo(cs, p, n))

(* The calls whose message p has sent: that of the call it waits in too.   *)
Out(p) == IF phase[p] = "wait" THEN at[p] + 1 ELSE at[p]

Flying(p) == Close!DataInFlight(wire[p][Peer(p)])

(* MPI_Finalize is the last call, and nobody comes past it.                *)
FinalLast ==
  \A k \in 1..Len(calls) :
    /\ calls[k].op = "finalize" => k = Len(calls) /\ \A p \in Proc : at[p] < k
    /\ calls[k].op = "send" => calls[k].from \in Proc

(* A program with a VC in hand is about to send, and one that waits is     *)
(* about to be sent to.                                                    *)
SenderInv(p) ==
  /\ phase[p] = "vc" => Sends(p, calls[at[p] + 1]) /\ VC(p) # "INACTIVE"
  /\ phase[p] = "wait" => Sends(Peer(p), calls[at[p] + 1])

(* Nobody leaves a connect before the other one has made its communicator. *)
ConnectInv(p) ==
  LET q == Peer(p) IN
  /\ phase[p] = "sync" =>
       at[q] > at[p] \/ (at[q] = at[p] /\ phase[q] \in {"exchange", "sync"})
  /\ \A k \in 1..at[p] : calls[k].op = "connect" =>
       at[q] >= k \/ (at[q] = k - 1 /\ phase[q] = "sync")

(* What p sent the other one received, or has, or is on its way.           *)
MessageInv(p) ==
  LET q == Peer(p) IN
  Messages(calls, p, Out(p)) = Messages(calls, p, at[q]) + unread[q] + Flying(p)

(* An open request is followed by a message.                               *)
OpenRight(w, sending) ==
  /\ \A i \in 2..Len(w) : w[i] # Close!Open
  /\ w # <<>> /\ w[1] = Close!Open => Close!Has(w, Close!Data) \/ sending

OpenInv(p) == OpenRight(wire[p][Peer(p)], phase[p] = "vc")

(* A VC in use is referred to, until the program finalizes and closes it.  *)
UseInv(p) ==
  /\ ~Finalizing(p) => (VC(p) \in {"ACTIVE", "REMOTE_CLOSE"} => pg[p].vcref > 0)
  /\ Finalizing(p) => /\ VC(p) \notin {"ACTIVE", "REMOTE_CLOSE"}
                      /\ ~pg[p].known => VC(p) = "INACTIVE"

(* The bounds of VCClose are out of reach.                                 *)
OpensInv(p) ==
  opens[p][Peer(p)] <= IF phase[p] \in {"vc", "wait"} THEN at[p] + 1 ELSE at[p]

LinkInv(p) == /\ SenderInv(p) /\ ConnectInv(p) /\ MessageInv(p)
              /\ OpenInv(p) /\ UseInv(p) /\ OpensInv(p)

CloseInv == TeardownInv /\ Close!IInv /\ FinalLast /\ \A p \in Proc : LinkInv(p)

-----------------------------------------------------------------------------
LEMMA TwoPeers ==
  ASSUME NEW p \in Proc
  PROVE  /\ Peer(p) \in Proc /\ Peer(p) # p /\ Peer(Peer(p)) = p
         /\ \A q \in Proc : q = p \/ q = Peer(p)
         /\ Peer(p) \in Close!Peers(p)
<1>1. Peer(p) \in Proc /\ Peer(p) # p
  BY PeerFacts
<1>2. ASSUME NEW q \in Proc, q # p PROVE q = Peer(p)
  <2>1. Cardinality(Proc \ {p}) = 1 /\ IsFiniteSet(Proc \ {p})
    BY FS_RemoveElement, TeardownAssumption
  <2>2. Cardinality((Proc \ {p}) \ {q}) = 0 /\ IsFiniteSet((Proc \ {p}) \ {q})
    BY <1>2, <2>1, FS_RemoveElement
  <2>3. (Proc \ {p}) \ {q} = {}
    BY <2>2, FS_EmptySet
  <2>4. QED
    BY <1>1, <2>3
<1>3. Peer(Peer(p)) \in Proc /\ Peer(Peer(p)) # Peer(p)
  BY <1>1, PeerFacts
<1>4. QED
  BY <1>1, <1>2, <1>3 DEF Close!Peers

(***************************************************************************)
(* The number of messages of the first calls.                              *)
(***************************************************************************)
LEMMA MessagesCount ==
  ASSUME NEW cs, NEW p, NEW n \in Nat
  PROVE  /\ IsFiniteSet(SendsUpTo(cs, p, n)) /\ Messages(cs, p, n) \in 0..n
         /\ Messages(cs, p, n + 1) = IF Sends(p, cs[n + 1]) THEN Messages(cs, p, n) + 1
                                                            ELSE Messages(cs, p, n)
<1>1. IsFiniteSet(1..n) /\ Cardinality(1..n) = n
  BY FS_Interval
<1>2. SendsUpTo(cs, p, n) \in SUBSET (1..n)
  BY DEF SendsUpTo
<1>3. IsFiniteSet(SendsUpTo(cs, p, n)) /\ Messages(cs, p, n) \in 0..n
  <2>1. /\ IsFiniteSet(SendsUpTo(cs, p, n))
        /\ Cardinality(SendsUpTo(cs, p, n)) <= Cardinality(1..n)
    BY <1>1, <1>2, FS_Subset
  <2>2. Cardinality(SendsUpTo(cs, p, n)) \in Nat
    BY <2>1, FS_CardinalityType
  <2>3. QED
    BY <1>1, <2>1, <2>2 DEF Messages
<1>4. 1..(n + 1) = 1..n \cup {n + 1} /\ n + 1 \notin 1..n
  OBVIOUS
<1>5. CASE Sends(p, cs[n + 1])
  <2>1. SendsUpTo(cs, p, n + 1) = SendsUpTo(cs, p, n) \cup {n + 1}
    BY <1>4, <1>5 DEF SendsUpTo
  <2>2. n + 1 \notin SendsUpTo(cs, p, n)
    BY <1>4 DEF SendsUpTo
  <2>3. Messages(cs, p, n + 1) = Messages(cs, p, n) + 1
    BY <1>3, <2>1, <2>2, FS_AddElement DEF Messages
  <2>4. QED
    BY <1>3, <1>5, <2>3
<1>6. CASE ~Sends(p, cs[n + 1])
  <2>1. SendsUpTo(cs, p, n + 1) = SendsUpTo(cs, p, n)
    BY <1>4, <1>6 DEF SendsUpTo
  <2>2. QED
    BY <1>3, <1>6, <2>1 DEF Messages
<1>7. QED
  BY <1>5, <1>6

LEMMA MessagesNat ==
  ASSUME NEW cs, NEW p, NEW n \in Nat
  PROVE  Messages(cs, p, n) \in Nat
BY MessagesCount

LEMMA MessagesGrow ==
  ASSUME NEW cs, NEW p, NEW m \in Nat, NEW n \in Nat, m <= n
  PROVE  /\ Messages(cs, p, m) <= Messages(cs, p, n)
         /\ (\E k \in (m + 1)..n : Sends(p, cs[k])) <=> Messages(cs, p, m) < Messages(cs, p, n)
<1>1. SendsUpTo(cs, p, m) \in SUBSET SendsUpTo(cs, p, n)
  BY DEF SendsUpTo
<1>2. /\ Messages(cs, p, m) <= Messages(cs, p, n)
      /\ Messages(cs, p, n) = Messages(cs, p, m) => SendsUpTo(cs, p, n) = SendsUpTo(cs, p, m)
  BY <1>1, MessagesCount, FS_Subset DEF Messages
<1>3. Messages(cs, p, m) \in Nat /\ Messages(cs, p, n) \in Nat
  BY MessagesCount
<1>4. ASSUME NEW k \in (m + 1)..n, Sends(p, cs[k])
      PROVE  Messages(cs, p, m) < Messages(cs, p, n)
  <2>1. k \in SendsUpTo(cs, p, n) /\ k \notin SendsUpTo(cs, p, m)
    BY <1>4 DEF SendsUpTo
  <2>2. QED
    BY <1>2, <1>3, <2>1
<1>5. ASSUME Messages(cs, p, m) < Messages(cs, p, n)
      PROVE  \E k \in (m + 1)..n : Sends(p, cs[k])
  <2>1. PICK k \in SendsUpTo(cs, p, n) : k \notin SendsUpTo(cs, p, m)
    BY <1>1, <1>3, <1>5 DEF Messages
  <2>2. k \in (m + 1)..n /\ Sends(p, cs[k])
    BY <2>1 DEF SendsUpTo
  <2>3. QED
    BY <2>2
<1>6. QED
  BY <1>2, <1>4, <1>5

LEMMA MessagesAppend ==
  ASSUME NEW cs \in Seq(CallRecord), NEW c, NEW p, NEW n \in 0..Len(cs)
  PROVE  Messages(Append(cs, c), p, n) = Messages(cs, p, n)
<1>1. \A k \in 1..n : Append(cs, c)[k] = cs[k]
  OBVIOUS
<1>2. SendsUpTo(Append(cs, c), p, n) = SendsUpTo(cs, p, n)
  BY <1>1 DEF SendsUpTo
<1>3. QED
  BY <1>2 DEF Messages

(***************************************************************************)
(* The data packets of a connection.                                       *)
(***************************************************************************)
DataAt(s) == {i \in 1..Len(s) : s[i] = Close!Data}

LEMMA DataCount ==
  ASSUME NEW s \in Seq(Close!Packets)
  PROVE  /\ IsFiniteSet(DataAt(s)) /\ Close!DataInFlight(s) = Cardinality(DataAt(s))
         /\ Close!DataInFlight(s) \in Nat
         /\ Close!DataInFlight(s) > 0 <=> Close!Has(s, Close!Data)
<1>1. IsFiniteSet(DataAt(s))
  <2>1. IsFiniteSet(1..Len(s)) /\ DataAt(s) \in SUBSET (1..Len(s))
    BY FS_Interval DEF DataAt
  <2>2. QED
    BY <2>1, FS_Subset
<1>2. Close!DataInFlight(s) = Cardinality(DataAt(s))
  BY SameCardinality DEF Close!DataInFlight, DataAt
<1>3. Cardinality(DataAt(s)) \in Nat /\ (Cardinality(DataAt(s)) = 0 <=> DataAt(s) = {})
  BY <1>1, FS_CardinalityType, FS_EmptySet
<1>4. Close!Has(s, Close!Data) <=> DataAt(s) # {}
  BY DEF Close!Has, DataAt
<1>5. QED
  BY <1>1, <1>2, <1>3, <1>4

LEMMA DataAppend ==
  ASSUME NEW s \in Seq(Close!Packets), NEW e \in Close!Packets
  PROVE  /\ Append(s, e) \in Seq(Close!Packets)
         /\ Close!DataInFlight(Append(s, e)) =
              Close!DataInFlight(s) + IF e = Close!Data THEN 1 ELSE 0
<1>1. Append(s, e) \in Seq(Close!Packets) /\ Len(s) \in Nat
  OBVIOUS
<1>2. 1..Len(Append(s, e)) = 1..Len(s) \cup {Len(s) + 1} /\ Len(s) + 1 \notin 1..Len(s)
  OBVIOUS
<1>3. Append(s, e)[Len(s) + 1] = e /\ \A i \in 1..Len(s) : Append(s, e)[i] = s[i]
  OBVIOUS
<1>4. CASE e = Close!Data
  <2>1. DataAt(Append(s, e)) = DataAt(s) \cup {Len(s) + 1} /\ Len(s) + 1 \notin DataAt(s)
    BY <1>2, <1>3, <1>4 DEF DataAt
  <2>2. Cardinality(DataAt(Append(s, e))) = Cardinality(DataAt(s)) + 1
    BY <2>1, DataCount, FS_AddElement
  <2>3. QED
    BY <1>1, <1>4, <2>2, DataCount
<1>5. CASE e # Close!Data
  <2>1. DataAt(Append(s, e)) = DataAt(s)
    BY <1>2, <1>3, <1>5 DEF DataAt
  <2>2. Close!DataInFlight(Append(s, e)) = Close!DataInFlight(s) /\ Close!DataInFlight(s) \in Nat
    BY <1>1, <2>1, DataCount
  <2>3. QED
    BY <1>1, <1>5, <2>2
<1>6. QED
  BY <1>4, <1>5

LEMMA DataTail ==
  ASSUME NEW s \in Seq(Close!Packets), s # <<>>
  PROVE  /\ Tail(s) \in Seq(Close!Packets) /\ Head(s) \in Close!Packets
         /\ Close!DataInFlight(s) =
              Close!DataInFlight(Tail(s)) + IF Head(s) = Close!Data THEN 1 ELSE 0
<1> DEFINE t == Tail(s)
           S == DataAt(t)
           T == DataAt(s) \ {1}
           f == [i \in S |-> i + 1]
<1>1. t \in Seq(Close!Packets) /\ Head(s) = s[1] /\ Head(s) \in Close!Packets
  OBVIOUS
<1>2. Len(s) = Len(t) + 1 /\ Len(t) \in Nat /\ \A i \in 1..Len(t) : t[i] = s[i + 1]
  OBVIOUS
<1> HIDE DEF t
<1>3. /\ \A i \in S : i \in Nat /\ i + 1 \in T
      /\ \A j \in T : j - 1 \in S /\ j \in Nat /\ j > 1
  BY <1>2 DEF DataAt
<1>4. f \in Bijection(S, T)
  <2>1. f \in [S -> T] /\ \A i, j \in S : f[i] = f[j] => i = j
    BY <1>3
  <2>2. \A j \in T : f[j - 1] = j /\ j - 1 \in S
    BY <1>3
  <2>3. QED
    BY <2>1, <2>2 DEF Bijection, Injection, Surjection, IsInjective
<1>5. Cardinality(T) = Cardinality(S)
  BY <1>1, <1>4, DataCount, FS_Bijection DEF ExistsBijection
<1>6. Cardinality(DataAt(s)) = Cardinality(T) + IF 1 \in DataAt(s) THEN 1 ELSE 0
  <2>1. IsFiniteSet(DataAt(s))
    BY DataCount
  <2>2. Cardinality(DataAt(s)) \in Nat
    BY <2>1, FS_CardinalityType
  <2>3. Cardinality(T) = IF 1 \in DataAt(s) THEN Cardinality(DataAt(s)) - 1
                                             ELSE Cardinality(DataAt(s))
    BY <2>1, FS_RemoveElement
  <2>4. QED
    BY <2>2, <2>3
<1>7. 1 \in DataAt(s) <=> Head(s) = Close!Data
  BY <1>1, <1>2 DEF DataAt
<1>8. QED
  BY <1>1, <1>5, <1>6, <1>7, DataCount DEF t

-----------------------------------------------------------------------------
(***************************************************************************)
(* The state of p's side, as the steps below use it.                       *)
(***************************************************************************)
LEMMA Facts ==
  ASSUME CloseInv, NEW p \in Proc
  PROVE  /\ Peer(p) \in Proc /\ Peer(p) # p /\ Peer(Peer(p)) = p
         /\ Peer(p) \in Close!Peers(p) /\ p \in Close!Peers(Peer(p))
         /\ at[p] \in 0..Len(calls) /\ at[p] \in Nat /\ Len(calls) \in Nat
         /\ Out(p) \in Nat /\ unread[p] \in Nat
         /\ wire[p][Peer(p)] \in Seq(Close!Packets) /\ wire[Peer(p)][p] \in Seq(Close!Packets)
         /\ Flying(p) \in Nat /\ opens[p][Peer(p)] \in Nat
         /\ VC(p) \in Close!VCStates
         /\ TypeInv /\ CallInv /\ PlaceInv(p) /\ CountInv(p) /\ LinkInv(p)
         /\ Close!TypeOK /\ Close!VCInv /\ Close!OutstandingExact
<1>1. /\ TypeInv /\ CallInv /\ PlaceInv(p) /\ CountInv(p) /\ LinkInv(p)
      /\ Close!TypeOK /\ Close!VCInv /\ Close!OutstandingExact
  BY DEF CloseInv, TeardownInv, Close!IInv
<1>2. /\ Peer(p) \in Proc /\ Peer(p) # p /\ Peer(Peer(p)) = p
      /\ Peer(p) \in Close!Peers(p) /\ p \in Close!Peers(Peer(p))
  BY TwoPeers DEF Close!Peers
<1>3. /\ at[p] \in 0..Len(calls) /\ at[p] \in Nat /\ Len(calls) \in Nat
      /\ Out(p) \in Nat /\ unread[p] \in Nat
  BY <1>1 DEF TypeInv, CallInv, PlaceInv, Out
<1>4. /\ wire[p][Peer(p)] \in Seq(Close!Packets) /\ wire[Peer(p)][p] \in Seq(Close!Packets)
      /\ opens[p][Peer(p)] \in Nat /\ VC(p) \in Close!VCStates
  BY <1>1, <1>2 DEF Close!TypeOK, VC
<1>5. Flying(p) \in Nat
  BY <1>4, DataCount DEF Flying
<1>6. QED
  BY <1>1, <1>2, <1>3, <1>4, <1>5

(***************************************************************************)
(* A call in which p sends to a peer that has not finished it: the peer    *)
(* has a communicator, and is not finalizing.                              *)
(***************************************************************************)
HasComm(p) == DOMAIN comm[p] # {} /\ ~Finalizing(p)

LEMMA SentToCommunicator ==
  ASSUME CloseInv, NEW p \in Proc, NEW k \in 1..Len(calls),
         at[Peer(p)] < k, k <= at[p] + 1, Sends(p, calls[k])
  PROVE  HasComm(Peer(p))
<1> DEFINE q == Peer(p)
           a == at[q] + 1
<1>1. /\ q \in Proc /\ Peer(q) = p /\ at[p] \in 0..Len(calls) /\ at[q] \in Nat
      /\ at[p] \in Nat /\ a \in Nat /\ a <= k /\ a \in 1..Len(calls) /\ Len(calls) \in Nat
      /\ PlaceInv(q) /\ LinkInv(q) /\ LinkInv(p) /\ FinalLast /\ CallInv
  <2>1. q \in Proc /\ Peer(q) = p /\ at[p] \in 0..Len(calls) /\ LinkInv(p)
    BY Facts
  <2>2. at[q] \in Nat /\ PlaceInv(q) /\ LinkInv(q) /\ CallInv /\ Len(calls) \in Nat
    BY <2>1, Facts
  <2>3. QED
    BY <2>1, <2>2 DEF CloseInv
<1>2. calls[k].op \in {"dup", "merge", "send"} /\ calls[k].comm \in Live(calls, k - 1)
  BY <1>1 DEF Sends, CallInv, OnComm
<1>3. DOMAIN comm[q] = Live(calls, Done(q))
  BY <1>1 DEF PlaceInv
<1>4. calls[a].op # "finalize"
  BY <1>1, <1>2 DEF FinalLast
<1>5. ~Finalizing(q)
  BY <1>1, <1>4 DEF Finalizing, In, CallNo
<1>6. phase[q] # "idle" => phase[q] \in PhaseOf(calls[a].op)
  BY <1>1 DEF PlaceInv
<1>7. CASE calls[a].op \in {"dup", "merge", "send"}
  <2>1. Done(q) = at[q]
    BY <1>6, <1>7 DEF Done, PhaseOf
  <2>2. calls[a].comm \in Live(calls, at[q])
    BY <1>1, <1>7 DEF CallInv, OnComm
  <2>3. QED
    BY <1>3, <1>5, <2>1, <2>2 DEF HasComm
<1>8. CASE calls[a].op = "connect"
  <2>1. a \in 1..at[p] /\ at[q] < a
    BY <1>1, <1>2, <1>8
  <2>2. phase[q] = "sync"
    BY <1>1, <1>8, <2>1 DEF LinkInv, ConnectInv
  <2>3. Done(q) = a
    BY <2>2 DEF Done
  <2>4. a \in Live(calls, a)
    <3>1. a \in 1..a /\ (a + 1)..a = {}
      BY <1>1
    <3>2. QED
      BY <1>8, <3>1 DEF Live, Makes
  <2>5. QED
    BY <1>3, <1>5, <2>3, <2>4 DEF HasComm
<1>9. CASE calls[a].op \in Ends
  <2>1. a < k
    BY <1>1, <1>2, <1>9 DEF Ends
  <2>2. ASSUME NEW j \in (a + 1)..(k - 1) PROVE calls[j].op \notin Makes
    <3>1. j \in 1..at[p] /\ at[q] < j - 1 /\ j \in (at[q] + 1)..at[p] /\ at[q] <= at[p]
      BY <1>1, SMTT(30)
    <3>2. calls[j].op # "connect"
      BY <1>1, <3>1 DEF LinkInv, ConnectInv
    <3>3. ~Sends(q, calls[j])
      <4>1. Out(q) = at[q]
        BY <1>6, <1>9 DEF Out, PhaseOf, Ends
      <4>2. Messages(calls, q, at[q]) = Messages(calls, q, at[p]) + unread[p] + Flying(q)
        BY <1>1, <4>1 DEF LinkInv, MessageInv
      <4>3. unread[p] \in Nat /\ Flying(q) \in Nat
        BY <1>1, Facts
      <4>4. Messages(calls, q, at[q]) \in Nat /\ Messages(calls, q, at[p]) \in Nat
        BY <1>1, MessagesNat
      <4>5. ~(Messages(calls, q, at[q]) < Messages(calls, q, at[p]))
        BY <4>2, <4>3, <4>4
      <4>6. QED
        BY <1>1, <3>1, <4>5, MessagesGrow
    <3>4. QED
      BY <3>2, <3>3 DEF Sends, Makes
  <2> DEFINE c == calls[k].comm
  <2>3. /\ c \in 1..(k - 1) /\ calls[c].op \in Makes
        /\ \A j \in (c + 1)..(k - 1) : ~(calls[j].op \in Ends /\ calls[j].comm = c)
    BY <1>2 DEF Live
  <2>4. c # a /\ c \notin (a + 1)..(k - 1)
    BY <1>9, <2>2, <2>3 DEF Makes, Ends
  <2>5. c \in 1..at[q]
    BY <1>1, <2>1, <2>3, <2>4
  <2>6. c \in Live(calls, at[q]) /\ c \in Live(calls, a)
    <3>1. at[q] <= k - 1 /\ a <= k - 1
      BY <1>1, <2>1
    <3>2. QED
      BY <1>1, <2>3, <2>5, <3>1, SMTT(30) DEF Live
  <2>7. Done(q) = at[q] \/ Done(q) = a
    BY DEF Done
  <2>8. QED
    BY <1>3, <1>5, <2>6, <2>7 DEF HasComm
<1>10. calls[a].op \in {"dup", "merge", "send", "connect"} \cup Ends
  <2>1. calls[a] \in CallRecord
    BY <1>1 DEF CallInv
  <2>2. QED
    BY <1>4, <2>1 DEF CallRecord, OnComm, Ends
<1>11. QED
  BY <1>7, <1>8, <1>9, <1>10

(***************************************************************************)
(* A program that has yet to send the message of a call is not overtaken.  *)
(***************************************************************************)
LEMMA SenderFirst ==
  ASSUME CloseInv, NEW p \in Proc, phase[p] # "wait", at[p] < Len(calls),
         Sends(p, calls[at[p] + 1])
  PROVE  at[Peer(p)] <= at[p] /\ HasComm(Peer(p))
<1> DEFINE q == Peer(p)
<1>1. /\ q \in Proc /\ at[p] \in Nat /\ at[q] \in Nat /\ Len(calls) \in Nat
      /\ unread[q] \in Nat /\ Flying(p) \in Nat /\ LinkInv(p)
  BY Facts
<1>2. /\ Messages(calls, p, at[p]) = Messages(calls, p, at[q]) + unread[q] + Flying(p)
      /\ Messages(calls, p, at[p]) \in Nat /\ Messages(calls, p, at[q]) \in Nat
  BY <1>1, MessagesNat DEF LinkInv, MessageInv, Out
<1>3. ASSUME at[p] < at[q] PROVE FALSE
  <2>1. at[p] + 1 \in (at[p] + 1)..at[q]
    BY <1>1, <1>3
  <2>2. Messages(calls, p, at[p]) < Messages(calls, p, at[q])
    BY <1>1, <1>3, <2>1, MessagesGrow
  <2>3. QED
    BY <1>1, <1>2, <2>2
<1>4. at[q] < at[p] + 1 /\ at[p] + 1 \in 1..Len(calls) /\ at[q] <= at[p]
  BY <1>1, <1>3
<1>5. QED
  BY <1>1, <1>4, SentToCommunicator

(***************************************************************************)
(* Wherever a message is, or is about to be sent, there is a communicator  *)
(* for it.                                                                 *)
(***************************************************************************)
LEMMA MessageHasCommunicator ==
  ASSUME CloseInv, NEW p \in Proc,
         phase[p] = "vc" \/ Flying(p) > 0 \/ unread[Peer(p)] > 0
  PROVE  HasComm(Peer(p))
<1> DEFINE q == Peer(p)
<1>1. /\ q \in Proc /\ at[p] \in 0..Len(calls) /\ at[q] \in 0..Len(calls) /\ Len(calls) \in Nat
      /\ unread[q] \in Nat /\ Flying(p) \in Nat /\ Out(p) \in Nat
      /\ LinkInv(p) /\ PlaceInv(p)
  BY Facts
<1>2. /\ Messages(calls, p, Out(p)) = Messages(calls, p, at[q]) + unread[q] + Flying(p)
      /\ Messages(calls, p, Out(p)) \in Nat /\ Messages(calls, p, at[q]) \in Nat
  BY <1>1, MessagesNat DEF LinkInv, MessageInv
<1>3. phase[p] # "idle" => at[p] < Len(calls)
  BY <1>1 DEF PlaceInv
<1>4. CASE phase[p] = "vc"
  BY <1>1, <1>3, <1>4, SenderFirst DEF LinkInv, SenderInv
<1>5. CASE Flying(p) > 0 \/ unread[q] > 0
  <2>1. Messages(calls, p, at[q]) < Messages(calls, p, Out(p))
    BY <1>1, <1>2, <1>5
  <2>2. at[q] <= Out(p)
    <3>1. SUFFICES ASSUME Out(p) < at[q] PROVE FALSE
      BY <1>1
    <3>2. Messages(calls, p, Out(p)) <= Messages(calls, p, at[q])
      BY <1>1, <3>1, MessagesGrow
    <3>3. QED
      BY <1>2, <2>1, <3>2
  <2>3. PICK k \in (at[q] + 1)..Out(p) : Sends(p, calls[k])
    BY <1>1, <2>1, <2>2, MessagesGrow, SMTT(30)
  <2>4. k \in 1..Len(calls) /\ at[q] < k /\ k <= at[p] + 1
    BY <1>1, <1>3, <2>3, SMTT(30) DEF Out
  <2>5. QED
    BY <2>3, <2>4, SentToCommunicator
<1>6. QED
  BY <1>4, <1>5

(***************************************************************************)
(* A program with a communicator uses its VC.                              *)
(***************************************************************************)
LEMMA CommunicatorUsesVC ==
  ASSUME CloseInv, NEW p \in Proc, HasComm(p)
  PROVE  ~ClosingVC(p) /\ pg[p].vcref > 0
<1>1. PICK c \in DOMAIN comm[p] : TRUE
  BY DEF HasComm
<1>2. PlaceInv(p) /\ CountInv(p) /\ TypeInv /\ CallInv /\ Len(calls) \in Nat /\ at[p] \in Nat
  BY Facts
<1>3. comm[p][c] \in Comm /\ IsFiniteSet(DOMAIN comm[p])
  <2>1. Done(p) \in 0..MaxCalls
    BY <1>2, TeardownAssumption DEF PlaceInv, CallInv, Done
  <2>2. comm[p][c] \in Comm
    BY <1>2, <2>1, TeardownAssumption DEF PlaceInv, Comm
  <2>3. DOMAIN comm[p] \in SUBSET (1..Done(p)) /\ IsFiniteSet(1..Done(p))
    BY <1>2, <2>1, LiveStep, FS_Interval DEF PlaceInv
  <2>4. QED
    BY <2>2, <2>3, FS_Subset
<1>4. c \in Users(comm[p], comm[p][c])
  BY DEF Users
<1>5. ASSUME \/ Refs(pg[p], vcrt[p], comm[p], TRUE)
             \/ Refs(pg[p], vcrt[p], comm[p], FALSE)
      PROVE  pg[p].vcref > 0
  <2>1. vcrt[p][comm[p][c]] = Cardinality(Users(comm[p], comm[p][c]))
    BY <1>3, <1>5 DEF Refs
  <2>2. vcrt[p][comm[p][c]] > 0
    BY <1>3, <1>4, <2>1, UsersFinite, FS_EmptySet
  <2>3. comm[p][c] \in Tables(vcrt[p])
    BY <1>3, <2>2 DEF Tables
  <2>4. Cardinality(Tables(vcrt[p])) \in Nat
    BY TablesFinite
  <2>5. QED
    BY <1>5, <2>3, <2>4 DEF Refs
<1>6. ~Finalizing(p)
  BY DEF HasComm
<1>7. CASE ClosingVC(p)
  <2>1. Refs(pg[p], vcrt[p], comm[p], TRUE) /\ pg[p].vcref = 0
    BY <1>2, <1>6, <1>7 DEF CountInv
  <2>2. QED
    BY <1>5, <2>1
<1>8. CASE ~ClosingVC(p)
  <2>1. Refs(pg[p], vcrt[p], comm[p], FALSE)
    BY <1>2, <1>6, <1>8 DEF CountInv
  <2>2. QED
    BY <1>5, <1>8, <2>1
<1>9. QED
  BY <1>7, <1>8

-----------------------------------------------------------------------------
(***************************************************************************)
(* The calls use the close protocol as VCClose allows.                     *)
(***************************************************************************)
CloseStep == [Close!Next]_closeVars

LEMMA SenderHasCommunicator ==
  ASSUME CloseInv, NEW p \in Proc, phase[p] \in {"idle", "vc", "wait"}, at[p] < Len(calls),
         calls[at[p] + 1].op \in {"dup", "merge", "send"}
  PROVE  HasComm(p) /\ ~ClosingVC(p)
<1>1. /\ at[p] \in Nat /\ Len(calls) \in Nat /\ PlaceInv(p) /\ CallInv
      /\ at[p] + 1 \in 1..Len(calls)
  BY Facts
<1>2. calls[at[p] + 1].comm \in Live(calls, at[p])
  BY <1>1 DEF CallInv, OnComm
<1>3. Done(p) = at[p] /\ DOMAIN comm[p] = Live(calls, at[p])
  BY <1>1 DEF PlaceInv, Done
<1>4. ~Finalizing(p)
  BY DEF Finalizing, In, CallNo
<1>5. QED
  BY <1>2, <1>3, <1>4, CommunicatorUsesVC DEF HasComm

LEMMA GetVCCloses ==
  ASSUME CloseInv, NEW p \in Proc, phase[p] = "idle", at[p] < Len(calls),
         Sends(p, calls[at[p] + 1]), Comm_get_vc(p)
  PROVE  CloseStep /\ (VC(p) = "INACTIVE" => Close!Comm_get_vc(p, Peer(p)))
<1> DEFINE q == Peer(p)
<1>1. /\ q \in Proc /\ q \in Close!Peers(p) /\ Peer(q) = p /\ at[p] \in Nat /\ Len(calls) \in Nat
      /\ LinkInv(p) /\ CallInv /\ opens[p][q] \in Nat
  BY Facts
<1>2. CASE vcState[p][q] = "INACTIVE"
  <2>1. vcState[q][p] # "CLOSE_ACKED"
    BY <1>1, SenderFirst, CommunicatorUsesVC DEF ClosingVC
  <2>2. opens[p][q] < MaxOpen
    BY <1>1, BoundsAssumption, TeardownAssumption DEF LinkInv, OpensInv, CallInv
  <2>3. Close!Comm_get_vc(p, q)
    BY <1>2, <2>1, <2>2 DEF Comm_get_vc, Close!Comm_get_vc
  <2>4. QED
    BY <1>1, <2>3 DEF CloseStep, Close!Next
<1>3. CASE vcState[p][q] # "INACTIVE"
  BY <1>3 DEF Comm_get_vc, CloseStep, closeVars, VC
<1>4. QED
  BY <1>2, <1>3

LEMMA SendDataCloses ==
  ASSUME CloseInv, NEW p \in Proc, phase[p] = "vc", SendData(p)
  PROVE  Close!SendData(p, Peer(p)) /\ CloseStep
<1> DEFINE q == Peer(p)
<1>1. /\ q \in Proc /\ q \in Close!Peers(p) /\ at[p] \in Nat /\ at[q] \in Nat /\ Len(calls) \in Nat
      /\ LinkInv(p) /\ PlaceInv(p) /\ CallInv
      /\ unread[q] \in Nat /\ Flying(p) \in Nat /\ VC(p) \in Close!VCStates
  BY Facts
<1>2. at[p] < Len(calls) /\ Sends(p, calls[at[p] + 1]) /\ VC(p) # "INACTIVE"
  BY <1>1 DEF PlaceInv, LinkInv, SenderInv
<1>3. vcState[p][q] \in {"ACTIVE", "REMOTE_CLOSE"}
  BY <1>1, <1>2, SenderHasCommunicator DEF Sends, ClosingVC, VC, Close!VCStates
<1>4. Close!DataInFlight(wire[p][q]) < MaxData
  <2>1. /\ Messages(calls, p, at[p]) = Messages(calls, p, at[q]) + unread[q] + Flying(p)
        /\ Messages(calls, p, at[p]) \in 0..at[p] /\ Messages(calls, p, at[q]) \in Nat
    BY <1>1, MessagesCount, MessagesNat DEF LinkInv, MessageInv, Out
  <2>2. Flying(p) <= at[p]
    BY <1>1, <2>1
  <2>3. QED
    BY <1>1, <1>2, <2>2, BoundsAssumption, TeardownAssumption DEF CallInv, Flying
<1>5. Close!SendData(p, q)
  BY <1>3, <1>4 DEF SendData, Close!SendData
<1>6. QED
  BY <1>1, <1>5 DEF CloseStep, Close!Next

LEMMA CallCloses ==
  ASSUME CloseInv, NEW p \in Proc, Call(p)
  PROVE  CloseStep
<1>1. Peer(p) \in Close!Peers(p)
  BY Facts
<1>2. ASSUME NEW c, SendCloseIf(c, p) PROVE CloseStep
  BY <1>1, <1>2 DEF SendCloseIf, CloseStep, Close!Next
<1>3. ASSUME UNCHANGED closeVars PROVE CloseStep
  BY <1>3 DEF CloseStep
<1>4. CASE Connect(p)
  BY <1>3, <1>4 DEF Connect
<1>5. CASE SendRecv(p)
  <2>1. at[p] < Len(calls) /\ calls[at[p] + 1].op = "send"
    BY <1>5 DEF SendRecv, In, CallNo
  <2>2. CASE phase[p] = "idle" /\ Comm_get_vc(p) /\ calls[at[p] + 1].from = p
    BY <2>1, <2>2, GetVCCloses DEF Sends
  <2>3. CASE phase[p] = "vc" /\ SendData(p)
    BY <2>3, SendDataCloses
  <2>4. QED
    BY <1>3, <1>5, <2>2, <2>3 DEF SendRecv, CallNo
<1>6. CASE DupMerge(p)
  <2>1. at[p] < Len(calls) /\ Sends(p, calls[at[p] + 1])
    BY <1>6 DEF DupMerge, In, CallNo, Sends
  <2>2. CASE phase[p] = "idle" /\ Comm_get_vc(p)
    BY <2>1, <2>2, GetVCCloses
  <2>3. CASE phase[p] = "vc" /\ SendData(p)
    BY <2>3, SendDataCloses
  <2>4. QED
    BY <1>3, <1>6, <2>2, <2>3 DEF DupMerge
<1>7. CASE Comm_free(p)
  BY <1>2, <1>7 DEF Comm_free, VCRT_Release
<1>8. CASE Comm_disconnect(p)
  BY <1>2, <1>3, <1>8 DEF Comm_disconnect, VCRT_Release
<1>9. CASE Finalize(p)
  BY <1>2, <1>3, <1>9 DEF Finalize
<1>10. QED
  BY <1>4, <1>5, <1>6, <1>7, <1>8, <1>9 DEF Call

LEMMA ProgressCloses ==
  ASSUME CloseInv, NEW p \in Proc, Progress(p)
  PROVE  CloseStep
<1>1. Peer(p) \in Close!Peers(p)
  BY Facts
<1>2. \/ Close!RecvOpen(p, Peer(p)) \/ Close!RecvData(p, Peer(p))
      \/ Close!PktHandler_Close(p, Peer(p)) \/ Close!Handle_connection(p, Peer(p))
  BY DEF Progress
<1>3. QED
  BY <1>1, <1>2 DEF CloseStep, Close!Next

LEMMA NextCloses == CloseInv /\ [Next]_vars => CloseStep
<1> SUFFICES ASSUME CloseInv, [Next]_vars PROVE CloseStep
  OBVIOUS
<1>1. CASE UNCHANGED vars
  BY <1>1 DEF vars, CloseStep
<1>2. ASSUME NEW p \in Proc, Choose(p) PROVE CloseStep
  BY <1>2 DEF Choose, CloseStep
<1>3. QED
  BY <1>1, <1>2, CallCloses, ProgressCloses DEF Next

-----------------------------------------------------------------------------
(***************************************************************************)
(* What a step of p does to the packets between p and its peer.            *)
(***************************************************************************)
LEMMA OpenTail ==
  ASSUME NEW w \in Seq(Close!Packets), w # <<>>, NEW sending, OpenRight(w, sending)
  PROVE  OpenRight(Tail(w), sending)
<1> DEFINE t == Tail(w)
<1>1. t \in Seq(Close!Packets) /\ Len(w) = Len(t) + 1 /\ Len(t) \in Nat
  OBVIOUS
<1>2. \A i \in 1..Len(t) : t[i] = w[i + 1]
  OBVIOUS
<1> HIDE DEF t
<1>3. \A i \in 1..Len(t) : t[i] # Close!Open
  <2> TAKE i \in 1..Len(t)
  <2>1. i + 1 \in 2..Len(w)
    BY <1>1
  <2>2. QED
    BY <1>2, <2>1 DEF OpenRight
<1>4. t # <<>> => 1 \in 1..Len(t)
  BY <1>1, EmptySeq
<1>5. 2..Len(t) \subseteq 1..Len(t)
  BY <1>1
<1>6. QED
  BY <1>3, <1>4, <1>5 DEF OpenRight, t

LEMMA OpenAppend ==
  ASSUME NEW w \in Seq(Close!Packets), NEW e \in Close!Packets, e # Close!Open,
         NEW sending \in BOOLEAN, NEW after \in BOOLEAN, OpenRight(w, sending),
         sending => after \/ e = Close!Data
  PROVE  OpenRight(Append(w, e), after)
<1> DEFINE t == Append(w, e)
           n == Len(w)
<1>1. t \in Seq(Close!Packets) /\ Len(t) = n + 1 /\ n \in Nat /\ t[n + 1] = e
  OBVIOUS
<1>2. \A i \in 1..n : t[i] = w[i]
  OBVIOUS
<1>3. w = <<>> <=> n = 0
  OBVIOUS
<1>a. Len(w) = n
  OBVIOUS
<1> HIDE DEF t, n
<1>4. \A i \in 2..Len(t) : t[i] # Close!Open
  <2> TAKE i \in 2..Len(t)
  <2>1. i = n + 1 \/ (i \in 2..n /\ i \in 1..n)
    BY <1>1
  <2>2. QED
    BY <1>1, <1>2, <1>a, <2>1 DEF OpenRight
<1>5. ASSUME t[1] = Close!Open PROVE Close!Has(t, Close!Data) \/ after
  <2>1. w # <<>> /\ w[1] = Close!Open
    BY <1>1, <1>2, <1>3, <1>5
  <2>2. CASE Close!Has(w, Close!Data)
    <3>1. PICK i \in 1..n : w[i] = Close!Data
      BY <1>a, <2>2 DEF Close!Has
    <3>2. i \in 1..Len(t) /\ t[i] = Close!Data
      BY <1>1, <1>2, <3>1
    <3>3. QED
      BY <3>2 DEF Close!Has
  <2>3. CASE e = Close!Data
    <3>1. n + 1 \in 1..Len(t)
      BY <1>1
    <3>2. QED
      BY <1>1, <2>3, <3>1 DEF Close!Has
  <2>4. QED
    BY <2>1, <2>2, <2>3 DEF OpenRight
<1>6. QED
  BY <1>4, <1>5 DEF OpenRight, t

LEMMA OpenAlone == Append(<<>>, Close!Open) = <<Close!Open>> /\ OpenRight(<<Close!Open>>, TRUE)
BY DEF OpenRight

LEMMA PacketKinds ==
  /\ {Close!Open, Close!Data, Close!Close(TRUE), Close!Close(FALSE)} = Close!Packets
  /\ Close!Open # Close!Data
  /\ \A a : Close!Close(a) # Close!Open /\ Close!Close(a) # Close!Data
BY DEF Close!Open, Close!Data, Close!Close, Close!Packets

LEMMA SendFact ==
  ASSUME CloseInv, NEW p \in Proc, NEW e, wire' = Close!Send(wire, p, Peer(p), e)
  PROVE  /\ wire'[p][Peer(p)] = Append(wire[p][Peer(p)], e)
         /\ wire'[Peer(p)][p] = wire[Peer(p)][p]
BY Facts DEF Close!TypeOK, Close!Send, Close!Set

LEMMA ConsumeFact ==
  ASSUME CloseInv, NEW p \in Proc, NEW w, w = Close!Consume(wire, Peer(p), p)
  PROVE  /\ w[Peer(p)][p] = Tail(wire[Peer(p)][p])
         /\ w[p][Peer(p)] = wire[p][Peer(p)]
BY Facts DEF Close!TypeOK, Close!Consume, Close!Set

(***************************************************************************)
(* A step of p that sends no message and receives none, but maybe a close. *)
(***************************************************************************)
Quiet(p) ==
  LET q == Peer(p) IN
  /\ Flying(p)' = Flying(p) /\ Flying(q)' = Flying(q)
  /\ opens' = opens
  /\ OpenInv(p)' /\ OpenInv(q)'

LEMMA QuietSame ==
  ASSUME CloseInv, NEW p \in Proc, UNCHANGED closeVars,
         phase[p] # "vc" \/ phase'[p] = "vc", phase'[Peer(p)] = phase[Peer(p)]
  PROVE  Quiet(p)
<1>1. LinkInv(p) /\ LinkInv(Peer(p)) /\ wire' = wire /\ opens' = opens
  BY Facts DEF closeVars
<1>2. QED
  BY <1>1 DEF Quiet, Flying, LinkInv, OpenInv, OpenRight

LEMMA QuietClose ==
  ASSUME CloseInv, NEW p \in Proc, NEW c, SendCloseIf(c, p),
         phase[p] # "vc", phase'[Peer(p)] = phase[Peer(p)]
  PROVE  Quiet(p)
<1> DEFINE q == Peer(p)
<1>1. CASE UNCHANGED closeVars
  BY <1>1, QuietSame
<1>2. CASE Close!VC_SendClose(p, q)
  <2>1. /\ q \in Proc /\ Peer(q) = p /\ LinkInv(p) /\ LinkInv(q)
        /\ wire[p][q] \in Seq(Close!Packets)
    BY Facts
  <2>2. PICK e \in {Close!Close(TRUE), Close!Close(FALSE)} : wire' = Close!Send(wire, p, q, e)
    BY <1>2 DEF Close!VC_SendClose, Close!CloseAck
  <2>3. e \in Close!Packets /\ e # Close!Open /\ e # Close!Data
    BY <2>2, PacketKinds
  <2>4. wire'[p][q] = Append(wire[p][q], e) /\ wire'[q][p] = wire[q][p]
    BY <2>2, SendFact
  <2>5. Flying(p)' = Flying(p) /\ Flying(q)' = Flying(q)
    <3>1. Close!DataInFlight(Append(wire[p][q], e)) = Close!DataInFlight(wire[p][q])
      <4>1. Close!DataInFlight(wire[p][q]) \in Nat
        BY <2>1, DataCount
      <4>2. QED
        BY <2>1, <2>3, <4>1, DataAppend
    <3>2. QED
      BY <2>1, <2>4, <3>1 DEF Flying
  <2>6. OpenInv(p)'
    <3>1. OpenRight(wire[p][q], FALSE)
      BY <2>1 DEF LinkInv, OpenInv, OpenRight
    <3>2. OpenRight(Append(wire[p][q], e), phase'[p] = "vc")
      BY <2>1, <2>3, <3>1, OpenAppend
    <3>3. QED
      BY <2>4, <3>2 DEF OpenInv
  <2>7. OpenInv(q)'
    BY <2>1, <2>4 DEF LinkInv, OpenInv, OpenRight
  <2>8. opens' = opens
    BY <1>2 DEF Close!VC_SendClose
  <2>9. QED
    BY <2>5, <2>6, <2>7, <2>8 DEF Quiet
<1>3. QED
  BY <1>1, <1>2 DEF SendCloseIf

-----------------------------------------------------------------------------
(***************************************************************************)
(* What a step of p has to keep: its own side, and what it changes of the  *)
(* other one's.                                                            *)
(***************************************************************************)
LinkMove(p) ==
  LET q == Peer(p) IN
  /\ unread'[q] = unread[q] /\ opens'[q] = opens[q]
  /\ Messages(calls, p, Out(p)') + Flying(p) = Messages(calls, p, Out(p)) + Flying(p)'
  /\ Messages(calls, q, at'[p]) + unread'[p] + Flying(q)' =
       Messages(calls, q, at[p]) + unread[p] + Flying(q)
  /\ SenderInv(p)' /\ UseInv(p)' /\ OpensInv(p)' /\ OpenInv(p)' /\ OpenInv(q)'
  /\ ConnectInv(p)' /\ ConnectInv(q)' /\ FinalLast'

LEMMA LinkStep ==
  ASSUME CloseInv, NEW p \in Proc, Step(p), CloseStep, LinkMove(p)
  PROVE  CloseInv'
<1> DEFINE q == Peer(p)
<1>1. TeardownInv' /\ Close!IInv'
  BY OthersKeep, CloseNext DEF CloseInv, CloseStep
<1>2. /\ q \in Proc /\ q # p /\ Peer(q) = p /\ LinkInv(p) /\ LinkInv(q)
      /\ at[p] \in Nat /\ at[q] \in Nat /\ unread[p] \in Nat /\ unread[q] \in Nat
      /\ Flying(p) \in Nat /\ Flying(q) \in Nat /\ Out(p) \in Nat /\ Out(q) \in Nat
  BY Facts
<1>3. /\ calls' = calls
      /\ at'[q] = at[q] /\ phase'[q] = phase[q] /\ pg'[q] = pg[q] /\ VC(q)' = VC(q)
      /\ unread'[p] \in Nat /\ at'[p] \in Nat /\ phase' \in [Proc -> Phases]
  BY <1>2 DEF Step, Alone, TypeInv
<1>4. Out(q)' = Out(q) /\ Out(p)' \in Nat
  BY <1>3 DEF Out
<1>5. Flying(p)' \in Nat /\ Flying(q)' \in Nat
  <2>1. wire'[p][q] \in Seq(Close!Packets) /\ wire'[q][p] \in Seq(Close!Packets)
    BY <1>1, <1>2 DEF Close!IInv, Close!TypeOK
  <2>2. QED
    BY <1>2, <2>1, DataCount DEF Flying
<1>6. /\ Messages(calls, p, Out(p)) \in Nat /\ Messages(calls, p, Out(p)') \in Nat
      /\ Messages(calls, p, at[q]) \in Nat
      /\ Messages(calls, q, at[p]) \in Nat /\ Messages(calls, q, at'[p]) \in Nat
      /\ Messages(calls, q, Out(q)) \in Nat
  BY <1>2, <1>3, <1>4, MessagesNat
<1>7. MessageInv(p)'
  <2>1. Messages(calls, p, Out(p)) = Messages(calls, p, at[q]) + unread[q] + Flying(p)
    BY <1>2 DEF LinkInv, MessageInv
  <2>2. /\ Messages(calls, p, Out(p)') + Flying(p) = Messages(calls, p, Out(p)) + Flying(p)'
        /\ unread'[q] = unread[q]
    BY DEF LinkMove
  <2>3. Messages(calls, p, Out(p)') = Messages(calls, p, at[q]) + unread[q] + Flying(p)'
    BY <1>2, <1>5, <1>6, <2>1, <2>2
  <2>4. QED
    BY <1>3, <2>2, <2>3 DEF MessageInv
<1>8. MessageInv(q)'
  <2>1. Messages(calls, q, Out(q)) = Messages(calls, q, at[p]) + unread[p] + Flying(q)
    BY <1>2 DEF LinkInv, MessageInv
  <2>2. Messages(calls, q, at'[p]) + unread'[p] + Flying(q)' =
          Messages(calls, q, at[p]) + unread[p] + Flying(q)
    BY DEF LinkMove
  <2>3. Messages(calls, q, Out(q)) = Messages(calls, q, at'[p]) + unread'[p] + Flying(q)'
    BY <2>1, <2>2
  <2>4. QED
    BY <1>2, <1>3, <1>4, <2>3 DEF MessageInv
<1>9. LinkInv(p)'
  BY <1>7 DEF LinkMove, LinkInv
<1>10. SenderInv(q)' /\ UseInv(q)' /\ OpensInv(q)'
  <2>1. Finalizing(q)' <=> Finalizing(q)
    BY <1>3 DEF Finalizing, In, CallNo
  <2>2. UseInv(q)'
    BY <1>2, <1>3, <2>1 DEF LinkInv, UseInv
  <2>3. SenderInv(q)'
    BY <1>2, <1>3 DEF LinkInv, SenderInv
  <2>4. OpensInv(q)'
    BY <1>2, <1>3 DEF LinkInv, OpensInv, LinkMove
  <2>5. QED
    BY <2>2, <2>3, <2>4
<1>11. LinkInv(q)'
  BY <1>8, <1>10 DEF LinkMove, LinkInv
<1>12. \A r \in Proc : LinkInv(r)'
  BY <1>9, <1>11, TwoPeers
<1>13. QED
  BY <1>1, <1>12 DEF CloseInv, LinkMove

LEMMA FinalKeeps ==
  ASSUME CloseInv, NEW p \in Proc, Step(p),
         \/ at'[p] = at[p]
         \/ at'[p] = at[p] + 1 /\ at[p] < Len(calls) /\ Op(p) # "finalize"
  PROVE  FinalLast'
<1>1. FinalLast /\ calls' = calls /\ at[p] \in Nat /\ Len(calls) \in Nat
  BY Facts DEF CloseInv, Step, Alone
<1>2. \A r \in Proc : r = p \/ at'[r] = at[r]
  BY DEF Step, Alone
<1>3. QED
  BY <1>1, <1>2 DEF FinalLast, Op

LEMMA ConnectKeeps ==
  ASSUME CloseInv, NEW p \in Proc, Step(p), at[p] < Len(calls), Op(p) # "connect",
         at'[p] \in {at[p], at[p] + 1}, phase'[p] # "sync"
  PROVE  ConnectInv(p)' /\ ConnectInv(Peer(p))'
<1> DEFINE q == Peer(p)
<1>1. /\ q \in Proc /\ q # p /\ Peer(q) = p /\ LinkInv(p) /\ LinkInv(q) /\ PlaceInv(p)
      /\ at[p] \in Nat /\ at[q] \in Nat
  BY Facts
<1>2. calls' = calls /\ at'[q] = at[q] /\ phase'[q] = phase[q]
  BY <1>1 DEF Step, Alone
<1>3. phase[p] \notin {"exchange", "sync"}
  <2>1. calls[at[p] + 1] \in CallRecord
    BY Facts, <1>1 DEF CallInv
  <2>2. Op(p) \in OnComm \cup {"finalize"}
    BY <2>1 DEF CallRecord, Op, OnComm
  <2>3. PhaseOf(Op(p)) \subseteq {"vc", "wait", "closing", "finalized"}
    BY <2>2 DEF PhaseOf, OnComm
  <2>4. QED
    BY <1>1, <2>3 DEF PlaceInv, Op
<1>4. ConnectInv(p)'
  <2>1. ASSUME NEW k \in 1..at'[p], calls[k].op = "connect"
        PROVE  at[q] >= k \/ (at[q] = k - 1 /\ phase[q] = "sync")
    <3>1. k # at[p] + 1
      BY <2>1 DEF Op
    <3>2. k \in 1..at[p]
      BY <1>1, <3>1
    <3>3. QED
      BY <1>1, <2>1, <3>2 DEF LinkInv, ConnectInv
  <2>2. QED
    BY <1>2, <2>1 DEF ConnectInv
<1>5. ConnectInv(q)'
  <2>1. phase[q] = "sync" => at[p] > at[q]
    BY <1>1, <1>3 DEF LinkInv, ConnectInv
  <2>2. \A k \in 1..at[q] : calls[k].op = "connect" => at[p] >= k
    BY <1>1, <1>3 DEF LinkInv, ConnectInv
  <2>3. at'[p] >= at[p] /\ at'[p] \in Nat
    BY <1>1
  <2>4. \A k \in 1..at[q] : calls[k].op = "connect" => at'[p] >= k
    BY <1>1, <2>2, <2>3
  <2>5. phase[q] = "sync" => at'[p] > at[q]
    BY <1>1, <2>1, <2>3
  <2>6. QED
    BY <1>1, <1>2, <2>4, <2>5 DEF ConnectInv
<1>6. QED
  BY <1>4, <1>5

(***************************************************************************)
(* The steps of the calls that carry no message.                           *)
(***************************************************************************)
LEMMA NoMessage ==
  ASSUME CloseInv, NEW p \in Proc, Op(p) \notin {"dup", "merge", "send"}
  PROVE  \A r : Messages(calls, r, at[p] + 1) = Messages(calls, r, at[p])
<1>1. at[p] \in Nat
  BY Facts
<1>2. \A r : ~Sends(r, calls[at[p] + 1])
  BY DEF Sends, Op
<1>3. QED
  BY <1>1, <1>2, MessagesCount

LEMMA QuietStep ==
  ASSUME CloseInv, NEW p \in Proc, Step(p), CloseStep, Quiet(p), unread' = unread,
         at[p] < Len(calls), Op(p) \notin {"dup", "merge", "send"},
         \/ at'[p] = at[p]
         \/ at'[p] = at[p] + 1 /\ Op(p) # "finalize",
         phase'[p] \notin {"vc", "wait"},
         UseInv(p)', ConnectInv(p)', ConnectInv(Peer(p))'
  PROVE  CloseInv'
<1> DEFINE q == Peer(p)
<1>1. /\ q \in Proc /\ LinkInv(p) /\ PlaceInv(p) /\ CallInv
      /\ at[p] \in Nat /\ Len(calls) \in Nat /\ opens[p][q] \in Nat
      /\ Flying(p) \in Nat /\ Flying(q) \in Nat /\ unread[p] \in Nat
  BY Facts
<1>2. phase[p] \notin {"vc", "wait"}
  <2>1. calls[at[p] + 1] \in CallRecord
    BY <1>1 DEF CallInv
  <2>2. Op(p) \in {"connect", "free", "disconnect", "finalize"}
    BY <2>1 DEF CallRecord, Op, OnComm
  <2>3. PhaseOf(Op(p)) \subseteq {"exchange", "sync", "closing", "finalized"}
    BY <2>2 DEF PhaseOf
  <2>4. QED
    BY <1>1, <2>3 DEF PlaceInv, Op
<1>3. Out(p) = at[p] /\ Out(p)' = at'[p]
  BY <1>2 DEF Out
<1>4. \A r : Messages(calls, r, at'[p]) = Messages(calls, r, at[p])
  BY NoMessage
<1>5. /\ Flying(p)' = Flying(p) /\ Flying(q)' = Flying(q) /\ opens' = opens
      /\ OpenInv(p)' /\ OpenInv(q)'
  BY DEF Quiet
<1>6. SenderInv(p)'
  BY DEF SenderInv
<1>7. OpensInv(p)'
  <2>1. opens[p][q] <= at[p]
    BY <1>1, <1>2 DEF LinkInv, OpensInv
  <2>2. opens[p][q] <= at'[p]
    BY <1>1, <2>1
  <2>3. QED
    BY <1>5, <2>2 DEF OpensInv
<1>8. LinkMove(p)
  <2>1. FinalLast'
    BY FinalKeeps
  <2>2. Messages(calls, p, Out(p)') + Flying(p) = Messages(calls, p, Out(p)) + Flying(p)'
    BY <1>3, <1>4, <1>5
  <2>3. Messages(calls, q, at'[p]) + unread'[p] + Flying(q)' =
          Messages(calls, q, at[p]) + unread[p] + Flying(q)
    BY <1>4, <1>5
  <2>4. QED
    BY <1>5, <1>6, <1>7, <2>1, <2>2, <2>3 DEF LinkMove
<1>9. QED
  BY <1>8, LinkStep

(***************************************************************************)
(* MPI_Comm_connect and MPI_Comm_accept.                                   *)
(***************************************************************************)
LEMMA NewVCRTUse ==
  ASSUME CloseInv, NEW p \in Proc, NewVCRT(p)
  PROVE  pg'[p].vcref > 0
<1> DEFINE g == [pg[p] EXCEPT !.known = TRUE]
<1>1. pg[p] \in Group /\ pg'[p] = Dup_vcr(g)
  BY Facts DEF TypeInv, NewVCRT
<1>2. g \in Group /\ g.vcref \in Nat
  BY <1>1 DEF Group
<1> HIDE DEF g
<1>3. CASE g.vcref = 0
  <2>1. Dup_vcr(g) = [known |-> g.known, ref |-> g.ref + 1, vcref |-> 2]
    BY <1>2, <1>3 DEF Dup_vcr, Group
  <2>2. QED
    BY <1>1, <2>1
<1>4. CASE g.vcref # 0
  <2>1. Dup_vcr(g) = [known |-> g.known, ref |-> g.ref, vcref |-> g.vcref + 1]
    BY <1>2, <1>4 DEF Dup_vcr, Group
  <2>2. QED
    BY <1>1, <1>2, <2>1
<1>5. QED
  BY <1>3, <1>4

LEMMA ConnectLink ==
  ASSUME CloseInv, NEW p \in Proc, Connect(p)
  PROVE  CloseInv'
<1> DEFINE q == Peer(p)
<1>1. /\ q \in Proc /\ q # p /\ Peer(q) = p /\ LinkInv(p) /\ LinkInv(q)
      /\ at[p] \in Nat /\ at[q] \in Nat /\ PlaceInv(p) /\ TypeInv
  BY Facts
<1>2. /\ at[p] < Len(calls) /\ Op(p) = "connect"
      /\ UNCHANGED closeVars /\ unread' = unread
  BY DEF Connect, In, CallNo, Op
<1>3. Step(p) /\ CloseStep
  BY ConnectStep, CallCloses DEF CloseInv, Call
<1>4. calls' = calls /\ at'[q] = at[q] /\ phase'[q] = phase[q] /\ VC(p)' = VC(p)
  BY <1>1, <1>2, <1>3 DEF Step, Alone, closeVars, VC
<1>5. ~Finalizing(p) /\ ~Finalizing(p)'
  BY <1>2, NotFinalizing DEF CloseInv, Connect, Phases
<1>6. CASE phase[p] = "idle" /\ Goto(p, "exchange") /\ pg' = pg
  <2>1. at'[p] = at[p] /\ phase'[p] = "exchange"
    BY <1>1, <1>6 DEF Goto, TypeInv
  <2>2. UseInv(p)'
    BY <1>1, <1>4, <1>5, <1>6 DEF UseInv, LinkInv
  <2>3. ConnectInv(p)'
    BY <1>1, <1>4, <2>1 DEF ConnectInv, LinkInv
  <2>4. ConnectInv(q)'
    BY <1>1, <1>4, <1>6, <2>1 DEF ConnectInv, LinkInv
  <2>5. Quiet(p)
    BY <1>2, <1>4, <1>6, QuietSame
  <2>6. QED
    BY <1>2, <1>3, <2>1, <2>2, <2>3, <2>4, <2>5, QuietStep
<1>7. CASE phase[p] = "exchange" /\ Reached(p, {"exchange", "sync"}) /\ NewVCRT(p) /\ Goto(p, "sync")
  <2>1. at'[p] = at[p] /\ phase'[p] = "sync"
    BY <1>1, <1>7 DEF Goto, TypeInv
  <2>2. UseInv(p)'
    BY <1>5, <1>7, NewVCRTUse DEF UseInv
  <2>3. ConnectInv(p)'
    BY <1>1, <1>4, <1>7, <2>1 DEF ConnectInv, LinkInv, Reached
  <2>4. ConnectInv(q)'
    BY <1>1, <1>4, <1>7, <2>1 DEF ConnectInv, LinkInv
  <2>5. Quiet(p)
    BY <1>2, <1>4, <1>7, QuietSame
  <2>6. QED
    BY <1>2, <1>3, <2>1, <2>2, <2>3, <2>4, <2>5, QuietStep
<1>8. CASE phase[p] = "sync" /\ Reached(p, {"sync"}) /\ Return(p) /\ pg' = pg
  <2>1. at'[p] = at[p] + 1 /\ phase'[p] = "idle"
    BY <1>1, <1>8 DEF Return, TypeInv
  <2>2. UseInv(p)'
    BY <1>1, <1>4, <1>5, <1>8 DEF UseInv, LinkInv
  <2>3. ConnectInv(p)'
    <3>1. ASSUME NEW k \in 1..at'[p], calls[k].op = "connect"
          PROVE  at[q] >= k \/ (at[q] = k - 1 /\ phase[q] = "sync")
      <4>1. CASE k = at[p] + 1
        BY <1>1, <1>8, <4>1 DEF Reached
      <4>2. CASE k \in 1..at[p]
        BY <1>1, <3>1, <4>2 DEF ConnectInv, LinkInv
      <4>3. QED
        BY <1>1, <2>1, <4>1, <4>2
    <3>2. QED
      BY <1>4, <2>1, <3>1 DEF ConnectInv
  <2>4. ConnectInv(q)'
    <3>1. ASSUME NEW k \in 1..at[q], calls[k].op = "connect"
          PROVE  at'[p] >= k
      BY <1>1, <2>1, <3>1 DEF ConnectInv, LinkInv
    <3>2. phase[q] = "sync" => at'[p] > at[q]
      BY <1>1, <2>1 DEF ConnectInv, LinkInv
    <3>3. QED
      BY <1>1, <1>4, <3>1, <3>2 DEF ConnectInv
  <2>5. Quiet(p)
    BY <1>2, <1>4, <1>8, QuietSame
  <2>6. QED
    BY <1>2, <1>3, <2>1, <2>2, <2>3, <2>4, <2>5, QuietStep
<1>9. QED
  BY <1>6, <1>7, <1>8 DEF Connect

(***************************************************************************)
(* MPID_VCRT_Release closes a VC that is no longer referred to.            *)
(***************************************************************************)
LEMMA ReleaseUse ==
  ASSUME CloseInv, NEW p \in Proc, NEW t, NEW d \in BOOLEAN, VCRT_Release(p, t, d),
         ~Finalizing(p), ~Finalizing(p)', pg' \in [Proc -> Group]
  PROVE  UseInv(p)'
<1> DEFINE h == [pg[p] EXCEPT !.vcref = VC_release(@, d)]
           unused == vcrt[p][t] = 1 /\ h.vcref = 0
<1>1. TypeInv /\ LinkInv(p)
  BY Facts
<1>2. /\ SendCloseIf(unused /\ VC(p) # "INACTIVE", p)
      /\ pg' = IF vcrt[p][t] # 1 THEN pg
               ELSE [pg EXCEPT ![p] = IF unused /\ VC(p) = "INACTIVE" THEN PG_release(h) ELSE h]
  BY DEF VCRT_Release, LeavesGroup, VC
<1> HIDE DEF h
<1>3. CASE unused /\ VC(p) # "INACTIVE"
  <2>1. VC(p)' \in {"LOCAL_CLOSE", "CLOSE_ACKED"}
    BY <1>1, <1>2, <1>3, SendCloseVC DEF SendCloseIf
  <2>2. QED
    BY <2>1 DEF UseInv
<1>4. CASE ~(unused /\ VC(p) # "INACTIVE")
  <2>1. VC(p)' = VC(p)
    BY <1>2, <1>4 DEF SendCloseIf, closeVars, VC
  <2>2. ASSUME VC(p) \in {"ACTIVE", "REMOTE_CLOSE"} PROVE pg'[p].vcref > 0
    <3>1. ~unused
      BY <1>4, <2>2
    <3>2. CASE vcrt[p][t] # 1
      BY <1>1, <1>2, <2>2, <3>2 DEF LinkInv, UseInv
    <3>3. CASE vcrt[p][t] = 1
      <4>1. pg'[p] = h /\ h.vcref # 0
        BY <1>1, <1>2, <3>1, <3>3 DEF TypeInv
      <4>2. QED
        BY <4>1 DEF Group
    <3>4. QED
      BY <3>2, <3>3
  <2>3. QED
    BY <2>1, <2>2 DEF UseInv
<1>5. QED
  BY <1>3, <1>4

LEMMA Comm_freeLink ==
  ASSUME CloseInv, NEW p \in Proc, Comm_free(p)
  PROVE  CloseInv'
<1> DEFINE q == Peer(p)
<1>1. /\ q \in Proc /\ q # p /\ TypeInv /\ at[p] \in Nat
  BY Facts
<1>2. /\ at[p] < Len(calls) /\ Op(p) = "free" /\ phase[p] = "idle"
      /\ VCRT_Release(p, comm[p][CommOf(p)], FALSE) /\ Return(p) /\ unread' = unread
  BY DEF Comm_free, In, CallNo, Op
<1>3. Step(p) /\ CloseStep
  BY Comm_freeStep, CallCloses DEF CloseInv, Call
<1>4. at'[p] = at[p] + 1 /\ phase'[p] = "idle" /\ phase'[q] = phase[q]
  BY <1>1, <1>2 DEF Return, TypeInv
<1>5. ~Finalizing(p) /\ ~Finalizing(p)' /\ pg' \in [Proc -> Group]
  BY <1>2, <1>3, NotFinalizing DEF CloseInv, Step, Alone, TypeInv
<1>6. UseInv(p)'
  BY <1>2, <1>5, ReleaseUse
<1>7. ConnectInv(p)' /\ ConnectInv(q)'
  BY <1>2, <1>3, <1>4, ConnectKeeps
<1>8. Quiet(p)
  BY <1>2, <1>4, QuietClose DEF VCRT_Release
<1>9. QED
  BY <1>2, <1>3, <1>4, <1>6, <1>7, <1>8, QuietStep

LEMMA Comm_disconnectLink ==
  ASSUME CloseInv, NEW p \in Proc, Comm_disconnect(p)
  PROVE  CloseInv'
<1> DEFINE q == Peer(p)
<1>1. /\ q \in Proc /\ q # p /\ TypeInv /\ at[p] \in Nat /\ LinkInv(p)
  BY Facts
<1>2. at[p] < Len(calls) /\ Op(p) = "disconnect" /\ unread' = unread
  BY DEF Comm_disconnect, In, CallNo, Op
<1>3. Step(p) /\ CloseStep
  BY Comm_disconnectStep, CallCloses DEF CloseInv, Call
<1>5. ~Finalizing(p) /\ ~Finalizing(p)' /\ pg' \in [Proc -> Group]
  BY <1>2, <1>3, NotFinalizing DEF CloseInv, Step, Alone, TypeInv, Comm_disconnect, Phases
<1>6. CASE phase[p] = "idle" /\ VCRT_Release(p, comm[p][CommOf(p)], TRUE) /\ Goto(p, "closing")
  <2>1. at'[p] = at[p] /\ phase'[p] = "closing" /\ phase'[q] = phase[q]
    BY <1>1, <1>6 DEF Goto, TypeInv
  <2>2. UseInv(p)'
    BY <1>5, <1>6, ReleaseUse
  <2>3. ConnectInv(p)' /\ ConnectInv(q)'
    BY <1>2, <1>3, <2>1, ConnectKeeps
  <2>4. Quiet(p)
    BY <1>6, <2>1, QuietClose DEF VCRT_Release
  <2>5. QED
    BY <1>2, <1>3, <2>1, <2>2, <2>3, <2>4, QuietStep
<1>7. CASE phase[p] = "closing" /\ Return(p) /\ UNCHANGED closeVars /\ pg' = pg
  <2>1. at'[p] = at[p] + 1 /\ phase'[p] = "idle" /\ phase'[q] = phase[q]
    BY <1>1, <1>7 DEF Return, TypeInv
  <2>2. UseInv(p)'
    BY <1>1, <1>5, <1>7 DEF LinkInv, UseInv, closeVars, VC
  <2>3. ConnectInv(p)' /\ ConnectInv(q)'
    BY <1>2, <1>3, <2>1, ConnectKeeps
  <2>4. Quiet(p)
    BY <1>7, <2>1, QuietSame
  <2>5. QED
    BY <1>2, <1>3, <2>1, <2>2, <2>3, <2>4, QuietStep
<1>8. QED
  BY <1>6, <1>7 DEF Comm_disconnect

(***************************************************************************)
(* MPI_Finalize.                                                           *)
(***************************************************************************)
LEMMA NoneOutstanding ==
  ASSUME CloseInv, NEW p \in Proc, outstanding[p] = 0
  PROVE  ~ClosingVC(p)
<1>1. Close!Closing(p) \in SUBSET Proc /\ IsFiniteSet(Proc)
  BY TeardownAssumption DEF Close!Closing, Close!Peers
<1>2. IsFiniteSet(Close!Closing(p))
  BY <1>1, FS_Subset
<1>3. Cardinality(Close!Closing(p)) = 0
  BY Facts, SameCardinality DEF Close!OutstandingExact
<1>4. Close!Closing(p) = {}
  BY <1>2, <1>3, FS_EmptySet
<1>5. QED
  BY <1>4, Facts DEF Close!Closing, ClosingVC

LEMMA FinalizeLink ==
  ASSUME CloseInv, NEW p \in Proc, Finalize(p)
  PROVE  CloseInv'
<1> DEFINE q == Peer(p)
<1>1. /\ q \in Proc /\ q # p /\ TypeInv /\ at[p] \in Nat /\ LinkInv(p) /\ CountInv(p)
      /\ VC(p) \in Close!VCStates
  BY Facts
<1>2. at[p] < Len(calls) /\ Op(p) = "finalize" /\ unread' = unread
  BY DEF Finalize, In, CallNo, Op
<1>3. Step(p) /\ CloseStep
  BY FinalizeStep, CallCloses DEF CloseInv, Call
<1>4. ASSUME NEW ph \in {"closing", "finalized"}, Goto(p, ph), Quiet(p),
             VC(p)' \notin {"ACTIVE", "REMOTE_CLOSE"}, ~pg'[p].known => VC(p)' = "INACTIVE"
      PROVE  CloseInv'
  <2>1. at'[p] = at[p] /\ phase'[p] = ph /\ calls' = calls
    BY <1>1, <1>4 DEF Goto, TypeInv
  <2>2. Finalizing(p)'
    BY <1>2, <2>1 DEF Finalizing, In, CallNo, Op
  <2>3. UseInv(p)'
    BY <1>4, <2>2 DEF UseInv
  <2>4. ConnectInv(p)' /\ ConnectInv(q)'
    BY <1>2, <1>3, <2>1, ConnectKeeps
  <2>5. QED
    BY <1>2, <1>3, <1>4, <2>1, <2>3, <2>4, QuietStep
<1>5. CASE /\ phase[p] = "idle" /\ Goto(p, "closing")
           /\ SendCloseIf(VC(p) \in {"ACTIVE", "REMOTE_CLOSE"}, p)
           /\ pg' = IF VC(p) = "INACTIVE" /\ pg[p].vcref # 0
                      THEN [pg EXCEPT ![p].ref = @ - 1] ELSE pg
  <2>1. ~Finalizing(p) /\ ~ClosingVC(p) /\ Refs(pg[p], vcrt[p], comm[p], FALSE) /\ pg[p] \in Group
    BY <1>1, <1>5 DEF Finalizing, CountInv, TypeInv
  <2>2. pg'[p].known = pg[p].known
    BY <1>1, <1>5 DEF TypeInv, Group
  <2>3. Quiet(p)
    BY <1>1, <1>5, QuietClose DEF Goto, TypeInv
  <2>4. VC(p)' \notin {"ACTIVE", "REMOTE_CLOSE"}
    BY <1>1, <1>5, SendCloseVC DEF SendCloseIf, closeVars, VC
  <2>5. ASSUME ~pg[p].known PROVE VC(p)' = "INACTIVE"
    <3>1. pg[p].vcref = 0
      BY <2>1, <2>5 DEF Refs, Group
    <3>2. VC(p) = "INACTIVE"
      BY <1>1, <2>1, <3>1 DEF LinkInv, UseInv, ClosingVC, VC, Close!VCStates
    <3>3. QED
      BY <1>5, <3>2 DEF SendCloseIf, closeVars, VC
  <2>6. QED
    BY <1>4, <1>5, <2>2, <2>3, <2>4, <2>5
<1>6. CASE /\ phase[p] = "closing" /\ WaitForClose(p) /\ Goto(p, "finalized")
           /\ UNCHANGED closeVars
  <2>1. ~ClosingVC(p) /\ Finalizing(p)
    BY <1>2, <1>6, NoneOutstanding DEF WaitForClose, Finalizing, In, CallNo, Op
  <2>2. VC(p) = "INACTIVE"
    BY <1>1, <2>1 DEF LinkInv, UseInv, ClosingVC, VC, Close!VCStates
  <2>3. VC(p)' = "INACTIVE"
    BY <1>6, <2>2 DEF closeVars, VC
  <2>4. Quiet(p)
    BY <1>1, <1>6, QuietSame DEF Goto, TypeInv
  <2>5. QED
    BY <1>4, <1>6, <2>3, <2>4
<1>7. QED
  BY <1>5, <1>6 DEF Finalize, VC

-----------------------------------------------------------------------------
(***************************************************************************)
(* The steps of a message: the sender gets the VC.                         *)
(***************************************************************************)
LEMMA InactiveWire ==
  ASSUME CloseInv, NEW p \in Proc, VC(p) = "INACTIVE", vcState[Peer(p)][p] # "CLOSE_ACKED"
  PROVE  wire[p][Peer(p)] = <<>>
<1> DEFINE w == wire[p][Peer(p)]
<1>1. w \in Seq(Close!Packets)
  BY Facts
<1>2. Close!OnlyTrue(w) /\ ~Close!Has(w, Close!Close(TRUE))
  BY Facts DEF Close!VCInv, Close!PairInv, Close!EndInv, Close!TrueInFlight, VC
<1>3. 1 \notin 1..Len(w)
  BY <1>2 DEF Close!OnlyTrue, Close!Has
<1>4. QED
  BY <1>1, <1>3, EmptySeq

LEMMA GetVCLink ==
  ASSUME CloseInv, NEW p \in Proc, Step(p), CloseStep, phase[p] = "idle", at[p] < Len(calls),
         Sends(p, calls[at[p] + 1]), Comm_get_vc(p), Goto(p, "vc"),
         unread' = unread, pg' = pg
  PROVE  CloseInv'
<1> DEFINE q == Peer(p)
<1>1. /\ q \in Proc /\ q # p /\ Peer(q) = p /\ TypeInv /\ at[p] \in Nat
      /\ LinkInv(p) /\ LinkInv(q)
      /\ wire[p][q] \in Seq(Close!Packets) /\ Flying(p) \in Nat /\ Close!TypeOK
      /\ opens[p][q] \in Nat
  BY Facts
<1>2. /\ at'[p] = at[p] /\ phase'[p] = "vc" /\ calls' = calls /\ phase'[q] = phase[q]
      /\ Out(p) = at[p] /\ Out(p)' = at[p]
  BY <1>1 DEF Goto, TypeInv, Out
<1>3. Op(p) \in {"dup", "merge", "send"}
  BY DEF Sends, Op
<1>4. FinalLast' /\ ConnectInv(p)' /\ ConnectInv(q)'
  BY <1>2, <1>3, FinalKeeps, ConnectKeeps
<1>5. HasComm(p) /\ pg[p].vcref > 0
  BY <1>3, SenderHasCommunicator, CommunicatorUsesVC DEF Op
<1>6. ~Finalizing(p)'
  BY <1>2, <1>3 DEF Finalizing, In, CallNo, Op
<1>7. UseInv(p)'
  BY <1>5, <1>6 DEF UseInv
<1>8. SenderInv(p)'
  <2>1. VC(p)' # "INACTIVE"
    BY <1>1, GetVC
  <2>2. QED
    BY <1>2, <2>1 DEF SenderInv
<1>9. /\ wire'[q][p] = wire[q][p] /\ opens'[q] = opens[q]
      /\ opens'[p][q] <= at[p] + 1
      /\ Flying(p)' = Flying(p)
      /\ OpenRight(wire'[p][q], TRUE)
  <2>1. opens[p][q] <= at[p]
    BY <1>1 DEF LinkInv, OpensInv
  <2>2. CASE VC(p) = "INACTIVE"
    <3>1. /\ wire' = Close!Send(wire, p, q, Close!Open)
          /\ opens' = [opens EXCEPT ![p][q] = @ + 1]
      BY <2>2 DEF Comm_get_vc, VC
    <3>2. wire'[p][q] = Append(wire[p][q], Close!Open) /\ wire'[q][p] = wire[q][p]
      BY <3>1, SendFact
    <3>3. opens'[q] = opens[q] /\ opens'[p][q] = opens[p][q] + 1
      BY <1>1, <3>1 DEF Close!TypeOK
    <3>4. wire[p][q] = <<>>
      BY <2>2, InactiveWire, GetVCCloses DEF Close!Comm_get_vc
    <3>5. OpenRight(wire'[p][q], TRUE)
      BY <3>2, <3>4, OpenAlone
    <3>6. Close!DataInFlight(Append(wire[p][q], Close!Open)) = Close!DataInFlight(wire[p][q]) + 0
      BY <1>1, PacketKinds, DataAppend
    <3>7. Flying(p)' = Flying(p)
      BY <1>1, <3>2, <3>6 DEF Flying
    <3>8. opens'[p][q] <= at[p] + 1
      BY <1>1, <2>1, <3>3
    <3>9. QED
      BY <3>2, <3>3, <3>5, <3>7, <3>8
  <2>3. CASE VC(p) # "INACTIVE"
    <3>1. wire' = wire /\ opens' = opens
      BY <2>3 DEF Comm_get_vc, VC
    <3>2. OpenRight(wire[p][q], TRUE)
      BY <1>1 DEF LinkInv, OpenInv, OpenRight
    <3>3. Flying(p)' = Flying(p)
      BY <3>1 DEF Flying
    <3>4. opens'[p][q] <= at[p] + 1
      BY <1>1, <2>1, <3>1
    <3>5. QED
      BY <3>1, <3>2, <3>3, <3>4
  <2>4. QED
    BY <2>2, <2>3
<1>10. LinkMove(p)
  <2>1. OpenInv(p)' /\ OpenInv(q)'
    BY <1>1, <1>2, <1>9 DEF OpenInv, OpenRight, LinkInv
  <2>2. OpensInv(p)'
    BY <1>2, <1>9 DEF OpensInv
  <2>3. Flying(q)' = Flying(q)
    BY <1>1, <1>9 DEF Flying
  <2>4. QED
    BY <1>2, <1>4, <1>7, <1>8, <1>9, <2>1, <2>2, <2>3 DEF LinkMove
<1>11. QED
  BY <1>10, LinkStep

(***************************************************************************)
(* The sender sends.                                                       *)
(***************************************************************************)
LEMMA SendDataLink ==
  ASSUME CloseInv, NEW p \in Proc, Step(p), CloseStep, phase[p] = "vc", at[p] < Len(calls),
         SendData(p), unread' = unread, pg' = pg,
         \/ Op(p) = "send" /\ calls[at[p] + 1].from = p /\ Return(p)
         \/ Op(p) \in {"dup", "merge"} /\ Goto(p, "wait")
  PROVE  CloseInv'
<1> DEFINE q == Peer(p)
<1>1. /\ q \in Proc /\ q # p /\ Peer(q) = p /\ TypeInv /\ at[p] \in Nat
      /\ LinkInv(p) /\ LinkInv(q)
      /\ wire[p][q] \in Seq(Close!Packets) /\ Flying(p) \in Nat
  BY Facts
<1>2. /\ \/ Op(p) = "send" /\ ~Sends(q, calls[at[p] + 1]) /\ at'[p] = at[p] + 1 /\ phase'[p] = "idle"
         \/ Op(p) \in {"dup", "merge"} /\ Sends(q, calls[at[p] + 1]) /\ at'[p] = at[p] /\ phase'[p] = "wait"
      /\ calls' = calls /\ phase'[q] = phase[q]
  BY <1>1 DEF Return, Goto, TypeInv, Sends, Op
<1>3. Out(p) = at[p] /\ Out(p)' = at[p] + 1
  BY <1>2 DEF Out
<1>4. FinalLast' /\ ConnectInv(p)' /\ ConnectInv(q)'
  BY <1>2, FinalKeeps, ConnectKeeps
<1>5. HasComm(p) /\ pg[p].vcref > 0 /\ ~Finalizing(p)'
  <2>1. HasComm(p) /\ pg[p].vcref > 0
    BY <1>2, SenderHasCommunicator, CommunicatorUsesVC DEF Op
  <2>2. ~Finalizing(p)'
    BY <1>2 DEF Finalizing, In, CallNo, Op
  <2>3. QED
    BY <2>1, <2>2
<1>6. UseInv(p)'
  BY <1>5 DEF UseInv
<1>7. SenderInv(p)'
  BY <1>2 DEF SenderInv
<1>8. wire' = Close!Send(wire, p, q, Close!Data) /\ opens' = opens
  BY DEF SendData
<1>9. wire'[p][q] = Append(wire[p][q], Close!Data) /\ wire'[q][p] = wire[q][p]
  BY <1>8, SendFact
<1>10. Flying(p)' = Flying(p) + 1 /\ Flying(q)' = Flying(q)
  <2>1. Close!DataInFlight(Append(wire[p][q], Close!Data)) = Close!DataInFlight(wire[p][q]) + 1
    BY <1>1, PacketKinds, DataAppend
  <2>2. QED
    BY <1>1, <1>9, <2>1 DEF Flying
<1>11. OpenInv(p)' /\ OpenInv(q)'
  <2>1. OpenRight(wire[p][q], TRUE)
    BY <1>1 DEF LinkInv, OpenInv
  <2>2. OpenRight(Append(wire[p][q], Close!Data), FALSE)
    BY <1>1, <2>1, PacketKinds, OpenAppend
  <2>3. OpenInv(p)'
    BY <1>9, <2>2 DEF OpenInv, OpenRight
  <2>4. OpenInv(q)'
    BY <1>1, <1>2, <1>9 DEF OpenInv, OpenRight, LinkInv
  <2>5. QED
    BY <2>3, <2>4
<1>12. OpensInv(p)'
  BY <1>1, <1>2, <1>8 DEF OpensInv, LinkInv
<1>13. /\ Messages(calls, p, at[p] + 1) = Messages(calls, p, at[p]) + 1
       /\ Messages(calls, p, at[p]) \in Nat
       /\ Messages(calls, q, at'[p]) = Messages(calls, q, at[p])
  <2>1. Sends(p, calls[at[p] + 1])
    BY <1>1 DEF LinkInv, SenderInv
  <2>2. Messages(calls, p, at[p] + 1) = Messages(calls, p, at[p]) + 1
    BY <1>1, <2>1, MessagesCount
  <2>3. ~Sends(q, calls[at[p] + 1]) => Messages(calls, q, at[p] + 1) = Messages(calls, q, at[p])
    BY <1>1, MessagesCount
  <2>4. QED
    BY <1>1, <1>2, <2>2, <2>3, MessagesNat
<1>14. LinkMove(p)
  <2>1. Messages(calls, p, Out(p)') + Flying(p) = Messages(calls, p, Out(p)) + Flying(p)'
    BY <1>1, <1>3, <1>10, <1>13
  <2>2. QED
    BY <1>4, <1>6, <1>7, <1>8, <1>10, <1>11, <1>12, <1>13, <2>1 DEF LinkMove
<1>15. QED
  BY <1>14, LinkStep

(***************************************************************************)
(* The receiver waits, and receives.                                       *)
(***************************************************************************)
LEMMA WaitLink ==
  ASSUME CloseInv, NEW p \in Proc, Step(p), UNCHANGED closeVars, phase[p] = "idle",
         at[p] < Len(calls), Op(p) = "send", calls[at[p] + 1].from # p,
         Goto(p, "wait"), unread' = unread, pg' = pg
  PROVE  CloseInv'
<1> DEFINE q == Peer(p)
<1>1. /\ q \in Proc /\ q # p /\ Peer(q) = p /\ TypeInv /\ at[p] \in Nat /\ Len(calls) \in Nat
      /\ LinkInv(p) /\ LinkInv(q) /\ FinalLast /\ opens[p][q] \in Nat
  BY Facts DEF CloseInv
<1>2. /\ at'[p] = at[p] /\ phase'[p] = "wait" /\ calls' = calls /\ phase'[q] = phase[q]
      /\ Out(p) = at[p] /\ Out(p)' = at[p] + 1
  BY <1>1 DEF Goto, TypeInv, Out
<1>3. calls[at[p] + 1].from = q
  BY <1>1, TwoPeers DEF FinalLast, Op
<1>4. FinalLast' /\ ConnectInv(p)' /\ ConnectInv(q)'
  BY <1>2, FinalKeeps, ConnectKeeps
<1>5. Messages(calls, p, at[p] + 1) = Messages(calls, p, at[p])
  <2>1. ~Sends(p, calls[at[p] + 1])
    BY DEF Sends, Op
  <2>2. QED
    BY <1>1, <2>1, MessagesCount
<1>6. SenderInv(p)'
  BY <1>2, <1>3 DEF SenderInv, Sends, Op
<1>7. UseInv(p)'
  <2>1. ~Finalizing(p) /\ ~Finalizing(p)'
    BY <1>2 DEF Finalizing, In, CallNo, Op
  <2>2. VC(p)' = VC(p)
    BY DEF closeVars, VC
  <2>3. QED
    BY <1>1, <2>1, <2>2 DEF LinkInv, UseInv
<1>8. Quiet(p)
  BY <1>2, QuietSame
<1>9. OpensInv(p)'
  <2>1. opens[p][q] <= at[p]
    BY <1>1 DEF LinkInv, OpensInv
  <2>2. opens[p][q] <= at[p] + 1
    BY <1>1, <2>1
  <2>3. QED
    BY <1>2, <1>8, <2>2 DEF OpensInv, Quiet
<1>10. LinkMove(p)
  BY <1>2, <1>4, <1>5, <1>6, <1>7, <1>8, <1>9 DEF LinkMove, Quiet
<1>11. QED
  BY <1>10, LinkStep DEF CloseStep

LEMMA ReceiveLink ==
  ASSUME CloseInv, NEW p \in Proc, Step(p), UNCHANGED closeVars, phase[p] = "wait",
         at[p] < Len(calls), Op(p) \in {"dup", "merge", "send"},
         Receive(p), Return(p), pg' = pg \/ NewVCRT(p)
  PROVE  CloseInv'
<1> DEFINE q == Peer(p)
<1>1. /\ q \in Proc /\ q # p /\ Peer(q) = p /\ TypeInv /\ at[p] \in Nat /\ unread[p] \in Nat
      /\ LinkInv(p) /\ LinkInv(q)
  BY Facts
<1>2. /\ at'[p] = at[p] + 1 /\ phase'[p] = "idle" /\ calls' = calls /\ phase'[q] = phase[q]
      /\ Out(p) = at[p] + 1 /\ Out(p)' = at[p] + 1
  BY <1>1 DEF Return, TypeInv, Out
<1>3. unread[p] > 0 /\ unread'[p] = unread[p] - 1 /\ unread'[q] = unread[q]
  BY <1>1 DEF Receive, TypeInv
<1>4. FinalLast' /\ ConnectInv(p)' /\ ConnectInv(q)'
  BY <1>2, FinalKeeps, ConnectKeeps
<1>5. Messages(calls, q, at[p] + 1) = Messages(calls, q, at[p]) + 1
  BY <1>1, MessagesCount DEF LinkInv, SenderInv
<1>6. SenderInv(p)'
  BY <1>2 DEF SenderInv
<1>7. UseInv(p)'
  <2>1. ~Finalizing(p) /\ ~Finalizing(p)'
    BY NotFinalizing DEF CloseInv
  <2>2. VC(p)' = VC(p)
    BY DEF closeVars, VC
  <2>3. CASE pg' = pg
    BY <1>1, <2>1, <2>2, <2>3 DEF LinkInv, UseInv
  <2>4. CASE NewVCRT(p)
    BY <2>1, <2>4, NewVCRTUse DEF UseInv
  <2>5. QED
    BY <2>3, <2>4
<1>8. Quiet(p)
  BY <1>2, QuietSame
<1>9. OpensInv(p)'
  BY <1>1, <1>2, <1>8 DEF LinkInv, OpensInv, Quiet
<1>10. Messages(calls, q, at'[p]) + unread'[p] + Flying(q)' =
         Messages(calls, q, at[p]) + unread[p] + Flying(q)
  <2>1. Messages(calls, q, at[p]) \in Nat /\ Flying(q) \in Nat
    BY <1>1, MessagesNat, Facts
  <2>2. Flying(q)' = Flying(q)
    BY <1>8 DEF Quiet
  <2>3. QED
    BY <1>1, <1>2, <1>3, <1>5, <2>1, <2>2
<1>11. LinkMove(p)
  BY <1>2, <1>3, <1>4, <1>6, <1>7, <1>8, <1>9, <1>10 DEF LinkMove, Quiet
<1>12. QED
  BY <1>11, LinkStep DEF CloseStep

LEMMA SendRecvLink ==
  ASSUME CloseInv, NEW p \in Proc, SendRecv(p)
  PROVE  CloseInv'
<1>1. /\ at[p] < Len(calls) /\ Op(p) = "send" /\ calls[at[p] + 1].op = "send"
      /\ pg' = pg
  BY DEF SendRecv, In, CallNo, Op
<1>2. Step(p) /\ CloseStep
  BY SendRecvStep, CallCloses DEF CloseInv, Call
<1>3. CASE calls[at[p] + 1].from = p /\ unread' = unread
  <2>1. CASE phase[p] = "idle" /\ Comm_get_vc(p) /\ Goto(p, "vc")
    BY <1>1, <1>2, <1>3, <2>1, GetVCLink DEF Sends
  <2>2. CASE phase[p] = "vc" /\ SendData(p) /\ Return(p)
    BY <1>1, <1>2, <1>3, <2>2, SendDataLink
  <2>3. QED
    BY <1>3, <2>1, <2>2 DEF SendRecv, CallNo
<1>4. CASE calls[at[p] + 1].from # p
  <2>1. CASE phase[p] = "idle" /\ Goto(p, "wait") /\ UNCHANGED <<closeVars, unread>>
    BY <1>1, <1>2, <1>4, <2>1, WaitLink
  <2>2. CASE phase[p] = "wait" /\ Receive(p) /\ Return(p) /\ UNCHANGED closeVars
    BY <1>1, <1>2, <2>2, ReceiveLink
  <2>3. QED
    BY <1>4, <2>1, <2>2 DEF SendRecv, CallNo
<1>5. QED
  BY <1>3, <1>4 DEF SendRecv, CallNo

LEMMA DupMergeLink ==
  ASSUME CloseInv, NEW p \in Proc, DupMerge(p)
  PROVE  CloseInv'
<1>1. /\ at[p] < Len(calls) /\ Op(p) \in {"dup", "merge"} /\ Sends(p, calls[at[p] + 1])
  BY DEF DupMerge, In, CallNo, Op, Sends
<1>2. Step(p) /\ CloseStep
  BY DupMergeStep, CallCloses DEF CloseInv, Call
<1>3. CASE phase[p] = "idle" /\ Comm_get_vc(p) /\ Goto(p, "vc") /\ UNCHANGED <<pg, unread>>
  BY <1>1, <1>2, <1>3, GetVCLink
<1>4. CASE phase[p] = "vc" /\ SendData(p) /\ Goto(p, "wait") /\ UNCHANGED <<pg, unread>>
  BY <1>1, <1>2, <1>4, SendDataLink
<1>5. CASE phase[p] = "wait" /\ Receive(p) /\ NewFrom(p) /\ Return(p) /\ UNCHANGED closeVars
  <2>1. pg' = pg \/ NewVCRT(p)
    BY <1>5 DEF NewFrom
  <2>2. QED
    BY <1>1, <1>2, <1>5, <2>1, ReceiveLink
<1>6. QED
  BY <1>3, <1>4, <1>5 DEF DupMerge

-----------------------------------------------------------------------------
(***************************************************************************)
(* The progress engine.  Nothing of the program changes; what a packet     *)
(* does to the wires and to the messages is a conjunct of its own.         *)
(***************************************************************************)
LEMMA ProgressMoves ==
  ASSUME CloseInv, NEW p \in Proc, Progress(p), UseInv(p)',
         unread'[Peer(p)] = unread[Peer(p)], opens' = opens, Flying(p)' = Flying(p),
         unread'[p] + Flying(Peer(p))' = unread[p] + Flying(Peer(p)),
         OpenInv(p)', OpenInv(Peer(p))'
  PROVE  CloseInv'
<1> DEFINE q == Peer(p)
<1>1. /\ q \in Proc /\ q # p /\ Peer(q) = p /\ TypeInv /\ at[p] \in Nat
      /\ LinkInv(p) /\ LinkInv(q) /\ Flying(q) \in Nat /\ unread[p] \in Nat
  BY Facts
<1>2. Step(p) /\ CloseStep
  BY ProgressStep, ProgressCloses DEF CloseInv
<1>3. at' = at /\ phase' = phase /\ calls' = calls /\ phase[p] # "vc"
  BY DEF Progress, progVars
<1>4. Out(p)' = Out(p)
  BY <1>3 DEF Out
<1>5. FinalLast'
  BY <1>2, <1>3, FinalKeeps
<1>6. ConnectInv(p)' /\ ConnectInv(q)'
  BY <1>1, <1>3 DEF LinkInv, ConnectInv
<1>7. SenderInv(p)'
  BY <1>1, <1>3 DEF LinkInv, SenderInv
<1>8. OpensInv(p)'
  BY <1>1, <1>3 DEF LinkInv, OpensInv
<1>9. Messages(calls, q, at'[p]) + unread'[p] + Flying(q)' =
        Messages(calls, q, at[p]) + unread[p] + Flying(q)
  <2>1. Messages(calls, q, at[p]) \in Nat
    BY <1>1, MessagesNat
  <2>2. unread'[p] \in Nat
    BY <1>1, <1>2 DEF Step, Alone, TypeInv
  <2>3. Flying(q)' \in Nat
    <3>1. wire'[q][p] \in Seq(Close!Packets)
      BY <1>1, <1>2, CloseNext DEF CloseInv, CloseStep, Close!IInv, Close!TypeOK
    <3>2. QED
      BY <1>1, <3>1, DataCount DEF Flying
  <2>4. QED
    BY <1>1, <1>3, <2>1, <2>2, <2>3
<1>10. LinkMove(p)
  BY <1>3, <1>4, <1>5, <1>6, <1>7, <1>8, <1>9 DEF LinkMove
<1>11. QED
  BY <1>2, <1>10, LinkStep

(***************************************************************************)
(* A packet is taken off the wire.                                         *)
(***************************************************************************)
LEMMA Taken ==
  ASSUME CloseInv, NEW p \in Proc, wire[Peer(p)][p] # <<>>,
         wire'[Peer(p)][p] = Tail(wire[Peer(p)][p]), phase' = phase
  PROVE  /\ Flying(Peer(p)) = Flying(Peer(p))' +
              IF Head(wire[Peer(p)][p]) = Close!Data THEN 1 ELSE 0
         /\ Flying(Peer(p))' \in Nat
         /\ OpenInv(Peer(p))'
         /\ wire'[p][Peer(p)] = wire[p][Peer(p)] => Flying(p)' = Flying(p) /\ OpenInv(p)'
<1> DEFINE q == Peer(p)
           w == wire[q][p]
<1>1. q \in Proc /\ Peer(q) = p /\ LinkInv(p) /\ LinkInv(q) /\ w \in Seq(Close!Packets)
  BY Facts
<1>2. /\ Tail(w) \in Seq(Close!Packets)
      /\ Close!DataInFlight(w) =
           Close!DataInFlight(Tail(w)) + IF Head(w) = Close!Data THEN 1 ELSE 0
  BY <1>1, DataTail
<1>3. Flying(q) = Flying(q)' + (IF Head(w) = Close!Data THEN 1 ELSE 0) /\ Flying(q)' \in Nat
  BY <1>1, <1>2, DataCount DEF Flying
<1>4. wire'[p][q] = wire[p][q] => Flying(p)' = Flying(p) /\ OpenInv(p)'
  BY <1>1 DEF LinkInv, OpenInv, OpenRight, Flying
<1>5. OpenInv(q)'
  <2>1. OpenRight(w, phase[q] = "vc")
    BY <1>1 DEF LinkInv, OpenInv
  <2>2. OpenRight(Tail(w), phase[q] = "vc")
    BY <1>1, <2>1, OpenTail
  <2>3. QED
    BY <1>1, <2>2 DEF OpenInv
<1>6. QED
  BY <1>3, <1>4, <1>5

(***************************************************************************)
(* An open request that is under way will be followed by a message: the    *)
(* process it reaches has a communicator.                                  *)
(***************************************************************************)
LEMMA OpenedHasCommunicator ==
  ASSUME CloseInv, NEW p \in Proc, wire[Peer(p)][p] # <<>>,
         Head(wire[Peer(p)][p]) = Close!Open
  PROVE  HasComm(p) /\ pg[p].vcref > 0
<1> DEFINE q == Peer(p)
           w == wire[q][p]
<1>1. q \in Proc /\ Peer(q) = p /\ LinkInv(q) /\ w \in Seq(Close!Packets)
  BY Facts
<1>2. w[1] = Close!Open
  BY <1>1
<1>3. Close!Has(w, Close!Data) \/ phase[q] = "vc"
  BY <1>1, <1>2 DEF LinkInv, OpenInv, OpenRight
<1>4. Flying(q) > 0 \/ phase[q] = "vc"
  BY <1>1, <1>3, DataCount DEF Flying
<1>5. HasComm(p)
  BY <1>1, <1>4, MessageHasCommunicator
<1>6. QED
  BY <1>5, CommunicatorUsesVC

LEMMA RecvOpenLink ==
  ASSUME CloseInv, NEW p \in Proc, Progress(p), Close!RecvOpen(p, Peer(p)),
         UNCHANGED <<pg, unread>>
  PROVE  CloseInv'
<1> DEFINE q == Peer(p)
           w == wire[q][p]
<1>1. w # <<>> /\ Head(w) = Close!Open /\ wire' = Close!Consume(wire, q, p) /\ opens' = opens
  BY DEF Close!RecvOpen
<1>2. wire'[q][p] = Tail(w) /\ wire'[p][q] = wire[p][q]
  BY <1>1, ConsumeFact
<1>3. phase' = phase /\ at' = at /\ calls' = calls
  BY DEF Progress, progVars
<1>4. HasComm(p) /\ pg[p].vcref > 0
  BY <1>1, OpenedHasCommunicator
<1>5. UseInv(p)'
  <2>1. ~Finalizing(p)'
    BY <1>3, <1>4 DEF HasComm, Finalizing, In, CallNo
  <2>2. QED
    BY <1>4, <2>1 DEF UseInv
<1>6. /\ Flying(p)' = Flying(p) /\ OpenInv(p)' /\ OpenInv(q)'
      /\ Flying(q) = Flying(q)' + 0 /\ Flying(q)' \in Nat
  BY <1>1, <1>2, <1>3, PacketKinds, Taken
<1>7. Flying(q)' = Flying(q)
  BY <1>6
<1>8. QED
  BY <1>1, <1>5, <1>6, <1>7, ProgressMoves

LEMMA RecvDataLink ==
  ASSUME CloseInv, NEW p \in Proc, Progress(p), Close!RecvData(p, Peer(p)),
         unread' = [unread EXCEPT ![p] = @ + 1], pg' = pg
  PROVE  CloseInv'
<1> DEFINE q == Peer(p)
           w == wire[q][p]
<1>1. /\ w # <<>> /\ Head(w) = Close!Data /\ wire' = Close!Consume(wire, q, p)
      /\ opens' = opens /\ vcState' = vcState
  BY DEF Close!RecvData
<1>2. wire'[q][p] = Tail(w) /\ wire'[p][q] = wire[p][q]
  BY <1>1, ConsumeFact
<1>3. phase' = phase /\ at' = at /\ calls' = calls
  BY DEF Progress, progVars
<1>4. UseInv(p)'
  BY <1>1, <1>3, Facts DEF LinkInv, UseInv, Finalizing, In, CallNo, VC
<1>5. /\ Flying(p)' = Flying(p) /\ OpenInv(p)' /\ OpenInv(q)'
      /\ Flying(q) = Flying(q)' + 1 /\ Flying(q)' \in Nat
  BY <1>1, <1>2, <1>3, Taken
<1>6. unread'[p] = unread[p] + 1 /\ unread'[q] = unread[q] /\ unread[p] \in Nat
  BY Facts DEF TypeInv
<1>7. unread'[p] + Flying(q)' = unread[p] + Flying(q)
  BY <1>5, <1>6
<1>8. QED
  BY <1>1, <1>4, <1>5, <1>6, <1>7, ProgressMoves

LEMMA PktHandler_CloseLink ==
  ASSUME CloseInv, NEW p \in Proc, Progress(p), Close!PktHandler_Close(p, Peer(p)),
         UNCHANGED <<pg, unread>>
  PROVE  CloseInv'
<1> DEFINE q == Peer(p)
           w == wire[q][p]
           c == Close!Consume(wire, q, p)
           v == c[p][q]
<1>1. /\ w # <<>> /\ Head(w).type = "close" /\ opens' = opens
      /\ Close!CloseExpected(vcState[p][q], Head(w).ack)
      /\ wire' = IF Close!Answers(vcState[p][q], Head(w).ack)
                   THEN Close!Send(c, p, q, Close!Close(TRUE)) ELSE c
      /\ vcState' = Close!Set(vcState, p, q, Close!CloseState(vcState[p][q], Head(w).ack))
  BY DEF Close!PktHandler_Close
<1>2. /\ q \in Proc /\ q # p /\ Peer(q) = p /\ LinkInv(p) /\ LinkInv(q) /\ TypeInv
      /\ w \in Seq(Close!Packets) /\ wire[p][q] \in Seq(Close!Packets) /\ Close!TypeOK
      /\ unread[p] \in Nat
  BY Facts
<1>3. /\ c[q][p] = Tail(w) /\ c[p][q] = wire[p][q]
      /\ c = [wire EXCEPT ![q] = [wire[q] EXCEPT ![p] = Tail(w)]]
  BY <1>2, ConsumeFact DEF Close!Consume, Close!Set
<1>4. phase' = phase /\ at' = at /\ calls' = calls /\ phase[p] # "vc" /\ pg[p].known
  BY DEF Progress, progVars
<1>5. wire'[q][p] = Tail(w) /\ wire'[p][q] \in {v, Append(v, Close!Close(TRUE))}
  BY <1>1, <1>2, <1>3 DEF Close!TypeOK, Close!Send, Close!Set
<1>6. Flying(q) = Flying(q)' /\ OpenInv(q)'
  <2>1. Head(w) # Close!Data
    BY <1>1 DEF Close!Data
  <2>2. Flying(q) = Flying(q)' + 0 /\ Flying(q)' \in Nat /\ OpenInv(q)'
    BY <1>1, <1>4, <1>5, <2>1, Taken
  <2>3. QED
    BY <2>2
<1>7. Flying(p)' = Flying(p) /\ OpenInv(p)'
  <2>1. CASE wire'[p][q] = v
    BY <1>1, <1>3, <1>4, <1>5, <2>1, Taken
  <2>2. CASE wire'[p][q] = Append(v, Close!Close(TRUE))
    <3>1. Close!DataInFlight(Append(v, Close!Close(TRUE))) = Close!DataInFlight(v) + 0
      BY <1>2, <1>3, PacketKinds, DataAppend
    <3>2. Flying(p)' = Flying(p)
      <4>1. Close!DataInFlight(wire[p][q]) \in Nat
        BY <1>2, DataCount
      <4>2. v = wire[p][q]
        BY <1>3
      <4>3. Close!DataInFlight(v) + 0 = Close!DataInFlight(v)
        BY <4>1, <4>2
      <4>4. Close!DataInFlight(wire'[p][q]) = Close!DataInFlight(v)
        BY ONLY <2>2, <3>1, <4>3
      <4>5. QED
        BY ONLY <4>2, <4>4 DEF Flying
    <3>3. OpenRight(v, FALSE)
      BY <1>2, <1>3, <1>4 DEF LinkInv, OpenInv, OpenRight
    <3>4. OpenRight(Append(v, Close!Close(TRUE)), FALSE)
      BY <1>2, <1>3, <3>3, PacketKinds, OpenAppend
    <3>5. OpenInv(p)'
      BY <2>2, <3>4 DEF OpenInv, OpenRight
    <3>6. QED
      BY <3>2, <3>5
  <2>3. QED
    BY <1>5, <2>1, <2>2
<1>8. UseInv(p)'
  <2>1. VC(p)' = Close!CloseState(VC(p), Head(w).ack)
    BY <1>1, <1>2 DEF Close!TypeOK, Close!Set, VC
  <2>2. VC(p)' \in {"ACTIVE", "REMOTE_CLOSE"} => VC(p) = "ACTIVE"
    BY <2>1 DEF Close!CloseState
  <2>3. QED
    BY <1>2, <1>4, <2>2 DEF LinkInv, UseInv, Finalizing, In, CallNo
<1>9. QED
  BY <1>1, <1>6, <1>7, <1>8, ProgressMoves

LEMMA Handle_connectionLink ==
  ASSUME CloseInv, NEW p \in Proc, Progress(p), Close!Handle_connection(p, Peer(p)),
         unread' = unread
  PROVE  CloseInv'
<1> DEFINE q == Peer(p)
<1>1. /\ q \in Proc /\ Peer(q) = p /\ TypeInv /\ LinkInv(p) /\ LinkInv(q)
  BY Facts
<1>2. wire' = wire /\ opens' = opens /\ phase' = phase
  BY DEF Close!Handle_connection, Progress, progVars
<1>3. UseInv(p)'
  BY <1>1, TerminateVC DEF UseInv
<1>4. Flying(p)' = Flying(p) /\ Flying(q)' = Flying(q) /\ OpenInv(p)' /\ OpenInv(q)'
  BY <1>1, <1>2 DEF Flying, LinkInv, OpenInv, OpenRight
<1>5. QED
  BY <1>2, <1>3, <1>4, ProgressMoves

LEMMA ProgressLink ==
  ASSUME CloseInv, NEW p \in Proc, Progress(p)
  PROVE  CloseInv'
<1>1. CASE Close!RecvOpen(p, Peer(p)) /\ UNCHANGED <<pg, unread>>
  BY <1>1, RecvOpenLink
<1>2. CASE /\ Close!RecvData(p, Peer(p))
           /\ unread' = [unread EXCEPT ![p] = @ + 1] /\ UNCHANGED pg
  BY <1>2, RecvDataLink
<1>3. CASE Close!PktHandler_Close(p, Peer(p)) /\ UNCHANGED <<pg, unread>>
  BY <1>3, PktHandler_CloseLink
<1>4. CASE Close!Handle_connection(p, Peer(p)) /\ UNCHANGED unread
  BY <1>4, Handle_connectionLink
<1>5. QED
  BY <1>1, <1>2, <1>3, <1>4 DEF Progress

-----------------------------------------------------------------------------
(***************************************************************************)
(* A new call.                                                             *)
(***************************************************************************)
LEMMA ChooseLink ==
  ASSUME CloseInv, NEW p \in Proc, Choose(p)
  PROVE  CloseInv'
<1>1. /\ phase[p] = "idle" /\ at[p] = Len(calls)
      /\ wire' = wire /\ vcState' = vcState /\ opens' = opens
      /\ at' = at /\ phase' = phase /\ unread' = unread /\ pg' = pg
  BY DEF Choose, closeVars
<1>2. PICK c \in CallsOf(p) : calls' = Append(calls, c)
  BY DEF Choose
<1>3. calls \in Seq(CallRecord) /\ at[p] \in Nat /\ FinalLast
  BY Facts DEF CallInv, CloseInv
<1>4. /\ Len(calls') = Len(calls) + 1 /\ Len(calls) \in Nat
      /\ \A k \in 1..Len(calls) : calls'[k] = calls[k]
      /\ calls'[Len(calls) + 1] = c
  BY <1>2, <1>3
<1>5. TeardownInv' /\ Close!IInv'
  <2>1. CloseStep
    BY DEF Choose, CloseStep
  <2>2. QED
    BY <2>1, ChooseStep, CloseNext DEF CloseInv, CloseStep
<1>6. FinalLast'
  <2>1. ASSUME NEW k \in 1..Len(calls) PROVE calls[k].op # "finalize"
    <3>1. ~(at[p] < k)
      BY <1>1, <1>4
    <3>2. QED
      BY <1>3, <3>1 DEF FinalLast
  <2>2. c.op = "send" => c.from \in Proc
    BY DEF CallsOf, On, Sent
  <2>3. \A r \in Proc : at[r] < Len(calls) + 1
    <3> TAKE r \in Proc
    <3>1. at[r] \in 0..Len(calls)
      BY Facts
    <3>2. QED
      BY <1>4, <3>1
  <2>4. ASSUME NEW k \in 1..Len(calls')
        PROVE  /\ calls'[k].op = "finalize" => k = Len(calls') /\ \A r \in Proc : at[r] < k
               /\ calls'[k].op = "send" => calls'[k].from \in Proc
    <3>1. CASE k = Len(calls) + 1
      BY <1>4, <2>2, <2>3, <3>1
    <3>2. CASE k \in 1..Len(calls)
      BY <1>3, <1>4, <2>1, <3>2 DEF FinalLast
    <3>3. QED
      BY <1>4, <3>1, <3>2
  <2>5. QED
    BY <1>1, <2>4 DEF FinalLast
<1>7. ASSUME NEW r \in Proc PROVE LinkInv(r)'
  <2> DEFINE q == Peer(r)
  <2>1. /\ q \in Proc /\ LinkInv(r) /\ PlaceInv(r) /\ at[r] \in 0..Len(calls)
        /\ at[q] \in 0..Len(calls)
    BY Facts
  <2>2. phase[r] # "idle" => calls'[at[r] + 1] = calls[at[r] + 1]
    <3>1. phase[r] # "idle" => at[r] + 1 \in 1..Len(calls)
      BY <1>4, <2>1 DEF PlaceInv
    <3>2. QED
      BY <1>4, <3>1
  <2>3. SenderInv(r)'
    BY <1>1, <2>1, <2>2 DEF LinkInv, SenderInv, VC
  <2>4. ConnectInv(r)'
    <3>1. \A k \in 1..at[r] : calls'[k] = calls[k]
      BY <1>4, <2>1
    <3>2. QED
      BY <1>1, <2>1, <3>1 DEF LinkInv, ConnectInv
  <2>5. MessageInv(r)'
    <3>1. Out(r) \in 0..Len(calls) /\ Out(r)' = Out(r)
      BY <1>1, <1>4, <2>1 DEF Out, PlaceInv
    <3>2. /\ Messages(calls', r, Out(r)) = Messages(calls, r, Out(r))
          /\ Messages(calls', r, at[q]) = Messages(calls, r, at[q])
      BY <1>2, <1>3, <2>1, <3>1, MessagesAppend
    <3>3. Flying(r)' = Flying(r)
      BY <1>1 DEF Flying
    <3>4. QED
      BY <1>1, <2>1, <3>1, <3>2, <3>3 DEF LinkInv, MessageInv
  <2>6. UseInv(r)'
    <3>1. Finalizing(r)' <=> Finalizing(r)
      <4>1. CASE phase[r] = "idle"
        BY <1>1, <4>1 DEF Finalizing
      <4>2. CASE phase[r] # "idle"
        BY <1>1, <1>4, <2>1, <2>2, <4>2 DEF Finalizing, In, CallNo, PlaceInv
      <4>3. QED
        BY <4>1, <4>2
    <3>2. QED
      BY <1>1, <2>1, <3>1 DEF LinkInv, UseInv, VC
  <2>7. OpenInv(r)' /\ OpensInv(r)'
    BY <1>1, <2>1 DEF LinkInv, OpenInv, OpenRight, OpensInv
  <2>8. QED
    BY <2>3, <2>4, <2>5, <2>6, <2>7 DEF LinkInv
<1>8. QED
  BY <1>5, <1>6, <1>7 DEF CloseInv

LEMMA IdleLink == CloseInv /\ UNCHANGED vars => CloseInv'
<1> SUFFICES ASSUME CloseInv, UNCHANGED vars PROVE CloseInv'
  OBVIOUS
<1>1. TeardownInv' /\ Close!IInv'
  <2>1. CloseStep
    BY DEF vars, CloseStep
  <2>2. QED
    BY <2>1, StepTeardownInv, CloseNext DEF CloseInv, CloseStep
<1>2. FinalLast'
  BY DEF CloseInv, FinalLast, vars, progVars
<1>3. ASSUME NEW r \in Proc PROVE LinkInv(r)'
  BY DEF CloseInv, LinkInv, SenderInv, ConnectInv, MessageInv, OpenInv, UseInv, OpensInv,
         OpenRight, Flying, Out, Finalizing, In, CallNo, VC, vars, progVars, closeVars
<1>4. QED
  BY <1>1, <1>2, <1>3 DEF CloseInv

LEMMA StepCloseInv == CloseInv /\ [Next]_vars => CloseInv'
<1> SUFFICES ASSUME CloseInv, [Next]_vars PROVE CloseInv'
  OBVIOUS
<1>1. ASSUME NEW p \in Proc, Call(p) PROVE CloseInv'
  BY <1>1, ConnectLink, SendRecvLink, DupMergeLink, Comm_freeLink, Comm_disconnectLink,
     FinalizeLink DEF Call
<1>2. QED
  BY <1>1, ChooseLink, ProgressLink, IdleLink DEF Next

LEMMA InitCloseInv == Init => CloseInv
<1> SUFFICES ASSUME Init PROVE CloseInv
  OBVIOUS
<1>1. /\ calls = <<>> /\ at = [p \in Proc |-> 0] /\ phase = [p \in Proc |-> "idle"]
      /\ unread = [p \in Proc |-> 0] /\ pg = [p \in Proc |-> NoGroup]
      /\ wire = [p \in Proc |-> [q \in Proc |-> <<>>]]
      /\ opens = [p \in Proc |-> [q \in Proc |-> 0]]
      /\ vcState = [p \in Proc |-> [q \in Proc |-> "INACTIVE"]]
  BY DEF Init, Close!Init
<1>2. TeardownInv
  BY InitTeardownInv
<1>3. Close!IInv
  <2>1. CP!Init
    BY DEF Init, Close!Init, CP!Init
  <2>2. CP!IsFiniteSet(Proc) /\ MaxData \in Nat /\ MaxOpen \in Nat
    BY SameCardinality, TeardownAssumption
  <2>3. QED
    BY <2>1, <2>2, CP!InitInv, SameInv
<1>4. FinalLast
  BY <1>1 DEF FinalLast
<1>5. ASSUME NEW p \in Proc PROVE LinkInv(p)
  <2> DEFINE q == Peer(p)
  <2>1. q \in Proc /\ q # p
    BY TwoPeers
  <2>2. /\ at[p] = 0 /\ at[q] = 0 /\ phase[p] = "idle" /\ unread[q] = 0 /\ VC(p) = "INACTIVE"
        /\ wire[p][q] = <<>> /\ opens[p][q] = 0
    BY <1>1, <2>1 DEF VC
  <2>3. SenderInv(p) /\ ConnectInv(p) /\ OpenInv(p) /\ OpensInv(p)
    BY <2>2 DEF SenderInv, ConnectInv, OpenInv, OpenRight, OpensInv
  <2>4. UseInv(p)
    BY <2>2 DEF UseInv, Finalizing
  <2>5. Flying(p) = 0
    <3>1. <<>> \in Seq(Close!Packets) /\ ~Close!Has(<<>>, Close!Data)
      BY DEF Close!Has
    <3>2. Close!DataInFlight(<<>>) \in Nat /\ ~(Close!DataInFlight(<<>>) > 0)
      BY <3>1, DataCount
    <3>3. QED
      BY <2>2, <3>2 DEF Flying
  <2>6. MessageInv(p)
    <3>1. Out(p) = 0
      BY <2>2 DEF Out
    <3>2. Messages(calls, p, 0) \in Nat
      BY MessagesNat
    <3>3. QED
      BY <2>2, <2>5, <3>1, <3>2 DEF MessageInv
  <2>7. QED
    BY <2>3, <2>4, <2>6 DEF LinkInv
<1>6. QED
  BY <1>2, <1>3, <1>4, <1>5 DEF CloseInv

-----------------------------------------------------------------------------
(***************************************************************************)
(* The invariant holds in every state of the program.                      *)
(***************************************************************************)
THEOREM LinksAlways == Spec => []CloseInv
BY InitCloseInv, StepCloseInv, PTL DEF Spec

(***************************************************************************)
(* The close protocol is used as it must be: every step of the programs    *)
(* and of their progress engines is one of VCClose, or changes nothing of  *)
(* it.                                                                     *)
(***************************************************************************)
THEOREM TeardownImplementsClose == Spec => ImplementsClose
<1>1. Init => Close!Init
  BY DEF Init
<1>2. CloseInv /\ [Next]_vars => [Close!Next]_(Close!vars)
  BY NextCloses DEF CloseStep, closeVars, Close!vars
<1>3. QED
  BY <1>1, <1>2, LinksAlways, PTL DEF Spec, ImplementsClose, Close!Spec

(***************************************************************************)
(* Only a group without a user of its VC is destroyed: no packet is under  *)
(* way to the VC, it is inactive and no close event is to come.            *)
(***************************************************************************)
LEMMA DestroyedUnused == CloseInv => NothingForDestroyedGroup
<1> SUFFICES ASSUME CloseInv, NEW p \in Proc, ~pg[p].known
             PROVE  /\ wire[Peer(p)][p] = <<>>
                    /\ vcState[p][Peer(p)] = "INACTIVE" /\ ~terminating[p][Peer(p)]
  BY DEF NothingForDestroyedGroup
<1> DEFINE q == Peer(p)
           w == wire[q][p]
<1>1. /\ q \in Proc /\ Peer(q) = p /\ q # p /\ LinkInv(p) /\ CountInv(p) /\ TypeInv
      /\ VC(p) \in Close!VCStates /\ w \in Seq(Close!Packets) /\ Close!VCInv /\ Close!TypeOK
      /\ q \in Close!Peers(p) /\ p \in Close!Peers(q)
  BY Facts
<1>2. ~Finalizing(p) => pg[p].vcref = 0 /\ ~ClosingVC(p)
  <2>1. ASSUME ~Finalizing(p), Refs(pg[p], vcrt[p], comm[p], TRUE) \/ Refs(pg[p], vcrt[p], comm[p], FALSE)
        PROVE  pg[p].vcref = 0 /\ ~Refs(pg[p], vcrt[p], comm[p], TRUE)
    BY <1>1, <2>1 DEF Refs, TypeInv, Group
  <2>2. QED
    BY <1>1, <2>1 DEF CountInv
<1>3. vcState[p][q] = "INACTIVE"
  BY <1>1, <1>2 DEF LinkInv, UseInv, ClosingVC, VC, Close!VCStates
<1>4. ~terminating[p][q]
  BY <1>1, <1>3 DEF Close!VCInv, Close!PairInv, Close!EndInv
<1>5. w = <<>>
  <2>1. SUFFICES ASSUME w # <<>> PROVE FALSE
    OBVIOUS
  <2>2. Head(w) = Close!Open
    BY <1>1, <1>3, <2>1 DEF Close!VCInv, Close!PairInv, Close!OpenFirst
  <2>3. HasComm(p) /\ pg[p].vcref > 0
    BY <2>1, <2>2, OpenedHasCommunicator
  <2>4. QED
    BY <1>1, <1>2, <2>3 DEF HasComm, TypeInv, Group
<1>6. QED
  BY <1>3, <1>4, <1>5

THEOREM NoDestroyedGroupUsed == Spec => []NothingForDestroyedGroup
BY LinksAlways, DestroyedUnused, PTL

(***************************************************************************)
(* Hence the assertions of MPIDI_CH3_PktHandler_Close and the state test   *)
(* of MPIDI_CH3U_Handle_connection hold in every program, and no           *)
(* connection is terminated while something of the peer is under way.      *)
(***************************************************************************)
THEOREM ProgramsCloseSafely ==
  Spec => [](Close!AssertionsHold /\ Close!TerminateLosesNothing)
<1>1. CloseInv => Close!AssertionsHold /\ Close!TerminateLosesNothing
  <2> SUFFICES ASSUME CloseInv, NEW p \in Proc, NEW q \in Close!Peers(p)
               PROVE  /\ wire[q][p] # <<>> /\ Head(wire[q][p]).type = "close"
                           => Close!CloseExpected(vcState[p][q], Head(wire[q][p]).ack)
                      /\ terminating[p][q] => /\ vcState[p][q] = "CLOSE_ACKED"
                                              /\ wire[q][p] = <<>>
                                              /\ vcState[q][p] \in {"CLOSE_ACKED", "INACTIVE"}
    BY DEF Close!AssertionsHold, Close!TerminateLosesNothing
  <2>1. CP!IInv /\ q \in CP!Peers(p)
    BY SameInv, SamePackets DEF CloseInv
  <2>2. CP!AssertionsHold /\ CP!TerminateLosesNothing
    <3>1. CP!IsFiniteSet(Proc) /\ MaxData \in Nat /\ MaxOpen \in Nat
      BY SameCardinality, TeardownAssumption
    <3>2. QED
      BY <2>1, <3>1, CP!InvariantAsserts
  <2>3. QED
    BY <2>1, <2>2 DEF CP!AssertionsHold, CP!TerminateLosesNothing,
       CP!CloseExpected, Close!CloseExpected
<1>2. QED
  BY <1>1, LinksAlways, PTL

===============================================================================
