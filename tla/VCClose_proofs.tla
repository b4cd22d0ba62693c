--------------------------- MODULE VCClose_proofs ---------------------------
(***************************************************************************)
(* Proofs about the VC close protocol for every set of processes: the type *)
(* invariant, the packet handler's assertions, and that terminating a      *)
(* connection loses no packet.                                             *)
(***************************************************************************)
EXTENDS VCClose, SequenceTheorems, FiniteSetTheorems, TLAPS

(***************************************************************************)
(* Packets of different kinds differ.                                      *)
(***************************************************************************)
LEMMA PacketsDiffer ==
  /\ Open # Data /\ Open # Close(FALSE) /\ Open # Close(TRUE)
  /\ Data # Close(FALSE) /\ Data # Close(TRUE) /\ Close(FALSE) # Close(TRUE)
  /\ Open \in Packets /\ Data \in Packets
  /\ Close(TRUE) \in Packets /\ Close(FALSE) \in Packets
  /\ \A k \in Packets : k.type = "close" => k \in {Close(TRUE), Close(FALSE)}
  /\ Close(TRUE).ack = TRUE /\ Close(FALSE).ack = FALSE
  /\ Close(TRUE).type = "close" /\ Close(FALSE).type = "close"
BY DEF Open, Data, Close, Packets

(***************************************************************************)
(* What sending one packet does to the packets in flight.                  *)
(***************************************************************************)
LEMMA SendFacts ==
  ASSUME NEW s \in Seq(Packets), NEW e \in Packets
  PROVE  /\ Append(s, e) \in Seq(Packets)
         /\ Append(s, e) # <<>>
         /\ \A f : Has(Append(s, e), f) <=> (Has(s, f) \/ e = f)
         /\ s # <<>> => Append(s, e)[1] = s[1]
         /\ s = <<>> => Append(s, e)[1] = e
         /\ WireOrder(s) /\ ~Has(s, Close(TRUE))
            /\ (~Has(s, Close(FALSE)) \/ e = Close(TRUE)) => WireOrder(Append(s, e))
         /\ OnlyTrue(s) /\ e = Close(TRUE) => OnlyTrue(Append(s, e))
<1> DEFINE t == Append(s, e)
           n == Len(s)
<1>a. n \in Nat /\ Len(t) = n + 1 /\ t \in Seq(Packets) /\ t # <<>>
  OBVIOUS
<1>b. \A i \in 1..n : t[i] = s[i]
  OBVIOUS
<1>c. t[n + 1] = e
  OBVIOUS
<1>d. \A i \in 1..n : i \in 1..Len(t)
  BY <1>a
<1>e. n + 1 \in 1..Len(t)
  BY <1>a
<1>f. \A i \in 1..Len(t) : i \in 1..n \/ i = n + 1
  BY <1>a
<1>g. Len(s) = n
  OBVIOUS
<1>h. s = <<>> <=> n = 0
  OBVIOUS
<1> HIDE DEF t, n
<1>2. \A f : Has(t, f) <=> (Has(s, f) \/ e = f)
  BY <1>b, <1>c, <1>d, <1>e, <1>f, <1>g DEF Has
<1>3. (s # <<>> => t[1] = s[1]) /\ (s = <<>> => t[1] = e)
  BY <1>a, <1>b, <1>c, <1>h
<1>4. ASSUME WireOrder(s), ~Has(s, Close(TRUE)), ~Has(s, Close(FALSE)) \/ e = Close(TRUE)
      PROVE  WireOrder(t)
  <2>1. ASSUME NEW i \in 1..Len(t), t[i] = Close(TRUE) PROVE i = Len(t)
    <3>1. ~(i \in 1..n) BY <2>1, <1>b, <1>g, <1>4 DEF Has
    <3> QED BY <3>1, <1>f, <1>a
  <2>2. ASSUME NEW i \in 1..Len(t), t[i] = Close(FALSE), NEW j \in i+1..Len(t)
        PROVE  t[j] = Close(TRUE)
    <3>1. i \in 1..n BY <1>a
    <3>2. s[i] = Close(FALSE) BY <3>1, <2>2, <1>b
    <3>3. e = Close(TRUE) BY <3>1, <3>2, <1>4, <1>g DEF Has
    <3>4. CASE j \in i+1..n
      <4>1. s[j] = Close(TRUE) BY <3>1, <3>2, <3>4, <1>4, <1>g DEF WireOrder
      <4>2. j \in 1..n BY <3>1, <3>4, <1>a
      <4> QED BY <4>1, <4>2, <1>b
    <3>5. CASE j = n + 1 BY <3>5, <3>3, <1>c
    <3>6. j \in i+1..n \/ j = n + 1 BY <3>1, <1>a
    <3> QED BY <3>4, <3>5, <3>6
  <2> QED BY <2>1, <2>2 DEF WireOrder
<1>5. ASSUME OnlyTrue(s), e = Close(TRUE) PROVE OnlyTrue(t)
  BY <1>5, <1>b, <1>c, <1>f, <1>g DEF OnlyTrue
<1> QED BY <1>a, <1>2, <1>3, <1>4, <1>5 DEF t

(***************************************************************************)
(* What handling the first packet does to the packets in flight.           *)
(***************************************************************************)
LEMMA ConsumeFacts ==
  ASSUME NEW s \in Seq(Packets), s # <<>>
  PROVE  /\ Tail(s) \in Seq(Packets)
         /\ Head(s) \in Packets /\ Head(s) = s[1]
         /\ \A f : Has(s, f) <=> (Has(Tail(s), f) \/ Head(s) = f)
         /\ WireOrder(s) => /\ WireOrder(Tail(s))
                            /\ Head(s) = Close(TRUE) => Tail(s) = <<>>
                            /\ Head(s) = Close(FALSE) => OnlyTrue(Tail(s))
         /\ OnlyTrue(s) => OnlyTrue(Tail(s))
<1> DEFINE t == Tail(s)
           n == Len(t)
<1>a. n \in Nat /\ Len(s) = n + 1 /\ t \in Seq(Packets)
  OBVIOUS
<1>b. Head(s) = s[1] /\ Head(s) \in Packets
  OBVIOUS
<1>c. \A i \in 1..n : t[i] = s[i + 1]
  OBVIOUS
<1>d. n = 0 => t = <<>>
  BY <1>a, EmptySeq
<1>e. \A i \in 1..n : i + 1 \in 1..Len(s)
  BY <1>a
<1>f. \A i \in 1..Len(s) : i = 1 \/ (i - 1 \in 1..n /\ (i - 1) + 1 = i)
  BY <1>a
<1>g. 1 \in 1..Len(s)
  BY <1>a
<1>h. Len(t) = n
  OBVIOUS
<1> HIDE DEF t, n
<1>2. \A f : Has(s, f) <=> (Has(t, f) \/ Head(s) = f)
  <2> TAKE f
  <2>1. ASSUME NEW i \in 1..Len(s), s[i] = f PROVE Has(t, f) \/ Head(s) = f
    <3>1. CASE i = 1 BY <3>1, <2>1, <1>b
    <3>2. CASE i # 1
      <4>1. i - 1 \in 1..n /\ t[i - 1] = f BY <3>2, <2>1, <1>c, <1>f
      <4> QED BY <4>1, <1>h DEF Has
    <3> QED BY <3>1, <3>2
  <2>2. ASSUME NEW i \in 1..n, t[i] = f PROVE Has(s, f)
    BY <2>2, <1>c, <1>e DEF Has
  <2>3. Head(s) = f => Has(s, f) BY <1>b, <1>g DEF Has
  <2> QED BY <2>1, <2>2, <2>3, <1>h DEF Has
<1>3. ASSUME WireOrder(s)
      PROVE  /\ WireOrder(t)
             /\ Head(s) = Close(TRUE) => t = <<>>
             /\ Head(s) = Close(FALSE) => OnlyTrue(t)
  <2>1. ASSUME Head(s) = Close(TRUE) PROVE t = <<>>
    <3>1. 1 = Len(s) BY <2>1, <1>b, <1>g, <1>3 DEF WireOrder
    <3> QED BY <3>1, <1>a, <1>d
  <2>2. ASSUME Head(s) = Close(FALSE), NEW i \in 1..n PROVE t[i] = Close(TRUE)
    <3>1. i + 1 \in 1+1..Len(s) BY <1>a
    <3>2. s[i + 1] = Close(TRUE) BY <3>1, <2>2, <1>b, <1>g, <1>3 DEF WireOrder
    <3> QED BY <3>2, <1>c
  <2>3. ASSUME NEW i \in 1..n, t[i] = Close(TRUE) PROVE i = n
    <3>1. i + 1 \in 1..Len(s) /\ s[i + 1] = Close(TRUE) BY <2>3, <1>c, <1>e
    <3>2. i + 1 = Len(s) BY <3>1, <1>3 DEF WireOrder
    <3> QED BY <3>2, <1>a
  <2>4. ASSUME NEW i \in 1..n, t[i] = Close(FALSE), NEW j \in i+1..n
        PROVE  t[j] = Close(TRUE)
    <3>1. i + 1 \in 1..Len(s) /\ s[i + 1] = Close(FALSE) BY <2>4, <1>c, <1>e
    <3>2. j + 1 \in (i+1)+1..Len(s) /\ j \in 1..n BY <1>a
    <3>3. s[j + 1] = Close(TRUE) BY <3>1, <3>2, <1>3 DEF WireOrder
    <3> QED BY <3>2, <3>3, <1>c
  <2> QED BY <2>1, <2>2, <2>3, <2>4, <1>h DEF WireOrder, OnlyTrue
<1>4. OnlyTrue(s) => OnlyTrue(t)
  BY <1>c, <1>e, <1>h DEF OnlyTrue
<1> QED BY <1>a, <1>b, <1>2, <1>3, <1>4 DEF t

LEMMA EmptyFacts ==
  /\ \A f : ~Has(<<>>, f)
  /\ WireOrder(<<>>)
  /\ OnlyTrue(<<>>)
BY DEF Has, WireOrder, OnlyTrue

LEMMA OnlyTrueFacts ==
  ASSUME NEW s \in Seq(Packets), OnlyTrue(s)
  PROVE  /\ \A f : Has(s, f) => f = Close(TRUE)
         /\ s = <<>> \/ s[1] = Close(TRUE)
         /\ s # <<>> => Has(s, Close(TRUE))
<1>1. s # <<>> => 1 \in 1..Len(s)
  OBVIOUS
<1> QED BY <1>1 DEF OnlyTrue, Has
-----------------------------------------------------------------------------
(***************************************************************************)
(* One lemma per kind of step: what it does to the two ends of the VC it   *)
(* acts on.  x is the end that takes the step.                             *)
(***************************************************************************)
PairTypes(x, y, wxy, wyx, tx, ty) ==
  /\ x \in VCStates /\ y \in VCStates
  /\ wxy \in Seq(Packets) /\ wyx \in Seq(Packets)
  /\ tx \in BOOLEAN /\ ty \in BOOLEAN

BothInv(x, y, wxy, wyx, tx, ty) ==
  PairInv(x, y, wxy, wyx, tx, ty) /\ PairInv(y, x, wyx, wxy, ty, tx)

LEMMA ActivateStep ==
  ASSUME NEW x, NEW y, NEW wxy, NEW wyx, NEW tx, NEW ty,
         PairTypes(x, y, wxy, wyx, tx, ty),
         BothInv(x, y, wxy, wyx, tx, ty),
         x = "INACTIVE", y # "CLOSE_ACKED"
  PROVE  BothInv("ACTIVE", y, Append(wxy, Open), wyx, tx, ty)
<1>1. wxy = <<>>
  BY OnlyTrueFacts, PacketsDiffer DEF PairTypes, BothInv, PairInv, EndInv, TrueInFlight
<1> DEFINE w == Append(wxy, Open)
<1>2. /\ WireOrder(w) /\ w # <<>> /\ w[1] = Open
      /\ ~Has(w, Close(TRUE)) /\ ~Has(w, Close(FALSE))
  BY <1>1, SendFacts, EmptyFacts, PacketsDiffer DEF PairTypes
<1> HIDE DEF w
<1>3. PairInv("ACTIVE", y, w, wyx, tx, ty)
  BY <1>1, <1>2, EmptyFacts
     DEF PairTypes, BothInv, PairInv, EndInv, TrueInFlight, FalseInFlight, OpenFirst, VCStates
<1>4. PairInv(y, "ACTIVE", wyx, w, ty, tx)
  BY <1>1, <1>2, EmptyFacts
     DEF PairTypes, BothInv, PairInv, EndInv, TrueInFlight, FalseInFlight, OpenFirst, VCStates
<1> QED BY <1>3, <1>4 DEF BothInv, w

LEMMA SendDataStep ==
  ASSUME NEW x, NEW y, NEW wxy, NEW wyx, NEW tx, NEW ty,
         PairTypes(x, y, wxy, wyx, tx, ty),
         BothInv(x, y, wxy, wyx, tx, ty),
         x \in {"ACTIVE", "REMOTE_CLOSE"}
  PROVE  BothInv(x, y, Append(wxy, Data), wyx, tx, ty)
<1> DEFINE w == Append(wxy, Data)
<1>1. ~Has(wxy, Close(TRUE)) /\ ~Has(wxy, Close(FALSE))
  BY DEF BothInv, PairInv, TrueInFlight, FalseInFlight
<1>2. /\ WireOrder(w) /\ w # <<>> /\ (wxy # <<>> => w[1] = wxy[1])
      /\ ~Has(w, Close(TRUE)) /\ ~Has(w, Close(FALSE))
  BY <1>1, SendFacts, PacketsDiffer DEF PairTypes, BothInv, PairInv
<1> HIDE DEF w
<1>3. PairInv(x, y, w, wyx, tx, ty)
  BY <1>1, <1>2
     DEF PairTypes, BothInv, PairInv, EndInv, TrueInFlight, FalseInFlight, OpenFirst, VCStates
<1>4. PairInv(y, x, wyx, w, ty, tx)
  BY <1>1, <1>2
     DEF PairTypes, BothInv, PairInv, EndInv, TrueInFlight, FalseInFlight, OpenFirst, VCStates
<1> QED BY <1>3, <1>4 DEF BothInv, w

LEMMA SendCloseStep ==
  ASSUME NEW x, NEW y, NEW wxy, NEW wyx, NEW tx, NEW ty,
         PairTypes(x, y, wxy, wyx, tx, ty),
         BothInv(x, y, wxy, wyx, tx, ty),
         x \in {"ACTIVE", "REMOTE_CLOSE"}
  PROVE  BothInv(IF x = "ACTIVE" THEN "LOCAL_CLOSE" ELSE "CLOSE_ACKED", y,
                 Append(wxy, Close(x # "ACTIVE")), wyx, tx, ty)
<1>0. ~Has(wxy, Close(TRUE)) /\ ~Has(wxy, Close(FALSE)) /\ ~tx
  BY DEF BothInv, PairInv, TrueInFlight, FalseInFlight, EndInv, PairTypes
<1>1. CASE x = "ACTIVE"
  <2> DEFINE w == Append(wxy, Close(FALSE))
  <2>1. /\ WireOrder(w) /\ w # <<>> /\ (wxy # <<>> => w[1] = wxy[1])
        /\ ~Has(w, Close(TRUE)) /\ Has(w, Close(FALSE))
    BY <1>0, SendFacts, PacketsDiffer DEF PairTypes, BothInv, PairInv
  <2> HIDE DEF w
  <2>2. PairInv("LOCAL_CLOSE", y, w, wyx, tx, ty)
    BY <1>0, <1>1, <2>1 DEF PairTypes, BothInv, PairInv, EndInv, TrueInFlight, FalseInFlight, OpenFirst, VCStates
  <2>3. PairInv(y, "LOCAL_CLOSE", wyx, w, ty, tx)
    BY <1>0, <1>1, <2>1 DEF PairTypes, BothInv, PairInv, EndInv, TrueInFlight, FalseInFlight, OpenFirst, VCStates
  <2> QED BY <1>1, <2>2, <2>3 DEF BothInv, w
<1>2. CASE x = "REMOTE_CLOSE"
  <2> DEFINE w == Append(wxy, Close(TRUE))
  <2>1. /\ WireOrder(w) /\ w # <<>>
        /\ Has(w, Close(TRUE)) /\ ~Has(w, Close(FALSE))
    BY <1>0, SendFacts, PacketsDiffer DEF PairTypes, BothInv, PairInv
  <2>2. y = "LOCAL_CLOSE" /\ wyx = <<>> /\ ~ty
    BY <1>2 DEF PairTypes, BothInv, PairInv, EndInv
  <2> HIDE DEF w
  <2>3. PairInv("CLOSE_ACKED", y, w, wyx, tx, ty)
    BY <1>0, <2>1, <2>2, EmptyFacts DEF PairTypes, BothInv, PairInv, EndInv, TrueInFlight, FalseInFlight, OpenFirst, VCStates
  <2>4. PairInv(y, "CLOSE_ACKED", wyx, w, ty, tx)
    BY <1>0, <2>1, <2>2, EmptyFacts DEF PairTypes, BothInv, PairInv, EndInv, TrueInFlight, FalseInFlight, OpenFirst, VCStates
  <2> QED BY <1>2, <2>3, <2>4 DEF BothInv, w
<1> QED BY <1>1, <1>2

LEMMA RecvOpenStep ==
  ASSUME NEW x, NEW y, NEW wxy, NEW wyx, NEW tx, NEW ty,
         PairTypes(x, y, wxy, wyx, tx, ty),
         BothInv(x, y, wxy, wyx, tx, ty),
         wyx # <<>>, Head(wyx) = Open
  PROVE  BothInv(IF x = "INACTIVE" THEN "ACTIVE" ELSE x, y, wxy, Tail(wyx), tx, ty)
<1> DEFINE w == Tail(wyx)
<1>1. /\ WireOrder(w) /\ ~tx
      /\ \A f : f # Open => (Has(wyx, f) <=> Has(w, f))
      /\ y # "INACTIVE" /\ x # "REMOTE_CLOSE"
  BY ConsumeFacts, OnlyTrueFacts, PacketsDiffer DEF PairTypes, BothInv, PairInv, EndInv
<1>2. x # "CLOSE_ACKED"
  BY ConsumeFacts, OnlyTrueFacts, PacketsDiffer DEF PairTypes, BothInv, PairInv, EndInv
<1> HIDE DEF w
<1>3. CASE x = "INACTIVE"
  <2>1. PairInv("ACTIVE", y, wxy, w, tx, ty)
    BY <1>1, <1>3, PacketsDiffer DEF PairTypes, BothInv, PairInv, EndInv, TrueInFlight, FalseInFlight, OpenFirst, VCStates
  <2>2. PairInv(y, "ACTIVE", w, wxy, ty, tx)
    BY <1>1, <1>3, PacketsDiffer DEF PairTypes, BothInv, PairInv, EndInv, TrueInFlight, FalseInFlight, OpenFirst, VCStates
  <2> QED BY <1>3, <2>1, <2>2 DEF BothInv, w
<1>4. CASE x # "INACTIVE"
  <2>1. PairInv(x, y, wxy, w, tx, ty)
    BY <1>1, <1>2, <1>4, PacketsDiffer DEF PairTypes, BothInv, PairInv, EndInv, TrueInFlight, FalseInFlight, OpenFirst, VCStates
  <2>2. PairInv(y, x, w, wxy, ty, tx)
    BY <1>1, <1>2, <1>4, PacketsDiffer DEF PairTypes, BothInv, PairInv, EndInv, TrueInFlight, FalseInFlight, OpenFirst, VCStates
  <2> QED BY <1>4, <2>1, <2>2 DEF BothInv, w
<1> QED BY <1>3, <1>4

LEMMA RecvDataStep ==
  ASSUME NEW x, NEW y, NEW wxy, NEW wyx, NEW tx, NEW ty,
         PairTypes(x, y, wxy, wyx, tx, ty),
         BothInv(x, y, wxy, wyx, tx, ty),
         wyx # <<>>, Head(wyx) = Data
  PROVE  BothInv(x, y, wxy, Tail(wyx), tx, ty)
<1> DEFINE w == Tail(wyx)
<1>1. /\ WireOrder(w) /\ ~tx
      /\ \A f : f # Data => (Has(wyx, f) <=> Has(w, f))
      /\ y # "INACTIVE" /\ x # "REMOTE_CLOSE" /\ x # "INACTIVE"
  BY ConsumeFacts, OnlyTrueFacts, PacketsDiffer
     DEF PairTypes, BothInv, PairInv, EndInv, OpenFirst
<1>2. x # "CLOSE_ACKED"
  BY ConsumeFacts, OnlyTrueFacts, PacketsDiffer DEF PairTypes, BothInv, PairInv, EndInv
<1> HIDE DEF w
<1>3. PairInv(x, y, wxy, w, tx, ty)
  BY <1>1, <1>2, PacketsDiffer DEF PairTypes, BothInv, PairInv, EndInv, TrueInFlight, FalseInFlight, OpenFirst, VCStates
<1>4. PairInv(y, x, w, wxy, ty, tx)
  BY <1>1, <1>2, PacketsDiffer DEF PairTypes, BothInv, PairInv, EndInv, TrueInFlight, FalseInFlight, OpenFirst, VCStates
<1> QED BY <1>3, <1>4 DEF BothInv, w

LEMMA TerminatedStep ==
  ASSUME NEW x, NEW y, NEW wxy, NEW wyx, NEW tx, NEW ty,
         PairTypes(x, y, wxy, wyx, tx, ty),
         BothInv(x, y, wxy, wyx, tx, ty),
         tx
  PROVE  BothInv("INACTIVE", y, wxy, wyx, FALSE, ty)
<1>1. x = "CLOSE_ACKED" /\ y \in {"CLOSE_ACKED", "INACTIVE"} /\ wyx = <<>>
  BY DEF BothInv, PairInv, EndInv
<1> QED
  BY <1>1, EmptyFacts DEF PairTypes, BothInv, PairInv, EndInv, TrueInFlight, FalseInFlight, OpenFirst, VCStates

(***************************************************************************)
(* The assertions of MPIDI_CH3_PktHandler_Close hold at one end of a VC.   *)
(***************************************************************************)
LEMMA CloseAsserts ==
  ASSUME NEW x, NEW y, NEW wxy, NEW wyx, NEW tx, NEW ty,
         PairTypes(x, y, wxy, wyx, tx, ty),
         BothInv(x, y, wxy, wyx, tx, ty),
         wyx # <<>>, Head(wyx).type = "close"
  PROVE  /\ CloseExpected(x, Head(wyx).ack)
         /\ Head(wyx) = Close(Head(wyx).ack) /\ Head(wyx).ack \in BOOLEAN
<1>1. Head(wyx) \in {Close(TRUE), Close(FALSE)} /\ Has(wyx, Head(wyx)) /\ wyx[1] = Head(wyx)
  BY ConsumeFacts, PacketsDiffer DEF PairTypes
<1>2. CASE Head(wyx) = Close(TRUE)
  BY <1>1, <1>2, PacketsDiffer DEF BothInv, PairInv, TrueInFlight, CloseExpected
<1>3. CASE Head(wyx) = Close(FALSE)
  BY <1>1, <1>3, PacketsDiffer DEF BothInv, PairInv, FalseInFlight, OpenFirst, CloseExpected
<1> QED BY <1>1, <1>2, <1>3

LEMMA RecvFalseStep ==
  ASSUME NEW x, NEW y, NEW wxy, NEW wyx, NEW tx, NEW ty,
         PairTypes(x, y, wxy, wyx, tx, ty),
         BothInv(x, y, wxy, wyx, tx, ty),
         wyx # <<>>, Head(wyx) = Close(FALSE)
  PROVE  /\ x = "ACTIVE" => BothInv("REMOTE_CLOSE", y, wxy, Tail(wyx), tx, ty)
         /\ x = "LOCAL_CLOSE" =>
              BothInv("CLOSE_ACKED", y, Append(wxy, Close(TRUE)), Tail(wyx), tx, ty)
<1> DEFINE w == Tail(wyx)
<1>1. /\ WireOrder(w) /\ OnlyTrue(w) /\ w \in Seq(Packets)
      /\ Has(wyx, Close(FALSE)) /\ ~Has(w, Close(FALSE))
      /\ Has(wyx, Close(TRUE)) <=> Has(w, Close(TRUE))
      /\ Has(w, Close(TRUE)) \/ w = <<>>
  <2>1. w \in Seq(Packets) /\ WireOrder(w) /\ OnlyTrue(w)
    BY ConsumeFacts DEF PairTypes, BothInv, PairInv
  <2> QED BY <2>1, ConsumeFacts, OnlyTrueFacts, PacketsDiffer DEF PairTypes
<1> HIDE DEF w
<1>2. ASSUME x = "ACTIVE" PROVE BothInv("REMOTE_CLOSE", y, wxy, w, tx, ty)
  <2>1. y = "LOCAL_CLOSE" /\ w = <<>> /\ ~tx
    BY <1>1, <1>2 DEF PairTypes, BothInv, PairInv, FalseInFlight, TrueInFlight, EndInv
  <2>2. PairInv("REMOTE_CLOSE", y, wxy, w, tx, ty)
    BY <1>1, <1>2, <2>1, EmptyFacts DEF PairTypes, BothInv, PairInv, EndInv, TrueInFlight, FalseInFlight, OpenFirst, VCStates
  <2>3. PairInv(y, "REMOTE_CLOSE", w, wxy, ty, tx)
    BY <1>1, <1>2, <2>1, EmptyFacts DEF PairTypes, BothInv, PairInv, EndInv, TrueInFlight, FalseInFlight, OpenFirst, VCStates
  <2> QED BY <2>2, <2>3 DEF BothInv
<1>3. ASSUME x = "LOCAL_CLOSE"
      PROVE  BothInv("CLOSE_ACKED", y, Append(wxy, Close(TRUE)), w, tx, ty)
  <2> DEFINE v == Append(wxy, Close(TRUE))
  <2>1. ~Has(wxy, Close(TRUE)) /\ ~tx
    BY <1>3 DEF PairTypes, BothInv, PairInv, TrueInFlight, EndInv
  <2>2. /\ WireOrder(v) /\ v # <<>> /\ Has(v, Close(TRUE))
        /\ Has(v, Close(FALSE)) <=> Has(wxy, Close(FALSE))
        /\ OnlyTrue(wxy) => OnlyTrue(v)
    BY <2>1, SendFacts, PacketsDiffer DEF PairTypes, BothInv, PairInv
  <2> HIDE DEF v
  <2>3. CASE y = "LOCAL_CLOSE"
    <3>1. w = <<>> /\ Has(wxy, Close(FALSE)) /\ ~ty
      BY <1>1, <1>3, <2>3 DEF PairTypes, BothInv, PairInv, TrueInFlight, EndInv
    <3>2. PairInv("CLOSE_ACKED", y, v, w, tx, ty)
      BY <1>1, <2>1, <2>2, <2>3, <3>1, EmptyFacts DEF PairTypes, BothInv, PairInv, EndInv, TrueInFlight, FalseInFlight, OpenFirst, VCStates
    <3>3. PairInv(y, "CLOSE_ACKED", w, v, ty, tx)
      BY <1>1, <2>1, <2>2, <2>3, <3>1, EmptyFacts DEF PairTypes, BothInv, PairInv, EndInv, TrueInFlight, FalseInFlight, OpenFirst, VCStates
    <3> QED BY <3>2, <3>3 DEF BothInv, v
  <2>4. CASE y = "CLOSE_ACKED"
    <3>1. Has(w, Close(TRUE)) /\ wxy = <<>> /\ ~ty
      BY <1>1, <1>3, <2>4 DEF PairTypes, BothInv, PairInv, FalseInFlight, EndInv
    <3>2. ~Has(v, Close(FALSE)) /\ OnlyTrue(v)
      BY <2>2, <3>1, EmptyFacts
    <3>3. PairInv("CLOSE_ACKED", y, v, w, tx, ty)
      BY <1>1, <2>1, <2>2, <2>4, <3>1, <3>2 DEF PairTypes, BothInv, PairInv, EndInv, TrueInFlight, FalseInFlight, OpenFirst, VCStates
    <3>4. PairInv(y, "CLOSE_ACKED", w, v, ty, tx)
      BY <1>1, <2>1, <2>2, <2>4, <3>1, <3>2 DEF PairTypes, BothInv, PairInv, EndInv, TrueInFlight, FalseInFlight, OpenFirst, VCStates
    <3> QED BY <3>3, <3>4 DEF BothInv, v
  <2>5. y \in {"LOCAL_CLOSE", "CLOSE_ACKED"}
    BY <1>1 DEF BothInv, PairInv, FalseInFlight
  <2> QED BY <2>3, <2>4, <2>5
<1> QED BY <1>2, <1>3 DEF w

LEMMA RecvTrueStep ==
  ASSUME NEW x, NEW y, NEW wxy, NEW wyx, NEW tx, NEW ty,
         PairTypes(x, y, wxy, wyx, tx, ty),
         BothInv(x, y, wxy, wyx, tx, ty),
         wyx # <<>>, Head(wyx) = Close(TRUE)
  PROVE  /\ x = "LOCAL_CLOSE" =>
              BothInv("CLOSE_ACKED", y, Append(wxy, Close(TRUE)), Tail(wyx), TRUE, ty)
         /\ x = "CLOSE_ACKED" => BothInv("CLOSE_ACKED", y, wxy, Tail(wyx), TRUE, ty)
<1>1. Tail(wyx) = <<>> /\ Has(wyx, Close(TRUE)) /\ ~Has(wyx, Close(FALSE))
  <2>1. Tail(wyx) = <<>> BY ConsumeFacts DEF PairTypes, BothInv, PairInv
  <2> QED BY <2>1, ConsumeFacts, EmptyFacts, PacketsDiffer DEF PairTypes
<1>2. ASSUME x = "LOCAL_CLOSE"
      PROVE  BothInv("CLOSE_ACKED", y, Append(wxy, Close(TRUE)), <<>>, TRUE, ty)
  <2> DEFINE v == Append(wxy, Close(TRUE))
  <2>1. /\ ~Has(wxy, Close(TRUE)) /\ ~Has(wxy, Close(FALSE)) /\ ~ty
        /\ y = "CLOSE_ACKED" /\ OnlyTrue(wxy)
    BY <1>1, <1>2 DEF PairTypes, BothInv, PairInv, TrueInFlight, FalseInFlight, EndInv
  <2>2. WireOrder(v) /\ v # <<>> /\ Has(v, Close(TRUE)) /\ ~Has(v, Close(FALSE)) /\ OnlyTrue(v)
    BY <2>1, SendFacts, PacketsDiffer DEF PairTypes, BothInv, PairInv
  <2> HIDE DEF v
  <2>3. PairInv("CLOSE_ACKED", y, v, <<>>, TRUE, ty)
    BY <1>1, <2>1, <2>2, EmptyFacts DEF PairTypes, BothInv, PairInv, EndInv, TrueInFlight, FalseInFlight, OpenFirst, VCStates
  <2>4. PairInv(y, "CLOSE_ACKED", <<>>, v, ty, TRUE)
    BY <1>1, <2>1, <2>2, EmptyFacts DEF PairTypes, BothInv, PairInv, EndInv, TrueInFlight, FalseInFlight, OpenFirst, VCStates
  <2> QED BY <2>3, <2>4 DEF BothInv, v
<1>3. ASSUME x = "CLOSE_ACKED"
      PROVE  BothInv("CLOSE_ACKED", y, wxy, <<>>, TRUE, ty)
  <2>1. y \in {"CLOSE_ACKED", "INACTIVE"} /\ ~Has(wxy, Close(FALSE))
    BY <1>1, <1>3 DEF PairTypes, BothInv, PairInv, TrueInFlight, FalseInFlight, EndInv
  <2>2. PairInv("CLOSE_ACKED", y, wxy, <<>>, TRUE, ty)
    BY <1>1, <1>3, <2>1, EmptyFacts DEF PairTypes, BothInv, PairInv, EndInv, TrueInFlight, FalseInFlight, OpenFirst, VCStates
  <2>3. PairInv(y, "CLOSE_ACKED", <<>>, wxy, ty, TRUE)
    BY <1>1, <1>3, <2>1, EmptyFacts DEF PairTypes, BothInv, PairInv, EndInv, TrueInFlight, FalseInFlight, OpenFirst, VCStates
  <2> QED BY <2>2, <2>3 DEF BothInv
<1> QED BY <1>1, <1>2, <1>3

-----------------------------------------------------------------------------
(***************************************************************************)
(* Setting one entry of a table changes that entry only.                   *)
(***************************************************************************)
Elsewhere(g, f, p, q) ==
  \A r, s \in Proc : ~(r = p /\ s = q) /\ ~(r = q /\ s = p) => g[r][s] = f[r][s]

LEMMA ElsewhereFacts ==
  /\ \A f, p, q : Elsewhere(f, f, p, q)
  /\ \A f, g, p, q : Elsewhere(g, f, p, q) => Elsewhere(g, f, q, p)
BY DEF Elsewhere

LEMMA SetState ==
  ASSUME TypeOK, NEW p \in Proc, NEW q \in Proc, p # q, NEW v \in VCStates,
         vcState' = Set(vcState, p, q, v)
  PROVE  /\ vcState' \in [Proc -> [Proc -> VCStates]] /\ Elsewhere(vcState', vcState, p, q)
         /\ vcState'[p][q] = v /\ vcState'[q][p] = vcState[q][p]
BY DEF TypeOK, Set, Elsewhere

LEMMA SetWire ==
  ASSUME TypeOK, NEW p \in Proc, NEW q \in Proc, p # q, NEW v \in Seq(Packets),
         wire' = Set(wire, p, q, v)
  PROVE  /\ wire' \in [Proc -> [Proc -> Seq(Packets)]]
         /\ Elsewhere(wire', wire, p, q) /\ Elsewhere(wire', wire, q, p)
         /\ wire'[p][q] = v /\ wire'[q][p] = wire[q][p]
BY DEF TypeOK, Set, Elsewhere

LEMMA SetTerm ==
  ASSUME TypeOK, NEW p \in Proc, NEW q \in Proc, p # q, NEW v \in BOOLEAN,
         terminating' = Set(terminating, p, q, v)
  PROVE  /\ terminating' \in [Proc -> [Proc -> BOOLEAN]]
         /\ Elsewhere(terminating', terminating, p, q)
         /\ terminating'[p][q] = v /\ terminating'[q][p] = terminating[q][p]
BY DEF TypeOK, Set, Elsewhere

(***************************************************************************)
(* A step on the VC between p and q concerns no other pair: if it keeps    *)
(* that pair's invariant it keeps everybody's.                             *)
(***************************************************************************)
LEMMA OnePair ==
  ASSUME TypeOK, VCInv,
         NEW p \in Proc, NEW q \in Peers(p),
         Elsewhere(vcState', vcState, p, q),
         Elsewhere(wire', wire, p, q),
         Elsewhere(terminating', terminating, p, q),
         BothInv(vcState'[p][q], vcState'[q][p], wire'[p][q], wire'[q][p],
                 terminating'[p][q], terminating'[q][p])
  PROVE  VCInv'
<1> SUFFICES ASSUME NEW r \in Proc, NEW s \in Peers(r)
             PROVE  PairInv(vcState'[r][s], vcState'[s][r], wire'[r][s], wire'[s][r],
                            terminating'[r][s], terminating'[s][r])
  BY DEF VCInv
<1>0. q \in Proc /\ s \in Proc /\ p # q /\ r # s
  BY DEF Peers
<1>1. CASE r = p /\ s = q
  BY <1>1 DEF BothInv
<1>2. CASE r = q /\ s = p
  BY <1>2 DEF BothInv
<1>3. CASE ~(r = p /\ s = q) /\ ~(r = q /\ s = p)
  <2>1. /\ vcState'[r][s] = vcState[r][s] /\ vcState'[s][r] = vcState[s][r]
        /\ wire'[r][s] = wire[r][s] /\ wire'[s][r] = wire[s][r]
        /\ terminating'[r][s] = terminating[r][s] /\ terminating'[s][r] = terminating[s][r]
    BY <1>0, <1>3 DEF Elsewhere
  <2> QED BY <2>1 DEF VCInv
<1> QED BY <1>1, <1>2, <1>3

(***************************************************************************)
(* What VCInv says of the pair a step acts on.                             *)
(***************************************************************************)
LEMMA ThisPair ==
  ASSUME TypeOK, VCInv, NEW p \in Proc, NEW q \in Peers(p)
  PROVE  /\ p \in Proc /\ q \in Proc /\ p # q /\ p \in Peers(q)
         /\ PairTypes(vcState[p][q], vcState[q][p], wire[p][q], wire[q][p],
                      terminating[p][q], terminating[q][p])
         /\ BothInv(vcState[p][q], vcState[q][p], wire[p][q], wire[q][p],
                    terminating[p][q], terminating[q][p])
BY DEF TypeOK, VCInv, PairTypes, BothInv, Peers

(***************************************************************************)
(* The count of outstanding closes follows the set of closing VCs.         *)
(***************************************************************************)
LEMMA ClosingFinite ==
  ASSUME NEW p \in Proc
  PROVE  IsFiniteSet(Closing(p)) /\ Cardinality(Closing(p)) \in Nat
BY VCCloseAssumption, FS_Subset, FS_CardinalityType DEF Closing, Peers

LEMMA CountSame ==
  ASSUME OutstandingExact, outstanding' = outstanding,
         \A r \in Proc : Closing(r)' = Closing(r)
  PROVE  OutstandingExact'
BY DEF OutstandingExact

LEMMA CountAdd ==
  ASSUME TypeOK, OutstandingExact, NEW p \in Proc, NEW q, q \notin Closing(p),
         outstanding' = [outstanding EXCEPT ![p] = @ + 1],
         Closing(p)' = Closing(p) \cup {q},
         \A r \in Proc \ {p} : Closing(r)' = Closing(r)
  PROVE  OutstandingExact'
<1>1. Cardinality(Closing(p)') = Cardinality(Closing(p)) + 1
  BY ClosingFinite, FS_AddElement
<1>2. outstanding'[p] = Cardinality(Closing(p)')
  BY <1>1 DEF TypeOK, OutstandingExact
<1>3. \A r \in Proc \ {p} : outstanding'[r] = Cardinality(Closing(r)')
  BY DEF TypeOK, OutstandingExact
<1> QED BY <1>2, <1>3 DEF OutstandingExact

LEMMA CountRemove ==
  ASSUME TypeOK, OutstandingExact, NEW p \in Proc, NEW q, q \in Closing(p),
         outstanding' = [outstanding EXCEPT ![p] = @ - 1],
         Closing(p)' = Closing(p) \ {q},
         \A r \in Proc \ {p} : Closing(r)' = Closing(r)
  PROVE  OutstandingExact' /\ outstanding' \in [Proc -> Nat]
<1>1. /\ Cardinality(Closing(p)') = Cardinality(Closing(p)) - 1
      /\ Cardinality(Closing(p)') \in Nat
  BY ClosingFinite, FS_RemoveElement, FS_CardinalityType
<1>2. outstanding'[p] = Cardinality(Closing(p)') /\ outstanding'[p] \in Nat
  BY <1>1 DEF TypeOK, OutstandingExact
<1>3. \A r \in Proc \ {p} : outstanding'[r] = Cardinality(Closing(r)')
  BY DEF TypeOK, OutstandingExact
<1>4. outstanding' \in [Proc -> Nat]
  BY <1>2 DEF TypeOK
<1> QED BY <1>2, <1>3, <1>4 DEF OutstandingExact

-----------------------------------------------------------------------------
(***************************************************************************)
(* The initial states satisfy the inductive invariant.                     *)
(***************************************************************************)
LEMMA InitInv == Init => IInv
<1> SUFFICES ASSUME Init PROVE IInv
  OBVIOUS
<1>1. TypeOK
  <2>1. <<>> \in Seq(Packets) OBVIOUS
  <2> QED BY <2>1 DEF Init, TypeOK, VCStates
<1>2. VCInv
  BY EmptyFacts DEF Init, VCInv, PairInv, OpenFirst, FalseInFlight, TrueInFlight, EndInv, Peers
<1>3. OutstandingExact
  <2>1. \A r \in Proc : Closing(r) = {} BY DEF Init, Closing, Peers
  <2> QED BY <2>1, FS_EmptySet DEF Init, OutstandingExact
<1> QED BY <1>1, <1>2, <1>3 DEF IInv

(***************************************************************************)
(* Every step of the protocol preserves the inductive invariant.           *)
(***************************************************************************)
LEMMA NextInv == IInv /\ [Next]_vars => IInv'
<1> SUFFICES ASSUME IInv, [Next]_vars PROVE IInv'
  OBVIOUS
<1> USE DEF IInv
<1>1. ASSUME NEW p \in Proc, NEW q \in Peers(p), Comm_get_vc(p, q) PROVE IInv'
  <2>a. /\ p \in Proc /\ q \in Proc /\ p # q /\ "ACTIVE" \in VCStates /\ Open \in Packets
        /\ wire[p][q] \in Seq(Packets)
    BY ThisPair, PacketsDiffer DEF VCStates, PairTypes
  <2>b. /\ vcState' \in [Proc -> [Proc -> VCStates]] /\ Elsewhere(vcState', vcState, p, q)
        /\ vcState'[p][q] = "ACTIVE" /\ vcState'[q][p] = vcState[q][p]
    BY <1>1, <2>a, SetState DEF Comm_get_vc
  <2>c. /\ wire' \in [Proc -> [Proc -> Seq(Packets)]] /\ Elsewhere(wire', wire, p, q)
        /\ wire'[p][q] = Append(wire[p][q], Open) /\ wire'[q][p] = wire[q][p]
    <3>1. wire' = Set(wire, p, q, Append(wire[p][q], Open)) /\ Append(wire[p][q], Open) \in Seq(Packets)
      BY <1>1, <2>a, SendFacts DEF Send, Comm_get_vc
    <3> QED BY <2>a, <3>1, SetWire
  <2>1. TypeOK'
    <3>1. opens' \in [Proc -> [Proc -> Nat]]
      BY <1>1, <2>a DEF Comm_get_vc, TypeOK
    <3> QED BY <1>1, <2>b, <2>c, <3>1 DEF Comm_get_vc, TypeOK
  <2>2. VCInv'
    <3>1. BothInv("ACTIVE", vcState[q][p], Append(wire[p][q], Open), wire[q][p],
                  terminating[p][q], terminating[q][p])
      BY <1>1, ThisPair, ActivateStep DEF Comm_get_vc
    <3> QED BY <1>1, <2>b, <2>c, <3>1, ElsewhereFacts, OnePair DEF Comm_get_vc
  <2>3. OutstandingExact'
    <3>1. \A r \in Proc : Closing(r)' = Closing(r)
      BY <1>1, ThisPair DEF Comm_get_vc, TypeOK, Set, Closing, Peers
    <3> QED BY <1>1, <3>1, CountSame DEF Comm_get_vc
  <2> QED BY <2>1, <2>2, <2>3
<1>2. ASSUME NEW p \in Proc, NEW q \in Peers(p), SendData(p, q) PROVE IInv'
  <2>a. /\ p \in Proc /\ q \in Proc /\ p # q /\ Data \in Packets
        /\ wire[p][q] \in Seq(Packets)
    BY ThisPair, PacketsDiffer DEF PairTypes
  <2>c. /\ wire' \in [Proc -> [Proc -> Seq(Packets)]] /\ Elsewhere(wire', wire, p, q)
        /\ wire'[p][q] = Append(wire[p][q], Data) /\ wire'[q][p] = wire[q][p]
    <3>1. wire' = Set(wire, p, q, Append(wire[p][q], Data)) /\ Append(wire[p][q], Data) \in Seq(Packets)
      BY <1>2, <2>a, SendFacts DEF Send, SendData
    <3> QED BY <2>a, <3>1, SetWire
  <2>1. TypeOK'
    BY <1>2, <2>c DEF SendData, TypeOK
  <2>2. VCInv'
    <3>1. BothInv(vcState[p][q], vcState[q][p], Append(wire[p][q], Data), wire[q][p],
                  terminating[p][q], terminating[q][p])
      BY <1>2, ThisPair, SendDataStep DEF SendData
    <3> QED BY <1>2, <2>c, <3>1, ElsewhereFacts, OnePair DEF SendData
  <2>3. OutstandingExact'
    <3>1. \A r \in Proc : Closing(r)' = Closing(r)
      BY <1>2 DEF SendData, Closing
    <3> QED BY <1>2, <3>1, CountSame DEF SendData
  <2> QED BY <2>1, <2>2, <2>3
<1>3. ASSUME NEW p \in Proc, NEW q \in Peers(p), VC_SendClose(p, q) PROVE IInv'
  <2> DEFINE x == IF vcState[p][q] = "ACTIVE" THEN "LOCAL_CLOSE" ELSE "CLOSE_ACKED"
             k == Close(vcState[p][q] # "ACTIVE")
  <2>0. x \in {"LOCAL_CLOSE", "CLOSE_ACKED"}
    OBVIOUS
  <2>a. /\ p \in Proc /\ q \in Proc /\ p # q /\ x \in VCStates /\ k \in Packets
        /\ wire[p][q] \in Seq(Packets)
    BY ThisPair DEF VCStates, PairTypes, Packets, Close
  <2>d. vcState' = Set(vcState, p, q, x) /\ wire' = Send(wire, p, q, k)
    BY <1>3 DEF VC_SendClose, CloseAck
  <2> HIDE DEF x, k
  <2>b. /\ vcState' \in [Proc -> [Proc -> VCStates]] /\ Elsewhere(vcState', vcState, p, q)
        /\ vcState'[p][q] = x /\ vcState'[q][p] = vcState[q][p]
    BY <2>d, <2>a, SetState
  <2>c. /\ wire' \in [Proc -> [Proc -> Seq(Packets)]] /\ Elsewhere(wire', wire, p, q)
        /\ wire'[p][q] = Append(wire[p][q], k) /\ wire'[q][p] = wire[q][p]
    <3>1. wire' = Set(wire, p, q, Append(wire[p][q], k)) /\ Append(wire[p][q], k) \in Seq(Packets)
      BY <2>d, <2>a, SendFacts DEF Send
    <3> QED BY <2>a, <3>1, SetWire
  <2>1. TypeOK'
    <3>1. outstanding' \in [Proc -> Nat]
      BY <1>3, <2>a DEF VC_SendClose, TypeOK
    <3> QED BY <1>3, <2>b, <2>c, <3>1 DEF VC_SendClose, TypeOK
  <2>2. VCInv'
    <3>1. BothInv(x, vcState[q][p], Append(wire[p][q], k), wire[q][p],
                  terminating[p][q], terminating[q][p])
      BY <1>3, ThisPair, SendCloseStep DEF VC_SendClose, x, k
    <3> QED BY <1>3, <2>b, <2>c, <3>1, ElsewhereFacts, OnePair DEF VC_SendClose
  <2>3. OutstandingExact'
    <3>1. q \notin Closing(p) /\ Closing(p)' = Closing(p) \cup {q}
      BY <1>3, <2>0, <2>b, ThisPair DEF VC_SendClose, Closing, Peers, Elsewhere
    <3>2. \A r \in Proc \ {p} : Closing(r)' = Closing(r)
      BY <2>b, ThisPair DEF Closing, Peers, Elsewhere
    <3> QED BY <1>3, <3>1, <3>2, CountAdd DEF VC_SendClose
  <2> QED BY <2>1, <2>2, <2>3
<1>4. ASSUME NEW p \in Proc, NEW q \in Peers(p), RecvOpen(p, q) PROVE IInv'
  <2> DEFINE x == IF vcState[p][q] = "INACTIVE" THEN "ACTIVE" ELSE vcState[p][q]
  <2>a. /\ p \in Proc /\ q \in Proc /\ p # q /\ x \in VCStates
        /\ wire[q][p] \in Seq(Packets) /\ wire[q][p] # <<>>
    BY <1>4, ThisPair DEF RecvOpen, VCStates, PairTypes
  <2>d. vcState' = Set(vcState, p, q, x)
    BY <1>4, ThisPair DEF RecvOpen, TypeOK, Set
  <2>e. x \in {"LOCAL_CLOSE", "CLOSE_ACKED"} <=> vcState[p][q] \in {"LOCAL_CLOSE", "CLOSE_ACKED"}
    OBVIOUS
  <2> HIDE DEF x
  <2>b. /\ vcState' \in [Proc -> [Proc -> VCStates]] /\ Elsewhere(vcState', vcState, p, q)
        /\ vcState'[p][q] = x /\ vcState'[q][p] = vcState[q][p]
    BY <2>d, <2>a, SetState
  <2>c. /\ wire' \in [Proc -> [Proc -> Seq(Packets)]] /\ Elsewhere(wire', wire, p, q)
        /\ wire'[q][p] = Tail(wire[q][p]) /\ wire'[p][q] = wire[p][q]
    <3>1. wire' = Set(wire, q, p, Tail(wire[q][p])) /\ Tail(wire[q][p]) \in Seq(Packets)
      BY <1>4, <2>a, ConsumeFacts DEF Consume, RecvOpen
    <3> QED BY <2>a, <3>1, SetWire
  <2>1. TypeOK'
    BY <1>4, <2>b, <2>c DEF RecvOpen, TypeOK
  <2>2. VCInv'
    <3>1. BothInv(x, vcState[q][p], wire[p][q], Tail(wire[q][p]),
                  terminating[p][q], terminating[q][p])
      BY <1>4, ThisPair, RecvOpenStep DEF RecvOpen, x
    <3> QED BY <1>4, <2>b, <2>c, <3>1, ElsewhereFacts, OnePair DEF RecvOpen
  <2>3. OutstandingExact'
    <3>1. \A r \in Proc : Closing(r)' = Closing(r)
      BY <2>b, <2>e, ThisPair DEF Closing, Peers, Elsewhere
    <3> QED BY <1>4, <3>1, CountSame DEF RecvOpen
  <2> QED BY <2>1, <2>2, <2>3
<1>5. ASSUME NEW p \in Proc, NEW q \in Peers(p), RecvData(p, q) PROVE IInv'
  <2>a. /\ p \in Proc /\ q \in Proc /\ p # q
        /\ wire[q][p] \in Seq(Packets) /\ wire[q][p] # <<>>
    BY <1>5, ThisPair DEF RecvData, PairTypes
  <2>c. /\ wire' \in [Proc -> [Proc -> Seq(Packets)]] /\ Elsewhere(wire', wire, p, q)
        /\ wire'[q][p] = Tail(wire[q][p]) /\ wire'[p][q] = wire[p][q]
    <3>1. wire' = Set(wire, q, p, Tail(wire[q][p])) /\ Tail(wire[q][p]) \in Seq(Packets)
      BY <1>5, <2>a, ConsumeFacts DEF Consume, RecvData
    <3> QED BY <2>a, <3>1, SetWire
  <2>1. TypeOK'
    BY <1>5, <2>c DEF RecvData, TypeOK
  <2>2. VCInv'
    <3>1. BothInv(vcState[p][q], vcState[q][p], wire[p][q], Tail(wire[q][p]),
                  terminating[p][q], terminating[q][p])
      BY <1>5, ThisPair, RecvDataStep DEF RecvData
    <3> QED BY <1>5, <2>c, <3>1, ElsewhereFacts, OnePair DEF RecvData
  <2>3. OutstandingExact'
    <3>1. \A r \in Proc : Closing(r)' = Closing(r)
      BY <1>5 DEF RecvData, Closing
    <3> QED BY <1>5, <3>1, CountSame DEF RecvData
  <2> QED BY <2>1, <2>2, <2>3
<1>6. ASSUME NEW p \in Proc, NEW q \in Peers(p), PktHandler_Close(p, q) PROVE IInv'
  <2> DEFINE a == Head(wire[q][p]).ack
             s == vcState[p][q]
             x == IF ~a /\ s = "ACTIVE" THEN "REMOTE_CLOSE" ELSE "CLOSE_ACKED"
             w == IF s = "LOCAL_CLOSE" THEN Append(wire[p][q], Close(TRUE)) ELSE wire[p][q]
             t == IF a THEN TRUE ELSE terminating[p][q]
             v == Consume(wire, q, p)
  <2>0. /\ wire[q][p] # <<>> /\ Head(wire[q][p]) = Close(a) /\ a \in BOOLEAN
        /\ CloseExpected(s, a)
    BY <1>6, ThisPair, CloseAsserts DEF PktHandler_Close
  <2>a. /\ p \in Proc /\ q \in Proc /\ p # q
        /\ w \in Seq(Packets) /\ Tail(wire[q][p]) \in Seq(Packets)
        /\ x \in VCStates /\ t \in BOOLEAN
    BY <2>0, ThisPair, SendFacts, ConsumeFacts, PacketsDiffer DEF PairTypes, VCStates
  <2>d. /\ vcState' = Set(vcState, p, q, x)
        /\ outstanding' = outstanding /\ opens' = opens
        /\ wire' = IF s = "LOCAL_CLOSE" THEN Send(v, p, q, Close(TRUE)) ELSE v
    BY <1>6 DEF PktHandler_Close, Answers, CloseState
  <2>e. terminating' = Set(terminating, p, q, t)
    BY <1>6, <2>0, ThisPair DEF PktHandler_Close, Terminates, TypeOK, Set
  <2>f. /\ v \in [Proc -> [Proc -> Seq(Packets)]] /\ Elsewhere(v, wire, p, q)
        /\ v[q][p] = Tail(wire[q][p]) /\ v[p][q] = wire[p][q]
    BY <2>a DEF Consume, TypeOK, Set, Elsewhere
  <2>g. s \in {"LOCAL_CLOSE", "CLOSE_ACKED"} <=> x \in {"LOCAL_CLOSE", "CLOSE_ACKED"}
    BY <2>0 DEF CloseExpected
  <2> HIDE DEF x, t, v
  <2>b. /\ vcState' \in [Proc -> [Proc -> VCStates]] /\ Elsewhere(vcState', vcState, p, q)
        /\ vcState'[p][q] = x /\ vcState'[q][p] = vcState[q][p]
    BY <2>d, <2>a, SetState
  <2>c. /\ wire' \in [Proc -> [Proc -> Seq(Packets)]] /\ Elsewhere(wire', wire, p, q)
        /\ wire'[q][p] = Tail(wire[q][p]) /\ wire'[p][q] = w
    <3>1. CASE s = "LOCAL_CLOSE"
      <4>1. wire' = Set(v, p, q, w) BY <2>d, <2>f, <3>1 DEF Send
      <4> HIDE DEF w
      <4>2. /\ wire' \in [Proc -> [Proc -> Seq(Packets)]] /\ Elsewhere(wire', v, p, q)
            /\ wire'[q][p] = v[q][p] /\ wire'[p][q] = w
        BY <4>1, <2>a, <2>f DEF Set, Elsewhere
      <4>3. Elsewhere(wire', wire, p, q) BY <4>2, <2>f DEF Elsewhere
      <4> QED BY <4>2, <4>3, <2>f
    <3>2. CASE s # "LOCAL_CLOSE"
      BY <2>d, <2>f, <3>2
    <3> QED BY <3>1, <3>2
  <2>h. /\ terminating' \in [Proc -> [Proc -> BOOLEAN]]
        /\ Elsewhere(terminating', terminating, p, q)
        /\ terminating'[p][q] = t /\ terminating'[q][p] = terminating[q][p]
    BY <2>a, <2>e, SetTerm
  <2>1. TypeOK'
    BY <2>b, <2>c, <2>d, <2>h DEF TypeOK
  <2>2. VCInv'
    <3>1. BothInv(x, vcState[q][p], w, Tail(wire[q][p]), t, terminating[q][p])
      <4>1. CASE a = FALSE
        <5>1. s \in {"ACTIVE", "LOCAL_CLOSE"} BY <2>0, <4>1 DEF CloseExpected
        <5> QED BY <2>0, <4>1, <5>1, ThisPair, RecvFalseStep DEF x, t
      <4>2. CASE a = TRUE
        <5>1. s \in {"LOCAL_CLOSE", "CLOSE_ACKED"} BY <2>0, <4>2 DEF CloseExpected
        <5> QED BY <2>0, <4>2, <5>1, ThisPair, RecvTrueStep DEF x, t
      <4> QED BY <2>0, <4>1, <4>2
    <3> HIDE DEF w
    <3> QED BY <2>b, <2>c, <2>h, <3>1, OnePair
  <2>3. OutstandingExact'
    <3>1. \A r \in Proc : Closing(r)' = Closing(r)
      BY <2>b, <2>g, ThisPair DEF Closing, Peers, Elsewhere
    <3> QED BY <2>d, <3>1, CountSame
  <2> QED BY <2>1, <2>2, <2>3
<1>7. ASSUME NEW p \in Proc, NEW q \in Peers(p), Handle_connection(p, q) PROVE IInv'
  <2>a. p \in Proc /\ q \in Proc /\ p # q /\ "INACTIVE" \in VCStates /\ FALSE \in BOOLEAN
    BY ThisPair DEF VCStates
  <2>b. /\ vcState' \in [Proc -> [Proc -> VCStates]] /\ Elsewhere(vcState', vcState, p, q)
        /\ vcState'[p][q] = "INACTIVE" /\ vcState'[q][p] = vcState[q][p]
    BY <1>7, <2>a, SetState DEF Handle_connection
  <2>c. /\ terminating' \in [Proc -> [Proc -> BOOLEAN]]
        /\ Elsewhere(terminating', terminating, p, q)
        /\ terminating'[p][q] = FALSE /\ terminating'[q][p] = terminating[q][p]
    BY <1>7, <2>a, SetTerm DEF Handle_connection
  <2>1. outstanding' \in [Proc -> Nat] /\ OutstandingExact'
    <3>1. q \in Closing(p) /\ Closing(p)' = Closing(p) \ {q}
      BY <1>7, <2>b, ThisPair DEF Handle_connection, Closing, Peers, Elsewhere
    <3>2. \A r \in Proc \ {p} : Closing(r)' = Closing(r)
      BY <2>b, ThisPair DEF Closing, Peers, Elsewhere
    <3> QED BY <1>7, <3>1, <3>2, CountRemove DEF Handle_connection
  <2>2. TypeOK'
    BY <1>7, <2>1, <2>b, <2>c DEF Handle_connection, TypeOK
  <2>3. VCInv'
    <3>1. BothInv("INACTIVE", vcState[q][p], wire[p][q], wire[q][p], FALSE, terminating[q][p])
      BY <1>7, ThisPair, TerminatedStep DEF Handle_connection
    <3> QED BY <1>7, <2>b, <2>c, <3>1, ElsewhereFacts, OnePair DEF Handle_connection
  <2> QED BY <2>1, <2>2, <2>3
<1>8. CASE UNCHANGED vars
  <2>1. TypeOK' BY <1>8 DEF TypeOK, vars
  <2>2. VCInv' BY <1>8 DEF VCInv, vars
  <2>3. OutstandingExact'
    <3>1. \A r \in Proc : Closing(r)' = Closing(r) BY <1>8 DEF vars, Closing
    <3> QED BY <1>8, <3>1, CountSame DEF vars
  <2> QED BY <2>1, <2>2, <2>3
<1> QED BY <1>1, <1>2, <1>3, <1>4, <1>5, <1>6, <1>7, <1>8 DEF Next

-----------------------------------------------------------------------------
(***************************************************************************)
(* The inductive invariant, and with it the type invariant of the VC       *)
(* tables, holds in every reachable state, for any number of processes.    *)
(***************************************************************************)
THEOREM InvariantHolds == Spec => []IInv
<1>1. Init => IInv BY InitInv
<1>2. IInv /\ [Next]_vars => IInv' BY NextInv
<1> QED BY <1>1, <1>2, PTL DEF Spec

(***************************************************************************)
(* The VC states, the packets in flight, the termination flags and the     *)
(* close count keep their types: in particular MPIDI_Outstanding_close_ops *)
(* never drops below zero.                                                 *)
(***************************************************************************)
THEOREM TypeCorrect == Spec => []TypeOK
<1>1. IInv => TypeOK BY DEF IInv
<1> QED BY <1>1, InvariantHolds, PTL

(***************************************************************************)
(* The inductive invariant says what the assertions of the close handler   *)
(* need, and that nothing of the peer is in flight at a termination.       *)
(***************************************************************************)
LEMMA InvariantAsserts == IInv => AssertionsHold /\ TerminateLosesNothing
<1>1. IInv => AssertionsHold
  <2> SUFFICES ASSUME IInv, NEW p \in Proc, NEW q \in Peers(p)
               PROVE  /\ wire[q][p] # <<>> /\ Head(wire[q][p]).type = "close"
                           => CloseExpected(vcState[p][q], Head(wire[q][p]).ack)
                      /\ terminating[p][q] => vcState[p][q] = "CLOSE_ACKED"
    BY DEF AssertionsHold
  <2>1. terminating[p][q] => vcState[p][q] = "CLOSE_ACKED"
    BY ThisPair DEF IInv, BothInv, PairInv, EndInv
  <2> QED BY <2>1, ThisPair, CloseAsserts DEF IInv
<1>2. IInv => TerminateLosesNothing
  BY ThisPair DEF IInv, TerminateLosesNothing, BothInv, PairInv, EndInv
<1> QED BY <1>1, <1>2

(***************************************************************************)
(* The assertions of MPIDI_CH3_PktHandler_Close and the state test of      *)
(* MPIDI_CH3U_Handle_connection never fail, for any number of processes.   *)
(***************************************************************************)
THEOREM AssertionsNeverFail == Spec => []AssertionsHold
<1> QED BY InvariantAsserts, InvariantHolds, PTL

(***************************************************************************)
(* A connection is terminated only when nothing of the peer is in flight.  *)
(***************************************************************************)
THEOREM NothingLost == Spec => []TerminateLosesNothing
<1> QED BY InvariantAsserts, InvariantHolds, PTL

(***************************************************************************)
(* MPIDI_Outstanding_close_ops is exact, for any number of processes.      *)
(***************************************************************************)
THEOREM CountExact == Spec => []OutstandingExact
<1>1. IInv => OutstandingExact BY DEF IInv
<1> QED BY <1>1, InvariantHolds, PTL
=============================================================================
