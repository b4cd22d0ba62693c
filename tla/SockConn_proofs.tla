---------------------------- MODULE SockConn_proofs ----------------------------
(***************************************************************************)
(* Proofs about SockConn: the types, the assertions of the code, and that  *)
(* two processes that connect to each other at once end with one and the   *)
(* same connection, for any number of attempts and messages.               *)
(*                                                                         *)
(* The invariant follows every attempt to connect through its stages, each *)
(* of which tells the state of both ends and what is on the wire between   *)
(* them, and relates the stages to the connections the two VCs hold: a VC  *)
(* of the lower rank may give up its own attempt for one of the peer, a VC *)
(* of the higher rank never does, so an attempt that was granted is held   *)
(* by both.                                                                *)
(***************************************************************************)
EXTENDS SockConn, TLAPS

-----------------------------------------------------------------------------
(***************************************************************************)
(* Types.                                                                  *)
(***************************************************************************)
Rec(B) == [state : ConnStates, vc : B, active : B, reading : B, writing : B, ack : B]
End == Rec(BOOLEAN)
VC == [state : {"UNCONNECTED", "CONNECTING", "CONNECTED"}, conn : Id \cup {Null}]

TypeInv ==
  /\ vc \in [Proc -> VC]
  /\ sendq \in [Proc -> Seq(Msg)]
  /\ conn \in [Proc -> [Id -> End]]
  /\ wire \in [Proc -> [Id -> Seq(Packet)]]
  /\ closing \subseteq Proc

(***************************************************************************)
(* An attempt i: its ends, at the process that connected and at its peer,  *)
(* and what is on the wire from each of them.                              *)
(***************************************************************************)
X(i) == conn[i[1]][i]
Y(i) == conn[Peer(i[1])][i]
WX(i) == wire[i[1]][i]
WY(i) == wire[Peer(i[1])][i]

Handshake == {"CONNECTING", "OPEN_CSEND", "OPEN_CRECV"}
Waiting == {"OPEN_CSEND", "OPEN_CRECV"}
AllData(s) == \A k \in 1..Len(s) : s[k].type = "data"
Quiet(i) == WX(i) = <<>> /\ WY(i) = <<>>
Agreed(c) == c.vc /\ (c.state = "CONNECTED" \/ (c.state = "OPEN_LSEND" /\ c.ack))
Gone(c) == ~c.vc /\ (c.state \in {"CLOSING", "CLOSED"} \/ (c.state = "OPEN_LSEND" /\ ~c.ack))

(***************************************************************************)
(* The stages of an attempt while no VC closes.                            *)
(***************************************************************************)
Fresh(i) == X(i).state = "unused" /\ Y(i).state = "unused" /\ Quiet(i)

Asking(i) == /\ X(i).state = "CONNECTING" /\ X(i).vc
             /\ Y(i).state \in {"unused", "OPEN_LRECV_PKT"} /\ Quiet(i)

Asked(i) == /\ X(i).state \in Waiting /\ X(i).vc
            /\ Y(i).state \in {"unused", "OPEN_LRECV_PKT", "OPEN_LRECV_DATA"}
            /\ WX(i) = <<Control("open_req")>> /\ WY(i) = <<>>

Granted(i) == /\ X(i).state \in Waiting /\ X(i).vc /\ Agreed(Y(i))
              /\ WX(i) = <<>>
              /\ WY(i) # <<>> /\ Head(WY(i)).type = "ack" /\ AllData(Tail(WY(i)))

Refused(i) == /\ X(i).state \in Waiting /\ X(i).vc /\ Gone(Y(i))
              /\ WX(i) = <<>> /\ WY(i) = <<Control("nak")>>

Joined(i) == /\ X(i).state = "CONNECTED" /\ X(i).vc /\ Agreed(Y(i))
             /\ AllData(WX(i)) /\ AllData(WY(i))

Dropped(i) == X(i).state # "OPEN_LSEND" /\ Gone(X(i)) /\ Gone(Y(i)) /\ Quiet(i)

InStage(i) == \/ Fresh(i) \/ Asking(i) \/ Asked(i) \/ Granted(i)
              \/ Refused(i) \/ Joined(i) \/ Dropped(i)
Trying(i) == X(i).state \in Handshake
Linked(i) == Granted(i) \/ Joined(i)

(***************************************************************************)
(* What the VC of p holds.                                                 *)
(***************************************************************************)
HeldStates(p) == IF vc[p].state = "CONNECTED" THEN {"CONNECTED"} ELSE Handshake \cup {"OPEN_LSEND"}
Holds(p) == vc[p].conn # Null => /\ conn[p][vc[p].conn].vc
                                 /\ conn[p][vc[p].conn].state \in HeldStates(p)

VCInv(p) ==
  /\ vc[p].state = "UNCONNECTED" =>
       /\ vc[p].conn = Null
       /\ \A j \in Id : j[1] = p => conn[p][j].state \in {"unused", "CLOSED"}
  /\ vc[p].state = "CONNECTED" => vc[p].conn # Null
  /\ Holds(p)

(***************************************************************************)
(* Whoever tries is held by its VC, or its VC has taken the attempt of a   *)
(* higher rank instead; an attempt that was granted is held by both VCs.   *)
(***************************************************************************)
Yielded(p) == p < Peer(p) /\ vc[p].conn # Null /\ vc[p].conn[1] = Peer(p)

AttemptInv(i) ==
  /\ Trying(i) => vc[i[1]].conn = i \/ Yielded(i[1])
  /\ Linked(i) => vc[i[1]].conn = i /\ vc[Peer(i[1])].conn = i

Open == /\ \A i \in Id : InStage(i) /\ AttemptInv(i)
        /\ \A p \in Proc : VCInv(p)

(***************************************************************************)
(* While the VCs close, one connection is terminated and no other attempt  *)
(* is under way.                                                           *)
(***************************************************************************)
EndingAt(p, i) ==
  /\ p \in closing => /\ conn[p][i].state \in {"CONNECTED", "CLOSING"} /\ conn[p][i].vc
                      /\ vc[p].state = "CONNECTED" /\ vc[p].conn = i
  /\ p \notin closing => /\ conn[p][i].state = "CLOSED" /\ ~conn[p][i].vc
                         /\ vc[p].state = "UNCONNECTED" /\ vc[p].conn = Null

Over(i) == X(i).state = "CLOSED" /\ Y(i).state = "CLOSED" /\ ~X(i).vc /\ ~Y(i).vc /\ Quiet(i)

Ending(i) == /\ Quiet(i)
             /\ \A p \in Proc : EndingAt(p, i) /\ sendq[p] = <<>>
             /\ \A j \in Id \ {i} : Fresh(j) \/ Over(j)

ActiveInv(p) == \A i \in Id : conn[p][i].active => conn[p][i].state = "CONNECTED" /\ sendq[p] # <<>>

ConnInv == /\ TypeInv
           /\ closing = {} => Open
           /\ closing # {} => \E i \in Id : Ending(i)
           /\ \A p \in Proc : ActiveInv(p)

-----------------------------------------------------------------------------
(***************************************************************************)
(* The two processes, and the two ends of an attempt.                      *)
(***************************************************************************)
LEMMA TwoProcs ==
  /\ \A p \in Proc : Peer(p) \in Proc /\ Peer(p) # p /\ Peer(Peer(p)) = p /\ p \in Nat
  /\ \A p, q \in Proc : q = p \/ q = Peer(p)
<1>1. PICK a \in Proc, b \in Proc : a # b /\ Proc = {a, b}
  BY SockConnAssumption
<1>2. \A p \in Proc : \E q \in Proc : q # p
  BY <1>1
<1>3. \A p \in Proc : Peer(p) \in Proc /\ Peer(p) # p
  BY <1>2 DEF Peer
<1>4. QED
  BY <1>1, <1>3, SockConnAssumption

LEMMA TwoEnds ==
  ASSUME NEW i \in Id
  PROVE  /\ i[1] \in Proc /\ Peer(i[1]) \in Proc /\ i # Null
         /\ \A p \in Proc : p = i[1] \/ (p = Peer(i[1]) /\ Peer(p) = i[1] /\ p # i[1])
<1>1. i[1] \in Proc /\ i \in Proc \X Nat
  BY SockConnAssumption DEF Id
<1>2. QED
  BY <1>1, TwoProcs, SockConnAssumption

LEMMA FarEnds ==
  ASSUME NEW i \in Id
  PROVE  Y(i)' = conn'[Peer(i[1])][i] /\ WY(i)' = wire'[Peer(i[1])][i]
BY DEF Y, WY, Peer

(***************************************************************************)
(* The records of the ends, the wires.                                     *)
(***************************************************************************)
LEMMA EndFields ==
  ASSUME NEW B, NEW c \in Rec(B), NEW s \in ConnStates,
         NEW v \in B, NEW a \in B, NEW r \in B, NEW w \in B, NEW k \in B
  PROVE  /\ [c EXCEPT !.state = s] \in Rec(B)
         /\ [c EXCEPT !.state = s, !.vc = v] \in Rec(B)
         /\ [c EXCEPT !.state = s, !.reading = r] \in Rec(B)
         /\ [c EXCEPT !.state = s, !.writing = w] \in Rec(B)
         /\ [c EXCEPT !.active = a, !.writing = w] \in Rec(B)
         /\ [c EXCEPT !.state = s, !.writing = w, !.reading = r] \in Rec(B)
         /\ [c EXCEPT !.state = s, !.vc = v, !.reading = r] \in Rec(B)
         /\ [c EXCEPT !.state = s, !.reading = r, !.active = a, !.writing = w] \in Rec(B)
         /\ [c EXCEPT !.state = s, !.vc = v, !.ack = k, !.reading = r, !.writing = w] \in Rec(B)
BY DEF Rec

LEMMA EndTypes ==
  ASSUME NEW c \in End, NEW s \in ConnStates, NEW b \in BOOLEAN
  PROVE  /\ [c EXCEPT !.state = s] \in End
         /\ [c EXCEPT !.state = s, !.vc = TRUE] \in End
         /\ [c EXCEPT !.state = s, !.reading = TRUE] \in End
         /\ [c EXCEPT !.state = s, !.reading = FALSE] \in End
         /\ [c EXCEPT !.state = s, !.writing = TRUE] \in End
         /\ [c EXCEPT !.state = s, !.writing = FALSE] \in End
         /\ [c EXCEPT !.active = b, !.writing = b] \in End
         /\ [c EXCEPT !.state = s, !.writing = FALSE, !.reading = TRUE] \in End
         /\ [c EXCEPT !.state = s, !.vc = FALSE, !.reading = FALSE] \in End
         /\ [c EXCEPT !.state = s, !.reading = TRUE, !.active = b, !.writing = b] \in End
         /\ [c EXCEPT !.state = s, !.vc = b, !.ack = b, !.reading = FALSE, !.writing = TRUE] \in End
<1>1. TRUE \in BOOLEAN /\ FALSE \in BOOLEAN
  OBVIOUS
<1>2. QED
  BY <1>1, EndFields, Zenon DEF End

LEMMA UnusedType == Unused \in End /\ Unused.state = "unused" /\ ~Unused.vc /\ ~Unused.active
<1>1. Unused \in End
  BY DEF Unused, End, Rec, ConnStates
<1>2. QED
  BY <1>1 DEF Unused

LEMMA PacketTypes ==
  /\ \A m \in Msg : Data(m) \in Packet /\ Data(m).type = "data"
  /\ \A t \in {"open_req", "ack", "nak"} : Control(t) \in Packet /\ Control(t).type = t
BY DEF Packet, Data, Control

LEMMA DataSeq ==
  ASSUME NEW s \in Seq(Packet)
  PROVE  /\ \A m \in Msg : AllData(s) => AllData(Append(s, Data(m)))
         /\ s # <<>> /\ AllData(s) => AllData(Tail(s))
         /\ s # <<>> => \A m \in Msg : /\ Head(Append(s, Data(m))) = Head(s)
                                       /\ Tail(Append(s, Data(m))) = Append(Tail(s), Data(m))
         /\ s # <<>> => Tail(s) \in Seq(Packet) /\ Head(s) \in Packet
         /\ s # <<>> /\ AllData(s) => Head(s).type = "data"
<1>1. \A m \in Msg : AllData(s) => AllData(Append(s, Data(m)))
  BY PacketTypes DEF AllData
<1>2. s # <<>> /\ AllData(s) => AllData(Tail(s)) /\ Head(s).type = "data"
  BY DEF AllData
<1>3. s # <<>> => \A m \in Msg : /\ Head(Append(s, Data(m))) = Head(s)
                                 /\ Tail(Append(s, Data(m))) = Append(Tail(s), Data(m))
  BY PacketTypes
<1>4. QED
  BY <1>1, <1>2, <1>3

-----------------------------------------------------------------------------
(***************************************************************************)
(* What a step changes: one end, one direction of one wire, one VC.        *)
(***************************************************************************)
EndsElse(p, i) == \A q \in Proc, j \in Id : q # p \/ j # i => conn'[q][j] = conn[q][j]
WireElse(p, i) == \A q \in Proc, j \in Id : q # p \/ j # i => wire'[q][j] = wire[q][j]
VCElse(p) == \A q \in Proc : q # p => vc'[q] = vc[q]
Same(i) == X(i)' = X(i) /\ Y(i)' = Y(i) /\ WX(i)' = WX(i) /\ WY(i)' = WY(i)

LEMMA PutEnd ==
  ASSUME TypeInv, NEW p \in Proc, NEW i \in Id, NEW e \in End,
         conn' = [conn EXCEPT ![p][i] = e]
  PROVE  conn' \in [Proc -> [Id -> End]] /\ conn'[p][i] = e /\ EndsElse(p, i)
BY DEF TypeInv, EndsElse

LEMMA Wrote ==
  ASSUME TypeInv, NEW p \in Proc, NEW i \in Id, NEW k \in Packet, Write(p, i, k)
  PROVE  /\ wire' \in [Proc -> [Id -> Seq(Packet)]]
         /\ wire'[p][i] = Append(wire[p][i], k) /\ WireElse(p, i)
BY DEF TypeInv, WireElse, Write

LEMMA WasRead ==
  ASSUME TypeInv, NEW p \in Proc, NEW i \in Id, Read(p, i), wire[Peer(p)][i] # <<>>
  PROVE  /\ wire' \in [Proc -> [Id -> Seq(Packet)]]
         /\ wire'[Peer(p)][i] = Tail(wire[Peer(p)][i]) /\ WireElse(Peer(p), i)
<1>1. wire[Peer(p)][i] \in Seq(Packet) /\ Peer(p) \in Proc
  BY TwoProcs DEF TypeInv
<1>2. Tail(wire[Peer(p)][i]) \in Seq(Packet)
  BY <1>1
<1>3. QED
  BY <1>1, <1>2 DEF TypeInv, WireElse, Read

LEMMA PutVC ==
  ASSUME TypeInv, NEW p \in Proc, NEW v \in VC, vc' = [vc EXCEPT ![p] = v]
  PROVE  vc' \in [Proc -> VC] /\ vc'[p] = v /\ VCElse(p)
BY DEF TypeInv, VCElse

LEMMA ConnectedVC ==
  ASSUME TypeInv, NEW p \in Proc, vc' = [vc EXCEPT ![p].state = "CONNECTED"]
  PROVE  /\ vc' \in [Proc -> VC] /\ VCElse(p)
         /\ vc'[p].state = "CONNECTED" /\ vc'[p].conn = vc[p].conn
BY DEF TypeInv, VCElse, VC

LEMMA Untouched ==
  ASSUME NEW p \in Proc, NEW i \in Id, EndsElse(p, i) \/ conn' = conn,
         WireElse(p, i) \/ WireElse(Peer(p), i) \/ wire' = wire
  PROVE  \A j \in Id : j # i => Same(j)
BY TwoEnds DEF EndsElse, WireElse, Same, X, Y, WX, WY

(***************************************************************************)
(* The stage of an attempt depends on its ends and wires only, and the     *)
(* state of an end tells which of the two ends it is.                      *)
(***************************************************************************)
LEMMA Frame ==
  ASSUME NEW i \in Id, Same(i)
  PROVE  /\ InStage(i) => InStage(i)'
         /\ Trying(i)' <=> Trying(i)
         /\ Linked(i)' <=> Linked(i)
         /\ Fresh(i) => Fresh(i)'
         /\ Over(i) => Over(i)'
BY DEF Same, InStage, Trying, Linked, Fresh, Asking, Asked, Granted, Refused, Joined,
       Dropped, Agreed, Gone, Quiet, AllData, Over

LEMMA Sides ==
  ASSUME NEW i \in Id, InStage(i), NEW p \in Proc
  PROVE  /\ conn[p][i].state \in Handshake => p = i[1] /\ Trying(i)
         /\ conn[p][i].state \in {"OPEN_LRECV_PKT", "OPEN_LRECV_DATA", "OPEN_LSEND"} => p = Peer(i[1])
         /\ conn[p][i].state = "CONNECTED" => Linked(i) /\ conn[p][i].vc
         /\ conn[p][i].state = "OPEN_LSEND" /\ conn[p][i].vc => Linked(i)
         /\ conn[p][i].state = "CLOSING" => ~conn[p][i].vc
<1>1. p = i[1] \/ p = Peer(i[1])
  BY TwoEnds
<1>2. CASE p = i[1]
  BY <1>2 DEF InStage, Trying, Linked, Fresh, Asking, Asked, Granted, Refused, Joined,
       Dropped, Agreed, Gone, X, Handshake, Waiting
<1>3. CASE p = Peer(i[1])
  BY <1>3 DEF InStage, Trying, Linked, Fresh, Asking, Asked, Granted, Refused, Joined,
       Dropped, Agreed, Gone, X, Y, Handshake, Waiting
<1>4. QED
  BY <1>1, <1>2, <1>3

LEMMA Types ==
  ASSUME TypeInv, NEW p \in Proc
  PROVE  /\ vc[p] \in VC /\ sendq[p] \in Seq(Msg)
         /\ \A i \in Id : conn[p][i] \in End /\ wire[p][i] \in Seq(Packet)
BY DEF TypeInv

(***************************************************************************)
(* An end that is being set up: no VC closes.                              *)
(***************************************************************************)
LEMMA Busy ==
  ASSUME ConnInv, NEW p \in Proc, NEW i \in Id,
         conn[p][i].state \notin {"unused", "CONNECTED", "CLOSING", "CLOSED"}
  PROVE  closing = {} /\ Open /\ InStage(i) /\ AttemptInv(i) /\ VCInv(p) /\ ~conn[p][i].active
<1>1. p = i[1] \/ p = Peer(i[1])
  BY TwoEnds
<1>2. ~conn[p][i].active
  BY DEF ConnInv, ActiveInv
<1>3. closing = {}
  <2> SUFFICES ASSUME closing # {} PROVE FALSE
    OBVIOUS
  <2>1. PICK j \in Id : Ending(j)
    BY DEF ConnInv
  <2>2. CASE i = j
    BY <2>1, <2>2 DEF Ending, EndingAt
  <2>3. CASE i # j
    BY <1>1, <2>1, <2>3 DEF Ending, Fresh, Over, X, Y
  <2>4. QED
    BY <2>2, <2>3
<1>4. QED
  BY <1>2, <1>3 DEF ConnInv, Open

LEMMA Assemble ==
  ASSUME ConnInv, TypeInv', closing = {}, closing' = closing, Open', \A q \in Proc : ActiveInv(q)'
  PROVE  ConnInv'
BY DEF ConnInv

LEMMA ActiveKept ==
  ASSUME ConnInv, NEW p \in Proc, NEW i \in Id, EndsElse(p, i), sendq' = sendq,
         conn'[p][i].active => conn'[p][i].state = "CONNECTED" /\ sendq[p] # <<>>
  PROVE  \A q \in Proc : ActiveInv(q)'
BY DEF ConnInv, ActiveInv, EndsElse

(***************************************************************************)
(* A step that leaves the VCs alone and the end in its class.              *)
(***************************************************************************)
OneWire(p, i) == WireElse(p, i) \/ WireElse(Peer(p), i) \/ wire' = wire
Idle == {"unused", "CLOSED"}

LEMMA QuietStep ==
  ASSUME TypeInv, Open, NEW p \in Proc, NEW i \in Id, EndsElse(p, i), OneWire(p, i), vc' = vc,
         InStage(i)', Trying(i)' => Trying(i), Linked(i)' => Linked(i),
         vc[p].conn = i => conn'[p][i].vc /\ conn'[p][i].state \in HeldStates(p),
         i[1] = p /\ conn[p][i].state \in Idle => conn'[p][i].state \in Idle
  PROVE  Open'
<1>1. \A j \in Id : j # i => Same(j)
  BY Untouched DEF OneWire
<1>2. \A j \in Id : InStage(j)'
  BY <1>1, Frame DEF Open
<1>3. \A j \in Id : AttemptInv(j)'
  <2> SUFFICES ASSUME NEW j \in Id PROVE AttemptInv(j)'
    OBVIOUS
  <2>1. (Trying(j)' => Trying(j)) /\ (Linked(j)' => Linked(j))
    BY <1>1, Frame
  <2>2. AttemptInv(j)
    BY DEF Open
  <2>3. QED
    BY <2>1, <2>2 DEF AttemptInv, Yielded
<1>4. \A q \in Proc : VCInv(q)'
  <2> SUFFICES ASSUME NEW q \in Proc PROVE VCInv(q)'
    OBVIOUS
  <2>1. VCInv(q) /\ vc[q].conn \in Id \cup {Null}
    BY Types DEF Open, VC
  <2>2. CASE q # p
    BY <2>1, <2>2 DEF VCInv, Holds, HeldStates, EndsElse
  <2>3. CASE q = p
    BY <2>1, <2>3 DEF VCInv, Holds, HeldStates, EndsElse, Idle
  <2>4. QED
    BY <2>2, <2>3
<1>5. QED
  BY <1>2, <1>3, <1>4 DEF Open

-----------------------------------------------------------------------------
(***************************************************************************)
(* The actions.                                                            *)
(***************************************************************************)
LEMMA HandleConnectStep ==
  ASSUME ConnInv, NEW p \in Proc, NEW i \in Id, HandleConnect(p, i)
  PROVE  ConnInv'
<1> DEFINE c == conn[p][i]
<1>1. c.state = "CONNECTING" /\ TypeInv /\ c \in End
  BY Types DEF HandleConnect, ConnInv
<1>2. closing = {} /\ Open /\ InStage(i) /\ AttemptInv(i) /\ VCInv(p) /\ ~c.active
  BY <1>1, Busy
<1>3. p = i[1] /\ Asking(i)
  BY <1>1, <1>2, Sides DEF InStage, Fresh, Asking, Asked, Granted, Refused, Joined, Dropped,
     Gone, X, Handshake, Waiting
<1>4. /\ conn' \in [Proc -> [Id -> End]] /\ EndsElse(p, i)
      /\ conn'[p][i] = [c EXCEPT !.state = "OPEN_CSEND", !.writing = TRUE]
  <2>1. [c EXCEPT !.state = "OPEN_CSEND", !.writing = TRUE] \in End
    BY <1>1, EndTypes, Zenon DEF ConnStates
  <2>2. QED
    BY <1>1, <2>1, PutEnd, Zenon DEF HandleConnect
<1>5. conn'[p][i].state = "OPEN_CSEND" /\ (conn'[p][i].vc <=> c.vc) /\ ~conn'[p][i].active
  BY <1>1, <1>2, <1>4 DEF End, Rec
<1>6. /\ wire' \in [Proc -> [Id -> Seq(Packet)]]
      /\ wire'[p][i] = Append(wire[p][i], Control("open_req")) /\ WireElse(p, i)
  BY <1>1, Wrote, PacketTypes DEF HandleConnect
<1>7. vc' = vc /\ sendq' = sendq /\ closing' = closing
  BY DEF HandleConnect
<1>8. Asked(i)'
  <2>1. Y(i)' = Y(i) /\ WY(i)' = WY(i)
    BY <1>3, <1>4, <1>6, TwoProcs, FarEnds DEF Y, WY, EndsElse, WireElse
  <2>2. WY(i)' = <<>> /\ wire[p][i] = <<>>
    BY <1>3, <2>1 DEF Asking, Quiet, WX
  <2>3. WX(i)' = <<Control("open_req")>>
    BY <1>3, <1>6, <2>2 DEF WX
  <2>4. QED
    BY <1>3, <1>5, <2>1, <2>2, <2>3 DEF Asked, Asking, X, Waiting
<1>9. Open'
  <2>1. InStage(i)' /\ Trying(i) /\ ~Linked(i)'
    BY <1>1, <1>2, <1>3, <1>8, Sides DEF InStage, Linked, Granted, Joined, Asked, Trying, Asking, Handshake, Waiting
  <2>2. vc[p].conn = i => conn'[p][i].vc /\ conn'[p][i].state \in HeldStates(p)
    BY <1>1, <1>2, <1>5, TwoEnds DEF VCInv, Holds, HeldStates, Handshake
  <2>3. QED
    BY <1>1, <1>2, <1>4, <1>6, <1>7, <2>1, <2>2, QuietStep DEF OneWire, Idle
<1>10. QED
  BY <1>1, <1>2, <1>4, <1>5, <1>6, <1>7, <1>9, ActiveKept, Assemble DEF TypeInv

LEMMA HandleAcceptStep ==
  ASSUME ConnInv, NEW p \in Proc, NEW i \in Id, HandleAccept(p, i)
  PROVE  ConnInv'
<1> DEFINE c == conn[p][i]
<1>1. /\ i[1] = Peer(p) /\ X(i).state # "unused" /\ c.state = "unused" /\ TypeInv /\ c \in End
      /\ p # i[1] /\ p = Peer(i[1])
  BY Types, TwoProcs DEF HandleAccept, ConnInv, X
<1>2. closing = {}
  <2> SUFFICES ASSUME closing # {} PROVE FALSE
    OBVIOUS
  <2>1. PICK j \in Id : Ending(j)
    BY DEF ConnInv
  <2>2. QED
    BY <1>1, <2>1 DEF Ending, EndingAt, Fresh, Over, Y
<1>3. Open /\ InStage(i) /\ AttemptInv(i) /\ VCInv(p) /\ ~c.active
  BY <1>1, <1>2 DEF ConnInv, Open, ActiveInv
<1>4. Asking(i) \/ Asked(i)
  BY <1>1, <1>3 DEF InStage, Fresh, Granted, Refused, Joined, Dropped, Agreed, Gone, Y
<1>5. /\ conn' \in [Proc -> [Id -> End]] /\ EndsElse(p, i)
      /\ conn'[p][i] = [c EXCEPT !.state = "OPEN_LRECV_PKT", !.reading = TRUE]
  <2>1. [c EXCEPT !.state = "OPEN_LRECV_PKT", !.reading = TRUE] \in End
    BY <1>1, EndTypes, Zenon DEF ConnStates
  <2>2. conn' = [conn EXCEPT ![p][i] = [c EXCEPT !.state = "OPEN_LRECV_PKT", !.reading = TRUE]]
    BY DEF HandleAccept
  <2>3. TypeInv
    BY DEF ConnInv
  <2>4. QED
    BY <2>1, <2>2, <2>3, PutEnd, Zenon
<1>6. conn'[p][i].state = "OPEN_LRECV_PKT" /\ (conn'[p][i].vc <=> c.vc) /\ ~conn'[p][i].active
  BY <1>1, <1>3, <1>5 DEF End, Rec
<1>7. vc' = vc /\ sendq' = sendq /\ wire' = wire /\ closing' = closing
  BY DEF HandleAccept
<1>8. /\ X(i)' = X(i) /\ Y(i)' = conn'[p][i] /\ WX(i)' = WX(i) /\ WY(i)' = WY(i)
  BY <1>1, <1>5, <1>7, TwoEnds, FarEnds DEF X, WX, WY, EndsElse
<1>9. Asking(i)' \/ Asked(i)'
  BY <1>4, <1>6, <1>8 DEF Asking, Asked, Quiet
<1>10. Open'
  <2>1. InStage(i)' /\ (Trying(i)' => Trying(i)) /\ ~Linked(i)'
    BY <1>6, <1>8, <1>9 DEF InStage, Linked, Granted, Joined, Agreed, Trying
  <2>2. vc[p].conn # i
    BY <1>1, <1>3, TwoEnds DEF VCInv, Holds, HeldStates, Handshake
  <2>3. QED
    BY <1>1, <1>3, <1>5, <1>7, <2>1, <2>2, QuietStep DEF OneWire
<1>11. QED
  BY <1>1, <1>2, <1>5, <1>6, <1>7, <1>10, ActiveKept, Assemble DEF TypeInv

LEMMA HandleOpenReqStep ==
  ASSUME ConnInv, NEW p \in Proc, NEW i \in Id, HandleOpenReq(p, i)
  PROVE  ConnInv'
<1> DEFINE c == conn[p][i]
<1>1. /\ c.state = "OPEN_LRECV_PKT" /\ TypeInv /\ c \in End
      /\ wire[Peer(p)][i] # <<>> /\ Head(wire[Peer(p)][i]).type = "open_req"
  BY Types DEF HandleOpenReq, ConnInv, Arrived
<1>2. closing = {} /\ Open /\ InStage(i) /\ AttemptInv(i) /\ VCInv(p) /\ ~c.active
  BY <1>1, Busy
<1>3. p = Peer(i[1]) /\ Peer(p) = i[1] /\ p # i[1] /\ Asked(i)
  <2>1. p = Peer(i[1]) /\ Peer(p) = i[1] /\ p # i[1]
    BY <1>1, <1>2, Sides, TwoEnds, TwoProcs
  <2>2. QED
    BY <1>1, <1>2, <2>1 DEF InStage, Fresh, Asking, Asked, Granted, Refused, Joined, Dropped,
       Agreed, Gone, Quiet, Y, WX
<1>4. /\ conn' \in [Proc -> [Id -> End]] /\ EndsElse(p, i)
      /\ conn'[p][i] = [c EXCEPT !.state = "OPEN_LRECV_DATA"]
  <2>1. [c EXCEPT !.state = "OPEN_LRECV_DATA"] \in End
    BY <1>1, EndTypes, Zenon DEF ConnStates
  <2>2. QED
    BY <1>1, <2>1, PutEnd, Zenon DEF HandleOpenReq
<1>5. conn'[p][i].state = "OPEN_LRECV_DATA" /\ ~conn'[p][i].active
  BY <1>1, <1>2, <1>4 DEF End, Rec
<1>6. vc' = vc /\ sendq' = sendq /\ wire' = wire /\ closing' = closing
  BY DEF HandleOpenReq
<1>7. /\ X(i)' = X(i) /\ Y(i)' = conn'[p][i] /\ WX(i)' = WX(i) /\ WY(i)' = WY(i)
  BY <1>3, <1>4, <1>6, TwoEnds, FarEnds DEF X, WX, WY, EndsElse
<1>8. Asked(i)'
  BY <1>3, <1>5, <1>7 DEF Asked
<1>9. Open'
  <2>1. InStage(i)' /\ (Trying(i)' => Trying(i)) /\ ~Linked(i)'
    BY <1>5, <1>7, <1>8 DEF InStage, Linked, Granted, Joined, Agreed, Trying
  <2>2. vc[p].conn # i
    BY <1>1, <1>2, TwoEnds DEF VCInv, Holds, HeldStates, Handshake
  <2>3. QED
    BY <1>1, <1>2, <1>3, <1>4, <1>6, <2>1, <2>2, QuietStep DEF OneWire
<1>10. QED
  BY <1>1, <1>2, <1>4, <1>5, <1>6, <1>9, ActiveKept, Assemble DEF TypeInv

LEMMA WroteOpenReqStep ==
  ASSUME ConnInv, NEW p \in Proc, NEW i \in Id, WroteOpenReq(p, i)
  PROVE  ConnInv'
<1> DEFINE c == conn[p][i]
<1>1. c.state = "OPEN_CSEND" /\ TypeInv /\ c \in End
  BY Types DEF WroteOpenReq, ConnInv
<1>2. closing = {} /\ Open /\ InStage(i) /\ AttemptInv(i) /\ VCInv(p) /\ ~c.active
  BY <1>1, Busy
<1>3. p = i[1] /\ Trying(i) /\ X(i) = c
  BY <1>1, <1>2, Sides DEF Handshake, X
<1>4. /\ conn' \in [Proc -> [Id -> End]] /\ EndsElse(p, i)
      /\ conn'[p][i] = [c EXCEPT !.state = "OPEN_CRECV", !.writing = FALSE, !.reading = TRUE]
  <2>1. [c EXCEPT !.state = "OPEN_CRECV", !.writing = FALSE, !.reading = TRUE] \in End
    BY <1>1, EndTypes, Zenon DEF ConnStates
  <2>2. QED
    BY <1>1, <2>1, PutEnd, Zenon DEF WroteOpenReq
<1>5. conn'[p][i].state = "OPEN_CRECV" /\ (conn'[p][i].vc <=> c.vc) /\ ~conn'[p][i].active
  BY <1>1, <1>2, <1>4 DEF End, Rec
<1>6. vc' = vc /\ sendq' = sendq /\ wire' = wire /\ closing' = closing
  BY DEF WroteOpenReq
<1>7. /\ X(i)' = conn'[p][i] /\ Y(i)' = Y(i) /\ WX(i)' = WX(i) /\ WY(i)' = WY(i)
  <2>1. Y(i)' = Y(i) /\ WY(i)' = WY(i)
    BY <1>3, <1>4, <1>6, TwoProcs, FarEnds DEF Y, WY, EndsElse
  <2>2. QED
    BY <1>3, <1>6, <2>1 DEF X, WX
<1>8. InStage(i)' /\ (Linked(i)' => Linked(i))
  BY <1>1, <1>2, <1>3, <1>5, <1>7 DEF InStage, Linked, Fresh, Asking, Asked, Granted, Refused, Joined,
     Dropped, Gone, Waiting
<1>9. Open'
  <2>1. vc[p].conn = i => conn'[p][i].vc /\ conn'[p][i].state \in HeldStates(p)
    BY <1>1, <1>2, <1>5, TwoEnds DEF VCInv, Holds, HeldStates, Handshake
  <2>2. QED
    BY <1>1, <1>2, <1>3, <1>4, <1>6, <1>8, <2>1, QuietStep DEF OneWire, Idle
<1>10. QED
  BY <1>1, <1>2, <1>4, <1>5, <1>6, <1>9, ActiveKept, Assemble DEF TypeInv

(***************************************************************************)
(* The open request is answered.                                           *)
(***************************************************************************)
LEMMA AnswerEffect ==
  ASSUME ConnInv, NEW p \in Proc, NEW i \in Id, HandleConnopen(p, i)
  PROVE  /\ closing = {} /\ TypeInv /\ Open /\ VCInv(p)
         /\ p = Peer(i[1]) /\ Peer(p) = i[1] /\ p # i[1] /\ Asked(i)
         /\ conn[p][i].state = "OPEN_LRECV_DATA" /\ vc[p].conn # i
         /\ conn' \in [Proc -> [Id -> End]] /\ wire' \in [Proc -> [Id -> Seq(Packet)]]
         /\ EndsElse(p, i) /\ \A j \in Id : j # i => Same(j)
         /\ X(i)' = X(i) /\ WX(i)' = <<>>
         /\ Y(i)' = conn'[p][i] /\ Y(i)'.state = "OPEN_LSEND" /\ ~conn'[p][i].active
         /\ Accepts(p) => Y(i)'.vc /\ Y(i)'.ack /\ WY(i)' = <<Control("ack")>>
         /\ ~Accepts(p) => ~Y(i)'.vc /\ ~Y(i)'.ack /\ WY(i)' = <<Control("nak")>>
<1> DEFINE c == conn[p][i]
           a == Accepts(p)
           t == IF a THEN "ack" ELSE "nak"
           e == [c EXCEPT !.state = "OPEN_LSEND", !.vc = a, !.ack = a,
                          !.reading = FALSE, !.writing = TRUE]
<1>0. TypeInv
  BY DEF ConnInv
<1>1. /\ c.state = "OPEN_LRECV_DATA" /\ c \in End
      /\ wire[Peer(p)][i] # <<>> /\ Head(wire[Peer(p)][i]).type = "open_req"
  BY <1>0, Types DEF HandleConnopen, Arrived
<1>2. closing = {} /\ Open /\ InStage(i) /\ AttemptInv(i) /\ VCInv(p) /\ ~c.active
  BY <1>1, Busy
<1>3. p = Peer(i[1]) /\ Peer(p) = i[1] /\ p # i[1]
  BY <1>1, <1>2, Sides, TwoEnds, TwoProcs
<1>4. Asked(i)
  BY <1>1, <1>2, <1>3 DEF InStage, Fresh, Asking, Granted, Refused, Joined, Dropped,
     Agreed, Gone, Y
<1>5. vc[p].conn # i
  BY <1>1, <1>2, TwoEnds DEF VCInv, Holds, HeldStates, Handshake
<1>6. a \in BOOLEAN
  BY DEF Accepts
<1>7. /\ conn' \in [Proc -> [Id -> End]] /\ EndsElse(p, i) /\ conn'[p][i] = e
  <2>1. e \in End
    BY <1>1, <1>6, EndTypes, Zenon DEF ConnStates
  <2>2. conn' = [conn EXCEPT ![p][i] = e]
    BY DEF HandleConnopen
  <2> HIDE DEF e
  <2>3. QED
    BY <1>0, <2>1, <2>2, PutEnd, Zenon
<1>8. /\ conn'[p][i].state = "OPEN_LSEND" /\ ~conn'[p][i].active
      /\ (conn'[p][i].vc <=> a) /\ (conn'[p][i].ack <=> a)
  BY <1>1, <1>2, <1>6, <1>7 DEF End, Rec
<1>9. /\ wire' \in [Proc -> [Id -> Seq(Packet)]]
      /\ wire'[Peer(p)][i] = <<>> /\ wire'[p][i] = <<Control(t)>>
      /\ \A j \in Id : j # i => \A q \in Proc : wire'[q][j] = wire[q][j]
  <2>1. /\ wire' = [wire EXCEPT ![Peer(p)][i] = Tail(@), ![p][i] = Append(@, Control(t))]
    BY DEF HandleConnopen
  <2>2. Control(t) \in Packet
    BY PacketTypes
  <2>3. wire[Peer(p)][i] = <<Control("open_req")>> /\ wire[p][i] = <<>>
    BY <1>3, <1>4 DEF Asked, WX, WY
  <2>4. Tail(<<Control("open_req")>>) = <<>>
    OBVIOUS
  <2> HIDE DEF t
  <2>5. wire' = [[wire EXCEPT ![Peer(p)][i] = <<>>] EXCEPT ![p][i] = <<Control(t)>>]
    BY <1>0, <1>3, <2>1, <2>3, <2>4, TwoProcs DEF TypeInv
  <2>6. <<>> \in Seq(Packet) /\ <<Control(t)>> \in Seq(Packet)
    BY <2>2
  <2> DEFINE w == [wire EXCEPT ![Peer(p)][i] = <<>>]
  <2>7. /\ w \in [Proc -> [Id -> Seq(Packet)]] /\ w[Peer(p)][i] = <<>>
        /\ \A j \in Id : j # i => \A q \in Proc : w[q][j] = wire[q][j]
    BY <1>0, <2>6, TwoProcs DEF TypeInv
  <2>8. wire' = [w EXCEPT ![p][i] = <<Control(t)>>]
    BY <2>5
  <2> HIDE DEF w
  <2>9. QED
    BY <1>3, <2>6, <2>7, <2>8, TwoProcs
<1>10. \A j \in Id : j # i => Same(j)
  BY <1>7, <1>9, TwoEnds, FarEnds DEF EndsElse, Same, X, Y, WX, WY
<1>11. /\ X(i)' = X(i) /\ WX(i)' = <<>> /\ Y(i)' = conn'[p][i] /\ WY(i)' = wire'[p][i]
  <2>1. X(i)' = X(i)
    BY <1>3, <1>7, TwoEnds DEF EndsElse, X
  <2>2. WX(i)' = <<>>
    BY <1>3, <1>9 DEF WX
  <2>3. QED
    BY <1>3, <2>1, <2>2, FarEnds
<1>12. QED
  BY <1>0, <1>1, <1>2, <1>3, <1>4, <1>5, <1>7, <1>8, <1>9, <1>10, <1>11

LEMMA AttemptPrimed ==
  ASSUME NEW i \in Id
  PROVE  /\ AttemptInv(i)' <=>
              /\ Trying(i)' => vc'[i[1]].conn = i \/ Yielded(i[1])'
              /\ Linked(i)' => vc'[i[1]].conn = i /\ vc'[Peer(i[1])].conn = i
         /\ Yielded(i[1])' <=> /\ i[1] < Peer(i[1]) /\ vc'[i[1]].conn # Null
                               /\ vc'[i[1]].conn[1] = Peer(i[1])
<1>1. Yielded(i[1])' <=> /\ i[1] < Peer(i[1]) /\ vc'[i[1]].conn # Null
                         /\ vc'[i[1]].conn[1] = Peer(i[1])
  BY DEF Yielded, Peer
<1> DEFINE P == Peer(i[1])
<1>2. P' = P
  BY DEF Peer
<1>3. AttemptInv(i)' <=>
              /\ Trying(i)' => vc'[i[1]].conn = i \/ Yielded(i[1])'
              /\ Linked(i)' => vc'[i[1]].conn = i /\ vc'[P].conn = i
  BY <1>2 DEF AttemptInv
<1>4. QED
  BY <1>1, <1>3

LEMMA VCElsewhere ==
  ASSUME TypeInv, Open, NEW p \in Proc, NEW i \in Id, EndsElse(p, i), VCElse(p)
  PROVE  \A q \in Proc : q # p => VCInv(q)'
<1> SUFFICES ASSUME NEW q \in Proc, q # p PROVE VCInv(q)'
  OBVIOUS
<1>1. VCInv(q) /\ vc[q].conn \in Id \cup {Null}
  BY Types DEF Open, VC
<1>2. vc'[q] = vc[q] /\ \A j \in Id : conn'[q][j] = conn[q][j]
  BY DEF EndsElse, VCElse
<1>3. QED
  BY <1>1, <1>2 DEF VCInv, Holds, HeldStates

(***************************************************************************)
(* What is decided: an attempt that is granted is the one the VC of its    *)
(* initiator holds, and no other is granted already.                       *)
(***************************************************************************)
LEMMA OneGrant ==
  ASSUME TypeInv, Open, NEW i \in Id, Asked(i),
         Accepts(Peer(i[1])), vc[Peer(i[1])].conn # i
  PROVE  /\ vc[i[1]].conn = i
         /\ \A j \in Id : ~Linked(j)
<1> DEFINE p == Peer(i[1])
           q == i[1]
<1>1. p \in Proc /\ q \in Proc /\ Peer(q) = p /\ Peer(p) = q /\ p # q /\ p \in Nat /\ q \in Nat
  BY TwoEnds, TwoProcs
<1>2. Trying(i) /\ AttemptInv(i)
  BY DEF Open, Asked, Trying, Handshake, Waiting
<1>3. vc[q].conn = i
  <2> SUFFICES ASSUME Yielded(q) PROVE FALSE
    BY <1>2 DEF AttemptInv
  <2> DEFINE j == vc[q].conn
  <2>1. j \in Id /\ j[1] = p /\ vc[p].conn = Null /\ j # Null
    BY <1>1, Types DEF Yielded, Accepts, VC
  <2>2. q = Peer(j[1]) /\ q # j[1]
    BY <1>1, <2>1
  <2>3. InStage(j) /\ AttemptInv(j) /\ VCInv(q)
    BY <1>1, <2>1 DEF Open
  <2>4. conn[q][j].vc /\ conn[q][j].state \in {"CONNECTED", "OPEN_LSEND"} \cup Handshake
    BY <2>1, <2>3 DEF VCInv, Holds, HeldStates
  <2>5. Linked(j)
    BY <1>1, <2>1, <2>2, <2>3, <2>4, Sides
  <2>6. QED
    BY <2>1, <2>3, <2>5 DEF AttemptInv
<1>4. \A j \in Id : ~Linked(j)
  <2> SUFFICES ASSUME NEW j \in Id, Linked(j) PROVE FALSE
    OBVIOUS
  <2>1. vc[j[1]].conn = j /\ vc[Peer(j[1])].conn = j
    BY DEF Open, AttemptInv
  <2>2. vc[p].conn = j /\ vc[q].conn = j
    BY <1>1, <2>1, TwoEnds
  <2>3. QED
    BY <1>3, <2>2
<1>5. QED
  BY <1>3, <1>4

LEMMA HandleConnopenStep ==
  ASSUME ConnInv, NEW p \in Proc, NEW i \in Id, HandleConnopen(p, i)
  PROVE  ConnInv'
<1>1. /\ closing = {} /\ TypeInv /\ Open /\ VCInv(p)
      /\ p = Peer(i[1]) /\ Peer(p) = i[1] /\ p # i[1] /\ Asked(i)
      /\ conn[p][i].state = "OPEN_LRECV_DATA" /\ vc[p].conn # i
      /\ conn' \in [Proc -> [Id -> End]] /\ wire' \in [Proc -> [Id -> Seq(Packet)]]
      /\ EndsElse(p, i) /\ \A j \in Id : j # i => Same(j)
      /\ ~conn'[p][i].active
  BY AnswerEffect
<1>2. /\ X(i)' = X(i) /\ WX(i)' = <<>>
      /\ Y(i)' = conn'[p][i] /\ Y(i)'.state = "OPEN_LSEND"
      /\ Accepts(p) => Y(i)'.vc /\ Y(i)'.ack /\ WY(i)' = <<Control("ack")>>
      /\ ~Accepts(p) => ~Y(i)'.vc /\ ~Y(i)'.ack /\ WY(i)' = <<Control("nak")>>
  BY AnswerEffect
<1>3. sendq' = sendq /\ closing' = closing
  BY DEF HandleConnopen
<1>4. \A q \in Proc : ActiveInv(q)'
  BY <1>1, <1>3, ActiveKept
<1>5. \A j \in Id : j # i => InStage(j)' /\ (Trying(j)' <=> Trying(j)) /\ (Linked(j)' <=> Linked(j))
  BY <1>1, Frame DEF Open
<1>6. CASE Accepts(p)
  <2>1. vc[i[1]].conn = i /\ \A j \in Id : ~Linked(j)
    BY <1>1, <1>6, OneGrant
  <2>2. vc' \in [Proc -> VC] /\ VCElse(p) /\ vc'[p].state = "CONNECTING" /\ vc'[p].conn = i
    <3>1. vc' = [vc EXCEPT ![p] = [state |-> "CONNECTING", conn |-> i]]
      BY <1>6 DEF HandleConnopen
    <3>2. [state |-> "CONNECTING", conn |-> i] \in VC
      BY DEF VC
    <3>3. QED
      BY <1>1, <3>1, <3>2, PutVC
  <2>3. Granted(i)'
    <3> DEFINE w == <<Control("ack")>>
    <3>a. w # <<>> /\ Head(w) = Control("ack") /\ Tail(w) = <<>>
      OBVIOUS
    <3>1. /\ WY(i)' # <<>> /\ Head(WY(i)') = Control("ack") /\ Tail(WY(i)') = <<>>
      BY <1>2, <1>6, <3>a, Zenon
    <3>2. Head(WY(i)').type = "ack" /\ AllData(Tail(WY(i)'))
      BY <3>1, PacketTypes DEF AllData
    <3>3. QED
      BY <1>1, <1>2, <1>6, <3>1, <3>2 DEF Granted, Agreed, Asked, AllData
  <2>4. \A j \in Id : InStage(j)'
    BY <1>5, <2>3 DEF InStage
  <2>5. AttemptInv(i)'
    BY <1>1, <2>1, <2>2, TwoEnds, AttemptPrimed DEF VCElse
  <2>6. ASSUME NEW j \in Id, j # i PROVE AttemptInv(j)'
    <3>1. AttemptInv(j) /\ ~Linked(j)' /\ (Trying(j)' <=> Trying(j))
      BY <1>1, <1>5, <2>1, <2>6 DEF Open
    <3>2. CASE j[1] = p
      <4>1. Trying(j) => vc[p].conn # Null
        BY <3>1, <3>2, TwoEnds DEF AttemptInv, Yielded
      <4>2. Trying(j) => p < Peer(p)
        BY <1>6, <4>1 DEF Accepts
      <4>3. Trying(j) => Yielded(j[1])'
        BY <1>1, <2>2, <3>2, <4>2, TwoEnds, AttemptPrimed
      <4>4. QED
        BY <3>1, <4>3, AttemptPrimed
    <3>3. CASE j[1] # p
      <4>1. vc'[j[1]] = vc[j[1]]
        BY <2>2, <3>3, TwoEnds DEF VCElse
      <4>2. Trying(j) => vc'[j[1]].conn = j \/ Yielded(j[1])'
        BY <3>1, <4>1, AttemptPrimed DEF AttemptInv, Yielded
      <4>3. QED
        BY <3>1, <4>2, AttemptPrimed
    <3>4. QED
      BY <3>2, <3>3
  <2>7. VCInv(p)'
    BY <1>1, <1>2, <1>6, <2>2 DEF VCInv, Holds, HeldStates
  <2>8. Open'
    BY <1>1, <2>2, <2>4, <2>5, <2>6, <2>7, VCElsewhere DEF Open
  <2>9. QED
    BY <1>1, <1>3, <1>4, <2>2, <2>8, Assemble DEF TypeInv
<1>7. CASE ~Accepts(p)
  <2>1. vc' = vc
    BY <1>7 DEF HandleConnopen
  <2>2. Refused(i)'
    BY <1>1, <1>2, <1>7 DEF Refused, Gone, Asked
  <2>3. ~Linked(i)' /\ Trying(i) /\ InStage(i)'
    BY <1>1, <1>2, <1>7, <2>2 DEF InStage, Linked, Granted, Joined, Agreed, Trying, Asked, Waiting, Handshake
  <2>4. Open'
    <3>1. \A j \in Id : AttemptInv(j)'
      BY <1>1, <1>5, <2>1, <2>3, AttemptPrimed DEF Open, AttemptInv, Yielded
    <3>2. VCInv(p)'
      <4>1. vc[p].conn \in Id \cup {Null}
        BY <1>1, Types DEF VC
      <4>2. QED
        BY <1>1, <2>1, <4>1, Zenon DEF VCInv, Holds, HeldStates, EndsElse
    <3>3. QED
      BY <1>1, <1>5, <2>1, <2>3, <3>1, <3>2, VCElsewhere DEF Open, VCElse
  <2>5. QED
    BY <1>1, <1>3, <1>4, <2>1, <2>4, Assemble DEF TypeInv
<1>8. QED
  BY <1>6, <1>7

(***************************************************************************)
(* The connection is up at one end.                                        *)
(***************************************************************************)
LEMMA UpEffect ==
  ASSUME TypeInv, NEW p \in Proc, NEW i \in Id, Up(p, i)
  PROVE  /\ conn' \in [Proc -> [Id -> End]] /\ EndsElse(p, i)
         /\ conn'[p][i].state = "CONNECTED" /\ (conn'[p][i].vc <=> conn[p][i].vc)
         /\ conn'[p][i].active => sendq[p] # <<>>
         /\ vc' \in [Proc -> VC] /\ VCElse(p)
         /\ vc'[p].state = "CONNECTED" /\ vc'[p].conn = vc[p].conn
<1> DEFINE c == conn[p][i]
           b == sendq[p] # <<>>
           e == [c EXCEPT !.state = "CONNECTED", !.reading = TRUE, !.active = b, !.writing = b]
<1>1. c \in End
  BY Types
<1>2. b \in BOOLEAN
  BY Zenon
<1>3. e \in End
  <2> HIDE DEF b
  <2>1. QED
    BY <1>1, <1>2, EndTypes, Zenon DEF ConnStates
<1>4. e.state = "CONNECTED" /\ (e.vc <=> c.vc) /\ (e.active => b)
  BY <1>1 DEF End, Rec
<1>5. conn' = [conn EXCEPT ![p][i] = e]
  BY DEF Up
<1> HIDE DEF e
<1>6. conn' \in [Proc -> [Id -> End]] /\ EndsElse(p, i) /\ conn'[p][i] = e
  BY <1>3, <1>5, PutEnd
<1>7. /\ vc' \in [Proc -> VC] /\ VCElse(p)
      /\ vc'[p].state = "CONNECTED" /\ vc'[p].conn = vc[p].conn
  BY ConnectedVC DEF Up
<1>8. QED
  BY <1>4, <1>6, <1>7

LEMMA UpStep ==
  ASSUME ConnInv, NEW p \in Proc, NEW i \in Id, Up(p, i), OneWire(p, i),
         wire' \in [Proc -> [Id -> Seq(Packet)]], sendq' = sendq, closing' = closing,
         closing = {}, Linked(i), Linked(i)', Trying(i)' => Trying(i)
  PROVE  ConnInv'
<1>1. /\ conn' \in [Proc -> [Id -> End]] /\ EndsElse(p, i)
      /\ conn'[p][i].state = "CONNECTED" /\ (conn'[p][i].vc <=> conn[p][i].vc)
      /\ conn'[p][i].active => sendq[p] # <<>>
      /\ vc' \in [Proc -> VC] /\ VCElse(p)
      /\ vc'[p].state = "CONNECTED" /\ vc'[p].conn = vc[p].conn
  BY UpEffect DEF ConnInv
<1>2. TypeInv /\ Open /\ InStage(i) /\ AttemptInv(i) /\ VCInv(p)
  BY DEF ConnInv, Open
<1>3. \A j \in Id : j # i => Same(j)
  BY <1>1, Untouched DEF OneWire
<1>4. \A j \in Id : /\ InStage(j)' /\ (Trying(j)' => Trying(j)) /\ (Linked(j)' => Linked(j))
  <2>1. InStage(i)'
    BY DEF InStage, Linked
  <2>2. QED
    BY <1>2, <1>3, <2>1, Frame DEF Open
<1>5. \A q \in Proc : vc'[q].conn = vc[q].conn
  BY <1>1 DEF VCElse
<1>6. \A j \in Id : AttemptInv(j)'
  <2> SUFFICES ASSUME NEW j \in Id PROVE AttemptInv(j)'
    OBVIOUS
  <2>1. AttemptInv(j) /\ (Trying(j)' => Trying(j)) /\ (Linked(j)' => Linked(j))
    BY <1>2, <1>4 DEF Open
  <2>2. vc'[j[1]].conn = vc[j[1]].conn /\ vc'[Peer(j[1])].conn = vc[Peer(j[1])].conn
    BY <1>5, TwoEnds
  <2>3. QED
    BY <2>1, <2>2, AttemptPrimed DEF AttemptInv, Yielded
<1>7. vc[p].conn = i
  BY <1>2, TwoEnds DEF AttemptInv
<1>8. conn[p][i].vc
  BY TwoEnds DEF Linked, Granted, Joined, Agreed, X, Y
<1>9. VCInv(p)'
  BY <1>1, <1>7, <1>8, TwoEnds DEF VCInv, Holds, HeldStates
<1>10. Open'
  BY <1>1, <1>2, <1>4, <1>6, <1>9, VCElsewhere DEF Open
<1>11. \A q \in Proc : ActiveInv(q)'
  BY <1>1, ActiveKept
<1>12. QED
  BY <1>1, <1>2, <1>10, <1>11, Assemble DEF TypeInv

LEMMA HandleAckStep ==
  ASSUME ConnInv, NEW p \in Proc, NEW i \in Id, HandleAck(p, i)
  PROVE  ConnInv'
<1> DEFINE c == conn[p][i]
<1>1. /\ c.state = "OPEN_CRECV" /\ TypeInv
      /\ wire[Peer(p)][i] # <<>> /\ Head(wire[Peer(p)][i]).type = "ack"
      /\ Up(p, i) /\ Read(p, i) /\ sendq' = sendq /\ closing' = closing
  BY DEF HandleAck, ConnInv, Arrived
<1>2. closing = {} /\ Open /\ InStage(i) /\ AttemptInv(i) /\ VCInv(p) /\ ~c.active
  BY <1>1, Busy
<1>3. p = i[1] /\ Trying(i) /\ X(i) = c /\ WY(i) = wire[Peer(p)][i] /\ Peer(p) \in Proc /\ Peer(p) # p
  BY <1>1, <1>2, Sides, TwoProcs DEF Handshake, X, WY
<1>4. Granted(i)
  BY <1>1, <1>2, <1>3, PacketTypes DEF InStage, Fresh, Asking, Asked, Refused, Joined, Dropped, Gone,
    Quiet, Trying, Waiting, Handshake
<1>5. /\ wire' \in [Proc -> [Id -> Seq(Packet)]]
      /\ wire'[Peer(p)][i] = Tail(wire[Peer(p)][i]) /\ WireElse(Peer(p), i)
  BY <1>1, WasRead
<1>6. EndsElse(p, i) /\ conn'[p][i].state = "CONNECTED" /\ (conn'[p][i].vc <=> c.vc)
  BY <1>1, UpEffect
<1>7. /\ X(i)' = conn'[p][i] /\ Y(i)' = Y(i) /\ WX(i)' = WX(i) /\ WY(i)' = Tail(WY(i))
  <2>1. Y(i)' = Y(i) /\ WY(i)' = Tail(WY(i))
    BY <1>3, <1>5, <1>6, FarEnds DEF Y, EndsElse
  <2>2. X(i)' = conn'[p][i] /\ WX(i)' = WX(i)
    BY <1>3, <1>5 DEF X, WX, WireElse
  <2>3. QED
    BY <2>1, <2>2
<1>8. Joined(i)' /\ ~Trying(i)'
  BY <1>3, <1>4, <1>6, <1>7 DEF Joined, Granted, Agreed, AllData, Trying, Handshake
<1>9. QED
  BY <1>1, <1>2, <1>4, <1>5, <1>8, UpStep DEF OneWire, Linked

LEMMA WroteOpenRespStep ==
  ASSUME ConnInv, NEW p \in Proc, NEW i \in Id, WroteOpenResp(p, i)
  PROVE  ConnInv'
<1> DEFINE c == conn[p][i]
           e == [c EXCEPT !.state = "CLOSING", !.writing = FALSE]
<1>0. TypeInv
  BY DEF ConnInv
<1>1. /\ c.state = "OPEN_LSEND" /\ c \in End
      /\ sendq' = sendq /\ closing' = closing /\ wire' = wire
  BY <1>0, Types DEF WroteOpenResp
<1>2. closing = {} /\ Open /\ InStage(i) /\ AttemptInv(i) /\ VCInv(p) /\ ~c.active
  BY <1>1, Busy
<1>3. p = Peer(i[1]) /\ Peer(p) = i[1] /\ p # i[1] /\ Y(i) = c
  BY <1>1, <1>2, Sides, TwoEnds, TwoProcs DEF Y
<1>4. CASE c.ack /\ Up(p, i)
  <2>1. Linked(i)
    BY <1>1, <1>2, <1>3, <1>4 DEF InStage, Linked, Fresh, Asking, Asked, Refused, Dropped, Gone
  <2>2. EndsElse(p, i) /\ conn'[p][i].state = "CONNECTED" /\ (conn'[p][i].vc <=> c.vc)
    BY <1>0, <1>4, UpEffect
  <2>3. X(i)' = X(i) /\ Y(i)' = conn'[p][i] /\ WX(i)' = WX(i) /\ WY(i)' = WY(i)
    BY <1>1, <1>3, <2>2, TwoEnds, FarEnds DEF X, WX, WY, EndsElse
  <2>4. Linked(i)' /\ (Trying(i)' => Trying(i))
    BY <1>3, <2>1, <2>2, <2>3 DEF Linked, Granted, Joined, Agreed, Trying, AllData
  <2>5. QED
    BY <1>0, <1>1, <1>2, <1>4, <2>1, <2>4, UpStep DEF OneWire, TypeInv
<1>5. CASE ~c.ack /\ conn' = [conn EXCEPT ![p][i] = e] /\ vc' = vc
  <2>1. e \in End /\ e.state = "CLOSING" /\ (e.vc <=> c.vc) /\ ~e.active
    <3>1. e \in End
      BY <1>1, EndTypes, Zenon DEF ConnStates
    <3>2. e.state = "CLOSING" /\ (e.vc <=> c.vc) /\ ~e.active
      BY <1>1, <1>2 DEF End, Rec
    <3> HIDE DEF e
    <3>3. QED
      BY <3>1, <3>2, Zenon
  <2> HIDE DEF e
  <2>2. conn' \in [Proc -> [Id -> End]] /\ EndsElse(p, i) /\ conn'[p][i] = e
    BY <1>0, <1>5, <2>1, PutEnd
  <2>3. X(i)' = X(i) /\ Y(i)' = e /\ WX(i)' = WX(i) /\ WY(i)' = WY(i)
    BY <1>1, <1>3, <2>2, TwoEnds, FarEnds DEF X, WX, WY, EndsElse
  <2>4. (Refused(i) \/ Dropped(i)) /\ ~c.vc
    BY <1>1, <1>2, <1>3, <1>5 DEF InStage, Fresh, Asking, Asked, Granted, Joined, Refused, Dropped,
       Agreed, Gone
  <2>5. Refused(i)' \/ Dropped(i)'
    BY <1>3, <2>1, <2>3, <2>4 DEF Refused, Dropped, Gone, Quiet
  <2>6. InStage(i)' /\ (Trying(i)' => Trying(i)) /\ ~Linked(i)'
    BY <2>1, <2>3, <2>5 DEF InStage, Linked, Granted, Joined, Agreed, Trying
  <2>7. vc[p].conn # i
    BY <1>2, <2>4, TwoEnds DEF VCInv, Holds
  <2>8. Open'
    BY <1>0, <1>1, <1>2, <1>3, <1>5, <2>2, <2>6, <2>7, QuietStep DEF OneWire
  <2>9. \A q \in Proc : ActiveInv(q)'
    BY <1>1, <2>1, <2>2, ActiveKept
  <2>10. QED
    BY <1>0, <1>1, <1>2, <1>5, <2>2, <2>8, <2>9, Assemble DEF TypeInv
<1>6. QED
  BY <1>4, <1>5 DEF WroteOpenResp

LEMMA HandleNakStep ==
  ASSUME ConnInv, NEW p \in Proc, NEW i \in Id, HandleNak(p, i)
  PROVE  ConnInv'
<1> DEFINE c == conn[p][i]
           e == [c EXCEPT !.state = "CLOSING", !.vc = FALSE, !.reading = FALSE]
<1>0. TypeInv
  BY DEF ConnInv
<1>1. /\ c.state = "OPEN_CRECV" /\ c \in End
      /\ wire[Peer(p)][i] # <<>> /\ Head(wire[Peer(p)][i]).type = "nak"
      /\ Forget(p, i) /\ Read(p, i) /\ sendq' = sendq /\ closing' = closing
      /\ conn' = [conn EXCEPT ![p][i] = e]
  BY <1>0, Types DEF HandleNak, Arrived
<1>2. closing = {} /\ Open /\ InStage(i) /\ AttemptInv(i) /\ VCInv(p) /\ ~c.active
  BY <1>1, Busy
<1>3. p = i[1] /\ Trying(i) /\ X(i) = c /\ WY(i) = wire[Peer(p)][i] /\ Peer(p) \in Proc /\ Peer(p) # p
  BY <1>1, <1>2, Sides, TwoProcs DEF Handshake, X, WY
<1>4. Refused(i)
  BY <1>1, <1>2, <1>3, PacketTypes DEF InStage, Fresh, Asking, Asked, Granted, Joined, Dropped, Gone,
    Quiet, Trying, Waiting, Handshake
<1>5. e \in End /\ e.state = "CLOSING" /\ ~e.vc /\ ~e.active
  <2>1. e \in End
    BY <1>1, EndTypes, Zenon DEF ConnStates
  <2>2. e.state = "CLOSING" /\ ~e.vc /\ ~e.active
    BY <1>1, <1>2 DEF End, Rec
  <2> HIDE DEF e
  <2>3. QED
    BY <2>1, <2>2, Zenon
<1>6. /\ wire' \in [Proc -> [Id -> Seq(Packet)]]
      /\ wire'[Peer(p)][i] = Tail(wire[Peer(p)][i]) /\ WireElse(Peer(p), i)
  BY <1>0, <1>1, WasRead
<1> HIDE DEF e
<1>7. conn' \in [Proc -> [Id -> End]] /\ EndsElse(p, i) /\ conn'[p][i] = e
  BY <1>0, <1>1, <1>5, PutEnd
<1>8. /\ X(i)' = e /\ Y(i)' = Y(i) /\ WX(i)' = <<>> /\ WY(i)' = <<>>
  <2>1. Tail(<<Control("nak")>>) = <<>>
    OBVIOUS
  <2>2. wire[Peer(p)][i] = <<Control("nak")>> /\ wire[p][i] = <<>>
    BY <1>3, <1>4 DEF Refused, WX
  <2>3. Y(i)' = Y(i) /\ WY(i)' = <<>>
    BY <1>3, <1>6, <1>7, <2>1, <2>2, FarEnds DEF Y, EndsElse
  <2>4. X(i)' = e /\ WX(i)' = <<>>
    BY <1>3, <1>6, <1>7, <2>2 DEF X, WX, WireElse
  <2>5. QED
    BY <2>3, <2>4
<1>9. Dropped(i)'
  BY <1>4, <1>5, <1>8 DEF Refused, Dropped, Gone, Quiet
<1>10. /\ vc' \in [Proc -> VC] /\ VCElse(p) /\ vc'[p].state = vc[p].state
       /\ vc[p].conn = i => vc'[p].conn = Null
       /\ vc[p].conn # i => vc'[p].conn = vc[p].conn
  BY <1>0, <1>1, Zenon DEF Forget, TypeInv, VC, VCElse
<1>11. vc[p].state = "CONNECTING" \/ vc[p].conn # i
  BY <1>0, <1>1, <1>2, <1>3, Types, TwoEnds DEF VC, VCInv, Holds, HeldStates
<1>12. \A j \in Id : j # i => InStage(j)' /\ (Trying(j)' <=> Trying(j)) /\ (Linked(j)' <=> Linked(j)) /\ Same(j)
  BY <1>2, <1>6, <1>7, Untouched, Frame DEF Open
<1>13. InStage(i)' /\ ~Trying(i)' /\ ~Linked(i)'
  BY <1>5, <1>8, <1>9 DEF InStage, Trying, Linked, Granted, Joined, Handshake, Waiting
<1>14. ASSUME NEW j \in Id PROVE AttemptInv(j)'
  <2>1. CASE j = i
    BY <1>13, <2>1, AttemptPrimed
  <2>2. CASE j # i
    <3>1. AttemptInv(j) /\ (Trying(j)' <=> Trying(j)) /\ (Linked(j)' <=> Linked(j))
      BY <1>2, <1>12, <2>2 DEF Open
    <3>2. Linked(j) => vc'[j[1]].conn = j /\ vc'[Peer(j[1])].conn = j
      BY <1>10, <2>2, <3>1, TwoEnds DEF AttemptInv, VCElse
    <3>3. CASE j[1] # p
      <4>1. vc'[j[1]] = vc[j[1]]
        BY <1>10, <3>3, TwoEnds DEF VCElse
      <4>2. QED
        BY <3>1, <3>2, <4>1, AttemptPrimed DEF AttemptInv, Yielded
    <3>4. CASE j[1] = p
      <4>1. Trying(j) => vc[p].conn # i
        BY <1>3, <2>2, <3>1, <3>4, TwoProcs DEF AttemptInv, Yielded
      <4>2. Trying(j) => vc'[j[1]].conn = vc[j[1]].conn
        BY <1>10, <3>4, <4>1
      <4>3. QED
        BY <3>1, <3>2, <4>2, AttemptPrimed DEF AttemptInv, Yielded
    <3>5. QED
      BY <3>3, <3>4
  <2>3. QED
    BY <2>1, <2>2
<1>15. VCInv(p)'
  <2>1. vc[p].conn \in Id \cup {Null}
    BY <1>0, Types DEF VC
  <2>2. vc[p].state = "UNCONNECTED" => FALSE
    BY <1>1, <1>2, <1>3 DEF VCInv
  <2>3. QED
    BY <1>2, <1>7, <1>10, <1>11, <2>1, <2>2 DEF VCInv, Holds, HeldStates, EndsElse
<1>16. Open'
  BY <1>0, <1>2, <1>7, <1>10, <1>12, <1>13, <1>14, <1>15, VCElsewhere DEF Open
<1>17. \A q \in Proc : ActiveInv(q)'
  BY <1>1, <1>5, <1>7, ActiveKept
<1>18. QED
  BY <1>0, <1>1, <1>2, <1>6, <1>7, <1>10, <1>16, <1>17, Assemble DEF TypeInv

(***************************************************************************)
(* Messages.  Only an end that is up carries them.                         *)
(***************************************************************************)
LEMMA UpEnd ==
  ASSUME ConnInv, closing = {}, NEW p \in Proc, NEW i \in Id, conn[p][i].state = "CONNECTED"
  PROVE  Linked(i) /\ vc[p].conn = i /\ (p = i[1] => Joined(i))
<1>1. InStage(i) /\ AttemptInv(i)
  BY DEF ConnInv, Open
<1>2. Linked(i)
  BY <1>1, Sides
<1>3. p = i[1] => Joined(i)
  BY <1>2 DEF Linked, Granted, Waiting, X
<1>4. QED
  BY <1>1, <1>2, <1>3, TwoEnds DEF AttemptInv

EndLike(p, i) ==
  /\ EndsElse(p, i)
  /\ conn'[p][i].state = conn[p][i].state
  /\ conn'[p][i].vc <=> conn[p][i].vc
  /\ conn'[p][i].ack <=> conn[p][i].ack

LEMMA BothEnds ==
  ASSUME NEW p \in Proc, NEW i \in Id, EndLike(p, i)
  PROVE  /\ X(i)'.state = X(i).state /\ Y(i)'.state = Y(i).state
         /\ X(i)'.vc <=> X(i).vc
         /\ Y(i)'.vc <=> Y(i).vc
         /\ Y(i)'.ack <=> Y(i).ack
<1>1. CASE p = i[1]
  BY <1>1, TwoEnds, TwoProcs, FarEnds DEF EndLike, EndsElse, X, Y
<1>2. CASE p = Peer(i[1]) /\ p # i[1]
  BY <1>2, TwoEnds, FarEnds DEF EndLike, EndsElse, X, Y
<1>3. QED
  BY <1>1, <1>2, TwoEnds

LEMMA SentData ==
  ASSUME ConnInv, closing = {}, NEW p \in Proc, NEW i \in Id, NEW m \in Msg,
         conn[p][i].state = "CONNECTED", EndLike(p, i), wire'[p][i] = Append(wire[p][i], Data(m)),
         WireElse(p, i)
  PROVE  InStage(i)' /\ (Trying(i)' <=> Trying(i)) /\ Linked(i)'
<1>1. Linked(i) /\ (p = i[1] => Joined(i)) /\ (p = i[1] \/ (p = Peer(i[1]) /\ p # i[1]))
  BY UpEnd, TwoEnds
<1>2. /\ X(i)'.state = X(i).state /\ Y(i)'.state = Y(i).state
      /\ X(i)'.vc <=> X(i).vc
      /\ Y(i)'.vc <=> Y(i).vc
      /\ Y(i)'.ack <=> Y(i).ack
  BY BothEnds
<1>3. wire[p][i] \in Seq(Packet)
  BY Types DEF ConnInv
<1>4. CASE p = i[1]
  <2>1. WX(i)' = Append(WX(i), Data(m)) /\ WY(i)' = WY(i)
    BY <1>4, TwoEnds, TwoProcs, FarEnds DEF WX, WY, WireElse
  <2>2. AllData(WX(i)')
    BY <1>1, <1>3, <1>4, <2>1, DataSeq DEF Joined, WX
  <2>3. Joined(i)'
    BY <1>1, <1>2, <1>4, <2>1, <2>2 DEF Joined, Agreed, AllData
  <2>4. QED
    BY <1>2, <2>3 DEF InStage, Linked, Trying
<1>5. CASE p = Peer(i[1]) /\ p # i[1]
  <2>1. WX(i)' = WX(i) /\ WY(i)' = Append(WY(i), Data(m)) /\ WY(i) \in Seq(Packet)
    BY <1>3, <1>5, TwoEnds, FarEnds DEF WX, WY, WireElse
  <2>2. CASE Joined(i)
    <3>1. AllData(WY(i)')
      BY <2>1, <2>2, DataSeq DEF Joined
    <3>2. Joined(i)'
      BY <1>2, <2>1, <2>2, <3>1 DEF Joined, Agreed, AllData
    <3>3. QED
      BY <1>2, <3>2 DEF InStage, Linked, Trying
  <2>3. CASE Granted(i)
    <3>1. WY(i)' # <<>> /\ Head(WY(i)') = Head(WY(i)) /\ Tail(WY(i)') = Append(Tail(WY(i)), Data(m))
      <4>1. Append(WY(i), Data(m)) # <<>>
        BY <2>1, PacketTypes
      <4>2. QED
        BY <2>1, <2>3, <4>1, DataSeq DEF Granted
    <3>2. Tail(WY(i)) \in Seq(Packet) /\ AllData(Tail(WY(i)))
      BY <2>1, <2>3, DataSeq DEF Granted
    <3>3. AllData(Tail(WY(i)'))
      BY <3>1, <3>2, DataSeq
    <3>4. Granted(i)'
      BY <1>2, <2>1, <2>3, <3>1, <3>3 DEF Granted, Agreed, AllData
    <3>5. QED
      BY <1>2, <3>4 DEF InStage, Linked, Trying
  <2>4. QED
    BY <1>1, <2>2, <2>3 DEF Linked
<1>6. QED
  BY <1>1, <1>4, <1>5

LEMMA MessageStep ==
  ASSUME ConnInv, closing = {}, closing' = closing, vc' = vc,
         NEW p \in Proc, NEW i \in Id, conn[p][i].state = "CONNECTED", EndLike(p, i), OneWire(p, i),
         conn' \in [Proc -> [Id -> End]], wire' \in [Proc -> [Id -> Seq(Packet)]],
         sendq' \in [Proc -> Seq(Msg)], \A q \in Proc : q # p => sendq'[q] = sendq[q],
         conn'[p][i].active => sendq'[p] # <<>>, InStage(i)', Linked(i)'
  PROVE  ConnInv'
<1>1. TypeInv /\ Open /\ VCInv(p) /\ Linked(i) /\ vc[p].conn = i
  BY UpEnd DEF ConnInv, Open
<1>2. Trying(i)' => Trying(i)
  BY BothEnds DEF Trying
<1>3. Open'
  <2>1. conn'[p][i].vc /\ conn'[p][i].state \in HeldStates(p)
    BY <1>1, TwoEnds DEF EndLike, VCInv, Holds
  <2>2. EndsElse(p, i)
    BY DEF EndLike
  <2>3. i[1] = p /\ conn[p][i].state \in Idle => conn'[p][i].state \in Idle
    BY DEF Idle
  <2>4. QED
    BY <1>1, <1>2, <2>1, <2>2, <2>3, QuietStep
<1>4. ASSUME NEW q \in Proc PROVE ActiveInv(q)'
  <2>1. CASE q # p
    <3>1. sendq'[q] = sendq[q] /\ \A j \in Id : conn'[q][j] = conn[q][j]
      BY <2>1 DEF EndLike, EndsElse
    <3>2. ActiveInv(q)
      BY DEF ConnInv
    <3>3. QED
      BY <3>1, <3>2 DEF ActiveInv
  <2>2. CASE q = p
    <3>1. \A j \in Id : j # i => ~conn[p][j].active
      BY <1>1, UpEnd DEF ConnInv, ActiveInv
    <3>2. QED
      BY <2>2, <3>1 DEF ActiveInv, EndLike, EndsElse
  <2>3. QED
    BY <2>1, <2>2
<1>5. QED
  BY <1>1, <1>3, <1>4, Assemble DEF TypeInv

LEMMA HandleDataStep ==
  ASSUME ConnInv, NEW p \in Proc, NEW i \in Id, HandleData(p, i)
  PROVE  ConnInv'
<1> DEFINE q == Peer(p)
<1>0. TypeInv /\ p \in Proc /\ q \in Proc /\ p # q /\ Peer(q) = p
  BY TwoProcs DEF ConnInv
<1>1. /\ conn[p][i].state = "CONNECTED"
      /\ wire[q][i] # <<>> /\ Head(wire[q][i]).type = "data" /\ Read(p, i)
      /\ vc' = vc /\ sendq' = sendq /\ conn' = conn /\ closing' = closing
  BY DEF HandleData, Arrived
<1>2. closing = {}
  <2> SUFFICES ASSUME closing # {} PROVE FALSE
    OBVIOUS
  <2>1. PICK j \in Id : Ending(j)
    BY DEF ConnInv
  <2>2. i = j
    BY <1>1, <2>1, TwoEnds DEF Ending, Fresh, Over, X, Y
  <2>3. QED
    BY <1>0, <1>1, <2>1, <2>2, TwoEnds DEF Ending, Quiet, WX, WY
<1>3. Linked(i) /\ (p = i[1] => Joined(i)) /\ ((p = i[1] /\ q = Peer(i[1])) \/ (p = Peer(i[1]) /\ q = i[1]))
  BY <1>1, <1>2, UpEnd, TwoEnds
<1>4. Joined(i)
  BY <1>1, <1>3 DEF Linked, Granted, WX
<1>5. /\ wire' \in [Proc -> [Id -> Seq(Packet)]]
      /\ wire'[q][i] = Tail(wire[q][i]) /\ WireElse(q, i)
  BY <1>0, <1>1, WasRead
<1>6. X(i)' = X(i) /\ Y(i)' = Y(i)
  BY <1>1, FarEnds DEF X, Y
<1>7. AllData(WX(i)') /\ AllData(WY(i)')
  <2>1. AllData(wire[p][i]) /\ AllData(wire[q][i]) /\ wire[q][i] \in Seq(Packet)
    BY <1>0, <1>3, <1>4, Types DEF Joined, WX, WY
  <2>2. AllData(wire'[p][i]) /\ AllData(wire'[q][i])
    BY <1>0, <1>1, <1>5, <2>1, DataSeq DEF WireElse
  <2>3. QED
    BY <1>3, <2>2, FarEnds DEF WX
<1>8. Joined(i)'
  BY <1>4, <1>6, <1>7 DEF Joined, Agreed, AllData
<1>9. InStage(i)' /\ Linked(i)'
  BY <1>8 DEF InStage, Linked
<1>10. EndLike(p, i) /\ OneWire(p, i)
  BY <1>1, <1>5 DEF EndLike, EndsElse, OneWire
<1>11. conn[p][i].active => sendq[p] # <<>>
  BY DEF ConnInv, ActiveInv
<1>12. QED
  BY <1>0, <1>1, <1>2, <1>5, <1>9, <1>10, <1>11, MessageStep DEF TypeInv

LEMMA WroteMessageStep ==
  ASSUME ConnInv, NEW p \in Proc, NEW i \in Id, WroteMessage(p, i)
  PROVE  ConnInv'
<1> DEFINE c == conn[p][i]
           b == Len(sendq[p]) > 1
           e == [c EXCEPT !.active = b, !.writing = b]
<1>0. TypeInv
  BY DEF ConnInv
<1>1. /\ c.active /\ c \in End /\ Write(p, i, Data(Head(sendq[p])))
      /\ sendq' = [sendq EXCEPT ![p] = Tail(@)]
      /\ conn' = [conn EXCEPT ![p][i] = e]
      /\ vc' = vc /\ closing' = closing
  BY <1>0, Types DEF WroteMessage
<1>2. c.state = "CONNECTED" /\ sendq[p] # <<>>
  BY <1>1 DEF ConnInv, ActiveInv
<1>3. closing = {}
  BY <1>2 DEF ConnInv, Ending
<1>4. sendq[p] \in Seq(Msg) /\ Head(sendq[p]) \in Msg /\ Tail(sendq[p]) \in Seq(Msg)
      /\ (b => Tail(sendq[p]) # <<>>) /\ b \in BOOLEAN
  <2>1. sendq[p] \in Seq(Msg)
    BY <1>0, Types
  <2>2. Head(sendq[p]) \in Msg /\ Tail(sendq[p]) \in Seq(Msg)
    BY <1>2, <2>1
  <2>3. b => Tail(sendq[p]) # <<>>
    <3>1. Len(Tail(sendq[p])) = Len(sendq[p]) - 1 /\ Len(sendq[p]) \in Nat
      BY <1>2, <2>1
    <3>2. Len(<<>>) = 0
      OBVIOUS
    <3>3. SUFFICES ASSUME b, Tail(sendq[p]) = <<>> PROVE FALSE
      OBVIOUS
    <3>4. Len(sendq[p]) - 1 = 0
      BY <3>1, <3>2, <3>3, Zenon
    <3>5. QED
      BY <3>1, <3>3, <3>4
  <2>4. b \in BOOLEAN
    BY <2>1
  <2>5. QED
    BY <2>1, <2>2, <2>3, <2>4
<1>5. /\ sendq' \in [Proc -> Seq(Msg)] /\ sendq'[p] = Tail(sendq[p])
      /\ \A q \in Proc : q # p => sendq'[q] = sendq[q]
  BY <1>0, <1>1, <1>4 DEF TypeInv
<1> HIDE DEF b
<1>6. e \in End
  <2>1. "unused" \in ConnStates
    BY DEF ConnStates
  <2>2. QED
    BY <1>1, <1>4, <2>1, EndTypes, Zenon
<1>7. e.state = c.state /\ (e.vc <=> c.vc) /\ (e.ack <=> c.ack) /\ (e.active <=> b)
  BY <1>1, <1>4 DEF End, Rec
<1> HIDE DEF e
<1>8. conn' \in [Proc -> [Id -> End]] /\ EndsElse(p, i) /\ conn'[p][i] = e
  BY <1>0, <1>1, <1>6, PutEnd
<1>9. EndLike(p, i) /\ (conn'[p][i].active => sendq'[p] # <<>>)
  BY <1>4, <1>5, <1>7, <1>8 DEF EndLike
<1>10. PICK m \in Msg : m = Head(sendq[p])
  BY <1>4
<1>11. /\ wire' \in [Proc -> [Id -> Seq(Packet)]]
       /\ wire'[p][i] = Append(wire[p][i], Data(m)) /\ WireElse(p, i)
  BY <1>0, <1>1, <1>10, Wrote, PacketTypes
<1>12. InStage(i)' /\ Linked(i)'
  BY <1>2, <1>3, <1>9, <1>11, SentData
<1>13. QED
  BY <1>1, <1>2, <1>3, <1>5, <1>8, <1>9, <1>11, <1>12, MessageStep DEF OneWire

(***************************************************************************)
(* A message is handed to the channel.                                     *)
(***************************************************************************)
LEMMA SendConnectedStep ==
  ASSUME ConnInv, NEW p \in Proc, NEW m \in Msg, vc[p].state = "CONNECTED", SendConnected(p, m),
         closing = {}, vc' = vc, closing' = closing
  PROVE  ConnInv'
<1> DEFINE c == conn[p][vc[p].conn]
<1>1. TypeInv /\ VCInv(p) /\ vc[p].conn \in Id
  BY Types DEF ConnInv, Open, VCInv, VC
<1>2. PICK i \in Id : i = vc[p].conn
  BY <1>1
<1>3. conn[p][i].state = "CONNECTED" /\ conn[p][i] \in End /\ sendq[p] \in Seq(Msg)
  BY <1>1, <1>2, TwoEnds, Types DEF VCInv, Holds, HeldStates
<1>4. Linked(i) /\ InStage(i)
  BY <1>3, UpEnd DEF ConnInv, Open
<1>5. CASE sendq[p] = <<>> /\ Write(p, i, Data(m)) /\ sendq' = sendq /\ conn' = conn
  <2>1. /\ wire' \in [Proc -> [Id -> Seq(Packet)]]
        /\ wire'[p][i] = Append(wire[p][i], Data(m)) /\ WireElse(p, i)
    BY <1>1, <1>5, Wrote, PacketTypes
  <2>2. EndLike(p, i)
    BY <1>5 DEF EndLike, EndsElse
  <2>3. InStage(i)' /\ Linked(i)'
    BY <1>3, <2>1, <2>2, SentData
  <2>4. conn[p][i].active => sendq[p] # <<>>
    BY DEF ConnInv, ActiveInv
  <2>5. QED
    BY <1>1, <1>3, <1>5, <2>1, <2>2, <2>3, <2>4, MessageStep DEF OneWire, TypeInv
<1>6. Enqueue(p, m) => /\ sendq' \in [Proc -> Seq(Msg)] /\ sendq'[p] # <<>>
                       /\ \A q \in Proc : q # p => sendq'[q] = sendq[q]
  <2>1. Append(sendq[p], m) \in Seq(Msg) /\ Append(sendq[p], m) # <<>>
    BY <1>3
  <2>2. QED
    BY <1>1, <2>1 DEF TypeInv, Enqueue
<1>7. ASSUME Enqueue(p, m), EndLike(p, i), conn' \in [Proc -> [Id -> End]], wire' = wire
      PROVE  ConnInv'
  <2>1. /\ X(i)'.state = X(i).state /\ Y(i)'.state = Y(i).state
        /\ X(i)'.vc <=> X(i).vc
        /\ Y(i)'.vc <=> Y(i).vc
        /\ Y(i)'.ack <=> Y(i).ack
    BY <1>7, BothEnds
  <2>2. WX(i)' = WX(i) /\ WY(i)' = WY(i)
    BY <1>7, FarEnds DEF WX, WY
  <2>3. Linked(i)'
    BY <1>4, <2>1, <2>2 DEF Linked, Granted, Joined, Agreed, AllData
  <2>4. InStage(i)'
    BY <2>3 DEF InStage, Linked
  <2>5. QED
    BY <1>1, <1>3, <1>6, <1>7, <2>3, <2>4, MessageStep, Zenon DEF OneWire, TypeInv
<1>8. CASE /\ Enqueue(p, m) /\ wire' = wire
           /\ conn' = [conn EXCEPT ![p][i] = [@ EXCEPT !.active = TRUE, !.writing = TRUE]]
  <2> DEFINE e == [conn[p][i] EXCEPT !.active = TRUE, !.writing = TRUE]
  <2>1. e \in End
    <3>1. "unused" \in ConnStates /\ TRUE \in BOOLEAN
      BY DEF ConnStates
    <3>2. QED
      BY <1>3, <3>1, EndTypes, Zenon
  <2>2. /\ e.state = conn[p][i].state
        /\ e.vc <=> conn[p][i].vc
        /\ e.ack <=> conn[p][i].ack
    BY <1>3 DEF End, Rec
  <2>3. conn' = [conn EXCEPT ![p][i] = e]
    BY <1>8
  <2> HIDE DEF e
  <2>4. conn' \in [Proc -> [Id -> End]] /\ EndsElse(p, i) /\ conn'[p][i] = e
    BY <1>1, <2>1, <2>3, PutEnd
  <2>5. EndLike(p, i)
    BY <2>2, <2>4 DEF EndLike
  <2>6. QED
    BY <1>7, <1>8, <2>4, <2>5
<1>9. CASE Enqueue(p, m) /\ wire' = wire /\ conn' = conn
  <2>1. EndLike(p, i) /\ conn' \in [Proc -> [Id -> End]]
    BY <1>1, <1>9 DEF EndLike, EndsElse, TypeInv
  <2>2. QED
    BY <1>7, <1>9, <2>1
<1>10. QED
  BY <1>2, <1>5, <1>8, <1>9 DEF SendConnected

LEMMA PostConnectStep ==
  ASSUME ConnInv, NEW p \in Proc, NEW m \in Msg, vc[p].state = "UNCONNECTED", Enqueue(p, m),
         PostConnect(p), closing = {}, wire' = wire, closing' = closing
  PROVE  ConnInv'
<1> DEFINE e == [Unused EXCEPT !.state = "CONNECTING", !.vc = TRUE]
<1>1. TypeInv /\ Open /\ VCInv(p) /\ sendq[p] \in Seq(Msg)
  BY Types DEF ConnInv, Open
<1>2. PICK i \in Id : /\ i[1] = p /\ conn[p][i] = Unused
                      /\ vc' = [vc EXCEPT ![p] = [state |-> "CONNECTING", conn |-> i]]
                      /\ conn' = [conn EXCEPT ![p][i] = e]
  <2>1. PICK k \in 1..MaxConnects : 
           /\ conn[p][<<p, k>>] = Unused
           /\ vc' = [vc EXCEPT ![p] = [state |-> "CONNECTING", conn |-> <<p, k>>]]
           /\ conn' = [conn EXCEPT ![p][<<p, k>>] = e]
    BY Zenon DEF PostConnect
  <2>2. <<p, k>> \in Id /\ <<p, k>>[1] = p
    BY DEF Id
  <2>3. QED
    BY <2>1, <2>2
<1>3. e \in End /\ e.state = "CONNECTING" /\ e.vc /\ ~e.active
  <2>1. e \in End
    BY UnusedType, EndTypes, Zenon DEF ConnStates
  <2>2. QED
    BY <2>1 DEF Unused
<1> HIDE DEF e
<1>4. conn' \in [Proc -> [Id -> End]] /\ EndsElse(p, i) /\ conn'[p][i] = e
  <2>1. TypeInv /\ e \in End /\ conn' = [conn EXCEPT ![p][i] = e]
    BY <1>1, <1>2, <1>3
  <2>2. QED
    BY <2>1, PutEnd
<1>5. vc' \in [Proc -> VC] /\ VCElse(p) /\ vc'[p].state = "CONNECTING" /\ vc'[p].conn = i
  <2> DEFINE v == [state |-> "CONNECTING", conn |-> i]
  <2>1. v \in VC /\ v.state = "CONNECTING" /\ v.conn = i
    BY DEF VC
  <2>2. TypeInv /\ vc' = [vc EXCEPT ![p] = v]
    BY <1>1, <1>2
  <2> HIDE DEF v
  <2>3. QED
    BY <2>1, <2>2, PutVC
<1>6. Fresh(i)
  BY <1>1, <1>2, UnusedType DEF Open, InStage, Asking, Asked, Granted, Refused, Joined, Dropped, Gone,
     Waiting, X
<1>7. X(i)' = e /\ Y(i)' = Y(i) /\ WX(i)' = WX(i) /\ WY(i)' = WY(i)
  <2>1. Y(i)' = Y(i) /\ WY(i)' = WY(i)
    BY <1>2, <1>4, TwoProcs, FarEnds DEF Y, WY, EndsElse
  <2>2. QED
    BY <1>2, <1>4, <2>1 DEF X, WX
<1>8. Asking(i)'
  BY <1>3, <1>6, <1>7 DEF Asking, Fresh, Quiet
<1>9. InStage(i)' /\ ~Linked(i)'
  BY <1>3, <1>7, <1>8 DEF InStage, Linked, Granted, Joined, Waiting
<1>10. \A j \in Id : j # i => InStage(j)' /\ (Trying(j)' <=> Trying(j)) /\ (Linked(j)' <=> Linked(j))
  BY <1>1, <1>4, Untouched, Frame DEF Open
<1>11. AttemptInv(i)'
  BY <1>2, <1>5, <1>9, AttemptPrimed
<1>12. ASSUME NEW j \in Id, j # i PROVE AttemptInv(j)'
  <2>1. AttemptInv(j) /\ (Trying(j)' <=> Trying(j)) /\ (Linked(j)' <=> Linked(j))
    BY <1>1, <1>10, <1>12 DEF Open
  <2>2. vc[p].conn = Null
    BY <1>1 DEF VCInv
  <2>3. ~Linked(j)
    BY <2>1, <2>2, TwoEnds DEF AttemptInv
  <2>4. CASE j[1] = p
    <3>1. ~Trying(j)
      BY <2>1, <2>2, <2>4, TwoEnds DEF AttemptInv, Yielded
    <3>2. QED
      BY <2>1, <2>3, <3>1, AttemptPrimed
  <2>5. CASE j[1] # p
    <3>1. vc'[j[1]] = vc[j[1]]
      BY <1>5, <2>5, TwoEnds DEF VCElse
    <3>2. QED
      BY <2>1, <2>3, <3>1, AttemptPrimed DEF AttemptInv, Yielded
  <2>6. QED
    BY <2>4, <2>5
<1>13. VCInv(p)'
  BY <1>3, <1>4, <1>5 DEF VCInv, Holds, HeldStates, Handshake
<1>14. Open'
  BY <1>1, <1>4, <1>5, <1>9, <1>10, <1>11, <1>12, <1>13, VCElsewhere DEF Open
<1>15. /\ sendq' \in [Proc -> Seq(Msg)] /\ sendq'[p] # <<>>
       /\ \A q \in Proc : q # p => sendq'[q] = sendq[q]
  <2>1. Append(sendq[p], m) \in Seq(Msg) /\ Append(sendq[p], m) # <<>>
    BY <1>1
  <2>2. QED
    BY <1>1, <2>1 DEF TypeInv, Enqueue
<1>16. ASSUME NEW q \in Proc PROVE ActiveInv(q)'
  <2>1. \A j \in Id : q # p \/ j # i => conn'[q][j] = conn[q][j]
    BY <1>4 DEF EndsElse
  <2>2. ActiveInv(q) /\ (sendq[q] # <<>> => sendq'[q] # <<>>)
    BY <1>15 DEF ConnInv
  <2>3. QED
    BY <1>3, <1>4, <2>1, <2>2 DEF ActiveInv
<1>17. QED
  BY <1>1, <1>4, <1>5, <1>14, <1>15, <1>16, Assemble DEF TypeInv

LEMMA SendStep ==
  ASSUME ConnInv, NEW p \in Proc, NEW m \in Msg, Send(p, m)
  PROVE  ConnInv'
<1>1. closing = {} /\ closing' = closing
  BY DEF Send
<1>2. CASE vc[p].state = "CONNECTED" /\ SendConnected(p, m) /\ vc' = vc
  BY <1>1, <1>2, SendConnectedStep
<1>3. CASE vc[p].state = "UNCONNECTED" /\ Enqueue(p, m) /\ PostConnect(p) /\ wire' = wire
  BY <1>1, <1>3, PostConnectStep
<1>4. CASE Enqueue(p, m) /\ vc' = vc /\ conn' = conn /\ wire' = wire
  <2>1. TypeInv /\ Open /\ sendq[p] \in Seq(Msg)
    BY <1>1, Types DEF ConnInv
  <2>2. Append(sendq[p], m) \in Seq(Msg) /\ Append(sendq[p], m) # <<>>
    BY <2>1
  <2>3. /\ sendq' \in [Proc -> Seq(Msg)]
        /\ \A q \in Proc : sendq[q] # <<>> => sendq'[q] # <<>>
    BY <1>4, <2>1, <2>2 DEF TypeInv, Enqueue
  <2>4. \A q \in Proc : ActiveInv(q)'
    BY <1>4, <2>3 DEF ConnInv, ActiveInv
  <2>5. Open'
    <3>1. \A j \in Id : Same(j)
      BY <1>4, FarEnds DEF Same, X, Y, WX, WY
    <3>2. \A j \in Id : InStage(j)' /\ AttemptInv(j)'
      BY <1>4, <2>1, <3>1, Frame, AttemptPrimed DEF Open, AttemptInv, Yielded
    <3>3. \A q \in Proc : VCInv(q)'
      BY <1>4, <2>1 DEF Open, VCInv, Holds, HeldStates
    <3>4. QED
      BY <3>2, <3>3 DEF Open
  <2>6. QED
    BY <1>1, <1>4, <2>1, <2>3, <2>4, <2>5, Assemble DEF TypeInv
<1>5. QED
  BY <1>2, <1>3, <1>4 DEF Send

-----------------------------------------------------------------------------
(***************************************************************************)
(* The VCs close.                                                          *)
(***************************************************************************)
LEMMA CloseProtocolStep ==
  ASSUME ConnInv, ~LateConnects, CloseProtocol
  PROVE  ConnInv'
<1>1. /\ closing = {} /\ closing' = Proc /\ Pending = {}
      /\ vc' = vc /\ sendq' = sendq /\ conn' = conn /\ wire' = wire
      /\ \A p \in Proc : vc[p].state = "CONNECTED" /\ sendq[p] = <<>>
      /\ \A p \in Proc, i \in Id : \A k \in DOMAIN wire[p][i] : wire[p][i][k].type # "data"
  BY DEF CloseProtocol, Empty
<1>2. TypeInv /\ Open
  BY <1>1 DEF ConnInv
<1>3. \A p \in Proc, i \in Id : conn[p][i].state \in {"unused", "CONNECTED", "CLOSED"}
  BY <1>1 DEF Pending
<1>4. ASSUME NEW p \in Proc
      PROVE  /\ vc[p].conn \in Id /\ conn[p][vc[p].conn].vc
             /\ conn[p][vc[p].conn].state = "CONNECTED"
  <2>1. vc[p].conn \in Id
    BY <1>1, <1>2, Types DEF Open, VCInv, VC
  <2>2. QED
    BY <1>1, <1>2, <2>1, TwoEnds DEF Open, VCInv, Holds, HeldStates
<1>5. PICK p \in Proc : TRUE
  BY SockConnAssumption
<1>6. PICK i \in Id : i = vc[p].conn
  BY <1>4
<1>7. Joined(i) /\ \A q \in Proc : vc[q].conn = i
  <2>1. InStage(i) /\ AttemptInv(i) /\ Linked(i)
    BY <1>1, <1>2, <1>4, <1>6, UpEnd DEF Open
  <2>2. Joined(i)
    BY <1>3, <2>1, TwoEnds DEF Linked, Granted, Waiting, X
  <2>3. QED
    BY <2>1, <2>2, TwoEnds DEF AttemptInv
<1>8. Quiet(i)
  <2>1. \A q \in Proc : AllData(wire[q][i]) /\ wire[q][i] \in Seq(Packet)
    BY <1>2, <1>7, TwoEnds, Types DEF Joined, WX, WY
  <2>2. \A q \in Proc : wire[q][i] = <<>>
    BY <1>1, <2>1 DEF AllData
  <2>3. QED
    BY <2>2, TwoEnds DEF Quiet, WX, WY
<1>9. ASSUME NEW j \in Id \ {i} PROVE Fresh(j) \/ Over(j)
  <2>1. InStage(j) /\ AttemptInv(j)
    BY <1>2 DEF Open
  <2>2. ~Linked(j)
    BY <1>7, <2>1, TwoEnds DEF AttemptInv
  <2>3. /\ X(j).state \in {"unused", "CONNECTED", "CLOSED"}
        /\ Y(j).state \in {"unused", "CONNECTED", "CLOSED"}
    BY <1>3, TwoEnds DEF X, Y
  <2>4. QED
    BY <2>1, <2>2, <2>3 DEF InStage, Linked, Fresh, Asking, Asked, Refused, Dropped, Gone, Waiting, Over
<1>10. Ending(i)'
  <2>1. \A j \in Id : Same(j)
    BY <1>1, FarEnds DEF Same, X, Y, WX, WY
  <2>2. \A j \in Id \ {i} : Fresh(j)' \/ Over(j)'
    BY <1>9, <2>1, Frame
  <2>3. Quiet(i)'
    BY <1>8, <2>1 DEF Same, Quiet
  <2>4. \A q \in Proc : EndingAt(q, i)' /\ sendq'[q] = <<>>
    BY <1>1, <1>4, <1>7 DEF EndingAt
  <2>5. QED
    BY <2>2, <2>3, <2>4 DEF Ending
<1>11. \A q \in Proc : ActiveInv(q)'
  BY <1>1 DEF ConnInv, ActiveInv
<1>12. TypeInv'
  BY <1>1, <1>2 DEF TypeInv
<1>13. QED
  BY <1>1, <1>5, <1>10, <1>11, <1>12 DEF ConnInv

LEMMA TerminateStep ==
  ASSUME ConnInv, NEW p \in Proc, Terminate(p)
  PROVE  ConnInv'
<1>1. PICK i \in Id : Ending(i)
  BY DEF ConnInv, Terminate
<1>2. TypeInv /\ vc[p].conn = i /\ vc[p].state = "CONNECTED" /\ conn[p][i].vc
  BY <1>1 DEF ConnInv, Ending, EndingAt, Terminate
<1> DEFINE e == [conn[p][i] EXCEPT !.state = "CLOSING", !.reading = FALSE]
<1>3. /\ conn' = [conn EXCEPT ![p][i] = e] /\ vc' = vc /\ sendq' = sendq /\ wire' = wire
      /\ closing' = closing /\ closing # {}
  BY <1>2 DEF Terminate
<1>4. conn[p][i] \in End /\ ~conn[p][i].active
  BY <1>1, <1>2, Types DEF Ending, ConnInv, ActiveInv
<1>5. e \in End /\ e.state = "CLOSING" /\ e.vc /\ ~e.active
  <2>1. e \in End
    BY <1>4, EndTypes, Zenon DEF ConnStates
  <2>2. e.state = "CLOSING" /\ e.vc /\ ~e.active
    BY <1>2, <1>4 DEF End, Rec
  <2> HIDE DEF e
  <2>3. QED
    BY <2>1, <2>2
<1> HIDE DEF e
<1>6. conn' \in [Proc -> [Id -> End]] /\ EndsElse(p, i) /\ conn'[p][i] = e
  BY <1>2, <1>3, <1>5, PutEnd, Zenon
<1>7. Ending(i)'
  <2>1. \A j \in Id : j # i => Same(j)
    BY <1>3, <1>6, Untouched
  <2>2. \A j \in Id \ {i} : Fresh(j)' \/ Over(j)'
    BY <1>1, <2>1, Frame DEF Ending
  <2>3. Quiet(i)'
    BY <1>1, <1>3, FarEnds DEF Ending, Quiet, WX, WY
  <2>4. ASSUME NEW q \in Proc PROVE EndingAt(q, i)' /\ sendq'[q] = <<>>
    <3>1. EndingAt(q, i) /\ sendq[q] = <<>>
      BY <1>1 DEF Ending
    <3>2. CASE q = p
      BY <1>2, <1>3, <1>5, <1>6, <3>1, <3>2 DEF EndingAt, Terminate
    <3>3. CASE q # p
      BY <1>3, <1>6, <3>1, <3>3 DEF EndingAt, EndsElse
    <3>4. QED
      BY <3>2, <3>3
  <2>5. QED
    BY <2>2, <2>3, <2>4 DEF Ending
<1>8. \A q \in Proc : ActiveInv(q)'
  BY <1>3, <1>5, <1>6, ActiveKept
<1>9. QED
  BY <1>2, <1>3, <1>6, <1>7, <1>8 DEF ConnInv, TypeInv

LEMMA HandleCloseStep ==
  ASSUME ConnInv, NEW p \in Proc, NEW i \in Id, HandleClose(p, i)
  PROVE  ConnInv'
<1> DEFINE c == conn[p][i]
           e == [Unused EXCEPT !.state = "CLOSED"]
<1>1. /\ c.state = "CLOSING" /\ TypeInv /\ sendq' = sendq /\ wire' = wire
      /\ conn' = [conn EXCEPT ![p][i] = e]
  BY DEF HandleClose, ConnInv
<1>2. e \in End /\ e.state = "CLOSED" /\ ~e.vc /\ ~e.active
  <2>1. e \in End
    BY UnusedType, EndTypes, Zenon DEF ConnStates
  <2>2. e.state = "CLOSED" /\ ~e.vc /\ ~e.active
    BY DEF Unused
  <2> HIDE DEF e
  <2>3. QED
    BY <2>1, <2>2, Zenon
<1> HIDE DEF e
<1>3. conn' \in [Proc -> [Id -> End]] /\ EndsElse(p, i) /\ conn'[p][i] = e
  BY <1>1, <1>2, PutEnd
<1>4. \A j \in Id : j # i => Same(j)
  BY <1>1, <1>3, Untouched
<1>5. \A q \in Proc : ActiveInv(q)'
  BY <1>1, <1>2, <1>3, ActiveKept
<1>6. CASE closing = {}
  <2>1. Open /\ InStage(i) /\ VCInv(p)
    BY <1>6 DEF ConnInv, Open
  <2>2. ~c.vc
    BY <1>1, <2>1, Sides
  <2>3. vc' = vc /\ closing' = closing
    BY <2>2 DEF HandleClose
  <2>4. InStage(i)' /\ (Trying(i)' => Trying(i)) /\ ~Linked(i)'
    <3>1. WX(i)' = WX(i) /\ WY(i)' = WY(i)
      BY <1>1, FarEnds DEF WX, WY
    <3>2. CASE p = i[1]
      <4>1. X(i)' = e /\ Y(i)' = Y(i)
        BY <1>3, <3>2, TwoEnds, TwoProcs, FarEnds DEF X, Y, EndsElse
      <4>2. Dropped(i)
        BY <1>1, <2>1, <3>2 DEF InStage, Fresh, Asking, Asked, Granted, Refused, Joined, Waiting, X
      <4>3. Dropped(i)'
        BY <1>2, <3>1, <4>1, <4>2 DEF Dropped, Gone, Quiet
      <4>4. QED
        BY <1>2, <4>1, <4>3 DEF InStage, Linked, Granted, Joined, Trying, Handshake, Waiting
    <3>3. CASE p = Peer(i[1]) /\ p # i[1]
      <4>1. X(i)' = X(i) /\ Y(i)' = e
        BY <1>3, <3>3, TwoEnds, FarEnds DEF X, EndsElse
      <4>2. Refused(i) \/ Dropped(i)
        BY <1>1, <2>1, <3>3 DEF InStage, Fresh, Asking, Asked, Granted, Joined, Agreed, Y
      <4>3. Refused(i)' \/ Dropped(i)'
        BY <1>2, <3>1, <4>1, <4>2 DEF Refused, Dropped, Gone, Quiet
      <4>4. QED
        BY <1>2, <4>1, <4>3 DEF InStage, Linked, Granted, Joined, Agreed, Trying
    <3>4. QED
      BY <3>2, <3>3, TwoEnds
  <2>5. vc[p].conn # i
    BY <2>1, <2>2, TwoEnds DEF VCInv, Holds
  <2>6. Open'
    BY <1>1, <1>2, <1>3, <2>1, <2>3, <2>4, <2>5, QuietStep DEF OneWire, Idle
  <2>7. QED
    BY <1>1, <1>3, <1>5, <1>6, <2>3, <2>6, Assemble DEF TypeInv
<1>7. CASE closing # {}
  <2>1. PICK j \in Id : Ending(j)
    BY <1>7 DEF ConnInv
  <2>2. i = j
    BY <1>1, <2>1, TwoEnds DEF Ending, Fresh, Over, X, Y
  <2>3. p \in closing /\ c.vc /\ vc[p].conn = i
    BY <1>1, <2>1, <2>2 DEF Ending, EndingAt
  <2>4. /\ closing' = closing \ {p}
        /\ vc' = [vc EXCEPT ![p] = [state |-> "UNCONNECTED", conn |-> Null]]
    BY <2>3 DEF HandleClose
  <2>5. /\ vc' \in [Proc -> VC] /\ VCElse(p)
        /\ vc'[p].state = "UNCONNECTED" /\ vc'[p].conn = Null
    <3> DEFINE v == [state |-> "UNCONNECTED", conn |-> Null]
    <3>1. v \in VC /\ v.state = "UNCONNECTED" /\ v.conn = Null
      BY DEF VC
    <3>2. TypeInv /\ vc' = [vc EXCEPT ![p] = v]
      BY <1>1, <2>4
    <3> HIDE DEF v
    <3>3. QED
      BY <3>1, <3>2, PutVC
  <2>6. TypeInv'
    BY <1>1, <1>3, <2>4, <2>5 DEF TypeInv
  <2>7. Ending(i)'
    <3>1. \A k \in Id \ {i} : Fresh(k)' \/ Over(k)'
      BY <1>4, <2>1, <2>2, Frame DEF Ending
    <3>2. Quiet(i)'
      BY <1>1, <2>1, <2>2, FarEnds DEF Ending, Quiet, WX, WY
    <3>3. ASSUME NEW q \in Proc PROVE EndingAt(q, i)' /\ sendq'[q] = <<>>
      <4>1. EndingAt(q, i) /\ sendq[q] = <<>>
        BY <2>1, <2>2 DEF Ending
      <4>2. CASE q = p
        BY <1>1, <1>2, <1>3, <2>4, <2>5, <4>1, <4>2 DEF EndingAt
      <4>3. CASE q # p
        BY <1>1, <1>3, <2>4, <2>5, <4>1, <4>3 DEF EndingAt, EndsElse, VCElse
      <4>4. QED
        BY <4>2, <4>3
    <3>4. QED
      BY <3>1, <3>2, <3>3 DEF Ending
  <2>8. ASSUME closing' = {} PROVE Open'
    <3>1. \A q \in Proc : /\ conn'[q][i].state = "CLOSED" /\ ~conn'[q][i].vc
                          /\ vc'[q].state = "UNCONNECTED" /\ vc'[q].conn = Null
      BY <2>7, <2>8 DEF Ending, EndingAt
    <3>2. Over(i)'
      BY <2>7, <3>1, TwoEnds, FarEnds DEF Ending, Over, X
    <3>3. \A k \in Id : Fresh(k)' \/ Over(k)'
      BY <2>7, <3>2 DEF Ending
    <3>4. \A k \in Id : InStage(k)' /\ ~Trying(k)' /\ ~Linked(k)'
      BY <3>3 DEF InStage, Fresh, Over, Dropped, Gone, Trying, Linked, Granted, Joined, Handshake, Waiting
    <3>5. \A k \in Id : AttemptInv(k)'
      BY <3>4, AttemptPrimed
    <3>6. \A q \in Proc, k \in Id : conn'[q][k].state \in {"unused", "CLOSED"}
      BY <3>3, TwoEnds, FarEnds DEF Fresh, Over, X
    <3>7. \A q \in Proc : VCInv(q)'
      BY <3>1, <3>6 DEF VCInv, Holds
    <3>8. QED
      BY <3>4, <3>5, <3>7 DEF Open
  <2>9. QED
    BY <1>5, <2>6, <2>7, <2>8 DEF ConnInv
<1>8. QED
  BY <1>6, <1>7

-----------------------------------------------------------------------------
(***************************************************************************)
(* The invariant, and what it implies.                                     *)
(***************************************************************************)
LEMMA ConnInit == Init => ConnInv
<1> SUFFICES ASSUME Init PROVE ConnInv
  OBVIOUS
<1>1. /\ closing = {}
      /\ \A p \in Proc : /\ vc[p].state = "UNCONNECTED" /\ vc[p].conn = Null
                         /\ \A i \in Id : conn[p][i] = Unused /\ wire[p][i] = <<>>
  BY DEF Init
<1>2. TypeInv
  <2>1. [state |-> "UNCONNECTED", conn |-> Null] \in VC /\ <<>> \in Seq(Msg) /\ <<>> \in Seq(Packet)
    BY DEF VC
  <2>2. Unused \in End
    BY UnusedType
  <2>3. QED
    BY <2>1, <2>2 DEF Init, TypeInv
<1>3. \A i \in Id : Fresh(i) /\ ~Trying(i) /\ ~Linked(i)
  BY <1>1, TwoEnds, UnusedType
     DEF Fresh, Trying, Linked, Granted, Joined, Quiet, X, Y, WX, WY, Handshake, Waiting
<1>4. \A p \in Proc : VCInv(p) /\ ActiveInv(p)
  BY <1>1, UnusedType DEF VCInv, Holds, ActiveInv
<1>5. QED
  BY <1>1, <1>2, <1>3, <1>4 DEF ConnInv, Open, InStage, AttemptInv

LEMMA ConnStep == ~LateConnects /\ ConnInv /\ [Next]_vars => ConnInv'
<1> SUFFICES ASSUME ~LateConnects, ConnInv, [Next]_vars PROVE ConnInv'
  OBVIOUS
<1>1. CASE UNCHANGED vars
  <2>1. /\ vc' = vc /\ sendq' = sendq /\ conn' = conn /\ wire' = wire /\ closing' = closing
    BY <1>1 DEF vars
  <2>2. \A i \in Id : Same(i)
    BY <2>1, FarEnds DEF Same, X, Y, WX, WY
  <2>3. \A p \in Proc : ActiveInv(p)' /\ (VCInv(p) => VCInv(p)')
    BY <2>1 DEF ConnInv, ActiveInv, VCInv, Holds, HeldStates
  <2>4. closing = {} => Open'
    BY <2>1, <2>2, <2>3, Frame, AttemptPrimed DEF ConnInv, Open, AttemptInv, Yielded
  <2>5. ASSUME NEW i \in Id, Ending(i) PROVE Ending(i)'
    <3>1. Quiet(i)'
      BY <2>2, <2>5 DEF Ending, Same, Quiet
    <3>2. \A j \in Id \ {i} : Fresh(j)' \/ Over(j)'
      BY <2>2, <2>5, Frame DEF Ending
    <3>3. \A p \in Proc : EndingAt(p, i)' /\ sendq'[p] = <<>>
      BY <2>1, <2>5 DEF Ending, EndingAt
    <3>4. QED
      BY <3>1, <3>2, <3>3 DEF Ending
  <2>6. TypeInv'
    BY <2>1 DEF ConnInv, TypeInv
  <2>7. QED
    BY <2>1, <2>3, <2>4, <2>5, <2>6 DEF ConnInv
<1>2. ASSUME NEW p \in Proc, NEW m \in Msg, Send(p, m) PROVE ConnInv'
  BY <1>2, SendStep
<1>3. ASSUME NEW p \in Proc, NEW i \in Id, Event(p, i) PROVE ConnInv'
  BY <1>3, HandleConnectStep, HandleAcceptStep, HandleOpenReqStep, HandleConnopenStep,
     HandleAckStep, HandleNakStep, HandleDataStep, WroteMessageStep, WroteOpenReqStep,
     WroteOpenRespStep, HandleCloseStep DEF Event
<1>4. CASE CloseProtocol
  BY <1>4, CloseProtocolStep
<1>5. ASSUME NEW p \in Proc, Terminate(p) PROVE ConnInv'
  BY <1>5, TerminateStep
<1>6. QED
  BY <1>1, <1>2, <1>3, <1>4, <1>5 DEF Next

LEMMA ConnAlways == ASSUME ~LateConnects PROVE Spec => []ConnInv
BY ConnInit, ConnStep, PTL DEF Spec

(***************************************************************************)
(* The VC of a process never holds a connection structure that was freed.  *)
(***************************************************************************)
THEOREM HeldIsAllocated ==
  ASSUME ~LateConnects
  PROVE  Spec => []TypeOK
<1>1. ConnInv => TypeOK
  <2> SUFFICES ASSUME ConnInv PROVE TypeOK
    OBVIOUS
  <2>1. TypeInv
    BY DEF ConnInv
  <2>2. ASSUME NEW p \in Proc, vc[p].conn # Null
        PROVE  conn[p][vc[p].conn].vc /\ conn[p][vc[p].conn].state \notin {"unused", "CLOSED"}
    <3>1. CASE closing = {}
      BY <2>2, <3>1 DEF ConnInv, Open, VCInv, Holds, HeldStates, Handshake
    <3>2. CASE closing # {}
      <4>1. PICK i \in Id : Ending(i)
        BY <3>2 DEF ConnInv
      <4>2. QED
        BY <2>2, <4>1 DEF Ending, EndingAt
    <3>3. QED
      BY <3>1, <3>2
  <2>3. /\ vc \in [Proc -> [state : {"UNCONNECTED", "CONNECTING", "CONNECTED"}, conn : Id \cup {Null}]]
        /\ sendq \in [Proc -> Seq(Msg)] /\ wire \in [Proc -> [Id -> Seq(Packet)]] /\ closing \subseteq Proc
        /\ conn \in [Proc -> [Id -> [state : ConnStates, vc : BOOLEAN, active : BOOLEAN,
                                     reading : BOOLEAN, writing : BOOLEAN, ack : BOOLEAN]]]
    BY <2>1 DEF TypeInv, VC, End, Rec
  <2>4. QED
    BY <2>2, <2>3, Zenon DEF TypeOK
<1>2. QED
  BY <1>1, ConnAlways, PTL

(***************************************************************************)
(* The assertions of the connection code hold: the ack comes for the       *)
(* connection the VC holds, nothing is left to send on a connection that   *)
(* closes, and Connection_terminate finds a connection.                    *)
(***************************************************************************)
THEOREM AssertionsAlwaysHold ==
  ASSUME ~LateConnects
  PROVE  Spec => []AssertionsHold
<1>1. ConnInv => AssertionsHold
  <2> SUFFICES ASSUME ConnInv, NEW p \in Proc
               PROVE  /\ \A i \in Id : /\ conn[p][i].state = "OPEN_CRECV" /\ Arrived(p, i, "ack") => vc[p].conn = i
                                       /\ conn[p][i].state = "CLOSING" => ~conn[p][i].active
                      /\ p \in closing => vc[p].conn # Null
    BY DEF AssertionsHold
  <2>1. ASSUME NEW i \in Id, conn[p][i].state = "OPEN_CRECV", Arrived(p, i, "ack")
        PROVE  vc[p].conn = i
    <3>1. InStage(i) /\ AttemptInv(i)
      BY <2>1, Busy
    <3>2. p = i[1] /\ wire[Peer(p)][i] # <<>> /\ Head(wire[Peer(p)][i]).type = "ack"
      BY <2>1, <3>1, Sides DEF Handshake, Arrived
    <3>3. Granted(i)
      BY <2>1, <3>1, <3>2, PacketTypes DEF InStage, Fresh, Asking, Asked, Refused, Joined, Dropped,
         Gone, Quiet, X, WY
    <3>4. QED
      BY <3>1, <3>2, <3>3 DEF AttemptInv, Linked
  <2>2. ASSUME NEW i \in Id, conn[p][i].state = "CLOSING"
        PROVE  ~conn[p][i].active
    BY <2>2 DEF ConnInv, ActiveInv
  <2>3. ASSUME p \in closing
        PROVE  vc[p].conn # Null
    BY <2>3, TwoEnds DEF ConnInv, Ending, EndingAt
  <2>4. QED
    BY <2>1, <2>2, <2>3
<1>2. QED
  BY <1>1, ConnAlways, PTL

(***************************************************************************)
(* Whoever connected, both ends use the same connection: the tie of two    *)
(* processes that connect at once is broken the same way at both.          *)
(***************************************************************************)
THEOREM AlwaysOneConnection ==
  ASSUME ~LateConnects
  PROVE  Spec => []OneConnection
<1>1. ConnInv => OneConnection
  <2> SUFFICES ASSUME ConnInv PROVE OneConnection
    OBVIOUS
  <2>1. CASE closing = {}
    <3>1. \A p \in Proc, i \in Id : conn[p][i].state = "CONNECTED" => vc[p].conn = i
      BY <2>1, UpEnd
    <3>2. ASSUME \A p \in Proc : vc[p].state = "CONNECTED" /\ vc[p].conn # Null,
                 NEW p \in Proc, NEW q \in Proc
          PROVE  vc[p].conn = vc[q].conn
      <4>1. PICK i \in Id : i = vc[p].conn
        BY <3>2, Types DEF ConnInv, VC
      <4>2. conn[p][i].state = "CONNECTED"
        BY <2>1, <3>2, <4>1 DEF ConnInv, Open, VCInv, Holds, HeldStates
      <4>3. Linked(i) /\ AttemptInv(i)
        BY <2>1, <4>2, UpEnd DEF ConnInv, Open
      <4>4. QED
        BY <4>1, <4>3, TwoEnds DEF AttemptInv
    <3>3. QED
      BY <3>1, <3>2 DEF OneConnection
  <2>2. CASE closing # {}
    <3>1. PICK i \in Id : Ending(i)
      BY <2>2 DEF ConnInv
    <3>2. \A p \in Proc : vc[p].conn # Null => vc[p].conn = i
      BY <3>1 DEF Ending, EndingAt
    <3>3. \A p \in Proc, j \in Id : conn[p][j].state = "CONNECTED" => vc[p].conn = j
      BY <3>1, TwoEnds DEF Ending, EndingAt, Fresh, Over, X, Y
    <3>4. QED
      BY <3>2, <3>3 DEF OneConnection
  <2>3. QED
    BY <2>1, <2>2
<1>2. QED
  BY <1>1, ConnAlways, PTL
-----------------------------------------------------------------------------
(***************************************************************************)
(* The channel of the device.  A wire carries messages, after one control  *)
(* packet at most, and only the wires of the connection the VC holds.      *)
(***************************************************************************)
Orderly(s) == s = <<>> \/ AllData(Tail(s))

LEMMA MessageTypes ==
  ASSUME NEW s \in Seq(Packet), AllData(s)
  PROVE  /\ Messages(s) \in Seq(Msg) /\ DOMAIN Messages(s) = 1..Len(s)
         /\ \A k \in 1..Len(s) : Messages(s)[k] = s[k].msg /\ s[k].msg \in Msg
         /\ s # <<>> => Messages(s) # <<>>
<1>1. \A k \in 1..Len(s) : s[k] \in Packet /\ s[k].type = "data"
  BY DEF AllData
<1>2. \A x \in Packet : x.type = "data" => x.msg \in Msg
  BY DEF Packet
<1>3. s = <<>> \/ IsData(Head(s))
  BY <1>1 DEF IsData
<1>4. Messages(s) = [k \in 1..Len(s) |-> s[k].msg]
  BY <1>3 DEF Messages
<1>5. QED
  BY <1>1, <1>2, <1>4

LEMMA ControlFirst ==
  ASSUME NEW s \in Seq(Packet), s # <<>>, ~IsData(Head(s)), AllData(Tail(s))
  PROVE  Messages(s) = Messages(Tail(s)) /\ Tail(s) \in Seq(Packet)
<1>1. Tail(s) \in Seq(Packet)
  OBVIOUS
<1>2. Tail(s) = <<>> \/ IsData(Head(Tail(s)))
  <2> DEFINE t == Tail(s)
  <2>1. t \in Seq(Packet) /\ AllData(t)
    BY <1>1
  <2> HIDE DEF t
  <2>2. t # <<>> => Head(t).type = "data"
    BY <2>1, DataSeq
  <2>3. QED
    BY <2>2 DEF t, IsData
<1>3. QED
  BY <1>1, <1>2 DEF Messages

LEMMA NoMessages ==
  /\ Messages(<<>>) = <<>>
  /\ \A t \in {"open_req", "ack", "nak"} : Messages(<<Control(t)>>) = <<>>
<1>1. Messages(<<>>) = <<>>
  BY DEF Messages
<1>2. ASSUME NEW t \in {"open_req", "ack", "nak"} PROVE Messages(<<Control(t)>>) = <<>>
  <2>1. /\ <<Control(t)>> # <<>> /\ Head(<<Control(t)>>) = Control(t) /\ Tail(<<Control(t)>>) = <<>>
    OBVIOUS
  <2>2. Control(t).type = t
    BY PacketTypes
  <2>3. QED
    BY <2>1, <2>2 DEF Messages, IsData
<1>3. QED
  BY <1>1, <1>2

LEMMA MessageAdded ==
  ASSUME NEW s \in Seq(Packet), Orderly(s), NEW m \in Msg
  PROVE  Messages(Append(s, Data(m))) = Append(Messages(s), m) /\ Messages(s) \in Seq(Msg)
<1>1. ASSUME NEW d \in Seq(Packet), AllData(d)
      PROVE  Messages(Append(d, Data(m))) = Append(Messages(d), m) /\ Messages(d) \in Seq(Msg)
  <2> DEFINE e == Append(d, Data(m))
  <2>1. /\ e \in Seq(Packet) /\ AllData(e) /\ Len(e) = Len(d) + 1
        /\ \A k \in 1..Len(d) : e[k] = d[k]
        /\ e[Len(d) + 1] = Data(m)
    BY <1>1, PacketTypes, DataSeq
  <2>2. Data(m).msg = m
    BY DEF Data
  <2> HIDE DEF e
  <2>3. /\ Messages(e) \in Seq(Msg) /\ Messages(d) \in Seq(Msg)
        /\ Len(Messages(e)) = Len(d) + 1 /\ Len(Messages(d)) = Len(d)
        /\ \A k \in 1..Len(d) : Messages(e)[k] = Messages(d)[k]
        /\ Messages(e)[Len(d) + 1] = m
    BY <1>1, <2>1, <2>2, MessageTypes
  <2>4. Messages(e) = Append(Messages(d), m)
    BY <2>3
  <2>5. QED
    BY <2>3, <2>4 DEF e
<1>2. CASE AllData(s)
  BY <1>1, <1>2
<1>3. CASE ~AllData(s)
  <2>1. s # <<>> /\ AllData(Tail(s)) /\ Tail(s) \in Seq(Packet)
    BY <1>3 DEF Orderly, AllData
  <2>2. ~IsData(Head(s))
    <3> SUFFICES ASSUME IsData(Head(s)) PROVE AllData(s)
      BY <1>3
    <3>1. ASSUME NEW k \in 1..Len(s) PROVE s[k].type = "data"
      <4>1. CASE k = 1
        BY <4>1 DEF IsData
      <4>2. CASE k # 1
        <5>1. k - 1 \in 1..Len(Tail(s)) /\ Tail(s)[k - 1] = s[k]
          BY <2>1, <4>2
        <5>2. QED
          BY <2>1, <5>1 DEF AllData
      <4>3. QED
        BY <4>1, <4>2
    <3>2. QED
      BY <3>1 DEF AllData
  <2> DEFINE e == Append(s, Data(m))
  <2>3. e \in Seq(Packet) /\ e # <<>> /\ Head(e) = Head(s) /\ Tail(e) = Append(Tail(s), Data(m))
    BY <2>1, PacketTypes, DataSeq
  <2>4. AllData(Tail(e))
    BY <2>1, <2>3, DataSeq
  <2>5. Messages(s) = Messages(Tail(s))
    BY <2>1, <2>2, ControlFirst
  <2> HIDE DEF e
  <2>6. Messages(e) = Messages(Tail(e))
    BY <2>2, <2>3, <2>4, ControlFirst
  <2>7. QED
    BY <1>1, <2>1, <2>3, <2>5, <2>6 DEF e
<1>4. QED
  BY <1>2, <1>3

LEMMA MessageTaken ==
  ASSUME NEW s \in Seq(Packet), Orderly(s), s # <<>>, Head(s).type = "data"
  PROVE  Messages(s) \in Seq(Msg) /\ Messages(s) # <<>> /\ Messages(Tail(s)) = Tail(Messages(s))
<1>1. AllData(s)
  <2>1. AllData(Tail(s)) /\ Tail(s) \in Seq(Packet)
    BY DEF Orderly
  <2>2. ASSUME NEW k \in 1..Len(s) PROVE s[k].type = "data"
    <3>1. CASE k = 1
      BY <3>1
    <3>2. CASE k # 1
      <4>1. k - 1 \in 1..Len(Tail(s)) /\ Tail(s)[k - 1] = s[k]
        BY <3>2
      <4>2. QED
        BY <2>1, <4>1 DEF AllData
    <3>3. QED
      BY <3>1, <3>2
  <2>3. QED
    BY <2>2 DEF AllData
<1> DEFINE t == Tail(s)
<1>2. t \in Seq(Packet) /\ AllData(t) /\ Len(t) = Len(s) - 1 /\ \A k \in 1..Len(t) : t[k] = s[k + 1]
  BY <1>1, DataSeq
<1>3. Len(s) \in Nat /\ Len(s) > 0
  OBVIOUS
<1> HIDE DEF t
<1>4. /\ Messages(s) \in Seq(Msg) /\ Messages(t) \in Seq(Msg) /\ Messages(s) # <<>>
      /\ Len(Messages(s)) = Len(s) /\ Len(Messages(t)) = Len(s) - 1
      /\ \A k \in 1..Len(t) : Messages(t)[k] = Messages(s)[k + 1]
  BY <1>1, <1>2, <1>3, MessageTypes
<1>5. Messages(t) = Tail(Messages(s))
  BY <1>2, <1>3, <1>4
<1>6. QED
  BY <1>4, <1>5 DEF t

LEMMA Wires ==
  ASSUME ConnInv, NEW p \in Proc, NEW i \in Id
  PROVE  /\ Orderly(wire[p][i]) /\ wire[p][i] \in Seq(Packet)
         /\ Messages(wire[p][i]) # <<>> => vc[p].conn = i
<1>1. wire[p][i] \in Seq(Packet)
  BY Types DEF ConnInv
<1>2. p = i[1] \/ p = Peer(i[1])
  BY TwoEnds
<1>3. CASE closing # {}
  <2>1. wire[p][i] = <<>>
    BY <1>2, <1>3 DEF ConnInv, Ending, Fresh, Over, Quiet, WX, WY
  <2>2. QED
    BY <1>1, <2>1, NoMessages DEF Orderly
<1>4. CASE closing = {}
  <2>1. InStage(i) /\ AttemptInv(i)
    BY <1>4 DEF ConnInv, Open
  <2>2. CASE Linked(i)
    <3>1. vc[p].conn = i
      BY <1>2, <2>1, <2>2 DEF AttemptInv
    <3>2. AllData(wire[p][i]) \/ AllData(Tail(wire[p][i])) \/ wire[p][i] = <<>>
      BY <1>2, <2>2 DEF Linked, Granted, Joined, WX, WY
    <3>3. Orderly(wire[p][i])
      BY <1>1, <3>2, DataSeq DEF Orderly
    <3>4. QED
      BY <1>1, <3>1, <3>3
  <2>3. CASE ~Linked(i)
    <3>1. wire[p][i] \in {<<>>, <<Control("open_req")>>, <<Control("nak")>>}
      BY <1>2, <2>1, <2>3 DEF InStage, Linked, Fresh, Asking, Asked, Refused, Dropped, Quiet, WX, WY
    <3>2. Messages(wire[p][i]) = <<>>
      BY <3>1, NoMessages
    <3>3. Tail(<<Control("open_req")>>) = <<>> /\ Tail(<<Control("nak")>>) = <<>>
      OBVIOUS
    <3>4. Orderly(wire[p][i])
      BY <3>1, <3>3 DEF Orderly, AllData
    <3>5. QED
      BY <1>1, <3>2, <3>4
  <2>4. QED
    BY <2>2, <2>3
<1>5. QED
  BY <1>3, <1>4

(***************************************************************************)
(* What is under way from p: the messages on one wire, and those queued.   *)
(***************************************************************************)
LEMMA OnOneWire ==
  ASSUME NEW p \in Proc, NEW i \in Id
  PROVE  /\ (\A j \in Id : j # i => Messages(wire[p][j]) = <<>>)
              => Undelivered(p) = Messages(wire[p][i]) \o sendq[p]
         /\ (\A j \in Id : j # i => Messages(wire'[p][j]) = <<>>)
              => Undelivered(p)' = Messages(wire'[p][i]) \o sendq'[p]
<1>1. ASSUME NEW w, \A j \in Id : j # i => Messages(w[j]) = <<>>
      PROVE  (IF {j \in Id : Messages(w[j]) # <<>>} = {} THEN <<>>
              ELSE Messages(w[CHOOSE j \in {k \in Id : Messages(w[k]) # <<>>} : TRUE])) = Messages(w[i])
  <2> DEFINE L == {j \in Id : Messages(w[j]) # <<>>}
  <2>1. CASE Messages(w[i]) = <<>>
    <3>1. L = {}
      BY <1>1, <2>1
    <3>2. QED
      BY <2>1, <3>1
  <2>2. CASE Messages(w[i]) # <<>>
    <3>1. L = {i}
      BY <1>1, <2>2
    <3>2. (CHOOSE j \in L : TRUE) = i
      BY <3>1
    <3>3. QED
      BY <3>1, <3>2
  <2>3. QED
    BY <2>1, <2>2
<1>2. Undelivered(p) =
        (IF {j \in Id : Messages(wire[p][j]) # <<>>} = {} THEN <<>>
         ELSE Messages(wire[p][CHOOSE j \in {k \in Id : Messages(wire[p][k]) # <<>>} : TRUE])) \o sendq[p]
  BY DEF Undelivered, Live
<1>3. Undelivered(p)' =
        (IF {j \in Id : Messages(wire'[p][j]) # <<>>} = {} THEN <<>>
         ELSE Messages(wire'[p][CHOOSE j \in {k \in Id : Messages(wire'[p][k]) # <<>>} : TRUE])) \o sendq'[p]
  BY DEF Undelivered, Live, Messages, IsData
<1>4. QED
  BY <1>1, <1>2, <1>3

LEMMA SameMessages ==
  ASSUME NEW p \in Proc, \A j \in Id : Messages(wire'[p][j]) = Messages(wire[p][j])
  PROVE  /\ sendq'[p] = sendq[p] => Undelivered(p)' = Undelivered(p)
         /\ \E s : Undelivered(p) = s \o sendq[p] /\ Undelivered(p)' = s \o sendq'[p]
                   /\ (s = <<>> \/ \E j \in Id : s = Messages(wire[p][j]))
<1> DEFINE L == {j \in Id : Messages(wire[p][j]) # <<>>}
           M == {j \in Id : Messages(wire'[p][j]) # <<>>}
           k == CHOOSE j \in L : TRUE
<1>1. L = M
  OBVIOUS
<1>2. L # {} => k \in L
  OBVIOUS
<1>3. Undelivered(p) = (IF L = {} THEN <<>> ELSE Messages(wire[p][k])) \o sendq[p]
  BY DEF Undelivered, Live
<1>4. Undelivered(p)' = (IF M = {} THEN <<>> ELSE Messages(wire'[p][CHOOSE j \in M : TRUE])) \o sendq'[p]
  BY DEF Undelivered, Live, Messages, IsData
<1>5. L # {} => Messages(wire'[p][k]) = Messages(wire[p][k])
  BY <1>2
<1>6. Undelivered(p)' = (IF L = {} THEN <<>> ELSE Messages(wire[p][k])) \o sendq'[p]
  BY <1>1, <1>4, <1>5
<1>7. QED
  BY <1>2, <1>3, <1>6

LEMMA Concat ==
  ASSUME NEW s \in Seq(Msg), NEW t \in Seq(Msg), NEW m \in Msg
  PROVE  /\ s \o Append(t, m) = Append(s \o t, m)
         /\ t # <<>> => Append(s, Head(t)) \o Tail(t) = s \o t
         /\ s # <<>> => Tail(s) \o t = Tail(s \o t) /\ s \o t # <<>>
         /\ Append(s, m) \o <<>> = Append(s \o <<>>, m)
<1>1. s \o Append(t, m) = Append(s \o t, m)
  OBVIOUS
<1>2. t # <<>> => Append(s, Head(t)) \o Tail(t) = s \o t
  OBVIOUS
<1>3. s # <<>> => Tail(s) \o t = Tail(s \o t) /\ s \o t # <<>>
  OBVIOUS
<1>4. Append(s, m) \o <<>> = Append(s \o <<>>, m)
  OBVIOUS
<1>5. QED
  BY <1>1, <1>2, <1>3, <1>4

(***************************************************************************)
(* What one step does to the messages under way: from one process at most, *)
(* one message is added or the oldest is delivered.                        *)
(***************************************************************************)
Grows(p, m) == Undelivered(p)' = Append(Undelivered(p), m)
Shrinks(p) == Undelivered(p) # <<>> /\ Undelivered(p)' = Tail(Undelivered(p))
Rests(p) == Undelivered(p)' = Undelivered(p)
NothingMoves == \A p \in Proc : Rests(p)
Elsewhere(p) == \A q \in Proc : q # p => Rests(q)
OneMoves == \/ NothingMoves
            \/ \E p \in Proc : Elsewhere(p) /\ (Shrinks(p) \/ \E m \in Msg : Grows(p, m))

LEMMA QuietWires ==
  ASSUME sendq' = sendq, \A q \in Proc, j \in Id : Messages(wire'[q][j]) = Messages(wire[q][j])
  PROVE  NothingMoves
BY SameMessages DEF NothingMoves, Rests

LEMMA Enqueued ==
  ASSUME ConnInv, NEW p \in Proc, NEW m \in Msg, Enqueue(p, m), wire' = wire
  PROVE  OneMoves
<1>1. sendq[p] \in Seq(Msg) /\ sendq'[p] = Append(sendq[p], m)
      /\ \A q \in Proc : q # p => sendq'[q] = sendq[q]
  BY Types DEF ConnInv, TypeInv, Enqueue
<1>2. Elsewhere(p)
  BY <1>1, SameMessages DEF Elsewhere, Rests
<1>3. PICK s : /\ Undelivered(p) = s \o sendq[p] /\ Undelivered(p)' = s \o sendq'[p]
               /\ (s = <<>> \/ \E j \in Id : s = Messages(wire[p][j]))
  BY SameMessages
<1>4. s \in Seq(Msg)
  <2>1. \A j \in Id : Messages(wire[p][j]) \in Seq(Msg)
    BY Wires, MessageAdded
  <2>2. <<>> \in Seq(Msg)
    OBVIOUS
  <2>3. QED
    BY <1>3, <2>1, <2>2
<1>5. Grows(p, m)
  BY <1>1, <1>3, <1>4, Concat DEF Grows
<1>6. QED
  BY <1>2, <1>5 DEF OneMoves

(***************************************************************************)
(* A message is put on the wire of the connection: from the device, or the *)
(* head of the queue.                                                      *)
(***************************************************************************)
LEMMA PutOnWire ==
  ASSUME ConnInv, closing = {}, NEW p \in Proc, NEW i \in Id, vc[p].conn = i, NEW m \in Msg,
         Write(p, i, Data(m))
  PROVE  /\ Messages(wire[p][i]) \in Seq(Msg)
         /\ Undelivered(p) = Messages(wire[p][i]) \o sendq[p]
         /\ Undelivered(p)' = Append(Messages(wire[p][i]), m) \o sendq'[p]
         /\ (\A q \in Proc : q # p => sendq'[q] = sendq[q]) => Elsewhere(p)
<1>1. wire'[p][i] = Append(wire[p][i], Data(m)) /\ WireElse(p, i)
  BY Wrote, PacketTypes DEF ConnInv
<1>2. \A j \in Id : j # i => Messages(wire[p][j]) = <<>> /\ wire'[p][j] = wire[p][j]
  BY <1>1, Wires DEF WireElse
<1>3. /\ Messages(wire[p][i]) \in Seq(Msg)
      /\ Messages(wire'[p][i]) = Append(Messages(wire[p][i]), m)
  BY <1>1, Wires, MessageAdded
<1>4. /\ Undelivered(p) = Messages(wire[p][i]) \o sendq[p]
      /\ Undelivered(p)' = Messages(wire'[p][i]) \o sendq'[p]
  BY <1>2, OnOneWire
<1>5. \A q \in Proc : q # p => \A j \in Id : wire'[q][j] = wire[q][j]
  BY <1>1 DEF WireElse
<1>6. (\A q \in Proc : q # p => sendq'[q] = sendq[q]) => Elsewhere(p)
  BY <1>5, SameMessages DEF Elsewhere, Rests
<1>7. QED
  BY <1>3, <1>4, <1>6

LEMMA SendMoves ==
  ASSUME ConnInv, NEW p \in Proc, NEW m \in Msg, Send(p, m)
  PROVE  OneMoves
<1>1. CASE Enqueue(p, m) /\ wire' = wire
  BY <1>1, Enqueued
<1>2. CASE vc[p].state = "CONNECTED" /\ sendq[p] = <<>> /\ Write(p, vc[p].conn, Data(m)) /\ sendq' = sendq
  <2>1. closing = {} /\ vc[p].conn \in Id
    BY <1>2, Types DEF Send, ConnInv, Open, VCInv, VC
  <2>2. PICK i \in Id : i = vc[p].conn
    BY <2>1
  <2>3. /\ Messages(wire[p][i]) \in Seq(Msg)
        /\ Undelivered(p) = Messages(wire[p][i]) \o <<>>
        /\ Undelivered(p)' = Append(Messages(wire[p][i]), m) \o <<>>
        /\ Elsewhere(p)
    BY <1>2, <2>1, <2>2, PutOnWire
  <2>4. <<>> \in Seq(Msg)
    OBVIOUS
  <2>5. Grows(p, m)
    BY <2>3, <2>4, Concat DEF Grows
  <2>6. QED
    BY <2>3, <2>5 DEF OneMoves
<1>3. QED
  BY <1>1, <1>2 DEF Send, SendConnected

LEMMA WroteMessageMoves ==
  ASSUME ConnInv, NEW p \in Proc, NEW i \in Id, WroteMessage(p, i)
  PROVE  OneMoves
<1>1. /\ conn[p][i].active /\ Write(p, i, Data(Head(sendq[p])))
      /\ sendq' = [sendq EXCEPT ![p] = Tail(@)]
  BY DEF WroteMessage
<1>2. conn[p][i].state = "CONNECTED" /\ sendq[p] # <<>>
  BY <1>1 DEF ConnInv, ActiveInv
<1>3. closing = {}
  BY <1>2 DEF ConnInv, Ending
<1>4. vc[p].conn = i
  BY <1>2, <1>3, UpEnd
<1>5. sendq[p] \in Seq(Msg) /\ Head(sendq[p]) \in Msg
  BY <1>2, Types DEF ConnInv
<1>6. sendq'[p] = Tail(sendq[p]) /\ \A q \in Proc : q # p => sendq'[q] = sendq[q]
  BY <1>1 DEF ConnInv, TypeInv
<1>7. PICK m \in Msg : m = Head(sendq[p])
  BY <1>5
<1>8. /\ Messages(wire[p][i]) \in Seq(Msg)
      /\ Undelivered(p) = Messages(wire[p][i]) \o sendq[p]
      /\ Undelivered(p)' = Append(Messages(wire[p][i]), m) \o sendq'[p]
      /\ Elsewhere(p)
  BY <1>1, <1>3, <1>4, <1>6, <1>7, PutOnWire
<1>9. Rests(p)
  <2> DEFINE s == Messages(wire[p][i])
  <2>1. s \in Seq(Msg)
    BY <1>8
  <2> HIDE DEF s
  <2>2. Append(s, Head(sendq[p])) \o Tail(sendq[p]) = s \o sendq[p]
    BY <1>2, <1>5, <2>1, Concat
  <2>3. QED
    BY <1>6, <1>7, <1>8, <2>2 DEF Rests, s
<1>10. QED
  BY <1>8, <1>9 DEF OneMoves, NothingMoves, Elsewhere

LEMMA HandleDataMoves ==
  ASSUME ConnInv, NEW p \in Proc, NEW i \in Id, HandleData(p, i)
  PROVE  OneMoves
<1> DEFINE q == Peer(p)
<1>1. /\ q \in Proc /\ wire[q][i] # <<>> /\ Head(wire[q][i]).type = "data"
      /\ Read(p, i) /\ sendq' = sendq
  BY TwoProcs DEF HandleData, Arrived
<1>2. wire'[q][i] = Tail(wire[q][i]) /\ WireElse(q, i) /\ sendq[q] \in Seq(Msg)
  BY <1>1, WasRead, Types DEF ConnInv
<1> HIDE DEF q
<1>3. /\ Messages(wire[q][i]) \in Seq(Msg) /\ Messages(wire[q][i]) # <<>>
      /\ Messages(wire'[q][i]) = Tail(Messages(wire[q][i]))
  BY <1>1, <1>2, Wires, MessageTaken
<1>4. \A j \in Id : j # i => Messages(wire[q][j]) = <<>> /\ wire'[q][j] = wire[q][j]
  BY <1>1, <1>2, <1>3, Wires DEF WireElse
<1>5. /\ Undelivered(q) = Messages(wire[q][i]) \o sendq[q]
      /\ Undelivered(q)' = Messages(wire'[q][i]) \o sendq[q]
  BY <1>1, <1>4, OnOneWire
<1>6. Shrinks(q)
  <2> DEFINE s == Messages(wire[q][i])
  <2>1. s \in Seq(Msg) /\ s # <<>>
    BY <1>3
  <2>2. PICK m \in Msg : TRUE
    BY <2>1
  <2> HIDE DEF s
  <2>3. Tail(s) \o sendq[q] = Tail(s \o sendq[q]) /\ s \o sendq[q] # <<>>
    BY <1>2, <2>1, <2>2, Concat
  <2>4. QED
    BY <1>3, <1>5, <2>3 DEF Shrinks, s
<1>7. \A r \in Proc : r # q => \A j \in Id : wire'[r][j] = wire[r][j]
  BY <1>2 DEF WireElse
<1>8. Elsewhere(q)
  BY <1>1, <1>7, SameMessages DEF Elsewhere, Rests
<1>9. QED
  BY <1>1, <1>6, <1>8 DEF OneMoves

LEMMA AnswerMoves ==
  ASSUME ConnInv, NEW p \in Proc, NEW i \in Id, HandleAck(p, i) \/ HandleNak(p, i)
  PROVE  NothingMoves
<1> DEFINE q == Peer(p)
<1>1. /\ q \in Proc /\ wire[q][i] # <<>> /\ Head(wire[q][i]).type \in {"ack", "nak"}
      /\ Read(p, i) /\ sendq' = sendq
  BY TwoProcs DEF HandleAck, HandleNak, Arrived
<1>2. wire'[q][i] = Tail(wire[q][i]) /\ WireElse(q, i)
  BY <1>1, WasRead DEF ConnInv
<1> HIDE DEF q
<1>3. Messages(wire'[q][i]) = Messages(wire[q][i])
  BY <1>1, <1>2, Wires, ControlFirst DEF Orderly, IsData
<1>4. \A r \in Proc, j \in Id : Messages(wire'[r][j]) = Messages(wire[r][j])
  BY <1>2, <1>3 DEF WireElse
<1>5. QED
  BY <1>1, <1>4, QuietWires

LEMMA HandleConnectMoves ==
  ASSUME ConnInv, NEW p \in Proc, NEW i \in Id, HandleConnect(p, i)
  PROVE  NothingMoves
<1>1. conn[p][i].state = "CONNECTING" /\ sendq' = sendq /\ Write(p, i, Control("open_req"))
  BY DEF HandleConnect
<1>2. InStage(i) /\ p = i[1]
  BY <1>1, Busy, Sides DEF Handshake
<1>3. wire[p][i] = <<>>
  BY <1>1, <1>2 DEF InStage, Fresh, Asking, Asked, Granted, Refused, Joined, Dropped,
     Gone, Quiet, X, WX, Waiting
<1>4. wire'[p][i] = <<Control("open_req")>> /\ WireElse(p, i)
  <2>1. wire'[p][i] = Append(wire[p][i], Control("open_req")) /\ WireElse(p, i)
    BY <1>1, Wrote, PacketTypes DEF ConnInv
  <2>2. Append(<<>>, Control("open_req")) = <<Control("open_req")>>
    OBVIOUS
  <2>3. QED
    BY <1>3, <2>1, <2>2
<1>5. Messages(wire'[p][i]) = Messages(wire[p][i])
  BY <1>3, <1>4, NoMessages
<1>6. \A r \in Proc, j \in Id : Messages(wire'[r][j]) = Messages(wire[r][j])
  BY <1>4, <1>5 DEF WireElse
<1>7. QED
  BY <1>1, <1>6, QuietWires

LEMMA HandleConnopenMoves ==
  ASSUME ConnInv, NEW p \in Proc, NEW i \in Id, HandleConnopen(p, i)
  PROVE  NothingMoves
<1>1. /\ p = Peer(i[1]) /\ Peer(p) = i[1] /\ Asked(i) /\ \A j \in Id : j # i => Same(j)
      /\ WX(i)' = <<>> /\ WY(i)' \in {<<Control("ack")>>, <<Control("nak")>>}
  BY AnswerEffect
<1>2. sendq' = sendq
  BY DEF HandleConnopen
<1>3. ASSUME NEW r \in Proc, NEW j \in Id PROVE Messages(wire'[r][j]) = Messages(wire[r][j])
  <2>1. r = j[1] \/ r = Peer(j[1])
    BY TwoEnds
  <2>2. CASE j # i
    <3>1. WX(j)' = WX(j) /\ WY(j)' = WY(j)
      BY <1>1, <2>2 DEF Same
    <3>2. wire'[r][j] = wire[r][j]
      BY <2>1, <3>1, FarEnds DEF WX, WY
    <3>3. QED
      BY <3>2
  <2>3. CASE j = i /\ r = i[1]
    <3>1. wire'[r][j] = <<>> /\ wire[r][j] = <<Control("open_req")>>
      BY <1>1, <2>3 DEF WX, Asked
    <3>2. QED
      BY <3>1, NoMessages
  <2>4. CASE j = i /\ r = Peer(i[1])
    <3>1. wire'[r][j] \in {<<Control("ack")>>, <<Control("nak")>>} /\ wire[r][j] = <<>>
      BY <1>1, <2>4, FarEnds DEF WY, Asked
    <3>2. QED
      BY <3>1, NoMessages
  <2>5. QED
    BY <2>1, <2>2, <2>3, <2>4
<1>4. QED
  BY <1>2, <1>3, QuietWires

LEMMA StepMoves == ConnInv /\ [Next]_vars => OneMoves
<1> SUFFICES ASSUME ConnInv, [Next]_vars PROVE OneMoves
  OBVIOUS
<1>1. CASE wire' = wire /\ sendq' = sendq
  BY <1>1, QuietWires DEF OneMoves
<1>2. ASSUME NEW p \in Proc, NEW m \in Msg, Send(p, m) PROVE OneMoves
  BY <1>2, SendMoves
<1>3. ASSUME NEW p \in Proc, NEW i \in Id, Event(p, i), ~(wire' = wire /\ sendq' = sendq)
      PROVE  OneMoves
  <2>1. CASE HandleConnect(p, i) \/ HandleConnopen(p, i) \/ HandleAck(p, i) \/ HandleNak(p, i)
    BY <2>1, HandleConnectMoves, HandleConnopenMoves, AnswerMoves DEF OneMoves
  <2>2. CASE HandleData(p, i) \/ WroteMessage(p, i)
    BY <2>2, HandleDataMoves, WroteMessageMoves
  <2>3. QED
    BY <1>3, <2>1, <2>2 DEF Event, HandleAccept, HandleOpenReq, WroteOpenReq, WroteOpenResp, HandleClose
<1>4. QED
  BY <1>1, <1>2, <1>3 DEF Next, vars, CloseProtocol, Terminate

(***************************************************************************)
(* While connections are made, refused, closed and made again, the device  *)
(* sees a channel that neither loses, doubles nor reorders a message.      *)
(***************************************************************************)
THEOREM ChannelInOrder ==
  ASSUME ~LateConnects
  PROVE  Spec => ImplementsChannel
<1>1. Init => Channel!Init
  <2> SUFFICES ASSUME Init PROVE Chan = [p \in Proc |-> [q \in Proc |-> <<>>]]
    BY DEF Channel!Init
  <2>1. ASSUME NEW p \in Proc PROVE Undelivered(p) = <<>>
    <3>1. sendq[p] = <<>> /\ \A i \in Id : wire[p][i] = <<>>
      BY DEF Init
    <3>2. Live(p) = {}
      BY <3>1, NoMessages DEF Live
    <3>3. QED
      BY <3>1, <3>2 DEF Undelivered
  <2>2. QED
    BY <2>1 DEF Chan
<1>2. ConnInv /\ [Next]_vars => [Channel!Next]_Chan
  <2> SUFFICES ASSUME ConnInv, [Next]_vars PROVE Channel!Next \/ Chan' = Chan
    OBVIOUS
  <2> DEFINE new == [p \in Proc |-> [q \in Proc |-> IF p = q THEN <<>> ELSE Undelivered(p)']]
  <2>1. Chan' = new
    BY DEF Chan
  <2>2. CASE NothingMoves
    <3>1. new = Chan
      BY <2>2 DEF Chan, NothingMoves, Rests
    <3>2. QED
      BY <2>1, <3>1
  <2>3. ASSUME NEW p \in Proc, Elsewhere(p), Shrinks(p) \/ \E m \in Msg : Grows(p, m)
        PROVE  Channel!Next
    <3> DEFINE q == Peer(p)
    <3>1. q \in Proc /\ q # p /\ \A r \in Proc : r = p \/ r = q
      BY TwoProcs
    <3> HIDE DEF q
    <3>2. Chan[p][q] = Undelivered(p) /\ new[p][q] = Undelivered(p)'
      BY <3>1 DEF Chan
    <3>3. new = [Chan EXCEPT ![p][q] = Undelivered(p)']
      BY <2>3, <3>1 DEF Chan, Elsewhere, Rests
    <3>4. \/ \E m \in Msg : new[p][q] = Append(Chan[p][q], m)
          \/ Chan[p][q] # <<>> /\ new[p][q] = Tail(Chan[p][q])
      BY <2>3, <3>2 DEF Shrinks, Grows
    <3>5. new = [Chan EXCEPT ![p][q] = new[p][q]]
      BY <3>2, <3>3
    <3> HIDE DEF new
    <3>6. \E r, t \in Proc :
             /\ \/ \E m \in Msg : new[r][t] = Append(Chan[r][t], m)
                \/ Chan[r][t] # <<>> /\ new[r][t] = Tail(Chan[r][t])
             /\ new = [Chan EXCEPT ![r][t] = new[r][t]]
      BY <3>1, <3>4, <3>5
    <3>7. QED
      BY <2>1, <3>6 DEF Channel!Next
  <2>4. QED
    BY <2>2, <2>3, StepMoves DEF OneMoves
<1>3. QED
  BY <1>1, <1>2, ConnAlways, PTL DEF Spec, ImplementsChannel, Channel!Spec

===============================================================================
