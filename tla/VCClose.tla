------------------------------- MODULE VCClose -------------------------------
(***************************************************************************)
(* The close protocol of a CH3 virtual connection (VC), from               *)
(* src/mpid/ch3/src/ch3u_handle_connection.c.  Each process p keeps one VC *)
(* per peer q.  The channel below delivers packets of one direction of a   *)
(* connection in order; a closing connection is reported to the device by  *)
(* a TERMINATED event some time after MPIDI_CH3_Connection_terminate.      *)
(***************************************************************************)
EXTENDS Naturals, Sequences, FiniteSets

CONSTANTS Proc,         \* the processes
          MaxData,      \* bound: data packets in flight in one direction
          MaxOpen       \* bound: how often one side activates a VC

ASSUME VCCloseAssumption == /\ IsFiniteSet(Proc)
                            /\ MaxData \in Nat
                            /\ MaxOpen \in Nat

VARIABLES vcState,      \* vcState[p][q]: vc->state of p's VC to q
          wire,         \* wire[p][q]: packets sent by p, not yet handled by q
          terminating,  \* terminating[p][q]: Connection_terminate was called
          outstanding,  \* outstanding[p]: MPIDI_Outstanding_close_ops
          opens         \* opens[p][q]: activations by p, for the bound only

vars == <<vcState, wire, terminating, outstanding, opens>>

VCStates == {"INACTIVE", "ACTIVE", "LOCAL_CLOSE", "REMOTE_CLOSE", "CLOSE_ACKED"}

Open == [type |-> "open", ack |-> FALSE]
Data == [type |-> "data", ack |-> FALSE]
Close(ack) == [type |-> "close", ack |-> ack]
Packets == {Open, Data, Close(FALSE), Close(TRUE)}

Peers(p) == Proc \ {p}

(***************************************************************************)
(* Updates of one entry of the per-process tables.                         *)
(***************************************************************************)
Set(table, p, q, v) == [table EXCEPT ![p][q] = v]
Send(w, p, q, pkt) == Set(w, p, q, Append(w[p][q], pkt))
Consume(w, q, p) == Set(w, q, p, Tail(w[q][p]))

DataInFlight(s) == Cardinality({i \in 1..Len(s) : s[i] = Data})

-----------------------------------------------------------------------------
Init == /\ vcState = [p \in Proc |-> [q \in Proc |-> "INACTIVE"]]
        /\ wire = [p \in Proc |-> [q \in Proc |-> <<>>]]
        /\ terminating = [p \in Proc |-> [q \in Proc |-> FALSE]]
        /\ outstanding = [p \in Proc |-> 0]
        /\ opens = [p \in Proc |-> [q \in Proc |-> 0]]

(***************************************************************************)
(* MPIDI_Comm_get_vc on an inactive VC: the first message to q activates   *)
(* the VC and makes the channel open a connection.  The peer's previous    *)
(* close is over: a communicator that reaches q exists only after every    *)
(* member passed the barrier of its creation (SetupNewIntercomm), hence    *)
(* after it left the disconnect that closed the old connection.            *)
(***************************************************************************)
Comm_get_vc(p, q) ==
  /\ vcState[p][q] = "INACTIVE"
  /\ vcState[q][p] # "CLOSE_ACKED"
  /\ opens[p][q] < MaxOpen
  /\ vcState' = Set(vcState, p, q, "ACTIVE")
  /\ wire' = Send(wire, p, q, Open)
  /\ opens' = [opens EXCEPT ![p][q] = @ + 1]
  /\ UNCHANGED <<terminating, outstanding>>

(***************************************************************************)
(* A message on the VC.  The program does not send on a connection it is   *)
(* closing (its last communicator is gone).                                *)
(***************************************************************************)
SendData(p, q) ==
  /\ vcState[p][q] \in {"ACTIVE", "REMOTE_CLOSE"}
  /\ DataInFlight(wire[p][q]) < MaxData
  /\ wire' = Send(wire, p, q, Data)
  /\ UNCHANGED <<vcState, terminating, outstanding, opens>>

(***************************************************************************)
(* The ack a close packet carries: did the sender already see the other    *)
(* end's close?                                                            *)
(***************************************************************************)
CloseAck(s) == s # "ACTIVE"

(***************************************************************************)
(* MPIDI_CH3U_VC_SendClose: the ack says whether the peer's close was seen *)
(* and the state changes before the packet is handed to the channel.       *)
(***************************************************************************)
VC_SendClose_uncounted(p, q) ==   \* mutant: an answer to a close is not counted
  /\ vcState[p][q] \in {"ACTIVE", "REMOTE_CLOSE"}
  /\ outstanding' = IF vcState[p][q] = "ACTIVE" THEN [outstanding EXCEPT ![p] = @ + 1]
                                                ELSE outstanding
  /\ vcState' = Set(vcState, p, q,
                    IF vcState[p][q] = "ACTIVE" THEN "LOCAL_CLOSE" ELSE "CLOSE_ACKED")
  /\ wire' = Send(wire, p, q, Close(CloseAck(vcState[p][q])))
  /\ UNCHANGED <<terminating, opens>>

VC_SendClose(p, q) ==
  /\ vcState[p][q] \in {"ACTIVE", "REMOTE_CLOSE"}
  /\ outstanding' = [outstanding EXCEPT ![p] = @ + 1]
  /\ vcState' = Set(vcState, p, q,
                    IF vcState[p][q] = "ACTIVE" THEN "LOCAL_CLOSE" ELSE "CLOSE_ACKED")
  /\ wire' = Send(wire, p, q, Close(CloseAck(vcState[p][q])))
  /\ UNCHANGED <<terminating, opens>>

(***************************************************************************)
(* The open request of a new connection reaches p (MPIDI_PG_Get_vc).       *)
(***************************************************************************)
RecvOpen(p, q) ==
  /\ wire[q][p] # <<>> /\ Head(wire[q][p]) = Open
  /\ vcState' = IF vcState[p][q] = "INACTIVE" THEN Set(vcState, p, q, "ACTIVE")
                                              ELSE vcState
  /\ wire' = Consume(wire, q, p)
  /\ UNCHANGED <<terminating, outstanding, opens>>

RecvData(p, q) ==
  /\ wire[q][p] # <<>> /\ Head(wire[q][p]) = Data
  /\ wire' = Consume(wire, q, p)
  /\ UNCHANGED <<vcState, terminating, outstanding, opens>>

(***************************************************************************)
(* The states in which MPIDI_CH3_PktHandler_Close meets its assertions.    *)
(***************************************************************************)
CloseExpected(s, ack) ==
  IF ack THEN s \in {"LOCAL_CLOSE", "CLOSE_ACKED"}
         ELSE s \in {"ACTIVE", "LOCAL_CLOSE"}

(***************************************************************************)
(* What MPIDI_CH3_PktHandler_Close does in state s: answer with close(TRUE)*)
(* whatever the packet's ack says; the new state; whether to terminate the *)
(* connection.  Each is preceded by a mutant that gets it wrong.           *)
(***************************************************************************)
Answers_unacked_only(s, ack) == ~ack /\ s = "LOCAL_CLOSE"
Answers(s, ack) == s = "LOCAL_CLOSE"

CloseState_ack_ignored(s, ack) == IF ack THEN "CLOSE_ACKED" ELSE "REMOTE_CLOSE"
CloseState(s, ack) == IF ~ack /\ s = "ACTIVE" THEN "REMOTE_CLOSE" ELSE "CLOSE_ACKED"

Terminates_early(s, ack) == ack \/ s = "LOCAL_CLOSE"
Terminates(s, ack) == ack

(***************************************************************************)
(* MPIDI_CH3_PktHandler_Close.  A failed assertion aborts: there is no     *)
(* step.                                                                   *)
(***************************************************************************)
PktHandler_Close(p, q) ==
  /\ wire[q][p] # <<>> /\ Head(wire[q][p]).type = "close"
  /\ LET ack == Head(wire[q][p]).ack
         s   == vcState[p][q]
         w   == Consume(wire, q, p)
     IN /\ CloseExpected(s, ack)
        /\ wire' = IF Answers(s, ack) THEN Send(w, p, q, Close(TRUE)) ELSE w
        /\ vcState' = Set(vcState, p, q, CloseState(s, ack))
        /\ terminating' = IF Terminates(s, ack) THEN Set(terminating, p, q, TRUE) ELSE terminating
  /\ UNCHANGED <<outstanding, opens>>

(***************************************************************************)
(* MPIDI_CH3U_Handle_connection(vc, TERMINATED): any state but CLOSE_ACKED *)
(* is a fatal error.                                                       *)
(***************************************************************************)
Handle_connection(p, q) ==
  /\ terminating[p][q]
  /\ vcState[p][q] = "CLOSE_ACKED"
  /\ vcState' = Set(vcState, p, q, "INACTIVE")
  /\ terminating' = Set(terminating, p, q, FALSE)
  /\ outstanding' = [outstanding EXCEPT ![p] = @ - 1]
  /\ UNCHANGED <<wire, opens>>

Progress(p, q) == \/ RecvOpen(p, q)
                  \/ RecvData(p, q)
                  \/ PktHandler_Close(p, q)
                  \/ Handle_connection(p, q)

Next == \E p \in Proc : \E q \in Peers(p) :
           \/ Comm_get_vc(p, q)
           \/ SendData(p, q)
           \/ VC_SendClose(p, q)
           \/ RecvOpen(p, q)
           \/ RecvData(p, q)
           \/ PktHandler_Close(p, q)
           \/ Handle_connection(p, q)

Spec == Init /\ [][Next]_vars

(***************************************************************************)
(* Fairness: a process with a close outstanding sits in WaitForClose,      *)
(* which keeps calling MPID_Progress_wait until the count is zero.         *)
(***************************************************************************)
FairSpec == /\ Spec
            /\ \A p \in Proc : \A q \in Peers(p) : WF_vars(Progress(p, q))

-----------------------------------------------------------------------------
(***************************************************************************)
(* Type invariant of the VC tables and of the packet channels.             *)
(***************************************************************************)
TypeOK == /\ vcState \in [Proc -> [Proc -> VCStates]]
          /\ wire \in [Proc -> [Proc -> Seq(Packets)]]
          /\ terminating \in [Proc -> [Proc -> BOOLEAN]]
          /\ outstanding \in [Proc -> Nat]
          /\ opens \in [Proc -> [Proc -> Nat]]

(***************************************************************************)
(* The assertions of MPIDI_CH3_PktHandler_Close and the fatal error of     *)
(* MPIDI_CH3U_Handle_connection are never reached: whenever a close packet *)
(* is next to be handled, or a TERMINATED event is pending, the VC is in a *)
(* state the code expects.                                                 *)
(***************************************************************************)
AssertionsHold ==
  \A p \in Proc : \A q \in Peers(p) :
    /\ wire[q][p] # <<>> /\ Head(wire[q][p]).type = "close"
         => CloseExpected(vcState[p][q], Head(wire[q][p]).ack)
    /\ terminating[p][q] => vcState[p][q] = "CLOSE_ACKED"

(***************************************************************************)
(* MPIDI_CH3_Connection_terminate closes the connection: at that point     *)
(* every packet the peer sent was handled, and the peer will send no more  *)
(* until this side is inactive again, so the close loses nothing.          *)
(***************************************************************************)
TerminateLosesNothing ==
  \A p \in Proc : \A q \in Peers(p) :
    terminating[p][q] => /\ wire[q][p] = <<>>
                         /\ vcState[q][p] \in {"CLOSE_ACKED", "INACTIVE"}

(***************************************************************************)
(* MPIDI_Outstanding_close_ops counts exactly the VCs that are being       *)
(* closed: WaitForClose returns neither early nor never.                   *)
(***************************************************************************)
Closing(p) == {q \in Peers(p) : vcState[p][q] \in {"LOCAL_CLOSE", "CLOSE_ACKED"}}

OutstandingExact == \A p \in Proc : outstanding[p] = Cardinality(Closing(p))

(***************************************************************************)
(* Once both ends have started to close, both VCs become inactive.         *)
(***************************************************************************)
BothClosing(p, q) == q \in Closing(p) /\ p \in Closing(q)

CloseTerminates ==
  \A p \in Proc : \A q \in Peers(p) :
    BothClosing(p, q) ~> (vcState[p][q] = "INACTIVE")

-----------------------------------------------------------------------------
(***************************************************************************)
(* The inductive invariant: how the two ends of a VC and the packets       *)
(* between them fit together.  x and y are the states of the two ends.     *)
(***************************************************************************)
Has(s, pkt) == \E i \in 1..Len(s) : s[i] = pkt

OnlyTrue(s) == \A i \in 1..Len(s) : s[i] = Close(TRUE)

(* close(FALSE) is followed by close(TRUE) at most, close(TRUE) by nothing *)
WireOrder(s) ==
  \A i \in 1..Len(s) :
    /\ s[i] = Close(TRUE)  => i = Len(s)
    /\ s[i] = Close(FALSE) => \A j \in i+1..Len(s) : s[j] = Close(TRUE)

(* an inactive end is first told of the connection *)
OpenFirst(x, y, wxy) ==
  y = "INACTIVE" => /\ wxy # <<>> => wxy[1] = Open
                    /\ x \in {"ACTIVE", "LOCAL_CLOSE"} => wxy # <<>>

(* my close(FALSE) is still on its way *)
FalseInFlight(x, y, wxy, wyx) ==
  Has(wxy, Close(FALSE)) =>
    /\ x \in {"LOCAL_CLOSE", "CLOSE_ACKED"}
    /\ y \in {"INACTIVE", "ACTIVE", "LOCAL_CLOSE"}
    /\ ~Has(wyx, Close(TRUE))
    /\ x = "CLOSE_ACKED" => y = "LOCAL_CLOSE" /\ Has(wxy, Close(TRUE)) /\ wyx = <<>>

(* my close(TRUE) is still on its way *)
TrueInFlight(x, y, wxy, ty) ==
  Has(wxy, Close(TRUE)) =>
    /\ x \in {"CLOSE_ACKED", "INACTIVE"}
    /\ y \in {"LOCAL_CLOSE", "CLOSE_ACKED"}
    /\ x = "INACTIVE" => y = "CLOSE_ACKED"
    /\ ~ty

(* what my state says of the other end *)
EndInv(x, y, wxy, wyx, tx) ==
  /\ x = "INACTIVE" => y # "REMOTE_CLOSE" /\ OnlyTrue(wxy)
  /\ x = "ACTIVE" => y \in {"INACTIVE", "ACTIVE", "LOCAL_CLOSE"}
  /\ x = "LOCAL_CLOSE" /\ ~Has(wxy, Close(FALSE)) =>
       \/ y = "REMOTE_CLOSE"
       \/ y = "CLOSE_ACKED" /\ Has(wyx, Close(TRUE))
  /\ x = "REMOTE_CLOSE" => y = "LOCAL_CLOSE" /\ wyx = <<>>
  /\ x = "CLOSE_ACKED" /\ ~tx /\ y # "LOCAL_CLOSE" =>
       y \in {"CLOSE_ACKED", "INACTIVE"} /\ Has(wyx, Close(TRUE))
  /\ x = "CLOSE_ACKED" /\ y = "LOCAL_CLOSE" => Has(wxy, Close(TRUE)) /\ wyx = <<>>
  /\ x = "CLOSE_ACKED" => OnlyTrue(wyx) /\ (y = "INACTIVE" => wxy = <<>>)
  /\ tx => x = "CLOSE_ACKED" /\ y \in {"CLOSE_ACKED", "INACTIVE"} /\ wyx = <<>>

PairInv(x, y, wxy, wyx, tx, ty) ==
  /\ WireOrder(wxy)
  /\ OpenFirst(x, y, wxy)
  /\ FalseInFlight(x, y, wxy, wyx)
  /\ TrueInFlight(x, y, wxy, ty)
  /\ EndInv(x, y, wxy, wyx, tx)

VCInv == \A p \in Proc : \A q \in Peers(p) :
           PairInv(vcState[p][q], vcState[q][p], wire[p][q], wire[q][p],
                   terminating[p][q], terminating[q][p])

IInv == TypeOK /\ VCInv /\ OutstandingExact

=============================================================================
