------------------------------- MODULE SockConn -------------------------------
(***************************************************************************)
(* The connection of two processes in the sock channel, from               *)
(* util/sock/ch3u_connect_sock.c and channels/sock/src of CH3: either end  *)
(* may connect, both may do so at once, and one of the two connections is  *)
(* then refused; messages wait in the send queue of the VC meanwhile.      *)
(* Each action is one event of the progress engine or one call of the      *)
(* device.  A socket delivers what was written in order; an event of one   *)
(* socket comes at any time after those of another.                        *)
(* The close protocol of the device (module VCClose) is used by contract:  *)
(* a connection is terminated at both ends after everything sent on it has *)
(* arrived, and nothing is sent before both ends are done.                 *)
(***************************************************************************)
EXTENDS Naturals, Sequences

CONSTANTS Proc,         \* the two processes; numbers, ordered as their ranks
          Msg,          \* the messages of the device
          Null,         \* no connection
          MaxConnects,  \* bound: how often one process connects
          MaxSends,     \* bound: how many messages one process sends
          LateConnects  \* whether a VC may close while an attempt is pending

ASSUME SockConnAssumption ==
  /\ Proc \subseteq Nat /\ \E a, b \in Proc : a # b /\ Proc = {a, b}
  /\ Null \notin Proc \X Nat
  /\ MaxConnects \in Nat /\ MaxSends \in Nat /\ LateConnects \in BOOLEAN

Id == Proc \X (1..MaxConnects)
Peer(p) == CHOOSE q \in Proc : q # p

VARIABLES vc,           \* vc[p]: state and conn of MPIDI_CH3I_VC
          sendq,        \* sendq[p]: its send queue
          conn,         \* conn[p][i]: p's end of connection i
          wire,         \* wire[p][i]: what p wrote on i and its peer has not read
          closing,      \* the processes that have to terminate
          sends         \* sends[p]: messages so far, for the bound only

vars == <<vc, sendq, conn, wire, closing, sends>>

(***************************************************************************)
(* conn->vc is set; conn->send_active is not NULL; a read, a write is      *)
(* posted; the ack in conn->pkt.                                           *)
(***************************************************************************)
Unused == [state |-> "unused", vc |-> FALSE, active |-> FALSE,
           reading |-> FALSE, writing |-> FALSE, ack |-> FALSE]

Init == /\ vc = [p \in Proc |-> [state |-> "UNCONNECTED", conn |-> Null]]
        /\ sendq = [p \in Proc |-> <<>>]
        /\ conn = [p \in Proc |-> [i \in Id |-> Unused]]
        /\ wire = [p \in Proc |-> [i \in Id |-> <<>>]]
        /\ closing = {}
        /\ sends = [p \in Proc |-> 0]

Data(m) == [type |-> "data", msg |-> m]
Control(t) == [type |-> t]
Write(p, i, pkt) == wire' = [wire EXCEPT ![p][i] = Append(@, pkt)]
Read(p, i) == wire' = [wire EXCEPT ![Peer(p)][i] = Tail(@)]
Arrived(p, i, t) == /\ conn[p][i].reading
                    /\ wire[Peer(p)][i] # <<>> /\ Head(wire[Peer(p)][i]).type = t

-----------------------------------------------------------------------------
(***************************************************************************)
(* MPIDI_CH3_iStartMsg and its siblings.  Connected: a message is written  *)
(* at once if no other waits; a part of it may stay, at the head of the    *)
(* queue, when the peer has not read all that went before.                 *)
(***************************************************************************)
Enqueue(p, m) == sendq' = [sendq EXCEPT ![p] = Append(@, m)]

SendConnected_no_queue(p, m) ==
  /\ Write(p, vc[p].conn, Data(m))
  /\ UNCHANGED <<sendq, conn>>

SendConnected(p, m) ==
  LET i == vc[p].conn IN
  \/ /\ sendq[p] = <<>> /\ Write(p, i, Data(m))
     /\ UNCHANGED <<sendq, conn>>
  \/ /\ sendq[p] = <<>> /\ wire[p][i] # <<>>
     /\ Enqueue(p, m)
     /\ conn' = [conn EXCEPT ![p][i] = [@ EXCEPT !.active = TRUE, !.writing = TRUE]]
     /\ UNCHANGED wire
  \/ /\ sendq[p] # <<>> /\ Enqueue(p, m)
     /\ UNCHANGED <<conn, wire>>

(***************************************************************************)
(* MPIDI_CH3I_VC_post_sockconnect and MPIDI_CH3I_Sock_connect.             *)
(***************************************************************************)
PostConnect(p) == \E k \in 1..MaxConnects :
  /\ conn[p][<<p, k>>] = Unused /\ \A j \in 1..(k - 1) : conn[p][<<p, j>>] # Unused
  /\ vc' = [vc EXCEPT ![p] = [state |-> "CONNECTING", conn |-> <<p, k>>]]
  /\ conn' = [conn EXCEPT ![p][<<p, k>>] = [Unused EXCEPT !.state = "CONNECTING", !.vc = TRUE]]

Send(p, m) ==
  /\ closing = {} /\ sends[p] < MaxSends
  /\ sends' = [sends EXCEPT ![p] = @ + 1]
  /\ \/ vc[p].state = "CONNECTED" /\ SendConnected(p, m) /\ UNCHANGED vc
     \/ vc[p].state = "CONNECTING" /\ Enqueue(p, m) /\ UNCHANGED <<vc, conn, wire>>
     \/ vc[p].state = "UNCONNECTED" /\ Enqueue(p, m) /\ PostConnect(p) /\ UNCHANGED wire
  /\ UNCHANGED closing

(***************************************************************************)
(* MPIDI_CH3_Sockconn_handle_connect_event and _accept_event.              *)
(***************************************************************************)
HandleConnect(p, i) ==
  /\ conn[p][i].state = "CONNECTING"
  /\ conn' = [conn EXCEPT ![p][i] = [@ EXCEPT !.state = "OPEN_CSEND", !.writing = TRUE]]
  /\ Write(p, i, Control("open_req"))
  /\ UNCHANGED <<vc, sendq, closing, sends>>

HandleAccept(p, i) ==
  /\ i[1] = Peer(p) /\ conn[i[1]][i].state # "unused" /\ conn[p][i].state = "unused"
  /\ conn' = [conn EXCEPT ![p][i] = [@ EXCEPT !.state = "OPEN_LRECV_PKT", !.reading = TRUE]]
  /\ UNCHANGED <<vc, sendq, wire, closing, sends>>

(***************************************************************************)
(* The open request is read in two parts, _handle_conn_event and then      *)
(* _handle_connopen_event, which decides.  Two attempts that meet: the     *)
(* connection of the higher rank is kept, at both ends.                    *)
(***************************************************************************)
HandleOpenReq(p, i) ==
  /\ conn[p][i].state = "OPEN_LRECV_PKT" /\ Arrived(p, i, "open_req")
  /\ conn' = [conn EXCEPT ![p][i] = [@ EXCEPT !.state = "OPEN_LRECV_DATA"]]
  /\ UNCHANGED <<vc, sendq, wire, closing, sends>>

Accepts_always(p) == TRUE
Accepts_never_two(p) == vc[p].conn = Null
Accepts(p) == vc[p].conn = Null \/ p < Peer(p)

HandleConnopen(p, i) ==
  LET accept == Accepts(p) IN
  /\ conn[p][i].state = "OPEN_LRECV_DATA" /\ Arrived(p, i, "open_req")
  /\ vc' = IF accept THEN [vc EXCEPT ![p] = [state |-> "CONNECTING", conn |-> i]] ELSE vc
  /\ conn' = [conn EXCEPT ![p][i] = [@ EXCEPT !.state = "OPEN_LSEND", !.vc = accept,
                                              !.ack = accept, !.reading = FALSE, !.writing = TRUE]]
  /\ wire' = [wire EXCEPT ![Peer(p)][i] = Tail(@),
                          ![p][i] = Append(@, Control(IF accept THEN "ack" ELSE "nak"))]
  /\ UNCHANGED <<sendq, closing, sends>>

(***************************************************************************)
(* The connection is up: a read is posted, and the head of the send queue  *)
(* (connection_post_sendq_req).                                            *)
(***************************************************************************)
Up(p, i) ==
  /\ vc' = [vc EXCEPT ![p].state = "CONNECTED"]
  /\ conn' = [conn EXCEPT ![p][i] = [@ EXCEPT
       !.state = "CONNECTED", !.reading = TRUE,
       !.active = sendq[p] # <<>>, !.writing = sendq[p] # <<>>]]

(***************************************************************************)
(* The answer, in MPIDI_CH3_Sockconn_handle_conn_event.  A failed          *)
(* assertion aborts: there is no step.                                     *)
(***************************************************************************)
HandleAck(p, i) ==
  /\ conn[p][i].state = "OPEN_CRECV" /\ Arrived(p, i, "ack")
  /\ vc[p].conn = i
  /\ Up(p, i)
  /\ Read(p, i)
  /\ UNCHANGED <<sendq, closing, sends>>

Forget_never(p, i) == UNCHANGED vc
Forget(p, i) == vc' = [vc EXCEPT ![p].conn = IF @ = i THEN Null ELSE @]

HandleNak(p, i) ==
  /\ conn[p][i].state = "OPEN_CRECV" /\ Arrived(p, i, "nak")
  /\ Forget(p, i)
  /\ conn' = [conn EXCEPT ![p][i] = [@ EXCEPT !.state = "CLOSING", !.vc = FALSE, !.reading = FALSE]]
  /\ Read(p, i)
  /\ UNCHANGED <<sendq, closing, sends>>

(***************************************************************************)
(* A message arrives and goes to its packet handler.                       *)
(***************************************************************************)
HandleData(p, i) ==
  /\ conn[p][i].state = "CONNECTED" /\ Arrived(p, i, "data")
  /\ Read(p, i)
  /\ UNCHANGED <<vc, sendq, conn, closing, sends>>

(***************************************************************************)
(* A write has ended: of a message, and the next one is posted             *)
(* (connection_pop_sendq_req); or of a control packet                      *)
(* (MPIDI_CH3_Sockconn_handle_connwrite).                                  *)
(***************************************************************************)
WroteMessage(p, i) ==
  /\ conn[p][i].writing /\ conn[p][i].active
  /\ Write(p, i, Data(Head(sendq[p])))
  /\ sendq' = [sendq EXCEPT ![p] = Tail(@)]
  /\ conn' = [conn EXCEPT ![p][i] = [@ EXCEPT !.active = Len(sendq[p]) > 1,
                                               !.writing = Len(sendq[p]) > 1]]
  /\ UNCHANGED <<vc, closing, sends>>

WroteOpenReq(p, i) ==
  /\ conn[p][i].state = "OPEN_CSEND" /\ conn[p][i].writing
  /\ conn' = [conn EXCEPT ![p][i] = [@ EXCEPT
                !.state = "OPEN_CRECV", !.writing = FALSE, !.reading = TRUE]]
  /\ UNCHANGED <<vc, sendq, wire, closing, sends>>

WroteOpenResp(p, i) ==
  /\ conn[p][i].state = "OPEN_LSEND" /\ conn[p][i].writing
  /\ \/ conn[p][i].ack /\ Up(p, i)
     \/ /\ ~conn[p][i].ack
        /\ conn' = [conn EXCEPT ![p][i] = [@ EXCEPT !.state = "CLOSING", !.writing = FALSE]]
        /\ UNCHANGED vc
  /\ UNCHANGED <<sendq, wire, closing, sends>>

(***************************************************************************)
(* The contract with the close protocol, and MPIDI_CH3_Connection_terminate*)
(* which it calls at both ends.                                            *)
(***************************************************************************)
Pending == {i \in Id : \E p \in Proc : conn[p][i].state \notin {"unused", "CONNECTED", "CLOSED"}}
Empty(p) == sendq[p] = <<>> /\ \A i \in Id : \A k \in DOMAIN wire[p][i] : wire[p][i][k].type # "data"

CloseProtocol ==
  /\ closing = {}
  /\ \A p \in Proc : vc[p].state = "CONNECTED" /\ Empty(p)
  /\ LateConnects \/ Pending = {}
  /\ closing' = Proc
  /\ UNCHANGED <<vc, sendq, conn, wire, sends>>

Terminate(p) ==
  /\ p \in closing /\ vc[p].conn # Null /\ conn[p][vc[p].conn].state = "CONNECTED"
  /\ conn' = [conn EXCEPT ![p][vc[p].conn] = [@ EXCEPT !.state = "CLOSING", !.reading = FALSE]]
  /\ UNCHANGED <<vc, sendq, wire, closing, sends>>

(***************************************************************************)
(* MPIDI_CH3_Sockconn_handle_close_event.                                  *)
(***************************************************************************)
HandleClose(p, i) ==
  LET c == conn[p][i] IN
  /\ c.state = "CLOSING"
  /\ vc' = IF c.vc THEN [vc EXCEPT ![p] = [state |-> "UNCONNECTED",
                                           conn |-> IF @.conn = i THEN Null ELSE @.conn]]
                   ELSE vc
  /\ closing' = IF c.vc THEN closing \ {p} ELSE closing
  /\ conn' = [conn EXCEPT ![p][i] = [Unused EXCEPT !.state = "CLOSED"]]
  /\ UNCHANGED <<sendq, wire, sends>>

Event(p, i) == \/ HandleConnect(p, i) \/ HandleAccept(p, i) \/ HandleOpenReq(p, i)
               \/ HandleConnopen(p, i) \/ HandleAck(p, i) \/ HandleNak(p, i)
               \/ HandleData(p, i) \/ WroteMessage(p, i) \/ WroteOpenReq(p, i)
               \/ WroteOpenResp(p, i) \/ HandleClose(p, i)

Next == \/ \E p \in Proc, m \in Msg : Send(p, m)
        \/ \E p \in Proc, i \in Id : Event(p, i)
        \/ CloseProtocol
        \/ \E p \in Proc : Terminate(p)

Spec == Init /\ [][Next]_vars

(***************************************************************************)
(* A process that waits calls the progress engine, and MPIDU_Sock_wait     *)
(* returns the events of every socket in turn.                             *)
(***************************************************************************)
FairSpec == /\ Spec
            /\ \A p \in Proc, i \in Id : WF_vars(Event(p, i))
            /\ \A p \in Proc : WF_vars(Terminate(p))

-----------------------------------------------------------------------------
(***************************************************************************)
(* Types, and: the VC never holds a connection structure that was freed    *)
(* (handle_close_event and the refusal in handle_conn_event reset it).     *)
(***************************************************************************)
ConnStates == {"unused", "CONNECTING", "OPEN_CSEND", "OPEN_CRECV", "OPEN_LRECV_PKT",
               "OPEN_LRECV_DATA", "OPEN_LSEND", "CONNECTED", "CLOSING", "CLOSED"}
Packet == [type : {"open_req", "ack", "nak"}] \cup [type : {"data"}, msg : Msg]

TypeOK ==
  /\ vc \in [Proc -> [state : {"UNCONNECTED", "CONNECTING", "CONNECTED"}, conn : Id \cup {Null}]]
  /\ sendq \in [Proc -> Seq(Msg)]
  /\ conn \in [Proc -> [Id -> [state : ConnStates, vc : BOOLEAN, active : BOOLEAN,
                               reading : BOOLEAN, writing : BOOLEAN, ack : BOOLEAN]]]
  /\ wire \in [Proc -> [Id -> Seq(Packet)]]
  /\ closing \subseteq Proc
  /\ \A p \in Proc : vc[p].conn # Null =>
       conn[p][vc[p].conn].vc /\ conn[p][vc[p].conn].state \notin {"unused", "CLOSED"}

(***************************************************************************)
(* The assertions of the code: an accepted connection is the one of the VC *)
(* (ch3u_connect_sock.c, MPIU_Assert(vcch->conn == conn)), nothing is left *)
(* to send on a connection that closes, and Connection_terminate finds the *)
(* connection of the VC.                                                   *)
(***************************************************************************)
AssertionsHold == \A p \in Proc :
  /\ \A i \in Id : /\ conn[p][i].state = "OPEN_CRECV" /\ Arrived(p, i, "ack") => vc[p].conn = i
                   /\ conn[p][i].state = "CLOSING" => ~conn[p][i].active
  /\ p \in closing => vc[p].conn # Null

(***************************************************************************)
(* Whoever connected, the ends agree on the connection: two processes that *)
(* both believe to be connected use the same socket, and a process has one *)
(* connection at most that is up (handle_connopen_event, head to head).    *)
(***************************************************************************)
OneConnection ==
  /\ (\A p \in Proc : vc[p].state = "CONNECTED" /\ vc[p].conn # Null)
       => \A p, q \in Proc : vc[p].conn = vc[q].conn
  /\ \A p \in Proc : \A i \in Id : conn[p][i].state = "CONNECTED" => vc[p].conn = i

(***************************************************************************)
(* The channel of the device: messages are neither lost, doubled nor       *)
(* reordered while connections are made, refused, closed and made again.   *)
(***************************************************************************)
IsData(pkt) == pkt.type = "data"

(* A control packet is the first on its wire: nothing is sent before it.   *)
Messages(s) == LET d == IF s = <<>> \/ IsData(Head(s)) THEN s ELSE Tail(s)
               IN [k \in DOMAIN d |-> d[k].msg]
Live(p) == {i \in Id : Messages(wire[p][i]) # <<>>}
Undelivered(p) ==
  (IF Live(p) = {} THEN <<>> ELSE Messages(wire[p][CHOOSE i \in Live(p) : TRUE])) \o sendq[p]

Chan == [p \in Proc |-> [q \in Proc |-> IF p = q THEN <<>> ELSE Undelivered(p)]]

Channel == INSTANCE InOrderChannel WITH chan <- Chan

ImplementsChannel == Channel!Spec

(***************************************************************************)
(* Everything sent arrives, and of all the attempts only the connection in *)
(* use is left: refused ones are closed at both ends.                      *)
(***************************************************************************)
Settles == <>[](\A p \in Proc :
  /\ Empty(p)
  /\ \A i \in Id : \/ conn[p][i].state \in {"unused", "CLOSED"}
                   \/ conn[p][i].state = "CONNECTED" /\ vc[p].conn = i)
===============================================================================
