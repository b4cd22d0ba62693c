------------------------------- MODULE CH3Pt2Pt -------------------------------
(***************************************************************************)
(* Point-to-point messages of the CH3 device (src/mpid/ch3/src): eager,    *)
(* eager synchronous and rendezvous sends, sends to self, receives, and    *)
(* cancellation, over channels that deliver the packets of one direction   *)
(* in order.  Request objects come from a pool of handles and are reused;  *)
(* packets name remote requests by handle.                                 *)
(*                                                                         *)
(* dev[p] is the device state of process p: its requests, the free list of *)
(* handles, the posted and unexpected queues and, for each peer, the       *)
(* receive whose data is still being read from the connection.  sends and  *)
(* recvs are history: what the user asked for and what matched what.       *)
(***************************************************************************)
EXTENDS Naturals, Sequences, FiniteSets, SequencesExt

CONSTANTS Proc, Ctx, Tag,       \* processes, context ids, tags
          AnySource, AnyTag,    \* the wildcards
          NoReq, NoMsg,         \* MPI_REQUEST_NULL, an empty buffer
          Modes,                \* the kinds of send the program uses
          RecvArgs,             \* the receives it posts: context, source, tag
          Calls,                \* the optional calls it makes
          Handles,              \* bound: request objects of a process, 1..n
          MaxSend,              \* bound: MaxSend[p][q] messages from p to q
          MaxRecv               \* bound: MaxRecv[p] receives of p

AllCalls == {"cancel_send", "cancel_recv", "request_free"}
IsendModes == {"eager", "noncontig", "empty", "rndv"} \* MPI_Isend
IssendModes == {"sync", "syncempty", "srndv"}         \* MPI_Issend
SendModes == {"send", "sendempty", "sendshort"}       \* MPI_Send
AllModes == IsendModes \cup IssendModes \cup SendModes

ASSUME Pt2PtAssumption ==
  /\ Modes \subseteq AllModes
  /\ RecvArgs \subseteq [ctx : Ctx, rank : Proc \cup {AnySource}, tag : Tag \cup {AnyTag}]
  /\ Calls \subseteq AllCalls
  /\ Handles \in Nat
  /\ MaxSend \in [Proc -> [Proc -> Nat]]
  /\ MaxRecv \in [Proc -> Nat]
  /\ AnySource \notin Proc /\ AnyTag \notin Tag
  /\ NoReq \notin 1..Handles

VARIABLES dev, wire, sends, recvs

vars == <<dev, wire, sends, recvs>>

Q == INSTANCE Recvq

Handle == 1..Handles
Wants == [ctx : Ctx, rank : Proc \cup {AnySource}, tag : Tag \cup {AnyTag}]

(***************************************************************************)
(* Properties of a send mode.                                              *)
(***************************************************************************)
Rendezvous(m) == m \in {"rndv", "srndv"}
Empty(m) == m \in {"empty", "syncempty", "sendempty"}

-----------------------------------------------------------------------------
(***************************************************************************)
(* Request objects.  ref is the reference count, cc the completion         *)
(* counter.  env is dev.match; sreq the sender's handle; msg the message   *)
(* the request is about: what a send request sends, what an unexpected or  *)
(* matched receive was told of.  buf is what arrived in the user's buffer. *)
(* user: the program still holds the handle; op: which receive it is.      *)
(***************************************************************************)
FreeReq == [kind |-> "free", ref |-> 0, cc |-> 0, env |-> NoMsg, msgType |-> "NO",
            type |-> "NO", sreq |-> NoReq, partner |-> NoReq, sync |-> FALSE,
            empty |-> FALSE, pending |-> 0, unpackUE |-> FALSE, writing |-> FALSE,
            cancelPending |-> FALSE, cancelled |-> FALSE, msg |-> NoMsg, buf |-> NoMsg,
            user |-> FALSE, op |-> 0]

create_sreq(q, e, type, msg) ==
  [FreeReq EXCEPT !.kind = "send", !.ref = 2, !.cc = 1, !.user = TRUE, !.type = type,
                  !.env = [e EXCEPT !.rank = q], !.msg = msg]

create_rreq(e) == [FreeReq EXCEPT !.kind = "recv", !.ref = 2, !.cc = 1, !.env = e,
                                  !.type = "RECV"]

(***************************************************************************)
(* MPIU_Handle_obj_alloc and MPIU_Handle_obj_free: a LIFO free list.  The  *)
(* memory is not cleared, and nothing but a packet handler assigns         *)
(* dev.sender_req_id, so sreq survives from one use of an object to the    *)
(* next.                                                                   *)
(***************************************************************************)
NewHandle(d) == Head(d.avail)
Create(d, r) == [d EXCEPT !.req[NewHandle(d)] = [r EXCEPT !.sreq = d.req[NewHandle(d)].sreq],
                          !.avail = Tail(@)]

(* MPIDI_CH3_Request_destroy *)
Request_destroy(d, h) == [d EXCEPT !.req[h] = [FreeReq EXCEPT !.sreq = d.req[h].sreq],
                                   !.avail = <<h>> \o @]

(***************************************************************************)
(* MPID_Request_release and MPIDI_CH3U_Request_complete.                   *)
(***************************************************************************)
Request_release(d, h) == IF d.req[h].ref = 1 THEN Request_destroy(d, h)
                                             ELSE [d EXCEPT !.req[h].ref = @ - 1]

Request_complete_releases(d, h) ==   \* mutant: releases before the last decrement
  LET e == [d EXCEPT !.req[h].cc = @ - 1]
  IN IF e.req[h].ref > 1 THEN Request_release(e, h) ELSE e

Request_complete(d, h) ==
  LET e == [d EXCEPT !.req[h].cc = @ - 1]
  IN IF e.req[h].cc = 0 THEN Request_release(e, h) ELSE e

(* MPID_REQUEST_SET_COMPLETED followed by MPID_Request_release *)
Set_completed(d, h) == Request_release([d EXCEPT !.req[h].cc = 0], h)

Env(d) == [h \in Handle |-> d.req[h].env]
Sender(d) == [h \in Handle |-> d.req[h].sreq]

-----------------------------------------------------------------------------
(***************************************************************************)
(* MPIDI_CH3U_Recvq_FDP_or_AEU: the posted receive a message finds, or a   *)
(* new request at the end of the unexpected queue.  The guard Arrives is   *)
(* the bound: an unexpected message needs a handle.                        *)
(***************************************************************************)
Posted(d, e) == Q!FDP_or_AEU(d.posted, Env(d), e)
Found(d, e) == Posted(d, e) # 0
Arrives(d, e) == Found(d, e) \/ d.avail # <<>>
Arrival(d, e) == IF Found(d, e) THEN d.posted[Posted(d, e)] ELSE NewHandle(d)

Recvq_FDP_or_AEU(d, e) ==
  IF Found(d, e)
  THEN [d EXCEPT !.posted = RemoveAt(@, Posted(d, e))]
  ELSE [Create(d, create_rreq(e)) EXCEPT !.unexp = Append(@, NewHandle(d))]

(* set_request_info *)
Set_request_info(d, h, pkt, t) ==
  [d EXCEPT !.req[h].msgType = t, !.req[h].sreq = pkt.sreq,
            !.req[h].empty = pkt.empty, !.req[h].msg = pkt.msg]

-----------------------------------------------------------------------------
(***************************************************************************)
(* Packets.                                                                *)
(***************************************************************************)
PacketTypes == {"EAGER_SEND", "EAGERSHORT_SEND", "EAGER_SYNC_SEND", "EAGER_SYNC_ACK",
                "RNDV_REQ_TO_SEND", "RNDV_CLR_TO_SEND", "RNDV_SEND",
                "CANCEL_SEND_REQ", "CANCEL_SEND_RESP"}

Pkt(t, e, s, r, m) == [type |-> t, env |-> e, sreq |-> s, rreq |-> r, msg |-> m,
                       empty |-> FALSE, ack |-> FALSE]

Append_to(w, p, q, pkt) == [w EXCEPT ![p][q] = Append(@, pkt)]

(* history *)
Sent(p, q, e, st) == [sends EXCEPT ![p][q] = Append(@, [env |-> e, st |-> st])]
Mark(s, m, st) == [s EXCEPT ![m[1]][m[2]][m[3]].st = st]
MarkRecv(p, k, m) == [recvs EXCEPT ![p][k].st = "matched", ![p][k].got = m]
NextMsg(p, q) == <<p, q, Len(sends[p][q]) + 1>>

-----------------------------------------------------------------------------
Init == /\ dev = [p \in Proc |-> [req |-> [h \in Handle |-> FreeReq],
                                  avail |-> [h \in Handle |-> h],
                                  posted |-> <<>>, unexp |-> <<>>,
                                  active |-> [q \in Proc |-> NoReq]]]
        /\ wire = [p \in Proc |-> [q \in Proc |-> <<>>]]
        /\ sends = [p \in Proc |-> [q \in Proc |-> <<>>]]
        /\ recvs = [p \in Proc |-> <<>>]

(***************************************************************************)
(* The protocols: the request a send of message msg to q starts with and   *)
(* the packet it hands to the channel.  That the data of a request has     *)
(* been written is reported later.  A synchronous eager send waits for its *)
(* data and for the ack (the mutant forgets the ack).                      *)
(***************************************************************************)
EagerContigIsend(r, h, e, m) ==
  [req |-> [r EXCEPT !.msgType = "EAGER", !.writing = TRUE],
   pkt |-> [Pkt("EAGER_SEND", e, h, NoReq, r.msg) EXCEPT !.empty = Empty(m)]]

(* data that is not contiguous: the packet does not carry the handle *)
EagerNoncontigSend(r, e) ==
  [req |-> [r EXCEPT !.msgType = "EAGER", !.writing = TRUE],
   pkt |-> Pkt("EAGER_SEND", e, NoReq, NoReq, r.msg)]

EagerSyncSend_one_cc(r, h, e, m) ==
  [req |-> [r EXCEPT !.msgType = "EAGER", !.writing = TRUE],
   pkt |-> [Pkt("EAGER_SYNC_SEND", e, h, NoReq, r.msg) EXCEPT !.empty = Empty(m)]]
EagerSyncSend(r, h, e, m) ==
  [req |-> [r EXCEPT !.msgType = "EAGER", !.writing = TRUE, !.cc = 2],
   pkt |-> [Pkt("EAGER_SYNC_SEND", e, h, NoReq, r.msg) EXCEPT !.empty = Empty(m)]]

RndvSend_written(r, h, e) ==
  [req |-> [r EXCEPT !.msgType = "RNDV", !.writing = TRUE],
   pkt |-> Pkt("RNDV_REQ_TO_SEND", e, h, NoReq, r.msg)]
RndvSend(r, h, e) ==
  [req |-> [r EXCEPT !.msgType = "RNDV"],
   pkt |-> Pkt("RNDV_REQ_TO_SEND", e, h, NoReq, r.msg)]

Envelope(p, c, t) == [ctx |-> c, rank |-> p, tag |-> t]

StartSend(p, q, e, out) ==
  /\ p # q
  /\ dev[p].avail # <<>> /\ Len(sends[p][q]) < MaxSend[p][q]
  /\ dev' = [dev EXCEPT ![p] = Create(@, out.req)]
  /\ wire' = Append_to(wire, p, q, out.pkt)
  /\ sends' = Sent(p, q, e, "pending")
  /\ UNCHANGED recvs

(***************************************************************************)
(* MPID_Isend and MPID_Issend to another process.                          *)
(***************************************************************************)
Isend(p, q, m, c, t) ==
  LET e == Envelope(p, c, t)
      h == NewHandle(dev[p])
      r == create_sreq(q, e, "SEND", NextMsg(p, q))
  IN StartSend(p, q, e, CASE Rendezvous(m)    -> RndvSend(r, h, e)
                          [] m = "noncontig"  -> EagerNoncontigSend(r, e)
                          [] OTHER            -> EagerContigIsend(r, h, e, m))

Issend(p, q, m, c, t) ==
  LET e == Envelope(p, c, t)
      h == NewHandle(dev[p])
      r == create_sreq(q, e, "SSEND", NextMsg(p, q))
  IN StartSend(p, q, e, IF Rendezvous(m) THEN RndvSend(r, h, e)
                                         ELSE EagerSyncSend(r, h, e, m))

(***************************************************************************)
(* MPID_Send of an eager message, which cannot be cancelled: the packet    *)
(* carries no handle.  The channel writes it at once, or returns a request *)
(* of its own that MPI_Send waits for.                                     *)
(***************************************************************************)
SendPacket(m, e, msg) ==
  IF m = "sendshort" THEN Pkt("EAGERSHORT_SEND", e, NoReq, NoReq, msg)
  ELSE [Pkt("EAGER_SEND", e, NoReq, NoReq, msg) EXCEPT !.empty = Empty(m)]

ChannelRequest(msg) == [FreeReq EXCEPT !.kind = "send", !.ref = 2, !.cc = 1, !.user = TRUE,
                                       !.type = "SEND", !.writing = TRUE, !.msg = msg]

Send(p, q, m, c, t) ==
  LET e   == Envelope(p, c, t)
      msg == NextMsg(p, q)
  IN /\ p # q
     /\ Len(sends[p][q]) < MaxSend[p][q]
     /\ \/ UNCHANGED dev
        \/ /\ dev[p].avail # <<>>
           /\ dev' = [dev EXCEPT ![p] = Create(@, ChannelRequest(msg))]
     /\ wire' = Append_to(wire, p, q, SendPacket(m, e, msg))
     /\ sends' = Sent(p, q, e, "pending")
     /\ UNCHANGED recvs

(***************************************************************************)
(* MPIDI_Isend_self: the send request is completed when it finds a posted  *)
(* receive, otherwise it hangs off an unexpected receive.                  *)
(***************************************************************************)
Isend_self(p, m, c, t) ==
  LET e   == Envelope(p, c, t)
      msg == NextMsg(p, p)
      s   == NewHandle(dev[p])
      d0  == Create(dev[p], [create_sreq(p, e, IF m \in IssendModes THEN "SSEND" ELSE "SEND", msg)
                               EXCEPT !.msgType = "SELF"])
      h   == Arrival(d0, e)
      d1  == Recvq_FDP_or_AEU(d0, e)
  IN /\ dev[p].avail # <<>> /\ Len(sends[p][p]) < MaxSend[p][p]
     /\ Arrives(d0, e)
     /\ \/ /\ Found(d0, e)
           /\ dev' = [dev EXCEPT ![p] =
                [Set_completed([d1 EXCEPT !.req[h].buf = msg, !.req[h].msg = msg], h)
                   EXCEPT !.req[s].ref = 1, !.req[s].cc = 0]]
           /\ sends' = Sent(p, p, e, "matched")
           /\ recvs' = MarkRecv(p, d1.req[h].op, msg)
        \/ /\ ~Found(d0, e)
           /\ dev' = [dev EXCEPT ![p] =
                [d1 EXCEPT !.req[h].partner = s, !.req[h].sreq = s, !.req[h].msg = msg,
                           !.req[h].msgType = "SELF"]]
           /\ sends' = Sent(p, p, e, "pending")
           /\ UNCHANGED recvs
     /\ UNCHANGED wire

(***************************************************************************)
(* The channel has written all data of a send: MPIDI_CH3U_Handle_send_req. *)
(***************************************************************************)
Handle_send_req(p, h) ==
  /\ dev[p].req[h].writing
  /\ dev' = [dev EXCEPT ![p] = Request_complete([@ EXCEPT !.req[h].writing = FALSE], h)]
  /\ UNCHANGED <<wire, sends, recvs>>

-----------------------------------------------------------------------------
(***************************************************************************)
(* What MPID_Irecv does with an unexpected eager message: the last of the  *)
(* two decrements of recv_pending_count, here or when the data is read,    *)
(* copies the temporary buffer.  For an empty message the count was never  *)
(* set, and whatever it holds there is nothing to copy.                    *)
(***************************************************************************)
TakeEager(d, h) ==
  LET r == d.req[h]
  IN IF r.empty THEN d
     ELSE [d EXCEPT !.req[h].pending = @ - 1,
                    !.req[h].buf = IF r.pending = 1 THEN r.msg ELSE @]

(* MPIDI_CH3_RecvFromSelf; the mutant completes the receive uncopied *)
RecvFromSelf_no_copy(d, h) ==
  LET r == d.req[h]
  IN [Set_completed(d, r.partner) EXCEPT !.req[h].cc = 0, !.req[h].ref = 1]
RecvFromSelf(d, h) ==
  LET r == d.req[h]
  IN [Set_completed(d, r.partner) EXCEPT !.req[h].cc = 0, !.req[h].ref = 1,
                                         !.req[h].buf = r.msg]

TakeUnexpected(d, h) ==
  CASE d.req[h].msgType = "EAGER" -> TakeEager(d, h)
    [] d.req[h].msgType = "SELF"  -> RecvFromSelf(d, h)
    [] d.req[h].msgType = "RNDV"  -> d

(* EagerSyncAck or RecvRndv: the packet a matched message is answered with *)
(* (mutant: the ack of an unexpected synchronous message is forgotten)     *)
EagerSyncAck(sreq, msg) == Pkt("EAGER_SYNC_ACK", NoMsg, sreq, NoReq, msg)
RecvRndv(sreq, h, msg) == Pkt("RNDV_CLR_TO_SEND", NoMsg, sreq, h, msg)

Answer_no_ack(r, h) == IF r.msgType = "RNDV" THEN <<RecvRndv(r.sreq, h, r.msg)>> ELSE <<>>
Answer(r, h) ==
  CASE r.msgType = "EAGER" /\ r.sync -> <<EagerSyncAck(r.sreq, r.msg)>>
    [] r.msgType = "RNDV" -> <<RecvRndv(r.sreq, h, r.msg)>>
    [] OTHER -> <<>>

(***************************************************************************)
(* MPID_Irecv: MPIDI_CH3U_Recvq_FDU_or_AEP, then by kind of message.       *)
(***************************************************************************)
Irecv(p, r) ==
  LET d  == dev[p]
      i  == Q!FDU_or_AEP(d.unexp, Env(d), r)
      k  == Len(recvs[p]) + 1
      Recorded(st, m) == [recvs EXCEPT ![p] = Append(@, [want |-> r, st |-> st, got |-> m])]
  IN /\ Len(recvs[p]) < MaxRecv[p]
     /\ \/ /\ i # 0
           /\ LET h == d.unexp[i]
                  u == d.req[h]
                  e == [d EXCEPT !.unexp = RemoveAt(@, i), !.req[h].user = TRUE, !.req[h].op = k]
              IN /\ dev' = [dev EXCEPT ![p] = TakeUnexpected(e, h)]
                 /\ wire' = [wire EXCEPT ![p][u.env.rank] = @ \o Answer(u, h)]
                 /\ sends' = Mark(sends, u.msg, "matched")
                 /\ recvs' = Recorded("matched", u.msg)
        \/ /\ i = 0 /\ d.avail # <<>>
           /\ dev' = [dev EXCEPT ![p] =
                [Create(d, [create_rreq(r) EXCEPT !.user = TRUE, !.op = k, !.pending = 1])
                   EXCEPT !.posted = Append(@, NewHandle(d))]]
           /\ recvs' = Recorded("posted", <<>>)
           /\ UNCHANGED <<wire, sends>>

-----------------------------------------------------------------------------
(***************************************************************************)
(* The next packet from q is handled when the data of the previous one has *)
(* been read.                                                              *)
(***************************************************************************)
Arrived(p, q, t) == /\ wire[q][p] # <<>> /\ Head(wire[q][p]).type = t
                    /\ dev[p].active[q] = NoReq

Taken(q, p) == [wire EXCEPT ![q][p] = Tail(@)]

(* history of a message that found receive h, or found none *)
Matched(p, h, m, found) ==
  IF found THEN /\ sends' = Mark(sends, m, "matched")
                /\ recvs' = MarkRecv(p, dev[p].req[h].op, m)
           ELSE UNCHANGED <<sends, recvs>>

(***************************************************************************)
(* Receive_data_found and Receive_data_unexpected: all of the data is here *)
(* already, or the rest is read into the buffer later.                     *)
(***************************************************************************)
Receive_data(d, q, h, found, all) ==
  IF d.req[h].empty THEN Request_complete(d, h)
  ELSE LET e == [d EXCEPT !.req[h].pending = IF found THEN @ ELSE IF all THEN 1 ELSE 2,
                          !.req[h].unpackUE = ~found]
       IN IF ~all THEN [e EXCEPT !.active[q] = h]
          ELSE Request_complete(IF found THEN [e EXCEPT !.req[h].buf = e.req[h].msg] ELSE e, h)

(***************************************************************************)
(* MPIDI_CH3_PktHandler_EagerSend and PktHandler_EagerSyncSend.            *)
(***************************************************************************)
PktHandler_Eager(p, q, t) ==
  /\ Arrived(p, q, t)
  /\ LET pkt   == Head(wire[q][p])
         d     == dev[p]
         found == Found(d, pkt.env)
         h     == Arrival(d, pkt.env)
         sync  == t = "EAGER_SYNC_SEND"
         d1    == Set_request_info(Recvq_FDP_or_AEU(d, pkt.env), h, pkt, "EAGER")
         d2    == [d1 EXCEPT !.req[h].sync = sync /\ ~found]
         ack   == EagerSyncAck(pkt.sreq, pkt.msg)
     IN /\ Arrives(d, pkt.env)
        /\ \E all \in BOOLEAN : dev' = [dev EXCEPT ![p] = Receive_data(d2, q, h, found, all)]
        /\ wire' = IF found /\ sync THEN Append_to(Taken(q, p), p, q, ack) ELSE Taken(q, p)
        /\ Matched(p, h, pkt.msg, found)

PktHandler_EagerSend(p, q) == PktHandler_Eager(p, q, "EAGER_SEND")
PktHandler_EagerSyncSend(p, q) == PktHandler_Eager(p, q, "EAGER_SYNC_SEND")

(***************************************************************************)
(* MPIDI_CH3_PktHandler_EagerShortSend: the data is in the packet.  The    *)
(* request's sender_req_id is not assigned.                                *)
(***************************************************************************)
PktHandler_EagerShortSend(p, q) ==
  /\ Arrived(p, q, "EAGERSHORT_SEND")
  /\ LET pkt   == Head(wire[q][p])
         d     == dev[p]
         found == Found(d, pkt.env)
         h     == Arrival(d, pkt.env)
         d1    == Recvq_FDP_or_AEU(d, pkt.env)
         d2    == Set_request_info(d1, h, [pkt EXCEPT !.sreq = d1.req[h].sreq], "EAGER")
     IN /\ Arrives(d, pkt.env)
        /\ dev' = [dev EXCEPT ![p] = Receive_data(d2, q, h, found, TRUE)]
        /\ Matched(p, h, pkt.msg, found)
  /\ wire' = Taken(q, p)

(***************************************************************************)
(* MPIDI_CH3_PktHandler_RndvReqToSend.                                     *)
(***************************************************************************)
PktHandler_RndvReqToSend(p, q) ==
  /\ Arrived(p, q, "RNDV_REQ_TO_SEND")
  /\ LET pkt   == Head(wire[q][p])
         d     == dev[p]
         found == Found(d, pkt.env)
         h     == Arrival(d, pkt.env)
         cts   == RecvRndv(pkt.sreq, h, pkt.msg)
     IN /\ Arrives(d, pkt.env)
        /\ dev' = [dev EXCEPT ![p] =
                     Set_request_info(Recvq_FDP_or_AEU(d, pkt.env), h, pkt, "RNDV")]
        /\ wire' = IF found THEN Append_to(Taken(q, p), p, q, cts) ELSE Taken(q, p)
        /\ Matched(p, h, pkt.msg, found)

(***************************************************************************)
(* MPIDI_CH3_PktHandler_RndvClrToSend: the data of the send request goes   *)
(* out.                                                                    *)
(***************************************************************************)
PktHandler_RndvClrToSend(p, q) ==
  /\ Arrived(p, q, "RNDV_CLR_TO_SEND")
  /\ LET pkt == Head(wire[q][p])
     IN /\ dev' = [dev EXCEPT ![p].req[pkt.sreq].writing = TRUE]
        /\ wire' = Append_to(Taken(q, p), p, q,
                             Pkt("RNDV_SEND", NoMsg, NoReq, pkt.rreq, dev[p].req[pkt.sreq].msg))
  /\ UNCHANGED <<sends, recvs>>

(***************************************************************************)
(* MPIDI_CH3_PktHandler_RndvSend: the data goes to the receive it names.   *)
(***************************************************************************)
PktHandler_RndvSend(p, q) ==
  /\ Arrived(p, q, "RNDV_SEND")
  /\ LET pkt == Head(wire[q][p])
         d   == [dev[p] EXCEPT !.req[pkt.rreq].msg = pkt.msg]
     IN \E all \in BOOLEAN : dev' = [dev EXCEPT ![p] = Receive_data(d, q, pkt.rreq, TRUE, all)]
  /\ wire' = Taken(q, p)
  /\ UNCHANGED <<sends, recvs>>

(***************************************************************************)
(* The rest of the data was read.  An unexpected message is unpacked if    *)
(* its receive came meanwhile (MPIDI_CH3_ReqHandler_UnpackUEBufComplete).  *)
(***************************************************************************)
Handle_recv_req(p, q) ==
  LET d == dev[p]
      h == d.active[q]
      r == d.req[h]
  IN /\ h # NoReq
     /\ dev' = [dev EXCEPT ![p] =
          Request_complete([d EXCEPT !.active[q] = NoReq,
                                     !.req[h].pending = IF r.unpackUE THEN @ - 1 ELSE @,
                                     !.req[h].buf = IF r.unpackUE /\ r.pending = 2 THEN @
                                                    ELSE r.msg], h)]
     /\ UNCHANGED <<wire, sends, recvs>>

(***************************************************************************)
(* MPIDI_CH3_PktHandler_EagerSyncAck.                                      *)
(***************************************************************************)
PktHandler_EagerSyncAck(p, q) ==
  /\ Arrived(p, q, "EAGER_SYNC_ACK")
  /\ dev' = [dev EXCEPT ![p] = Request_complete(@, Head(wire[q][p]).sreq)]
  /\ wire' = Taken(q, p)
  /\ UNCHANGED <<sends, recvs>>

-----------------------------------------------------------------------------
(***************************************************************************)
(* MPID_Cancel_send of a message to oneself.                               *)
(***************************************************************************)
Cancel_send_self(p, h) ==
  LET d == dev[p]
      r == d.req[h]
      i == Q!FDU(d.unexp, Env(d), Sender(d), h, r.env)
      u == d.unexp[i]
  IN /\ "cancel_send" \in Calls
     /\ r.kind = "send" /\ r.user /\ ~r.cancelPending /\ r.msgType = "SELF"
     /\ \/ /\ i # 0
           /\ dev' = [dev EXCEPT ![p] =
                [Request_destroy([d EXCEPT !.unexp = RemoveAt(@, i)], u)
                   EXCEPT !.req[h].cancelPending = TRUE, !.req[h].cancelled = TRUE,
                          !.req[h].cc = 0, !.req[h].ref = 1]]
           /\ sends' = Mark(sends, d.req[u].msg, "cancelled")
        \/ /\ i = 0
           /\ dev' = [dev EXCEPT ![p].req[h].cancelPending = TRUE]
           /\ UNCHANGED sends
     /\ UNCHANGED <<wire, recvs>>

(* the reference count while the response to a cancel is awaited *)
CancelRef(r) == IF r.cc = 0 THEN r.ref + 1 ELSE r.ref

(***************************************************************************)
(* MPID_Cancel_send otherwise: the request is kept alive for the response, *)
(* the device's reference is taken again if the request was complete.      *)
(***************************************************************************)
Cancel_send(p, h) ==
  LET r == dev[p].req[h]
      q == r.env.rank
  IN /\ "cancel_send" \in Calls
     /\ r.kind = "send" /\ r.user /\ ~r.cancelPending /\ r.msgType \in {"EAGER", "RNDV"}
     /\ dev' = [dev EXCEPT ![p].req[h] =
                  [r EXCEPT !.cancelPending = TRUE, !.cc = @ + 1,
                            !.ref = CancelRef(r)]]
     /\ wire' = Append_to(wire, p, q,
                          Pkt("CANCEL_SEND_REQ", [r.env EXCEPT !.rank = p], h, NoReq, r.msg))
     /\ UNCHANGED <<sends, recvs>>

(***************************************************************************)
(* MPIDI_CH3_PktHandler_CancelSendReq: one reference of the unexpected     *)
(* request is released.                                                    *)
(***************************************************************************)
PktHandler_CancelSendReq(p, q) ==
  /\ Arrived(p, q, "CANCEL_SEND_REQ")
  /\ LET pkt  == Head(wire[q][p])
         d    == dev[p]
         i    == Q!FDU(d.unexp, Env(d), Sender(d), pkt.sreq, pkt.env)
         u    == d.unexp[i]
         resp == [Pkt("CANCEL_SEND_RESP", NoMsg, pkt.sreq, NoReq, pkt.msg)
                    EXCEPT !.ack = i # 0]
     IN /\ wire' = Append_to(Taken(q, p), p, q, resp)
        /\ \/ /\ i # 0
              /\ dev' = [dev EXCEPT ![p] =
                           Request_release([d EXCEPT !.unexp = RemoveAt(@, i)], u)]
              /\ sends' = Mark(sends, d.req[u].msg, "cancelled")
           \/ /\ i = 0
              /\ UNCHANGED <<dev, sends>>
  /\ UNCHANGED recvs

(* does a cancel response also stand for an ack that will never come? *)
NoAckWillCome_never(r, ack) == FALSE
NoAckWillCome(r, ack) == ack /\ (r.msgType = "RNDV" \/ r.type = "SSEND")

(***************************************************************************)
(* MPIDI_CH3_PktHandler_CancelSendResp: an acknowledged cancel also stands *)
(* for the clear-to-send or the ack that will never come.                  *)
(***************************************************************************)
PktHandler_CancelSendResp(p, q) ==
  /\ Arrived(p, q, "CANCEL_SEND_RESP")
  /\ LET pkt   == Head(wire[q][p])
         r     == dev[p].req[pkt.sreq]
         extra == NoAckWillCome(r, pkt.ack)
     IN dev' = [dev EXCEPT ![p] =
                  Request_complete([@ EXCEPT !.req[pkt.sreq].cancelled = pkt.ack,
                                             !.req[pkt.sreq].cc = IF extra THEN @ - 1 ELSE @],
                                   pkt.sreq)]
  /\ wire' = Taken(q, p)
  /\ UNCHANGED <<sends, recvs>>

(***************************************************************************)
(* MPID_Cancel_recv: only a receive that is still posted is cancelled.     *)
(***************************************************************************)
Cancel_recv(p, h) ==
  LET d == dev[p]
      i == Q!DP(d.posted, h)
  IN /\ "cancel_recv" \in Calls
     /\ d.req[h].kind = "recv" /\ d.req[h].user /\ i # 0
     /\ dev' = [dev EXCEPT ![p] =
          Set_completed([d EXCEPT !.posted = RemoveAt(@, i), !.req[h].cancelled = TRUE], h)]
     /\ recvs' = [recvs EXCEPT ![p][d.req[h].op].st = "cancelled"]
     /\ UNCHANGED <<wire, sends>>

(***************************************************************************)
(* The program lets go of a request: MPI_Wait or MPI_Test on a complete    *)
(* one, MPI_Request_free at any time.                                      *)
(***************************************************************************)
Wait(p, h) ==
  /\ dev[p].req[h].user /\ dev[p].req[h].cc = 0
  /\ dev' = [dev EXCEPT ![p] = Request_release([@ EXCEPT !.req[h].user = FALSE], h)]
  /\ UNCHANGED <<wire, sends, recvs>>

Request_free(p, h) ==
  /\ "request_free" \in Calls
  /\ dev[p].req[h].user /\ dev[p].req[h].cc > 0
  /\ dev' = [dev EXCEPT ![p] = Request_release([@ EXCEPT !.req[h].user = FALSE], h)]
  /\ UNCHANGED <<wire, sends, recvs>>

-----------------------------------------------------------------------------
Handler(p, q) == \/ PktHandler_EagerSend(p, q)
                 \/ PktHandler_EagerShortSend(p, q)
                 \/ PktHandler_EagerSyncSend(p, q)
                 \/ PktHandler_EagerSyncAck(p, q)
                 \/ PktHandler_RndvReqToSend(p, q)
                 \/ PktHandler_RndvClrToSend(p, q)
                 \/ PktHandler_RndvSend(p, q)
                 \/ PktHandler_CancelSendReq(p, q)
                 \/ PktHandler_CancelSendResp(p, q)
                 \/ Handle_recv_req(p, q)

Next ==
  \/ \E p \in Proc : \E q \in Proc \ {p} :
       \/ \E m \in Modes \cap IsendModes, c \in Ctx, t \in Tag : Isend(p, q, m, c, t)
       \/ \E m \in Modes \cap IssendModes, c \in Ctx, t \in Tag : Issend(p, q, m, c, t)
       \/ \E m \in Modes \cap SendModes, c \in Ctx, t \in Tag : Send(p, q, m, c, t)
       \/ PktHandler_EagerSend(p, q)
       \/ PktHandler_EagerShortSend(p, q)
       \/ PktHandler_EagerSyncSend(p, q)
       \/ PktHandler_EagerSyncAck(p, q)
       \/ PktHandler_RndvReqToSend(p, q)
       \/ PktHandler_RndvClrToSend(p, q)
       \/ PktHandler_RndvSend(p, q)
       \/ PktHandler_CancelSendReq(p, q)
       \/ PktHandler_CancelSendResp(p, q)
       \/ Handle_recv_req(p, q)
  \/ \E p \in Proc :
       \/ \E m \in Modes \ SendModes, c \in Ctx, t \in Tag : Isend_self(p, m, c, t)
       \/ \E r \in RecvArgs : Irecv(p, r)
       \/ \E h \in Handle : \/ Handle_send_req(p, h)
                            \/ Cancel_send(p, h)
                            \/ Cancel_send_self(p, h)
                            \/ Cancel_recv(p, h)
                            \/ Wait(p, h)
                            \/ Request_free(p, h)

Spec == Init /\ [][Next]_vars

(***************************************************************************)
(* Fairness: every process keeps entering the progress engine (at the      *)
(* latest in MPI_Finalize), which reads each connection and reports        *)
(* written data.  Nothing is assumed of the program's own calls.           *)
(***************************************************************************)
FairSpec == /\ Spec
            /\ \A p \in Proc : /\ WF_vars(\E q \in Proc \ {p} : Handler(p, q))
                               /\ WF_vars(\E h \in Handle : Handle_send_req(p, h))

-----------------------------------------------------------------------------
MsgIds == Proc \X Proc \X (Nat \ {0})

Requests ==
  [kind : {"free", "send", "recv"}, ref : 0..2, cc : 0..3, env : Wants \cup {NoMsg},
   msgType : {"NO", "EAGER", "RNDV", "SELF"}, type : {"NO", "SEND", "SSEND", "RECV"},
   sreq : Handle \cup {NoReq}, partner : Handle \cup {NoReq}, sync : BOOLEAN,
   empty : BOOLEAN, pending : 0..2, unpackUE : BOOLEAN, writing : BOOLEAN,
   cancelPending : BOOLEAN, cancelled : BOOLEAN, msg : MsgIds \cup {NoMsg},
   buf : MsgIds \cup {NoMsg}, user : BOOLEAN, op : Nat]

(***************************************************************************)
(* Type invariant: counters of requests stay in range (a count never goes  *)
(* below zero), and a handle is on the free list, once, iff it is free.    *)
(***************************************************************************)
TypeOK ==
  /\ \A p \in Proc :
       /\ \A h \in Handle : dev[p].req[h] \in Requests
       /\ \A q \in Proc : dev[p].active[q] \in Handle \cup {NoReq}
       /\ ToSet(dev[p].avail) = {h \in Handle : dev[p].req[h].kind = "free"}
       /\ Cardinality(ToSet(dev[p].avail)) = Len(dev[p].avail)
       /\ ToSet(dev[p].posted) \cup ToSet(dev[p].unexp)
            \subseteq {h \in Handle : dev[p].req[h].kind = "recv"}
  /\ \A p, q \in Proc : \A i \in 1..Len(wire[p][q]) : wire[p][q][i].type \in PacketTypes

B(b) == IF b THEN 1 ELSE 0

(***************************************************************************)
(* The reference count of a request is one for its holder, the program or  *)
(* the unexpected queue, and one for the device until the request is       *)
(* complete: completing, cancelling and freeing in any order neither frees *)
(* a request in use nor keeps a finished one.  The pool holds the requests *)
(* that are free, and the queues none of them (TypeOK).                    *)
(***************************************************************************)
RefExact ==
  /\ TypeOK
  /\ \A p \in Proc : \A h \in Handle :
    LET r == dev[p].req[h]
    IN r.kind # "free" =>
         r.ref = B(r.user \/ h \in ToSet(dev[p].unexp)) + B(r.cc > 0)

(***************************************************************************)
(* A handle in a packet still names the request it was sent for, and that  *)
(* request is incomplete, whatever the program freed or cancelled in the   *)
(* meantime ("regardless of what the user does").                          *)
(***************************************************************************)
HandlesValid ==
  \A p, q \in Proc :
    /\ \A i \in 1..Len(wire[q][p]) :
         LET pkt == wire[q][p][i]
             s   == dev[p].req[pkt.sreq]
             r   == dev[p].req[pkt.rreq]
         IN /\ pkt.type \in {"RNDV_CLR_TO_SEND", "EAGER_SYNC_ACK", "CANCEL_SEND_RESP"} =>
                  s.kind = "send" /\ s.msg = pkt.msg /\ s.cc > 0
            /\ pkt.type = "RNDV_SEND" =>
                  r.kind = "recv" /\ r.msg = pkt.msg /\ r.cc > 0
    /\ dev[p].active[q] # NoReq => LET r == dev[p].req[dev[p].active[q]]
                                   IN r.kind = "recv" /\ r.cc > 0 /\ r.msg[1] = q

(***************************************************************************)
(* A complete receive holds the data of the message it matched.            *)
(***************************************************************************)
DataRight ==
  \A p \in Proc : \A h \in Handle :
    LET r == dev[p].req[h]
    IN r.kind = "recv" /\ r.user /\ r.cc = 0 =>
         IF r.cancelled THEN recvs[p][r.op].st = "cancelled"
         ELSE recvs[p][r.op].got = r.msg /\ (r.empty \/ r.buf = r.msg)

MsgState(m) == sends[m[1]][m[2]][m[3]].st

(***************************************************************************)
(* A complete send reports "cancelled" iff its own message was withdrawn:  *)
(* never one that was received, never another message that used the same   *)
(* handle before.                                                          *)
(***************************************************************************)
CancelExact ==
  \A p \in Proc : \A h \in Handle :
    LET r == dev[p].req[h]
    IN r.kind = "send" /\ r.cc = 0 => (r.cancelled <=> MsgState(r.msg) = "cancelled")

(***************************************************************************)
(* A synchronous or rendezvous send is complete only after its message was *)
(* matched or withdrawn.                                                   *)
(***************************************************************************)
SyncMeansMatched ==
  \A p \in Proc : \A h \in Handle :
    LET r == dev[p].req[h]
    IN r.kind = "send" /\ r.cc = 0 /\ (r.type = "SSEND" \/ r.msgType \in {"RNDV", "SELF"})
         => MsgState(r.msg) # "pending"

(***************************************************************************)
(* The device implements the matching rules of MPI: at most once, in the   *)
(* order of the sends and of the receives.                                 *)
(***************************************************************************)
Match == INSTANCE MPIMatch
MatchingInOrder == Match!Spec

(***************************************************************************)
(* A cancelled send completes, whatever the cancel raced with: the match,  *)
(* the clear-to-send or the ack (MPIDI_CH3_PktHandler_CancelSendResp).     *)
(***************************************************************************)
CancelCompletes ==
  \A p \in Proc : \A h \in Handle :
    (dev[p].req[h].kind = "send" /\ dev[p].req[h].cancelPending)
      ~> (dev[p].req[h].kind # "send" \/ dev[p].req[h].cc = 0)

Incomplete(p, h) == dev[p].req[h].cc > 0 /\ dev[p].req[h].msg # NoMsg

(***************************************************************************)
(* A matched message is delivered: the send and the receive request, which *)
(* wait for each other's packets, both complete.                           *)
(***************************************************************************)
MatchedCompletes ==
  \A p \in Proc : \A h \in Handle :
    (Incomplete(p, h) /\ MsgState(dev[p].req[h].msg) = "matched") ~> ~Incomplete(p, h)

(***************************************************************************)
(* No request is orphaned: a receive request that neither the program nor  *)
(* a queue holds is one whose data is still to come.  It does not hold     *)
(* (README, "What the models found"): a rendezvous message cancelled while *)
(* it is unexpected leaves its receive request behind.                     *)
(***************************************************************************)
NoOrphans ==
  \A p \in Proc : \A h \in Handle :
    LET r == dev[p].req[h]
    IN r.kind = "recv" /\ ~r.user =>
         h \in ToSet(dev[p].posted) \cup ToSet(dev[p].unexp) \/ MsgState(r.msg) = "matched"

=============================================================================
