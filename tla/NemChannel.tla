------------------------------ MODULE NemChannel ------------------------------
(***************************************************************************)
(* The nemesis channel between the processes of one node, from             *)
(* channels/nemesis/src/ch3_progress.c and nemesis/include/                *)
(* mpid_nem_inline.h.  A message travels in a fastbox, of which there is   *)
(* one per ordered pair of processes, or in cells on the receive queue of  *)
(* its destination; sequence numbers keep the two in order.  The queues    *)
(* are those that NemQueue implements: a cell may appear some time after   *)
(* it was enqueued.  All sends of a process that cannot go at once wait in *)
(* one send queue.                                                         *)
(***************************************************************************)
EXTENDS Naturals, FiniteSets, SequencesExt

CONSTANTS N,            \* number of processes of the node
          Msg,          \* message contents
          KindOf,       \* KindOf[m]: "header", "small" or "large"
          Dest,         \* Dest[p]: where p sends to
          Cells,        \* cells of each process (MPID_NEM_NUM_CELLS)
          SeqnoMod,     \* sequence numbers are unsigned short
          Loads         \* bound: how many messages the processes may send

Proc == 0..(N - 1)

ASSUME NemChannelAssumption ==
  /\ N \in Nat \ {0} /\ Cells \in Nat \ {0}
  /\ SeqnoMod \in Nat /\ SeqnoMod > Cells + 1
  /\ KindOf \in [Msg -> {"header", "small", "large"}]
  /\ Dest \in [Proc -> SUBSET Proc]
  /\ \A p \in Proc : p \notin Dest[p]
  /\ Loads \subseteq [Proc -> Nat]

None == <<>>                    \* an empty fastbox, no receive in progress

VARIABLES pc,           \* pc[p]: where p is in MPIDI_CH3I_Progress
          sendq,        \* sendq[p]: CH3I_SendQ, with what is left to send
          fbox,         \* fbox[p][q]: the fastbox from p to q
          arriving,     \* arriving[q]: cells enqueued on q's receive queue
          ready,        \* ready[q]: cells that q can see there
          free,         \* free[p]: free cells of p, the prefetched one too
          returning,    \* returning[p]: released cells p cannot see yet
          send_seqno,   \* send_seqno[p][q]
          recv_seqno,   \* recv_seqno[q][p]: MPID_nem_recv_seqno
          recv_active,  \* recv_active[q][p]: the last packet of a message
                        \*   that has more
          all_poll,     \* all_poll[q]: MPID_nem_curr_fbox_all_poll
          tosend        \* tosend[p]: messages still to start, for the bound only

queues == <<arriving, ready, free, returning>>
vars == <<pc, sendq, fbox, queues, send_seqno, recv_seqno, recv_active, all_poll, tosend>>

(***************************************************************************)
(* A large message takes two cells, any other one.                         *)
(***************************************************************************)
Parts(m) == IF KindOf[m] = "large" THEN 2 ELSE 1
Packets == [src : Proc, seqno : 0..(SeqnoMod - 1), msg : Msg, part : 1..2]
Pairs(v) == [p \in Proc |-> [q \in Proc |-> v]]
Set(table, p, q, v) == [table EXCEPT ![p][q] = v]
Bump(table, p, q) == Set(table, p, q, (table[p][q] + 1) % SeqnoMod)
Goto(p, where) == pc' = [pc EXCEPT ![p] = where]

Init == /\ pc = [p \in Proc |-> "out"]
        /\ sendq = [p \in Proc |-> <<>>]
        /\ fbox = Pairs(None)
        /\ arriving = [p \in Proc |-> <<>>]
        /\ ready = [p \in Proc |-> <<>>]
        /\ free = [p \in Proc |-> Cells]
        /\ returning = [p \in Proc |-> 0]
        /\ send_seqno = Pairs(0)
        /\ recv_seqno = Pairs(0)
        /\ recv_active = Pairs(None)
        /\ all_poll = [p \in Proc |-> 0]
        /\ tosend \in Loads

-----------------------------------------------------------------------------
(***************************************************************************)
(* MPIDI_CH3_iStartMsg and its siblings: a message is tried at once, at    *)
(* "start", only if no other one waits.                                    *)
(***************************************************************************)
iStartMsg(p, q, m) ==
  /\ pc[p] = "out" /\ q \in Dest[p] /\ tosend[p] > 0
  /\ tosend' = [tosend EXCEPT ![p] = @ - 1]
  /\ sendq' = [sendq EXCEPT ![p] = Append(@, [dst |-> q, msg |-> m, part |-> 1])]
  /\ Goto(p, IF sendq[p] = <<>> THEN "start" ELSE "out")
  /\ UNCHANGED <<fbox, queues, send_seqno, recv_seqno, recv_active, all_poll>>

(***************************************************************************)
(* The send functions of mpid_nem_inline.h on the head of the send queue.  *)
(* A whole message that fits goes to the fastbox if that is free; a        *)
(* message that consists of a header alone is sent with sendv_header,      *)
(* which then does not use the fastbox, once it had to wait.               *)
(***************************************************************************)
Fits_last_part(p, e) == e.part = Parts(e.msg)

Fits(p, e) == /\ e.part = 1 /\ Parts(e.msg) = 1
              /\ KindOf[e.msg] = "header" => pc[p] = "start"

Packet(p, e) == [src |-> p, seqno |-> send_seqno[p][e.dst],
                 msg |-> e.msg, part |-> e.part]

Sending(p, e) == /\ pc[p] \in {"start", "send"}
                 /\ sendq[p] # <<>> /\ e = Head(sendq[p])

SendFastbox(p, e) ==
  /\ Sending(p, e) /\ Fits(p, e) /\ fbox[p][e.dst] = None
  /\ fbox' = Set(fbox, p, e.dst, Packet(p, e))
  /\ send_seqno' = Bump(send_seqno, p, e.dst)
  /\ sendq' = [sendq EXCEPT ![p] = Tail(@)]
  /\ Goto(p, "out")
  /\ UNCHANGED <<queues, recv_seqno, recv_active, all_poll, tosend>>

UseQueue(p, e) == Sending(p, e) /\ ~(Fits(p, e) /\ fbox[p][e.dst] = None)

(***************************************************************************)
(* One cell.  The loop of the progress engine sends the next part at once. *)
(***************************************************************************)
SendCell(p, e) ==
  /\ UseQueue(p, e) /\ free[p] > 0
  /\ free' = [free EXCEPT ![p] = @ - 1]
  /\ arriving' = [arriving EXCEPT ![e.dst] = Append(@, Packet(p, e))]
  /\ send_seqno' = Bump(send_seqno, p, e.dst)
  /\ IF e.part < Parts(e.msg)
     THEN /\ sendq' = [sendq EXCEPT ![p][1].part = @ + 1]
          /\ UNCHANGED pc
     ELSE /\ sendq' = [sendq EXCEPT ![p] = Tail(@)]
          /\ Goto(p, "out")
  /\ UNCHANGED <<fbox, ready, returning, recv_seqno, recv_active, all_poll, tosend>>

(* "again": the message, or its rest, stays at the head of the send queue *)
SendAgain(p, e) ==
  /\ UseQueue(p, e) /\ free[p] = 0
  /\ Goto(p, "out")
  /\ UNCHANGED <<sendq, fbox, queues, send_seqno, recv_seqno, recv_active, all_poll, tosend>>

Send(p) == \E e \in ToSet(sendq[p]) : SendFastbox(p, e) \/ SendCell(p, e) \/ SendAgain(p, e)

-----------------------------------------------------------------------------
(***************************************************************************)
(* MPID_nem_mpich2_test_recv, and the handling of what it found: a packet  *)
(* of p opens a message or continues the one being received.  Then the     *)
(* engine makes progress on sends.                                         *)
(***************************************************************************)
recv_seqno_matches_always(q, k) == TRUE

recv_seqno_matches(q, k) == k.seqno = recv_seqno[q][k.src]

handle_pkt(q, k) ==
  /\ recv_seqno' = Bump(recv_seqno, q, k.src)
  /\ recv_active' = Set(recv_active, q, k.src, IF k.part < Parts(k.msg) THEN k ELSE None)

ThenSend(q) == Goto(q, IF sendq[q] = <<>> THEN "out" ELSE "send")

InFastbox(q, p) == fbox[p][q] # None /\ recv_seqno_matches(q, fbox[p][q])

TakeFastbox(q, p) ==
  /\ InFastbox(q, p)
  /\ handle_pkt(q, fbox[p][q])
  /\ fbox' = Set(fbox, p, q, None)
  /\ ThenSend(q)
  /\ UNCHANGED <<sendq, queues, send_seqno, all_poll, tosend>>

(***************************************************************************)
(* poll_fboxes looks at the fastboxes of processes for which a receive is  *)
(* posted: any of them, or none, and then the queue is next.               *)
(***************************************************************************)
poll_fboxes(q, p) == pc[q] = "out" /\ TakeFastbox(q, p)

QueueMatches(q) == ready[q] # <<>> /\ recv_seqno_matches(q, Head(ready[q]))

(* MPID_nem_mpich2_release_cell returns the cell to the sender *)
Released_never(k) == returning

Released(k) == [returning EXCEPT ![k.src] = @ + 1]

TakeCell(q) ==
  /\ pc[q] = "out" /\ QueueMatches(q)
  /\ LET k == Head(ready[q]) IN handle_pkt(q, k) /\ returning' = Released(k)
  /\ ready' = [ready EXCEPT ![q] = Tail(@)]
  /\ ThenSend(q)
  /\ UNCHANGED <<sendq, fbox, arriving, free, send_seqno, all_poll, tosend>>

QueueFails(q) ==
  /\ pc[q] = "out" /\ ~QueueMatches(q)
  /\ Goto(q, "all")
  /\ UNCHANGED <<sendq, fbox, queues, send_seqno, recv_seqno, recv_active, all_poll, tosend>>

(***************************************************************************)
(* poll_all_fboxes looks at one fastbox, at the next one the next time.    *)
(* (The fastboxes that nobody ever uses are passed over at once.)          *)
(***************************************************************************)
Senders(q) == {p \in Proc : q \in Dest[p]} \cup {0}
After(q, p) == (p + N - all_poll[q] - 1) % N

NextPoll_stuck(q) == all_poll[q]

NextPoll(q) == CHOOSE p \in Senders(q) : \A r \in Senders(q) : After(q, p) <= After(q, r)

poll_all_fboxes(q) ==
  /\ pc[q] = "all"
  /\ \/ TakeFastbox(q, all_poll[q])
     \/ /\ ~InFastbox(q, all_poll[q])
        /\ all_poll' = [all_poll EXCEPT ![q] = NextPoll(q)]
        /\ ThenSend(q)
        /\ UNCHANGED <<sendq, fbox, queues, send_seqno, recv_seqno, recv_active, tosend>>

-----------------------------------------------------------------------------
(***************************************************************************)
(* An enqueuer has written its link: the next cell appears.                *)
(***************************************************************************)
CellAppears(q) ==
  /\ arriving[q] # <<>>
  /\ ready' = [ready EXCEPT ![q] = Append(@, Head(arriving[q]))]
  /\ arriving' = [arriving EXCEPT ![q] = Tail(@)]
  /\ UNCHANGED <<pc, sendq, fbox, free, returning, send_seqno, recv_seqno,
                 recv_active, all_poll, tosend>>

CellReturns(p) ==
  /\ returning[p] > 0
  /\ returning' = [returning EXCEPT ![p] = @ - 1]
  /\ free' = [free EXCEPT ![p] = @ + 1]
  /\ UNCHANGED <<pc, sendq, fbox, arriving, ready, send_seqno, recv_seqno,
                 recv_active, all_poll, tosend>>

Progress(p) == \/ Send(p)
               \/ \E q \in Proc : poll_fboxes(p, q)
               \/ TakeCell(p) \/ QueueFails(p) \/ poll_all_fboxes(p)

Next == \E p \in Proc : \/ \E q \in Proc, m \in Msg : iStartMsg(p, q, m)
                        \/ Progress(p)
                        \/ CellAppears(p) \/ CellReturns(p)

Spec == Init /\ [][Next]_vars

(***************************************************************************)
(* Every process calls the progress engine again and again, and what was   *)
(* enqueued appears.                                                       *)
(***************************************************************************)
FairSpec == Spec /\ \A p \in Proc : /\ WF_vars(Progress(p))
                                    /\ WF_vars(CellAppears(p))
                                    /\ WF_vars(CellReturns(p))

-----------------------------------------------------------------------------
(***************************************************************************)
(* The packets from p that q has not got, in cells and in the fastbox.     *)
(***************************************************************************)
InCells(p, q) == {k \in ToSet(ready[q] \o arriving[q]) : k.src = p}
InFlight(p, q) == InCells(p, q) \cup ({fbox[p][q]} \ {None})

(***************************************************************************)
(* The messages from p that q has not got, each with a place: the one that *)
(* q is receiving, then those in flight by sequence number, then those in  *)
(* the send queue.                                                         *)
(***************************************************************************)
Item(i, m) == [place |-> i, msg |-> m]
Age(p, q, k) == (k.seqno + SeqnoMod - recv_seqno[q][p]) % SeqnoMod

Undelivered(p, q) ==
  {Item(0, k.msg) : k \in {recv_active[q][p]} \ {None}}
  \cup {Item(1 + Age(p, q, k), k.msg) : k \in {j \in InFlight(p, q) : j.part = 1}}
  \cup {Item(SeqnoMod + i, sendq[p][i].msg) :
          i \in {j \in DOMAIN sendq[p] : sendq[p][j].dst = q /\ sendq[p][j].part = 1}}

(* the messages of a set of items, in the order of their places *)
Before(S, x) == {y \in S : y.place <= x.place}
InOrder(S) == [n \in 1..Cardinality(S) |->
                (CHOOSE x \in S : Cardinality(Before(S, x)) = n).msg]

Chan == [p \in Proc |-> [q \in Proc |-> InOrder(Undelivered(p, q))]]
Channel == INSTANCE InOrderChannel WITH chan <- Chan

(***************************************************************************)
(* The channel keeps the order of each sender although its messages take   *)
(* different ways, and neither loses nor doubles one when cells run out or *)
(* the sequence numbers wrap.                                              *)
(***************************************************************************)
ImplementsChannel == Channel!Spec

(* the cells of p in the receive queues *)
CellsInQueues(p) == UNION {{q} \X InCells(p, q) : q \in Proc}

(***************************************************************************)
(* The types; and no cell is lost: those of a process are free, on their   *)
(* way back, or in the receive queue of another process.                   *)
(***************************************************************************)
TypeOK ==
  /\ pc \in [Proc -> {"out", "start", "send", "all"}]
  /\ \A p, q \in Proc : fbox[p][q] \in Packets \cup {None}
  /\ \A p, q \in Proc : recv_active[p][q] \in Packets \cup {None}
  /\ \A p \in Proc : all_poll[p] \in Proc
  /\ \A p \in Proc :
       free[p] + returning[p] + Cardinality(CellsInQueues(p)) = Cells

(***************************************************************************)
(* The assertions of the progress engine: a fastbox holds a whole message  *)
(* and is only taken when no other message of the sender is being          *)
(* received; a cell continues the message that is being received.          *)
(***************************************************************************)
AssertionsHold ==
  \A p, q \in Proc : \A k \in InFlight(p, q) :
    recv_seqno_matches(q, k) =>
      IF recv_active[q][p] = None THEN k.part = 1
      ELSE /\ k # fbox[p][q]
           /\ k.msg = recv_active[q][p].msg
           /\ k.part = recv_active[q][p].part + 1

(***************************************************************************)
(* Every message arrives, also from a process for which no receive is      *)
(* posted and when all cells are in use.                                   *)
(***************************************************************************)
EverythingArrives ==
  LET quiet == \A p, q \in Proc : Chan[p][q] = <<>> IN ~quiet ~> quiet
===============================================================================
