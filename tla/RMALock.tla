------------------------------- MODULE RMALock -------------------------------
(***************************************************************************)
(* Passive-target remote memory access (src/mpid/ch3/src): the lock of one *)
(* window at process Target, requested by the processes of Origins over    *)
(* channels that deliver in order, and by Target itself.  A request that   *)
(* cannot be granted waits in the lock queue of the window.                *)
(*                                                                         *)
(* MPI_Win_lock at an origin only records the request; MPI_Win_unlock      *)
(* sends everything.  An epoch of one small operation travels in a single  *)
(* packet (LOCK_PUT_UNLOCK, LOCK_GET_UNLOCK, LOCK_ACCUM_UNLOCK), any other *)
(* asks for the lock, waits for it and sends its operations, of which the  *)
(* last one releases the lock.                                             *)
(*                                                                         *)
(* org[o] is the origin side of the window at o, tgt the target side, self *)
(* the target's own use of it.  tgt.held is history: the epochs that were  *)
(* granted the lock and have not released it.                              *)
(***************************************************************************)
EXTENDS Integers, Sequences, FiniteSets, SequencesExt

CONSTANTS Target, Origins,  \* the process with the window, the other ones
          Programs,         \* the epochs each origin runs
          SelfLocks,        \* the locks the target itself takes
          MaxEpochs,        \* bound: epochs of each process
          NoData            \* no operation is being received

Ops == {"put", "acc", "get"}
Locks == {"shared", "exclusive"}

ASSUME RMALockAssumption ==
  /\ Target \notin Origins
  /\ \A o \in Origins :
       Programs[o] \subseteq [lock : Locks, ops : Seq(Ops) \ {<<>>}, small : BOOLEAN]
  /\ SelfLocks \subseteq Locks
  /\ MaxEpochs \in [Origins \cup {Target} -> Nat]

VARIABLES org, tgt, self, wire

vars == <<org, tgt, self, wire>>

Epoch(p, n, l) == [who |-> p, n |-> n, lock |-> l]

-----------------------------------------------------------------------------
(***************************************************************************)
(* The lock of the window: the locking rules of Try_acquire_win_lock.      *)
(***************************************************************************)
CanAcquire(w, l) ==
  \/ l = "shared" /\ w.type \in {"none", "shared"}
  \/ l = "exclusive" /\ w.type = "none"

Acquire(w, ep) ==
  [w EXCEPT !.type = ep.lock, !.held = @ \cup {ep},
            !.cnt = IF ep.lock = "shared" THEN @ + 1 ELSE @]

Reply(w, ep, t) == [w EXCEPT !.out[ep.who] = Append(@, t)]

(* an entry of the lock queue; recd: nothing of it is still to be received *)
Entry(ep, op, recd) == [ep |-> ep, op |-> op, recd |-> recd]
Enqueue(w, e) == [w EXCEPT !.queue = Append(@, e)]

(* the end of an epoch, up to the point where the lock may become free *)
Unshare(w, ep) ==
  [w EXCEPT !.held = @ \ {ep}, !.cnt = IF w.type = "shared" THEN @ - 1 ELSE @]

(***************************************************************************)
(* do_simple_get: the response is written at once, for an origin of quick  *)
(* whose connection has no other response waiting, or later.               *)
(***************************************************************************)
AtOnce(w, ep, quick) == ep.who \in quick /\ w.resp[ep.who] = <<>>
Respond(w, ep, last, quick) ==
  [Reply(w, ep, "GET_RESP") EXCEPT
     !.resp[ep.who] = IF AtOnce(w, ep, quick) THEN @ ELSE Append(@, [ep |-> ep, last |-> last])]

(***************************************************************************)
(* MPIDI_CH3I_Release_lock.  One pass over the lock queue visits its       *)
(* entries in order.  a.w is the target (a.w.queue the entries that stay), *)
(* a.stop says that the pass has ended, a.entered counts the releases by   *)
(* get responses that were written at once, inside the pass.  The loop     *)
(* does not leave an entry that is ready and that cannot be granted: the   *)
(* process spins.                                                          *)
(***************************************************************************)
Stay(a, e) == [a EXCEPT !.w.queue = Append(@, e)]

Spin(a, e) == [Stay(a, e) EXCEPT !.w.spins = TRUE, !.stop = TRUE]

VisitLock(a, e) == [a EXCEPT !.w = Reply(Acquire(@, e.ep), e.ep, "LOCK_GRANTED"),
                             !.stop = e.ep.lock = "exclusive"]

(* a put or an accumulate is done, acknowledged and its lock released *)
VisitPut(a, e) ==
  LET v == Unshare([Reply(Acquire(a.w, e.ep), e.ep, "PT_RMA_DONE") EXCEPT !.puts = @ + 1], e.ep)
  IN [a EXCEPT !.w = IF v.cnt = 0 THEN [v EXCEPT !.type = "none"] ELSE v]

(* the nested call of Release_lock only counts that it was entered (the    *)
(* mutant forgets it)                                                      *)
VisitGet_not_entered(a, e, quick) ==
  LET w == Acquire(a.w, e.ep)
      v == Respond(w, e.ep, TRUE, quick)
      b == [a EXCEPT !.stop = e.ep.lock = "exclusive"]
  IN [b EXCEPT !.w = IF AtOnce(w, e.ep, quick) THEN Unshare(v, e.ep) ELSE v]

VisitGet(a, e, quick) ==
  LET w == Acquire(a.w, e.ep)
      v == Respond(w, e.ep, TRUE, quick)
      u == Unshare(v, e.ep)
      b == [a EXCEPT !.stop = e.ep.lock = "exclusive"]
  IN IF AtOnce(w, e.ep, quick)
     THEN [b EXCEPT !.w = u, !.entered = IF u.cnt = 0 THEN @ + 1 ELSE @]
     ELSE [b EXCEPT !.w = v]

Visit(a, e, quick) ==
  CASE a.stop \/ ~e.recd              -> Stay(a, e)
    [] ~CanAcquire(a.w, e.ep.lock)    -> Spin(a, e)
    [] e.op = "lock"                  -> VisitLock(a, e)
    [] e.op = "get"                   -> VisitGet(a, e, quick)
    [] OTHER                          -> VisitPut(a, e)

Pass(a, quick) ==
  FoldLeft(LAMBDA b, e : Visit(b, e, quick),
           [a EXCEPT !.w.type = "none", !.w.queue = <<>>, !.stop = FALSE],
           a.w.queue)

(* the i-th pass is made if the lock was released often enough by then *)
Passes(w, quick) ==
  FoldLeft(LAMBDA a, i : IF i <= a.entered + 1 /\ ~a.w.spins THEN Pass(a, quick) ELSE a,
           [w |-> w, entered |-> 0, stop |-> FALSE],
           [i \in 1..Len(w.queue) + 1 |-> i]).w

Release_lock_no_grant(w, ep, quick) ==   \* mutant: leaves the queue alone
  LET v == Unshare(w, ep)
  IN IF v.cnt = 0 THEN [v EXCEPT !.type = "none"] ELSE v

Release_lock(w, ep, quick) ==
  LET v == Unshare(w, ep)
  IN IF v.cnt = 0 THEN Passes(v, quick) ELSE v

-----------------------------------------------------------------------------
(***************************************************************************)
(* The completion handlers at the target.  An operation that finds the     *)
(* window unlocked is taken for one of an active-target epoch and lowers   *)
(* my_counter.                                                             *)
(***************************************************************************)
PutAccumRespComplete_always_done(w, ep, last, single, quick) ==  \* mutant: acks every epoch
  LET v == IF w.type = "none" THEN w ELSE [w EXCEPT !.puts = @ + 1]
  IN CASE ~last            -> v
       [] v.type = "none"  -> [v EXCEPT !.counter = @ - 1]
       [] OTHER            -> Release_lock(Reply(v, ep, "PT_RMA_DONE"), ep, quick)

PutAccumRespComplete(w, ep, last, single, quick) ==
  LET v == IF w.type = "none" THEN w ELSE [w EXCEPT !.puts = @ + 1]
  IN CASE ~last            -> v
       [] v.type = "none"  -> [v EXCEPT !.counter = @ - 1]
       [] OTHER            -> Release_lock(IF v.type = "shared" \/ single
                                           THEN Reply(v, ep, "PT_RMA_DONE") ELSE v,
                                           ep, quick)

SinglePutAccumComplete_uncounted(w, ep, quick) ==  \* mutant: a late operation is not counted
  IF CanAcquire(w, ep.lock)
  THEN Release_lock([Reply(Acquire(w, ep), ep, "PT_RMA_DONE")
                       EXCEPT !.queue = SelectSeq(@, LAMBDA e : e.ep # ep)],
                    ep, quick)
  ELSE [w EXCEPT !.queue = [i \in DOMAIN @ |-> IF @[i].ep = ep THEN [@[i] EXCEPT !.recd = TRUE]
                                                               ELSE @[i]]]

SinglePutAccumComplete(w, ep, quick) ==
  IF CanAcquire(w, ep.lock)
  THEN Release_lock([Reply(Acquire(w, ep), ep, "PT_RMA_DONE")
                       EXCEPT !.puts = @ + 1,
                              !.queue = SelectSeq(@, LAMBDA e : e.ep # ep)],
                    ep, quick)
  ELSE [w EXCEPT !.queue = [i \in DOMAIN @ |-> IF @[i].ep = ep THEN [@[i] EXCEPT !.recd = TRUE]
                                                               ELSE @[i]]]

GetSendRespComplete(w, ep, last, quick) ==
  CASE ~last            -> w
    [] w.type = "none"  -> [w EXCEPT !.counter = @ - 1]
    [] OTHER            -> Release_lock(w, ep, quick)

-----------------------------------------------------------------------------
Idle == [st |-> "idle", granted |-> FALSE, prog |-> NoData, gets |-> 0, done |-> FALSE,
         n |-> 0, puts |-> 0]

Init == /\ org = [o \in Origins |-> Idle]
        /\ tgt = [type |-> "none", cnt |-> 0, queue |-> <<>>, held |-> {}, puts |-> 0,
                  counter |-> 0, spins |-> FALSE,
                  recv |-> [o \in Origins |-> NoData],
                  resp |-> [o \in Origins |-> <<>>],
                  out |-> [o \in Origins |-> <<>>]]
        /\ self = [st |-> "idle", lock |-> "shared", n |-> 0]
        /\ wire = [o \in Origins |-> <<>>]

Pkt(t, ep, last) == [type |-> t, ep |-> ep, last |-> last]

(* the packets of an epoch: of a single small operation, and of the others *)
Send_lock_put_or_acc(ep, op) ==
  Pkt(IF op = "put" THEN "LOCK_PUT_UNLOCK" ELSE "LOCK_ACCUM_UNLOCK", ep, TRUE)
Send_lock_get(ep) == Pkt("LOCK_GET_UNLOCK", ep, TRUE)
Send_rma_msg(ep, op, last) == Pkt(IF op = "put" THEN "PUT" ELSE "ACCUMULATE", ep, last)
Recv_rma_msg(ep, last) == Pkt("GET", ep, last)

Puts(ops) == Len(SelectSeq(ops, LAMBDA x : x # "get"))
Gets(ops) == Len(SelectSeq(ops, LAMBDA x : x = "get"))

(***************************************************************************)
(* MPID_Win_unlock at an origin, up to its first wait: the single packet   *)
(* of a small operation, or the request for the lock.                      *)
(***************************************************************************)
Win_unlock(o, prog) ==
  LET r      == org[o]
      ep     == Epoch(o, r.n + 1, prog.lock)
      single == Len(prog.ops) = 1 /\ prog.small
      op     == prog.ops[1]
  IN /\ r.st = "idle" /\ r.n < MaxEpochs[o]
     /\ \/ /\ single
           /\ org' = [org EXCEPT ![o] =
                [r EXCEPT !.st = "finish", !.granted = TRUE, !.prog = prog, !.n = @ + 1,
                          !.gets = Gets(prog.ops), !.puts = @ + Puts(prog.ops),
                          !.done = op # "get"]]
           /\ wire' = [wire EXCEPT ![o] = Append(@, IF op = "get" THEN Send_lock_get(ep)
                                                    ELSE Send_lock_put_or_acc(ep, op))]
        \/ /\ ~single
           /\ org' = [org EXCEPT ![o] = [r EXCEPT !.st = "lock", !.granted = FALSE,
                                                  !.prog = prog, !.n = @ + 1]]
           /\ wire' = [wire EXCEPT ![o] = Append(@, Pkt("LOCK", ep, FALSE))]
     /\ UNCHANGED <<tgt, self>>

(***************************************************************************)
(* MPIDI_CH3I_Do_passive_target_rma: all operations are sent, the last one *)
(* marked.  Under a shared lock the first get is moved to the end, so that *)
(* its response can stand for the acknowledgement.                         *)
(***************************************************************************)
GetLast(ops) ==
  IF ops[Len(ops)] = "get" \/ Gets(ops) = 0 THEN ops
  ELSE LET i == SelectInSeq(ops, LAMBDA x : x = "get") IN Append(RemoveAt(ops, i), ops[i])

Do_passive_target_rma(o) ==
  LET r   == org[o]
      ops == IF r.prog.lock = "shared" THEN GetLast(r.prog.ops) ELSE r.prog.ops
      ep  == Epoch(o, r.n, r.prog.lock)
  IN /\ r.st = "lock" /\ r.granted
     /\ org' = [org EXCEPT ![o] = [r EXCEPT !.st = "finish", !.gets = Gets(ops),
                                            !.puts = @ + Puts(ops),
                                            !.done = r.prog.lock = "shared" /\ Gets(ops) = 0]]
     /\ wire' = [wire EXCEPT ![o] = @ \o [i \in 1..Len(ops) |->
                     IF ops[i] = "get" THEN Recv_rma_msg(ep, i = Len(ops))
                                       ELSE Send_rma_msg(ep, ops[i], i = Len(ops))]]
     /\ UNCHANGED <<tgt, self>>

(* MPI_Win_unlock returns: every get is here and, if need be, the ack too *)
Win_unlock_returns(o) ==
  /\ org[o].st = "finish" /\ org[o].gets = 0
  /\ org[o].done => ~org[o].granted
  /\ org' = [org EXCEPT ![o].st = "idle", ![o].granted = FALSE, ![o].done = FALSE,
                        ![o].prog = NoData]
  /\ UNCHANGED <<tgt, self, wire>>

(***************************************************************************)
(* Packets from the target: LOCK_GRANTED, PT_RMA_DONE and GET_RESP.        *)
(***************************************************************************)
ReplyIs(o, t) == tgt.out[o] # <<>> /\ Head(tgt.out[o]) = t
TakeReply(o) == tgt' = [tgt EXCEPT !.out[o] = Tail(@)]

PktHandler_LockGranted(o) ==
  /\ ReplyIs(o, "LOCK_GRANTED") /\ TakeReply(o)
  /\ org' = [org EXCEPT ![o].granted = TRUE]
  /\ UNCHANGED <<self, wire>>

PktHandler_PtRMADone(o) ==
  /\ ReplyIs(o, "PT_RMA_DONE") /\ TakeReply(o)
  /\ org' = [org EXCEPT ![o].granted = FALSE]
  /\ UNCHANGED <<self, wire>>

PktHandler_GetResp(o) ==
  /\ ReplyIs(o, "GET_RESP") /\ TakeReply(o)
  /\ org' = [org EXCEPT ![o].gets = @ - 1]
  /\ UNCHANGED <<self, wire>>

-----------------------------------------------------------------------------
(***************************************************************************)
(* Packets at the target.  One from o is read when no operation of o is    *)
(* still being received.                                                   *)
(***************************************************************************)
Arrived(o, t) == /\ ~tgt.spins /\ tgt.recv[o] = NoData
                 /\ wire[o] # <<>> /\ Head(wire[o]).type = t
Taken(o) == wire' = [wire EXCEPT ![o] = Tail(@)]

PktHandler_Lock(o) ==
  LET ep == Head(wire[o]).ep
  IN /\ Arrived(o, "LOCK") /\ Taken(o)
     /\ tgt' = IF CanAcquire(tgt, ep.lock) THEN Reply(Acquire(tgt, ep), ep, "LOCK_GRANTED")
                                           ELSE Enqueue(tgt, Entry(ep, "lock", TRUE))
     /\ UNCHANGED <<org, self>>

(* a put or accumulate whose data is there, or is still to come *)
ReceiveData(o) ==
  LET pkt == Head(wire[o])
  IN \/ \E quick \in SUBSET Origins :
          tgt' = PutAccumRespComplete(tgt, pkt.ep, pkt.last, FALSE, quick)
     \/ tgt' = [tgt EXCEPT !.recv[o] = [ep |-> pkt.ep, last |-> pkt.last, as |-> "put"]]

PktHandler_Put(o) ==
  Arrived(o, "PUT") /\ Taken(o) /\ ReceiveData(o) /\ UNCHANGED <<org, self>>

PktHandler_Accumulate(o) ==
  Arrived(o, "ACCUMULATE") /\ Taken(o) /\ ReceiveData(o) /\ UNCHANGED <<org, self>>

(* the response to a get, of which the last one releases the lock *)
GetResponse(w, ep, last, quick) ==
  LET v == Respond(w, ep, last, quick)
  IN IF AtOnce(w, ep, quick) THEN GetSendRespComplete(v, ep, last, quick) ELSE v

(* a get is answered at once, unless its datatype is still to come *)
PktHandler_Get(o) ==
  LET pkt == Head(wire[o])
  IN /\ Arrived(o, "GET") /\ Taken(o)
     /\ \/ \E quick \in SUBSET Origins : tgt' = GetResponse(tgt, pkt.ep, pkt.last, quick)
        \/ tgt' = [tgt EXCEPT !.recv[o] = [ep |-> pkt.ep, last |-> pkt.last, as |-> "get"]]
     /\ UNCHANGED <<org, self>>

PktHandler_LockPutUnlock(o) ==
  LET ep == Head(wire[o]).ep
      e  == Entry(ep, "put", FALSE)
  IN /\ Arrived(o, "LOCK_PUT_UNLOCK") /\ Taken(o)
     /\ \/ /\ CanAcquire(tgt, ep.lock)
           /\ \/ \E quick \in SUBSET Origins :
                   tgt' = PutAccumRespComplete(Acquire(tgt, ep), ep, TRUE, TRUE, quick)
              \/ tgt' = [Acquire(tgt, ep) EXCEPT
                           !.recv[o] = [ep |-> ep, last |-> TRUE, as |-> "singleput"]]
        \/ /\ ~CanAcquire(tgt, ep.lock)
           /\ \/ \E quick \in SUBSET Origins :
                   tgt' = SinglePutAccumComplete(Enqueue(tgt, e), ep, quick)
              \/ tgt' = [Enqueue(tgt, e) EXCEPT
                           !.recv[o] = [ep |-> ep, last |-> TRUE, as |-> "queued"]]
     /\ UNCHANGED <<org, self>>

(* an accumulate is queued even if the window is unlocked *)
PktHandler_LockAccumUnlock(o) ==
  LET ep == Head(wire[o]).ep
      w  == Enqueue(tgt, Entry(ep, "acc", FALSE))
  IN /\ Arrived(o, "LOCK_ACCUM_UNLOCK") /\ Taken(o)
     /\ \/ \E quick \in SUBSET Origins : tgt' = SinglePutAccumComplete(w, ep, quick)
        \/ tgt' = [w EXCEPT !.recv[o] = [ep |-> ep, last |-> TRUE, as |-> "queued"]]
     /\ UNCHANGED <<org, self>>

PktHandler_LockGetUnlock(o) ==
  LET ep == Head(wire[o]).ep
  IN /\ Arrived(o, "LOCK_GET_UNLOCK") /\ Taken(o)
     /\ \/ /\ CanAcquire(tgt, ep.lock)
           /\ \E quick \in SUBSET Origins :
                tgt' = GetResponse(Acquire(tgt, ep), ep, TRUE, quick)
        \/ /\ ~CanAcquire(tgt, ep.lock)
           /\ tgt' = Enqueue(tgt, Entry(ep, "get", TRUE))
     /\ UNCHANGED <<org, self>>

(* the rest of the data arrives: MPIDI_CH3U_Handle_recv_req *)
Handle_recv_req(o) ==
  LET r == tgt.recv[o]
      w == [tgt EXCEPT !.recv[o] = NoData]
  IN /\ ~tgt.spins /\ r # NoData
     /\ \E quick \in SUBSET Origins :
          tgt' = CASE r.as = "queued" -> SinglePutAccumComplete(w, r.ep, quick)
                   [] r.as = "get"    -> GetResponse(w, r.ep, r.last, quick)
                   [] OTHER           -> PutAccumRespComplete(w, r.ep, r.last,
                                                              r.as = "singleput", quick)
     /\ UNCHANGED <<org, self, wire>>

(* a get response has been written: MPIDI_CH3U_Handle_send_req *)
Handle_send_req(o) ==
  /\ ~tgt.spins /\ tgt.resp[o] # <<>>
  /\ \E quick \in SUBSET Origins :
       tgt' = GetSendRespComplete([tgt EXCEPT !.resp[o] = Tail(@)],
                                  Head(tgt.resp[o]).ep, Head(tgt.resp[o]).last, quick)
  /\ UNCHANGED <<org, self, wire>>

(***************************************************************************)
(* The target locks its own window: MPI_Win_lock polls, nothing is queued. *)
(***************************************************************************)
Win_lock_self(l) ==
  /\ ~tgt.spins /\ self.st = "idle" /\ self.n < MaxEpochs[Target]
  /\ self' = [st |-> "polling", lock |-> l, n |-> self.n + 1]
  /\ UNCHANGED <<org, tgt, wire>>

SelfEpoch == Epoch(Target, self.n, self.lock)

Win_lock_self_acquires ==
  /\ ~tgt.spins /\ self.st = "polling" /\ CanAcquire(tgt, self.lock)
  /\ tgt' = Acquire(tgt, SelfEpoch)
  /\ self' = [self EXCEPT !.st = "locked"]
  /\ UNCHANGED <<org, wire>>

Win_unlock_self ==
  /\ ~tgt.spins /\ self.st = "locked"
  /\ \E quick \in SUBSET Origins : tgt' = Release_lock(tgt, SelfEpoch, quick)
  /\ self' = [self EXCEPT !.st = "idle"]
  /\ UNCHANGED <<org, wire>>

-----------------------------------------------------------------------------
FromTarget(o) == \/ PktHandler_LockGranted(o)
                 \/ PktHandler_PtRMADone(o)
                 \/ PktHandler_GetResp(o)

AtTarget(o) == \/ PktHandler_Lock(o)
               \/ PktHandler_Put(o)
               \/ PktHandler_Accumulate(o)
               \/ PktHandler_Get(o)
               \/ PktHandler_LockPutUnlock(o)
               \/ PktHandler_LockAccumUnlock(o)
               \/ PktHandler_LockGetUnlock(o)
               \/ Handle_recv_req(o)

Next == \/ \E o \in Origins : \/ \E prog \in Programs[o] : Win_unlock(o, prog)
                              \/ Do_passive_target_rma(o)
                              \/ Win_unlock_returns(o)
                              \/ PktHandler_LockGranted(o)
                              \/ PktHandler_PtRMADone(o)
                              \/ PktHandler_GetResp(o)
                              \/ PktHandler_Lock(o)
                              \/ PktHandler_Put(o)
                              \/ PktHandler_Accumulate(o)
                              \/ PktHandler_Get(o)
                              \/ PktHandler_LockPutUnlock(o)
                              \/ PktHandler_LockAccumUnlock(o)
                              \/ PktHandler_LockGetUnlock(o)
                              \/ Handle_recv_req(o)
                              \/ Handle_send_req(o)
        \/ \E l \in SelfLocks : Win_lock_self(l)
        \/ Win_lock_self_acquires
        \/ Win_unlock_self

Spec == Init /\ [][Next]_vars

(***************************************************************************)
(* Fairness: a process inside an MPI call runs the progress engine and     *)
(* goes on when its wait is over; the target enters it again and again     *)
(* and unlocks what it locked.  Nothing forces a new epoch.                *)
(***************************************************************************)
FairSpec == /\ Spec
            /\ \A o \in Origins : /\ WF_vars(Do_passive_target_rma(o))
                                  /\ WF_vars(Win_unlock_returns(o))
                                  /\ WF_vars(FromTarget(o))
                                  /\ WF_vars(AtTarget(o))
                                  /\ WF_vars(Handle_send_req(o))
            /\ WF_vars(Win_lock_self_acquires)
            /\ WF_vars(Win_unlock_self)

-----------------------------------------------------------------------------
EpochSet == [who : Origins \cup {Target}, n : Nat \ {0}, lock : Locks]
Replies == {"LOCK_GRANTED", "PT_RMA_DONE", "GET_RESP"}

(***************************************************************************)
(* Type invariant; the counts of readers and of outstanding gets are never *)
(* negative.                                                               *)
(***************************************************************************)
TypeOK ==
  /\ \A o \in Origins :
       /\ org[o].st \in {"idle", "lock", "finish"}
       /\ org[o].granted \in BOOLEAN /\ org[o].done \in BOOLEAN
       /\ org[o].prog \in Programs[o] \cup {NoData}
       /\ org[o].gets \in Nat /\ org[o].n \in Nat /\ org[o].puts \in Nat
       /\ ToSet(tgt.out[o]) \subseteq Replies
       /\ ToSet(tgt.resp[o]) \subseteq [ep : EpochSet, last : BOOLEAN]
       /\ tgt.recv[o] \in {NoData} \cup [ep : EpochSet, last : BOOLEAN,
                                          as : {"put", "singleput", "queued", "get"}]
  /\ tgt.type \in Locks \cup {"none"}
  /\ tgt.cnt \in Nat /\ tgt.puts \in Nat /\ tgt.counter \in Int /\ tgt.spins \in BOOLEAN
  /\ tgt.held \subseteq EpochSet
  /\ ToSet(tgt.queue) \subseteq [ep : EpochSet, op : Ops \cup {"lock"}, recd : BOOLEAN]
  /\ self \in [st : {"idle", "polling", "locked"}, lock : Locks, n : Nat]

(***************************************************************************)
(* The locking rules ("Exclusive / Exclusive, Shared: Queue it"): an epoch *)
(* with an exclusive lock holds it alone, whatever was granted, released   *)
(* and granted again inside Release_lock.  And current_lock_type and       *)
(* shared_lock_ref_cnt tell who holds the lock: the handlers decide by     *)
(* them whether an operation belongs to a passive epoch and whether the    *)
(* lock becomes free.                                                      *)
(***************************************************************************)
Exclusion ==
  \A e, f \in tgt.held : e # f => e.lock = "shared" /\ f.lock = "shared"

LockExact ==
  /\ Exclusion
  /\ tgt.cnt = Cardinality({e \in tgt.held : e.lock = "shared"})
  /\ (tgt.type = "none") <=> (tgt.held = {})
  /\ \A e \in tgt.held : e.lock = tgt.type

(***************************************************************************)
(* The lock is exact in every state, and its fields are of their types:    *)
(* the count of readers never drops below zero.                            *)
(***************************************************************************)
LockInv == TypeOK /\ LockExact

InFlight(o) ==
  Len(SelectSeq(wire[o], LAMBDA p : p.type \in {"PUT", "ACCUMULATE", "LOCK_PUT_UNLOCK",
                                                "LOCK_ACCUM_UNLOCK"}))
  + (IF tgt.recv[o] # NoData /\ tgt.recv[o].as \in {"put", "singleput"} THEN 1 ELSE 0)
  + Len(SelectSeq(tgt.queue, LAMBDA e : e.ep.who = o /\ e.op \in {"put", "acc"}))

(***************************************************************************)
(* MPI_Win_free waits until my_pt_rma_puts_accs equals the sum of what the *)
(* origins issued (pt_rma_puts_accs): the difference is always exactly     *)
(* what is on its way or queued, so the wait ends and not too early.       *)
(***************************************************************************)
PutsExact ==
  LET sum(f) == FoldFunction(LAMBDA x, y : x + y, 0, f)
  IN sum([o \in Origins |-> org[o].puts]) = tgt.puts + sum([o \in Origins |-> InFlight(o)])

(***************************************************************************)
(* A reply finds the origin in the wait it ends.  lock_granted is both     *)
(* "granted" and "not yet done", so a stray PT_RMA_DONE would end another  *)
(* epoch's wait.                                                           *)
(***************************************************************************)
RepliesExpected ==
  \A o \in Origins : \A i \in 1..Len(tgt.out[o]) :
    CASE tgt.out[o][i] = "LOCK_GRANTED" -> org[o].st = "lock" /\ ~org[o].granted
      [] tgt.out[o][i] = "PT_RMA_DONE"  -> org[o].st = "finish" /\ org[o].done /\ org[o].granted
      [] tgt.out[o][i] = "GET_RESP"     -> org[o].st = "finish" /\ org[o].gets > 0

(***************************************************************************)
(* Every MPI_Win_unlock at an origin returns, and the target's own         *)
(* MPI_Win_lock too: "try to satisfy as many lock requests as possible"    *)
(* (MPIDI_CH3I_Release_lock).                                              *)
(***************************************************************************)
EpochsEnd ==
  /\ \A o \in Origins : (org[o].st # "idle") ~> (org[o].st = "idle")
  /\ (self.st = "polling") ~> (self.st = "locked")

=============================================================================
