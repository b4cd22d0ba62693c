------------------------------ MODULE RMAActive ------------------------------
(***************************************************************************)
(* Active-target remote memory access (src/mpid/ch3/src): MPI_Win_fence    *)
(* and MPI_Win_post, start, complete and wait on one window over all       *)
(* processes.  MPI_Put, MPI_Get and MPI_Accumulate only list operations;   *)
(* the call that ends an access epoch sends them, over channels that       *)
(* deliver in order, and marks the last one to each target.  my_counter    *)
(* counts the processes whose last operation a target still waits for.     *)
(*                                                                         *)
(* plan is the program, the same for every process: a sequence of rounds,  *)
(* each a fence by all or a set of pairs <<origin, target>>, for which the *)
(* targets call post and wait and the origins start and complete.          *)
(***************************************************************************)
EXTENDS Integers, Sequences, FiniteSets, SequencesExt

CONSTANTS Proc,      \* the processes of the window
          Plans,     \* the programs
          OpLists,   \* what a process may list in one epoch: <<[op, to], ...>>
          NoData     \* no operation is being received

Ops == {"put", "acc", "get"}

ASSUME RMAActiveAssumption ==
  /\ IsFiniteSet(Proc)
  /\ Plans \subseteq Seq([kind : {"fence", "pscw"},
                          assert : SUBSET {"noprecede", "nosucceed", "nocheck"},
                          access : SUBSET (Proc \X Proc)])
  /\ OpLists \subseteq Seq([op : Ops, to : Proc])

VARIABLES plan,   \* the program that runs
          win,    \* win[p]: the window object of p and where p is
          reduce, \* reduce[p]: the targets p named in its Reduce_scatters
          wire    \* wire[p][q]: packets from p to q, also those to be written

vars == <<plan, win, reduce, wire>>

(***************************************************************************)
(* The program.  A fence may end an epoch if it follows a fence and no     *)
(* assert excludes it.                                                     *)
(***************************************************************************)
Now(p) == plan[win[p].round]
Running(p) == win[p].round <= Len(plan)
At(p, kind, st) == Running(p) /\ Now(p).kind = kind /\ win[p].st = st
Targets(p) == {t \in Proc : <<p, t>> \in Now(p).access}
Origins(p) == {o \in Proc : <<o, p>> \in Now(p).access}

Lists(p, T) == {l \in OpLists : \A i \in DOMAIN l : l[i].to \in T \ {p}}

FenceLists(p) ==
  LET r == win[p].round
  IN IF r > 1 /\ plan[r - 1].kind = "fence" /\ "nosucceed" \notin plan[r - 1].assert
     THEN Lists(p, Proc) ELSE {<<>>}

Return(w) == [w EXCEPT !.round = @ + 1, !.st = "out", !.ops = <<>>]

-----------------------------------------------------------------------------
(***************************************************************************)
(* Packets.  k, the round of the epoch, is read by the properties only.    *)
(* A get response is written to the connection, out of the window's        *)
(* memory, at once or later; nothing behind it is written before.          *)
(***************************************************************************)
Pkt(t, last, k) == [type |-> t, last |-> last, k |-> k, written |-> TRUE]
PktType == [put |-> "PUT", acc |-> "ACCUMULATE", get |-> "GET"]

Stuck(s) == \E i \in DOMAIN s : ~s[i].written

Send_rma_msgs(w, q) ==
  LET l == SelectSeq(w.ops, LAMBDA x : x.to = q)
  IN [i \in DOMAIN l |-> Pkt(PktType[l[i].op], i = Len(l), w.round)]

ListedFor(w) == {w.ops[i].to : i \in DOMAIN w.ops}
ListedGets(w) == Len(SelectSeq(w.ops, LAMBDA x : x.op = "get"))

(***************************************************************************)
(* The end of an access epoch waits for its requests: its get responses,   *)
(* and that what it sent has been written.                                 *)
(***************************************************************************)
RequestsDone(p) ==
  /\ win[p].gets = 0
  /\ \A q \in Proc : \A i, j \in DOMAIN wire[p][q] :
       i < j /\ ~wire[p][q][i].written => wire[p][q][j].type \in {"GET_RESP", "POST"}

-----------------------------------------------------------------------------
Idle == [round |-> 1, st |-> "out", fence_cnt |-> 0, my_counter |-> 0, ops |-> <<>>,
         gets |-> 0, posts |-> [q \in Proc |-> 0], recv |-> [q \in Proc |-> NoData]]

Init == /\ plan \in Plans
        /\ win = [p \in Proc |-> Idle]
        /\ reduce = [p \in Proc |-> <<>>]
        /\ wire = [p \in Proc |-> [q \in Proc |-> <<>>]]

(***************************************************************************)
(* MPIDI_Win_fence, up to the Reduce_scatter that tells every process how  *)
(* many others target it.  The counter starts high: operations arrive      *)
(* before it is known.  Whatever the assert, a fence with fence_cnt 0 only *)
(* raises it: (assert & MPI_MODE_NOSUCCEED) != 1 is always true.           *)
(***************************************************************************)
Win_fence(p, l) ==
  LET assert == Now(p).assert
      shut   == IF "nosucceed" \in assert THEN 0 ELSE 1
  IN /\ At(p, "fence", "out")
     /\ \/ /\ "noprecede" \in assert /\ l = <<>>
           /\ win' = [win EXCEPT ![p] = [Return(@) EXCEPT !.fence_cnt = shut]]
           /\ UNCHANGED reduce
        \/ /\ "noprecede" \notin assert /\ win[p].fence_cnt = 0 /\ l = <<>>
           /\ win' = [win EXCEPT ![p] = [Return(@) EXCEPT !.fence_cnt = 1]]
           /\ UNCHANGED reduce
        \/ /\ "noprecede" \notin assert /\ win[p].fence_cnt # 0
           /\ l \in FenceLists(p)
           /\ win' = [win EXCEPT ![p].st = "reduce", ![p].ops = l,
                                 ![p].my_counter = Cardinality(Proc)]
           /\ reduce' = [reduce EXCEPT ![p] = Append(@, ListedFor(win'[p]))]
     /\ UNCHANGED <<plan, wire>>

(* the number of processes that target p in its current Reduce_scatter *)
Reduced(p) ==
  Cardinality({q \in Proc : p \in reduce[q][Len(reduce[p])]})

SetCounter_anew(p) == Reduced(p)   \* mutant: forgets what came meanwhile

SetCounter(p) == win[p].my_counter - Cardinality(Proc) + Reduced(p)

(* the Reduce_scatter ends: the counter is set and all operations are sent *)
Win_fence_issue(p) ==
  /\ At(p, "fence", "reduce")
  /\ \A q \in Proc : Len(reduce[q]) >= Len(reduce[p])
  /\ win' = [win EXCEPT ![p].st = "requests", ![p].my_counter = SetCounter(p),
                        ![p].gets = ListedGets(win[p])]
  /\ wire' = [wire EXCEPT ![p] = [q \in Proc |-> @[q] \o Send_rma_msgs(win[p], q)]]
  /\ UNCHANGED <<plan, reduce>>

Win_fence_requests_done(p) ==
  /\ At(p, "fence", "requests") /\ RequestsDone(p)
  /\ win' = [win EXCEPT ![p].st = "counter", ![p].ops = <<>>]
  /\ UNCHANGED <<plan, reduce, wire>>

Win_fence_returns(p) ==
  /\ At(p, "fence", "counter") /\ win[p].my_counter = 0
  /\ win' = [win EXCEPT ![p] =
               [Return(@) EXCEPT !.fence_cnt = IF "nosucceed" \in Now(p).assert THEN 0 ELSE @]]
  /\ UNCHANGED <<plan, reduce, wire>>

-----------------------------------------------------------------------------
(***************************************************************************)
(* MPIDI_Win_post: the counter is set, then every origin but p itself is   *)
(* told by an empty message.  That the messages have been written is not   *)
(* waited for here.                                                        *)
(***************************************************************************)
Win_post(p) ==
  /\ At(p, "pscw", "out") /\ Origins(p) # {}
  /\ win' = [win EXCEPT ![p].st = "posted", ![p].fence_cnt = 0,
                        ![p].my_counter = Cardinality(Origins(p))]
  /\ wire' = [wire EXCEPT ![p] = [q \in Proc |->
                IF q \in Origins(p) \ {p} /\ "nocheck" \notin Now(p).assert
                THEN Append(@[q], Pkt("POST", FALSE, win[p].round)) ELSE @[q]]]
  /\ UNCHANGED <<plan, reduce>>

(* with MPI_MODE_NOCHECK the program sees to it that the targets posted *)
HasPosted(t, k) == win[t].round = k /\ win[t].st # "out"

Win_start(p) ==
  /\ At(p, "pscw", IF Origins(p) = {} THEN "out" ELSE "posted") /\ Targets(p) # {}
  /\ "nocheck" \in Now(p).assert => \A t \in Targets(p) \ {p} : HasPosted(t, win[p].round)
  /\ win' = [win EXCEPT ![p].st = "started", ![p].fence_cnt = 0]
  /\ UNCHANGED <<plan, reduce, wire>>

PostsReceived_unchecked(p) == TRUE   \* mutant: does not wait for the targets

PostsReceived(p) ==
  "nocheck" \in Now(p).assert \/ \A t \in Targets(p) \ {p} : win[p].posts[t] > 0

(* a target without operations gets an empty put; p itself is counted off *)
EmptyPut_never(w, q, T) == <<>>   \* mutant: such a target hears nothing

EmptyPut(w, q, T) ==
  IF q \in T \ ListedFor(w) THEN <<Pkt("EMPTY_PUT", TRUE, w.round)>> ELSE <<>>

(* MPIDI_Win_complete: takes the posts and sends all operations *)
Win_complete(p, l) ==
  LET w == [win[p] EXCEPT !.ops = l]
      T == Targets(p) \ {p}
  IN /\ At(p, "pscw", "started") /\ PostsReceived(p)
     /\ l \in Lists(p, T)
     /\ win' = [win EXCEPT ![p] = [w EXCEPT
                  !.st = "completing", !.gets = ListedGets(w),
                  !.posts = [q \in Proc |-> IF q \in T /\ "nocheck" \notin Now(p).assert
                                            THEN @[q] - 1 ELSE @[q]],
                  !.my_counter = IF p \in Targets(p) THEN @ - 1 ELSE @]]
     /\ wire' = [wire EXCEPT ![p] = [q \in Proc |->
                   @[q] \o Send_rma_msgs(w, q) \o EmptyPut(w, q, T)]]
     /\ UNCHANGED <<plan, reduce>>

Win_complete_returns(p) ==
  /\ At(p, "pscw", "completing") /\ RequestsDone(p)
  /\ win' = [win EXCEPT ![p] = IF Origins(p) = {} THEN Return(@)
                               ELSE [@ EXCEPT !.st = "counter", !.ops = <<>>]]
  /\ UNCHANGED <<plan, reduce, wire>>

(* MPIDI_Win_wait, or an MPI_Win_test that yields true *)
Win_wait_returns(p) ==
  /\ At(p, "pscw", IF Targets(p) = {} THEN "posted" ELSE "counter")
  /\ win[p].my_counter = 0
  /\ win' = [win EXCEPT ![p] = Return(@)]
  /\ UNCHANGED <<plan, reduce, wire>>

(* a process that is neither origin nor target has nothing to call *)
Skip(p) ==
  /\ At(p, "pscw", "out") /\ Origins(p) = {} /\ Targets(p) = {}
  /\ win' = [win EXCEPT ![p] = Return(@)]
  /\ UNCHANGED <<plan, reduce, wire>>

-----------------------------------------------------------------------------
(***************************************************************************)
(* Packets from q at p: one is read when it has been written and no        *)
(* operation of q is still being received.                                 *)
(***************************************************************************)
Arrived(p, q, t) == /\ wire[q][p] # <<>> /\ win[p].recv[q] = NoData
                    /\ Head(wire[q][p]).written /\ Head(wire[q][p]).type = t
Taken(p, q) == [wire EXCEPT ![q][p] = Tail(@)]

(* the last operation of q has been done: PutAccumRespComplete and others *)
Complete(w, last) == IF last THEN [w EXCEPT !.my_counter = @ - 1] ELSE w

(* the data of a put or an accumulate is there, or still to come *)
ReceiveData(p, q, t) ==
  LET pkt == Head(wire[q][p])
  IN /\ Arrived(p, q, t)
     /\ wire' = Taken(p, q)
     /\ \/ win' = [win EXCEPT ![p] = Complete(@, pkt.last)]
        \/ win' = [win EXCEPT ![p].recv[q] = pkt]
     /\ UNCHANGED <<plan, reduce>>

PktHandler_Put(p, q) == ReceiveData(p, q, "PUT")

PktHandler_Accumulate(p, q) == ReceiveData(p, q, "ACCUMULATE")

PktHandler_Put_empty(p, q) ==
  /\ Arrived(p, q, "EMPTY_PUT")
  /\ wire' = Taken(p, q)
  /\ win' = [win EXCEPT ![p] = Complete(@, TRUE)]
  /\ UNCHANGED <<plan, reduce>>

(* the response to a get: written, and the get done, at once if it can be *)
Respond(p, q, pkt, w, wr) ==
  LET resp == [pkt EXCEPT !.type = "GET_RESP"]
  IN /\ UNCHANGED <<plan, reduce>>
     /\ \/ /\ ~Stuck(wr[p][q])
           /\ win' = [win EXCEPT ![p] = Complete(w, pkt.last)]
           /\ wire' = [wr EXCEPT ![p][q] = Append(@, resp)]
        \/ /\ win' = [win EXCEPT ![p] = w]
           /\ wire' = [wr EXCEPT ![p][q] = Append(@, [resp EXCEPT !.written = FALSE])]

(* a get is answered at once, unless its datatype is still to come *)
PktHandler_Get(p, q) ==
  LET pkt == Head(wire[q][p])
  IN /\ Arrived(p, q, "GET")
     /\ \/ Respond(p, q, pkt, win[p], Taken(p, q))
        \/ /\ win' = [win EXCEPT ![p].recv[q] = pkt]
           /\ wire' = Taken(p, q)
           /\ UNCHANGED <<plan, reduce>>

PktHandler_GetResp(p, q) ==
  /\ Arrived(p, q, "GET_RESP")
  /\ wire' = Taken(p, q)
  /\ win' = [win EXCEPT ![p].gets = @ - 1]
  /\ UNCHANGED <<plan, reduce>>

(* the empty message of a post waits for the receive of Win_complete *)
Receive_post(p, q) ==
  /\ Arrived(p, q, "POST")
  /\ wire' = Taken(p, q)
  /\ win' = [win EXCEPT ![p].posts[q] = @ + 1]
  /\ UNCHANGED <<plan, reduce>>

(* the rest of what was to come arrives: MPIDI_CH3U_Handle_recv_req *)
Handle_recv_req(p, q) ==
  LET pkt == win[p].recv[q]
      w   == [win[p] EXCEPT !.recv[q] = NoData]
  IN /\ pkt # NoData
     /\ \/ pkt.type = "GET" /\ Respond(p, q, pkt, w, wire)
        \/ /\ pkt.type # "GET"
           /\ win' = [win EXCEPT ![p] = Complete(w, pkt.last)]
           /\ UNCHANGED <<plan, reduce, wire>>

(* a get response has been written: GetSendRespComplete *)
Handle_send_req(p, q) ==
  LET i == SelectInSeq(wire[p][q], LAMBDA x : ~x.written)
  IN /\ Stuck(wire[p][q])
     /\ wire' = [wire EXCEPT ![p][q][i].written = TRUE]
     /\ win' = [win EXCEPT ![p] = Complete(@, wire[p][q][i].last)]
     /\ UNCHANGED <<plan, reduce>>

-----------------------------------------------------------------------------
Handlers(p, q) == \/ PktHandler_Put(p, q)
                  \/ PktHandler_Accumulate(p, q)
                  \/ PktHandler_Put_empty(p, q)
                  \/ PktHandler_Get(p, q)
                  \/ PktHandler_GetResp(p, q)
                  \/ Receive_post(p, q)
                  \/ Handle_recv_req(p, q)

Calls(p) == \/ \E l \in OpLists : Win_fence(p, l) \/ Win_complete(p, l)
            \/ Win_fence_issue(p)
            \/ Win_fence_requests_done(p)
            \/ Win_fence_returns(p)
            \/ Win_post(p)
            \/ Win_start(p)
            \/ Win_complete_returns(p)
            \/ Win_wait_returns(p)
            \/ Skip(p)

Next == \E p \in Proc : \/ Calls(p)
                        \/ \E q \in Proc : Handlers(p, q) \/ Handle_send_req(p, q)

Spec == Init /\ [][Next]_vars

(***************************************************************************)
(* Fairness: every process makes the calls of the program and runs the     *)
(* progress engine, which reads and writes its connections.                *)
(***************************************************************************)
FairSpec == /\ Spec
            /\ \A p \in Proc : /\ WF_vars(Calls(p))
                               /\ \A q \in Proc \ {p} : /\ WF_vars(Handlers(p, q))
                                                        /\ WF_vars(Handle_send_req(p, q))

-----------------------------------------------------------------------------
Pkts == [type : {"PUT", "ACCUMULATE", "GET", "EMPTY_PUT", "GET_RESP", "POST"},
         last : BOOLEAN, k : Nat \ {0}, written : BOOLEAN]

(***************************************************************************)
(* Type invariant; my_counter, the get requests and the posts that wait    *)
(* for their receive are never negative.                                   *)
(***************************************************************************)
TypeOK ==
  /\ plan \in Plans
  /\ \A p \in Proc :
       /\ win[p].round \in 1..Len(plan) + 1
       /\ win[p].st \in {"out", "reduce", "requests", "counter", "posted", "started",
                         "completing"}
       /\ win[p].fence_cnt \in {0, 1}
       /\ win[p].my_counter \in Nat /\ win[p].gets \in Nat
       /\ win[p].ops \in OpLists \cup {<<>>}
       /\ \A q \in Proc : /\ win[p].posts[q] \in Nat
                          /\ win[p].recv[q] \in {NoData} \cup Pkts
                          /\ wire[p][q] \in Seq(Pkts)
       /\ reduce[p] \in Seq(SUBSET Proc)

(* the last operation of q's epoch is on its way to p or not done there *)
Undone(p, q) ==
  \/ \E i \in DOMAIN wire[q][p] : wire[q][p][i].last /\ wire[q][p][i].type # "GET_RESP"
  \/ win[p].recv[q] # NoData /\ win[p].recv[q].last
  \/ \E i \in DOMAIN wire[p][q] : wire[p][q][i].last /\ ~wire[p][q][i].written

(* q has sent the operations of round k *)
Issued(q, k) ==
  \/ win[q].round > k
  \/ win[q].round = k /\ win[q].st \in {"requests", "completing", "counter"}

AimsAt(q, p) == IF Now(p).kind = "fence" THEN p \in reduce[q][Len(reduce[p])]
                ELSE q \in Origins(p)

(***************************************************************************)
(* my_counter is exact at every moment of an epoch: "completion counter    *)
(* for operations targeting this window" (mpidpre.h).  It is the number of *)
(* processes whose last operation has not been done; while the target does *)
(* not know that number yet, it is the size of the communicator less those *)
(* that are done already.                                                  *)
(***************************************************************************)
CounterExact ==
  \A p \in Proc :
    LET k    == win[p].round
        left == {q \in Proc : AimsAt(q, p) /\ (~Issued(q, k) \/ Undone(p, q))}
        done == {q \in Proc : Issued(q, k) /\ AimsAt(q, p) /\ ~Undone(p, q)}
    IN win[p].my_counter =
         CASE ~Running(p) \/ win[p].st = "out" -> 0
           [] win[p].st = "reduce"             -> Cardinality(Proc) - Cardinality(done)
           [] OTHER                            -> Cardinality(left)

(***************************************************************************)
(* The counter is exact in every state, and never below zero: fence and    *)
(* wait, which leave their loop at zero, leave it neither early nor late.  *)
(***************************************************************************)
CounterInv == TypeOK /\ CounterExact

(* p is in the epoch of round k in which the others may access its window *)
Exposed(p, k) == /\ Running(p) /\ win[p].round = k /\ win[p].st # "out"
                 /\ Now(p).kind = "fence" \/ Origins(p) # {}

(***************************************************************************)
(* "wait for all operations from other processes to finish": a fence or a  *)
(* wait returns only after every response to a get of its epoch has been   *)
(* written.  After that the program may change the window.                 *)
(***************************************************************************)
GetsInEpoch ==
  \A p, q \in Proc : \A i \in DOMAIN wire[p][q] :
    ~wire[p][q][i].written => Exposed(p, wire[p][q][i].k)

(***************************************************************************)
(* Every operation reaches its target inside the epoch it was issued for:  *)
(* not before the target has entered it (a post is waited for, a fence     *)
(* follows its Reduce_scatter) and not after its fence or wait has         *)
(* returned, whatever other processes are still doing.                     *)
(***************************************************************************)
OpsInEpoch ==
  /\ GetsInEpoch
  /\ \A p, q \in Proc :
       /\ win[p].recv[q] # NoData => Exposed(p, win[p].recv[q].k)
       /\ \A i \in DOMAIN wire[q][p] :
            wire[q][p][i].type \notin {"GET_RESP", "POST"} => Exposed(p, wire[q][p][i].k)

(***************************************************************************)
(* Every fence, complete and wait returns: the program runs to its end.    *)
(***************************************************************************)
CallsReturn == \A p \in Proc : <>(~Running(p))

=============================================================================
