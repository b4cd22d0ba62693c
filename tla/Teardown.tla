------------------------------- MODULE Teardown -------------------------------
(***************************************************************************)
(* How connections end: two programs started apart connect, make           *)
(* communicators, free or disconnect them and finalize, and the counts of  *)
(* references (communicator -> VCRT -> VC -> process group) decide when a  *)
(* VC is closed and when a process group is destroyed.  From mpid_vc.c,    *)
(* mpidi_pg.c, mpid_comm_disconnect.c, mpid_finalize.c and ch3u_port.c of  *)
(* src/mpid/ch3/src.  The close protocol is that of module VCClose, which  *)
(* leaves open when a program closes a VC; here the program does it        *)
(* through its communicators.                                              *)
(* The two programs make the same calls on a communicator in the same      *)
(* order, as MPI demands, and receive what is sent to them: the first one  *)
(* to come to a call chooses it.                                           *)
(***************************************************************************)
EXTENDS Naturals, Sequences, FiniteSets

CONSTANTS Proc,         \* the two processes, each a process group of its own
          MaxCalls,     \* bound: the calls of a program
          MaxConnects,  \* bound: the connects among them
          MaxData,      \* bound of VCClose: data packets in flight
          MaxOpen       \* bound of VCClose: activations of a VC

ASSUME TeardownAssumption ==
  /\ IsFiniteSet(Proc) /\ Cardinality(Proc) = 2
  /\ {MaxCalls, MaxConnects, MaxData, MaxOpen} \subseteq Nat

(* The bounds of VCClose are large enough for the calls of a program.      *)
ASSUME BoundsAssumption == MaxCalls <= MaxData /\ MaxCalls <= MaxOpen

Peer(p) == CHOOSE q \in Proc : q # p
Comm == 1..MaxCalls     \* a communicator, or a VCRT, is named by the call that made it

VARIABLES vcState, wire, terminating, outstanding, opens,   \* those of VCClose
          pg,           \* pg[p]: the peer's process group at p, and its VC
          vcrt,         \* vcrt[p][t]: reference count of a VCRT
          comm,         \* comm[p]: the VCRT of every communicator of p
          calls,        \* the calls the programs make
          at,           \* at[p]: how many of them p has finished
          phase,        \* phase[p]: where p is in the next one
          unread        \* unread[p]: messages that arrived and were not received

closeVars == <<vcState, wire, terminating, outstanding, opens>>
progVars == <<calls, at, phase>>
vars == <<closeVars, pg, vcrt, comm, progVars, unread>>

Close == INSTANCE VCClose

NoGroup == [known |-> FALSE, ref |-> 0, vcref |-> 0]

Init == /\ Close!Init
        /\ pg = [p \in Proc |-> NoGroup]
        /\ vcrt = [p \in Proc |-> [t \in Comm |-> 0]]
        /\ comm = [p \in Proc |-> <<>>]
        /\ calls = <<>>
        /\ at = [p \in Proc |-> 0]
        /\ phase = [p \in Proc |-> "idle"]
        /\ unread = [p \in Proc |-> 0]

-----------------------------------------------------------------------------
(***************************************************************************)
(* The calls.  A communicator is a key of comm[p] as long as p has it.     *)
(***************************************************************************)
On(op, c) == [op |-> op, comm |-> c]
Sent(p, c) == [op |-> "send", comm |-> c, from |-> p]
Connects == Cardinality({k \in DOMAIN calls : calls[k].op = "connect"})

CallsOf(p) ==
  {On(op, c) : op \in {"dup", "merge", "free", "disconnect"}, c \in DOMAIN comm[p]}
  \cup {Sent(q, c) : q \in Proc, c \in DOMAIN comm[p]}
  \cup {On("finalize", 0)}
  \cup (IF Connects < MaxConnects THEN {On("connect", 0)} ELSE {})

Choose(p) ==
  /\ phase[p] = "idle" /\ at[p] = Len(calls) /\ Len(calls) < MaxCalls
  /\ \E c \in CallsOf(p) : calls' = Append(calls, c)
  /\ UNCHANGED <<closeVars, pg, vcrt, comm, at, phase, unread>>

CallNo(p) == at[p] + 1
In(p, op) == at[p] < Len(calls) /\ calls[CallNo(p)].op = op
CommOf(p) == calls[CallNo(p)].comm

Goto(p, ph) == phase' = [phase EXCEPT ![p] = ph] /\ UNCHANGED <<calls, at>>
Return(p) == /\ at' = [at EXCEPT ![p] = @ + 1]
             /\ phase' = [phase EXCEPT ![p] = "idle"]
             /\ UNCHANGED calls
Reached(p, phases) == \/ at[Peer(p)] > at[p]
                      \/ at[Peer(p)] = at[p] /\ phase[Peer(p)] \in phases

(***************************************************************************)
(* MPIDI_PG_Dup_vcr and MPID_VCR_Dup: the first reference to a VC counts   *)
(* twice, "to distinguish between Comm_free and Comm_disconnect", and      *)
(* makes the VC a reference to its process group.                          *)
(***************************************************************************)
Dup_vcr_once(g) == IF g.vcref = 0 THEN [g EXCEPT !.vcref = 1, !.ref = @ + 1]
                                  ELSE [g EXCEPT !.vcref = @ + 1]
Dup_vcr(g) == IF g.vcref = 0 THEN [g EXCEPT !.vcref = 2, !.ref = @ + 1]
                             ELSE [g EXCEPT !.vcref = @ + 1]

NewComm(p, t) ==
  comm' = [comm EXCEPT ![p] = [c \in DOMAIN @ \cup {CallNo(p)} |-> IF c = CallNo(p) THEN t ELSE @[c]]]

NewVCRT(p) ==
  /\ vcrt' = [vcrt EXCEPT ![p][CallNo(p)] = 1]
  /\ pg' = [pg EXCEPT ![p] = Dup_vcr([@ EXCEPT !.known = TRUE])]
  /\ NewComm(p, CallNo(p))

(***************************************************************************)
(* MPIDI_Comm_connect and MPIDI_Comm_accept: the roots exchange their      *)
(* process groups over a VC of their own, which is found or created; make  *)
(* the new communicator (SetupNewIntercomm); and "synchronize with remote  *)
(* root".                                                                  *)
(***************************************************************************)
Connect(p) ==
  /\ In(p, "connect")
  /\ \/ phase[p] = "idle" /\ Goto(p, "exchange") /\ UNCHANGED <<pg, vcrt, comm>>
     \/ /\ phase[p] = "exchange" /\ Reached(p, {"exchange", "sync"})
        /\ NewVCRT(p) /\ Goto(p, "sync")
     \/ /\ phase[p] = "sync" /\ Reached(p, {"sync"})
        /\ Return(p) /\ UNCHANGED <<pg, vcrt, comm>>
  /\ UNCHANGED <<closeVars, unread>>

(***************************************************************************)
(* A message: MPIDI_Comm_get_vc activates the VC of the communicator and   *)
(* the channel opens a connection; then the packet is sent.                *)
(***************************************************************************)
Comm_get_vc(p) ==
  LET q == Peer(p) IN
  /\ IF vcState[p][q] = "INACTIVE"
       THEN /\ vcState' = Close!Set(vcState, p, q, "ACTIVE")
            /\ wire' = Close!Send(wire, p, q, Close!Open)
            /\ opens' = [opens EXCEPT ![p][q] = @ + 1]
       ELSE UNCHANGED <<vcState, wire, opens>>
  /\ UNCHANGED <<terminating, outstanding>>

SendData(p) == /\ wire' = Close!Send(wire, p, Peer(p), Close!Data)
               /\ UNCHANGED <<vcState, terminating, outstanding, opens>>

Receive(p) == unread[p] > 0 /\ unread' = [unread EXCEPT ![p] = @ - 1]

SendRecv(p) ==
  /\ In(p, "send")
  /\ IF calls[CallNo(p)].from = p
       THEN /\ \/ phase[p] = "idle" /\ Comm_get_vc(p) /\ Goto(p, "vc")
               \/ phase[p] = "vc" /\ SendData(p) /\ Return(p)
            /\ UNCHANGED unread
       ELSE \/ phase[p] = "idle" /\ Goto(p, "wait") /\ UNCHANGED <<closeVars, unread>>
            \/ phase[p] = "wait" /\ Receive(p) /\ Return(p) /\ UNCHANGED closeVars
  /\ UNCHANGED <<pg, vcrt, comm>>

(***************************************************************************)
(* MPI_Comm_dup (MPIR_Comm_copy) shares the VCRT, MPI_Intercomm_merge      *)
(* makes a new one of the same VCs.  Both first agree on a context id,     *)
(* with messages either way.                                               *)
(***************************************************************************)
NewFrom(p) ==
  LET t == comm[p][CommOf(p)] IN
  \/ /\ In(p, "dup")
     /\ vcrt' = [vcrt EXCEPT ![p][t] = @ + 1]
     /\ NewComm(p, t)
     /\ UNCHANGED pg
  \/ In(p, "merge") /\ NewVCRT(p)

DupMerge(p) ==
  /\ In(p, "dup") \/ In(p, "merge")
  /\ \/ /\ phase[p] = "idle" /\ Comm_get_vc(p) /\ Goto(p, "vc")
        /\ UNCHANGED <<pg, vcrt, comm, unread>>
     \/ /\ phase[p] = "vc" /\ SendData(p) /\ Goto(p, "wait")
        /\ UNCHANGED <<pg, vcrt, comm, unread>>
     \/ /\ phase[p] = "wait" /\ Receive(p) /\ NewFrom(p) /\ Return(p)
        /\ UNCHANGED closeVars

(***************************************************************************)
(* MPIDI_PG_release_ref, and MPIDI_PG_Destroy of a group without users.    *)
(***************************************************************************)
PG_release(g) == IF g.ref = 1 THEN NoGroup ELSE [g EXCEPT !.ref = @ - 1]

(***************************************************************************)
(* MPID_VCRT_Release: the last reference to the table releases the VC; a   *)
(* disconnect drops the extra reference too; a VC without references is    *)
(* closed if it is in use, else it leaves its group.                       *)
(***************************************************************************)
VC_release(n, isDisconnect) == IF isDisconnect /\ n = 2 THEN 0 ELSE n - 1

LeavesGroup_always(p) == TRUE
LeavesGroup(p) == vcState[p][Peer(p)] = "INACTIVE"

SendCloseIf(cond, p) == IF cond THEN Close!VC_SendClose(p, Peer(p)) ELSE UNCHANGED closeVars

VCRT_Release(p, t, isDisconnect) ==
  LET last   == vcrt[p][t] = 1
      g      == [pg[p] EXCEPT !.vcref = VC_release(@, isDisconnect)]
      unused == last /\ g.vcref = 0
  IN /\ vcrt' = [vcrt EXCEPT ![p][t] = @ - 1]
     /\ SendCloseIf(unused /\ vcState[p][Peer(p)] # "INACTIVE", p)
     /\ pg' = IF ~last THEN pg
              ELSE [pg EXCEPT ![p] = IF unused /\ LeavesGroup(p) THEN PG_release(g) ELSE g]

FreeComm(p) == comm' = [comm EXCEPT ![p] = [c \in DOMAIN @ \ {CommOf(p)} |-> @[c]]]

(***************************************************************************)
(* MPI_Comm_free; MPID_Comm_disconnect, which waits for the close          *)
(* operations (MPIDI_CH3U_VC_WaitForClose).                                *)
(***************************************************************************)
Comm_free(p) ==
  /\ In(p, "free") /\ phase[p] = "idle"
  /\ VCRT_Release(p, comm[p][CommOf(p)], FALSE)
  /\ FreeComm(p) /\ Return(p)
  /\ UNCHANGED unread

WaitForClose(p) == outstanding[p] = 0

Comm_disconnect(p) ==
  /\ In(p, "disconnect")
  /\ \/ /\ phase[p] = "idle"
        /\ VCRT_Release(p, comm[p][CommOf(p)], TRUE)
        /\ FreeComm(p) /\ Goto(p, "closing")
     \/ /\ phase[p] = "closing" /\ WaitForClose(p)
        /\ Return(p)
        /\ UNCHANGED <<closeVars, pg, vcrt, comm>>
  /\ UNCHANGED unread

(***************************************************************************)
(* MPID_Finalize: MPIDI_PG_Close_VCs closes what the program left open,    *)
(* and MPIDI_PG_Finalize frees every group "even if the ref count is not   *)
(* zero".                                                                  *)
(***************************************************************************)
Finalize(p) ==
  LET s == vcState[p][Peer(p)] IN
  /\ In(p, "finalize")
  /\ \/ /\ phase[p] = "idle"
        /\ SendCloseIf(s \in {"ACTIVE", "REMOTE_CLOSE"}, p)
        /\ pg' = IF s = "INACTIVE" /\ pg[p].vcref # 0 THEN [pg EXCEPT ![p].ref = @ - 1] ELSE pg
        /\ Goto(p, "closing")
     \/ /\ phase[p] = "closing" /\ WaitForClose(p)
        /\ pg' = [pg EXCEPT ![p] = NoGroup]
        /\ Goto(p, "finalized")
        /\ UNCHANGED closeVars
  /\ UNCHANGED <<vcrt, comm, unread>>

(***************************************************************************)
(* The progress engine, which runs inside the calls.  A packet or an event *)
(* of a VC whose group was destroyed finds no VC: there is no step.        *)
(***************************************************************************)
Handle_connection(p) ==
  pg' = IF pg[p].vcref = 0 THEN [pg EXCEPT ![p] = PG_release(@)] ELSE pg

Progress(p) ==
  LET q == Peer(p) IN
  /\ phase[p] \notin {"vc", "finalized"} /\ pg[p].known
  /\ \/ Close!RecvOpen(p, q) /\ UNCHANGED <<pg, unread>>
     \/ /\ Close!RecvData(p, q)
        /\ unread' = [unread EXCEPT ![p] = @ + 1]
        /\ UNCHANGED pg
     \/ Close!PktHandler_Close(p, q) /\ UNCHANGED <<pg, unread>>
     \/ Close!Handle_connection(p, q) /\ Handle_connection(p) /\ UNCHANGED unread
  /\ UNCHANGED <<vcrt, comm, progVars>>

Call(p) == \/ Connect(p) \/ SendRecv(p) \/ DupMerge(p)
           \/ Comm_free(p) \/ Comm_disconnect(p) \/ Finalize(p)

Next == \E p \in Proc : Choose(p) \/ Call(p) \/ Progress(p)

Spec == Init /\ [][Next]_vars

(***************************************************************************)
(* A program that has begun a collective call is followed by the other     *)
(* one, and waiting processes run the progress engine.                     *)
(***************************************************************************)
FairSpec == Spec /\ \A p \in Proc : WF_vars(Call(p)) /\ WF_vars(Progress(p))

-----------------------------------------------------------------------------
TypeOK ==
  /\ pg \in [Proc -> [known : BOOLEAN, ref : Nat, vcref : Nat]]
  /\ vcrt \in [Proc -> [Comm -> Nat]]
  /\ \A p \in Proc : DOMAIN comm[p] \subseteq Comm /\ \A c \in DOMAIN comm[p] : comm[p][c] \in Comm
  /\ at \in [Proc -> 0..MaxCalls] /\ unread \in [Proc -> Nat]
  /\ \A p \in Proc : at[p] <= Len(calls)

(***************************************************************************)
(* The reference counts.  A VCRT counts its communicators; a VC counts its *)
(* VCRTs and one more from its first use to its disconnect; the count of a *)
(* group is "always the number of inuse virtual connections"               *)
(* (MPIDI_PG_Dup_vcr), those that are being closed included.               *)
(***************************************************************************)
ClosingVC(p) == vcState[p][Peer(p)] \in {"LOCAL_CLOSE", "CLOSE_ACKED"}

RefsExact == \A p \in Proc : ~In(p, "finalize") =>
  LET tables == {t \in Comm : vcrt[p][t] > 0} IN
  /\ \A t \in Comm : vcrt[p][t] = Cardinality({c \in DOMAIN comm[p] : comm[p][c] = t})
  /\ \/ pg[p].vcref = Cardinality(tables) + 1
     \/ pg[p].vcref = 0 /\ tables = {}
  /\ pg[p].ref = IF pg[p].vcref > 0 \/ ClosingVC(p) THEN 1 ELSE 0
  /\ pg[p].known <=> pg[p].ref > 0

(***************************************************************************)
(* The counts are exact in every state, and none drops below zero.         *)
(***************************************************************************)
RefsInv == TypeOK /\ RefsExact

(***************************************************************************)
(* A process group is destroyed only when nothing can refer to its VC: no  *)
(* packet is under way to it, it is inactive, and no close event is to     *)
(* come (MPIDI_CH3U_Handle_connection, MPID_VCRT_Release, PG_Finalize).    *)
(***************************************************************************)
NothingForDestroyedGroup == \A p \in Proc : ~pg[p].known =>
  /\ wire[Peer(p)][p] = <<>>
  /\ vcState[p][Peer(p)] = "INACTIVE" /\ ~terminating[p][Peer(p)]

(***************************************************************************)
(* The close protocol is used as it must be: no VC is closed twice or      *)
(* while it is being closed, nothing is sent on a VC that is being closed, *)
(* and a VC is opened again only after the peer has closed its end (the    *)
(* assertions of MPIDI_CH3U_VC_SendClose; the guards of module VCClose).   *)
(***************************************************************************)
ImplementsClose == Close!Spec

(***************************************************************************)
(* Every call returns: neither MPI_Comm_disconnect nor MPI_Finalize waits  *)
(* for a close that the other process never answers, however the program   *)
(* freed the communicators of the VC.                                      *)
(***************************************************************************)
CallsReturn == \A p \in Proc :
  (phase[p] \notin {"idle", "finalized"}) ~> (phase[p] \in {"idle", "finalized"})
===============================================================================
