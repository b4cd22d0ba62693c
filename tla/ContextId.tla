------------------------------- MODULE ContextId -------------------------------
(***************************************************************************)
(* Context ids of new communicators, from src/mpi/comm/commutil.c (the     *)
(* multithreaded version), comm_create.c, comm_split.c, intercomm_create.c *)
(* and comm_free.c.  Every process has a mask of available ids.  A thread  *)
(* of each member of a communicator joins the call; together they take the *)
(* logical and of their masks, and the process lends its mask to one       *)
(* thread at a time.  A thread holds the critical section except inside a  *)
(* collective operation and where it yields.                               *)
(* A communicator c stands for itself, or, where Peer[c] # c, for the      *)
(* local communicator of one side of an intercommunicator; the calls on it *)
(* are then the calls on that intercommunicator, Peer[c] is the other side.*)
(***************************************************************************)
EXTENDS Naturals, Sequences, FiniteSetsExt

CONSTANTS Proc,         \* the processes; ranks follow their order
          Comm,         \* the communicators the program starts from
          Members,      \* Members[c]: the processes of c
          Peer,         \* Peer[c]: see above
          RecvBit,      \* RecvBit[c]: the bit of the recvcontext_id of c
          Bits,         \* the number of bits of the mask
          WordBits,     \* the number of bits of one of its words
          Programs      \* the programs: for each c, the calls made on it

ASSUME ContextIdAssumption ==
  /\ Proc \subseteq Nat /\ IsFiniteSet(Proc)
  /\ Bits \in Nat /\ WordBits \in Nat \ {0}
  /\ Members \in [Comm -> (SUBSET Proc) \ {{}}]
  /\ Peer \in [Comm -> Comm] /\ \A c \in Comm : Peer[Peer[c]] = c
  /\ RecvBit \in [Comm -> 0..(Bits - 1)]

ASSUME ProgramsAssumption == \A prog \in Programs :
  /\ prog \in [Comm -> Seq([op : {"split", "copy"}, classes : SUBSET SUBSET Proc])]
  /\ \A c \in Comm : prog[Peer[c]] = prog[c]

VARIABLES program,          \* the calls on each communicator
          context_mask,     \* of each process: the bits set in its mask
          mask_in_use,      \* of each process
          lowestContextId,  \* of each process
          thread,           \* thread[<<p, c>>]: the thread of p that calls on c
          offered,          \* offered[c][n]: the id the leader of c sent
          told,             \* told[c][n]: the id the leader of c broadcast
          comms             \* comms[p]: the new communicators of p

vars == <<program, context_mask, mask_in_use, lowestContextId, thread, offered, told, comms>>

Bit == 0..(Bits - 1)
Thread == UNION {Members[c] \X {c} : c \in Comm}
Inter(c) == Peer[c] # c
Leader(c) == Min(Members[c])
Own == [p \in Proc |-> {c \in Comm : p \in Members[c]}]

(***************************************************************************)
(* Ids are multiples of four; a local communicator takes the next number.  *)
(* MAXID stands for MPIR_MAXID, larger than any id.                        *)
(***************************************************************************)
IdOf(bit) == 4 * bit
BitOf(id) == id \div 4
context_id(c) == IdOf(RecvBit[c]) + (IF Inter(c) THEN 1 ELSE 0)
MAXID == 4 * Bits

(***************************************************************************)
(* A call: "split" is MPI_Comm_split, and MPI_Comm_create with one class;  *)
(* "copy" is MPIR_Comm_copy of a whole communicator and, between two       *)
(* sides, MPI_Intercomm_create.  The processes of a class become one       *)
(* communicator.                                                           *)
(***************************************************************************)
Call(p, c) == program[c][thread[<<p, c>>].n + 1]
Class(p, call) == {k \in call.classes : p \in k}

Init ==
  /\ program \in Programs
  /\ context_mask = [p \in Proc |-> (Bit \ 0..2) \ {RecvBit[c] : c \in Own[p]}]
  /\ mask_in_use = [p \in Proc |-> FALSE]
  /\ lowestContextId = [p \in Proc |-> MAXID]
  /\ thread = [t \in Thread |-> [pc |-> "idle", n |-> 0, own |-> FALSE, mask |-> {}, id |-> 0]]
  /\ offered = [c \in Comm |-> [n \in 1..Len(program[c]) |-> 0]]
  /\ told = offered
  /\ comms = [p \in Proc |-> {}]

-----------------------------------------------------------------------------
(***************************************************************************)
(* The top of the loop of MPIR_Get_contextid, up to the collective and: a  *)
(* process lends its mask, unless it is lent or a lower id waits for it.   *)
(***************************************************************************)
Contribute_shared(p, c, inuse) ==
  /\ lowestContextId' = [lowestContextId EXCEPT ![p] = context_id(c)]
  /\ mask_in_use' = [mask_in_use EXCEPT ![p] = TRUE]
  /\ thread' = [thread EXCEPT ![<<p, c>>] = [@ EXCEPT
       !.pc = "reduce", !.own = TRUE, !.mask = context_mask[p]]]

Contribute(p, c, inuse) ==
  LET lend == ~inuse /\ context_id(c) <= lowestContextId[p] IN
  /\ lowestContextId' = [lowestContextId EXCEPT ![p] = Min({@, context_id(c)})]
  /\ mask_in_use' = [mask_in_use EXCEPT ![p] = inuse \/ lend]
  /\ thread' = [thread EXCEPT ![<<p, c>>] = [@ EXCEPT
       !.pc = "reduce", !.own = lend, !.mask = IF lend THEN context_mask[p] ELSE {}]]

(***************************************************************************)
(* A thread calls; or it comes back from its yield and tries again, having *)
(* first given up the mask it had.                                         *)
(***************************************************************************)
Enter(p, c) == /\ thread[<<p, c>>].pc = "idle"
               /\ thread[<<p, c>>].n < Len(program[c])
               /\ Contribute(p, c, mask_in_use[p])
               /\ UNCHANGED <<program, context_mask, offered, told, comms>>

Retry_keeps_mask(p, c) == /\ thread[<<p, c>>].pc = "yield"
                          /\ Contribute(p, c, mask_in_use[p])
                          /\ UNCHANGED <<program, context_mask, offered, told, comms>>

Retry(p, c) == /\ thread[<<p, c>>].pc = "yield"
               /\ Contribute(p, c, mask_in_use[p] /\ ~thread[<<p, c>>].own)
               /\ UNCHANGED <<program, context_mask, offered, told, comms>>

(***************************************************************************)
(* NMPI_Allreduce with MPI_BAND over the members, each in its loop.        *)
(***************************************************************************)
Allreduce(c) ==
  /\ \A p \in Members[c] : thread[<<p, c>>].pc = "reduce"
  /\ thread' = [t \in Thread |-> IF t[2] # c THEN thread[t] ELSE
       [thread[t] EXCEPT !.pc = "evaluate",
                         !.mask = {b \in @ : \A p \in Members[c] : b \in thread[<<p, c>>].mask}]]
  /\ UNCHANGED <<program, context_mask, mask_in_use, lowestContextId, offered, told, comms>>

(***************************************************************************)
(* MPIR_Find_context_bit: the highest bit of the first word that has one.  *)
(***************************************************************************)
Find_in_own_mask(p, mask) == Max(context_mask[p])

Word(b) == b \div WordBits
Find_context_bit(p, mask) ==
  CHOOSE b \in mask :
    \A d \in mask : Word(b) < Word(d) \/ (Word(b) = Word(d) /\ b >= d)

NotFound(p, c) ==
  /\ thread[<<p, c>>].pc = "evaluate"
  /\ ~thread[<<p, c>>].own \/ thread[<<p, c>>].mask = {}
  /\ thread' = [thread EXCEPT ![<<p, c>>].pc = "yield"]
  /\ UNCHANGED <<program, context_mask, mask_in_use, lowestContextId, offered, told, comms>>

(***************************************************************************)
(* The mask is taken back and, unless a lower id waits, open to all again. *)
(***************************************************************************)
TakeBack_no_reset(p, c) ==
  /\ mask_in_use' = [mask_in_use EXCEPT ![p] = FALSE]
  /\ UNCHANGED lowestContextId

TakeBack(p, c) ==
  /\ mask_in_use' = [mask_in_use EXCEPT ![p] = FALSE]
  /\ lowestContextId' = [lowestContextId EXCEPT
                           ![p] = IF @ = context_id(c) THEN MAXID ELSE @]

Return(p, c) == thread' = [thread EXCEPT ![<<p, c>>] =
  [pc |-> "idle", n |-> @.n + 1, own |-> FALSE, mask |-> {}, id |-> 0]]

(***************************************************************************)
(* MPIR_Comm_create, and the fields that its callers set.                  *)
(***************************************************************************)
NewComm(p, c, send, recv) ==
  [from |-> <<c, thread[<<p, c>>].n + 1>>, class |-> UNION Class(p, Call(p, c)),
   context_id |-> send, recvcontext_id |-> recv]

Build(p, c, send, recv) == comms' = [comms EXCEPT ![p] = @ \cup {NewComm(p, c, send, recv)}]

(***************************************************************************)
(* An id was found by all: the process builds its intracommunicator or, if *)
(* it is in no class, gives the id back, before it leaves the section.     *)
(***************************************************************************)
FoundIntra(p, c) ==
  LET bit == Find_context_bit(p, thread[<<p, c>>].mask) IN
  /\ ~Inter(c) /\ thread[<<p, c>>].pc = "evaluate"
  /\ thread[<<p, c>>].own /\ thread[<<p, c>>].mask # {}
  /\ TakeBack(p, c)
  /\ \/ /\ Class(p, Call(p, c)) # {}
        /\ context_mask' = [context_mask EXCEPT ![p] = @ \ {bit}]
        /\ Build(p, c, IdOf(bit), IdOf(bit))
     \/ /\ Class(p, Call(p, c)) = {}
        /\ context_mask' = [context_mask EXCEPT ![p] = @ \cup {bit}]
        /\ UNCHANGED comms
  /\ Return(p, c)
  /\ UNCHANGED <<program, offered, told>>

(***************************************************************************)
(* On an intercommunicator the leader of each side sends its id to the     *)
(* other one, receives the other's and broadcasts it to its side.          *)
(***************************************************************************)
FoundInter(p, c) ==
  LET bit == Find_context_bit(p, thread[<<p, c>>].mask) IN
  /\ Inter(c) /\ thread[<<p, c>>].pc = "evaluate"
  /\ thread[<<p, c>>].own /\ thread[<<p, c>>].mask # {}
  /\ TakeBack(p, c)
  /\ context_mask' = [context_mask EXCEPT ![p] = @ \ {bit}]
  /\ thread' = [thread EXCEPT ![<<p, c>>] = [@ EXCEPT
       !.pc = "exchange", !.id = IdOf(bit), !.own = FALSE, !.mask = {}]]
  /\ offered' = IF p = Leader(c) THEN [offered EXCEPT ![c][thread[<<p, c>>].n + 1] = IdOf(bit)]
                                 ELSE offered
  /\ UNCHANGED <<program, told, comms>>

Exchange(p, c) ==
  LET n == thread[<<p, c>>].n + 1 IN
  /\ p = Leader(c) /\ thread[<<p, c>>].pc = "exchange"
  /\ told[c][n] = 0 /\ offered[Peer[c]][n] # 0
  /\ told' = [told EXCEPT ![c][n] = offered[Peer[c]][n]]
  /\ UNCHANGED <<program, context_mask, mask_in_use, lowestContextId, thread, offered, comms>>

(***************************************************************************)
(* The intercommunicator is built.  MPIR_Comm_copy and                     *)
(* MPI_Intercomm_create receive on the id of this side and send on the     *)
(* other's; MPI_Comm_create and MPI_Comm_split assign them the other way.  *)
(***************************************************************************)
CreateInter(p, c) ==
  LET mine == thread[<<p, c>>].id
      theirs == told[c][thread[<<p, c>>].n + 1]
      class == Class(p, Call(p, c))
      matched == \E k \in class : k \cap Members[Peer[c]] # {} IN
  /\ thread[<<p, c>>].pc = "exchange" /\ theirs # 0
  /\ \/ Call(p, c).op = "copy" /\ Build(p, c, theirs, mine) /\ UNCHANGED context_mask
     \/ Call(p, c).op = "split" /\ matched /\ Build(p, c, mine, theirs) /\ UNCHANGED context_mask
     \/ /\ Call(p, c).op = "split" /\ ~matched /\ UNCHANGED comms
        /\ context_mask' = [context_mask EXCEPT ![p] = @ \cup {BitOf(mine)}]
  /\ Return(p, c)
  /\ UNCHANGED <<program, mask_in_use, lowestContextId, offered, told>>

(***************************************************************************)
(* MPI_Comm_free: without a barrier, and MPIR_Free_contextid does not look *)
(* whether the id was taken.                                               *)
(***************************************************************************)
Comm_free(p, k) ==
  /\ comms' = [comms EXCEPT ![p] = @ \ {k}]
  /\ context_mask' = [context_mask EXCEPT ![p] = @ \cup {BitOf(k.recvcontext_id)}]
  /\ UNCHANGED <<program, mask_in_use, lowestContextId, thread, offered, told>>

Step(p, c) == \/ Enter(p, c) \/ Retry(p, c) \/ NotFound(p, c)
              \/ FoundIntra(p, c) \/ FoundInter(p, c)
              \/ Exchange(p, c) \/ CreateInter(p, c)

Next == \/ \E t \in Thread : Step(t[1], t[2])
        \/ \E c \in Comm : Allreduce(c)
        \/ \E p \in Proc : \E k \in comms[p] : Comm_free(p, k)

Spec == Init /\ [][Next]_vars

(***************************************************************************)
(* The scheduler runs every thread, a collective operation that all have   *)
(* entered ends, and the program makes its calls and frees what it made.   *)
(***************************************************************************)
FairSpec == /\ Spec
            /\ \A t \in Thread : WF_vars(Step(t[1], t[2]))
            /\ \A c \in Comm : WF_vars(Allreduce(c))
            /\ \A p \in Proc : WF_vars(\E k \in comms[p] : Comm_free(p, k))

-----------------------------------------------------------------------------
(***************************************************************************)
(* Types, and: the mask of a process is lent exactly when one thread of it *)
(* owns it (commutil.c, mask_in_use and own_mask).                         *)
(***************************************************************************)
Id == {IdOf(b) : b \in Bit}
CommType == [from : UNION {{c} \X (1..Len(program[c])) : c \in Comm}, class : SUBSET Proc,
             context_id : Id, recvcontext_id : Id]
Owners(p) == {c \in Own[p] : thread[<<p, c>>].own}

TypeOK ==
  /\ context_mask \in [Proc -> SUBSET Bit]
  /\ mask_in_use \in [Proc -> BOOLEAN]
  /\ lowestContextId \in [Proc -> {MAXID} \cup {context_id(c) : c \in Comm}]
  /\ thread \in [Thread -> [pc : {"idle", "reduce", "evaluate", "yield", "exchange"},
                            n : Nat, own : BOOLEAN, mask : SUBSET Bit, id : Id]]
  /\ \A p \in Proc : \A k \in comms[p] : k \in CommType
  /\ \A p \in Proc : Cardinality(Owners(p)) = IF mask_in_use[p] THEN 1 ELSE 0

(***************************************************************************)
(* A process never receives on the same id for two communicators: a        *)
(* message could then match a receive posted on the other one (mpiimpl.h,  *)
(* recvcontext_id; commutil.c, the pool of MPIR_Get_contextid).            *)
(***************************************************************************)
RecvIdsDistinct == \A p \in Proc :
  /\ \A j, k \in comms[p] : j # k => j.recvcontext_id # k.recvcontext_id
  /\ \A k \in comms[p], c \in Own[p] : BitOf(k.recvcontext_id) # RecvBit[c]

(***************************************************************************)
(* The processes of a new communicator agree: what one sends on is what    *)
(* the other receives on, within a group and across the two sides of an    *)
(* intercommunicator (the ids of MPIR_Get_contextid at every member, and   *)
(* the exchange of the leaders).                                           *)
(***************************************************************************)
MembersAgree == \A p, q \in Proc : \A j \in comms[p], k \in comms[q] :
  LET c == j.from[1]  d == k.from[1] IN
  /\ j.from = k.from
       => j.context_id = k.context_id /\ j.recvcontext_id = k.recvcontext_id
  /\ Inter(c) /\ d = Peer[c] /\ j.from[2] = k.from[2]
       => j.context_id = k.recvcontext_id /\ j.recvcontext_id = k.context_id

(***************************************************************************)
(* What the ids of commutil.c are for: messages of different communicators *)
(* never meet, and those of one find each other.  The first half does not  *)
(* hold where MPI_Comm_split or MPI_Comm_create make an intercommunicator  *)
(* of sides that chose different ids (README, "What the models found").    *)
(***************************************************************************)
IdsRight == RecvIdsDistinct /\ MembersAgree

(***************************************************************************)
(* An id leaves the pools of all the members at once, from an and of their *)
(* masks that was computed earlier, and comes back once for every time it  *)
(* was taken.  The members that have the result of the collective and have *)
(* not looked at it yet have their id already.                             *)
(***************************************************************************)
Granted(p) == {Find_context_bit(p, thread[<<p, c>>].mask) :
                 c \in {d \in Own[p] : thread[<<p, d>>].pc = "evaluate" /\ thread[<<p, d>>].mask # {}}}
InHand(p) == {BitOf(thread[<<p, c>>].id) :
                c \in {d \in Own[p] : thread[<<p, d>>].pc = "exchange"}}

Alloc == INSTANCE ContextAlloc WITH
  Group <- {Members[c] : c \in Comm},
  Pool <- [p \in Proc |-> (Bit \ 0..2) \ {RecvBit[c] : c \in Own[p]}],
  free <- [p \in Proc |-> context_mask[p] \ Granted(p)],
  held <- [p \in Proc |-> {BitOf(k.recvcontext_id) : k \in comms[p]} \cup Granted(p) \cup InHand(p)]

ImplementsAlloc == Alloc!Spec

(***************************************************************************)
(* All calls return, however the threads of different communicators        *)
(* meet: some call always gets the masks of all its members (commutil.c,   *)
(* lowestContextId "is used to break ties when multiple threads are        *)
(* contending for the mask").                                              *)
(***************************************************************************)
CallsReturn == <>[](\A t \in Thread :
  thread[t].pc = "idle" /\ thread[t].n = Len(program[t[2]]))
===============================================================================
